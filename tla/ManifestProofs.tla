--------------------------- MODULE ManifestProofs ---------------------------
(***************************************************************************)
(* What the pure operators of Manifests and Commands return: the facts     *)
(* about the loops over manifests, packages and architectures on which the *)
(* proofs of the repository rest. The operators are folds of the community *)
(* modules, so each lemma first unrolls its fold into a chain of steps     *)
(* (the lemmas named ...Steps) and then goes along the chain, by the well  *)
(* ordering of the natural numbers.                                        *)
(***************************************************************************)
EXTENDS Commands, SequenceTheorems, FiniteSetTheorems, WellFoundedInduction, TLAPS

\* A set of natural numbers has a least element.
LEMMA LeastNat ==
  ASSUME NEW S, S \subseteq Nat, S # {}
  PROVE  \E n \in S : \A m \in S : n <= m
<1> DEFINE R == {ss \in Nat \X Nat : ss[1] < ss[2]}
<1>1. IsWellFoundedOn(R, Nat)
  BY NatLessThanWellFounded DEF OpToRel
<1> HIDE DEF R
<1>2. PICK n \in S : \A m \in S : <<m, n>> \notin R
  BY <1>1, WFMin, Zenon
<1>3. ASSUME NEW m \in S PROVE n <= m
  <2>1. \A x, y \in Nat : x < y => <<x, y>> \in R
    BY DEF R
  <2>2. <<m, n>> \notin R
    BY <1>2
  <2>3. QED
    BY <2>1, <2>2
<1>4. QED
  BY <1>2, <1>3

\* Induction up to n, for a set instead of a predicate.
LEMMA Interval ==
  ASSUME NEW n \in Nat, NEW S, 0 \in S,
         \A m \in 1..n : m - 1 \in S => m \in S
  PROVE  \A m \in 0..n : m \in S
<1> DEFINE Bad == {m \in 0..n : m \notin S}
<1>1. SUFFICES ASSUME NEW k \in 0..n, k \notin S PROVE FALSE
  OBVIOUS
<1>2. PICK m \in Bad : \A i \in Bad : m <= i
  <2>1. Bad # {} /\ Bad \subseteq Nat
    BY <1>1
  <2> HIDE DEF Bad
  <2>2. QED
    BY <2>1, LeastNat
<1>3. m # 0
  OBVIOUS
<1>4. m \in 1..n /\ m - 1 \in 0..n /\ ~(m <= m - 1)
  BY <1>3
<1>5. m - 1 \in S
  BY <1>2, <1>4
<1>6. QED
  BY <1>4, <1>5

\* Max of the community modules is the greatest element.
LEMMA MaxOf ==
  ASSUME NEW n \in Nat, NEW s \in SUBSET (1..n), s # {}
  PROVE  Max(s) \in s /\ \A x \in s : Max(s) >= x
<1> DEFINE D == {n - x : x \in s}
<1>1. D \subseteq Nat /\ D # {}
  <2>1. \A x \in s : n - x \in Nat
    OBVIOUS
  <2>2. QED
    BY <2>1
<1>2. PICK d \in D : \A e \in D : d <= e
  <2> HIDE DEF D
  <2> QED BY <1>1, LeastNat
<1>3. PICK x \in s : d = n - x
  OBVIOUS
<1>4. ASSUME NEW y \in s PROVE x >= y
  <2>1. n - y \in D /\ x \in Nat /\ y \in Nat
    OBVIOUS
  <2>2. n - x <= n - y
    BY <1>2, <1>3, <2>1
  <2>3. QED
    BY <2>1, <2>2
<1>5. QED
  BY <1>4 DEF Max

\* The folds take 1..i apart from its end.
LEMMA MaxOfInterval ==
  ASSUME NEW i \in Nat \ {0}
  PROVE  Max(1..i) = i /\ (1..i) \ {i} = 1..(i - 1) /\ 1..i # {}
<1>1. 1..i \in SUBSET (1..i) /\ 1..i # {} /\ i \in 1..i
  OBVIOUS
<1>2. Max(1..i) \in 1..i /\ Max(1..i) >= i
  BY <1>1, MaxOf
<1>3. Max(1..i) = i
  BY <1>2
<1>4. (1..i) \ {i} = 1..(i - 1)
  OBVIOUS
<1>5. QED
  BY <1>1, <1>3, <1>4

\* it is the function that the folds compute: it applies the steps of s in
\* order.
IsFold(it, m, base, step) ==
  \A s \in SUBSET (1..m) :
    it[s] = IF s = {} THEN base ELSE step[Max(s)][it[s \ {Max(s)}]]

\* Such a function exists, so CHOOSE finds one.
LEMMA FoldExists ==
  ASSUME NEW n \in Nat, NEW V, NEW base \in V,
         NEW step \in [1..n -> [V -> V]]
  PROVE  \E it \in [SUBSET (1..n) -> V] : IsFold(it, n, base, step)
<1> DEFINE S == {m \in 0..n :
                   \E it \in [SUBSET (1..m) -> V] : IsFold(it, m, base, step)}
<1>1. 0 \in S
  <2> DEFINE it == [s \in SUBSET (1..0) |-> base]
  <2>1. it \in [SUBSET (1..0) -> V] /\ IsFold(it, 0, base, step)
    BY DEF IsFold
  <2> HIDE DEF it
  <2>2. \E g \in [SUBSET (1..0) -> V] : IsFold(g, 0, base, step)
    BY <2>1
  <2>3. 0 \in 0..n
    OBVIOUS
  <2>4. QED
    BY <2>2, <2>3, Zenon
<1>2. ASSUME NEW m \in 1..n, m - 1 \in S PROVE m \in S
  <2>1. PICK g \in [SUBSET (1..(m - 1)) -> V] : IsFold(g, m - 1, base, step)
    BY <1>2
  <2> DEFINE it == [s \in SUBSET (1..m) |->
                      IF m \in s THEN step[m][g[s \ {m}]] ELSE g[s]]
  <2>2. \A s \in SUBSET (1..m) : s \ {m} \in SUBSET (1..(m - 1))
    OBVIOUS
  <2>3. it \in [SUBSET (1..m) -> V]
    BY <2>1, <2>2
  <2>4. ASSUME NEW s \in SUBSET (1..m), s # {}
        PROVE  it[s] = step[Max(s)][it[s \ {Max(s)}]]
    <3>1. Max(s) \in s /\ \A x \in s : Max(s) >= x
      <4>1. m \in Nat
        OBVIOUS
      <4>2. QED
        BY <2>4, <4>1, MaxOf
    <3>0. \A t \in SUBSET (1..m) :
            it[t] = IF m \in t THEN step[m][g[t \ {m}]] ELSE g[t]
      OBVIOUS
    <3> HIDE DEF it
    <3>2. CASE m \in s
      <4>1. Max(s) = m
        <5>1. Max(s) \in 1..m /\ Max(s) >= m
          BY <3>1, <3>2
        <5>2. QED
          BY <5>1
      <4>2. it[s] = step[m][g[s \ {m}]]
        BY <3>0, <3>2
      <4>3. it[s \ {m}] = g[s \ {m}]
        BY <3>0
      <4>4. QED
        BY <4>1, <4>2, <4>3
    <3>3. CASE m \notin s
      <4>1. s \in SUBSET (1..(m - 1)) /\ s \ {Max(s)} \in SUBSET (1..(m - 1))
        BY <3>3, <2>2
      <4>2. m \notin s \ {Max(s)} /\ s \ {Max(s)} \in SUBSET (1..m)
        BY <3>3
      <4>3. it[s] = g[s] /\ it[s \ {Max(s)}] = g[s \ {Max(s)}]
        BY <3>0, <3>3, <4>2
      <4>4. QED
        BY <4>1, <4>3, <2>1, <2>4 DEF IsFold
    <3>4. QED
      BY <3>2, <3>3
  <2>5. it[{}] = base
    <3>1. g[{}] = base
      BY <2>1 DEF IsFold
    <3>2. QED
      BY <3>1
  <2>6. IsFold(it, m, base, step)
    BY <2>4, <2>5 DEF IsFold
  <2> HIDE DEF it
  <2>7. QED
    BY <2>3, <2>6
<1>3. \A m \in 0..n : m \in S
  <2> HIDE DEF S
  <2> QED BY <1>1, <1>2, Interval
<1>4. n \in S
  <2> HIDE DEF S
  <2> QED BY <1>3
<1>5. QED
  BY <1>4

\* What of IsFold is known of a function that was chosen, whatever values it
\* has outside V.
Folds(it, n, V, base, step) ==
  /\ it[{}] = base
  /\ \A s \in SUBSET (1..n) :
       s # {} /\ it[s \ {Max(s)}] \in V => it[s] = step[Max(s)][it[s \ {Max(s)}]]

\* f[i] is what the first i steps make of the base.
IsChain(f, n, base, step) ==
  f[0] = base /\ \A i \in 1..n : f[i] = step[i][f[i - 1]]

\* A fold over a sequence is its steps, one after the other.
LEMMA FoldSteps ==
  ASSUME NEW n \in Nat, NEW V, NEW base \in V,
         NEW step \in [1..n -> [V -> V]],
         NEW it, Folds(it, n, V, base, step)
  PROVE  \E f \in [0..n -> V] : IsChain(f, n, base, step) /\ f[n] = it[1..n]
<1>1. 1..0 = {}
  OBVIOUS
<1>2. ASSUME NEW i \in 1..n, it[1..(i - 1)] \in V
      PROVE  it[1..i] = step[i][it[1..(i - 1)]] /\ it[1..i] \in V
  <2>1. i \in Nat \ {0} /\ 1..i \in SUBSET (1..n)
    OBVIOUS
  <2>2. Max(1..i) = i /\ (1..i) \ {i} = 1..(i - 1) /\ 1..i # {}
    BY <2>1, MaxOfInterval
  <2>3. it[1..i] = step[i][it[1..(i - 1)]]
    BY <1>2, <2>1, <2>2 DEF Folds
  <2>4. QED
    BY <1>2, <2>3
<1>3. \A i \in 0..n : it[1..i] \in V
  <2> DEFINE P == {i \in 0..n : it[1..i] \in V}
  <2>1. 0 \in P
    BY <1>1 DEF Folds
  <2>2. ASSUME NEW i \in 1..n, i - 1 \in P PROVE i \in P
    BY <2>2, <1>2
  <2> HIDE DEF P
  <2>3. \A i \in 0..n : i \in P
    BY <2>1, <2>2, Interval
  <2>4. QED
    BY <2>3 DEF P
<1> DEFINE f == [i \in 0..n |-> it[1..i]]
<1>4. f \in [0..n -> V] /\ f[0] = base /\ f[n] = it[1..n]
  BY <1>1, <1>3 DEF Folds
<1>5. ASSUME NEW i \in 1..n PROVE f[i] = step[i][f[i - 1]]
  <2>1. i - 1 \in 0..n /\ i \in 0..n
    OBVIOUS
  <2>2. QED
    BY <2>1, <1>2, <1>3
<1> HIDE DEF f
<1>6. IsChain(f, n, base, step)
  BY <1>4, <1>5 DEF IsChain
<1>7. QED
  BY <1>4, <1>6

\* Append adds one element.
LEMMA AppendRange ==
  ASSUME NEW T, NEW v \in Seq(T), NEW x
  PROVE  ToSet(Append(v, x)) = ToSet(v) \cup {x}
<1>1. DOMAIN Append(v, x) = DOMAIN v \cup {Len(v) + 1}
  OBVIOUS
<1>2. Append(v, x)[Len(v) + 1] = x /\ \A i \in DOMAIN v : Append(v, x)[i] = v[i]
  OBVIOUS
<1>3. QED
  BY <1>1, <1>2 DEF ToSet

\* Concatenation adds the elements of the second sequence.
LEMMA ConcatRange ==
  ASSUME NEW T, NEW v \in Seq(T), NEW w \in Seq(T)
  PROVE  v \o w \in Seq(T) /\ ToSet(v \o w) = ToSet(v) \cup ToSet(w)
<1>1. v \o w \in Seq(T) /\ Len(v \o w) = Len(v) + Len(w)
      /\ \A i \in 1..(Len(v) + Len(w)) :
           (v \o w)[i] = IF i <= Len(v) THEN v[i] ELSE w[i - Len(v)]
  OBVIOUS
<1>2. ASSUME NEW e \in ToSet(w) PROVE e \in ToSet(v \o w)
  <2>1. PICK i \in 1..Len(w) : w[i] = e
    BY DEF ToSet
  <2>2. Len(v) + i \in 1..(Len(v) + Len(w)) /\ (v \o w)[Len(v) + i] = e
    BY <1>1, <2>1
  <2>3. QED
    BY <1>1, <2>2 DEF ToSet
<1>3. ASSUME NEW e \in ToSet(v) PROVE e \in ToSet(v \o w)
  BY <1>1 DEF ToSet
<1>4. ASSUME NEW e \in ToSet(v \o w) PROVE e \in ToSet(v) \cup ToSet(w)
  BY <1>1 DEF ToSet
<1>5. QED
  BY <1>1, <1>2, <1>3, <1>4

\* KeepOnly goes through its sequence from front to back.
LEMMA KeepOnlySteps ==
  ASSUME NEW T, NEW seq \in Seq(T), NEW S
  PROVE  \E f \in [0..Len(seq) -> Seq(T)] :
           /\ f[0] = <<>>
           /\ \A i \in 1..Len(seq) : f[i] = AppendIf(f[i - 1], seq[i], S)
           /\ f[Len(seq)] = KeepOnly(seq, S)
<1> DEFINE n == Len(seq)
           V == Seq(T)
           base == <<>>
           Op(v, x) == AppendIf(v, seq[x], S)
           step == [x \in 1..n |-> [v \in V |-> Op(v, x)]]
           Good(it) == it = [s \in SUBSET DOMAIN seq |->
                               IF s = {} THEN base
                               ELSE LET x == Max(s) IN Op(it[s \ {x}], x)]
<1>1. KeepOnly(seq, S) = (CHOOSE it : Good(it))[DOMAIN seq]
  BY DEF KeepOnly, FoldLeft, MapThenFoldSet
<1>2. DOMAIN seq = 1..n
  OBVIOUS
<1>3. n \in Nat
  OBVIOUS
<1>4. base \in V
  OBVIOUS
<1>5. \A x \in 1..n, v \in V : Op(v, x) \in V
  BY DEF AppendIf
<1> HIDE DEF Op, n, V, base
<1>6. step \in [1..n -> [V -> V]]
  BY <1>5
<1>7. \A x \in 1..n, v \in V : step[x][v] = Op(v, x)
  OBVIOUS
<1> HIDE DEF step
<1>8. \A s \in SUBSET (1..n) : s # {} => Max(s) \in 1..n
          /\ s \ {Max(s)} \in SUBSET (1..n)
  BY <1>3, MaxOf
<1>9. \E it : Good(it)
  <2>1. PICK it \in [SUBSET (1..n) -> V] : IsFold(it, n, base, step)
    BY <1>3, <1>4, <1>6, FoldExists
  <2>2. \A s \in SUBSET (1..n) :
          it[s] = IF s = {} THEN base ELSE Op(it[s \ {Max(s)}], Max(s))
    BY <1>7, <1>8, <2>1 DEF IsFold
  <2>3. it = [s \in SUBSET (1..n) |-> it[s]]
    OBVIOUS
  <2>4. QED
    BY <1>2, <2>2, <2>3
<1>10. PICK it : Good(it) /\ KeepOnly(seq, S) = it[DOMAIN seq]
  <2> HIDE DEF Good
  <2> QED BY <1>1, <1>9
<1>11. Folds(it, n, V, base, step)
  <2>1. \A s \in SUBSET (1..n) :
          it[s] = IF s = {} THEN base ELSE Op(it[s \ {Max(s)}], Max(s))
    BY <1>2, <1>10
  <2>2. QED
    BY <1>7, <1>8, <2>1 DEF Folds
<1> HIDE DEF Good
<1>12. PICK f \in [0..n -> V] : IsChain(f, n, base, step) /\ f[n] = it[1..n]
  BY ONLY <1>3, <1>4, <1>6, <1>11, FoldSteps, SMTT(30)
<1>13. \A i \in 1..n : f[i] = Op(f[i - 1], i)
  <2>1. \A i \in 1..n : f[i - 1] \in V
    BY <1>3
  <2>2. QED
    BY <1>7, <1>12, <2>1 DEF IsChain
<1>14. f[0] = base /\ f[n] = KeepOnly(seq, S)
  BY <1>2, <1>10, <1>12 DEF IsChain
<1>15. QED
  BY <1>13, <1>14 DEF n, V, base, Op

\* KeepOnly returns exactly the elements that are in the set (a loop with an
\* if in the code).
LEMMA KeepOnlyFacts ==
  ASSUME NEW T, NEW seq \in Seq(T), NEW S
  PROVE  /\ KeepOnly(seq, S) \in Seq(T)
         /\ ToSet(KeepOnly(seq, S)) = ToSet(seq) \cap S
<1> DEFINE n == Len(seq)
<1>1. PICK f \in [0..n -> Seq(T)] :
        /\ f[0] = <<>>
        /\ \A i \in 1..n : f[i] = AppendIf(f[i - 1], seq[i], S)
        /\ f[n] = KeepOnly(seq, S)
  BY KeepOnlySteps
<1>2. n \in Nat /\ DOMAIN seq = 1..n
  OBVIOUS
<1> HIDE DEF n
<1> DEFINE P == {i \in 0..n : ToSet(f[i]) = {seq[k] : k \in 1..i} \cap S}
<1>3. 0 \in P
  BY <1>1, <1>2 DEF ToSet
<1>4. ASSUME NEW i \in 1..n, i - 1 \in P PROVE i \in P
  <2>1. f[i - 1] \in Seq(T) /\ ToSet(f[i - 1]) = {seq[k] : k \in 1..(i - 1)} \cap S
    BY <1>2, <1>4
  <2>2. 1..i = (1..(i - 1)) \cup {i}
    BY <1>2
  <2>3. \A v \in Seq(T) : \A x : ToSet(Append(v, x)) = ToSet(v) \cup {x}
    BY AppendRange
  <2>4. ToSet(f[i]) = ToSet(f[i - 1]) \cup ({seq[i]} \cap S)
    BY <1>1, <2>1, <2>3 DEF AppendIf
  <2>5. ToSet(f[i]) = {seq[k] : k \in 1..i} \cap S
    BY <2>1, <2>2, <2>4
  <2>6. QED
    BY <2>5
<1> HIDE DEF P
<1>5. \A i \in 0..n : i \in P
  BY <1>2, <1>3, <1>4, Interval
<1>6. n \in P
  BY <1>2, <1>5
<1>7. QED
  BY <1>1, <1>2, <1>6 DEF P, ToSet

\* f[i] is what the first i elements make of the sequence.
IsAppending(f, seq, xs) ==
  /\ f[0] = seq
  /\ \A i \in 1..Len(xs) : f[i] = AppendUnique(f[i - 1], xs[i])
  /\ f[Len(xs)] = AppendAllUnique(seq, xs)

\* AppendAllUnique goes through its sequence from front to back.
LEMMA AppendAllUniqueSteps ==
  ASSUME NEW T, NEW seq \in Seq(T), NEW xs \in Seq(T)
  PROVE  \E f \in [0..Len(xs) -> Seq(T)] : IsAppending(f, seq, xs)
<1> DEFINE n == Len(xs)
           V == Seq(T)
           base == seq
           Op(v, x) == AppendUnique(v, xs[x])
           step == [x \in 1..n |-> [v \in V |-> Op(v, x)]]
           Good(it) == it = [s \in SUBSET DOMAIN xs |->
                               IF s = {} THEN base
                               ELSE LET x == Max(s) IN Op(it[s \ {x}], x)]
<1>1. AppendAllUnique(seq, xs) = (CHOOSE it : Good(it))[DOMAIN xs]
  BY DEF AppendAllUnique, FoldLeft, MapThenFoldSet
<1>2. DOMAIN xs = 1..n
  OBVIOUS
<1>3. n \in Nat
  OBVIOUS
<1>4. base \in V
  OBVIOUS
<1>5. \A x \in 1..n, v \in V : Op(v, x) \in V
  BY DEF AppendUnique
<1> HIDE DEF Op, n, V, base
<1>6. step \in [1..n -> [V -> V]]
  BY <1>5
<1>7. \A x \in 1..n, v \in V : step[x][v] = Op(v, x)
  OBVIOUS
<1> HIDE DEF step
<1>8. \A s \in SUBSET (1..n) : s # {} => Max(s) \in 1..n
          /\ s \ {Max(s)} \in SUBSET (1..n)
  BY <1>3, MaxOf
<1>9. \E it : Good(it)
  <2>1. PICK it \in [SUBSET (1..n) -> V] : IsFold(it, n, base, step)
    BY <1>3, <1>4, <1>6, FoldExists
  <2>2. \A s \in SUBSET (1..n) :
          it[s] = IF s = {} THEN base ELSE Op(it[s \ {Max(s)}], Max(s))
    BY <1>7, <1>8, <2>1 DEF IsFold
  <2>3. it = [s \in SUBSET (1..n) |-> it[s]]
    OBVIOUS
  <2>4. QED
    BY <1>2, <2>2, <2>3
<1>10. PICK it : Good(it) /\ AppendAllUnique(seq, xs) = it[DOMAIN xs]
  <2> HIDE DEF Good
  <2> QED BY <1>1, <1>9
<1>11. Folds(it, n, V, base, step)
  <2>1. \A s \in SUBSET (1..n) :
          it[s] = IF s = {} THEN base ELSE Op(it[s \ {Max(s)}], Max(s))
    BY <1>2, <1>10
  <2>2. QED
    BY <1>7, <1>8, <2>1 DEF Folds
<1> HIDE DEF Good
<1>12. PICK f \in [0..n -> V] : IsChain(f, n, base, step) /\ f[n] = it[1..n]
  BY ONLY <1>3, <1>4, <1>6, <1>11, FoldSteps, SMTT(30)
<1>13. \A i \in 1..n : f[i] = Op(f[i - 1], i)
  <2>1. \A i \in 1..n : f[i - 1] \in V
    BY <1>3
  <2>2. QED
    BY <1>7, <1>12, <2>1 DEF IsChain
<1>14. f[0] = base /\ f[n] = AppendAllUnique(seq, xs)
  BY <1>2, <1>10, <1>12 DEF IsChain
<1>15. QED
  BY <1>13, <1>14 DEF n, V, base, Op, IsAppending

\* Reported goes through the packages of the index from front to back.
LEMMA ReportedSteps ==
  ASSUME NEW T, NEW reported \in Seq(T), NEW packages \in Seq(T)
  PROVE  \E f \in [0..Len(packages) -> Seq(T)] :
           /\ f[0] = reported
           /\ \A i \in 1..Len(packages) : f[i] = ReportNext(f[i - 1], packages[i])
           /\ f[Len(packages)] = Reported(reported, packages)
<1> DEFINE n == Len(packages)
           V == Seq(T)
           base == reported
           Op(v, x) == ReportNext(v, packages[x])
           step == [x \in 1..n |-> [v \in V |-> Op(v, x)]]
           Good(it) == it = [s \in SUBSET DOMAIN packages |->
                               IF s = {} THEN base
                               ELSE LET x == Max(s) IN Op(it[s \ {x}], x)]
<1>1. Reported(reported, packages) = (CHOOSE it : Good(it))[DOMAIN packages]
  BY DEF Reported, FoldLeft, MapThenFoldSet
<1>2. DOMAIN packages = 1..n
  OBVIOUS
<1>3. n \in Nat
  OBVIOUS
<1>4. base \in V
  OBVIOUS
<1>5. \A x \in 1..n, v \in V : Op(v, x) \in V
  BY DEF ReportNext
<1> HIDE DEF Op, n, V, base
<1>6. step \in [1..n -> [V -> V]]
  BY <1>5
<1>7. \A x \in 1..n, v \in V : step[x][v] = Op(v, x)
  OBVIOUS
<1> HIDE DEF step
<1>8. \A s \in SUBSET (1..n) : s # {} => Max(s) \in 1..n
          /\ s \ {Max(s)} \in SUBSET (1..n)
  BY <1>3, MaxOf
<1>9. \E it : Good(it)
  <2>1. PICK it \in [SUBSET (1..n) -> V] : IsFold(it, n, base, step)
    BY <1>3, <1>4, <1>6, FoldExists
  <2>2. \A s \in SUBSET (1..n) :
          it[s] = IF s = {} THEN base ELSE Op(it[s \ {Max(s)}], Max(s))
    BY <1>7, <1>8, <2>1 DEF IsFold
  <2>3. it = [s \in SUBSET (1..n) |-> it[s]]
    OBVIOUS
  <2>4. QED
    BY <1>2, <2>2, <2>3
<1>10. PICK it : Good(it) /\ Reported(reported, packages) = it[DOMAIN packages]
  <2> HIDE DEF Good
  <2> QED BY <1>1, <1>9
<1>11. Folds(it, n, V, base, step)
  <2>1. \A s \in SUBSET (1..n) :
          it[s] = IF s = {} THEN base ELSE Op(it[s \ {Max(s)}], Max(s))
    BY <1>2, <1>10
  <2>2. QED
    BY <1>7, <1>8, <2>1 DEF Folds
<1> HIDE DEF Good
<1>12. PICK f \in [0..n -> V] : IsChain(f, n, base, step) /\ f[n] = it[1..n]
  BY ONLY <1>3, <1>4, <1>6, <1>11, FoldSteps, SMTT(30)
<1>13. \A i \in 1..n : f[i] = Op(f[i - 1], i)
  <2>1. \A i \in 1..n : f[i - 1] \in V
    BY <1>3
  <2>2. QED
    BY <1>7, <1>12, <2>1 DEF IsChain
<1>14. f[0] = base /\ f[n] = Reported(reported, packages)
  BY <1>2, <1>10, <1>12 DEF IsChain
<1>15. QED
  BY <1>13, <1>14 DEF n, V, base, Op

\* f[i] is what the first i placements make of the architectures.
IsReading(f, archs, placements) ==
  /\ f[0] = archs
  /\ \A i \in 1..Len(placements) : f[i] = ReadArch(f[i - 1], placements[i])
  /\ f[Len(placements)] = ReadArchs(archs, placements)

\* ReadArchs goes through the placements from front to back.
LEMMA ReadArchsSteps ==
  ASSUME NEW T, NEW archs \in Seq(T), NEW placements \in Seq(T),
         StandardArchs \in Seq(T)
  PROVE  \E f \in [0..Len(placements) -> Seq(T)] : IsReading(f, archs, placements)
<1> DEFINE n == Len(placements)
           V == Seq(T)
           base == archs
           Op(v, x) == ReadArch(v, placements[x])
           step == [x \in 1..n |-> [v \in V |-> Op(v, x)]]
           Good(it) == it = [s \in SUBSET DOMAIN placements |->
                               IF s = {} THEN base
                               ELSE LET x == Max(s) IN Op(it[s \ {x}], x)]
<1>1. ReadArchs(archs, placements) = (CHOOSE it : Good(it))[DOMAIN placements]
  BY DEF ReadArchs, FoldLeft, MapThenFoldSet
<1>2. DOMAIN placements = 1..n
  OBVIOUS
<1>3. n \in Nat
  OBVIOUS
<1>4. base \in V
  OBVIOUS
<1>5. \A x \in 1..n, v \in V : Op(v, x) \in V
  BY DEF ReadArch, AppendUnique
<1> HIDE DEF Op, n, V, base
<1>6. step \in [1..n -> [V -> V]]
  BY <1>5
<1>7. \A x \in 1..n, v \in V : step[x][v] = Op(v, x)
  OBVIOUS
<1> HIDE DEF step
<1>8. \A s \in SUBSET (1..n) : s # {} => Max(s) \in 1..n
          /\ s \ {Max(s)} \in SUBSET (1..n)
  BY <1>3, MaxOf
<1>9. \E it : Good(it)
  <2>1. PICK it \in [SUBSET (1..n) -> V] : IsFold(it, n, base, step)
    BY <1>3, <1>4, <1>6, FoldExists
  <2>2. \A s \in SUBSET (1..n) :
          it[s] = IF s = {} THEN base ELSE Op(it[s \ {Max(s)}], Max(s))
    BY <1>7, <1>8, <2>1 DEF IsFold
  <2>3. it = [s \in SUBSET (1..n) |-> it[s]]
    OBVIOUS
  <2>4. QED
    BY <1>2, <2>2, <2>3
<1>10. PICK it : Good(it) /\ ReadArchs(archs, placements) = it[DOMAIN placements]
  <2> HIDE DEF Good
  <2> QED BY <1>1, <1>9
<1>11. Folds(it, n, V, base, step)
  <2>1. \A s \in SUBSET (1..n) :
          it[s] = IF s = {} THEN base ELSE Op(it[s \ {Max(s)}], Max(s))
    BY <1>2, <1>10
  <2>2. QED
    BY <1>7, <1>8, <2>1 DEF Folds
<1> HIDE DEF Good
<1>12. PICK f \in [0..n -> V] : IsChain(f, n, base, step) /\ f[n] = it[1..n]
  BY ONLY <1>3, <1>4, <1>6, <1>11, FoldSteps, SMTT(30)
<1>13. \A i \in 1..n : f[i] = Op(f[i - 1], i)
  <2>1. \A i \in 1..n : f[i - 1] \in V
    BY <1>3
  <2>2. QED
    BY <1>7, <1>12, <2>1 DEF IsChain
<1>14. f[0] = base /\ f[n] = ReadArchs(archs, placements)
  BY <1>2, <1>10, <1>12 DEF IsChain
<1>15. QED
  BY <1>13, <1>14 DEF n, V, base, Op, IsReading

\* appendUnique adds the element whether or not it was there.
LEMMA AppendUniqueRange ==
  ASSUME NEW T, NEW v \in Seq(T), NEW x
  PROVE  ToSet(AppendUnique(v, x)) = ToSet(v) \cup {x}
<1>1. Contains(v, x) <=> x \in ToSet(v)
  BY DEF Contains, ToSet
<1>2. QED
  BY <1>1, AppendRange DEF AppendUnique

\* Release.UpdateManifest adds every component and architecture, and loses
\* none.
LEMMA AppendAllUniqueFacts ==
  ASSUME NEW T, NEW seq \in Seq(T), NEW xs \in Seq(T)
  PROVE  /\ AppendAllUnique(seq, xs) \in Seq(T)
         /\ ToSet(AppendAllUnique(seq, xs)) = ToSet(seq) \cup ToSet(xs)
<1> DEFINE n == Len(xs)
<1>0. PICK f \in [0..n -> Seq(T)] : IsAppending(f, seq, xs)
  BY ONLY seq \in Seq(T), xs \in Seq(T), AppendAllUniqueSteps, Zenon
<1>1. /\ f[0] = seq
      /\ \A i \in 1..n : f[i] = AppendUnique(f[i - 1], xs[i])
      /\ f[n] = AppendAllUnique(seq, xs)
  BY <1>0 DEF IsAppending
<1>2. n \in Nat /\ DOMAIN xs = 1..n
  OBVIOUS
<1> HIDE DEF n
<1> DEFINE P == {i \in 0..n : ToSet(f[i]) = ToSet(seq) \cup {xs[k] : k \in 1..i}}
<1>3. 0 \in P
  BY <1>1, <1>2
<1>4. ASSUME NEW i \in 1..n, i - 1 \in P PROVE i \in P
  <2>1. f[i - 1] \in Seq(T)
            /\ ToSet(f[i - 1]) = ToSet(seq) \cup {xs[k] : k \in 1..(i - 1)}
    BY <1>2, <1>4
  <2>2. 1..i = (1..(i - 1)) \cup {i}
    BY <1>2
  <2>3. ToSet(f[i]) = ToSet(f[i - 1]) \cup {xs[i]}
    BY <1>1, <2>1, AppendUniqueRange
  <2>4. ToSet(f[i]) = ToSet(seq) \cup {xs[k] : k \in 1..i}
    BY <2>1, <2>2, <2>3
  <2>5. QED
    BY <2>4
<1> HIDE DEF P
<1>5. \A i \in 0..n : i \in P
  BY <1>2, <1>3, <1>4, Interval
<1>6. n \in P
  BY <1>2, <1>5
<1>7. ToSet(f[n]) = ToSet(seq) \cup {xs[k] : k \in 1..n}
  BY <1>6 DEF P
<1>8. ToSet(xs) = {xs[k] : k \in 1..n}
  BY <1>2 DEF ToSet
<1>9. f[n] \in Seq(T)
  BY <1>1, <1>2
<1>10. QED
  BY ONLY <1>1, <1>7, <1>8, <1>9

\* list forgets nothing it has reported, and invents nothing.
LEMMA ReportedFacts ==
  ASSUME NEW T, NEW reported \in Seq(T), NEW packages \in Seq(T)
  PROVE  /\ Reported(reported, packages) \in Seq(T)
         /\ ToSet(reported) \subseteq ToSet(Reported(reported, packages))
         /\ ToSet(Reported(reported, packages))
                \subseteq ToSet(reported) \cup ToSet(packages)
<1> DEFINE n == Len(packages)
<1>1. PICK f \in [0..n -> Seq(T)] :
        /\ f[0] = reported
        /\ \A i \in 1..n : f[i] = ReportNext(f[i - 1], packages[i])
        /\ f[n] = Reported(reported, packages)
  BY ONLY reported \in Seq(T), packages \in Seq(T), ReportedSteps
<1>2. n \in Nat /\ DOMAIN packages = 1..n
  OBVIOUS
<1> HIDE DEF n
<1> DEFINE P == {i \in 0..n :
                   /\ ToSet(reported) \subseteq ToSet(f[i])
                   /\ ToSet(f[i]) \subseteq ToSet(reported) \cup ToSet(packages)}
<1>3. 0 \in P
  BY <1>1, <1>2
<1>4. ASSUME NEW i \in 1..n, i - 1 \in P PROVE i \in P
  <2>1. f[i - 1] \in Seq(T)
    BY <1>2
  <2>0. packages[i] \in ToSet(packages)
    BY <1>2 DEF ToSet
  <2>2. \/ ToSet(f[i]) = ToSet(f[i - 1])
        \/ ToSet(f[i]) = ToSet(f[i - 1]) \cup {packages[i]}
    BY <1>1, <2>1, AppendRange DEF ReportNext
  <2>3. QED
    BY <1>4, <2>0, <2>2
<1> HIDE DEF P
<1>5. \A i \in 0..n : i \in P
  BY <1>2, <1>3, <1>4, Interval
<1>6. n \in P
  BY <1>2, <1>5
<1>7. QED
  BY <1>1, <1>6 DEF P

\* Manifest.Add leaves what it does not replace, and adds the entry.
LEMMA AddFacts ==
  ASSUME NEW T, NEW packages \in Seq(T), NEW e \in T, NEW preserve
  PROVE  /\ Add(packages, e, preserve) \in Seq(T)
         /\ ToSet(Add(packages, e, preserve)) =
              {f \in ToSet(packages) : ~Replaces(e, f, preserve)} \cup {e}
<1> DEFINE S == {f \in ToSet(packages) : ~Replaces(e, f, preserve)}
<1>1. KeepOnly(packages, S) \in Seq(T)
          /\ ToSet(KeepOnly(packages, S)) = ToSet(packages) \cap S
  BY KeepOnlyFacts
<1>2. Add(packages, e, preserve) = Append(KeepOnly(packages, S), e)
  BY DEF Add
<1>3. ToSet(packages) \cap S = S
  OBVIOUS
<1> HIDE DEF S
<1>4. ToSet(Add(packages, e, preserve)) = S \cup {e}
  BY <1>1, <1>2, <1>3, AppendRange
<1>5. QED
  BY <1>1, <1>2, <1>4 DEF S

\* What an addition works on: whether it met a conflict, and the packages so far.
Additions(T) == [ok : BOOLEAN, packages : Seq(T)]

\* An addition leads to an addition.
LEMMA AddNextType ==
  ASSUME NEW T, NEW v \in Additions(T), NEW e \in T,
         NEW preserve, NEW failIfExists
  PROVE  AddNext(v, e, preserve, failIfExists) \in Additions(T)
  BY AddFacts DEF AddNext, Additions

\* f[i] is what the first i additions make of the packages.
IsAddition(f, packages, entries, preserve, failIfExists) ==
  /\ f[0] = [ok |-> TRUE, packages |-> packages]
  /\ \A i \in 1..Len(entries) :
       f[i] = AddNext(f[i - 1], entries[i], preserve, failIfExists)
  /\ f[Len(entries)] = AddAll(packages, entries, preserve, failIfExists)

\* AddAll goes through its entries from front to back.
LEMMA AddAllSteps ==
  ASSUME NEW T, NEW packages \in Seq(T), NEW entries \in Seq(T),
         NEW preserve, NEW failIfExists
  PROVE  \E f \in [0..Len(entries) -> Additions(T)] :
           IsAddition(f, packages, entries, preserve, failIfExists)
<1> DEFINE n == Len(entries)
           V == Additions(T)
           base == [ok |-> TRUE, packages |-> packages]
           Op(v, x) == AddNext(v, entries[x], preserve, failIfExists)
           step == [x \in 1..n |-> [v \in V |-> Op(v, x)]]
           Good(it) == it = [s \in SUBSET DOMAIN entries |->
                               IF s = {} THEN base
                               ELSE LET x == Max(s) IN Op(it[s \ {x}], x)]
<1>1. AddAll(packages, entries, preserve, failIfExists)
        = (CHOOSE it : Good(it))[DOMAIN entries]
  BY DEF AddAll, FoldLeft, MapThenFoldSet
<1>2. DOMAIN entries = 1..n
  OBVIOUS
<1>3. n \in Nat
  OBVIOUS
<1>4. base \in V
  BY DEF Additions
<1>5. \A x \in 1..n, v \in V : Op(v, x) \in V
  BY AddNextType
<1> HIDE DEF Op, n, V, base
<1>6. step \in [1..n -> [V -> V]]
  BY <1>5
<1>7. \A x \in 1..n, v \in V : step[x][v] = Op(v, x)
  OBVIOUS
<1> HIDE DEF step
<1>8. \A s \in SUBSET (1..n) : s # {} => Max(s) \in 1..n
          /\ s \ {Max(s)} \in SUBSET (1..n)
  BY <1>3, MaxOf
<1>9. \E it : Good(it)
  <2>1. PICK it \in [SUBSET (1..n) -> V] : IsFold(it, n, base, step)
    BY <1>3, <1>4, <1>6, FoldExists
  <2>2. \A s \in SUBSET (1..n) :
          it[s] = IF s = {} THEN base ELSE Op(it[s \ {Max(s)}], Max(s))
    BY <1>7, <1>8, <2>1 DEF IsFold
  <2>3. it = [s \in SUBSET (1..n) |-> it[s]]
    OBVIOUS
  <2>4. QED
    BY <1>2, <2>2, <2>3
<1>10. PICK it : Good(it)
           /\ AddAll(packages, entries, preserve, failIfExists) = it[DOMAIN entries]
  <2> HIDE DEF Good
  <2> QED BY <1>1, <1>9
<1>11. Folds(it, n, V, base, step)
  <2>1. \A s \in SUBSET (1..n) :
          it[s] = IF s = {} THEN base ELSE Op(it[s \ {Max(s)}], Max(s))
    BY <1>2, <1>10
  <2>2. QED
    BY <1>7, <1>8, <2>1 DEF Folds
<1> HIDE DEF Good
<1>12. PICK f \in [0..n -> V] : IsChain(f, n, base, step) /\ f[n] = it[1..n]
  BY ONLY <1>3, <1>4, <1>6, <1>11, FoldSteps, SMTT(30)
<1>13. \A i \in 1..n : f[i] = Op(f[i - 1], i)
  <2>1. \A i \in 1..n : f[i - 1] \in V
    BY <1>3
  <2>2. QED
    BY <1>7, <1>12, <2>1 DEF IsChain
<1>14. f[0] = base /\ f[n] = AddAll(packages, entries, preserve, failIfExists)
  BY <1>2, <1>10, <1>12 DEF IsChain
<1>15. QED
  BY <1>13, <1>14 DEF n, V, base, Op, IsAddition

\* The entries of a manifest that an addition leaves, and those it adds and
\* does not replace itself.
LEMMA AddAllFacts ==
  ASSUME NEW T, NEW packages \in Seq(T), NEW entries \in Seq(T),
         NEW preserve, NEW failIfExists
  PROVE  /\ AddAll(packages, entries, preserve, failIfExists) \in Additions(T)
         /\ \A e : e \in ToSet(AddAll(packages, entries, preserve, failIfExists).packages)
              <=> \/ /\ e \in ToSet(packages)
                     /\ \A k \in DOMAIN entries : ~Replaces(entries[k], e, preserve)
                  \/ \E i \in DOMAIN entries :
                       /\ e = entries[i]
                       /\ \A k \in DOMAIN entries :
                            k > i => ~Replaces(entries[k], e, preserve)
<1> DEFINE Old(m) == {e \in ToSet(packages) :
                        \A k \in 1..m : ~Replaces(entries[k], e, preserve)}
           New(m) == {entries[i] : i \in {i \in 1..m :
                        \A k \in 1..m : k > i
                            => ~Replaces(entries[k], entries[i], preserve)}}
<1>1. PICK f \in [0..Len(entries) -> Additions(T)] :
        IsAddition(f, packages, entries, preserve, failIfExists)
  BY ONLY packages \in Seq(T), entries \in Seq(T), AddAllSteps, Zenon
<1> DEFINE n == Len(entries)
<1>2. n \in Nat /\ n = Len(entries) /\ DOMAIN entries = 1..n
          /\ \A i \in 1..n : entries[i] \in T
  OBVIOUS
<1> HIDE DEF n
<1> DEFINE P == {i \in 0..n : ToSet(f[i].packages) = Old(i) \cup New(i)}
<1>3. 0 \in P
  BY <1>1, <1>2 DEF Additions, IsAddition
<1>4. ASSUME NEW i \in 1..n, i - 1 \in P PROVE i \in P
  <2>1. f[i - 1].packages \in Seq(T)
            /\ ToSet(f[i - 1].packages) = Old(i - 1) \cup New(i - 1)
    BY <1>2, <1>4 DEF Additions
  <2>2. ToSet(f[i].packages) =
          {e \in Old(i - 1) \cup New(i - 1) : ~Replaces(entries[i], e, preserve)}
             \cup {entries[i]}
    <3> HIDE DEF Old, New
    <3>1. f[i].packages = Add(f[i - 1].packages, entries[i], preserve)
      <4>1. f[i] = AddNext(f[i - 1], entries[i], preserve, failIfExists)
        BY <1>1, <1>2 DEF IsAddition
      <4>2. QED
        BY <4>1 DEF AddNext
    <3>2. ToSet(Add(f[i - 1].packages, entries[i], preserve)) =
            {e \in ToSet(f[i - 1].packages) : ~Replaces(entries[i], e, preserve)}
              \cup {entries[i]}
      BY <1>2, <2>1, AddFacts
    <3>3. QED
      BY <2>1, <3>1, <3>2
  <2>3. Old(i) = {e \in Old(i - 1) : ~Replaces(entries[i], e, preserve)}
    <3>1. 1..i = (1..(i - 1)) \cup {i}
      BY <1>2
    <3>2. QED
      BY <3>1
  <2>4. New(i) = {e \in New(i - 1) : ~Replaces(entries[i], e, preserve)}
                   \cup {entries[i]}
    <3>1. 1..i = (1..(i - 1)) \cup {i} /\ \A k \in 1..(i - 1) : i > k /\ ~(k > i)
      BY <1>2
    <3>2. i \in Nat
      BY <1>2
    <3>3. ASSUME NEW e \in New(i) 
          PROVE  e = entries[i]
                     \/ (e \in New(i - 1) /\ ~Replaces(entries[i], e, preserve))
      BY <3>1, <3>2
    <3>4. entries[i] \in New(i)
      BY <3>1, <3>2
    <3>5. ASSUME NEW e \in New(i - 1), ~Replaces(entries[i], e, preserve)
          PROVE  e \in New(i)
      BY <3>1, <3>2, <3>5
    <3>6. QED
      BY <3>3, <3>4, <3>5
  <2> HIDE DEF Old, New
  <2>5. QED
    BY <1>2, <2>2, <2>3, <2>4
<1> HIDE DEF P
<1>5. \A i \in 0..n : i \in P
  BY <1>2, <1>3, <1>4, Interval
<1>6. n \in P
  BY <1>2, <1>5
<1>7. ToSet(f[n].packages) = Old(n) \cup New(n)
  BY <1>6 DEF P
<1>8. f[n] = AddAll(packages, entries, preserve, failIfExists) /\ f[n] \in Additions(T)
  BY <1>1, <1>2 DEF IsAddition
<1>9. \A e : e \in Old(n) \cup New(n)
        <=> \/ /\ e \in ToSet(packages)
               /\ \A k \in DOMAIN entries : ~Replaces(entries[k], e, preserve)
            \/ \E i \in DOMAIN entries :
                 /\ e = entries[i]
                 /\ \A k \in DOMAIN entries :
                      k > i => ~Replaces(entries[k], e, preserve)
  BY <1>2
<1> HIDE DEF Old, New
<1>10. QED
  BY <1>7, <1>8, <1>9

\* So no entry comes from anywhere else.
LEMMA AddAllRange ==
  ASSUME NEW T, NEW packages \in Seq(T), NEW entries \in Seq(T),
         NEW preserve, NEW failIfExists
  PROVE  LET added == AddAll(packages, entries, preserve, failIfExists)
         IN  /\ added.packages \in Seq(T)
             /\ ToSet(added.packages) \subseteq ToSet(packages) \cup ToSet(entries)
<1> DEFINE n == Len(entries)
<1>1. PICK f \in [0..n -> Additions(T)] :
        IsAddition(f, packages, entries, preserve, failIfExists)
  BY ONLY packages \in Seq(T), entries \in Seq(T), AddAllSteps, Zenon
<1>2. n \in Nat /\ n = Len(entries) /\ DOMAIN entries = 1..n
  OBVIOUS
<1>3. \A i \in 1..n : entries[i] \in T /\ entries[i] \in ToSet(entries)
  BY <1>2 DEF ToSet
<1> HIDE DEF n
<1> DEFINE P == {i \in 0..n : ToSet(f[i].packages)
                                \subseteq ToSet(packages) \cup ToSet(entries)}
<1>4. 0 \in P
  BY <1>1, <1>2 DEF IsAddition
<1>5. ASSUME NEW i \in 1..n, i - 1 \in P PROVE i \in P
  <2>1. /\ f[i - 1].packages \in Seq(T)
        /\ ToSet(f[i - 1].packages) \subseteq ToSet(packages) \cup ToSet(entries)
    BY <1>2, <1>5 DEF Additions
  <2>2. f[i].packages = Add(f[i - 1].packages, entries[i], preserve)
    <3>1. f[i] = AddNext(f[i - 1], entries[i], preserve, failIfExists)
      BY <1>1, <1>2 DEF IsAddition
    <3>2. QED
      BY <3>1 DEF AddNext
  <2>3. ToSet(Add(f[i - 1].packages, entries[i], preserve))
          \subseteq ToSet(f[i - 1].packages) \cup {entries[i]}
    BY <1>3, <2>1, AddFacts
  <2>4. QED
    BY <1>3, <2>1, <2>2, <2>3
<1> HIDE DEF P
<1>6. \A i \in 0..n : i \in P
  BY <1>2, <1>4, <1>5, Interval
<1>7. n \in P
  BY <1>2, <1>6
<1>8. f[n] = AddAll(packages, entries, preserve, failIfExists) /\ f[n] \in Additions(T)
  BY <1>1, <1>2 DEF IsAddition
<1>9. QED
  BY <1>7, <1>8 DEF P, Additions

\* Upload reads the manifests of the Release and those of its packages.
LEMMA ReadArchsFacts ==
  ASSUME NEW T, NEW archs \in Seq(T), NEW placements \in Seq(T),
         StandardArchs \in Seq(T)
  PROVE  /\ ReadArchs(archs, placements) \in Seq(T)
         /\ ToSet(archs) \cup ToSet(placements)
              \subseteq ToSet(ReadArchs(archs, placements))
<1> DEFINE n == Len(placements)
<1>0. PICK f \in [0..n -> Seq(T)] : IsReading(f, archs, placements)
  BY ONLY archs \in Seq(T), placements \in Seq(T), StandardArchs \in Seq(T),
          ReadArchsSteps, Zenon
<1>1. /\ f[0] = archs
      /\ \A i \in 1..n : f[i] = ReadArch(f[i - 1], placements[i])
      /\ f[n] = ReadArchs(archs, placements)
  BY <1>0 DEF IsReading
<1>2. n \in Nat /\ DOMAIN placements = 1..n
  OBVIOUS
<1> HIDE DEF n
<1> DEFINE P == {i \in 0..n : ToSet(archs) \cup {placements[k] : k \in 1..i}
                                \subseteq ToSet(f[i])}
<1>3. 0 \in P
  BY <1>1, <1>2
<1>4. ASSUME NEW i \in 1..n, i - 1 \in P PROVE i \in P
  <2>1. f[i - 1] \in Seq(T)
        /\ ToSet(archs) \cup {placements[k] : k \in 1..(i - 1)} \subseteq ToSet(f[i - 1])
    BY <1>2, <1>4
  <2>2. 1..i = (1..(i - 1)) \cup {i}
    BY <1>2
  <2> DEFINE start == IF f[i - 1] = <<>> /\ placements[i] = "all"
                      THEN StandardArchs ELSE f[i - 1]
  <2>3. start \in Seq(T) /\ ToSet(f[i - 1]) \subseteq ToSet(start)
    <3>1. ToSet(<<>>) = {}
      BY DEF ToSet
    <3>2. QED
      BY <2>1, <3>1
  <2>4. f[i] = AppendUnique(start, placements[i])
    BY <1>1 DEF ReadArch
  <2> HIDE DEF start
  <2>5. ToSet(f[i]) = ToSet(start) \cup {placements[i]}
    BY <2>3, <2>4, AppendUniqueRange
  <2>6. ToSet(archs) \cup {placements[k] : k \in 1..i} \subseteq ToSet(f[i])
    BY <2>1, <2>2, <2>3, <2>5
  <2>7. QED
    BY <2>6
<1> HIDE DEF P
<1>5. \A i \in 0..n : i \in P
  BY <1>2, <1>3, <1>4, Interval
<1>6. n \in P
  BY <1>2, <1>5
<1>7. ToSet(archs) \cup {placements[k] : k \in 1..n} \subseteq ToSet(f[n])
  BY <1>6 DEF P
<1>8. ToSet(placements) = {placements[k] : k \in 1..n}
  BY <1>2 DEF ToSet
<1>9. f[n] \in Seq(T) /\ f[n] = ReadArchs(archs, placements)
  BY <1>1, <1>2
<1>10. QED
  BY <1>7, <1>8, <1>9

\* FlattenSeq concatenates from front to back.
LEMMA FlattenSteps ==
  ASSUME NEW T, NEW seqs \in Seq(Seq(T)), seqs # <<>>
  PROVE  \E it \in [1..Len(seqs) -> Seq(T)] :
           /\ \A i \in 1..Len(seqs) :
                it[i] = IF i = 1 THEN seqs[i] ELSE it[i - 1] \o seqs[i]
           /\ FlattenSeq(seqs) = it[Len(seqs)]
<1> DEFINE n == Len(seqs)
           V == Seq(T)
           base == <<>>
           step == [x \in 1..n |-> [v \in V |-> v \o seqs[x]]]
           Good(it) == it = [i \in 1..n |->
                               IF i = 1 THEN seqs[i] ELSE it[i - 1] \o seqs[i]]
<1>1. n \in Nat \ {0}
  OBVIOUS
<1>2. FlattenSeq(seqs) = (CHOOSE it : Good(it))[n]
  BY <1>1 DEF FlattenSeq
<1>3. base \in V
  OBVIOUS
<1>4. \A x \in 1..n : seqs[x] \in V
  OBVIOUS
<1>5. \A v, w \in V : v \o w \in V
  OBVIOUS
<1>6. \A v \in V : base \o v = v
  OBVIOUS
<1> HIDE DEF n, V, base
<1>7. step \in [1..n -> [V -> V]]
  BY <1>4, <1>5
<1>8. \A x \in 1..n, v \in V : step[x][v] = v \o seqs[x]
  OBVIOUS
<1> HIDE DEF step
<1>9. PICK f \in [0..n -> V] : IsChain(f, n, base, step)
  <2>1. PICK it \in [SUBSET (1..n) -> V] : IsFold(it, n, base, step)
    BY <1>1, <1>3, <1>7, FoldExists
  <2>2. Folds(it, n, V, base, step)
    BY <2>1 DEF IsFold, Folds
  <2>3. QED
    BY ONLY <1>1, <1>3, <1>7, <2>2, FoldSteps
<1>10. \A i \in 1..n : f[i] = f[i - 1] \o seqs[i]
  <2>1. \A i \in 1..n : f[i - 1] \in V
    BY <1>1
  <2>2. QED
    BY <1>8, <1>9, <2>1 DEF IsChain
<1>11. f[0] = base
  BY <1>9 DEF IsChain
<1> DEFINE g == [i \in 1..n |-> f[i]]
<1>12. \A i \in 1..n : g[i] = IF i = 1 THEN seqs[i] ELSE g[i - 1] \o seqs[i]
  <2>1. ASSUME NEW i \in 1..n, i # 1 PROVE i - 1 \in 1..n
    BY <1>1, <2>1
  <2>2. 1 \in 1..n /\ f[1] = seqs[1]
    <3>1. 1 \in 1..n /\ 1 - 1 = 0
      BY <1>1
    <3>2. f[1] = base \o seqs[1]
      BY <1>10, <1>11, <3>1
    <3>3. QED
      BY <1>4, <1>6, <3>1, <3>2
  <2>3. QED
    BY <1>10, <2>1, <2>2
<1>13. g = [i \in 1..n |-> g[i]]
  OBVIOUS
<1> HIDE DEF g
<1>14. Good(g)
  BY <1>12, <1>13
<1> HIDE DEF Good
<1>15. PICK it : Good(it) /\ FlattenSeq(seqs) = it[n]
  BY <1>2, <1>14
<1>16. \A i \in 1..n : it[i] = IF i = 1 THEN seqs[i] ELSE it[i - 1] \o seqs[i]
  BY <1>15 DEF Good
<1> DEFINE P == {i \in 0..n : i # 0 => it[i] \in V}
<1>17. 0 \in P
  BY <1>1
<1>18. ASSUME NEW i \in 1..n, i - 1 \in P PROVE i \in P
  <2>1. i # 1 => it[i - 1] \in V
    BY <1>1, <1>18
  <2>2. it[i] \in V
    BY <1>4, <1>5, <1>16, <2>1
  <2>3. QED
    BY <2>2
<1> HIDE DEF P
<1>19. \A i \in 0..n : i \in P
  BY <1>1, <1>17, <1>18, Interval
<1>20. \A i \in 1..n : it[i] \in V
  BY <1>1, <1>19 DEF P
<1>21. it \in [1..n -> V]
  BY <1>15, <1>20 DEF Good
<1>22. QED
  BY <1>15, <1>16, <1>21 DEF n, V

\* FlattenSeq has the elements of all of the sequences.
LEMMA FlattenFacts ==
  ASSUME NEW T, NEW seqs \in Seq(Seq(T))
  PROVE  /\ FlattenSeq(seqs) \in Seq(T)
         /\ ToSet(FlattenSeq(seqs)) = UNION {ToSet(seqs[i]) : i \in DOMAIN seqs}
<1>1. CASE seqs = <<>>
  <2>1. FlattenSeq(seqs) = <<>>
    BY <1>1 DEF FlattenSeq
  <2>2. DOMAIN seqs = {} /\ FlattenSeq(seqs) \in Seq(T)
    <3>1. DOMAIN seqs = 1..Len(seqs) /\ Len(seqs) = 0
      BY <1>1
    <3>2. FlattenSeq(seqs) \in Seq(T)
      BY <2>1
    <3>3. QED
      BY <3>1, <3>2
  <2>3. ToSet(FlattenSeq(seqs)) = {}
    BY <1>1, <2>1, <2>2 DEF ToSet
  <2>4. UNION {ToSet(seqs[i]) : i \in DOMAIN seqs} = {}
    BY <2>2
  <2>5. QED
    BY <2>2, <2>3, <2>4
<1>2. CASE seqs # <<>>
  <2> DEFINE n == Len(seqs)
  <2>1. PICK it \in [1..n -> Seq(T)] :
           /\ \A i \in 1..n :
                it[i] = IF i = 1 THEN seqs[i] ELSE it[i - 1] \o seqs[i]
           /\ FlattenSeq(seqs) = it[n]
    BY <1>2, FlattenSteps
  <2>2. n \in Nat \ {0} /\ DOMAIN seqs = 1..n /\ \A i \in 1..n : seqs[i] \in Seq(T)
    BY <1>2
  <2> HIDE DEF n
  <2> DEFINE Of(i) == UNION {ToSet(seqs[k]) : k \in 1..i}
             P == {i \in 0..n : i # 0 => ToSet(it[i]) = Of(i)}
  <2>3. 0 \in P
    BY <2>2
  <2>4. ASSUME NEW i \in 1..n, i - 1 \in P PROVE i \in P
    <3>1. Of(i) = Of(i - 1) \cup ToSet(seqs[i])
      <4>1. 1..i = (1..(i - 1)) \cup {i}
        BY <2>2
      <4>2. QED
        BY <4>1
    <3>2. CASE i = 1
      <4>1. 1..(i - 1) = {} /\ it[i] = seqs[i]
        BY <2>1, <2>2, <3>2
      <4>2. Of(i - 1) = {}
        BY <4>1
      <4>3. ToSet(it[i]) = Of(i)
        BY <3>1, <4>1, <4>2
      <4>4. QED
        BY <4>3
    <3>3. CASE i # 1
      <4>0. i - 1 # 0 /\ i - 1 \in 1..n
        BY ONLY <2>2, i \in 1..n, <3>3
      <4>1. it[i] = it[i - 1] \o seqs[i] /\ i - 1 # 0 /\ i - 1 \in 1..n
        BY <2>1, <3>3, <4>0
      <4>2. it[i - 1] \in Seq(T) /\ seqs[i] \in Seq(T) /\ ToSet(it[i - 1]) = Of(i - 1)
        BY <2>2, <2>4, <4>1
      <4> HIDE DEF Of
      <4>3. ToSet(it[i]) = ToSet(it[i - 1]) \cup ToSet(seqs[i])
        BY <4>1, <4>2, ConcatRange
      <4>4. ToSet(it[i]) = Of(i)
        BY ONLY <3>1, <4>2, <4>3
      <4>5. QED
        BY <4>4
    <3>4. QED
      BY <3>2, <3>3
  <2> HIDE DEF P
  <2>5. \A i \in 0..n : i \in P
    BY <2>2, <2>3, <2>4, Interval
  <2>6. n \in P /\ n # 0 /\ n \in 1..n
    BY <2>2, <2>5
  <2>7. ToSet(it[n]) = Of(n)
    BY <2>6 DEF P
  <2>8. QED
    BY <2>1, <2>2, <2>6, <2>7
<1>3. QED
  BY <1>1, <1>2

\* A listing has every key that exists, and no other.
LEMMA SetToSeqFacts ==
  ASSUME NEW S, IsFiniteSet(S)
  PROVE  SetToSeq(S) \in Seq(S) /\ ToSet(SetToSeq(S)) = S
<1> DEFINE n == Cardinality(S)
           Good(f) == f \in [1..n -> S] /\ IsInjective(f)
<1>1. n \in Nat /\ ExistsBijection(1..n, S)
  BY FS_CardinalityType
<1>2. \E f : Good(f)
  BY <1>1 DEF ExistsBijection, Bijection, Injection, IsInjective
<1>3. SetToSeq(S) = CHOOSE f : Good(f)
  BY DEF SetToSeq
<1>4. Good(SetToSeq(S))
  <2> HIDE DEF Good
  <2> QED BY <1>2, <1>3
<1> DEFINE f == SetToSeq(S)
<1>5. f \in [1..n -> S] /\ \A a, b \in 1..n : f[a] = f[b] => a = b
  BY <1>4 DEF IsInjective
<1> HIDE DEF f, n
<1>6. f \in Injection(1..n, S)
  BY <1>5 DEF Injection, IsInjective
<1>7. Cardinality(1..n) = Cardinality(S)
  BY <1>1, FS_Interval DEF n
<1>8. f \in Surjection(1..n, S)
  BY <1>6, <1>7, FS_Injection
<1>9. QED
  BY <1>1, <1>5, <1>8 DEF f, Surjection, ToSet

\* What a sequence contains are its elements.
LEMMA ContainsRange ==
  ASSUME NEW T, NEW v \in Seq(T)
  PROVE  \A x : Contains(v, x) <=> x \in ToSet(v)
BY DEF Contains, ToSet

\* A sequence that is not empty has an element: its first one.
LEMMA SomeElement ==
  ASSUME NEW T, NEW v \in Seq(T), v # <<>>
  PROVE  \E x : x \in ToSet(v)
<1>1. 1 \in DOMAIN v
  OBVIOUS
<1>2. v[1] \in ToSet(v)
  BY <1>1 DEF ToSet
<1>3. QED
  BY ONLY <1>2

\* A loop that retains everything returns its sequence.
LEMMA KeepOnlyAll ==
  ASSUME NEW T, NEW seq \in Seq(T), NEW S, ToSet(seq) \subseteq S
  PROVE  KeepOnly(seq, S) = seq
<1> DEFINE n == Len(seq)
<1>1. PICK f \in [0..n -> Seq(T)] :
        /\ f[0] = <<>>
        /\ \A i \in 1..n : f[i] = AppendIf(f[i - 1], seq[i], S)
        /\ f[n] = KeepOnly(seq, S)
  BY KeepOnlySteps
<1>2. n \in Nat /\ DOMAIN seq = 1..n /\ \A i \in 1..n : seq[i] \in T /\ seq[i] \in S
  BY DEF ToSet
<1> HIDE DEF n
<1> DEFINE P == {i \in 0..n : Len(f[i]) = i /\ \A k \in 1..i : f[i][k] = seq[k]}
<1>3. 0 \in P
  BY <1>1, <1>2
<1>4. ASSUME NEW i \in 1..n, i - 1 \in P PROVE i \in P
  <2>1. /\ f[i - 1] \in Seq(T) /\ Len(f[i - 1]) = i - 1
        /\ \A k \in 1..(i - 1) : f[i - 1][k] = seq[k]
    BY <1>2, <1>4
  <2>2. f[i] = Append(f[i - 1], seq[i])
    BY <1>1, <1>2 DEF AppendIf
  <2>3. Len(f[i]) = i /\ \A k \in 1..i : f[i][k] = seq[k]
    BY <1>2, <2>1, <2>2
  <2>4. QED
    BY <2>3
<1> HIDE DEF P
<1>5. \A i \in 0..n : i \in P
  BY <1>2, <1>3, <1>4, Interval
<1>6. f[n] \in Seq(T) /\ Len(f[n]) = n /\ \A k \in 1..n : f[n][k] = seq[k]
  <2>1. n \in P /\ n \in 0..n
    BY <1>2, <1>5
  <2>2. f[n] \in Seq(T)
    BY <1>1, <2>1
  <2>3. QED
    BY <2>1, <2>2 DEF P
<1>7. seq = [k \in 1..n |-> seq[k]]
  BY DEF n
<1>8. f[n] = [k \in 1..n |-> f[n][k]]
  <2> DEFINE v == f[n]
  <2>1. v \in Seq(T) /\ Len(v) = n
    BY <1>6
  <2> HIDE DEF v
  <2>2. v = [k \in 1..n |-> v[k]]
    BY <2>1
  <2>3. QED
    BY <2>2 DEF v
<1>9. QED
  BY <1>1, <1>6, <1>7, <1>8

\* Upload reads the manifests of the Release, those of its packages, and the
\* default ones when the first package meets no manifest and is for all of them.
LEMMA ReadArchsRange ==
  ASSUME NEW T, NEW archs \in Seq(T), NEW placements \in Seq(T), placements # <<>>,
         StandardArchs \in Seq(T)
  PROVE  ToSet(ReadArchs(archs, placements)) =
           ToSet(archs) \cup ToSet(placements)
             \cup (IF archs = <<>> /\ placements[1] = "all"
                   THEN ToSet(StandardArchs) ELSE {})
<1> DEFINE n == Len(placements)
           first == IF archs = <<>> /\ placements[1] = "all" THEN ToSet(StandardArchs) ELSE {}
<1>0. PICK f \in [0..n -> Seq(T)] : IsReading(f, archs, placements)
  BY ONLY archs \in Seq(T), placements \in Seq(T), StandardArchs \in Seq(T),
          ReadArchsSteps, Zenon
<1>1. /\ f[0] = archs
      /\ \A i \in 1..n : f[i] = ReadArch(f[i - 1], placements[i])
      /\ f[n] = ReadArchs(archs, placements)
  BY <1>0 DEF IsReading
<1>2. n \in Nat \ {0} /\ DOMAIN placements = 1..n
  OBVIOUS
<1>3. ToSet(<<>>) = {}
  BY DEF ToSet
<1> HIDE DEF n
<1> DEFINE Known(i) == ToSet(archs) \cup {placements[k] : k \in 1..i} \cup first
           P == {i \in 0..n : i > 0 => f[i] # <<>> /\ ToSet(f[i]) = Known(i)}
<1>4. 0 \in P
  BY <1>2
<1>5. ASSUME NEW i \in 1..n, i - 1 \in P PROVE i \in P
  <2> DEFINE start == IF f[i - 1] = <<>> /\ placements[i] = "all"
                      THEN StandardArchs ELSE f[i - 1]
  <2>1. f[i - 1] \in Seq(T) /\ start \in Seq(T)
    BY <1>2
  <2>2. f[i] = AppendUnique(start, placements[i])
    BY <1>1 DEF ReadArch
  <2>3. ToSet(f[i]) = ToSet(start) \cup {placements[i]}
    <3> HIDE DEF start
    <3>1. QED
      BY <2>1, <2>2, AppendUniqueRange
  <2>4. f[i] # <<>>
    BY <1>3, <2>3
  <2>5. CASE i = 1
    <3>1. f[i - 1] = archs /\ {placements[k] : k \in 1..i} = {placements[i]}
      BY <1>1, <2>5
    <3>2. ToSet(start) = ToSet(archs) \cup first
      BY <1>3, <2>5, <3>1
    <3>3. ToSet(f[i]) = Known(i)
      BY <2>3, <3>1, <3>2
    <3>4. QED
      BY <2>4, <3>3
  <2>6. CASE i # 1
    <3>1. f[i - 1] # <<>> /\ ToSet(f[i - 1]) = Known(i - 1)
      <4>1. i - 1 > 0
        BY <1>2, <2>6
      <4> HIDE DEF Known
      <4>2. QED
        BY <1>5, <4>1
    <3>2. {placements[k] : k \in 1..i}
            = {placements[k] : k \in 1..(i - 1)} \cup {placements[i]}
      BY <1>2
    <3>3. ToSet(f[i]) = Known(i)
      BY <2>3, <3>1, <3>2
    <3>4. QED
      BY <2>4, <3>3
  <2>7. QED
    BY <2>5, <2>6
<1> HIDE DEF P
<1>6. \A i \in 0..n : i \in P
  BY <1>2, <1>4, <1>5, Interval
<1>7. ToSet(f[n]) = Known(n)
  BY <1>2, <1>6 DEF P
<1>8. {placements[k] : k \in 1..n} = ToSet(placements)
  BY <1>2 DEF ToSet
<1>9. QED
  BY <1>1, <1>7, <1>8

====
