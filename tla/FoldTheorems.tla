----------------------------- MODULE FoldTheorems -----------------------------
(***************************************************************************)
(* What holds of a fold over a sequence.  A theorem cannot take the folded *)
(* operator as a parameter and then be cited, so it is a parameter of this *)
(* module, which is instantiated once for each fold.  The operator and the *)
(* formula may depend on a context that stays the same along the fold.     *)
(***************************************************************************)
EXTENDS Integers, Sequences, WellFoundedInduction, TLAPS

CONSTANTS Op(_, _, _),     \* Op(context, result so far, next element)
          Along(_, _, _)   \* Along(context, n, result of the first n elements)

\* SequencesExt!FoldLeft takes the last element away and folds the others first.
LastOf(s) == CHOOSE x \in s : \A y \in s : x >= y

IsFold(it, context, base, seq) ==
  it = [s \in SUBSET DOMAIN seq |->
          IF s = {} THEN base ELSE Op(context, it[s \ {LastOf(s)}], seq[LastOf(s)])]

Folded(context, base, seq) == (CHOOSE it : IsFold(it, context, base, seq))[DOMAIN seq]

----------------------------------------------------------------------------
\* A non-empty set of numbers up to n has a last one.
LEMMA LastIsGreatest ==
  ASSUME NEW n \in Nat, NEW s \in SUBSET (1..n), s # {}
  PROVE  LastOf(s) \in s /\ \A y \in s : LastOf(s) >= y
<1> DEFINE R == OpToRel(<, Nat)
           T == {n - x : x \in s}
<1>1. IsWellFoundedOn(R, Nat)
  BY NatLessThanWellFounded, Zenon
<1>2. \A a, b \in Nat : a < b => <<a, b>> \in R
  BY DEF OpToRel
<1>3. T \subseteq Nat /\ T # {}
  <2>1. \A x \in s : n - x \in Nat
    OBVIOUS
  <2> QED
    BY <2>1
<1> HIDE DEF R
<1>4. PICK t \in T : \A u \in T : ~(<<u, t>> \in R)
  BY <1>1, <1>3, WFMin, Zenon
<1>5. PICK x \in s : t = n - x
  OBVIOUS
<1>6. ASSUME NEW y \in s
      PROVE  x >= y
  <2>1. n - y \in T /\ n - y \in Nat /\ t \in Nat /\ x \in Nat /\ y \in Nat
    BY <1>3
  <2>2. ~(<<n - y, t>> \in R)
    BY <1>4, <2>1
  <2>3. ~(n - y < t)
    BY <1>2, <2>1, <2>2
  <2> QED
    BY <1>5, <2>1, <2>3
<1> QED
  BY <1>6 DEF LastOf

\* The recursive definition of a fold has a solution.
LEMMA FoldExists ==
  ASSUME NEW context, NEW base, NEW seq, NEW n \in Nat, DOMAIN seq = 1..n
  PROVE  \E it : IsFold(it, context, base, seq)
<1> DEFINE R == OpToRel(<, Nat)
           Part(it, m) ==
             it = [s \in SUBSET (1..m) |->
                     IF s = {} THEN base
                     ELSE Op(context, it[s \ {LastOf(s)}], seq[LastOf(s)])]
           T == {m \in Nat : ~\E it : Part(it, m)}
<1>1. IsWellFoundedOn(R, Nat)
  BY NatLessThanWellFounded, Zenon
<1>2. \A a, b \in Nat : a < b => <<a, b>> \in R
  BY DEF OpToRel
<1>3. \E it : Part(it, 0)
  <2> DEFINE none == [s \in SUBSET (1..0) |-> base]
  <2>1. \A s \in SUBSET (1..0) : s = {}
    OBVIOUS
  <2>2. Part(none, 0)
    BY <2>1
  <2> QED
    BY <2>2
<1>4. ASSUME NEW m \in Nat, NEW it, Part(it, m)
      PROVE  \E more : Part(more, m + 1)
  <2> DEFINE more == [s \in SUBSET (1..(m + 1)) |->
                        IF s = {} THEN base
                        ELSE Op(context, it[s \ {LastOf(s)}], seq[LastOf(s)])]
  <2>1. ASSUME NEW s \in SUBSET (1..m)
        PROVE  more[s] = it[s]
    <3>1. s \in SUBSET (1..(m + 1))
      OBVIOUS
    <3>2. it[s] = IF s = {} THEN base
                  ELSE Op(context, it[s \ {LastOf(s)}], seq[LastOf(s)])
      BY <1>4
    <3> QED
      BY <3>1, <3>2
  <2>2. ASSUME NEW s \in SUBSET (1..(m + 1)), s # {}
        PROVE  s \ {LastOf(s)} \in SUBSET (1..m)
    <3>1. LastOf(s) \in s /\ \A y \in s : LastOf(s) >= y
      <4>1. m + 1 \in Nat
        OBVIOUS
      <4> QED
        BY <2>2, <4>1, LastIsGreatest
    <3>2. ASSUME NEW y \in s, y # LastOf(s)
          PROVE  y \in 1..m
      <4>1. y \in 1..(m + 1) /\ LastOf(s) \in 1..(m + 1) /\ LastOf(s) >= y
        BY <3>1
      <4> QED
        BY <3>2, <4>1
    <3> QED
      BY <3>2
  <2>3. Part(more, m + 1)
    <3>1. \A s \in SUBSET (1..(m + 1)) :
            s # {} => more[s \ {LastOf(s)}] = it[s \ {LastOf(s)}]
      BY <2>1, <2>2
    <3> QED
      BY <3>1, Zenon
  <2> QED
    BY <2>3
<1>5. T = {}
  <2> SUFFICES ASSUME T # {}
               PROVE  FALSE
    OBVIOUS
  <2>1. T \subseteq Nat
    OBVIOUS
  <2>2. PICK m \in T : \A k \in T : ~(<<k, m>> \in R)
    <3> HIDE DEF R, T
    <3> QED
      BY <1>1, <2>1, WFMin, Zenon
  <2> HIDE DEF Part, R
  <2>3. m \in Nat /\ ~\E it : Part(it, m)
    OBVIOUS
  <2>4. m # 0
    BY <1>3, <2>3
  <2>5. m - 1 \in Nat /\ <<m - 1, m>> \in R /\ (m - 1) + 1 = m
    BY <1>2, <2>3, <2>4
  <2>6. m - 1 \notin T
    <3> HIDE DEF T
    <3> QED
      BY <2>2, <2>5
  <2>7. PICK it : Part(it, m - 1)
    BY <2>5, <2>6
  <2>8. \E more : Part(more, (m - 1) + 1)
    BY <1>4, <2>5, <2>7
  <2> QED
    BY <2>3, <2>5, <2>8
<1>6. PICK it : Part(it, n)
  BY <1>5
<1> QED
  BY <1>6 DEF IsFold

\* What holds at the start and is kept by every element holds at the end.
THEOREM FoldInvariant ==
  ASSUME NEW context, NEW base, NEW seq, NEW n \in Nat, DOMAIN seq = 1..n,
         Along(context, 0, base),
         \A i \in 1..n : \A so_far :
           Along(context, i - 1, so_far) => Along(context, i, Op(context, so_far, seq[i]))
  PROVE  Along(context, n, Folded(context, base, seq))
<1> DEFINE R == OpToRel(<, Nat)
           it == CHOOSE f : IsFold(f, context, base, seq)
           T == {m \in 0..n : ~Along(context, m, it[1..m])}
<1>1. IsWellFoundedOn(R, Nat)
  BY NatLessThanWellFounded, Zenon
<1>2. \A a, b \in Nat : a < b => <<a, b>> \in R
  BY DEF OpToRel
<1>3. IsFold(it, context, base, seq)
  BY FoldExists
<1> HIDE DEF R, it
<1>4. it[1..0] = base
  BY <1>3 DEF IsFold
<1>5. ASSUME NEW m \in 1..n
      PROVE  it[1..m] = Op(context, it[1..(m - 1)], seq[m])
  <2>1. 1..m \in SUBSET DOMAIN seq /\ 1..m # {}
    OBVIOUS
  <2>2. LastOf(1..m) \in 1..m /\ \A y \in 1..m : LastOf(1..m) >= y
    BY <2>1, LastIsGreatest
  <2>3. LastOf(1..m) = m
    BY <2>2
  <2>4. (1..m) \ {m} = 1..(m - 1)
    OBVIOUS
  <2> QED
    BY <1>3, <2>1, <2>3, <2>4 DEF IsFold
<1>6. T = {}
  <2> SUFFICES ASSUME T # {}
               PROVE  FALSE
    OBVIOUS
  <2>1. T \subseteq Nat
    OBVIOUS
  <2>2. PICK m \in T : \A k \in T : ~(<<k, m>> \in R)
    <3> HIDE DEF T
    <3> QED
      BY <1>1, <2>1, WFMin, Zenon
  <2>3. m \in 1..n /\ m - 1 \in 0..n
    <3>1. m # 0
      BY <1>4
    <3> QED
      BY <3>1
  <2>4. Along(context, m - 1, it[1..(m - 1)])
    <3>1. <<m - 1, m>> \in R
      BY <1>2, <2>3
    <3> QED
      BY <2>2, <2>3, <3>1
  <2>5. Along(context, m, it[1..m])
    BY <1>5, <2>3, <2>4
  <2> QED
    BY <2>5
<1>7. Along(context, n, it[1..n])
  BY <1>6
<1> QED
  BY <1>7 DEF Folded, it
=============================================================================
