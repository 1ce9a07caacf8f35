--------------------------- MODULE IpRuleTreeProofs ---------------------------
(***************************************************************************)
(* Theorems about the search tree of listDetector: its positions stay      *)
(* within its levels, every rule keeps a last node of its own, and a       *)
(* search finds the rules it should in a list ordered by network.          *)
(*                                                                         *)
(* Adding a prefix is a fold of InsertNode over the levels; what holds     *)
(* along it is a formula of its own, and FoldTheorems carries it to the    *)
(* end.                                                                    *)
(*                                                                         *)
(* The lemmas about a step are about positions of any size ("Wide"): they  *)
(* are those of uint16_t in a list that can be numbered.                   *)
(***************************************************************************)
EXTENDS IpRuleTree, SequenceTheorems, WellFoundedInduction, TLAPS

NodeType == [value : Octet, ones : 0 .. OctetBits, isLast : BOOLEAN, index : Nat]

\* A node of level k of a tree whose rules are those below "bound".
Fits(octets, bound, k, node) ==
    /\ node.value = Masked(node.value, node.ones)
    /\ IF node.isLast
       THEN node.index < bound
       ELSE k + 1 \in Levels /\ node.index <= Len(octets[k + 1])

TreeShape(octets, bound) ==
    /\ octets \in [Levels -> Seq(NodeType)]
    /\ \A k \in Levels : \A i \in 1 .. Len(octets[k]) : Fits(octets, bound, k, octets[k][i])

-----------------------------------------------------------------------------
(***************************************************************************)
(* GroupEnd, Shifted and InsertNode with positions of any size.            *)
(***************************************************************************)
WideGroupEnd(octets, level, pos) ==
    IF level = 0
    THEN Len(octets[0])
    ELSE LET inner == {i \in pos + 1 .. Len(octets[level - 1]) - 1 :
                          ~NodeAt(octets, level - 1, i).isLast}
         IN IF inner = {}
            THEN Len(octets[level])
            ELSE NodeAt(octets, level - 1, CHOOSE i \in inner : \A j \in inner : i <= j).index

WideShifted(nodes, pos) ==
    [i \in DOMAIN nodes |->
        IF i > pos + 1 /\ ~nodes[i].isLast
        THEN [nodes[i] EXCEPT !.index = @ + 1]
        ELSE nodes[i]]

WideInsertNode(octets, node, level, pos) ==
    LET start == GroupStart(octets, level, pos)
        same  == {i \in start .. WideGroupEnd(octets, level, pos) - 1 :
                    Equal(NodeAt(octets, level, i), node)}
        grown == [octets EXCEPT ![level] = InsertAt(@, start + 1, node)]
    IN IF same # {}
       THEN [octets |-> octets, pos |-> CHOOSE i \in same : \A j \in same : i <= j]
       ELSE [octets |-> IF level = 0
                        THEN grown
                        ELSE [grown EXCEPT ![level - 1] = WideShifted(@, pos)],
             pos    |-> start]

\* A number below 2^16 is kept.
LEMMA IndexKeeps ==
  ASSUME NEW n \in Nat, n < IndexModulus
  PROVE  Index(n) = n
BY WidthAssumption DEF Index

\* A number is its quotient times the modulus and its remainder, ...
LEMMA Division ==
  ASSUME NEW n \in Nat, NEW w \in Nat \ {0}
  PROVE  n % w \in 0 .. w - 1 /\ n = w * (n \div w) + (n % w) /\ n \div w \in Nat
OBVIOUS

\* ... and in one way only.
LEMMA Remainder ==
  ASSUME NEW w \in Nat \ {0}, NEW q \in Nat, NEW r \in 0 .. w - 1
  PROVE  (w * q + r) % w = r
<1> DEFINE n == w * q + r
           d == n \div w
           m == n % w
<1>1. \A e \in Int : e >= 1 => w * e >= w
  OBVIOUS
<1>2. n \in Nat
  OBVIOUS
<1>3. m \in 0 .. w - 1 /\ n = w * d + m /\ d \in Nat
  BY <1>2, Division
<1>4. w * q + r = w * d + m
  BY <1>3
<1> HIDE DEF d, m, n
<1>5. ~(q - d >= 1)
  <2> SUFFICES ASSUME q - d >= 1
               PROVE  FALSE
    OBVIOUS
  <2>1. w * (q - d) >= w
    BY <1>1, <1>3
  <2>2. w * (q - d) = m - r
    BY <1>3, <1>4
  <2> QED
    BY <1>3, <2>1, <2>2
<1>6. ~(d - q >= 1)
  <2> SUFFICES ASSUME d - q >= 1
               PROVE  FALSE
    OBVIOUS
  <2>1. w * (d - q) >= w
    BY <1>1, <1>3
  <2>2. w * (d - q) = r - m
    BY <1>3, <1>4
  <2> QED
    BY <1>3, <2>1, <2>2
<1>7. q = d
  BY <1>3, <1>5, <1>6
<1> QED
  BY <1>3, <1>4, <1>7 DEF m, n

\* The number that comes next.
LEMMA IndexOfNext ==
  ASSUME NEW n \in Nat
  PROVE  Index(Index(n) + 1) = Index(n + 1)
<1> DEFINE w == IndexModulus
           q == n \div w
           r == n % w
<1>1. w \in Nat \ {0}
  BY WidthAssumption
<1>2. r \in 0 .. w - 1 /\ n = w * q + r /\ q \in Nat
  BY <1>1, Division
<1>3. Index(Index(n) + 1) = (r + 1) % w /\ Index(n + 1) = (n + 1) % w
  BY DEF Index
<1> HIDE DEF w, q, r
<1>4. CASE r + 1 \in 0 .. w - 1
  <2>1. n + 1 = w * q + (r + 1)
    BY <1>1, <1>2
  <2>2. (n + 1) % w = r + 1
    BY <1>1, <1>2, <1>4, <2>1, Remainder
  <2>3. (r + 1) % w = r + 1
    BY <1>1, <1>2, <1>4
  <2> QED
    BY <1>3, <2>2, <2>3
<1>5. CASE r + 1 = w
  <2>1. n + 1 = w * (q + 1) + 0 /\ w = w * 1 + 0 /\ 0 \in 0 .. w - 1
    BY <1>1, <1>2, <1>5
  <2>2. (n + 1) % w = 0
    BY <1>1, <1>2, <2>1, Remainder
  <2>3. (w * 1 + 0) % w = 0
    BY <1>1, <2>1, Remainder
  <2> QED
    BY <1>3, <1>5, <2>1, <2>2, <2>3
<1> QED
  BY <1>1, <1>2, <1>4, <1>5

\* The end of a group, in a level that can be numbered.
LEMMA GroupEndIsWide ==
  ASSUME NEW octets, NEW level, Len(octets[level]) \in Nat, Len(octets[level]) < IndexModulus,
         NEW pos
  PROVE  GroupEnd(octets, level, pos) = WideGroupEnd(octets, level, pos)
<1>1. Index(Len(octets[level])) = Len(octets[level])
  BY IndexKeeps
<1> QED
  BY <1>1 DEF GroupEnd, WideGroupEnd

\* The moved groups, when the last of them starts at a number that can be raised.
LEMMA ShiftedIsWide ==
  ASSUME NEW nodes, NEW pos,
         \A i \in DOMAIN nodes : ~nodes[i].isLast =>
             nodes[i].index \in Nat /\ nodes[i].index + 1 < IndexModulus
  PROVE  Shifted(nodes, pos) = WideShifted(nodes, pos)
<1>1. \A i \in DOMAIN nodes : ~nodes[i].isLast =>
         Index(nodes[i].index + 1) = nodes[i].index + 1
  BY IndexKeeps
<1> QED
  BY <1>1 DEF Shifted, WideShifted

-----------------------------------------------------------------------------
(***************************************************************************)
(* Sets of numbers and sequences.                                          *)
(***************************************************************************)
\* A set of numbers has a least one.
LEMMA LeastExists ==
  ASSUME NEW S \in SUBSET Nat, S # {}
  PROVE  \E x \in S : \A y \in S : x <= y
<1> DEFINE R == OpToRel(<, Nat)
<1>1. IsWellFoundedOn(R, Nat)
  BY NatLessThanWellFounded, Zenon
<1>2. \A a, b \in Nat : a < b => <<a, b>> \in R
  BY DEF OpToRel
<1> HIDE DEF R
<1>3. PICK x \in S : \A y \in S : ~(<<y, x>> \in R)
  BY <1>1, WFMin, Zenon
<1>4. ASSUME NEW y \in S
      PROVE  x <= y
  <2>1. x \in Nat /\ y \in Nat
    OBVIOUS
  <2>2. ~(y < x)
    BY <1>2, <1>3, <2>1
  <2> QED
    BY <2>1, <2>2
<1> QED
  BY <1>4

\* The elements of a concatenation, counted by the length of the whole.
LEMMA ConcatIs ==
  ASSUME NEW S, NEW s \in Seq(S), NEW t \in Seq(S), NEW n \in Nat, n = Len(s) + Len(t)
  PROVE  /\ s \o t \in Seq(S) /\ Len(s \o t) = n
         /\ \A i \in 1 .. n : (s \o t)[i] = IF i <= Len(s) THEN s[i] ELSE t[i - Len(s)]
BY ConcatProperties

\* What InsertAt makes of a sequence.
LEMMA InsertAtIs ==
  ASSUME NEW S, NEW s \in Seq(S), NEW e \in S, NEW at \in 1 .. Len(s) + 1
  PROVE  /\ InsertAt(s, at, e) \in Seq(S)
         /\ Len(InsertAt(s, at, e)) = Len(s) + 1
         /\ \A i \in 1 .. Len(s) + 1 :
              InsertAt(s, at, e)[i] = IF i < at THEN s[i] ELSE IF i = at THEN e ELSE s[i - 1]
<1> DEFINE front == SubSeq(s, 1, at - 1)
           back  == SubSeq(s, at, Len(s))
<1>1. front \in Seq(S) /\ Len(front) = at - 1 /\ \A i \in 1 .. at - 1 : front[i] = s[i]
  OBVIOUS
<1>2. back \in Seq(S) /\ Len(back) = Len(s) + 1 - at
      /\ \A i \in 1 .. Len(s) + 1 - at : back[i] = s[at + i - 1]
  OBVIOUS
<1>3. InsertAt(s, at, e) = front \o <<e>> \o back
  BY DEF InsertAt
<1> HIDE DEF front, back
<1>4. front \o <<e>> \in Seq(S) /\ Len(front \o <<e>>) = at
      /\ \A i \in 1 .. at : (front \o <<e>>)[i] = IF i < at THEN s[i] ELSE e
  BY <1>1
<1> DEFINE both == front \o <<e>>
<1> HIDE DEF both
<1>5. both \in Seq(S) /\ Len(both) = at /\ \A i \in 1 .. at : both[i] = IF i < at THEN s[i] ELSE e
  BY <1>4 DEF both
<1>6. both \o back \in Seq(S) /\ Len(both \o back) = Len(s) + 1
      /\ \A i \in 1 .. Len(s) + 1 :
           (both \o back)[i] = IF i <= at THEN both[i] ELSE back[i - at]
  <2>1. Len(s) + 1 \in Nat /\ Len(s) + 1 = Len(both) + Len(back)
    BY <1>2, <1>5
  <2>2. both \in Seq(S) /\ back \in Seq(S) /\ Len(both) = at
    BY <1>2, <1>5
  <2> DEFINE n == Len(s) + 1
  <2> HIDE DEF n
  <2>3. n \in Nat /\ n = Len(both) + Len(back)
    BY <2>1 DEF n
  <2>4. /\ both \o back \in Seq(S) /\ Len(both \o back) = n
        /\ \A i \in 1 .. n : (both \o back)[i] = IF i <= Len(both) THEN both[i] ELSE back[i - Len(both)]
    BY <2>2, <2>3, ConcatIs, ZenonT(30)
  <2> QED
    BY <2>2, <2>4 DEF n
<1> DEFINE all == both \o back
<1>7. InsertAt(s, at, e) = all
  BY <1>3 DEF both
<1> HIDE DEF all
<1>8. ASSUME NEW i \in 1 .. Len(s) + 1
      PROVE  all[i] = IF i < at THEN s[i] ELSE IF i = at THEN e ELSE s[i - 1]
  <2>1. all[i] = IF i <= at THEN both[i] ELSE back[i - at]
    BY <1>6 DEF all
  <2>2. CASE i <= at
    BY <2>1, <2>2, <1>5
  <2>3. CASE i > at
    <3>1. i - at \in 1 .. Len(s) + 1 - at /\ at + (i - at) - 1 = i - 1
      BY <2>3
    <3>2. back[i - at] = s[i - 1]
      BY <1>2, <3>1
    <3> QED
      BY <2>1, <2>3, <3>2
  <2> QED
    BY <2>2, <2>3
<1> QED
  BY <1>6, <1>7, <1>8 DEF all
-----------------------------------------------------------------------------
(***************************************************************************)
(* Prefixes.                                                               *)
(***************************************************************************)
\* The level at which a prefix ends exists: the octets before it are full, and it
\* is the last octet if it is full too.
LEMMA LastLevelIs ==
  ASSUME NEW p, NEW n \in Nat \ {0}, p.ones \in [1 .. n -> 0 .. OctetBits]
  PROVE  /\ LastLevel(p) \in 0 .. n - 1
         /\ \A j \in 1 .. LastLevel(p) : p.ones[j] = OctetBits
         /\ p.ones[LastLevel(p) + 1] < OctetBits \/ LastLevel(p) = n - 1
<1> DEFINE S == {k \in 0 .. n - 1 : p.ones[k + 1] < OctetBits \/ k = n - 1}
<1>1. OctetBits \in Nat
  BY WidthAssumption
<1>2. Len(p.ones) = n
  <2>1. p.ones \in Seq(0 .. OctetBits)
    BY SeqDef
  <2> QED
    BY <2>1, LenProperties
<1>3. n - 1 \in S
  OBVIOUS
<1>4. PICK k \in S : \A j \in S : k <= j
  <2>1. S \in SUBSET Nat
    OBVIOUS
  <2>2. S # {}
    BY <1>3, Zenon
  <2> HIDE DEF S
  <2> QED
    BY <2>1, <2>2, LeastExists
<1>5. \A j \in 1 .. k : p.ones[j] = OctetBits
  <2> SUFFICES ASSUME NEW j \in 1 .. k
               PROVE  p.ones[j] = OctetBits
    OBVIOUS
  <2>1. j - 1 \in 0 .. n - 1 /\ j - 1 < k /\ (j - 1) + 1 = j
    OBVIOUS
  <2>2. j - 1 \notin S
    <3>1. k \in Nat /\ j - 1 \in Nat /\ ~(k <= j - 1)
      BY <2>1
    <3> HIDE DEF S
    <3> QED
      BY <1>4, <3>1
  <2>3. p.ones[j] \in 0 .. OctetBits
    BY <2>1
  <2> QED
    BY <1>1, <2>1, <2>2, <2>3
<1>6. \E l \in 0 .. Len(p.ones) - 1 :
         /\ p.ones[l + 1] < OctetBits \/ l = Len(p.ones) - 1
         /\ \A j \in 1 .. l : p.ones[j] = OctetBits
  BY <1>2, <1>5
<1> QED
  BY <1>2, <1>6 DEF LastLevel

Listable == PrefixSet \cup {EmptyPrefix}

\* What a rule's prefix gives AddPrefix.
LEMMA PrefixIs ==
  ASSUME NEW p \in Listable
  PROVE  /\ LastLevel(p) \in Levels
         /\ LastLevel(p) <= Length(p.family) - 1
         /\ \A k \in 0 .. LastLevel(p) :
              /\ p.octets[k + 1] \in Octet
              /\ p.ones[k + 1] \in 0 .. OctetBits
              /\ p.octets[k + 1] = Masked(p.octets[k + 1], p.ones[k + 1])
         /\ \A k \in 0 .. LastLevel(p) - 1 : p.ones[k + 1] = OctetBits
         /\ p.ones[LastLevel(p) + 1] = OctetBits
              => p.family \in {"v4", "v6"} /\ LastLevel(p) = Length(p.family) - 1
         /\ p.family \notin {"v4", "v6"} => LastLevel(p) = 0
<1>1. OctetBits \in Nat \ {0} /\ Length("v4") \in Nat \ {0} /\ Length("v6") = V6Octets
      /\ V6Octets \in Nat \ {0} /\ Length("v4") < V6Octets
  BY WidthAssumption DEF Length
<1>2. CASE p \in PrefixSet
  <2> DEFINE n == Length(p.family)
  <2>1. ShapedPrefix(p)
    BY <1>2, ListAssumption
  <2>2. n \in Nat \ {0} /\ n <= V6Octets /\ p.family \in {"v4", "v6"}
    BY <1>1, <2>1 DEF ShapedPrefix
  <2>3. p.ones \in [1 .. n -> 0 .. OctetBits] /\ p.octets \in [1 .. n -> Octet]
        /\ \A k \in 1 .. n : p.octets[k] = Masked(p.octets[k], p.ones[k])
    BY <2>1 DEF ShapedPrefix
  <2> HIDE DEF n
  <2>4. /\ LastLevel(p) \in 0 .. n - 1
        /\ \A j \in 1 .. LastLevel(p) : p.ones[j] = OctetBits
        /\ p.ones[LastLevel(p) + 1] < OctetBits \/ LastLevel(p) = n - 1
    BY <2>2, <2>3, LastLevelIs
  <2>5. LastLevel(p) \in Levels /\ LastLevel(p) <= n - 1
    BY <1>1, <2>2, <2>4 DEF Levels
  <2>6. \A k \in 0 .. LastLevel(p) : k + 1 \in 1 .. n
    BY <2>2, <2>4
  <2>7. \A k \in 0 .. LastLevel(p) - 1 : k + 1 \in 1 .. LastLevel(p)
    BY <2>2, <2>4
  <2> QED
    BY <1>1, <2>2, <2>3, <2>4, <2>5, <2>6, <2>7, SMTT(30) DEF n
<1>3. CASE p = EmptyPrefix
  <2>1. p.family = "any" /\ p.octets = [k \in 1 .. V6Octets |-> 0]
        /\ p.ones = [k \in 1 .. V6Octets |-> 0]
    BY <1>3 DEF EmptyPrefix
  <2>2. p.ones \in [1 .. V6Octets -> 0 .. OctetBits]
    BY <1>1, <2>1
  <2>3. /\ LastLevel(p) \in 0 .. V6Octets - 1
        /\ \A j \in 1 .. LastLevel(p) : p.ones[j] = OctetBits
    BY <1>1, <2>2, LastLevelIs
  <2>4. LastLevel(p) = 0
    <3>1. 1 \in 1 .. V6Octets
      BY <1>1
    <3>2. p.ones[1] # OctetBits
      BY <1>1, <2>1, <3>1
    <3> QED
      BY <2>3, <3>2
  <2>5. 2 ^ OctetBits \in Nat \ {0}
    BY <1>1, PowerAssumption
  <2>6. 0 = Masked(0, 0) /\ 0 \in Octet
    <3>1. OctetBits - 0 = OctetBits
      BY <1>1
    <3>2. \A m \in Nat \ {0} : 0 - (0 % m) = 0 /\ 0 \in 0 .. m - 1
      OBVIOUS
    <3> QED
      BY <2>5, <3>1, <3>2 DEF Masked, Octet
  <2>7. Length(p.family) = V6Octets
    BY <2>1 DEF Length
  <2>8. p.octets[1] = 0 /\ p.ones[1] = 0
    BY <1>1, <2>1
  <2>9. \A k \in 0 .. LastLevel(p) : k + 1 = 1
    BY <2>4
  <2>10. 0 \in 0 .. OctetBits /\ 0 # OctetBits
    BY <1>1
  <2>11. LastLevel(p) \in Levels /\ LastLevel(p) <= V6Octets - 1
    BY <1>1, <2>4 DEF Levels
  <2>12. p.ones[LastLevel(p) + 1] # OctetBits
    BY <2>4, <2>8, <2>10
  <2>13. \A k \in 0 .. LastLevel(p) - 1 : FALSE
    BY <2>4
  <2> QED
    BY <2>4, <2>6, <2>7, <2>8, <2>9, <2>10, <2>11, <2>12, <2>13
<1> QED
  BY <1>2, <1>3 DEF Listable

-----------------------------------------------------------------------------
(***************************************************************************)
(* InsertNode.                                                             *)
(***************************************************************************)
\* Where WideInsertNode may be called: below an inner node.
Place(octets, level, pos) ==
    level # 0 => /\ pos \in 0 .. Len(octets[level - 1]) - 1
                 /\ ~NodeAt(octets, level - 1, pos).isLast

\* The facts about the nodes of a level, one by one.
LEMMA NodeIs ==
  ASSUME NEW octets, NEW bound \in Nat, TreeShape(octets, bound),
         NEW k \in Levels, NEW i \in 0 .. Len(octets[k]) - 1
  PROVE  /\ NodeAt(octets, k, i) \in NodeType
         /\ Fits(octets, bound, k, NodeAt(octets, k, i))
         /\ Len(octets[k]) \in Nat
<1>1. octets[k] \in Seq(NodeType) /\ Len(octets[k]) \in Nat
  BY DEF TreeShape
<1>2. i + 1 \in 1 .. Len(octets[k])
  BY <1>1
<1> QED
  BY <1>1, <1>2, ElementOfSeq DEF TreeShape, NodeAt

\* A group ends within its level.
LEMMA GroupEndIs ==
  ASSUME NEW octets, NEW bound \in Nat, TreeShape(octets, bound),
         NEW level \in Levels, NEW pos \in Nat
  PROVE  WideGroupEnd(octets, level, pos) \in 0 .. Len(octets[level])
<1>1. Len(octets[level]) \in Nat
  BY DEF TreeShape
<1>2. CASE level = 0
  BY <1>1, <1>2 DEF WideGroupEnd
<1>3. CASE level # 0
  <2> DEFINE above == level - 1
             S == {i \in pos + 1 .. Len(octets[above]) - 1 : ~NodeAt(octets, above, i).isLast}
             least == CHOOSE i \in S : \A j \in S : i <= j
  <2>1. above \in Levels /\ above + 1 = level
    BY <1>3, WidthAssumption DEF Levels
  <2>2. WideGroupEnd(octets, level, pos)
          = IF S = {} THEN Len(octets[level]) ELSE NodeAt(octets, above, least).index
    BY <1>3 DEF WideGroupEnd
  <2>3. CASE S = {}
    BY <1>1, <2>2, <2>3
  <2>4. CASE S # {}
    <3>1. Len(octets[above]) \in Nat
      BY <2>1 DEF TreeShape
    <3>2. S \in SUBSET Nat
      BY <3>1
    <3> HIDE DEF above
    <3>3. \A i \in S : i \in 0 .. Len(octets[above]) - 1 /\ ~NodeAt(octets, above, i).isLast
      BY <3>1
    <3>4. least \in S
      <4> HIDE DEF S
      <4>1. \E i \in S : \A j \in S : i <= j
        BY <2>4, <3>2, LeastExists
      <4> QED
        BY <4>1, Zenon
    <3> HIDE DEF S, least
    <3>5. NodeAt(octets, above, least) \in NodeType
          /\ Fits(octets, bound, above, NodeAt(octets, above, least))
      BY <2>1, <3>3, <3>4, NodeIs
    <3>6. NodeAt(octets, above, least).index \in Nat
          /\ NodeAt(octets, above, least).index <= Len(octets[level])
      BY <2>1, <3>3, <3>4, <3>5 DEF Fits, NodeType
    <3> QED
      BY <1>1, <2>2, <2>4, <3>6
  <2> QED
    BY <2>3, <2>4
<1> QED
  BY <1>2, <1>3

\* A group starts within its level.
LEMMA GroupStartIs ==
  ASSUME NEW octets, NEW bound \in Nat, TreeShape(octets, bound),
         NEW level \in Levels, NEW pos, Place(octets, level, pos)
  PROVE  GroupStart(octets, level, pos) \in 0 .. Len(octets[level])
<1>1. Len(octets[level]) \in Nat
  BY DEF TreeShape
<1>2. CASE level = 0
  BY <1>1, <1>2 DEF GroupStart
<1>3. CASE level # 0
  <2>1. level - 1 \in Levels /\ (level - 1) + 1 = level
    BY <1>3, WidthAssumption DEF Levels
  <2> DEFINE node == NodeAt(octets, level - 1, pos)
  <2>2. node \in NodeType /\ Fits(octets, bound, level - 1, node) /\ ~node.isLast
    BY <1>3, <2>1, NodeIs DEF Place
  <2>3. GroupStart(octets, level, pos) = node.index
    BY <1>3 DEF GroupStart
  <2> HIDE DEF node
  <2>4. node.index \in Nat /\ node.index <= Len(octets[level])
    BY <2>1, <2>2 DEF Fits, NodeType
  <2> QED
    BY <1>1, <2>3, <2>4
<1> QED
  BY <1>2, <1>3

\* The node is shared with an equal inner one, or it comes first in its group, the
\* level above moves its later groups, and nothing else changes.
Shared(octets, node, level, pos, result) ==
    /\ result.octets = octets
    /\ result.pos \in 0 .. Len(octets[level]) - 1
    /\ result.pos \in GroupStart(octets, level, pos) .. WideGroupEnd(octets, level, pos) - 1
    /\ Equal(NodeAt(octets, level, result.pos), node)
    /\ \A c \in GroupStart(octets, level, pos) .. WideGroupEnd(octets, level, pos) - 1 :
          Equal(NodeAt(octets, level, c), node) => result.pos <= c

Grown(octets, node, level, pos, result) ==
    /\ result.pos = GroupStart(octets, level, pos)
    /\ result.octets \in [Levels -> Seq(NodeType)]
    /\ Len(result.octets[level]) = Len(octets[level]) + 1
    /\ \A i \in 1 .. Len(octets[level]) + 1 :
          result.octets[level][i] = IF i < result.pos + 1 THEN octets[level][i]
                                    ELSE IF i = result.pos + 1 THEN node
                                    ELSE octets[level][i - 1]
    /\ level # 0 => result.octets[level - 1] = WideShifted(octets[level - 1], pos)
    /\ \A l \in Levels \ {level, level - 1} : result.octets[l] = octets[l]

\* Shifting keeps the nodes of a level in place.
LEMMA ShiftedIs ==
  ASSUME NEW nodes \in Seq(NodeType), NEW pos \in Nat
  PROVE  /\ WideShifted(nodes, pos) \in Seq(NodeType)
         /\ Len(WideShifted(nodes, pos)) = Len(nodes)
         /\ \A i \in 1 .. Len(nodes) :
              LET old == nodes[i]
                  new == WideShifted(nodes, pos)[i]
              IN /\ new.value = old.value /\ new.ones = old.ones /\ new.isLast = old.isLast
                 /\ new.index = IF i > pos + 1 /\ ~old.isLast THEN old.index + 1 ELSE old.index
                 /\ new \in NodeType
<1> DEFINE n == Len(nodes)
           new(i) == IF i > pos + 1 /\ ~nodes[i].isLast
                     THEN [nodes[i] EXCEPT !.index = @ + 1]
                     ELSE nodes[i]
<1>1. n \in Nat /\ DOMAIN nodes = 1 .. n
  OBVIOUS
<1>2. WideShifted(nodes, pos) = [i \in 1 .. n |-> new(i)]
  BY <1>1 DEF WideShifted
<1>3. ASSUME NEW i \in 1 .. n
      PROVE  /\ new(i).value = nodes[i].value /\ new(i).ones = nodes[i].ones
             /\ new(i).isLast = nodes[i].isLast
             /\ new(i).index = IF i > pos + 1 /\ ~nodes[i].isLast
                               THEN nodes[i].index + 1 ELSE nodes[i].index
             /\ new(i) \in NodeType
  <2>1. nodes[i] \in NodeType
    BY <1>1, ElementOfSeq
  <2>2. nodes[i].index + 1 \in Nat
    BY <2>1 DEF NodeType
  <2>3. CASE i > pos + 1 /\ ~nodes[i].isLast
    <3>1. new(i) = [nodes[i] EXCEPT !.index = @ + 1]
      BY <2>3
    <3> QED
      BY <2>1, <2>2, <2>3, <3>1 DEF NodeType
  <2>4. CASE ~(i > pos + 1 /\ ~nodes[i].isLast)
    BY <2>1, <2>4
  <2> QED
    BY <2>3, <2>4
<1> HIDE DEF new
<1>4. [i \in 1 .. n |-> new(i)] \in [1 .. n -> NodeType]
  BY <1>3
<1> HIDE DEF n
<1>5. [i \in 1 .. n |-> new(i)] \in Seq(NodeType)
  BY <1>1, <1>4, SeqDef
<1>6. Len([i \in 1 .. n |-> new(i)]) = n
  BY <1>1, <1>5, LenProperties
<1> QED
  BY <1>2, <1>3, <1>5, <1>6 DEF n

\* What WideInsertNode does (insertNode, ipAddressFieldMatcher.cpp:40).
LEMMA InsertNodeIs ==
  ASSUME NEW octets, NEW bound \in Nat, TreeShape(octets, bound),
         NEW level \in Levels, NEW pos, Place(octets, level, pos), NEW node \in NodeType,
         NEW result, result = WideInsertNode(octets, node, level, pos)
  PROVE  Shared(octets, node, level, pos, result) \/ Grown(octets, node, level, pos, result)
<1> DEFINE start == GroupStart(octets, level, pos)
           end == WideGroupEnd(octets, level, pos)
           same == {i \in start .. end - 1 : Equal(NodeAt(octets, level, i), node)}
           least == CHOOSE i \in same : \A j \in same : i <= j
           grown == [octets EXCEPT ![level] = InsertAt(@, start + 1, node)]
           n == Len(octets[level])
<1>1. octets \in [Levels -> Seq(NodeType)] /\ n \in Nat /\ octets[level] \in Seq(NodeType)
  BY DEF TreeShape
<1>2. start \in 0 .. n
  BY GroupStartIs
<1>3. level # 0 => pos \in Nat /\ level - 1 \in Levels
  BY WidthAssumption DEF Place, Levels
<1>4. end \in 0 .. n
  <2>1. CASE level = 0
    BY <1>1, <2>1 DEF WideGroupEnd
  <2>2. CASE level # 0
    BY <1>3, <2>2, GroupEndIs
  <2> QED
    BY <2>1, <2>2
<1>5. result = IF same # {}
               THEN [octets |-> octets, pos |-> least]
               ELSE [octets |-> IF level = 0
                                THEN grown
                                ELSE [grown EXCEPT ![level - 1] = WideShifted(@, pos)],
                     pos |-> start]
  BY DEF WideInsertNode
<1>6. CASE same # {}
  <2>1. same \in SUBSET Nat /\ \A i \in same : i \in 0 .. n - 1 /\ Equal(NodeAt(octets, level, i), node)
    <3> HIDE DEF start, end
    <3> QED
      BY <1>1, <1>2, <1>4
  <2> HIDE DEF same
  <2>2. \E i \in same : \A j \in same : i <= j
    BY <1>6, <2>1, LeastExists
  <2>3. least \in same
    BY <2>2, Zenon
  <2>4. result.octets = octets /\ result.pos = least
    BY <1>5, <1>6
  <2> HIDE DEF least, n
  <2>5. result.pos \in 0 .. n - 1 /\ Equal(NodeAt(octets, level, result.pos), node)
    BY <2>1, <2>3, <2>4
  <2>6. result.pos \in same /\ \A c \in same : result.pos <= c
    BY <2>2, <2>3, <2>4 DEF least
  <2>7. /\ result.pos \in start .. end - 1
        /\ \A c \in start .. end - 1 : Equal(NodeAt(octets, level, c), node) => result.pos <= c
    BY <2>6 DEF same
  <2> QED
    BY <2>4, <2>5, <2>7 DEF Shared, n
<1>7. CASE same = {}
  <2> HIDE DEF same
  <2> DEFINE place == start + 1
             row == InsertAt(octets[level], place, node)
             above == WideShifted(octets[level - 1], pos)
  <2>1. /\ row \in Seq(NodeType) /\ Len(row) = n + 1
        /\ \A i \in 1 .. n + 1 :
             row[i] = IF i < start + 1 THEN octets[level][i]
                      ELSE IF i = start + 1 THEN node ELSE octets[level][i - 1]
    <3>1. place \in 1 .. n + 1
      <4> HIDE DEF start, n
      <4> QED
        BY <1>1, <1>2
    <3> HIDE DEF place
    <3>2. /\ row \in Seq(NodeType) /\ Len(row) = n + 1
          /\ \A i \in 1 .. n + 1 :
               row[i] = IF i < place THEN octets[level][i]
                        ELSE IF i = place THEN node ELSE octets[level][i - 1]
      BY <1>1, <3>1, InsertAtIs
    <3> QED
      BY <3>2 DEF place
  <2>2. grown = [octets EXCEPT ![level] = row]
    BY Zenon
  <2> HIDE DEF row, grown, n, start
  <2>3. CASE level = 0
    <3>1. result = [octets |-> grown, pos |-> start]
      BY <1>5, <1>7, <2>3
    <3>2. grown \in [Levels -> Seq(NodeType)] /\ grown[level] = row
          /\ \A l \in Levels \ {level, level - 1} : grown[l] = octets[l]
      BY <1>1, <2>1, <2>2
    <3>3. result.octets = grown /\ result.pos = start
      BY <3>1
    <3>4. Grown(octets, node, level, pos, result)
      BY <2>1, <2>3, <3>2, <3>3 DEF Grown, start, n
    <3> QED
      BY <3>4
  <2>4. CASE level # 0
    <3>1. above \in Seq(NodeType)
      BY <1>1, <1>3, <2>4, ShiftedIs
    <3>2. result = [octets |-> [grown EXCEPT ![level - 1] = WideShifted(@, pos)], pos |-> start]
      BY <1>5, <1>7, <2>4
    <3>3. level - 1 # level
      BY DEF Levels
    <3>4. grown[level - 1] = octets[level - 1]
      BY <1>1, <1>3, <2>2, <2>4, <3>3
    <3>5. [grown EXCEPT ![level - 1] = WideShifted(@, pos)] = [grown EXCEPT ![level - 1] = above]
      BY <3>4
    <3> HIDE DEF above
    <3>6. grown \in [Levels -> Seq(NodeType)] /\ grown[level] = row
          /\ \A l \in Levels \ {level} : grown[l] = octets[l]
      BY <1>1, <2>1, <2>2
    <3> DEFINE new == [grown EXCEPT ![level - 1] = above]
    <3>7. new \in [Levels -> Seq(NodeType)] /\ new[level] = row /\ new[level - 1] = above
          /\ \A l \in Levels \ {level, level - 1} : new[l] = octets[l]
      BY <1>3, <2>4, <3>1, <3>3, <3>6
    <3>8. result = [octets |-> new, pos |-> start]
      BY <3>2, <3>5
    <3> HIDE DEF new
    <3>9. Grown(octets, node, level, pos, result)
      BY <2>1, <3>7, <3>8 DEF Grown, start, n, above
    <3> QED
      BY <3>9
  <2> QED
    BY <2>3, <2>4
<1> QED
  BY <1>6, <1>7

\* A node as AddPrefix makes it: an inner one has no children yet.
NewNode(bound, level, node) ==
    /\ node \in NodeType
    /\ node.value = Masked(node.value, node.ones)
    /\ IF node.isLast THEN node.index < bound ELSE level + 1 \in Levels /\ node.index = 0

\* A new node leaves every position within its level, and below an inner one the
\* next octet can follow.
LEMMA InsertKeepsShape ==
  ASSUME NEW octets, NEW bound \in Nat, TreeShape(octets, bound),
         NEW level \in Levels, NEW pos, Place(octets, level, pos),
         NEW node, NewNode(bound, level, node),
         NEW result, result = WideInsertNode(octets, node, level, pos)
  PROVE  /\ TreeShape(result.octets, bound)
         /\ ~node.isLast => Place(result.octets, level + 1, result.pos)
<1>1. node \in NodeType
  BY DEF NewNode
<1>2. Shared(octets, node, level, pos, result) \/ Grown(octets, node, level, pos, result)
  BY <1>1, InsertNodeIs
<1>3. level \in Nat /\ (level + 1) - 1 = level /\ level + 1 # 0
  BY WidthAssumption DEF Levels
<1>4. \A k \in Levels : octets[k] \in Seq(NodeType) /\ Len(octets[k]) \in Nat
  BY DEF TreeShape
<1>5. CASE Shared(octets, node, level, pos, result)
  <2>1. Place(result.octets, level + 1, result.pos)
    BY <1>3, <1>5 DEF Shared, Equal, Place
  <2> QED
    BY <1>5, <2>1 DEF Shared
<1>6. CASE Grown(octets, node, level, pos, result)
  <2> DEFINE new == result.octets
             at == result.pos
  <2>1. at \in 0 .. Len(octets[level])
    BY <1>6, GroupStartIs DEF Grown
  <2>2. /\ new \in [Levels -> Seq(NodeType)]
        /\ Len(new[level]) = Len(octets[level]) + 1
        /\ \A i \in 1 .. Len(octets[level]) + 1 :
             new[level][i] = IF i < at + 1 THEN octets[level][i]
                             ELSE IF i = at + 1 THEN node ELSE octets[level][i - 1]
        /\ level # 0 => new[level - 1] = WideShifted(octets[level - 1], pos)
        /\ \A l \in Levels \ {level, level - 1} : new[l] = octets[l]
    BY <1>6 DEF Grown
  <2> HIDE DEF new, at
  <2>3. \A k \in Levels : Len(octets[k]) <= Len(new[k])
    <3> SUFFICES ASSUME NEW k \in Levels
                 PROVE  Len(octets[k]) <= Len(new[k])
      OBVIOUS
    <3>1. CASE k = level
      BY <1>4, <2>2, <3>1
    <3>2. CASE k = level - 1 /\ k # level
      <4>1. level # 0 /\ pos \in Nat
        BY <3>2, WidthAssumption DEF Levels, Place
      <4>2. Len(WideShifted(octets[k], pos)) = Len(octets[k])
        BY <1>4, <4>1, ShiftedIs
      <4> QED
        BY <1>4, <2>2, <3>2, <4>1, <4>2
    <3>3. CASE k \notin {level, level - 1}
      BY <1>4, <2>2, <3>3
    <3> QED
      BY <3>1, <3>2, <3>3
  <2>4. \A k \in Levels : Len(new[k]) \in Nat
    BY <2>2
  <2>5. ASSUME NEW k \in Levels, NEW i \in 1 .. Len(new[k])
        PROVE  Fits(new, bound, k, new[k][i])
    <3>1. \A j \in 1 .. Len(octets[k]) :
             octets[k][j] \in NodeType /\ Fits(octets, bound, k, octets[k][j])
      BY <1>4, ElementOfSeq DEF TreeShape
    <3>2. \A old \in NodeType : Fits(octets, bound, k, old) => Fits(new, bound, k, old)
      BY <1>4, <2>3, <2>4 DEF Fits, NodeType
    <3>3. CASE k = level
      <4>1. CASE i = at + 1
        <5>1. new[k][i] = node
          BY <2>2, <3>3, <4>1
        <5>2. level + 1 \in Levels => 0 <= Len(new[level + 1])
          BY <2>4
        <5> QED
          BY <3>3, <5>1, <5>2 DEF NewNode, Fits
      <4>2. CASE i # at + 1
        <5>1. \E j \in 1 .. Len(octets[k]) : new[k][i] = octets[k][j]
          <6>1. i \in 1 .. Len(octets[k]) + 1
            BY <2>2, <3>3
          <6>2. CASE i < at + 1
            BY <1>4, <2>1, <2>2, <3>3, <6>1, <6>2
          <6>3. CASE i > at + 1
            <7>1. i - 1 \in 1 .. Len(octets[k])
              BY <1>4, <2>1, <3>3, <6>1, <6>3
            <7> QED
              BY <2>1, <2>2, <3>3, <6>1, <6>3, <7>1
          <6> QED
            BY <2>1, <4>2, <6>1, <6>2, <6>3
        <5> QED
          BY <3>1, <3>2, <5>1
      <4> QED
        BY <4>1, <4>2
    <3>4. CASE k = level - 1 /\ k # level
      <4>1. level # 0 /\ pos \in Nat /\ k + 1 = level
        BY <3>4, WidthAssumption DEF Levels, Place
      <4>2. i \in 1 .. Len(octets[k]) /\ new[k] = WideShifted(octets[k], pos)
        BY <1>4, <2>2, <3>4, <4>1, ShiftedIs
      <4> DEFINE old == octets[k][i]
                 moved == new[k][i]
      <4>3. /\ moved.value = old.value /\ moved.ones = old.ones /\ moved.isLast = old.isLast
            /\ moved.index = IF i > pos + 1 /\ ~old.isLast THEN old.index + 1 ELSE old.index
        BY <1>4, <4>1, <4>2, ShiftedIs
      <4>4. old \in NodeType /\ Fits(octets, bound, k, old)
        BY <3>1, <4>2
      <4> HIDE DEF old, moved
      <4>5. old.index \in Nat /\ Len(octets[level]) \in Nat
        BY <1>4, <4>4 DEF NodeType
      <4>6. Fits(new, bound, k, moved)
        <5>1. CASE old.isLast
          BY <4>3, <4>4, <5>1 DEF Fits
        <5>2. CASE ~old.isLast
          <6>1. old.index <= Len(octets[level]) /\ Len(new[level]) = Len(octets[level]) + 1
            BY <2>2, <4>1, <4>4, <5>2 DEF Fits
          <6>2. moved.index <= Len(new[level])
            BY <4>3, <4>5, <6>1
          <6> QED
            BY <4>1, <4>3, <4>4, <5>2, <6>2 DEF Fits
        <5> QED
          BY <5>1, <5>2
      <4> QED
        BY <4>6 DEF moved
    <3>5. CASE k \notin {level, level - 1}
      <4>1. new[k] = octets[k]
        BY <2>2, <3>5
      <4> QED
        BY <3>1, <3>2, <4>1
    <3> QED
      BY <3>3, <3>4, <3>5
  <2>6. Place(new, level + 1, at) \/ node.isLast
    <3>1. at \in 0 .. Len(new[level]) - 1
      BY <1>4, <2>1, <2>2
    <3>2. NodeAt(new, level, at) = node
      BY <1>4, <2>1, <2>2 DEF NodeAt
    <3> QED
      BY <1>3, <3>1, <3>2 DEF Place
  <2> QED
    BY <2>2, <2>5, <2>6 DEF TreeShape, new, at
<1> QED
  BY <1>2, <1>5, <1>6

-----------------------------------------------------------------------------
(***************************************************************************)
(* Whose the nodes are.                                                    *)
(***************************************************************************)
\* Rule r has one last node, at level "last".
Owned(octets, r, last) ==
    \E i \in 1 .. Len(octets[last]) :
        \A k \in Levels : \A j \in 1 .. Len(octets[k]) :
            IsLastOf(octets[k][j], r) <=> (k = last /\ j = i)

\* Rule r has none.
Ownerless(octets, r) ==
    \A k \in Levels : \A j \in 1 .. Len(octets[k]) : ~IsLastOf(octets[k][j], r)

\* An inner node is full, and a prefix of the list goes on below it.
InnerIsFull(octets, list) ==
    \A k \in Levels : \A i \in 1 .. Len(octets[k]) :
        ~octets[k][i].isLast =>
            /\ octets[k][i].ones = OctetBits
            /\ \E m \in DOMAIN list : k < LastLevel(list[m])

\* The position a node had before another was inserted at "at" of its level.
Before(level, at, k, j) == IF k = level /\ j > at + 1 THEN j - 1 ELSE j

SameNode(new, old) ==
    /\ new.value = old.value /\ new.ones = old.ones /\ new.isLast = old.isLast
    /\ old.isLast => new.index = old.index

\* The node at j of level k is the inserted one or was there before.
NewOrOld(octets, node, level, result, k, j) ==
    IF k = level /\ j = result.pos + 1
    THEN result.octets[k][j] = node
    ELSE /\ Before(level, result.pos, k, j) \in 1 .. Len(octets[k])
         /\ SameNode(result.octets[k][j], octets[k][Before(level, result.pos, k, j)])

\* After an insertion every node is the new one or an old one, moved at most.
LEMMA GrownNodes ==
  ASSUME NEW octets, NEW bound \in Nat, TreeShape(octets, bound),
         NEW level \in Levels, NEW pos, Place(octets, level, pos), NEW node,
         NEW result, Grown(octets, node, level, pos, result)
  PROVE  /\ result.pos \in 0 .. Len(octets[level])
         /\ Len(result.octets[level]) = Len(octets[level]) + 1
         /\ \A k \in Levels \ {level} : Len(result.octets[k]) = Len(octets[k])
         /\ \A k \in Levels : \A j \in 1 .. Len(result.octets[k]) :
              NewOrOld(octets, node, level, result, k, j)
<1>1. \A l \in Levels : octets[l] \in Seq(NodeType) /\ Len(octets[l]) \in Nat
  BY DEF TreeShape
<1>2. result.pos \in 0 .. Len(octets[level])
  BY GroupStartIs DEF Grown
<1> DEFINE new == result.octets
           at == result.pos
<1>3. /\ Len(new[level]) = Len(octets[level]) + 1
      /\ \A i \in 1 .. Len(octets[level]) + 1 :
           new[level][i] = IF i < at + 1 THEN octets[level][i]
                           ELSE IF i = at + 1 THEN node ELSE octets[level][i - 1]
      /\ level # 0 => new[level - 1] = WideShifted(octets[level - 1], pos)
      /\ \A l \in Levels \ {level, level - 1} : new[l] = octets[l]
  BY DEF Grown
<1>4. at \in 0 .. Len(octets[level])
  BY <1>2
<1> HIDE DEF new, at
<1> SUFFICES ASSUME NEW k \in Levels
             PROVE  /\ IF k = level THEN Len(new[k]) = Len(octets[k]) + 1
                                     ELSE Len(new[k]) = Len(octets[k])
                    /\ \A j \in 1 .. Len(new[k]) : NewOrOld(octets, node, level, result, k, j)
  BY <1>2 DEF new
<1>5. CASE k = level
  <2>1. ASSUME NEW j \in 1 .. Len(new[k]), j # at + 1
        PROVE  /\ Before(level, at, k, j) \in 1 .. Len(octets[k])
               /\ new[k][j] = octets[k][Before(level, at, k, j)]
    <3>1. j \in 1 .. Len(octets[level]) + 1
      BY <1>3, <1>5
    <3>2. CASE j < at + 1
      <4>1. Before(level, at, k, j) = j
        BY <1>4, <3>1, <3>2 DEF Before
      <4> QED
        BY <1>1, <1>3, <1>4, <1>5, <3>1, <3>2, <4>1
    <3>3. CASE j > at + 1
      <4>1. Before(level, at, k, j) = j - 1
        BY <1>5, <3>3 DEF Before
      <4>2. j - 1 \in 1 .. Len(octets[level])
        BY <1>1, <1>4, <3>1, <3>3
      <4> QED
        BY <1>3, <1>4, <1>5, <3>1, <3>3, <4>1, <4>2
    <3> QED
      BY <1>4, <2>1, <3>1, <3>2, <3>3
  <2>2. new[k][at + 1] = node
    BY <1>1, <1>3, <1>4, <1>5
  <2> QED
    BY <1>3, <1>4, <1>5, <2>1, <2>2 DEF new, at, NewOrOld, SameNode
<1>6. CASE k # level
  <2>1. \A j : Before(level, at, k, j) = j
    BY <1>6 DEF Before
  <2>2. CASE k = level - 1
    <3>1. level # 0 /\ pos \in Nat
      BY <2>2, WidthAssumption DEF Levels, Place
    <3>2. new[k] = WideShifted(octets[k], pos) /\ Len(new[k]) = Len(octets[k])
      <4>1. new[k] = WideShifted(octets[k], pos)
        BY <1>3, <2>2, <3>1
      <4>2. Len(WideShifted(octets[k], pos)) = Len(octets[k])
        BY <1>1, <3>1, ShiftedIs
      <4> QED
        BY <4>1, <4>2
    <3>3. ASSUME NEW j \in 1 .. Len(new[k])
          PROVE  /\ new[k][j].value = octets[k][j].value /\ new[k][j].ones = octets[k][j].ones
                 /\ new[k][j].isLast = octets[k][j].isLast
                 /\ octets[k][j].isLast => new[k][j].index = octets[k][j].index
      <4>1. j \in 1 .. Len(octets[k])
        BY <3>2
      <4> QED
        BY <1>1, <3>1, <3>2, <4>1, ShiftedIs
    <3> QED
      BY <1>1, <1>4, <1>6, <2>1, <3>2, <3>3 DEF new, at, NewOrOld, SameNode
  <2>3. CASE k # level - 1
    <3>1. new[k] = octets[k]
      BY <1>3, <1>6, <2>3
    <3> QED
      BY <1>1, <1>4, <1>6, <2>1, <3>1 DEF new, at, NewOrOld, SameNode
  <2> QED
    BY <2>2, <2>3
<1> QED
  BY <1>5, <1>6

\* A rule keeps its only last node when a node of another kind or rule comes.
LEMMA OwnedIsKept ==
  ASSUME NEW octets, NEW bound \in Nat, TreeShape(octets, bound),
         NEW level \in Levels, NEW pos, Place(octets, level, pos), NEW node,
         NEW result, Grown(octets, node, level, pos, result),
         NEW r, NEW last \in Levels, Owned(octets, r, last), ~IsLastOf(node, r)
  PROVE  Owned(result.octets, r, last)
<1> DEFINE new == result.octets
           at == result.pos
<1>1. PICK i \in 1 .. Len(octets[last]) :
        \A k \in Levels : \A j \in 1 .. Len(octets[k]) :
            IsLastOf(octets[k][j], r) <=> (k = last /\ j = i)
  BY DEF Owned
<1>2. \A k \in Levels : Len(octets[k]) \in Nat
  BY DEF TreeShape
<1>3. /\ Len(new[level]) = Len(octets[level]) + 1
      /\ \A k \in Levels \ {level} : Len(new[k]) = Len(octets[k])
  BY GrownNodes
<1>4. at \in Nat
  <2>1. at \in 0 .. Len(octets[level])
    BY GrownNodes
  <2> QED
    BY <1>2, <2>1
<1>5. \A k \in Levels : \A j \in 1 .. Len(new[k]) :
        IF k = level /\ j = at + 1
        THEN new[k][j] = node
        ELSE /\ Before(level, at, k, j) \in 1 .. Len(octets[k])
             /\ IsLastOf(new[k][j], r) <=> IsLastOf(octets[k][Before(level, at, k, j)], r)
  <2> SUFFICES ASSUME NEW k \in Levels, NEW j \in 1 .. Len(new[k])
               PROVE  IF k = level /\ j = at + 1
                      THEN new[k][j] = node
                      ELSE /\ Before(level, at, k, j) \in 1 .. Len(octets[k])
                           /\ IsLastOf(new[k][j], r)
                                <=> IsLastOf(octets[k][Before(level, at, k, j)], r)
    OBVIOUS
  <2>1. NewOrOld(octets, node, level, result, k, j)
    BY GrownNodes
  <2> HIDE DEF new, at
  <2> QED
    BY <2>1 DEF IsLastOf, NewOrOld, SameNode, new, at
<1> DEFINE now == IF last = level /\ i >= at + 1 THEN i + 1 ELSE i
<1> HIDE DEF new, at
<1>6. now \in 1 .. Len(new[last])
  <2>1. CASE last = level
    BY <1>2, <1>3, <1>4, <2>1
  <2>2. CASE last # level
    BY <1>2, <1>3, <2>2
  <2> QED
    BY <2>1, <2>2
<1>7. ASSUME NEW k \in Levels, NEW j \in 1 .. Len(new[k])
      PROVE  IsLastOf(new[k][j], r) <=> (k = last /\ j = now)
  <2>1. CASE k = level /\ j = at + 1
    <3>1. ~IsLastOf(new[k][j], r)
      BY <1>5, <2>1
    <3>2. ~(k = last /\ j = now)
      BY <1>4, <2>1
    <3> QED
      BY <3>1, <3>2
  <2>2. CASE ~(k = level /\ j = at + 1)
    <3>1. /\ Before(level, at, k, j) \in 1 .. Len(octets[k])
          /\ IsLastOf(new[k][j], r) <=> IsLastOf(octets[k][Before(level, at, k, j)], r)
      BY <1>5, <2>2
    <3>2. IsLastOf(new[k][j], r) <=> (k = last /\ Before(level, at, k, j) = i)
      BY <1>1, <3>1
    <3>3. (k = last /\ Before(level, at, k, j) = i) <=> (k = last /\ j = now)
      BY <1>2, <1>3, <1>4, <2>2 DEF Before
    <3> QED
      BY <3>2, <3>3
  <2> QED
    BY <2>1, <2>2
<1> HIDE DEF now
<1>8. \E l \in 1 .. Len(new[last]) :
         \A k \in Levels : \A j \in 1 .. Len(new[k]) :
            IsLastOf(new[k][j], r) <=> (k = last /\ j = l)
  BY <1>6, <1>7, Zenon
<1> QED
  BY <1>8 DEF Owned, new

\* A rule without a last node gets its only one, or still has none.
LEMMA OwnerlessGetsOne ==
  ASSUME NEW octets, NEW bound \in Nat, TreeShape(octets, bound),
         NEW level \in Levels, NEW pos, Place(octets, level, pos), NEW node,
         NEW result, Grown(octets, node, level, pos, result),
         NEW r, Ownerless(octets, r)
  PROVE  IF IsLastOf(node, r) THEN Owned(result.octets, r, level)
                              ELSE Ownerless(result.octets, r)
<1> DEFINE new == result.octets
           at == result.pos
<1>1. \A k \in Levels : Len(octets[k]) \in Nat
  BY DEF TreeShape
<1>2. Len(new[level]) = Len(octets[level]) + 1 /\ at \in 0 .. Len(octets[level])
  BY GrownNodes
<1>3. ASSUME NEW k \in Levels, NEW j \in 1 .. Len(new[k])
      PROVE  IF k = level /\ j = at + 1 THEN new[k][j] = node ELSE ~IsLastOf(new[k][j], r)
  <2>1. NewOrOld(octets, node, level, result, k, j)
    BY GrownNodes
  <2> HIDE DEF new, at
  <2> QED
    BY <2>1 DEF IsLastOf, Ownerless, NewOrOld, SameNode, new, at
<1>4. at + 1 \in 1 .. Len(new[level])
  BY <1>1, <1>2
<1> HIDE DEF new, at
<1>5. CASE IsLastOf(node, r)
  <2>1. \A k \in Levels : \A j \in 1 .. Len(new[k]) :
          IsLastOf(new[k][j], r) <=> (k = level /\ j = at + 1)
    BY <1>3, <1>5
  <2> QED
    BY <1>4, <1>5, <2>1 DEF Owned, new
<1>6. CASE ~IsLastOf(node, r)
  <2>1. \A k \in Levels : \A j \in 1 .. Len(new[k]) : ~IsLastOf(new[k][j], r)
    BY <1>3, <1>6
  <2> QED
    BY <1>6, <2>1 DEF Ownerless, new
<1> QED
  BY <1>5, <1>6

\* Inner nodes stay full.
LEMMA InnerStaysFull ==
  ASSUME NEW octets, NEW bound \in Nat, TreeShape(octets, bound),
         NEW level \in Levels, NEW pos, Place(octets, level, pos), NEW node,
         NEW result, Grown(octets, node, level, pos, result),
         NEW list, InnerIsFull(octets, list),
         ~node.isLast => node.ones = OctetBits /\ \E m \in DOMAIN list : level < LastLevel(list[m])
  PROVE  InnerIsFull(result.octets, list)
<1> DEFINE new == result.octets
           at == result.pos
<1> SUFFICES ASSUME NEW k \in Levels, NEW j \in 1 .. Len(new[k]), ~new[k][j].isLast
             PROVE  /\ new[k][j].ones = OctetBits
                    /\ \E m \in DOMAIN list : k < LastLevel(list[m])
  BY DEF InnerIsFull
<1>1. NewOrOld(octets, node, level, result, k, j)
  BY GrownNodes
<1> HIDE DEF new, at
<1> QED
  BY <1>1 DEF InnerIsFull, NewOrOld, SameNode, new, at

-----------------------------------------------------------------------------
(***************************************************************************)
(* The paths of the rules in a tree whose list is grouped.  own[r][k] is   *)
(* the position of the node that rule r has in level k; of the newest rule *)
(* only the first m octets have been added.                                *)
(***************************************************************************)
RuleIds(list) == 0 .. Len(list) - 1

HasNode(list, m, r, k) ==
    /\ k \in Levels /\ k <= LastLevel(list[r + 1])
    /\ r = Len(list) - 1 => k < m

IsNodeOf(node, p, r, k) ==
    /\ node.value = p.octets[k + 1] /\ node.ones = p.ones[k + 1]
    /\ node.isLast <=> k = LastLevel(p)
    /\ k = LastLevel(p) => node.index = r

\* Position c of the next level is in the group of the node at i.
InGroup(octets, k, i, c) ==
    /\ NodeAt(octets, k, i).index <= c
    /\ \A j \in i + 1 .. Len(octets[k]) - 1 :
          ~NodeAt(octets, k, j).isLast => c < NodeAt(octets, k, j).index

RulesHaveNodes(octets, list, m, own) ==
    \A r \in RuleIds(list) : \A k \in Levels : HasNode(list, m, r, k) =>
        /\ own[r][k] \in 0 .. Len(octets[k]) - 1
        /\ IsNodeOf(NodeAt(octets, k, own[r][k]), list[r + 1], r, k)

ChildrenAreInGroups(octets, list, m, own) ==
    \A r \in RuleIds(list) : \A k \in Levels : HasNode(list, m, r, k + 1) =>
        InGroup(octets, k, own[r][k], own[r][k + 1])

NodesHaveRules(octets, list, m, own) ==
    \A k \in Levels : \A i \in 0 .. Len(octets[k]) - 1 :
        \E r \in RuleIds(list) : HasNode(list, m, r, k) /\ own[r][k] = i

GroupsAreSorted(octets) ==
    \A k \in Levels : \A i, j \in 0 .. Len(octets[k]) - 1 :
        i < j /\ ~NodeAt(octets, k, i).isLast /\ ~NodeAt(octets, k, j).isLast =>
            NodeAt(octets, k, i).index <= NodeAt(octets, k, j).index

FirstGroupIsInFront(octets) ==
    \A k \in Levels :
        0 < Len(octets[k]) /\ ~NodeAt(octets, k, 0).isLast => NodeAt(octets, k, 0).index = 0

PathsMeetOnce(list, m, own) ==
    \A r, s \in RuleIds(list) : \A k \in Levels :
        HasNode(list, m, r, k) /\ HasNode(list, m, s, k) /\ own[r][k] = own[s][k] =>
            \A j \in 1 .. k : list[r + 1].octets[j] = list[s + 1].octets[j]

NewestIsInFront(list, own) == list # <<>> => \A k \in Levels : own[Len(list) - 1][k] = 0

Paths(octets, list, m, own) ==
    /\ own \in [RuleIds(list) -> [Levels -> Nat]]
    /\ RulesHaveNodes(octets, list, m, own)
    /\ ChildrenAreInGroups(octets, list, m, own)
    /\ NodesHaveRules(octets, list, m, own)
    /\ GroupsAreSorted(octets)
    /\ FirstGroupIsInFront(octets)
    /\ PathsMeetOnce(list, m, own)
    /\ NewestIsInFront(list, own)

\* Where a node is after another one has been put at the front of level m, and by
\* how much its index has grown.
Sh(m, k, i) == IF k = m THEN i + 1 ELSE i
Raise(m, k, i, node) == IF k + 1 = m /\ i > 0 /\ ~node.isLast THEN 1 ELSE 0

\* Node "new" is node "old" after that.
MovedNode(m, k, i, new, old) ==
    /\ new.value = old.value /\ new.ones = old.ones /\ (new.isLast <=> old.isLast)
    /\ new.index = old.index + Raise(m, k, i, old)

\* The tree "now" is the tree "octets" with a node at the front of level m.
FrontGrown(now, octets, m, node) ==
    /\ Len(now[m]) = Len(octets[m]) + 1
    /\ \A k \in Levels \ {m} : Len(now[k]) = Len(octets[k])
    /\ NodeAt(now, m, 0) = node
    /\ \A k \in Levels : \A i \in 0 .. Len(octets[k]) - 1 :
          MovedNode(m, k, i, NodeAt(now, k, Sh(m, k, i)), NodeAt(octets, k, i))

LEMMA GrownInFront ==
  ASSUME NEW octets, NEW bound \in Nat, TreeShape(octets, bound),
         NEW m \in Levels, Place(octets, m, 0), NEW node, NEW result,
         Grown(octets, node, m, 0, result), result.pos = 0
  PROVE  FrontGrown(result.octets, octets, m, node)
<1> DEFINE now == result.octets
<1>1. m \in Nat /\ \A k \in Levels : k \in Nat /\ octets[k] \in Seq(NodeType) /\ Len(octets[k]) \in Nat
  BY WidthAssumption DEF TreeShape, Levels
<1>2. /\ Len(now[m]) = Len(octets[m]) + 1
      /\ \A k \in Levels \ {m} : Len(now[k]) = Len(octets[k])
  BY GrownNodes
<1>3. /\ \A i \in 1 .. Len(octets[m]) + 1 :
           now[m][i] = IF i < 1 THEN octets[m][i] ELSE IF i = 1 THEN node ELSE octets[m][i - 1]
      /\ m # 0 => now[m - 1] = WideShifted(octets[m - 1], 0)
      /\ \A l \in Levels \ {m, m - 1} : now[l] = octets[l]
  BY DEF Grown
<1> HIDE DEF now
<1>4. NodeAt(now, m, 0) = node
  <2>1. 1 \in 1 .. Len(octets[m]) + 1
    BY <1>1
  <2> QED
    BY <1>3, <2>1 DEF NodeAt
<1>5. ASSUME NEW k \in Levels, NEW i \in 0 .. Len(octets[k]) - 1
      PROVE  MovedNode(m, k, i, NodeAt(now, k, Sh(m, k, i)), NodeAt(octets, k, i))
  <2>1. octets[k][i + 1] \in NodeType /\ i + 1 \in 1 .. Len(octets[k]) /\ octets[k][i + 1].index \in Nat
    <3>1. i + 1 \in 1 .. Len(octets[k])
      BY <1>1
    <3>2. octets[k][i + 1] \in NodeType
      BY <1>1, <3>1, ElementOfSeq
    <3> QED
      BY <3>1, <3>2 DEF NodeType
  <2>2. CASE k = m
    <3>1. Raise(m, k, i, octets[k][i + 1]) = 0
      BY <1>1, <2>2 DEF Raise
    <3>2. now[m][i + 2] = octets[m][i + 1]
      <4>1. i + 2 \in 1 .. Len(octets[m]) + 1 /\ ~(i + 2 < 1) /\ i + 2 # 1 /\ (i + 2) - 1 = i + 1
        BY <1>1, <2>2
      <4> QED
        BY <1>3, <4>1
    <3>3. NodeAt(now, k, Sh(m, k, i)) = NodeAt(octets, k, i)
      <4>1. Sh(m, k, i) + 1 = i + 2
        BY <2>2 DEF Sh
      <4> QED
        BY <2>2, <3>2, <4>1 DEF NodeAt
    <3> QED
      BY <2>1, <3>1, <3>3 DEF MovedNode, NodeAt
  <2>3. CASE k # m /\ k + 1 = m
    <3>1. m # 0 /\ k = m - 1
      BY <1>1, <2>3
    <3> DEFINE old == octets[k][i + 1]
               new == WideShifted(octets[k], 0)[i + 1]
    <3>2. /\ new.value = old.value /\ new.ones = old.ones /\ new.isLast = old.isLast
          /\ new.index = IF i + 1 > 0 + 1 /\ ~old.isLast THEN old.index + 1 ELSE old.index
      BY <1>1, <2>1, ShiftedIs
    <3>3. NodeAt(now, k, Sh(m, k, i)) = new /\ NodeAt(octets, k, i) = old
      BY <1>3, <2>3, <3>1 DEF NodeAt, Sh
    <3>4. i + 1 > 0 + 1 <=> i > 0
      OBVIOUS
    <3>5. old.index \in Nat
      BY <2>1
    <3> HIDE DEF new, old
    <3> QED
      BY <2>3, <3>2, <3>3, <3>4, <3>5 DEF MovedNode, Raise
  <2>4. CASE k # m /\ k + 1 # m
    <3>1. now[k] = octets[k]
      BY <1>1, <1>3, <2>4
    <3> QED
      BY <2>1, <2>4, <3>1 DEF MovedNode, NodeAt, Raise, Sh
  <2> QED
    BY <2>2, <2>3, <2>4
<1> QED
  BY <1>2, <1>4, <1>5 DEF FrontGrown, now

\* The paths after an octet of the newest rule has been put in front.
Pushed(list, m, own) ==
    [r \in RuleIds(list) |->
        [k \in Levels |-> IF r = Len(list) - 1 /\ k = m THEN 0 ELSE Sh(m, k, own[r][k])]]

LEMMA FrontKeepsPaths ==
  ASSUME NEW octets, NEW bound \in Nat, TreeShape(octets, bound),
         NEW m \in Levels, Place(octets, m, 0), NEW node, NEW now,
         FrontGrown(now, octets, m, node),
         NEW list \in Seq(Listable), list # <<>>, m <= LastLevel(list[Len(list)]),
         IsNodeOf(node, list[Len(list)], Len(list) - 1, m),
         node.index \in Nat, ~node.isLast => node.index = 0,
         NEW own, Paths(octets, list, m, own)
  PROVE  /\ Paths(now, list, m + 1, Pushed(list, m, own))
         /\ \A r \in 0 .. Len(list) - 2 : Pushed(list, m, own)[r][m] > 0
<1> DEFINE newest == Len(list) - 1
           own2 == Pushed(list, m, own)
<1>1. /\ newest \in Nat /\ newest + 1 = Len(list) /\ RuleIds(list) = 0 .. newest
      /\ newest \in RuleIds(list)
  BY DEF RuleIds
<1>2. m \in Nat /\ \A k \in Levels : k \in Nat
  BY WidthAssumption DEF Levels
<1>3. \A k \in Levels : Len(octets[k]) \in Nat
  BY DEF TreeShape
<1>4. \A k \in Levels : \A i \in 0 .. Len(octets[k]) - 1 :
         NodeAt(octets, k, i) \in NodeType /\ NodeAt(octets, k, i).index \in Nat
  <2> SUFFICES ASSUME NEW k \in Levels, NEW i \in 0 .. Len(octets[k]) - 1
               PROVE  NodeAt(octets, k, i) \in NodeType /\ NodeAt(octets, k, i).index \in Nat
    OBVIOUS
  <2>1. NodeAt(octets, k, i) \in NodeType
    BY NodeIs
  <2> QED
    BY <2>1 DEF NodeType
<1>5. /\ own \in [RuleIds(list) -> [Levels -> Nat]]
      /\ RulesHaveNodes(octets, list, m, own)
      /\ ChildrenAreInGroups(octets, list, m, own)
      /\ NodesHaveRules(octets, list, m, own)
      /\ GroupsAreSorted(octets)
      /\ FirstGroupIsInFront(octets)
      /\ PathsMeetOnce(list, m, own)
      /\ NewestIsInFront(list, own)
  BY DEF Paths
<1>6. /\ Len(now[m]) = Len(octets[m]) + 1
      /\ \A k \in Levels \ {m} : Len(now[k]) = Len(octets[k])
      /\ NodeAt(now, m, 0) = node
      /\ \A k \in Levels : \A i \in 0 .. Len(octets[k]) - 1 :
            MovedNode(m, k, i, NodeAt(now, k, Sh(m, k, i)), NodeAt(octets, k, i))
  BY DEF FrontGrown
<1>7. \A k \in Levels : \A i \in 0 .. Len(octets[k]) - 1 : Sh(m, k, i) \in 0 .. Len(now[k]) - 1
  BY <1>3, <1>6 DEF Sh
<1>8. \A k \in Levels : \A h \in 0 .. Len(now[k]) - 1 :
         (k = m /\ h = 0) \/ \E i \in 0 .. Len(octets[k]) - 1 : h = Sh(m, k, i)
  <2> SUFFICES ASSUME NEW k \in Levels, NEW h \in 0 .. Len(now[k]) - 1, ~(k = m /\ h = 0)
               PROVE  \E i \in 0 .. Len(octets[k]) - 1 : h = Sh(m, k, i)
    OBVIOUS
  <2>1. CASE k = m
    <3>1. h - 1 \in 0 .. Len(octets[k]) - 1 /\ h = Sh(m, k, h - 1)
      BY <1>3, <1>6, <2>1 DEF Sh
    <3> QED
      BY <3>1
  <2>2. CASE k # m
    <3>1. h \in 0 .. Len(octets[k]) - 1 /\ h = Sh(m, k, h)
      BY <1>6, <2>2 DEF Sh
    <3> QED
      BY <3>1
  <2> QED
    BY <2>1, <2>2
<1>9. \A r \in RuleIds(list) : \A k \in Levels :
         own[r][k] \in Nat
         /\ own2[r][k] = IF r = newest /\ k = m THEN 0 ELSE Sh(m, k, own[r][k])
  BY <1>5 DEF Pushed
<1> HIDE DEF own2, newest
<1>10. \A r \in RuleIds(list) : \A k \in Levels :
         HasNode(list, m + 1, r, k) <=> HasNode(list, m, r, k) \/ (r = newest /\ k = m)
  <2> SUFFICES ASSUME NEW r \in RuleIds(list), NEW k \in Levels
               PROVE  HasNode(list, m + 1, r, k)
                        <=> HasNode(list, m, r, k) \/ (r = newest /\ k = m)
    OBVIOUS
  <2>1. k < m + 1 <=> k < m \/ k = m
    BY <1>2
  <2> QED
    BY <1>1, <2>1 DEF HasNode, newest
<1>11. \A k \in Levels : ~(HasNode(list, m, newest, k) /\ k = m)
  BY <1>2 DEF HasNode, newest
<1>12. own2 \in [RuleIds(list) -> [Levels -> Nat]]
  <2>1. \A r \in RuleIds(list) : \A k \in Levels :
           (IF r = newest /\ k = m THEN 0 ELSE Sh(m, k, own[r][k])) \in Nat
    BY <1>9 DEF Sh
  <2> QED
    BY <2>1 DEF own2, Pushed, newest
<1>13. RulesHaveNodes(now, list, m + 1, own2)
  <2> SUFFICES ASSUME NEW r \in RuleIds(list), NEW k \in Levels, HasNode(list, m + 1, r, k)
               PROVE  /\ own2[r][k] \in 0 .. Len(now[k]) - 1
                      /\ IsNodeOf(NodeAt(now, k, own2[r][k]), list[r + 1], r, k)
    BY DEF RulesHaveNodes
  <2>1. CASE r = newest /\ k = m
    <3>1. own2[r][k] = 0
      BY <1>9, <2>1
    <3>2. 0 \in 0 .. Len(now[k]) - 1
      BY <1>3, <1>6, <2>1
    <3> QED
      BY <1>1, <1>6, <2>1, <3>1, <3>2 DEF newest
  <2>2. CASE ~(r = newest /\ k = m)
    <3>1. HasNode(list, m, r, k) /\ own2[r][k] = Sh(m, k, own[r][k])
      BY <1>9, <1>10, <2>2
    <3>2. own[r][k] \in 0 .. Len(octets[k]) - 1
          /\ IsNodeOf(NodeAt(octets, k, own[r][k]), list[r + 1], r, k)
      BY <1>5, <3>1 DEF RulesHaveNodes
    <3>3. MovedNode(m, k, own[r][k], NodeAt(now, k, own2[r][k]), NodeAt(octets, k, own[r][k]))
      BY <1>6, <3>1, <3>2
    <3>4. NodeAt(octets, k, own[r][k]).isLast =>
             NodeAt(now, k, own2[r][k]).index = NodeAt(octets, k, own[r][k]).index
      BY <1>4, <3>2, <3>3 DEF MovedNode, Raise
    <3> QED
      BY <1>7, <3>1, <3>2, <3>3, <3>4 DEF MovedNode, IsNodeOf
  <2> QED
    BY <2>1, <2>2
<1>14. ChildrenAreInGroups(now, list, m + 1, own2)
  <2> SUFFICES ASSUME NEW r \in RuleIds(list), NEW k \in Levels, HasNode(list, m + 1, r, k + 1)
               PROVE  InGroup(now, k, own2[r][k], own2[r][k + 1])
    BY DEF ChildrenAreInGroups
  <2>1. k + 1 \in Levels
    BY DEF HasNode
  <2>2. CASE r = newest /\ k + 1 = m
    <3>1. own2[r][k] = 0 /\ own2[r][k + 1] = 0
      <4>1. own[newest][k] = 0
        BY <1>5 DEF NewestIsInFront, newest
      <4>2. k # m
        BY <1>2, <2>2
      <4> QED
        BY <1>9, <2>1, <2>2, <4>1, <4>2 DEF Sh
    <3>2. 0 \in 0 .. Len(octets[k]) - 1 /\ ~NodeAt(octets, k, 0).isLast
      <4>1. m # 0 /\ m - 1 = k
        BY <1>2, <2>2
      <4> QED
        BY <4>1 DEF Place
    <3>3. Sh(m, k, 0) = 0 /\ NodeAt(octets, k, 0).index = 0
      BY <1>2, <1>3, <1>5, <2>2, <3>2 DEF Sh, FirstGroupIsInFront
    <3>4. NodeAt(now, k, 0).index = 0
      <4>1. MovedNode(m, k, 0, NodeAt(now, k, 0), NodeAt(octets, k, 0))
        BY <1>6, <3>2, <3>3
      <4> QED
        BY <3>3, <4>1 DEF MovedNode, Raise
    <3>5. ASSUME NEW j \in 1 .. Len(now[k]) - 1, ~NodeAt(now, k, j).isLast
          PROVE  0 < NodeAt(now, k, j).index
      <4>1. j \in 0 .. Len(octets[k]) - 1 /\ Sh(m, k, j) = j
        BY <1>2, <1>3, <1>6, <2>2 DEF Sh
      <4>2. MovedNode(m, k, j, NodeAt(now, k, j), NodeAt(octets, k, j))
        BY <1>6, <4>1
      <4>3. NodeAt(octets, k, j).index \in Nat
        BY <1>4, <4>1
      <4>4. Raise(m, k, j, NodeAt(octets, k, j)) = 1
        BY <2>2, <3>5, <4>2 DEF MovedNode, Raise
      <4> QED
        BY <4>2, <4>3, <4>4 DEF MovedNode
    <3> QED
      BY <3>1, <3>4, <3>5 DEF InGroup
  <2>3. CASE ~(r = newest /\ k + 1 = m)
    <3> DEFINE i == own[r][k]
               c == own[r][k + 1]
    <3>1. HasNode(list, m, r, k + 1)
      BY <1>10, <2>1, <2>3
    <3>2. HasNode(list, m, r, k) /\ ~(r = newest /\ k = m)
      <4>1. k + 1 <= LastLevel(list[r + 1]) => k <= LastLevel(list[r + 1])
        <5>1. LastLevel(list[r + 1]) \in Levels
          <6>1. list[r + 1] \in Listable
            BY <1>1 DEF newest
          <6> QED
            BY <6>1, PrefixIs
        <5> QED
          BY <1>2, <5>1, WidthAssumption DEF Levels
      <4>2. k + 1 < m => k < m /\ k # m
        BY <1>2
      <4> QED
        BY <3>1, <4>1, <4>2 DEF HasNode, newest
    <3>3. own2[r][k] = Sh(m, k, i) /\ own2[r][k + 1] = Sh(m, k + 1, c)
      BY <1>9, <2>1, <2>3, <3>2
    <3>4. InGroup(octets, k, i, c) /\ i \in 0 .. Len(octets[k]) - 1 /\ c \in Nat
          /\ ~NodeAt(octets, k, i).isLast
      <4>1. IsNodeOf(NodeAt(octets, k, i), list[r + 1], r, k) /\ i \in 0 .. Len(octets[k]) - 1
        BY <1>5, <3>2 DEF RulesHaveNodes
      <4>2. k # LastLevel(list[r + 1])
        <5>1. LastLevel(list[r + 1]) \in Levels
          <6>1. list[r + 1] \in Listable
            BY <1>1 DEF newest
          <6> QED
            BY <6>1, PrefixIs
        <5> QED
          BY <1>2, <3>1, <5>1 DEF HasNode
      <4>3. InGroup(octets, k, i, c)
        BY <1>5, <3>1 DEF ChildrenAreInGroups
      <4> QED
        BY <1>9, <2>1, <4>1, <4>2, <4>3 DEF IsNodeOf
    <3> HIDE DEF i, c
    <3>5. NodeAt(now, k, Sh(m, k, i)).index <= Sh(m, k + 1, c)
      <4>1. MovedNode(m, k, i, NodeAt(now, k, Sh(m, k, i)), NodeAt(octets, k, i))
        BY <1>6, <3>4
      <4>2. NodeAt(octets, k, i).index \in Nat /\ NodeAt(octets, k, i).index <= c
        BY <1>4, <3>4 DEF InGroup
      <4> QED
        BY <3>4, <4>1, <4>2 DEF MovedNode, Raise, Sh
    <3>6. ASSUME NEW h \in Sh(m, k, i) + 1 .. Len(now[k]) - 1, ~NodeAt(now, k, h).isLast
          PROVE  Sh(m, k + 1, c) < NodeAt(now, k, h).index
      <4>1. Sh(m, k, i) \in Nat /\ h \in 0 .. Len(now[k]) - 1 /\ h # 0
        BY <1>3, <1>6, <3>4 DEF Sh
      <4>2. PICK j \in 0 .. Len(octets[k]) - 1 : h = Sh(m, k, j)
        BY <1>8, <4>1
      <4>3. j \in i + 1 .. Len(octets[k]) - 1 /\ j > 0
        BY <1>3, <3>4, <4>2 DEF Sh
      <4>4. MovedNode(m, k, j, NodeAt(now, k, h), NodeAt(octets, k, j))
        BY <1>6, <4>2
      <4>5. c < NodeAt(octets, k, j).index /\ NodeAt(octets, k, j).index \in Nat
        BY <1>4, <3>4, <3>6, <4>3, <4>4 DEF InGroup, MovedNode
      <4> QED
        BY <3>4, <3>6, <4>3, <4>4, <4>5 DEF MovedNode, Raise, Sh
    <3> QED
      BY <3>3, <3>5, <3>6 DEF InGroup
  <2> QED
    BY <2>2, <2>3
<1>15. NodesHaveRules(now, list, m + 1, own2)
  <2> SUFFICES ASSUME NEW k \in Levels, NEW h \in 0 .. Len(now[k]) - 1
               PROVE  \E r \in RuleIds(list) : HasNode(list, m + 1, r, k) /\ own2[r][k] = h
    BY DEF NodesHaveRules
  <2>1. CASE k = m /\ h = 0
    BY <1>1, <1>9, <1>10, <2>1
  <2>2. CASE ~(k = m /\ h = 0)
    <3>1. PICK i \in 0 .. Len(octets[k]) - 1 : h = Sh(m, k, i)
      BY <1>8, <2>2
    <3>2. PICK r \in RuleIds(list) : HasNode(list, m, r, k) /\ own[r][k] = i
      BY <1>5 DEF NodesHaveRules
    <3>3. ~(r = newest /\ k = m)
      BY <1>2, <1>11, <3>2
    <3> QED
      BY <1>9, <1>10, <3>1, <3>2, <3>3
  <2> QED
    BY <2>1, <2>2
<1>16. GroupsAreSorted(now)
  <2> SUFFICES ASSUME NEW k \in Levels, NEW g \in 0 .. Len(now[k]) - 1,
                      NEW h \in 0 .. Len(now[k]) - 1, g < h,
                      ~NodeAt(now, k, g).isLast, ~NodeAt(now, k, h).isLast
               PROVE  NodeAt(now, k, g).index <= NodeAt(now, k, h).index
    BY DEF GroupsAreSorted
  <2>1. PICK j \in 0 .. Len(octets[k]) - 1 : h = Sh(m, k, j)
    <3>1. ~(k = m /\ h = 0)
      BY <1>3, <1>6
    <3> QED
      BY <1>8, <3>1
  <2>2. /\ MovedNode(m, k, j, NodeAt(now, k, h), NodeAt(octets, k, j))
        /\ NodeAt(octets, k, j).index \in Nat
    BY <1>4, <1>6, <2>1
  <2>3. CASE k = m /\ g = 0
    <3>1. NodeAt(now, k, g).index = 0
      BY <1>6, <2>3
    <3> QED
      BY <2>2, <3>1 DEF MovedNode, Raise
  <2>4. CASE ~(k = m /\ g = 0)
    <3>1. PICK i \in 0 .. Len(octets[k]) - 1 : g = Sh(m, k, i)
      BY <1>8, <2>4
    <3>2. /\ MovedNode(m, k, i, NodeAt(now, k, g), NodeAt(octets, k, i))
          /\ NodeAt(octets, k, i).index \in Nat
      BY <1>4, <1>6, <3>1
    <3>3. i < j
      BY <1>3, <2>1, <3>1 DEF Sh
    <3>4. ~NodeAt(octets, k, i).isLast /\ ~NodeAt(octets, k, j).isLast
      BY <2>2, <3>2 DEF MovedNode
    <3>5. NodeAt(octets, k, i).index <= NodeAt(octets, k, j).index
      BY <1>5, <3>3, <3>4 DEF GroupsAreSorted
    <3> QED
      BY <2>2, <3>2, <3>3, <3>4, <3>5 DEF MovedNode, Raise
  <2> QED
    BY <2>3, <2>4
<1>17. FirstGroupIsInFront(now)
  <2> SUFFICES ASSUME NEW k \in Levels, 0 < Len(now[k]), ~NodeAt(now, k, 0).isLast
               PROVE  NodeAt(now, k, 0).index = 0
    BY DEF FirstGroupIsInFront
  <2>1. CASE k = m
    BY <1>6, <2>1
  <2>2. CASE k # m
    <3>1. 0 \in 0 .. Len(octets[k]) - 1 /\ Sh(m, k, 0) = 0
      BY <1>3, <1>6, <2>2 DEF Sh
    <3>2. MovedNode(m, k, 0, NodeAt(now, k, 0), NodeAt(octets, k, 0))
      BY <1>6, <3>1
    <3>3. NodeAt(octets, k, 0).index = 0
      BY <1>3, <1>5, <3>1, <3>2 DEF FirstGroupIsInFront, MovedNode
    <3> QED
      BY <3>2, <3>3 DEF MovedNode, Raise
  <2> QED
    BY <2>1, <2>2
<1>18. PathsMeetOnce(list, m + 1, own2)
  <2> SUFFICES ASSUME NEW r \in RuleIds(list), NEW s \in RuleIds(list), NEW k \in Levels,
                      HasNode(list, m + 1, r, k), HasNode(list, m + 1, s, k),
                      own2[r][k] = own2[s][k]
               PROVE  \A j \in 1 .. k : list[r + 1].octets[j] = list[s + 1].octets[j]
    BY DEF PathsMeetOnce
  <2>1. CASE (r = newest /\ k = m) \/ (s = newest /\ k = m)
    <3>1. r = s
      BY <1>9, <2>1, SMTT(30) DEF Sh
    <3> QED
      BY <3>1
  <2>2. CASE ~(r = newest /\ k = m) /\ ~(s = newest /\ k = m)
    <3>1. HasNode(list, m, r, k) /\ HasNode(list, m, s, k)
      BY <1>10, <2>2
    <3>2. own[r][k] = own[s][k]
      BY <1>9, <2>2 DEF Sh
    <3> QED
      BY <1>5, <3>1, <3>2 DEF PathsMeetOnce
  <2> QED
    BY <2>1, <2>2
<1>19. NewestIsInFront(list, own2)
  <2>1. \A k \in Levels : own[newest][k] = 0
    BY <1>5 DEF NewestIsInFront, newest
  <2>2. \A k \in Levels : own2[newest][k] = 0
    BY <1>1, <1>9, <2>1 DEF Sh
  <2> QED
    BY <2>2 DEF NewestIsInFront, newest
<1>20. \A r \in 0 .. Len(list) - 2 : own2[r][m] > 0
  <2> SUFFICES ASSUME NEW r \in 0 .. Len(list) - 2
               PROVE  own2[r][m] > 0
    OBVIOUS
  <2>1. r \in 0 .. newest /\ r # newest
    <3>1. newest - 1 = Len(list) - 2
      BY DEF newest
    <3> QED
      BY <1>1, <3>1
  <2>2. own2[r][m] = own[r][m] + 1 /\ own[r][m] \in Nat
    BY <1>1, <1>9, <2>1 DEF Sh
  <2> QED
    BY <2>2
<1> QED
  BY <1>12, <1>13, <1>14, <1>15, <1>16, <1>17, <1>18, <1>19, <1>20 DEF Paths, own2

\* The group of an inner node, in terms of the indices of the inner ones after it.
LEMMA GroupIs ==
  ASSUME NEW octets, NEW bound \in Nat, TreeShape(octets, bound), GroupsAreSorted(octets),
         NEW k \in Levels, k + 1 \in Levels, NEW i \in 0 .. Len(octets[k]) - 1,
         ~NodeAt(octets, k, i).isLast, NEW c \in Int
  PROVE  c \in NodeAt(octets, k, i).index .. WideGroupEnd(octets, k + 1, i) - 1
           <=> c \in 0 .. Len(octets[k + 1]) - 1 /\ InGroup(octets, k, i, c)
<1> DEFINE n == Len(octets[k])
           S == {j \in i + 1 .. n - 1 : ~NodeAt(octets, k, j).isLast}
           least == CHOOSE j \in S : \A h \in S : j <= h
           index == NodeAt(octets, k, i).index
           end == WideGroupEnd(octets, k + 1, i)
           len == Len(octets[k + 1])
<1>1. k \in Nat /\ k + 1 # 0 /\ (k + 1) - 1 = k
  BY WidthAssumption DEF Levels
<1>2. n \in Nat /\ len \in Nat
  BY DEF TreeShape
<1>3. index \in Nat /\ index <= len
  <2>1. NodeAt(octets, k, i) \in NodeType /\ Fits(octets, bound, k, NodeAt(octets, k, i))
    BY NodeIs
  <2> QED
    BY <2>1 DEF NodeType, Fits
<1>4. end = IF S = {} THEN len ELSE NodeAt(octets, k, least).index
  BY <1>1 DEF WideGroupEnd
<1>5. InGroup(octets, k, i, c) <=> index <= c /\ \A j \in S : c < NodeAt(octets, k, j).index
  BY DEF InGroup
<1>6. S \in SUBSET Nat /\ \A j \in S : j \in 0 .. n - 1 /\ i < j /\ ~NodeAt(octets, k, j).isLast
  BY <1>2
<1>7. CASE S = {}
  <2> HIDE DEF S, index, end, len
  <2>1. c \in index .. end - 1 <=> c \in 0 .. len - 1 /\ InGroup(octets, k, i, c)
    BY <1>2, <1>3, <1>4, <1>5, <1>7
  <2> QED
    BY <2>1 DEF index, end, len
<1>8. CASE S # {}
  <2>1. \E j \in S : \A h \in S : j <= h
    <3> HIDE DEF S
    <3> QED
      BY <1>6, <1>8, LeastExists
  <2>2. least \in S /\ \A h \in S : least <= h
    <3> HIDE DEF S
    <3> QED
      BY <2>1, Zenon
  <2> HIDE DEF S, least
  <2>3. NodeAt(octets, k, least).index \in Nat /\ NodeAt(octets, k, least).index <= len
    <3>1. least \in 0 .. Len(octets[k]) - 1 /\ ~NodeAt(octets, k, least).isLast
      BY <1>6, <2>2
    <3>2. NodeAt(octets, k, least) \in NodeType
          /\ Fits(octets, bound, k, NodeAt(octets, k, least))
      BY <3>1, NodeIs
    <3> QED
      BY <3>1, <3>2 DEF NodeType, Fits
  <2>4. ASSUME NEW j \in S
        PROVE  /\ NodeAt(octets, k, least).index <= NodeAt(octets, k, j).index
               /\ NodeAt(octets, k, j).index \in Nat
    <3>1. /\ j \in 0 .. Len(octets[k]) - 1 /\ ~NodeAt(octets, k, j).isLast
          /\ least \in 0 .. Len(octets[k]) - 1 /\ ~NodeAt(octets, k, least).isLast
      BY <1>6, <2>2
    <3>2. NodeAt(octets, k, j).index \in Nat
      <4>1. NodeAt(octets, k, j) \in NodeType
        BY <3>1, NodeIs
      <4> QED
        BY <4>1 DEF NodeType
    <3>3. least < j \/ least = j
      <4>1. least <= j
        BY <2>2
      <4>2. least \in Nat /\ j \in Nat
        BY <1>6, <2>2
      <4> QED
        BY <4>1, <4>2
    <3>4. CASE least = j
      BY <3>2, <3>4
    <3>5. CASE least < j
      BY <3>1, <3>2, <3>5 DEF GroupsAreSorted
    <3> QED
      BY <3>3, <3>4, <3>5
  <2> DEFINE bar == NodeAt(octets, k, least).index
  <2>5. end = bar /\ bar \in Nat /\ bar <= len
    BY <1>4, <1>8, <2>3
  <2>6. (\A j \in S : c < NodeAt(octets, k, j).index) <=> c < bar
    <3>1. \A j \in S : NodeAt(octets, k, j).index \in Nat /\ bar <= NodeAt(octets, k, j).index
      BY <2>4
    <3>2. least \in S
      BY <2>2
    <3>3. bar \in Nat
      BY <2>5
    <3>4. ASSUME c < bar, NEW j \in S
          PROVE  c < NodeAt(octets, k, j).index
      <4> DEFINE other == NodeAt(octets, k, j).index
      <4>1. other \in Nat /\ bar <= other
        BY <3>1
      <4> HIDE DEF other, bar
      <4>2. c < other
        BY <3>3, <3>4, <4>1
      <4> QED
        BY <4>2 DEF other
    <3> QED
      BY <3>2, <3>4
  <2> HIDE DEF bar, end, len, index
  <2>7. c \in index .. end - 1 <=> c \in 0 .. len - 1 /\ InGroup(octets, k, i, c)
    BY <1>2, <1>3, <1>5, <2>5, <2>6
  <2> QED
    BY <2>7 DEF index, end, len
<1> QED
  BY <1>7, <1>8

\* So far the newest rule goes along with the one before it,
Sharing(list, m, own) ==
    LET newest == list[Len(list)]
        before == list[Len(list) - 1]
    IN /\ Len(list) > 1
       /\ m <= LastLevel(before)
       /\ \A k \in 1 .. m : before.octets[k] = newest.octets[k]
       /\ \A k \in 0 .. LastLevel(before) : own[Len(list) - 2][k] = 0

\* or it has a node of its own in the level before m.
Created(list, m, own) == \A r \in 0 .. Len(list) - 2 : m # 0 /\ own[r][m - 1] > 0

\* A node that the newest rule shares in a grouped list is in front, and it is one
\* of the rule before.
LEMMA SharedIsInFront ==
  ASSUME NEW octets, NEW bound \in Nat, TreeShape(octets, bound),
         NEW m \in Levels, Place(octets, m, 0), NEW node, NEW result,
         Shared(octets, node, m, 0, result),
         NEW list \in Seq(Listable), IsGrouped(list), NEW n \in Nat \ {0}, Len(list) = n,
         m < LastLevel(list[n]),
         IsNodeOf(node, list[n], n - 1, m),
         NEW own, Paths(octets, list, m, own),
         Sharing(list, m, own) \/ Created(list, m, own)
  PROVE  result.pos = 0 /\ Sharing(list, m, own) /\ Sharing(list, m + 1, own)
<1> DEFINE newest == n - 1
           prev == n - 2
           p == list[n]
           q == list[n - 1]
           c == result.pos
<1>1. DOMAIN list = 1 .. n /\ RuleIds(list) = 0 .. newest
  BY DEF RuleIds
<1>2. m \in Nat /\ V6Octets \in Nat /\ m + 1 \in 1 .. V6Octets
      /\ \A k \in Levels : k \in Nat
  BY WidthAssumption DEF Levels
<1>3. \A r \in RuleIds(list) : list[r + 1] \in Listable /\ LastLevel(list[r + 1]) \in Nat
  <2> SUFFICES ASSUME NEW r \in RuleIds(list)
               PROVE  list[r + 1] \in Listable /\ LastLevel(list[r + 1]) \in Nat
    OBVIOUS
  <2>1. list[r + 1] \in Listable
    BY <1>1
  <2>2. LastLevel(list[r + 1]) \in Levels
    BY <2>1, PrefixIs
  <2> QED
    BY <1>2, <2>1, <2>2
<1>4. /\ RulesHaveNodes(octets, list, m, own)
      /\ ChildrenAreInGroups(octets, list, m, own)
      /\ NodesHaveRules(octets, list, m, own)
      /\ GroupsAreSorted(octets)
      /\ PathsMeetOnce(list, m, own)
      /\ own \in [RuleIds(list) -> [Levels -> Nat]]
  BY DEF Paths
<1>5. \A k \in Levels : Len(octets[k]) \in Nat
  BY DEF TreeShape
<1>6. /\ c \in 0 .. Len(octets[m]) - 1
      /\ c \in GroupStart(octets, m, 0) .. WideGroupEnd(octets, m, 0) - 1
      /\ NodeAt(octets, m, c).value = node.value /\ NodeAt(octets, m, c).ones = node.ones
      /\ ~NodeAt(octets, m, c).isLast
      /\ \A d \in GroupStart(octets, m, 0) .. WideGroupEnd(octets, m, 0) - 1 :
            Equal(NodeAt(octets, m, d), node) => c <= d
  BY DEF Shared, Equal
<1>7. PICK s \in RuleIds(list) : HasNode(list, m, s, m) /\ own[s][m] = c
  BY <1>4, <1>6 DEF NodesHaveRules
<1> HIDE DEF c
<1>8. s \in 0 .. prev /\ prev \in Nat
  <2>1. s # newest
    BY <1>2, <1>7 DEF HasNode
  <2>2. s \in 0 .. newest
    BY <1>1, <1>7
  <2> QED
    BY <2>1, <2>2
<1>9. /\ IsNodeOf(NodeAt(octets, m, c), list[s + 1], s, m)
      /\ m < LastLevel(list[s + 1])
  <2>1. IsNodeOf(NodeAt(octets, m, c), list[s + 1], s, m)
    BY <1>4, <1>7 DEF RulesHaveNodes
  <2>2. m # LastLevel(list[s + 1]) /\ m <= LastLevel(list[s + 1])
    BY <1>6, <1>7, <2>1 DEF IsNodeOf, HasNode
  <2> QED
    BY <1>2, <1>3, <2>1, <2>2
\* the parent of that node is the one in front
<1>10. m # 0 => /\ own[s][m - 1] = 0 /\ HasNode(list, m, s, m - 1) /\ m - 1 \in Levels
                /\ 0 \in 0 .. Len(octets[m - 1]) - 1 /\ ~NodeAt(octets, m - 1, 0).isLast
  <2> SUFFICES ASSUME m # 0
               PROVE  /\ own[s][m - 1] = 0 /\ HasNode(list, m, s, m - 1) /\ m - 1 \in Levels
                      /\ 0 \in 0 .. Len(octets[m - 1]) - 1 /\ ~NodeAt(octets, m - 1, 0).isLast
    OBVIOUS
  <2> DEFINE k == m - 1
             i == own[s][k]
  <2>1. k \in Levels /\ k + 1 = m /\ k < m /\ k \in Nat
    BY <1>2, WidthAssumption DEF Levels
  <2>2. 0 \in 0 .. Len(octets[k]) - 1 /\ ~NodeAt(octets, k, 0).isLast
    BY DEF Place
  <2> HIDE DEF k
  <2>3. HasNode(list, m, s, k)
    BY <1>2, <1>3, <1>9, <2>1 DEF HasNode
  <2>4. i \in 0 .. Len(octets[k]) - 1 /\ ~NodeAt(octets, k, i).isLast
    <3>1. i \in 0 .. Len(octets[k]) - 1 /\ IsNodeOf(NodeAt(octets, k, i), list[s + 1], s, k)
      BY <1>4, <2>1, <2>3 DEF RulesHaveNodes
    <3>2. k # LastLevel(list[s + 1])
      BY <1>2, <1>3, <1>9, <2>1
    <3> QED
      BY <3>1, <3>2 DEF IsNodeOf
  <2>5. InGroup(octets, k, i, c)
    BY <1>4, <1>7, <2>1 DEF ChildrenAreInGroups
  <2>6. InGroup(octets, k, 0, c)
    <3>1. GroupStart(octets, m, 0) = NodeAt(octets, k, 0).index
      BY DEF GroupStart, k
    <3>2. c \in NodeAt(octets, k, 0).index .. WideGroupEnd(octets, k + 1, 0) - 1
      BY <1>6, <2>1, <3>1
    <3>3. c \in Int
      BY <1>5, <1>6
    <3> QED
      BY <1>4, <2>1, <2>2, <3>2, <3>3, GroupIs
  <2>7. i = 0
    <3> SUFFICES ASSUME i > 0
                 PROVE  FALSE
      BY <1>5, <2>1, <2>4
    <3>1. NodeAt(octets, k, i).index <= c
      BY <2>5 DEF InGroup
    <3>2. i \in 0 + 1 .. Len(octets[k]) - 1
      BY <1>5, <2>1, <2>4
    <3>3. c < NodeAt(octets, k, i).index
      BY <2>4, <2>6, <3>2 DEF InGroup
    <3>4. NodeAt(octets, k, i).index \in Nat /\ c \in Int
      <4>1. NodeAt(octets, k, i) \in NodeType
        BY <2>1, <2>4, NodeIs
      <4> QED
        BY <1>5, <1>6, <4>1 DEF NodeType
    <3> QED
      BY <3>1, <3>3, <3>4
  <2> QED
    BY <2>1, <2>2, <2>3, <2>7 DEF k
<1>11. Sharing(list, m, own)
  <2>1. ~Created(list, m, own)
    <3> SUFFICES ASSUME Created(list, m, own)
                 PROVE  FALSE
      OBVIOUS
    <3>1. m # 0 /\ own[s][m - 1] > 0
      BY <1>8 DEF Created
    <3> QED
      BY <1>10, <3>1
  <2> QED
    BY <2>1
<1>12. /\ m <= LastLevel(q)
       /\ \A k \in 1 .. m : q.octets[k] = p.octets[k]
       /\ \A k \in 0 .. LastLevel(q) : own[prev][k] = 0
  BY <1>11 DEF Sharing
<1>13. prev \in RuleIds(list) /\ list[prev + 1] = q /\ prev # newest
       /\ q \in Listable /\ LastLevel(q) \in Nat
  <2>1. prev \in 0 .. newest /\ prev + 1 = n - 1 /\ prev # newest
    BY <1>8
  <2>2. prev \in RuleIds(list) /\ list[prev + 1] = q
    BY <1>1, <2>1
  <2>3. list[prev + 1] \in Listable /\ LastLevel(list[prev + 1]) \in Nat
    BY <1>3, <2>2
  <2> QED
    BY <2>1, <2>2, <2>3
<1>14. p \in Listable /\ LastLevel(p) \in Nat
  <2>1. newest + 1 = n /\ newest \in 0 .. newest
    OBVIOUS
  <2>2. list[newest + 1] \in Listable /\ LastLevel(list[newest + 1]) \in Nat
    BY <1>1, <1>3, <2>1
  <2> QED
    BY <2>1, <2>2
<1> HIDE DEF prev, p, q
<1>15. \A k \in 0 .. LastLevel(q) : k \in Levels => HasNode(list, m, prev, k) /\ own[prev][k] = 0
  BY <1>12, <1>13 DEF HasNode
<1> HIDE DEF newest
<1>16. \A k \in 1 .. m : list[s + 1].octets[k] = p.octets[k]
  <2>1. CASE m = 0
    BY <2>1
  <2>2. CASE m # 0
    <3>1. m - 1 \in Levels /\ m - 1 \in 0 .. LastLevel(q)
      BY <1>2, <1>10, <1>12, <1>13, <2>2
    <3>2. own[s][m - 1] = own[prev][m - 1] /\ HasNode(list, m, s, m - 1)
          /\ HasNode(list, m, prev, m - 1) /\ own[s][m - 1] = 0
      BY <1>10, <1>15, <2>2, <3>1
    <3>3. \A j \in 1 .. m - 1 : list[s + 1].octets[j] = q.octets[j]
      BY <1>4, <1>13, <3>1, <3>2 DEF PathsMeetOnce
    <3>4. list[s + 1].octets[m] = q.octets[m]
      <4>1. /\ IsNodeOf(NodeAt(octets, m - 1, 0), list[s + 1], s, m - 1)
            /\ IsNodeOf(NodeAt(octets, m - 1, 0), q, prev, m - 1)
        BY <1>4, <1>13, <3>1, <3>2 DEF RulesHaveNodes
      <4>2. (m - 1) + 1 = m
        BY <1>2
      <4> QED
        BY <4>1, <4>2 DEF IsNodeOf
    <3>5. \A k \in 1 .. m : k \in 1 .. m - 1 \/ k = m
      BY <1>2
    <3> QED
      BY <1>12, <3>3, <3>4, <3>5
  <2> QED
    BY <2>1, <2>2
<1>17. SharePath(list[s + 1], p, m + 1)
  <2>1. list[s + 1].octets[m + 1] = p.octets[m + 1]
    BY <1>6, <1>9 DEF IsNodeOf, p
  <2>2. \A k \in 1 .. m + 1 : k \in 1 .. m \/ k = m + 1
    BY <1>2
  <2>3. m + 1 <= LastLevel(list[s + 1]) /\ m + 1 <= LastLevel(p)
    BY <1>2, <1>3, <1>9, <1>14 DEF p
  <2> QED
    BY <1>16, <2>1, <2>2, <2>3 DEF SharePath
<1>18. SharePath(list[s + 1], q, m + 1)
  <2>1. CASE s = prev
    BY <1>13, <1>17, <2>1 DEF SharePath
  <2>2. CASE s # prev
    <3>1. s + 1 \in 1 .. n /\ n - 1 \in 1 .. n /\ n \in 1 .. n /\ s + 1 < n - 1 /\ n - 1 < n
      BY <1>8, <2>2 DEF prev
    <3> QED
      BY <1>1, <1>2, <1>17, <3>1 DEF IsGrouped, p, q
  <2> QED
    BY <2>1, <2>2
<1>19. m + 1 <= LastLevel(q) /\ q.octets[m + 1] = p.octets[m + 1] /\ m < LastLevel(q)
  <2>1. m + 1 <= LastLevel(q) /\ q.octets[m + 1] = list[s + 1].octets[m + 1]
    BY <1>2, <1>18 DEF SharePath
  <2>2. list[s + 1].octets[m + 1] = p.octets[m + 1]
    BY <1>2, <1>17 DEF SharePath
  <2> QED
    BY <1>2, <1>13, <2>1, <2>2
<1>20. Sharing(list, m + 1, own)
  <2>1. \A k \in 1 .. m + 1 : k \in 1 .. m \/ k = m + 1
    BY <1>2
  <2>2. n > 1
    BY <1>8 DEF prev
  <2> QED
    BY <1>12, <1>19, <2>1, <2>2 DEF Sharing, p, q, prev
<1>21. 0 \in 0 .. Len(octets[m]) - 1 /\ Equal(NodeAt(octets, m, 0), node)
  <2>1. HasNode(list, m, prev, m) /\ own[prev][m] = 0
    BY <1>2, <1>13, <1>15, <1>19
  <2>2. 0 \in 0 .. Len(octets[m]) - 1 /\ IsNodeOf(NodeAt(octets, m, 0), q, prev, m)
    BY <1>4, <1>13, <2>1 DEF RulesHaveNodes
  <2>3. q.ones[m + 1] = OctetBits
    <3>1. m \in 0 .. LastLevel(q) - 1
      BY <1>2, <1>13, <1>19
    <3> QED
      BY <1>13, <3>1, PrefixIs
  <2>4. p.ones[m + 1] = OctetBits
    <3>1. m \in 0 .. LastLevel(p) - 1
      BY <1>2, <1>14 DEF p
    <3> QED
      BY <1>14, <3>1, PrefixIs
  <2>5. m # LastLevel(q)
    BY <1>2, <1>13, <1>19
  <2>6. node.value = p.octets[m + 1] /\ node.ones = p.ones[m + 1]
    BY DEF IsNodeOf, p
  <2> QED
    BY <1>19, <2>2, <2>3, <2>4, <2>5, <2>6 DEF IsNodeOf, Equal
<1>22. 0 \in GroupStart(octets, m, 0) .. WideGroupEnd(octets, m, 0) - 1
  <2>1. CASE m = 0
    BY <1>5, <1>21, <2>1 DEF GroupStart, WideGroupEnd
  <2>2. CASE m # 0
    <3>1. (m - 1) + 1 = m /\ m - 1 \in Levels
      BY <1>2, <1>10, <2>2
    <3>2. HasNode(list, m, prev, m) /\ own[prev][m] = 0 /\ own[prev][m - 1] = 0
      <4>1. m \in 0 .. LastLevel(q) /\ m - 1 \in 0 .. LastLevel(q)
        BY <1>2, <1>13, <1>19, <2>2
      <4> QED
        BY <1>15, <3>1, <4>1
    <3>3. InGroup(octets, m - 1, 0, 0)
      <4>1. InGroup(octets, m - 1, own[prev][m - 1], own[prev][(m - 1) + 1])
        BY <1>4, <1>13, <3>1, <3>2 DEF ChildrenAreInGroups
      <4> QED
        BY <3>1, <3>2, <4>1
    <3>4. 0 \in NodeAt(octets, m - 1, 0).index .. WideGroupEnd(octets, (m - 1) + 1, 0) - 1
      BY <1>4, <1>10, <1>21, <2>2, <3>1, <3>3, GroupIs
    <3> QED
      BY <2>2, <3>1, <3>4 DEF GroupStart
  <2> QED
    BY <2>1, <2>2
<1>23. c = 0
  <2>1. c <= 0
    BY <1>6, <1>21, <1>22
  <2> QED
    BY <1>5, <1>6, <2>1
<1> QED
  BY <1>11, <1>20, <1>23 DEF c

\* To share that node adds no other path.
LEMMA SharedKeepsPaths ==
  ASSUME NEW octets, NEW m \in Levels,
         NEW list \in Seq(Listable), NEW n \in Nat \ {0}, Len(list) = n,
         m < LastLevel(list[n]),
         NEW own, Paths(octets, list, m, own), Sharing(list, m + 1, own)
  PROVE  Paths(octets, list, m + 1, own)
<1> DEFINE newest == n - 1
           prev == n - 2
           p == list[n]
           q == list[n - 1]
<1>1. DOMAIN list = 1 .. n /\ n > 1 /\ RuleIds(list) = 0 .. newest
  BY DEF RuleIds, Sharing
<1>2. m \in Nat /\ V6Octets \in Nat /\ m + 1 \in 1 .. V6Octets
      /\ \A k \in Levels : k \in Nat
  BY WidthAssumption DEF Levels
<1>3. /\ m + 1 <= LastLevel(q)
      /\ \A k \in 1 .. m + 1 : q.octets[k] = p.octets[k]
      /\ \A k \in 0 .. LastLevel(q) : own[prev][k] = 0
  BY DEF Sharing
<1>4. /\ own \in [RuleIds(list) -> [Levels -> Nat]]
      /\ RulesHaveNodes(octets, list, m, own)
      /\ ChildrenAreInGroups(octets, list, m, own)
      /\ NodesHaveRules(octets, list, m, own)
      /\ GroupsAreSorted(octets)
      /\ FirstGroupIsInFront(octets)
      /\ PathsMeetOnce(list, m, own)
      /\ NewestIsInFront(list, own)
  BY DEF Paths
<1>5. \A k \in Levels : own[newest][k] = 0
  <2>1. list # <<>>
    BY <1>1
  <2> QED
    BY <1>4, <2>1 DEF NewestIsInFront
<1>6. /\ prev \in RuleIds(list) /\ prev + 1 = n - 1 /\ prev # newest
      /\ newest \in RuleIds(list) /\ newest + 1 = n
      /\ n \in DOMAIN list /\ n - 1 \in DOMAIN list
  <2>1. /\ prev \in 0 .. newest /\ prev + 1 = n - 1 /\ prev # newest
        /\ newest \in 0 .. newest /\ newest + 1 = n
        /\ n \in 1 .. n /\ n - 1 \in 1 .. n
    BY <1>1
  <2> QED
    BY <1>1, <2>1
<1>7. p \in Listable /\ q \in Listable
  <2>1. \A i \in DOMAIN list : list[i] \in Listable
    OBVIOUS
  <2> QED
    BY <1>6, <2>1
<1>8. LastLevel(p) \in Nat /\ LastLevel(q) \in Nat /\ LastLevel(q) \in Levels
  <2>1. LastLevel(p) \in Levels /\ LastLevel(q) \in Levels
    BY <1>7, PrefixIs
  <2> QED
    BY <1>2, <2>1
<1>9. m < LastLevel(p)
  OBVIOUS
<1>10. list[newest + 1] = p /\ list[prev + 1] = q
  BY <1>6
<1> HIDE DEF prev, p, q
<1>12. \A k \in 0 .. LastLevel(q) : k \in Levels => HasNode(list, m, prev, k) /\ own[prev][k] = 0
  BY <1>3, <1>6, <1>10 DEF HasNode
<1>13. \A r \in RuleIds(list) : \A k \in Levels :
         HasNode(list, m + 1, r, k) <=> HasNode(list, m, r, k) \/ (r = newest /\ k = m)
  <2> SUFFICES ASSUME NEW r \in RuleIds(list), NEW k \in Levels
               PROVE  HasNode(list, m + 1, r, k)
                        <=> HasNode(list, m, r, k) \/ (r = newest /\ k = m)
    OBVIOUS
  <2>1. k < m + 1 <=> k < m \/ k = m
    BY <1>2
  <2>2. r = newest /\ k = m => k <= LastLevel(list[r + 1])
    BY <1>2, <1>8, <1>9, <1>10
  <2> HIDE DEF newest
  <2> QED
    BY <2>1, <2>2 DEF HasNode, newest
<1> HIDE DEF newest
<1>14. 0 \in 0 .. Len(octets[m]) - 1 /\ IsNodeOf(NodeAt(octets, m, 0), p, newest, m)
  <2>1. HasNode(list, m, prev, m) /\ own[prev][m] = 0
    BY <1>2, <1>3, <1>8, <1>12
  <2>2. 0 \in 0 .. Len(octets[m]) - 1 /\ IsNodeOf(NodeAt(octets, m, 0), q, prev, m)
    BY <1>4, <1>6, <1>10, <2>1 DEF RulesHaveNodes
  <2>3. q.ones[m + 1] = OctetBits
    <3>1. m \in 0 .. LastLevel(q) - 1
      BY <1>2, <1>3, <1>8
    <3> QED
      BY <1>7, <3>1, PrefixIs
  <2>4. p.ones[m + 1] = OctetBits
    <3>1. m \in 0 .. LastLevel(p) - 1
      BY <1>2, <1>8, <1>9
    <3> QED
      BY <1>7, <3>1, PrefixIs
  <2>5. m # LastLevel(q) /\ m # LastLevel(p)
    BY <1>2, <1>3, <1>8, <1>9
  <2>6. q.octets[m + 1] = p.octets[m + 1]
    BY <1>2, <1>3
  <2> QED
    BY <2>2, <2>3, <2>4, <2>5, <2>6 DEF IsNodeOf
<1>15. RulesHaveNodes(octets, list, m + 1, own)
  <2> SUFFICES ASSUME NEW r \in RuleIds(list), NEW k \in Levels, HasNode(list, m + 1, r, k)
               PROVE  /\ own[r][k] \in 0 .. Len(octets[k]) - 1
                      /\ IsNodeOf(NodeAt(octets, k, own[r][k]), list[r + 1], r, k)
    BY DEF RulesHaveNodes
  <2>1. CASE r = newest /\ k = m
    BY <1>5, <1>10, <1>14, <2>1
  <2>2. CASE HasNode(list, m, r, k)
    BY <1>4, <2>2 DEF RulesHaveNodes
  <2> QED
    BY <1>13, <2>1, <2>2
<1>16. ChildrenAreInGroups(octets, list, m + 1, own)
  <2> SUFFICES ASSUME NEW r \in RuleIds(list), NEW k \in Levels, HasNode(list, m + 1, r, k + 1)
               PROVE  InGroup(octets, k, own[r][k], own[r][k + 1])
    BY DEF ChildrenAreInGroups
  <2>1. k + 1 \in Levels
    BY DEF HasNode
  <2>2. CASE r = newest /\ k + 1 = m
    <3>1. k + 1 \in 0 .. LastLevel(q) /\ k \in 0 .. LastLevel(q)
      BY <1>2, <1>3, <1>8, <2>2
    <3>2. HasNode(list, m, prev, k + 1) /\ own[prev][k + 1] = 0 /\ own[prev][k] = 0
      BY <1>12, <2>1, <3>1
    <3>3. InGroup(octets, k, own[prev][k], own[prev][k + 1])
      BY <1>4, <1>6, <3>2 DEF ChildrenAreInGroups
    <3> QED
      BY <1>5, <2>1, <2>2, <3>2, <3>3
  <2>3. CASE HasNode(list, m, r, k + 1)
    BY <1>4, <2>3 DEF ChildrenAreInGroups
  <2> QED
    BY <1>13, <2>1, <2>2, <2>3
<1>17. NodesHaveRules(octets, list, m + 1, own)
  BY <1>4, <1>13 DEF NodesHaveRules
<1>18. ASSUME NEW s \in RuleIds(list), HasNode(list, m + 1, s, m), own[s][m] = 0
       PROVE  \A j \in 1 .. m : list[s + 1].octets[j] = p.octets[j]
  <2>1. CASE s = newest
    BY <1>10, <2>1
  <2>2. CASE s # newest
    <3>1. HasNode(list, m, s, m)
      BY <1>13, <1>18, <2>2
    <3>2. HasNode(list, m, prev, m) /\ own[prev][m] = 0
      BY <1>2, <1>3, <1>8, <1>12
    <3>3. \A j \in 1 .. m : list[s + 1].octets[j] = list[prev + 1].octets[j]
      BY <1>4, <1>6, <1>18, <3>1, <3>2 DEF PathsMeetOnce
    <3>4. \A j \in 1 .. m : j \in 1 .. m + 1
      BY <1>2
    <3> QED
      BY <1>3, <1>10, <3>3, <3>4
  <2> QED
    BY <2>1, <2>2
<1>19. PathsMeetOnce(list, m + 1, own)
  <2> SUFFICES ASSUME NEW r \in RuleIds(list), NEW s \in RuleIds(list), NEW k \in Levels,
                      HasNode(list, m + 1, r, k), HasNode(list, m + 1, s, k),
                      own[r][k] = own[s][k]
               PROVE  \A j \in 1 .. k : list[r + 1].octets[j] = list[s + 1].octets[j]
    BY DEF PathsMeetOnce
  <2>1. CASE k = m /\ (r = newest \/ s = newest)
    <3>1. own[r][m] = 0 /\ own[s][m] = 0
      BY <1>5, <2>1
    <3>2. \A j \in 1 .. m : list[r + 1].octets[j] = p.octets[j]
      BY <1>18, <2>1, <3>1
    <3>3. \A j \in 1 .. m : list[s + 1].octets[j] = p.octets[j]
      BY <1>18, <2>1, <3>1
    <3> QED
      BY <2>1, <3>2, <3>3
  <2>2. CASE HasNode(list, m, r, k) /\ HasNode(list, m, s, k)
    BY <1>4, <2>2 DEF PathsMeetOnce
  <2> QED
    BY <1>13, <2>1, <2>2
<1> QED
  BY <1>4, <1>15, <1>16, <1>17, <1>19 DEF Paths

OnPath(octets, list, m, own) ==
    /\ Paths(octets, list, m, own)
    /\ Sharing(list, m, own) \/ Created(list, m, own)

\* An octet of the newest rule keeps the paths: it is shared or put in front.
LEMMA OctetKeepsPaths ==
  ASSUME NEW octets, NEW bound \in Nat, TreeShape(octets, bound),
         NEW m \in Levels, Place(octets, m, 0), NEW node \in NodeType, NEW result,
         Shared(octets, node, m, 0, result) \/ Grown(octets, node, m, 0, result),
         NEW list \in Seq(Listable), IsGrouped(list), NEW n \in Nat \ {0}, Len(list) = n,
         m <= LastLevel(list[n]),
         Shared(octets, node, m, 0, result) => m # LastLevel(list[n]),
         IsNodeOf(node, list[n], n - 1, m), ~node.isLast => node.index = 0,
         NEW own, OnPath(octets, list, m, own)
  PROVE  result.pos = 0 /\ \E next : OnPath(result.octets, list, m + 1, next)
<1>1. Paths(octets, list, m, own) /\ (Sharing(list, m, own) \/ Created(list, m, own))
  BY DEF OnPath
<1>2. m \in Nat /\ LastLevel(list[n]) \in Nat
  <2>1. list[n] \in Listable
    <3>1. n \in 1 .. n
      OBVIOUS
    <3> QED
      BY <3>1
  <2>2. LastLevel(list[n]) \in Levels
    BY <2>1, PrefixIs
  <2> QED
    BY <2>2, WidthAssumption DEF Levels
<1>3. CASE Shared(octets, node, m, 0, result)
  <2>1. m < LastLevel(list[n])
    BY <1>2, <1>3
  <2>2. result.pos = 0 /\ Sharing(list, m + 1, own)
    BY <1>1, <1>3, <2>1, SharedIsInFront
  <2>3. Paths(octets, list, m + 1, own)
    BY <1>1, <2>1, <2>2, SharedKeepsPaths
  <2>4. result.octets = octets
    BY <1>3 DEF Shared
  <2> QED
    BY <2>2, <2>3, <2>4 DEF OnPath
<1>4. CASE Grown(octets, node, m, 0, result)
  <2>1. result.pos = 0
    <3>1. result.pos = GroupStart(octets, m, 0)
      BY <1>4 DEF Grown
    <3>2. GroupStart(octets, m, 0) = 0
      <4>1. CASE m = 0
        BY <4>1 DEF GroupStart
      <4>2. CASE m # 0
        <5>1. m - 1 \in Levels
          BY <4>2, WidthAssumption DEF Levels
        <5>2. 0 \in 0 .. Len(octets[m - 1]) - 1 /\ ~NodeAt(octets, m - 1, 0).isLast
          BY <4>2 DEF Place
        <5>3. Len(octets[m - 1]) \in Nat
          BY <5>1 DEF TreeShape
        <5>4. 0 < Len(octets[m - 1])
          BY <5>2, <5>3
        <5>5. NodeAt(octets, m - 1, 0).index = 0
          BY <1>1, <5>1, <5>2, <5>4 DEF Paths, FirstGroupIsInFront
        <5> QED
          BY <4>2, <5>5 DEF GroupStart
      <4> QED
        BY <4>1, <4>2
    <3> QED
      BY <3>1, <3>2
  <2>2. FrontGrown(result.octets, octets, m, node)
    BY <1>4, <2>1, GrownInFront
  <2>3. node.index \in Nat
    BY DEF NodeType
  <2> DEFINE next == Pushed(list, m, own)
  <2>4. /\ Paths(result.octets, list, m + 1, next)
        /\ \A r \in 0 .. Len(list) - 2 : next[r][m] > 0
    <3>1. list # <<>>
      OBVIOUS
    <3> QED
      BY <1>1, <2>2, <2>3, <3>1, FrontKeepsPaths
  <2>5. Created(list, m + 1, next)
    <3> HIDE DEF next
    <3>1. m + 1 # 0 /\ (m + 1) - 1 = m
      BY <1>2
    <3> QED
      BY <2>4, <3>1 DEF Created
  <2> QED
    BY <2>1, <2>4, <2>5 DEF OnPath
<1> QED
  BY <1>3, <1>4

\* All octets of the newest rule have been added.
LEMMA WholePaths ==
  ASSUME NEW octets, NEW list \in Seq(Listable), list # <<>>,
         NEW own, Paths(octets, list, LastLevel(list[Len(list)]) + 1, own)
  PROVE  Paths(octets, list, V6Octets, own)
<1> DEFINE m == LastLevel(list[Len(list)]) + 1
<1>1. list[Len(list)] \in Listable
  OBVIOUS
<1>2. LastLevel(list[Len(list)]) \in Levels
  BY <1>1, PrefixIs
<1>3. \A r \in RuleIds(list) : \A k \in Levels :
         HasNode(list, V6Octets, r, k) <=> HasNode(list, m, r, k)
  <2> SUFFICES ASSUME NEW r \in RuleIds(list), NEW k \in Levels
               PROVE  HasNode(list, V6Octets, r, k) <=> HasNode(list, m, r, k)
    OBVIOUS
  <2>1. k < V6Octets
    BY WidthAssumption DEF Levels
  <2>2. r = Len(list) - 1 => list[r + 1] = list[Len(list)]
    OBVIOUS
  <2>3. k <= LastLevel(list[Len(list)]) <=> k < m
    BY <1>2, WidthAssumption DEF Levels
  <2> HIDE DEF m
  <2> QED
    BY <2>1, <2>2, <2>3 DEF HasNode
<1>4. \A r \in RuleIds(list) : \A k \in Levels :
         HasNode(list, V6Octets, r, k + 1) <=> HasNode(list, m, r, k + 1)
  <2> SUFFICES ASSUME NEW r \in RuleIds(list), NEW k \in Levels
               PROVE  HasNode(list, V6Octets, r, k + 1) <=> HasNode(list, m, r, k + 1)
    OBVIOUS
  <2>1. CASE k + 1 \in Levels
    BY <1>3, <2>1
  <2>2. CASE k + 1 \notin Levels
    BY <2>2 DEF HasNode
  <2> QED
    BY <2>1, <2>2
<1>5. Paths(octets, list, m, own)
  OBVIOUS
<1> HIDE DEF m
<1>6. RulesHaveNodes(octets, list, V6Octets, own)
  BY <1>3, <1>5 DEF Paths, RulesHaveNodes
<1>7. ChildrenAreInGroups(octets, list, V6Octets, own)
  BY <1>4, <1>5 DEF Paths, ChildrenAreInGroups
<1>8. NodesHaveRules(octets, list, V6Octets, own)
  BY <1>3, <1>5 DEF Paths, NodesHaveRules
<1>9. PathsMeetOnce(list, V6Octets, own)
  BY <1>3, <1>5 DEF Paths, PathsMeetOnce
<1> QED
  BY <1>5, <1>6, <1>7, <1>8, <1>9 DEF Paths

\* A prefix is going to be added: it has no node yet.
LEMMA StartOfPaths ==
  ASSUME NEW octets, NEW list \in Seq(Listable), NEW p \in Listable,
         NEW own, Paths(octets, list, V6Octets, own)
  PROVE  \E next : OnPath(octets, Append(list, p), 0, next)
<1> DEFINE whole == Append(list, p)
           n == Len(list)
           next == [r \in RuleIds(whole) |-> IF r = n THEN [k \in Levels |-> 0] ELSE own[r]]
<1>1. /\ n \in Nat /\ Len(whole) = n + 1 /\ whole # <<>> /\ RuleIds(list) = 0 .. n - 1
      /\ \A i \in 1 .. n : whole[i] = list[i]
      /\ list = <<>> <=> n = 0
  BY DEF RuleIds
<1>2. /\ own \in [RuleIds(list) -> [Levels -> Nat]]
      /\ RulesHaveNodes(octets, list, V6Octets, own)
      /\ ChildrenAreInGroups(octets, list, V6Octets, own)
      /\ NodesHaveRules(octets, list, V6Octets, own)
      /\ GroupsAreSorted(octets)
      /\ FirstGroupIsInFront(octets)
      /\ PathsMeetOnce(list, V6Octets, own)
      /\ NewestIsInFront(list, own)
  BY DEF Paths
<1> HIDE DEF whole, n
<1>3. /\ Len(whole) - 1 = n /\ Len(whole) - 2 = n - 1
      /\ RuleIds(whole) = 0 .. n /\ n \in RuleIds(whole)
      /\ \A r \in RuleIds(whole) : r # n => r \in RuleIds(list)
      /\ \A r \in RuleIds(list) : r \in RuleIds(whole) /\ r # n /\ whole[r + 1] = list[r + 1]
  <2>1. Len(whole) - 1 = n /\ Len(whole) - 2 = n - 1
    BY <1>1
  <2>2. RuleIds(whole) = 0 .. n /\ n \in RuleIds(whole)
    BY <1>1, <2>1 DEF RuleIds
  <2>3. \A r \in RuleIds(whole) : r # n => r \in RuleIds(list)
    BY <1>1, <2>2
  <2>4. \A r \in RuleIds(list) : r \in RuleIds(whole) /\ r # n /\ r + 1 \in 1 .. n
    BY <1>1, <2>2
  <2> QED
    BY <1>1, <2>1, <2>2, <2>3, <2>4
<1>4. \A k \in Levels : k \in Nat /\ k < V6Octets /\ ~(k < 0)
  BY WidthAssumption DEF Levels
<1>5. \A r \in RuleIds(whole) : \A k :
         HasNode(whole, 0, r, k) <=> r \in RuleIds(list) /\ HasNode(list, V6Octets, r, k)
  <2> SUFFICES ASSUME NEW r \in RuleIds(whole), NEW k
               PROVE  HasNode(whole, 0, r, k)
                        <=> r \in RuleIds(list) /\ HasNode(list, V6Octets, r, k)
    OBVIOUS
  <2>1. CASE k \notin Levels
    BY <2>1 DEF HasNode
  <2>2. CASE k \in Levels /\ r = n
    BY <1>3, <1>4, <2>2 DEF HasNode
  <2>3. CASE k \in Levels /\ r # n
    BY <1>3, <1>4, <2>3 DEF HasNode
  <2> QED
    BY <2>1, <2>2, <2>3
<1>6. /\ \A r \in RuleIds(list) : next[r] = own[r]
      /\ \A k \in Levels : next[n][k] = 0
      /\ next \in [RuleIds(whole) -> [Levels -> Nat]]
  BY <1>2, <1>3
<1> HIDE DEF next
<1>7. RulesHaveNodes(octets, whole, 0, next)
  BY <1>2, <1>3, <1>5, <1>6 DEF RulesHaveNodes
<1>8. ChildrenAreInGroups(octets, whole, 0, next)
  BY <1>2, <1>3, <1>5, <1>6 DEF ChildrenAreInGroups
<1>9. NodesHaveRules(octets, whole, 0, next)
  BY <1>2, <1>3, <1>5, <1>6 DEF NodesHaveRules
<1>10. PathsMeetOnce(whole, 0, next)
  <2> SUFFICES ASSUME NEW r \in RuleIds(whole), NEW s \in RuleIds(whole), NEW k \in Levels,
                      HasNode(whole, 0, r, k), HasNode(whole, 0, s, k), next[r][k] = next[s][k]
               PROVE  \A j \in 1 .. k : whole[r + 1].octets[j] = whole[s + 1].octets[j]
    BY DEF PathsMeetOnce
  <2>1. /\ r \in RuleIds(list) /\ HasNode(list, V6Octets, r, k)
        /\ s \in RuleIds(list) /\ HasNode(list, V6Octets, s, k)
    BY <1>5
  <2>2. own[r][k] = own[s][k]
    BY <1>6, <2>1
  <2>3. \A j \in 1 .. k : list[r + 1].octets[j] = list[s + 1].octets[j]
    BY <1>2, <2>1, <2>2 DEF PathsMeetOnce
  <2> QED
    BY <1>3, <2>1, <2>3
<1>11. NewestIsInFront(whole, next)
  BY <1>3, <1>6 DEF NewestIsInFront
<1>12. Sharing(whole, 0, next) \/ Created(whole, 0, next)
  <2>1. CASE n = 0
    <3>1. 0 .. n - 1 = {}
      BY <2>1
    <3> QED
      BY <1>3, <3>1 DEF Created
  <2>2. CASE n # 0
    <3>1. n - 1 \in RuleIds(list) /\ Len(whole) > 1 /\ (n - 1) + 1 = n /\ n \in 1 .. n
      BY <1>1, <2>2
    <3>2. whole[Len(whole) - 1] \in Listable
      <4>1. list[n] \in Listable
        BY <3>1 DEF n
      <4> QED
        BY <1>1, <1>3, <3>1, <4>1
    <3>3. LastLevel(whole[Len(whole) - 1]) \in Levels
      BY <3>2, PrefixIs
    <3>4. \A k \in 0 .. LastLevel(whole[Len(whole) - 1]) : k \in Levels
      BY <3>3, WidthAssumption DEF Levels
    <3>5. \A k \in Levels : next[n - 1][k] = 0
      BY <1>1, <1>2, <1>6, <2>2, <3>1 DEF NewestIsInFront, n
    <3>6. 0 <= LastLevel(whole[Len(whole) - 1])
      BY <1>4, <3>3
    <3>7. 1 .. 0 = {}
      OBVIOUS
    <3> QED
      BY <1>3, <3>1, <3>4, <3>5, <3>6, <3>7 DEF Sharing
  <2> QED
    BY <2>1, <2>2
<1>13. OnPath(octets, whole, 0, next)
  BY <1>2, <1>6, <1>7, <1>8, <1>9, <1>10, <1>11, <1>12 DEF OnPath, Paths
<1> QED
  BY <1>13 DEF whole

\* The insertion, in a level that can take a node more.
LEMMA InsertNodeIsWide ==
  ASSUME NEW octets, NEW bound \in Nat, TreeShape(octets, bound),
         NEW level \in Levels, NEW pos, NEW node, Len(octets[level]) + 1 < IndexModulus
  PROVE  InsertNode(octets, node, level, pos) = WideInsertNode(octets, node, level, pos)
<1> DEFINE above == level - 1
           grown == [octets EXCEPT ![level] = InsertAt(@, GroupStart(octets, level, pos) + 1, node)]
<1>1. Len(octets[level]) \in Nat /\ IndexModulus \in Nat
  BY WidthAssumption DEF TreeShape
<1>2. GroupEnd(octets, level, pos) = WideGroupEnd(octets, level, pos)
  BY <1>1, GroupEndIsWide
<1>3. ASSUME level # 0
      PROVE  Shifted(grown[above], pos) = WideShifted(grown[above], pos)
  <2>1. above \in Levels /\ above + 1 = level /\ above # level
    BY <1>3, WidthAssumption DEF Levels
  <2>2. octets \in [Levels -> Seq(NodeType)]
    BY DEF TreeShape
  <2>3. grown[above] = octets[above]
    BY <2>1, <2>2
  <2>4. octets[above] \in Seq(NodeType) /\ DOMAIN octets[above] = 1 .. Len(octets[above])
    BY <2>1, <2>2
  <2>5. ASSUME NEW i \in DOMAIN octets[above], ~octets[above][i].isLast
        PROVE  octets[above][i].index \in Nat /\ octets[above][i].index + 1 < IndexModulus
    <3>1. octets[above][i] \in NodeType /\ Fits(octets, bound, above, octets[above][i])
      BY <2>1, <2>4, ElementOfSeq DEF TreeShape
    <3>2. octets[above][i].index \in Nat /\ octets[above][i].index <= Len(octets[level])
      BY <2>1, <2>5, <3>1 DEF Fits, NodeType
    <3> QED
      BY <1>1, <3>2
  <2> HIDE DEF above, grown
  <2> QED
    BY <2>3, <2>5, ShiftedIsWide
<1> QED
  BY <1>2, <1>3 DEF InsertNode, WideInsertNode

-----------------------------------------------------------------------------
(***************************************************************************)
(* AddPrefix: the fold of InsertNode over the levels of a prefix.              *)
(***************************************************************************)
\* The tree and the list before a prefix is added, and the prefix.
Context(m, list, p) == [matcher |-> m, listed |-> list, prefix |-> p]
Longer(context) == Append(context.listed, context.prefix)
Number(context) == context.matcher.lastInsertIndex

NodeOf(p, number, k) ==
    [value  |-> p.octets[k + 1],
     ones   |-> p.ones[k + 1],
     isLast |-> k = LastLevel(p),
     index  |-> IF k = LastLevel(p) THEN number ELSE NoIndex]

AddNode(context, tree, k) ==
    InsertNode(tree.octets, NodeOf(context.prefix, Number(context), k), k, tree.pos)

\* A level has a node for each rule at most, when the first n octets of a rule
\* more have been added.
Sized(octets, number, n) ==
    \A k \in Levels : Len(octets[k]) <= IF k < n THEN number + 1 ELSE number

\* What holds when the first n octets of the prefix have been added.
AddedSoFar(context, n, tree) ==
    /\ TreeShape(tree.octets, Number(context) + 1)
    /\ Sized(tree.octets, Number(context), n)
    /\ n <= LastLevel(context.prefix) => Place(tree.octets, n, tree.pos)
    /\ InnerIsFull(tree.octets, Longer(context))
    /\ IsOfOneFamily(Longer(context)) =>
         /\ \A r \in 0 .. Number(context) - 1 :
               Owned(tree.octets, r, LastLevel(Longer(context)[r + 1]))
         /\ IF n <= LastLevel(context.prefix)
            THEN Ownerless(tree.octets, Number(context))
            ELSE Owned(tree.octets, Number(context), LastLevel(context.prefix))
    /\ IsOfOneFamily(Longer(context)) /\ IsGrouped(Longer(context)) =>
         /\ n <= LastLevel(context.prefix) => tree.pos = 0
         /\ \E own : OnPath(tree.octets, Longer(context), n, own)

Adding == INSTANCE FoldTheorems WITH Op <- AddNode, Along <- AddedSoFar

\* A full last octet is not an inner one of a prefix of the same family.
LEMMA LastIsNoInner ==
  ASSUME NEW list \in Seq(Listable), NEW p \in Listable, IsOfOneFamily(Append(list, p)),
         p.ones[LastLevel(p) + 1] = OctetBits,
         NEW m \in DOMAIN Append(list, p), LastLevel(p) < LastLevel(Append(list, p)[m])
  PROVE  FALSE
<1> DEFINE whole == Append(list, p)
           q == whole[m]
<1>1. whole \in Seq(Listable) /\ Len(list) + 1 \in DOMAIN whole /\ whole[Len(list) + 1] = p
  OBVIOUS
<1>2. q \in Listable
  BY <1>1
<1>3. {q.family, p.family} # {"v4", "v6"}
  BY <1>1 DEF IsOfOneFamily
<1> HIDE DEF whole, q
<1>4. p.family \in {"v4", "v6"} /\ LastLevel(p) = Length(p.family) - 1 /\ LastLevel(p) \in Levels
  BY PrefixIs
<1>5. LastLevel(q) <= Length(q.family) - 1 /\ LastLevel(q) \in Levels
      /\ (q.family \notin {"v4", "v6"} => LastLevel(q) = 0)
  BY <1>2, PrefixIs
<1>6. LastLevel(p) < LastLevel(q)
  BY DEF q, whole
<1>7. q.family \in {"v4", "v6"}
  BY <1>4, <1>5, <1>6 DEF Levels
<1>8. q.family = p.family
  BY <1>3, <1>4, <1>7
<1>9. Length(p.family) \in Nat
  BY WidthAssumption DEF Length
<1> QED
  BY <1>4, <1>5, <1>6, <1>8, <1>9, WidthAssumption DEF Levels

\* One more octet.
LEMMA AddNodeStep ==
  ASSUME NEW m, NEW list \in Seq(Listable), m.lastInsertIndex = Len(list), NEW p \in Listable,
         Len(list) + 1 < IndexModulus,
         NEW k \in 0 .. LastLevel(p), NEW tree, AddedSoFar(Context(m, list, p), k, tree)
  PROVE  AddedSoFar(Context(m, list, p), k + 1, AddNode(Context(m, list, p), tree, k))
<1> DEFINE c == Context(m, list, p)
           last == LastLevel(p)
           number == Len(list)
           whole == Append(list, p)
           node == NodeOf(p, number, k)
           result == WideInsertNode(tree.octets, node, k, tree.pos)
<1>1. Longer(c) = whole /\ Number(c) = number /\ c.prefix = p
  BY DEF Context, Longer, Number
<1>2. AddNode(c, tree, k) = InsertNode(tree.octets, node, k, tree.pos)
  BY <1>1 DEF AddNode
<1>3. /\ last \in Levels
      /\ \A j \in 0 .. last :
           /\ p.octets[j + 1] \in Octet
           /\ p.ones[j + 1] \in 0 .. OctetBits
           /\ p.octets[j + 1] = Masked(p.octets[j + 1], p.ones[j + 1])
      /\ \A j \in 0 .. last - 1 : p.ones[j + 1] = OctetBits
  BY PrefixIs
<1>4. /\ number \in Nat /\ last \in Nat /\ k \in Nat /\ k \in Levels
      /\ k # last => k < last /\ k + 1 \in Levels
  BY <1>3, WidthAssumption DEF Levels
<1>5. /\ TreeShape(tree.octets, number + 1)
      /\ Sized(tree.octets, number, k)
      /\ Place(tree.octets, k, tree.pos)
      /\ InnerIsFull(tree.octets, whole)
      /\ IsOfOneFamily(whole) =>
           /\ \A r \in 0 .. number - 1 : Owned(tree.octets, r, LastLevel(whole[r + 1]))
           /\ Ownerless(tree.octets, number)
      /\ IsOfOneFamily(whole) /\ IsGrouped(whole) =>
           /\ tree.pos = 0
           /\ \E own : OnPath(tree.octets, whole, k, own)
  BY <1>1, <1>4 DEF AddedSoFar
<1>17. number + 1 < IndexModulus
  OBVIOUS
<1> HIDE DEF c, last, number, whole
<1>18. Len(tree.octets[k]) \in Nat /\ Len(tree.octets[k]) <= number
  BY <1>4, <1>5 DEF Sized, TreeShape
<1>19. AddNode(c, tree, k) = result
  <2>1. Len(tree.octets[k]) + 1 < IndexModulus /\ number + 1 \in Nat
    BY <1>4, <1>17, <1>18, WidthAssumption
  <2> QED
    BY <1>2, <1>4, <1>5, <2>1, InsertNodeIsWide
<1>6. /\ node.value = p.octets[k + 1] /\ node.ones = p.ones[k + 1]
      /\ (node.isLast <=> k = last) /\ (k = last => node.index = number)
      /\ (k # last => node.index = 0)
  BY DEF NodeOf, NoIndex, last
<1>7. NewNode(number + 1, k, node)
  <2>1. node.index \in Nat
    BY <1>4, <1>6
  <2>2. node \in NodeType
    BY <1>3, <1>6, <2>1 DEF NodeOf, NodeType, last
  <2>3. node.value = Masked(node.value, node.ones)
    BY <1>3, <1>6 DEF last
  <2>4. IF node.isLast THEN node.index < number + 1 ELSE k + 1 \in Levels /\ node.index = 0
    BY <1>4, <1>6 DEF last
  <2> QED
    BY <2>2, <2>3, <2>4 DEF NewNode
<1>8. node \in NodeType
  BY <1>7 DEF NewNode
<1> HIDE DEF node
<1>9. /\ TreeShape(result.octets, number + 1)
      /\ k < last => Place(result.octets, k + 1, result.pos)
  <2>1. number + 1 \in Nat
    BY <1>4
  <2>2. /\ TreeShape(result.octets, number + 1)
        /\ ~node.isLast => Place(result.octets, k + 1, result.pos)
    BY <2>1, <1>4, <1>5, <1>7, InsertKeepsShape, Zenon
  <2> QED
    BY <2>2, <1>4, <1>6
<1>10. Shared(tree.octets, node, k, tree.pos, result) \/ Grown(tree.octets, node, k, tree.pos, result)
  <2>1. number + 1 \in Nat
    BY <1>4
  <2> QED
    BY <2>1, <1>4, <1>5, <1>8, InsertNodeIs
<1>20. Sized(result.octets, number, k + 1)
  <2>1. \A j \in Levels : Len(tree.octets[j]) \in Nat
    BY <1>5 DEF TreeShape
  <2>2. \A j \in Levels : Len(tree.octets[j]) <= IF j < k THEN number + 1 ELSE number
    BY <1>5 DEF Sized
  <2>3. \A j \in Levels : j \in Int
    BY WidthAssumption DEF Levels
  <2>4. ASSUME NEW j \in Levels
        PROVE  Len(result.octets[j]) <= IF j < k + 1 THEN number + 1 ELSE number
    <3>1. CASE Shared(tree.octets, node, k, tree.pos, result)
      <4>1. result.octets[j] = tree.octets[j]
        BY <3>1 DEF Shared
      <4> QED
        BY <1>4, <2>1, <2>2, <2>3, <4>1
    <3>2. CASE Grown(tree.octets, node, k, tree.pos, result)
      <4>1. Len(result.octets[k]) = Len(tree.octets[k]) + 1
        BY <3>2 DEF Grown
      <4>2. CASE j = k
        BY <1>4, <1>18, <4>1, <4>2
      <4>3. CASE j = k - 1
        <5>1. k # 0 /\ j < k
          BY <1>4, <4>3, WidthAssumption DEF Levels
        <5>2. result.octets[j] = WideShifted(tree.octets[j], tree.pos)
          BY <3>2, <4>3, <5>1 DEF Grown
        <5>3. tree.octets[j] \in Seq(NodeType)
          BY <1>5 DEF TreeShape
        <5>4. tree.pos \in Nat
          BY <1>5, <2>1, <4>3, <5>1 DEF Place
        <5>5. Len(result.octets[j]) = Len(tree.octets[j])
          BY <5>2, <5>3, <5>4, ShiftedIs
        <5> QED
          BY <1>4, <2>1, <2>2, <2>3, <5>1, <5>5
      <4>4. CASE j # k /\ j # k - 1
        <5>1. result.octets[j] = tree.octets[j]
          BY <3>2, <4>4 DEF Grown
        <5> QED
          BY <1>4, <2>1, <2>2, <2>3, <5>1
      <4> QED
        BY <4>2, <4>3, <4>4
    <3> QED
      BY <1>10, <3>1, <3>2
  <2> QED
    BY <2>4 DEF Sized
<1>11. ~node.isLast => node.ones = OctetBits /\ \E l \in DOMAIN whole : k < LastLevel(whole[l])
  <2> SUFFICES ASSUME ~node.isLast
               PROVE  node.ones = OctetBits /\ \E l \in DOMAIN whole : k < LastLevel(whole[l])
    OBVIOUS
  <2>1. k \in 0 .. last - 1
    BY <1>4, <1>6 DEF last
  <2>2. Len(list) + 1 \in DOMAIN whole /\ whole[Len(list) + 1] = p
    BY DEF whole
  <2> QED
    BY <1>3, <1>4, <1>6, <2>1, <2>2 DEF last
<1> HIDE DEF result
<1>12. InnerIsFull(result.octets, whole)
  <2>1. CASE Shared(tree.octets, node, k, tree.pos, result)
    BY <1>5, <2>1 DEF Shared
  <2>2. CASE Grown(tree.octets, node, k, tree.pos, result)
    <3>1. number + 1 \in Nat
      BY <1>4
    <3> QED
      BY <3>1, <1>4, <1>5, <1>11, <2>2, InnerStaysFull
  <2> QED
    BY <1>10, <2>1, <2>2
<1>13. ASSUME IsOfOneFamily(whole), Shared(tree.octets, node, k, tree.pos, result), k = last
       PROVE  FALSE
  <2> DEFINE stored == NodeAt(tree.octets, k, result.pos)
  <2>1. stored.ones = node.ones /\ ~stored.isLast
    BY <1>13 DEF Shared, Equal
  <2>2. result.pos + 1 \in 1 .. Len(tree.octets[k])
    BY <1>4, <1>5, <1>13 DEF Shared, TreeShape
  <2>3. stored.ones = OctetBits /\ \E l \in DOMAIN whole : k < LastLevel(whole[l])
    BY <1>4, <1>5, <2>1, <2>2 DEF InnerIsFull, NodeAt
  <2>4. p.ones[LastLevel(p) + 1] = OctetBits
    BY <1>6, <1>13, <2>1, <2>3 DEF last
  <2>5. PICK l \in DOMAIN whole : LastLevel(p) < LastLevel(whole[l])
    BY <1>13, <2>3 DEF last
  <2> QED
    BY <1>13, <2>4, <2>5, LastIsNoInner DEF whole
<1>14. ASSUME IsOfOneFamily(whole)
       PROVE  /\ \A r \in 0 .. number - 1 : Owned(result.octets, r, LastLevel(whole[r + 1]))
              /\ IF k = last THEN Owned(result.octets, number, last)
                             ELSE Ownerless(result.octets, number)
  <2>1. CASE Shared(tree.octets, node, k, tree.pos, result)
    <3>1. k # last
      BY <1>13, <1>14, <2>1
    <3>2. result.octets = tree.octets
      BY <2>1 DEF Shared
    <3> QED
      BY <1>5, <1>14, <3>1, <3>2
  <2>2. CASE Grown(tree.octets, node, k, tree.pos, result)
    <3>1. number + 1 \in Nat
      BY <1>4
    <3>2. ASSUME NEW r \in 0 .. number - 1
          PROVE  Owned(result.octets, r, LastLevel(whole[r + 1]))
      <4>1. Owned(tree.octets, r, LastLevel(whole[r + 1]))
        BY <1>5, <1>14
      <4>2. ~IsLastOf(node, r)
        BY <1>4, <1>6 DEF IsLastOf
      <4>3. LastLevel(whole[r + 1]) \in Levels
        <5>1. r + 1 \in 1 .. Len(list) + 1
          BY <1>4 DEF number
        <5>2. whole[r + 1] \in Listable
          BY <5>1 DEF whole
        <5> QED
          BY <5>2, PrefixIs
      <4> QED
        BY <1>4, <1>5, <2>2, <3>1, <4>1, <4>2, <4>3, OwnedIsKept
    <3>3. Ownerless(tree.octets, number)
      BY <1>5, <1>14
    <3>4. IF IsLastOf(node, number) THEN Owned(result.octets, number, k)
                                    ELSE Ownerless(result.octets, number)
      BY <1>4, <1>5, <2>2, <3>1, <3>3, OwnerlessGetsOne
    <3>5. IsLastOf(node, number) <=> k = last
      BY <1>6 DEF IsLastOf
    <3> QED
      BY <3>2, <3>4, <3>5
  <2> QED
    BY <1>10, <2>1, <2>2
<1>15. ASSUME IsOfOneFamily(whole), IsGrouped(whole)
       PROVE  result.pos = 0 /\ \E own : OnPath(result.octets, whole, k + 1, own)
  <2>1. tree.pos = 0
    BY <1>5, <1>15
  <2>2. PICK own : OnPath(tree.octets, whole, k, own)
    BY <1>5, <1>15
  <2> DEFINE n == number + 1
  <2>3. whole \in Seq(Listable) /\ Len(whole) = n /\ whole[n] = p
    BY DEF whole, number
  <2>4. n \in Nat \ {0} /\ n - 1 = number /\ k <= LastLevel(p)
    BY <1>4
  <2>5. Shared(tree.octets, node, k, 0, result) => k # LastLevel(p)
    BY <1>13, <1>15, <2>1 DEF last
  <2>6. IsNodeOf(node, p, number, k) /\ (~node.isLast => node.index = 0)
    BY <1>6 DEF IsNodeOf, last
  <2>7. TreeShape(tree.octets, n)
    BY <1>5
  <2> HIDE DEF n
  <2> QED
    BY <1>4, <1>5, <1>8, <1>10, <1>15, <2>1, <2>2, <2>3, <2>4, <2>5, <2>6, <2>7, OctetKeepsPaths
<1>16. (k + 1 <= last <=> k < last) /\ (k + 1 <= last <=> k # last)
  BY <1>4 DEF last
<1> QED
  BY <1>1, <1>19, <1>9, <1>12, <1>14, <1>15, <1>16, <1>20 DEF AddedSoFar, c, last

\* The levels of a prefix, in the order in which its octets are added.
LevelsOf(p) == [k \in 1 .. LastLevel(p) + 1 |-> k - 1]

StartOf(m) == [octets |-> m.octets, pos |-> NoIndex]

\* AddPrefix is that fold.
LEMMA AddPrefixIsFold ==
  ASSUME NEW c
  PROVE  /\ AddPrefix(c.matcher, c.prefix).octets
              = Adding!Folded(c, StartOf(c.matcher), LevelsOf(c.prefix)).octets
         /\ AddPrefix(c.matcher, c.prefix).lastInsertIndex = Index(c.matcher.lastInsertIndex + 1)
BY DEF AddPrefix, FoldLeft, MapThenFoldSet, Max, Adding!IsFold, Adding!Folded, Adding!LastOf,
       AddNode, NodeOf, Number, StartOf, LevelsOf

\* The inductive invariant: the tree of a list.
TreeOf(m, list) ==
    /\ m.lastInsertIndex = Len(list)
    /\ TreeShape(m.octets, Len(list))
    /\ Sized(m.octets, Len(list), 0)
    /\ InnerIsFull(m.octets, list)
    /\ IsOfOneFamily(list) =>
         \A r \in 0 .. Len(list) - 1 : Owned(m.octets, r, LastLevel(list[r + 1]))
    /\ IsOfOneFamily(list) /\ IsGrouped(list) =>
         \E own : Paths(m.octets, list, V6Octets, own)

LEMMA EmptyTree ==
  TreeOf(EmptyMatcher, <<>>)
<1>1. EmptyMatcher.octets = [k \in Levels |-> <<>>] /\ EmptyMatcher.lastInsertIndex = 0
  BY DEF EmptyMatcher
<1>2. Len(<<>>) = 0 /\ <<>> \in Seq(NodeType)
  OBVIOUS
<1>3. EmptyMatcher.octets \in [Levels -> Seq(NodeType)]
      /\ \A k \in Levels : Len(EmptyMatcher.octets[k]) = 0
  BY <1>1, <1>2
<1>4. \A k \in Levels : \A i \in 1 .. Len(EmptyMatcher.octets[k]) : FALSE
  BY <1>3
<1>5. \A own \in [{} -> [Levels -> Nat]] : Paths(EmptyMatcher.octets, <<>>, V6Octets, own)
  <2>1. RuleIds(<<>>) = {}
    BY <1>2 DEF RuleIds
  <2>2. /\ \A k \in Levels : \A i \in 0 .. Len(EmptyMatcher.octets[k]) - 1 : FALSE
        /\ \A k \in Levels : ~(0 < Len(EmptyMatcher.octets[k]))
    BY <1>3
  <2> QED
    BY <2>1, <2>2 DEF Paths, RulesHaveNodes, ChildrenAreInGroups, NodesHaveRules, GroupsAreSorted,
                      FirstGroupIsInFront, PathsMeetOnce, NewestIsInFront
<1>6. [r \in {} |-> [k \in Levels |-> 0]] \in [{} -> [Levels -> Nat]]
  OBVIOUS
<1>7. \E own : Paths(EmptyMatcher.octets, <<>>, V6Octets, own)
  BY <1>5, <1>6, Zenon
<1>8. /\ TreeShape(EmptyMatcher.octets, 0)
      /\ Sized(EmptyMatcher.octets, 0, 0)
      /\ InnerIsFull(EmptyMatcher.octets, <<>>)
  BY <1>3, <1>4 DEF TreeShape, InnerIsFull, Sized
<1>9. \A r \in 0 .. 0 - 1 : FALSE
  OBVIOUS
<1> QED
  BY <1>1, <1>2, <1>7, <1>8, <1>9 DEF TreeOf

\* A prefix more.
LEMMA AddPrefixKeepsTree ==
  ASSUME NEW m, NEW list \in Seq(Listable), NEW p \in Listable, TreeOf(m, list),
         Len(list) + 1 < IndexModulus
  PROVE  TreeOf(AddPrefix(m, p), Append(list, p))
<1> DEFINE c == Context(m, list, p)
           last == LastLevel(p)
           whole == Append(list, p)
           number == Len(list)
           tree == Adding!Folded(c, StartOf(m), LevelsOf(p))
<1>1. c.matcher = m /\ c.prefix = p /\ Longer(c) = whole /\ Number(c) = number
  BY DEF Context, Longer, Number, TreeOf
<1>2. last \in Levels /\ last \in Nat
  BY PrefixIs, WidthAssumption DEF Levels
<1>3. /\ number \in Nat /\ Len(whole) = number + 1 /\ whole[number + 1] = p
      /\ \A r \in 1 .. number : whole[r] = list[r]
      /\ DOMAIN list = 1 .. number /\ DOMAIN whole = 1 .. number + 1
  OBVIOUS
<1>4. m.lastInsertIndex = number /\ TreeShape(m.octets, number) /\ InnerIsFull(m.octets, list)
      /\ Sized(m.octets, number, 0)
  BY DEF TreeOf
<1>5. IsOfOneFamily(whole) => IsOfOneFamily(list)
  <2> HIDE DEF whole, number
  <2>1. \A i \in DOMAIN list : i \in DOMAIN whole /\ whole[i] = list[i]
    BY <1>3
  <2> QED
    BY <2>1 DEF IsOfOneFamily
<1>6. IsGrouped(whole) => IsGrouped(list)
  <2> HIDE DEF whole, number
  <2>1. \A i \in DOMAIN list : i \in DOMAIN whole /\ whole[i] = list[i]
    BY <1>3
  <2> QED
    BY <2>1 DEF IsGrouped
<1>7. AddedSoFar(c, 0, StartOf(m))
  <2>1. StartOf(m).octets = m.octets
    BY DEF StartOf
  <2>2. TreeShape(m.octets, number + 1)
    <3>1. \A k \in Levels : \A i \in 1 .. Len(m.octets[k]) :
             m.octets[k][i] \in NodeType /\ Fits(m.octets, number, k, m.octets[k][i])
      BY <1>4, ElementOfSeq DEF TreeShape
    <3>2. \A k \in Levels : \A node \in NodeType :
             Fits(m.octets, number, k, node) => Fits(m.octets, number + 1, k, node)
      <4> HIDE DEF number
      <4> QED
        BY <1>3 DEF Fits, NodeType
    <3> QED
      BY <1>4, <3>1, <3>2 DEF TreeShape
  <2>3. Place(m.octets, 0, StartOf(m).pos)
    BY DEF Place
  <2>4. InnerIsFull(m.octets, whole)
    <3> HIDE DEF whole, number
    <3>1. \A i \in DOMAIN list : i \in DOMAIN whole /\ whole[i] = list[i]
      BY <1>3
    <3> QED
      BY <1>4, <3>1 DEF InnerIsFull
  <2>5. ASSUME IsOfOneFamily(whole)
        PROVE  \A r \in 0 .. number - 1 : Owned(m.octets, r, LastLevel(whole[r + 1]))
    <3>1. \A r \in 0 .. number - 1 : Owned(m.octets, r, LastLevel(list[r + 1]))
      BY <1>5, <2>5 DEF TreeOf
    <3> HIDE DEF whole, number
    <3>2. \A r \in 0 .. number - 1 : whole[r + 1] = list[r + 1]
      BY <1>3
    <3> QED
      BY <3>1, <3>2
  <2>6. Ownerless(m.octets, number)
    <3> SUFFICES ASSUME NEW k \in Levels, NEW j \in 1 .. Len(m.octets[k])
                 PROVE  ~IsLastOf(m.octets[k][j], number)
      BY DEF Ownerless
    <3>1. Fits(m.octets, number, k, m.octets[k][j])
      BY <1>4 DEF TreeShape
    <3> HIDE DEF number
    <3> QED
      BY <1>3, <3>1 DEF Fits, IsLastOf
  <2>7. 0 <= last
    BY <1>2
  <2>8. ASSUME IsOfOneFamily(whole), IsGrouped(whole)
        PROVE  /\ StartOf(m).pos = 0
               /\ \E own : OnPath(m.octets, whole, 0, own)
    <3>1. PICK own : Paths(m.octets, list, V6Octets, own)
      BY <1>5, <1>6, <2>8 DEF TreeOf
    <3> QED
      BY <3>1, StartOfPaths DEF StartOf, NoIndex
  <2> HIDE DEF c, last, whole, number
  <2> QED
    BY <1>1, <1>4, <2>1, <2>2, <2>3, <2>4, <2>5, <2>6, <2>7, <2>8 DEF AddedSoFar, last
<1>8. \A i \in 1 .. last + 1 : \A so_far :
         AddedSoFar(c, i - 1, so_far) => AddedSoFar(c, i, AddNode(c, so_far, LevelsOf(p)[i]))
  <2> SUFFICES ASSUME NEW i \in 1 .. last + 1, NEW so_far, AddedSoFar(c, i - 1, so_far)
               PROVE  AddedSoFar(c, i, AddNode(c, so_far, LevelsOf(p)[i]))
    OBVIOUS
  <2>1. i - 1 \in 0 .. LastLevel(p) /\ (i - 1) + 1 = i
    BY <1>2
  <2>2. LevelsOf(p)[i] = i - 1
    BY DEF LevelsOf
  <2>3. AddedSoFar(c, (i - 1) + 1, AddNode(c, so_far, i - 1))
    BY <1>4, <2>1, AddNodeStep
  <2> HIDE DEF c, last
  <2> QED
    BY <2>1, <2>2, <2>3
<1>9. DOMAIN LevelsOf(p) = 1 .. last + 1
  BY DEF LevelsOf
<1>10. AddedSoFar(c, last + 1, tree)
  <2> DEFINE n == last + 1
             seq == LevelsOf(p)
             base == StartOf(m)
  <2>1. n \in Nat /\ DOMAIN seq = 1 .. n
    BY <1>2, <1>9
  <2>2. AddedSoFar(c, 0, base)
    BY <1>7
  <2>3. \A i \in 1 .. n : \A so_far :
           AddedSoFar(c, i - 1, so_far) => AddedSoFar(c, i, AddNode(c, so_far, seq[i]))
    BY <1>8
  <2> HIDE DEF n, seq, base, c
  <2>4. AddedSoFar(c, n, Adding!Folded(c, base, seq))
    BY <2>1, <2>2, <2>3, Adding!FoldInvariant
  <2> QED
    BY <2>4 DEF n, seq, base
<1>11. /\ AddPrefix(m, p).octets = tree.octets
       /\ AddPrefix(m, p).lastInsertIndex = number + 1
  <2>1. Index(number + 1) = number + 1
    BY <1>3, IndexKeeps
  <2> QED
    BY <1>1, <1>4, <2>1, AddPrefixIsFold
<1> HIDE DEF c, tree, whole, number, last
<1>12. ~(last + 1 <= last)
  BY <1>2
<1>13. /\ TreeShape(tree.octets, number + 1)
       /\ Sized(tree.octets, number, last + 1)
       /\ InnerIsFull(tree.octets, whole)
       /\ IsOfOneFamily(whole) =>
            /\ \A r \in 0 .. number - 1 : Owned(tree.octets, r, LastLevel(whole[r + 1]))
            /\ Owned(tree.octets, number, last)
       /\ IsOfOneFamily(whole) /\ IsGrouped(whole) =>
            \E own : OnPath(tree.octets, whole, last + 1, own)
  BY <1>1, <1>10, <1>12 DEF AddedSoFar, last
<1>14. ASSUME IsOfOneFamily(whole), NEW r \in 0 .. Len(whole) - 1
       PROVE  Owned(tree.octets, r, LastLevel(whole[r + 1]))
  <2>1. CASE r = number
    BY <1>3, <1>13, <1>14, <2>1 DEF last
  <2>2. CASE r # number
    <3>1. r \in 0 .. number - 1
      BY <1>3, <2>2
    <3> QED
      BY <1>13, <1>14, <3>1
  <2> QED
    BY <2>1, <2>2
<1>15. ASSUME IsOfOneFamily(whole), IsGrouped(whole)
       PROVE  \E own : Paths(tree.octets, whole, V6Octets, own)
  <2>1. PICK own : OnPath(tree.octets, whole, last + 1, own)
    BY <1>13, <1>15
  <2>2. whole \in Seq(Listable) /\ whole # <<>> /\ whole[Len(whole)] = p
    BY DEF whole
  <2>3. Paths(tree.octets, whole, V6Octets, own)
    BY <2>1, <2>2, WholePaths DEF OnPath, last
  <2> QED
    BY <2>3
<1>17. Sized(tree.octets, number + 1, 0)
  <2> SUFFICES ASSUME NEW j \in Levels
               PROVE  Len(tree.octets[j]) <= IF j < 0 THEN number + 1 + 1 ELSE number + 1
    BY DEF Sized
  <2>1. Len(tree.octets[j]) \in Nat /\ j \in Nat
    BY <1>13, WidthAssumption DEF TreeShape, Levels
  <2>2. Len(tree.octets[j]) <= IF j < last + 1 THEN number + 1 ELSE number
    BY <1>13 DEF Sized
  <2> QED
    BY <1>3, <2>1, <2>2
<1>16. TreeOf(AddPrefix(m, p), whole)
  BY <1>3, <1>11, <1>13, <1>14, <1>15, <1>17 DEF TreeOf
<1> QED
  BY <1>16 DEF whole

-----------------------------------------------------------------------------
(***************************************************************************)
(* MatchingRules: the search from the first level down.                    *)
(***************************************************************************)
\* The bit of a rule in a result of that size.
Numbered(rule, size) == IF rule < size THEN rule ELSE Outside

\* What checkOctet does with a node, "check" being what it does with those of the
\* next level.
CheckBody(check, octets, size, address, previous, at) ==
    LET level == at[1]
        node  == NodeAt(octets, level, at[2])
        below == MatchingNodes(octets, address, level + 1,
                               node.index, GroupEnd(octets, level + 1, at[2]))
    IN IF node.isLast /\ node.index \in previous THEN {Numbered(node.index, size)}
       ELSE IF level = V6Octets - 1 THEN {Outside}
       ELSE UNION {check[<<level + 1, i>>] : i \in below}

CheckOf(octets, size, address, previous) ==
    CHOOSE check : check = [at \in Levels \X Int |->
                              CheckBody(check, octets, size, address, previous, at)]

LEMMA MatchingRulesIs ==
  ASSUME NEW m, NEW address, NEW previous
  PROVE  MatchingRules(m, address, previous)
           = UNION {CheckOf(m.octets, m.lastInsertIndex, address, previous)[<<0, i>>] :
                      i \in MatchingNodes(m.octets, address, 0, 0, GroupEnd(m.octets, 0, NoIndex))}
BY DEF MatchingRules, CheckOf, CheckBody, Numbered

\* It depends on nothing but the results of the next level.
LEMMA CheckDependsBelow ==
  ASSUME NEW octets, NEW size, NEW address, NEW previous, NEW level \in Levels, NEW i \in Int, NEW f, NEW g,
         level # V6Octets - 1 => \A c \in Int : f[<<level + 1, c>>] = g[<<level + 1, c>>]
  PROVE  CheckBody(f, octets, size, address, previous, <<level, i>>)
           = CheckBody(g, octets, size, address, previous, <<level, i>>)
<1> DEFINE node == NodeAt(octets, level, i)
           below == MatchingNodes(octets, address, level + 1,
                                  node.index, GroupEnd(octets, level + 1, i))
<1>1. \A h : CheckBody(h, octets, size, address, previous, <<level, i>>)
               = IF node.isLast /\ node.index \in previous THEN {Numbered(node.index, size)}
                 ELSE IF level = V6Octets - 1 THEN {Outside}
                 ELSE UNION {h[<<level + 1, c>>] : c \in below}
  BY DEF CheckBody
<1>2. \A c \in below : c \in Int
  BY DEF MatchingNodes
<1> HIDE DEF node, below
<1>3. CASE level = V6Octets - 1
  BY <1>1, <1>3
<1>4. CASE level # V6Octets - 1
  <2>1. \A c \in below : f[<<level + 1, c>>] = g[<<level + 1, c>>]
    BY <1>2, <1>4
  <2>2. UNION {f[<<level + 1, c>>] : c \in below} = UNION {g[<<level + 1, c>>] : c \in below}
    BY <2>1
  <2> QED
    BY <1>1, <2>2
<1> QED
  BY <1>3, <1>4

\* So there is such a function.
LEMMA CheckExists ==
  ASSUME NEW octets, NEW size, NEW address, NEW previous, NEW level \in Levels, NEW i \in Int
  PROVE  CheckOf(octets, size, address, previous)[<<level, i>>]
           = CheckBody(CheckOf(octets, size, address, previous), octets, size, address, previous, <<level, i>>)
<1> DEFINE Body(check, at) == CheckBody(check, octets, size, address, previous, at)
           From(j) == {k \in Levels : k >= V6Octets - j}
           IsCheck(f, j) == f = [at \in From(j) \X Int |-> Body(f, at)]
           S == {j \in Nat : j <= V6Octets /\ ~\E f : IsCheck(f, j)}
<1>1. V6Octets \in Nat /\ \A k \in Levels : k \in Nat /\ k < V6Octets
  BY WidthAssumption DEF Levels
<1>2. ASSUME NEW j \in Nat, j < V6Octets, NEW f, IsCheck(f, j)
      PROVE  \E g : IsCheck(g, j + 1)
  <2> DEFINE top == V6Octets - (j + 1)
             g == [at \in From(j + 1) \X Int |-> IF at[1] = top THEN Body(f, at) ELSE f[at]]
  <2>1. /\ top \in Levels
        /\ \A k \in From(j + 1) : k \in Levels /\ (k = top \/ k \in From(j))
        /\ \A k \in From(j) : k \in From(j + 1) /\ k # top
        /\ \A k \in From(j + 1) : k # V6Octets - 1 => k + 1 \in From(j)
    <3>1. top \in Levels
      BY <1>1, <1>2 DEF Levels
    <3>2. \A k \in From(j + 1) : k \in Levels /\ (k = top \/ k \in From(j))
      BY <1>1, <1>2
    <3>3. \A k \in From(j) : k \in From(j + 1) /\ k # top
      BY <1>1, <1>2
    <3>4. \A k \in From(j + 1) : k # V6Octets - 1 => k + 1 \in From(j)
      BY <1>1, <1>2 DEF Levels
    <3> QED
      BY <3>1, <3>2, <3>3, <3>4
  <2>2. \A k \in From(j) : \A c \in Int : f[<<k, c>>] = Body(f, <<k, c>>)
    <3> HIDE DEF From, Body
    <3> QED
      BY <1>2
  <2> HIDE DEF From, top
  <2>3. \A k \in From(j) : \A c \in Int : g[<<k, c>>] = f[<<k, c>>]
    <3> HIDE DEF Body
    <3> QED
      BY <2>1
  <2>4. \A k \in From(j + 1) : \A c \in Int : Body(f, <<k, c>>) = Body(g, <<k, c>>)
    <3> SUFFICES ASSUME NEW k \in From(j + 1), NEW c \in Int
                 PROVE  Body(f, <<k, c>>) = Body(g, <<k, c>>)
      OBVIOUS
    <3>1. k # V6Octets - 1 => \A d \in Int : f[<<k + 1, d>>] = g[<<k + 1, d>>]
      BY <2>1, <2>3
    <3> HIDE DEF g
    <3> QED
      BY <2>1, <3>1, CheckDependsBelow
  <2>5. \A at \in From(j + 1) \X Int :
           (IF at[1] = top THEN Body(f, at) ELSE f[at]) = Body(g, at)
    <3> SUFFICES ASSUME NEW k \in From(j + 1), NEW c \in Int
                 PROVE  (IF k = top THEN Body(f, <<k, c>>) ELSE f[<<k, c>>]) = Body(g, <<k, c>>)
      <4> HIDE DEF Body, g
      <4> QED
        OBVIOUS
    <3> HIDE DEF Body, g
    <3> QED
      BY <2>1, <2>2, <2>4
  <2>6. g = [at \in From(j + 1) \X Int |-> Body(g, at)]
    <3> DEFINE G == g
    <3>1. G = [at \in From(j + 1) \X Int |-> IF at[1] = top THEN Body(f, at) ELSE f[at]]
      OBVIOUS
    <3>2. \A at \in From(j + 1) \X Int :
             (IF at[1] = top THEN Body(f, at) ELSE f[at]) = Body(G, at)
      BY <2>5
    <3> HIDE DEF Body, g, G
    <3>3. G = [at \in From(j + 1) \X Int |-> Body(G, at)]
      BY <3>1, <3>2
    <3> QED
      BY <3>3 DEF G
  <2> QED
    BY <2>6 DEF From
<1>3. \E f : IsCheck(f, 0)
  <2>1. From(0) = {}
    BY <1>1
  <2>2. \A f : f = [at \in {} \X Int |-> {}] => IsCheck(f, 0)
    <3> HIDE DEF From, Body
    <3> QED
      BY <2>1
  <2> HIDE DEF IsCheck
  <2> QED
    BY <2>2
<1>4. S = {}
  <2> SUFFICES ASSUME S # {}
               PROVE  FALSE
    OBVIOUS
  <2>1. S \in SUBSET Nat
    OBVIOUS
  <2>2. PICK j \in S : \A h \in S : j <= h
    <3> HIDE DEF S
    <3> QED
      BY <2>1, LeastExists
  <2>3. j \in Nat /\ j <= V6Octets /\ ~\E f : IsCheck(f, j)
    OBVIOUS
  <2> HIDE DEF IsCheck
  <2>4. j # 0
    BY <1>3, <2>3
  <2>5. j - 1 \in Nat /\ j - 1 < V6Octets /\ (j - 1) + 1 = j /\ ~(j <= j - 1)
    BY <1>1, <2>3, <2>4
  <2>6. j - 1 \notin S
    <3> HIDE DEF S
    <3> QED
      BY <2>2, <2>5
  <2>7. \E f : IsCheck(f, j - 1)
    BY <1>1, <2>3, <2>5, <2>6
  <2>8. \E g : IsCheck(g, (j - 1) + 1)
    BY <1>2, <2>5, <2>7
  <2> QED
    BY <2>3, <2>5, <2>8
<1>5. \E f : f = [at \in Levels \X Int |-> Body(f, at)]
  <2>1. \E f : IsCheck(f, V6Octets)
    <3>1. V6Octets \notin S
      <4> HIDE DEF S
      <4> QED
        BY <1>4
    <3> HIDE DEF IsCheck
    <3> QED
      BY <1>1, <3>1
  <2>2. From(V6Octets) = Levels
    BY <1>1
  <2> HIDE DEF From, Body
  <2> QED
    BY <2>1, <2>2
<1> HIDE DEF Body
<1>6. \E f : f = [at \in Levels \X Int |-> CheckBody(f, octets, size, address, previous, at)]
  BY <1>5 DEF Body
<1> DEFINE found == CheckOf(octets, size, address, previous)
<1>7. found = [at \in Levels \X Int |-> CheckBody(found, octets, size, address, previous, at)]
  BY <1>6 DEF CheckOf
<1> HIDE DEF found
<1>8. <<level, i>> \in Levels \X Int
  OBVIOUS
<1>9. found[<<level, i>>] = CheckBody(found, octets, size, address, previous, <<level, i>>)
  BY <1>7, <1>8
<1> QED
  BY <1>9 DEF found

\* Octet k + 1 of the address is what the prefix asks for.
Passes(address, p, k) == p.octets[k + 1] = Masked(address.octets[k + 1], p.ones[k + 1])

\* The rules whose path goes through a node and whose later octets the address has.
Below(list, own, address, level, i) ==
    {r \in RuleIds(list) :
        /\ HasNode(list, V6Octets, r, level) /\ own[r][level] = i
        /\ \A k \in level + 1 .. LastLevel(list[r + 1]) : Passes(address, list[r + 1], k)}

\* A position of a level is in one group only.
LEMMA GroupsAreDisjoint ==
  ASSUME NEW octets, NEW bound \in Nat, TreeShape(octets, bound), NEW k \in Levels, NEW c \in Int,
         NEW i \in 0 .. Len(octets[k]) - 1, ~NodeAt(octets, k, i).isLast, InGroup(octets, k, i, c),
         NEW j \in 0 .. Len(octets[k]) - 1, ~NodeAt(octets, k, j).isLast, InGroup(octets, k, j, c)
  PROVE  i = j
<1>1. Len(octets[k]) \in Nat
  BY DEF TreeShape
<1>2. NodeAt(octets, k, i).index \in Nat /\ NodeAt(octets, k, j).index \in Nat
  <2>1. NodeAt(octets, k, i) \in NodeType /\ NodeAt(octets, k, j) \in NodeType
    BY NodeIs
  <2> QED
    BY <2>1 DEF NodeType
<1>3. NodeAt(octets, k, i).index <= c /\ NodeAt(octets, k, j).index <= c
  BY DEF InGroup
<1>4. ~(i < j)
  <2> SUFFICES ASSUME i < j
               PROVE  FALSE
    OBVIOUS
  <2>1. j \in i + 1 .. Len(octets[k]) - 1
    BY <1>1
  <2>2. c < NodeAt(octets, k, j).index
    BY <2>1 DEF InGroup
  <2> QED
    BY <1>2, <1>3, <2>2
<1>5. ~(j < i)
  <2> SUFFICES ASSUME j < i
               PROVE  FALSE
    OBVIOUS
  <2>1. i \in j + 1 .. Len(octets[k]) - 1
    BY <1>1
  <2>2. c < NodeAt(octets, k, i).index
    BY <2>1 DEF InGroup
  <2> QED
    BY <1>2, <1>3, <2>2
<1> QED
  BY <1>1, <1>4, <1>5

\* The node of a rule at a level, in a tree whose list has been added.
LEMMA RuleNode ==
  ASSUME NEW octets, NEW list \in Seq(Listable), NEW own, Paths(octets, list, V6Octets, own),
         NEW r \in RuleIds(list), NEW k \in Levels, HasNode(list, V6Octets, r, k)
  PROVE  /\ own[r][k] \in 0 .. Len(octets[k]) - 1
         /\ IsNodeOf(NodeAt(octets, k, own[r][k]), list[r + 1], r, k)
         /\ k <= LastLevel(list[r + 1]) /\ LastLevel(list[r + 1]) \in Levels
         /\ NodeAt(octets, k, own[r][k]).isLast <=> k = LastLevel(list[r + 1])
         /\ k # LastLevel(list[r + 1]) =>
              /\ k + 1 \in Levels
              /\ HasNode(list, V6Octets, r, k + 1)
              /\ InGroup(octets, k, own[r][k], own[r][k + 1])
<1>1. /\ own[r][k] \in 0 .. Len(octets[k]) - 1
      /\ IsNodeOf(NodeAt(octets, k, own[r][k]), list[r + 1], r, k)
  BY DEF Paths, RulesHaveNodes
<1>2. k <= LastLevel(list[r + 1])
  BY DEF HasNode
<1>3. LastLevel(list[r + 1]) \in Levels
  <2>1. list[r + 1] \in Listable
    BY DEF RuleIds
  <2> QED
    BY <2>1, PrefixIs
<1>4. NodeAt(octets, k, own[r][k]).isLast <=> k = LastLevel(list[r + 1])
  BY <1>1 DEF IsNodeOf
<1>5. ASSUME k # LastLevel(list[r + 1])
      PROVE  /\ k + 1 \in Levels
             /\ HasNode(list, V6Octets, r, k + 1)
             /\ InGroup(octets, k, own[r][k], own[r][k + 1])
  <2>1. k + 1 \in Levels /\ k + 1 <= LastLevel(list[r + 1]) /\ k + 1 < V6Octets
    BY <1>2, <1>3, <1>5, WidthAssumption DEF Levels
  <2>2. HasNode(list, V6Octets, r, k + 1)
    BY <2>1 DEF HasNode
  <2> QED
    BY <2>1, <2>2 DEF Paths, ChildrenAreInGroups
<1> QED
  BY <1>1, <1>2, <1>3, <1>4, <1>5

\* One level of the search, when that of the next level is right.
LEMMA SearchStep ==
  ASSUME NEW octets, NEW list \in Seq(Listable), TreeShape(octets, Len(list)),
         Sized(octets, Len(list), 0), NEW size, size = Len(list), size < IndexModulus,
         NEW own, Paths(octets, list, V6Octets, own), NEW address, NEW check,
         NEW level \in Levels, NEW i \in 0 .. Len(octets[level]) - 1,
         level + 1 \in Levels =>
            \A c \in 0 .. Len(octets[level + 1]) - 1 :
               check[<<level + 1, c>>] = Below(list, own, address, level + 1, c)
  PROVE  CheckBody(check, octets, size, address, RuleIds(list), <<level, i>>)
           = Below(list, own, address, level, i)
<1> DEFINE node == NodeAt(octets, level, i)
           group == MatchingNodes(octets, address, level + 1,
                                  node.index, GroupEnd(octets, level + 1, i))
           body == CheckBody(check, octets, size, address, RuleIds(list), <<level, i>>)
<1>1. Len(list) \in Nat /\ level \in Nat /\ V6Octets \in Nat
  BY WidthAssumption DEF Levels
<1>7. level + 1 \in Levels => GroupEnd(octets, level + 1, i) = WideGroupEnd(octets, level + 1, i)
  <2> SUFFICES ASSUME level + 1 \in Levels
               PROVE  GroupEnd(octets, level + 1, i) = WideGroupEnd(octets, level + 1, i)
    OBVIOUS
  <2>1. ~(level + 1 < 0)
    BY <1>1
  <2>2. Len(octets[level + 1]) \in Nat /\ Len(octets[level + 1]) < IndexModulus
    BY <1>1, <2>1, WidthAssumption DEF Sized, TreeShape
  <2> QED
    BY <2>2, GroupEndIsWide
<1>2. node \in NodeType /\ Fits(octets, Len(list), level, node)
  BY <1>1, NodeIs
<1>3. body = IF node.isLast /\ node.index \in RuleIds(list) THEN {Numbered(node.index, size)}
             ELSE IF level = V6Octets - 1 THEN {Outside}
             ELSE UNION {check[<<level + 1, c>>] : c \in group}
  BY DEF CheckBody
<1>4. \A c : c \in group <=> /\ c \in node.index .. GroupEnd(octets, level + 1, i) - 1
                             /\ OctetMatches(address, level + 1, NodeAt(octets, level + 1, c))
  BY DEF MatchingNodes
<1> HIDE DEF node, group, body
<1>5. CASE node.isLast
  <2>1. node.index \in RuleIds(list) /\ Numbered(node.index, size) = node.index
    BY <1>1, <1>2, <1>5 DEF Fits, RuleIds, NodeType, Numbered
  <2>2. ASSUME NEW r \in RuleIds(list), HasNode(list, V6Octets, r, level), own[r][level] = i
        PROVE  r = node.index /\ LastLevel(list[r + 1]) = level
    <3>1. level = LastLevel(list[r + 1])
      BY <1>5, <2>2, RuleNode DEF node
    <3>2. IsNodeOf(node, list[r + 1], r, level)
      BY <2>2, RuleNode DEF node
    <3> QED
      BY <3>1, <3>2 DEF IsNodeOf
  <2>3. PICK s \in RuleIds(list) : HasNode(list, V6Octets, s, level) /\ own[s][level] = i
    BY DEF Paths, NodesHaveRules
  <2>4. s = node.index /\ LastLevel(list[s + 1]) = level
    BY <2>2, <2>3
  <2>5. level + 1 .. level = {}
    BY <1>1
  <2>6. s \in Below(list, own, address, level, i)
    BY <2>3, <2>4, <2>5 DEF Below
  <2>7. \A r \in Below(list, own, address, level, i) : r = node.index
    BY <2>2 DEF Below
  <2>8. Below(list, own, address, level, i) = {node.index}
    BY <2>4, <2>6, <2>7
  <2> QED
    BY <1>3, <1>5, <2>1, <2>8 DEF body
<1>6. CASE ~node.isLast
  <2>1. level + 1 \in Levels /\ level # V6Octets - 1
    BY <1>1, <1>2, <1>6 DEF Fits, Levels
  <2>2. body = UNION {check[<<level + 1, c>>] : c \in group}
    BY <1>3, <1>6, <2>1
  <2>3. \A c \in Int : c \in node.index .. GroupEnd(octets, level + 1, i) - 1
           <=> c \in 0 .. Len(octets[level + 1]) - 1 /\ InGroup(octets, level, i, c)
    BY <1>1, <1>6, <1>7, <2>1, GroupIs DEF node, Paths
  <2>4. Len(octets[level + 1]) \in Nat
    BY <2>1 DEF TreeShape
  <2>5. ASSUME NEW c \in group, NEW r \in check[<<level + 1, c>>]
        PROVE  r \in Below(list, own, address, level, i)
    <3>1. c \in node.index .. GroupEnd(octets, level + 1, i) - 1 /\ c \in Int
          /\ OctetMatches(address, level + 1, NodeAt(octets, level + 1, c))
      BY <1>4
    <3>2. c \in 0 .. Len(octets[level + 1]) - 1 /\ InGroup(octets, level, i, c)
      BY <2>3, <3>1
    <3>3. r \in Below(list, own, address, level + 1, c)
      BY <2>1, <2>5, <3>2
    <3>4. /\ r \in RuleIds(list)
          /\ HasNode(list, V6Octets, r, level + 1) /\ own[r][level + 1] = c
          /\ \A k \in (level + 1) + 1 .. LastLevel(list[r + 1]) : Passes(address, list[r + 1], k)
      BY <3>3 DEF Below
    <3>5. LastLevel(list[r + 1]) \in Levels /\ level + 1 <= LastLevel(list[r + 1])
      BY <2>1, <3>4, RuleNode
    <3>6. LastLevel(list[r + 1]) \in Nat /\ level < LastLevel(list[r + 1])
      BY <1>1, <3>5 DEF Levels
    <3>7. HasNode(list, V6Octets, r, level)
      BY <1>1, <3>4, <3>6, WidthAssumption DEF HasNode, Levels
    <3>8. /\ own[r][level] \in 0 .. Len(octets[level]) - 1
          /\ ~NodeAt(octets, level, own[r][level]).isLast
          /\ InGroup(octets, level, own[r][level], c)
      <4>1. level # LastLevel(list[r + 1])
        BY <1>1, <3>6
      <4> QED
        BY <3>4, <3>7, <4>1, RuleNode
    <3>9. own[r][level] = i
      BY <1>1, <1>6, <3>1, <3>2, <3>8, GroupsAreDisjoint DEF node
    <3>10. Passes(address, list[r + 1], level + 1)
      <4>1. IsNodeOf(NodeAt(octets, level + 1, c), list[r + 1], r, level + 1)
        BY <2>1, <3>4, RuleNode
      <4> QED
        BY <3>1, <4>1 DEF IsNodeOf, OctetMatches, Passes
    <3>11. \A k \in level + 1 .. LastLevel(list[r + 1]) :
              k = level + 1 \/ k \in (level + 1) + 1 .. LastLevel(list[r + 1])
      BY <1>1, <3>6
    <3> QED
      BY <3>4, <3>7, <3>9, <3>10, <3>11 DEF Below
  <2>6. ASSUME NEW r \in Below(list, own, address, level, i)
        PROVE  \E c \in group : r \in check[<<level + 1, c>>]
    <3>1. /\ r \in RuleIds(list)
          /\ HasNode(list, V6Octets, r, level) /\ own[r][level] = i
          /\ \A k \in level + 1 .. LastLevel(list[r + 1]) : Passes(address, list[r + 1], k)
      BY DEF Below
    <3>2. level # LastLevel(list[r + 1]) /\ level <= LastLevel(list[r + 1])
          /\ LastLevel(list[r + 1]) \in Levels
      BY <1>6, <3>1, RuleNode DEF node
    <3> DEFINE c == own[r][level + 1]
    <3>3. HasNode(list, V6Octets, r, level + 1) /\ InGroup(octets, level, i, c)
      BY <3>1, <3>2, RuleNode
    <3>4. /\ c \in 0 .. Len(octets[level + 1]) - 1
          /\ IsNodeOf(NodeAt(octets, level + 1, c), list[r + 1], r, level + 1)
      BY <2>1, <3>1, <3>3, RuleNode
    <3> HIDE DEF c
    <3>5. c \in Int
      BY <2>4, <3>4
    <3>6. LastLevel(list[r + 1]) \in Nat /\ level + 1 \in level + 1 .. LastLevel(list[r + 1])
      BY <1>1, <3>2, WidthAssumption DEF Levels
    <3>7. OctetMatches(address, level + 1, NodeAt(octets, level + 1, c))
      BY <3>1, <3>4, <3>6 DEF IsNodeOf, OctetMatches, Passes
    <3>8. c \in group
      BY <1>4, <2>3, <3>3, <3>4, <3>5, <3>7
    <3>9. \A k \in (level + 1) + 1 .. LastLevel(list[r + 1]) :
             k \in level + 1 .. LastLevel(list[r + 1])
      BY <1>1, <3>6
    <3>10. r \in Below(list, own, address, level + 1, c)
      BY <3>1, <3>3, <3>9 DEF Below, c
    <3> QED
      BY <2>1, <3>4, <3>8, <3>10
  <2> QED
    BY <2>2, <2>5, <2>6 DEF body
<1> QED
  BY <1>5, <1>6

\* What fails at a level of the tree only when it fails at the next one too never
\* fails: there is a last level.
LEMMA LevelInduction ==
  ASSUME NEW Bad \in SUBSET Levels, \A k \in Bad : k + 1 \in Bad
  PROVE  Bad = {}
<1> SUFFICES ASSUME Bad # {}
             PROVE  FALSE
  OBVIOUS
<1> DEFINE S == {V6Octets - 1 - k : k \in Bad}
<1>1. V6Octets \in Nat /\ \A k \in Levels : k \in Nat /\ k < V6Octets
  BY WidthAssumption DEF Levels
<1>2. S \in SUBSET Nat
  BY <1>1
<1>3. S # {}
  OBVIOUS
<1>4. PICK j \in S : \A h \in S : j <= h
  <2> HIDE DEF S
  <2> QED
    BY <1>2, <1>3, LeastExists
<1>5. PICK k \in Bad : j = V6Octets - 1 - k
  OBVIOUS
<1>6. k + 1 \in Bad /\ V6Octets - 1 - (k + 1) \in S
  OBVIOUS
<1>7. V6Octets - 1 - (k + 1) = j - 1 /\ j \in Int /\ ~(j <= j - 1)
  BY <1>1, <1>5
<1> HIDE DEF S
<1> QED
  BY <1>4, <1>6, <1>7

\* The search of a level gives the rules that go on through each of its nodes.
LEMMA SearchOfLevels ==
  ASSUME NEW octets, NEW list \in Seq(Listable), TreeShape(octets, Len(list)),
         Sized(octets, Len(list), 0), NEW size, size = Len(list), size < IndexModulus,
         NEW own, Paths(octets, list, V6Octets, own), NEW address,
         NEW level \in Levels, NEW i \in 0 .. Len(octets[level]) - 1
  PROVE  CheckOf(octets, size, address, RuleIds(list))[<<level, i>>]
           = Below(list, own, address, level, i)
<1> DEFINE check == CheckOf(octets, size, address, RuleIds(list))
           IsRight(k) == \A c \in 0 .. Len(octets[k]) - 1 :
                            check[<<k, c>>] = Below(list, own, address, k, c)
           Bad == {k \in Levels : ~IsRight(k)}
<1>2. \A k \in Levels : \A c \in Int :
         check[<<k, c>>] = CheckBody(check, octets, size, address, RuleIds(list), <<k, c>>)
  <2> DEFINE previous == RuleIds(list)
  <2> HIDE DEF previous
  <2>1. ASSUME NEW k \in Levels, NEW c \in Int
        PROVE  CheckOf(octets, size, address, previous)[<<k, c>>]
                 = CheckBody(CheckOf(octets, size, address, previous),
                             octets, size, address, previous, <<k, c>>)
    BY CheckExists
  <2> QED
    BY <2>1 DEF previous
<1> HIDE DEF check
<1>3. ASSUME NEW k \in Levels, k + 1 \in Levels => IsRight(k + 1)
      PROVE  IsRight(k)
  <2> SUFFICES ASSUME NEW c \in 0 .. Len(octets[k]) - 1
               PROVE  check[<<k, c>>] = Below(list, own, address, k, c)
    OBVIOUS
  <2>1. c \in Int
    <3>1. Len(octets[k]) \in Nat
      BY DEF TreeShape
    <3> QED
      BY <3>1
  <2>2. check[<<k, c>>] = CheckBody(check, octets, size, address, RuleIds(list), <<k, c>>)
    BY <1>2, <2>1
  <2>3. CheckBody(check, octets, size, address, RuleIds(list), <<k, c>>)
          = Below(list, own, address, k, c)
    BY <1>3, SearchStep
  <2> QED
    BY <2>2, <2>3
<1> HIDE DEF IsRight
<1>4. Bad = {}
  <2>1. Bad \in SUBSET Levels
    OBVIOUS
  <2>2. ASSUME NEW k \in Bad
        PROVE  k + 1 \in Bad
    BY <1>3
  <2> HIDE DEF Bad
  <2> QED
    BY <2>1, <2>2, LevelInduction
<1>5. IsRight(level)
  BY <1>4
<1> QED
  BY <1>5 DEF IsRight, check

\* The search gives no rule that had been ruled out before.
LEMMA SearchStaysWithin ==
  ASSUME NEW m, NEW address, NEW previous
  PROVE  MatchingRules(m, address, previous) \subseteq previous \cup {Outside}
<1> DEFINE octets == m.octets
           size == m.lastInsertIndex
           check == CheckOf(octets, size, address, previous)
           IsWithin(k) == \A c \in Int : check[<<k, c>>] \subseteq previous \cup {Outside}
           Bad == {k \in Levels : ~IsWithin(k)}
<1> HIDE DEF octets, size
<1>1. \A k \in Levels : \A c \in Int :
         check[<<k, c>>] = CheckBody(check, octets, size, address, previous, <<k, c>>)
  BY CheckExists, ZenonT(40)
<1> HIDE DEF check
<1>2. ASSUME NEW k \in Levels, k + 1 \in Levels => IsWithin(k + 1)
      PROVE  IsWithin(k)
  <2> SUFFICES ASSUME NEW c \in Int
               PROVE  check[<<k, c>>] \subseteq previous \cup {Outside}
    OBVIOUS
  <2> DEFINE node == NodeAt(octets, k, c)
             below == MatchingNodes(octets, address, k + 1,
                                    node.index, GroupEnd(octets, k + 1, c))
  <2>1. check[<<k, c>>] = IF node.isLast /\ node.index \in previous THEN {Numbered(node.index, size)}
                          ELSE IF k = V6Octets - 1 THEN {Outside}
                          ELSE UNION {check[<<k + 1, d>>] : d \in below}
    <3>1. check[<<k, c>>] = CheckBody(check, octets, size, address, previous, <<k, c>>)
      BY <1>1
    <3> QED
      BY <3>1 DEF CheckBody
  <2>2. \A d \in below : d \in Int
    BY DEF MatchingNodes
  <2>3. k # V6Octets - 1 => k + 1 \in Levels
    BY WidthAssumption DEF Levels
  <2> HIDE DEF node, below
  <2>6. node.index \in previous => Numbered(node.index, size) \in previous \cup {Outside}
    BY DEF Numbered
  <2>4. CASE k = V6Octets - 1
    BY <2>1, <2>4, <2>6
  <2>5. CASE k # V6Octets - 1
    <3>1. \A d \in below : check[<<k + 1, d>>] \subseteq previous \cup {Outside}
      BY <1>2, <2>2, <2>3, <2>5
    <3>2. UNION {check[<<k + 1, d>>] : d \in below} \subseteq previous \cup {Outside}
      BY <3>1
    <3> QED
      BY <2>1, <2>5, <2>6, <3>2
  <2> QED
    BY <2>4, <2>5
<1> HIDE DEF IsWithin
<1>3. Bad = {}
  <2>1. Bad \in SUBSET Levels
    OBVIOUS
  <2>2. ASSUME NEW k \in Bad
        PROVE  k + 1 \in Bad
    BY <1>2
  <2> HIDE DEF Bad
  <2> QED
    BY <2>1, <2>2, LevelInduction
<1>4. 0 \in Levels
  BY WidthAssumption DEF Levels
<1>5. IsWithin(0)
  BY <1>3, <1>4
<1>6. \A i \in MatchingNodes(octets, address, 0, 0, GroupEnd(octets, 0, NoIndex)) : i \in Int
  BY DEF MatchingNodes
<1>7. MatchingRules(m, address, previous)
        = UNION {check[<<0, i>>] :
                   i \in MatchingNodes(octets, address, 0, 0, GroupEnd(octets, 0, NoIndex))}
  BY MatchingRulesIs DEF check, octets, size
<1> QED
  BY <1>5, <1>6, <1>7 DEF IsWithin

\* The search finds the rules all of whose octets the address has.
LEMMA SearchIs ==
  ASSUME NEW m, NEW list \in Seq(Listable), TreeShape(m.octets, Len(list)),
         Sized(m.octets, Len(list), 0), m.lastInsertIndex = Len(list), Len(list) < IndexModulus,
         NEW own, Paths(m.octets, list, V6Octets, own), NEW address
  PROVE  MatchingRules(m, address, RuleIds(list))
           = {r \in RuleIds(list) :
                \A k \in 0 .. LastLevel(list[r + 1]) : Passes(address, list[r + 1], k)}
<1> DEFINE octets == m.octets
           size == m.lastInsertIndex
           check == CheckOf(octets, size, address, RuleIds(list))
           first == MatchingNodes(octets, address, 0, 0, GroupEnd(octets, 0, NoIndex))
           found == MatchingRules(m, address, RuleIds(list))
           wanted == {r \in RuleIds(list) :
                        \A k \in 0 .. LastLevel(list[r + 1]) : Passes(address, list[r + 1], k)}
<1>1. 0 \in Levels /\ 0 < V6Octets
  BY WidthAssumption DEF Levels
<1>2. found = UNION {check[<<0, i>>] : i \in first}
  BY MatchingRulesIs
<1>10. GroupEnd(octets, 0, NoIndex) = Len(octets[0])
  <2>1. ~(0 < 0) /\ Len(list) \in Nat
    OBVIOUS
  <2>2. Len(octets[0]) \in Nat /\ Len(octets[0]) < IndexModulus
    BY <1>1, <2>1, WidthAssumption DEF Sized, TreeShape
  <2> QED
    BY <2>2, GroupEndIsWide DEF WideGroupEnd
<1>3. \A i : i \in first <=> i \in 0 .. Len(octets[0]) - 1
                             /\ OctetMatches(address, 0, NodeAt(octets, 0, i))
  BY <1>10 DEF MatchingNodes
<1>4. \A i \in 0 .. Len(octets[0]) - 1 : check[<<0, i>>] = Below(list, own, address, 0, i)
  BY <1>1, SearchOfLevels
<1>5. ASSUME NEW r \in RuleIds(list)
      PROVE  /\ LastLevel(list[r + 1]) \in Nat
             /\ HasNode(list, V6Octets, r, 0)
             /\ own[r][0] \in 0 .. Len(octets[0]) - 1
             /\ IsNodeOf(NodeAt(octets, 0, own[r][0]), list[r + 1], r, 0)
  <2>1. list[r + 1] \in Listable
    BY DEF RuleIds
  <2>2. LastLevel(list[r + 1]) \in Levels
    BY <2>1, PrefixIs
  <2>3. LastLevel(list[r + 1]) \in Nat /\ 0 <= LastLevel(list[r + 1])
    BY <2>2, WidthAssumption DEF Levels
  <2>4. HasNode(list, V6Octets, r, 0)
    BY <1>1, <2>3 DEF HasNode
  <2> QED
    BY <1>1, <2>3, <2>4, RuleNode
<1>6. \A r \in RuleIds(list) :
         OctetMatches(address, 0, NodeAt(octets, 0, own[r][0])) <=> Passes(address, list[r + 1], 0)
  BY <1>5 DEF IsNodeOf, OctetMatches, Passes
<1> HIDE DEF octets, size, check, first, found, wanted
<1>7. ASSUME NEW i \in first, NEW r \in check[<<0, i>>]
      PROVE  r \in wanted
  <2>1. i \in 0 .. Len(octets[0]) - 1 /\ OctetMatches(address, 0, NodeAt(octets, 0, i))
    BY <1>3
  <2>2. r \in Below(list, own, address, 0, i)
    BY <1>4, <1>7, <2>1
  <2>3. /\ r \in RuleIds(list) /\ own[r][0] = i
        /\ \A k \in 0 + 1 .. LastLevel(list[r + 1]) : Passes(address, list[r + 1], k)
    BY <2>2 DEF Below
  <2>4. Passes(address, list[r + 1], 0)
    BY <1>6, <2>1, <2>3
  <2>5. \A k \in 0 .. LastLevel(list[r + 1]) : k = 0 \/ k \in 0 + 1 .. LastLevel(list[r + 1])
    BY <1>5, <2>3
  <2> QED
    BY <2>3, <2>4, <2>5 DEF wanted
<1>8. ASSUME NEW r \in wanted
      PROVE  \E i \in first : r \in check[<<0, i>>]
  <2>1. /\ r \in RuleIds(list)
        /\ \A k \in 0 .. LastLevel(list[r + 1]) : Passes(address, list[r + 1], k)
    BY <1>8 DEF wanted
  <2>2. Passes(address, list[r + 1], 0)
    <3>1. 0 \in 0 .. LastLevel(list[r + 1])
      BY <1>5, <2>1
    <3> QED
      BY <2>1, <3>1
  <2>3. own[r][0] \in 0 .. Len(octets[0]) - 1 /\ own[r][0] \in first
    BY <1>3, <1>5, <1>6, <2>1, <2>2
  <2>4. \A k \in 0 + 1 .. LastLevel(list[r + 1]) : k \in 0 .. LastLevel(list[r + 1])
    OBVIOUS
  <2>5. r \in Below(list, own, address, 0, own[r][0])
    BY <1>5, <2>1, <2>4 DEF Below
  <2> QED
    BY <1>4, <2>3, <2>5
<1>9. found = wanted
  BY <1>2, <1>7, <1>8
<1> QED
  BY <1>9 DEF found, wanted

\* An address of the family of a prefix is in it when it has its octets up to the
\* one at which the prefix ends: no bit of a later one counts.
LEMMA PrefixHolds ==
  ASSUME NEW p \in Listable, NEW address, address.octets \in [1 .. V6Octets -> Octet],
         p.family \in {"any", address.family}
  PROVE  IsIn(address, p) <=> \A k \in 0 .. LastLevel(p) : Passes(address, p, k)
<1> DEFINE n == Length(p.family)
           last == LastLevel(p)
<1>1. OctetBits \in Nat \ {0} /\ V6Octets \in Nat \ {0} /\ 2 ^ OctetBits \in Nat \ {0}
  BY WidthAssumption, PowerAssumption
<1>2. \A octet \in Octet : Masked(octet, 0) = 0
  <2>1. OctetBits - 0 = OctetBits
    BY <1>1
  <2>2. \A m \in Nat \ {0} : \A x \in 0 .. m - 1 : x - (x % m) = 0
    OBVIOUS
  <2> QED
    BY <1>1, <2>1, <2>2 DEF Octet, Masked
<1>3. /\ n \in Nat \ {0} /\ n <= V6Octets
      /\ p.octets \in [1 .. n -> Octet]
      /\ p.ones \in [1 .. n -> 0 .. OctetBits]
      /\ \A k \in 1 .. n :
            /\ p.octets[k] = Masked(p.octets[k], p.ones[k])
            /\ p.ones[k] > 0 => \A j \in 1 .. k - 1 : p.ones[j] = OctetBits
  <2>1. CASE p \in PrefixSet
    <3>1. ShapedPrefix(p)
      BY <2>1, ListAssumption
    <3>2. n \in Nat \ {0} /\ n <= V6Octets
      BY WidthAssumption DEF Length
    <3>3. DOMAIN p.ones = 1 .. n
      BY <3>1 DEF ShapedPrefix
    <3> QED
      BY <3>1, <3>2, <3>3 DEF ShapedPrefix
  <2>2. CASE p = EmptyPrefix
    <3>1. n = V6Octets /\ p.octets = [k \in 1 .. V6Octets |-> 0]
          /\ p.ones = [k \in 1 .. V6Octets |-> 0]
      BY <2>2 DEF EmptyPrefix, Length
    <3>2. 0 \in Octet /\ 0 \in 0 .. OctetBits
      BY <1>1 DEF Octet
    <3> HIDE DEF n
    <3> QED
      BY <1>1, <1>2, <3>1, <3>2
  <2> QED
    BY <2>1, <2>2 DEF Listable
<1> HIDE DEF n
<1>4. /\ last \in 0 .. n - 1
      /\ p.ones[last + 1] < OctetBits \/ last = n - 1
  BY <1>3, LastLevelIs
<1> HIDE DEF last
<1>5. DOMAIN p.ones = 1 .. n
  BY <1>3
<1>6. ASSUME NEW k \in 1 .. n, k > last + 1
      PROVE  Masked(address.octets[k], p.ones[k]) = p.octets[k]
  <2>1. p.ones[last + 1] # OctetBits
    <3>1. last # n - 1 /\ last + 1 \in 1 .. n
      BY <1>3, <1>4, <1>6
    <3>2. p.ones[last + 1] < OctetBits
      BY <1>4, <3>1
    <3>3. p.ones[last + 1] \in 0 .. OctetBits
      BY <1>3, <3>1
    <3> QED
      BY <1>1, <3>2, <3>3
  <2>2. p.ones[k] = 0
    <3>1. last + 1 \in 1 .. k - 1
      BY <1>3, <1>4, <1>6
    <3>2. ~(p.ones[k] > 0)
      BY <1>3, <2>1, <3>1
    <3>3. p.ones[k] \in 0 .. OctetBits
      BY <1>3
    <3> QED
      BY <1>1, <3>2, <3>3
  <2>3. p.octets[k] \in Octet /\ address.octets[k] \in Octet
    <3>1. k \in 1 .. V6Octets
      BY <1>1, <1>3
    <3> QED
      BY <1>3, <3>1
  <2> QED
    BY <1>2, <1>3, <2>2, <2>3
<1>7. IsIn(address, p) <=> \A k \in 1 .. n : Masked(address.octets[k], p.ones[k]) = p.octets[k]
  BY <1>5 DEF IsIn
<1>8. ASSUME IsIn(address, p), NEW k \in 0 .. last
      PROVE  Passes(address, p, k)
  <2>1. k + 1 \in 1 .. n
    BY <1>3, <1>4
  <2> QED
    BY <1>7, <1>8, <2>1 DEF Passes
<1>9. ASSUME \A k \in 0 .. last : Passes(address, p, k), NEW k \in 1 .. n
      PROVE  Masked(address.octets[k], p.ones[k]) = p.octets[k]
  <2>1. CASE k > last + 1
    BY <1>6, <2>1
  <2>2. CASE ~(k > last + 1)
    <3>1. k - 1 \in 0 .. last /\ (k - 1) + 1 = k
      BY <1>3, <1>4, <2>2
    <3> QED
      BY <1>9, <3>1 DEF Passes
  <2> QED
    BY <2>1, <2>2
<1> QED
  BY <1>7, <1>8, <1>9 DEF last

-----------------------------------------------------------------------------
(***************************************************************************)
(* The specification.                                                      *)
(***************************************************************************)
TreeInv ==
    /\ listed \in Seq(Listable)
    /\ matcher.lastInsertIndex = Index(Len(listed))
    /\ NumbersSuffice => TreeOf(matcher, listed)

LEMMA TreeInductive ==
  Spec => []TreeInv
<1>1. Init => TreeInv
  <2>1. Index(0) = 0
    BY IndexKeeps, WidthAssumption
  <2> QED
    BY <2>1, EmptyTree DEF Init, TreeInv, EmptyMatcher
<1>2. TreeInv /\ [Next]_vars => TreeInv'
  <2> SUFFICES ASSUME TreeInv, [Next]_vars
               PROVE  TreeInv'
    OBVIOUS
  <2>1. ASSUME NEW p \in Listable, AddRule(p)
        PROVE  TreeInv'
    <3>1. matcher' = AddPrefix(matcher, p) /\ listed' = Append(listed, p)
      BY <2>1 DEF AddRule
    <3>2. listed \in Seq(Listable) /\ (NumbersSuffice => TreeOf(matcher, listed))
          /\ matcher.lastInsertIndex = Index(Len(listed))
      BY DEF TreeInv
    <3>3. Len(listed) \in Nat /\ Len(Append(listed, p)) = Len(listed) + 1
          /\ Append(listed, p) \in Seq(Listable)
      BY <3>2
    <3>4. ASSUME Len(Append(listed, p)) < IndexModulus
          PROVE  TreeOf(AddPrefix(matcher, p), Append(listed, p))
      <4>1. Len(listed) + 1 < IndexModulus /\ Len(listed) < IndexModulus
        BY <3>3, <3>4, WidthAssumption
      <4> QED
        BY <3>2, <4>1, AddPrefixKeepsTree DEF NumbersSuffice
    <3>5. (NumbersSuffice => TreeOf(matcher, listed))'
      BY <3>1, <3>4 DEF NumbersSuffice
    <3>6. AddPrefix(matcher, p).lastInsertIndex = Index(Len(Append(listed, p)))
      <4>1. AddPrefix(matcher, p).lastInsertIndex = Index(Index(Len(listed)) + 1)
        BY <3>2 DEF AddPrefix
      <4> QED
        BY <3>3, <4>1, IndexOfNext
    <3> QED
      BY <3>1, <3>3, <3>5, <3>6 DEF TreeInv
  <2>2. CASE UNCHANGED vars
    BY <2>2 DEF TreeInv, vars, TreeOf, NumbersSuffice
  <2> QED
    BY <2>1, <2>2 DEF Next, Listable
<1> QED
  BY <1>1, <1>2, PTL DEF Spec

\* The types, for every list: the rules are counted modulo 2^16, and while their
\* numbers suffice an inner node points into the next level, a last one to a rule,
\* and no value has bits beyond its mask.
THEOREM TypeCorrect == Spec => []TypeOK
<1>1. TreeInv => TypeOK
  <2> SUFFICES ASSUME TreeInv
               PROVE  TypeOK
    OBVIOUS
  <2>1. listed \in Seq(Listable) /\ matcher.lastInsertIndex = Index(Len(listed))
        /\ (NumbersSuffice => TreeShape(matcher.octets, Len(listed)))
    BY DEF TreeInv, TreeOf
  <2>2. Len(listed) \in Nat
    BY <2>1
  <2>3. ASSUME NumbersSuffice, NEW k \in Levels, NEW i \in DOMAIN matcher.octets[k]
        PROVE  LET node == matcher.octets[k][i]
               IN /\ node \in [value : Octet, ones : 0 .. OctetBits, isLast : BOOLEAN, index : Nat]
                  /\ node.value = Masked(node.value, node.ones)
                  /\ IF node.isLast
                     THEN node.index \in Rules
                     ELSE k + 1 \in Levels /\ node.index \in 0 .. Len(matcher.octets[k + 1])
    <3> DEFINE node == matcher.octets[k][i]
    <3>7. TreeShape(matcher.octets, Len(listed))
      BY <2>1, <2>3
    <3>1. matcher.octets[k] \in Seq(NodeType) /\ i \in 1 .. Len(matcher.octets[k])
      BY <3>7 DEF TreeShape
    <3>2. node \in NodeType /\ Fits(matcher.octets, Len(listed), k, node)
      BY <3>7, <3>1, ElementOfSeq DEF TreeShape
    <3>3. \A l \in Levels : Len(matcher.octets[l]) \in Nat
      BY <3>7 DEF TreeShape
    <3> HIDE DEF node
    <3>4. node.index \in Nat /\ node.value = Masked(node.value, node.ones)
      BY <3>2 DEF NodeType, Fits
    <3>5. node.isLast => node.index \in Rules
      BY <2>2, <3>2, <3>4 DEF Fits, Rules
    <3>6. ~node.isLast => k + 1 \in Levels /\ node.index \in 0 .. Len(matcher.octets[k + 1])
      BY <3>2, <3>3, <3>4 DEF Fits
    <3> QED
      BY <3>2, <3>4, <3>5, <3>6 DEF node, NodeType
  <2> QED
    BY <2>1, <2>3 DEF TypeOK, Listable
<1> QED
  BY <1>1, TreeInductive, PTL

\* In a list of one family and of fewer than 2^16 rules every rule keeps a last
\* node of its own, at the level at which its prefix ends.
THEOREM EveryRuleHasItsNode == Spec => []OneLastNodePerRule
<1>1. TreeInv => OneLastNodePerRule
  <2> SUFFICES ASSUME TreeInv, NumbersSuffice, OneFamily, NEW r \in Rules
               PROVE  \E i \in DOMAIN matcher.octets[LastLevel(listed[r + 1])] :
                        \A k \in Levels : \A j \in DOMAIN matcher.octets[k] :
                          IsLastOf(matcher.octets[k][j], r)
                            <=> (k = LastLevel(listed[r + 1]) /\ j = i)
    BY DEF OneLastNodePerRule
  <2> DEFINE last == LastLevel(listed[r + 1])
  <2>1. listed \in Seq(Listable) /\ TreeOf(matcher, listed)
    BY DEF TreeInv
  <2>2. IsOfOneFamily(listed)
    BY DEF OneFamily
  <2>3. Owned(matcher.octets, r, last)
    BY <2>1, <2>2 DEF TreeOf, Rules
  <2>4. last \in Levels
    <3>1. listed[r + 1] \in Listable
      BY <2>1 DEF Rules
    <3> QED
      BY <3>1, PrefixIs
  <2>5. \A k \in Levels : DOMAIN matcher.octets[k] = 1 .. Len(matcher.octets[k])
    BY <2>1 DEF TreeOf, TreeShape
  <2> HIDE DEF last
  <2>6. \E i \in DOMAIN matcher.octets[last] :
          \A k \in Levels : \A j \in DOMAIN matcher.octets[k] :
            IsLastOf(matcher.octets[k][j], r) <=> (k = last /\ j = i)
    BY <2>3, <2>4, <2>5, SMTT(30) DEF Owned
  <2> QED
    BY <2>6 DEF last
<1> QED
  BY <1>1, TreeInductive, PTL

\* The search of an address in a grouped list of its family, of fewer than 2^16
\* rules, finds the rules whose prefix holds it and no other.
THEOREM GroupedSearchIsExact == Spec => []GroupedListsAreExact
<1>1. TreeInv => GroupedListsAreExact
  <2> SUFFICES ASSUME TreeInv, NumbersSuffice, OneFamily, Grouped,
                      NEW address \in AddressSet, InFamily(address)
               PROVE  Found(address) = Holding(address)
    BY DEF GroupedListsAreExact
  <2>1. listed \in Seq(Listable) /\ TreeOf(matcher, listed)
    BY DEF TreeInv
  <2>2. IsOfOneFamily(listed) /\ IsGrouped(listed)
    BY DEF OneFamily, Grouped
  <2>3. PICK own : Paths(matcher.octets, listed, V6Octets, own)
    BY <2>1, <2>2 DEF TreeOf
  <2>4. TreeShape(matcher.octets, Len(listed)) /\ Sized(matcher.octets, Len(listed), 0)
        /\ matcher.lastInsertIndex = Len(listed) /\ Len(listed) < IndexModulus
    BY <2>1 DEF TreeOf, NumbersSuffice
  <2>5. Found(address)
          = {r \in RuleIds(listed) :
               \A k \in 0 .. LastLevel(listed[r + 1]) : Passes(address, listed[r + 1], k)}
    BY <2>1, <2>3, <2>4, SearchIs DEF Found, Rules, RuleIds
  <2>6. ASSUME NEW r \in RuleIds(listed)
        PROVE  IsIn(address, listed[r + 1])
                 <=> \A k \in 0 .. LastLevel(listed[r + 1]) : Passes(address, listed[r + 1], k)
    <3>1. r + 1 \in DOMAIN listed
      BY <2>1 DEF RuleIds
    <3>2. listed[r + 1] \in Listable /\ listed[r + 1].family \in {"any", address.family}
      BY <2>1, <3>1 DEF InFamily
    <3>3. address.octets \in [1 .. V6Octets -> Octet]
      BY ListAssumption
    <3> QED
      BY <3>2, <3>3, PrefixHolds
  <2>7. Holding(address) = {r \in RuleIds(listed) : IsIn(address, listed[r + 1])}
    BY DEF Holding, Rules, RuleIds
  <2> QED
    BY <2>5, <2>6, <2>7
<1> QED
  BY <1>1, TreeInductive, PTL
=============================================================================
