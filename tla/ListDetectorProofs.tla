------------------------- MODULE ListDetectorProofs -------------------------
(***************************************************************************)
(* Theorems about listDetector, for every list, every records and every    *)
(* order in which its unordered containers are walked: the types of its    *)
(* variables, and that the counters of the rules add up to what has been   *)
(* sent or held back, for as long as no search leaves an array.            *)
(*                                                                         *)
(* The trees, the hash buffer and the tries are folds: each has a step and *)
(* a formula that holds along it, which FoldTheorems carries to the end.   *)
(***************************************************************************)
EXTENDS ListDetector, SequenceTheorems, FiniteSetTheorems, TLAPS

----------------------------------------------------------------------------
(***************************************************************************)
(* The buffer of the hashes.                                               *)
(***************************************************************************)
\* A buffer with what has been written to it.
IsBuffer(buf) ==
    /\ buf \in [written : Seq(Nat), size : Nat, capacity : Nat]
    /\ buf.size <= buf.capacity

\* What is kept of it between two records.
IsSpace(buf) == buf \in [size : Nat, capacity : Nat] /\ buf.size <= buf.capacity

LEMMA ResizedIsBuffer ==
  ASSUME NEW buf, IsBuffer(buf), NEW size \in Nat
  PROVE  IsBuffer(Resized(buf, size))
<1> DEFINE n == Len(buf.written)
           new == Resized(buf, size)
<1>1. n \in Nat /\ buf.written \in [1 .. n -> Nat]
  BY DEF IsBuffer
<1>2. new.written = [i \in 1 .. n |-> IF i > buf.size /\ i <= size THEN 0 ELSE buf.written[i]]
  BY <1>1 DEF Resized
<1>3. new.written \in [1 .. n -> Nat]
  BY <1>1, <1>2
<1>4. new.written \in Seq(Nat)
  BY <1>1, <1>3, SeqDef
<1>5. /\ new.size = size
      /\ new.capacity = IF size <= buf.capacity THEN buf.capacity
                        ELSE IF size > 2 * buf.size THEN size
                        ELSE 2 * buf.size
  BY DEF Resized
<1>6. new.size \in Nat /\ new.capacity \in Nat /\ new.size <= new.capacity
  BY <1>5 DEF IsBuffer
<1>7. new = [written |-> new.written, size |-> new.size, capacity |-> new.capacity]
  BY DEF Resized
<1> HIDE DEF new
<1>8. IsBuffer(new)
  BY <1>4, <1>6, <1>7 DEF IsBuffer
<1> QED
  BY <1>8 DEF new

LEMMA WriteFieldIsBuffer ==
  ASSUME NEW buf, IsBuffer(buf), NEW bytes \in Seq(Nat)
  PROVE  IsBuffer(WriteField(buf, bytes))
<1> DEFINE room == IF Len(buf.written) + Len(bytes) >= buf.capacity
                   THEN Resized(buf, Len(buf.written) + 4 * Len(bytes))
                   ELSE buf
<1>1. Len(buf.written) + 4 * Len(bytes) \in Nat
  <2> DEFINE m == Len(buf.written)
             n == Len(bytes)
  <2>1. m \in Nat /\ n \in Nat
    BY DEF IsBuffer
  <2> HIDE DEF m, n
  <2>2. m + 4 * n \in Nat
    BY <2>1
  <2> QED
    BY <2>2 DEF m, n
<1>2. IsBuffer(room)
  BY <1>1, ResizedIsBuffer
<1>3. WriteField(buf, bytes) = [room EXCEPT !.written = @ \o bytes]
  BY DEF WriteField
<1> HIDE DEF room
<1>4. room.written \o bytes \in Seq(Nat)
  BY <1>2 DEF IsBuffer
<1> QED
  BY <1>2, <1>3, <1>4 DEF IsBuffer

----------------------------------------------------------------------------
(***************************************************************************)
(* The sizes of a rule and of the buffer.                                  *)
(***************************************************************************)
\* The literals of a rule are of its static fields.
IsRule(rule) ==
    \A f \in FieldSet :
        rule[f].kind = "literal" => TypeOf[f] # "ip" /\ rule[f].bytes \in Seq(Nat)

AddRoom(rule, room, f) ==
    IF rule[f].kind # "literal" THEN room
    ELSE IF TypeOf[f] = "number" THEN room + SizeOfNumber
    ELSE room + Len(rule[f].bytes)

IsSize(rule, n, room) == room \in Nat

Rooms == INSTANCE FoldTheorems WITH Op <- AddRoom, Along <- IsSize

\* A fold over the fields of the header visits fields only.
LEMMA FieldsAre ==
  /\ Len(Fields) \in Nat /\ DOMAIN Fields = 1 .. Len(Fields)
  /\ \A i \in 1 .. Len(Fields) : Fields[i] \in FieldSet
BY FieldAssumption

LEMMA RoomForIsSize ==
  ASSUME NEW rule, IsRule(rule)
  PROVE  RoomFor(rule) \in Nat
<1>1. RoomFor(rule) = Rooms!Folded(rule, 0, Fields)
  BY DEF RoomFor, FoldLeft, MapThenFoldSet, Max, Rooms!IsFold, Rooms!Folded, Rooms!LastOf, AddRoom
<1>2. IsSize(rule, 0, 0)
  BY DEF IsSize
<1>3. ASSUME NEW i \in 1 .. Len(Fields), NEW room, IsSize(rule, i - 1, room)
      PROVE  IsSize(rule, i, AddRoom(rule, room, Fields[i]))
  <2>1. Fields[i] \in FieldSet
    BY FieldsAre
  <2>2. rule[Fields[i]].kind = "literal" => Len(rule[Fields[i]].bytes) \in Nat
    BY <2>1 DEF IsRule
  <2> QED
    BY <1>3, <2>2, FieldAssumption DEF IsSize, AddRoom
<1>4. IsSize(rule, Len(Fields), Rooms!Folded(rule, 0, Fields))
  BY <1>2, <1>3, FieldsAre, Rooms!FoldInvariant
<1> QED
  BY <1>1, <1>4 DEF IsSize

\* The buffer when the first rules have been seen.
Grow(context, buf, rule) == Resized(buf, RoomFor(rule))
HasGrown(context, n, buf) == IsBuffer(buf)

Growing == INSTANCE FoldTheorems WITH Op <- Grow, Along <- HasGrown

LEMMA BufferAfterIsBuffer ==
  ASSUME NEW list, NEW n \in Nat, DOMAIN list = 1 .. n, \A i \in 1 .. n : IsRule(list[i])
  PROVE  IsSpace(BufferAfter(list))
<1> DEFINE none == [written |-> <<>>, size |-> 0, capacity |-> 0]
           buf == Growing!Folded(0, none, list)
<1>1. BufferAfter(list) = [size |-> buf.size, capacity |-> buf.capacity]
  BY DEF BufferAfter, FoldLeft, MapThenFoldSet, Max, Growing!IsFold, Growing!Folded,
         Growing!LastOf, Grow
<1>2. HasGrown(0, 0, none)
  BY DEF HasGrown, IsBuffer
<1>3. ASSUME NEW i \in 1 .. n, NEW b, HasGrown(0, i - 1, b)
      PROVE  HasGrown(0, i, Grow(0, b, list[i]))
  BY <1>3, RoomForIsSize, ResizedIsBuffer DEF HasGrown, Grow
<1> HIDE DEF none
<1>4. HasGrown(0, n, Growing!Folded(0, none, list))
  BY <1>2, <1>3, Growing!FoldInvariant
<1>5. IsBuffer(buf)
  BY <1>4 DEF HasGrown
<1> HIDE DEF buf
<1> QED
  BY <1>1, <1>5 DEF IsBuffer, IsSpace

----------------------------------------------------------------------------
(***************************************************************************)
(* The search of a record.                                                 *)
(***************************************************************************)
\* The static fields of a record are byte sequences.
IsRecord(record) == \A f \in FieldSet : TypeOf[f] # "ip" => record[f] \in Seq(Nat)
IsMask(mask) == \A f \in mask : f \in FieldSet /\ TypeOf[f] # "ip"

WriteMasked(context, buf, f) ==
    IF f \in context.mask THEN WriteField(buf, context.record[f]) ELSE buf
HasWritten(context, n, buf) == IsBuffer(buf)

Writing == INSTANCE FoldTheorems WITH Op <- WriteMasked, Along <- HasWritten

LEMMA WriteRecordIsBuffer ==
  ASSUME NEW buf, IsSpace(buf), NEW record, IsRecord(record), NEW mask, IsMask(mask)
  PROVE  IsBuffer(WriteRecord(buf, record, mask))
<1> DEFINE context == [record |-> record, mask |-> mask]
           empty == [written |-> <<>>, size |-> buf.size, capacity |-> buf.capacity]
<1>1. WriteRecord(buf, record, mask) = Writing!Folded(context, empty, Fields)
  BY DEF WriteRecord, FoldLeft, MapThenFoldSet, Max, Writing!IsFold, Writing!Folded,
         Writing!LastOf, WriteMasked
<1>2. HasWritten(context, 0, empty)
  BY DEF HasWritten, IsBuffer, IsSpace
<1>3. context.record = record /\ context.mask = mask
  OBVIOUS
<1> HIDE DEF context, empty
<1>4. ASSUME NEW i \in 1 .. Len(Fields), NEW b, HasWritten(context, i - 1, b)
      PROVE  HasWritten(context, i, WriteMasked(context, b, Fields[i]))
  <2>1. CASE Fields[i] \in mask
    <3>1. record[Fields[i]] \in Seq(Nat)
      BY <2>1 DEF IsMask, IsRecord
    <3>2. IsBuffer(WriteField(b, record[Fields[i]]))
      BY <1>4, <3>1, WriteFieldIsBuffer DEF HasWritten
    <3> QED
      BY <1>3, <2>1, <3>2 DEF HasWritten, WriteMasked
  <2>2. CASE Fields[i] \notin mask
    BY <1>3, <1>4, <2>2 DEF HasWritten, WriteMasked
  <2> QED
    BY <2>1, <2>2
<1>5. HasWritten(context, Len(Fields), Writing!Folded(context, empty, Fields))
  BY <1>2, <1>4, FieldsAre, Writing!FoldInvariant
<1> QED
  BY <1>1, <1>5 DEF HasWritten

\* The rules that a hash leads to.
CandidatesOf(context, hash) ==
    {c \in context.ipRules :
        /\ DynamicFieldsMatch(context.rules[c], context.record)
        /\ \E r \in DOMAIN context.rules :
              Indexed(r) = c /\ RuleHash(context.rules[r]) = hash}

TryMask(context, found, mask) ==
    LET buf == WriteRecord(found.buffer, context.record, mask)
    IN IF found.candidates # {}
       THEN found
       ELSE [candidates |-> CandidatesOf(context, buf.written),
             buffer     |-> [size |-> buf.size, capacity |-> buf.capacity]]

HasTried(context, n, found) ==
    found.candidates \subseteq context.ipRules /\ IsSpace(found.buffer)

Trying == INSTANCE FoldTheorems WITH Op <- TryMask, Along <- HasTried

\* A search finds some of the rules whose addresses match and leaves a buffer.
LEMMA SearchFindsRules ==
  ASSUME NEW record, IsRecord(record), NEW ipRules, IsSpace(buffer),
         NEW n \in Nat, DOMAIN maskOrder = 1 .. n, \A i \in 1 .. n : IsMask(maskOrder[i])
  PROVE  /\ Search(record, ipRules).candidates \subseteq ipRules
         /\ IsSpace(Search(record, ipRules).buffer)
<1> DEFINE context == [rules |-> rules, record |-> record, ipRules |-> ipRules]
           nothing == [candidates |-> {}, buffer |-> buffer]
<1>1. Search(record, ipRules) = Trying!Folded(context, nothing, maskOrder)
  BY DEF Search, FoldLeft, MapThenFoldSet, Max, Trying!IsFold, Trying!Folded,
         Trying!LastOf, TryMask, CandidatesOf
<1>2. HasTried(context, 0, nothing)
  BY DEF HasTried
<1>3. context.record = record /\ context.ipRules = ipRules
  OBVIOUS
<1> HIDE DEF context, nothing
<1>4. ASSUME NEW i \in 1 .. n, NEW found, HasTried(context, i - 1, found)
      PROVE  HasTried(context, i, TryMask(context, found, maskOrder[i]))
  <2> DEFINE buf == WriteRecord(found.buffer, record, maskOrder[i])
  <2>1. IsBuffer(buf)
    BY <1>4, WriteRecordIsBuffer DEF HasTried
  <2>2. CandidatesOf(context, buf.written) \subseteq ipRules
    BY <1>3 DEF CandidatesOf
  <2>3. TryMask(context, found, maskOrder[i])
          = IF found.candidates # {}
            THEN found
            ELSE [candidates |-> CandidatesOf(context, buf.written),
                  buffer     |-> [size |-> buf.size, capacity |-> buf.capacity]]
    BY <1>3 DEF TryMask
  <2> HIDE DEF buf
  <2> QED
    BY <1>3, <1>4, <2>1, <2>2, <2>3 DEF HasTried, IsBuffer, IsSpace
<1>5. HasTried(context, n, Trying!Folded(context, nothing, maskOrder))
  BY <1>2, <1>4, Trying!FoldInvariant
<1> QED
  BY <1>1, <1>3, <1>5 DEF HasTried

\* Of the theorems about the search tree those about its operators, which hold of
\* the tree of any field.
Tree == INSTANCE IpRuleTreeProofs WITH
    PrefixSet <- {}, AddressSet <- {}, MaxRules <- 0, matcher <- EmptyMatcher, listed <- <<>>

LEMMA IndexOfNext ==
  ASSUME NEW n \in Nat
  PROVE  Index(Index(n) + 1) = Index(n + 1)
<1>1. Tree!WidthAssumption /\ Tree!PowerAssumption /\ Tree!ListAssumption
  BY WidthAssumption, PowerAssumption
     DEF Tree!WidthAssumption, Tree!PowerAssumption, Tree!ListAssumption
<1>2. Tree!Index(Tree!Index(n) + 1) = Tree!Index(n + 1)
  BY <1>1, Tree!IndexOfNext
<1> QED
  BY <1>2 DEF Index, Tree!Index

LEMMA TreeSearchStaysWithin ==
  ASSUME NEW matcher, NEW address, NEW previous
  PROVE  MatchingRules(matcher, address, previous) \subseteq previous \cup {Outside}
<1>1. Tree!WidthAssumption /\ Tree!PowerAssumption /\ Tree!ListAssumption
  BY WidthAssumption, PowerAssumption
     DEF Tree!WidthAssumption, Tree!PowerAssumption, Tree!ListAssumption
<1>2. MatchingRules(matcher, address, previous) = Tree!MatchingRules(matcher, address, previous)
  BY DEF MatchingRules, MatchingNodes, OctetMatches, NodeAt, GroupEnd, Masked, Levels, Outside,
         Index, NoIndex, Tree!MatchingRules, Tree!MatchingNodes, Tree!OctetMatches, Tree!NodeAt,
         Tree!GroupEnd, Tree!Masked, Tree!Levels, Tree!Outside, Tree!Index, Tree!NoIndex
<1>3. Tree!MatchingRules(matcher, address, previous) \subseteq previous \cup {Tree!Outside}
  BY <1>1, Tree!SearchStaysWithin
<1> QED
  BY <1>2, <1>3 DEF Outside, Tree!Outside

\* One field narrows the rules down.
NarrowField(context, previous, f) ==
    {number + 1 : number \in
        MatchingRules(context.matchers[f], context.record[f], {r - 1 : r \in previous})}
    \cup (previous \cap {NoRule})

IsNarrowed(context, n, previous) == previous \subseteq context.rules \cup {NoRule}

Narrowing == INSTANCE FoldTheorems WITH Op <- NarrowField, Along <- IsNarrowed

LEMMA MatchingIpRulesAreRules ==
  ASSUME NEW record, DOMAIN rules \subseteq Int, NEW n \in Nat, DOMAIN ipOrder = 1 .. n
  PROVE  MatchingIpRules(record) \subseteq DOMAIN rules \cup {NoRule}
<1> DEFINE context == [matchers |-> ipMatchers, record |-> record, rules |-> DOMAIN rules]
<1>1. MatchingIpRules(record) = Narrowing!Folded(context, DOMAIN rules, ipOrder)
  BY DEF MatchingIpRules, FoldLeft, MapThenFoldSet, Max, Narrowing!IsFold,
         Narrowing!Folded, Narrowing!LastOf, NarrowField
<1>2. context.rules = DOMAIN rules
  OBVIOUS
<1> HIDE DEF context
<1>3. IsNarrowed(context, 0, DOMAIN rules)
  BY <1>2 DEF IsNarrowed
<1>4. ASSUME NEW i \in 1 .. n, NEW previous, IsNarrowed(context, i - 1, previous)
      PROVE  IsNarrowed(context, i, NarrowField(context, previous, ipOrder[i]))
  <2> DEFINE numbers == {r - 1 : r \in previous}
             found == MatchingRules(context.matchers[ipOrder[i]], context.record[ipOrder[i]],
                                    numbers)
  <2>1. found \subseteq numbers \cup {Outside}
    BY TreeSearchStaysWithin
  <2>2. NarrowField(context, previous, ipOrder[i])
          = {number + 1 : number \in found} \cup (previous \cap {NoRule})
    BY DEF NarrowField
  <2>3. previous \subseteq DOMAIN rules \cup {NoRule} /\ previous \subseteq Int
    BY <1>2, <1>4 DEF IsNarrowed, NoRule
  <2>4. \A number \in numbers \cup {Outside} : number + 1 \in previous \cup {NoRule}
    <3>1. ASSUME NEW r \in previous
          PROVE  (r - 1) + 1 = r
      BY <2>3
    <3>2. \A number \in numbers : number + 1 \in previous
      BY <3>1
    <3>3. Outside + 1 = NoRule
      BY DEF NoRule, Outside
    <3> HIDE DEF numbers
    <3> QED
      BY <3>2, <3>3
  <2> HIDE DEF numbers, found
  <2>5. \A number \in found : number + 1 \in DOMAIN rules \cup {NoRule}
    BY <2>1, <2>3, <2>4
  <2>6. NarrowField(context, previous, ipOrder[i]) \subseteq DOMAIN rules \cup {NoRule}
    BY <2>2, <2>5
  <2> QED
    BY <1>2, <2>6 DEF IsNarrowed
<1>5. IsNarrowed(context, n, Narrowing!Folded(context, DOMAIN rules, ipOrder))
  BY <1>3, <1>4, Narrowing!FoldInvariant
<1> QED
  BY <1>1, <1>2, <1>5 DEF IsNarrowed
----------------------------------------------------------------------------
(***************************************************************************)
(* The total of the counters.                                              *)
(***************************************************************************)
\* The totals of the first elements of s, up to the n-th.
AreSums(s, n, sums) ==
    /\ sums \in [0 .. n -> Int]
    /\ sums[0] = 0
    /\ \A i \in 1 .. n : sums[i] = sums[i - 1] + s[i]

AddTo(s, total, count) == total + count
IsTotal(s, n, total) ==
    (\A i \in DOMAIN s : s[i] \in Int) => \E sums : AreSums(s, n, sums) /\ total = sums[n]

Adding == INSTANCE FoldTheorems WITH Op <- AddTo, Along <- IsTotal

LEMMA TotalIs ==
  ASSUME NEW n \in Nat, NEW s \in [1 .. n -> Int]
  PROVE  \E sums : AreSums(s, n, sums) /\ Total(s) = sums[n]
<1>1. Total(s) = Adding!Folded(s, 0, s)
  BY DEF Total, FoldLeft, MapThenFoldSet, Max, Adding!IsFold, Adding!Folded, Adding!LastOf, AddTo
<1>2. IsTotal(s, 0, 0)
  <2> DEFINE sums == [j \in 0 .. 0 |-> 0]
  <2>1. AreSums(s, 0, sums) /\ sums[0] = 0
    BY DEF AreSums
  <2> QED
    BY <2>1 DEF IsTotal
<1>3. ASSUME NEW i \in 1 .. n, NEW total, IsTotal(s, i - 1, total)
      PROVE  IsTotal(s, i, AddTo(s, total, s[i]))
  <2>1. PICK sums : AreSums(s, i - 1, sums) /\ total = sums[i - 1]
    BY <1>3 DEF IsTotal
  <2> DEFINE more == [j \in 0 .. i |-> IF j = i THEN total + s[i] ELSE sums[j]]
  <2>2. total \in Int /\ s[i] \in Int
    BY <2>1 DEF AreSums
  <2>3. more \in [0 .. i -> Int] /\ more[0] = 0 /\ more[i] = total + s[i] /\ more[i - 1] = total
    BY <2>1, <2>2 DEF AreSums
  <2>4. \A j \in 1 .. i - 1 : more[j] = more[j - 1] + s[j]
    BY <2>1 DEF AreSums
  <2> HIDE DEF more
  <2>5. \A j \in 1 .. i : more[j] = more[j - 1] + s[j]
    <3>1. \A j \in 1 .. i : j = i \/ j \in 1 .. i - 1
      OBVIOUS
    <3> QED
      BY <2>3, <2>4, <3>1
  <2>6. AreSums(s, i, more) /\ AddTo(s, total, s[i]) = more[i]
    BY <2>3, <2>5 DEF AreSums, AddTo
  <2> QED
    BY <2>6 DEF IsTotal
<1>4. DOMAIN s = 1 .. n
  OBVIOUS
<1>5. IsTotal(s, n, Adding!Folded(s, 0, s))
  BY <1>2, <1>3, <1>4, Adding!FoldInvariant
<1> QED
  BY <1>1, <1>5 DEF IsTotal

\* The totals of two sequences that differ by one in the r-th element; they are
\* the same when there is no such element.
LEMMA TotalsDiffer ==
  ASSUME NEW n \in Nat, NEW s, NEW t, NEW P, NEW Q, NEW r \in Nat,
         AreSums(s, n, P), AreSums(t, n, Q),
         \A i \in 1 .. n : s[i] \in Int,
         \A i \in 1 .. n : i # r => t[i] = s[i],
         r \in 1 .. n => t[r] = s[r] + 1
  PROVE  /\ r \notin 1 .. n => Q[n] = P[n]
         /\ r \in 1 .. n => Q[n] = P[n] + 1
<1> DEFINE S == {j \in 0 .. n : Q[j] # P[j] + (IF r \in 1 .. j THEN 1 ELSE 0)}
<1>1. S = {}
  <2> SUFFICES ASSUME S # {}
               PROVE  FALSE
    OBVIOUS
  <2>1. S \in SUBSET Nat
    OBVIOUS
  <2>2. PICK j \in S : \A h \in S : j <= h
    <3>1. Tree!WidthAssumption /\ Tree!PowerAssumption /\ Tree!ListAssumption
      BY WidthAssumption, PowerAssumption
         DEF Tree!WidthAssumption, Tree!PowerAssumption, Tree!ListAssumption
    <3> HIDE DEF S
    <3> QED
      BY <2>1, <3>1, Tree!LeastExists
  <2>3. j \in 0 .. n /\ Q[j] # P[j] + (IF r \in 1 .. j THEN 1 ELSE 0)
    OBVIOUS
  <2>4. j # 0
    BY <2>3 DEF AreSums
  <2>5. j \in 1 .. n /\ j - 1 \in 0 .. n /\ ~(j <= j - 1)
    BY <2>3, <2>4
  <2>6. j - 1 \notin S
    <3> HIDE DEF S
    <3> QED
      BY <2>2, <2>5
  <2>7. Q[j - 1] = P[j - 1] + (IF r \in 1 .. j - 1 THEN 1 ELSE 0)
    BY <2>5, <2>6
  <2> HIDE DEF S
  <2>8. P[j] = P[j - 1] + s[j] /\ Q[j] = Q[j - 1] + t[j] /\ P[j - 1] \in Int /\ s[j] \in Int
    BY <2>5 DEF AreSums
  <2>9. (j # r => t[j] = s[j]) /\ (j = r => t[j] = s[j] + 1)
    BY <2>5
  <2>10. CASE j = r
    BY <2>3, <2>5, <2>7, <2>8, <2>9, <2>10
  <2>11. CASE j # r
    BY <2>3, <2>5, <2>7, <2>8, <2>9, <2>11
  <2> QED
    BY <2>10, <2>11
<1>2. n \in 0 .. n /\ Q[n] = P[n] + (IF r \in 1 .. n THEN 1 ELSE 0)
  BY <1>1
<1>3. P[n] \in Int
  BY DEF AreSums
<1> QED
  BY <1>2, <1>3

\* A sequence has one total.
LEMMA TotalsAgree ==
  ASSUME NEW n \in Nat, NEW s, NEW P, NEW Q, AreSums(s, n, P), AreSums(s, n, Q),
         \A i \in 1 .. n : s[i] \in Int
  PROVE  Q[n] = P[n]
<1> DEFINE t == s
           none == n + 1
<1>1. AreSums(t, n, Q) /\ none \in Nat /\ none \notin 1 .. n
      /\ (\A i \in 1 .. n : i # none => t[i] = s[i])
  OBVIOUS
<1> HIDE DEF t, none
<1>2. none \in 1 .. n => t[none] = s[none] + 1
  BY <1>1
<1> QED
  BY <1>1, <1>2, TotalsDiffer

\* A record that matches adds one to the total.
LEMMA TotalOfCount ==
  ASSUME NEW n \in Nat, NEW s \in [1 .. n -> Int], NEW r \in 1 .. n
  PROVE  Total([s EXCEPT ![r] = @ + 1]) = Total(s) + 1
<1> DEFINE t == [s EXCEPT ![r] = @ + 1]
<1>1. /\ t \in [1 .. n -> Int]
      /\ \A i \in 1 .. n : i # r => t[i] = s[i]
      /\ t[r] = s[r] + 1
  OBVIOUS
<1> HIDE DEF t
<1>2. PICK P : AreSums(s, n, P) /\ Total(s) = P[n]
  BY TotalIs
<1>3. PICK Q : AreSums(t, n, Q) /\ Total(t) = Q[n]
  BY <1>1, TotalIs
<1>4. r \in Nat /\ \A i \in 1 .. n : s[i] \in Int
  OBVIOUS
<1>5. Q[n] = P[n] + 1
  BY <1>1, <1>2, <1>3, <1>4, TotalsDiffer
<1> QED
  BY <1>2, <1>3, <1>5 DEF t

\* A rule more starts with a counter of zero.
LEMMA TotalOfAppend ==
  ASSUME NEW n \in Nat, NEW s \in [1 .. n -> Int], NEW t \in [1 .. n + 1 -> Int],
         \A i \in 1 .. n : t[i] = s[i], t[n + 1] = 0
  PROVE  Total(t) = Total(s)
<1>1. PICK P : AreSums(s, n, P) /\ Total(s) = P[n]
  BY TotalIs
<1>2. PICK Q : AreSums(t, n + 1, Q) /\ Total(t) = Q[n + 1]
  BY TotalIs
<1> DEFINE R == [j \in 0 .. n |-> Q[j]]
<1>3. AreSums(s, n, R)
  BY <1>2 DEF AreSums
<1>4. R[n] = Q[n]
  OBVIOUS
<1> HIDE DEF R
<1>5. R[n] = P[n]
  <2>1. \A i \in 1 .. n : s[i] \in Int
    OBVIOUS
  <2> QED
    BY <1>1, <1>3, <2>1, TotalsAgree
<1>6. Q[n + 1] = Q[n] /\ Q[n] \in Int
  <2>1. n + 1 \in 1 .. n + 1 /\ n \in 0 .. n + 1 /\ (n + 1) - 1 = n
    OBVIOUS
  <2>2. Q[n + 1] = Q[n] + t[n + 1] /\ Q[n] \in Int
    BY <1>2, <2>1 DEF AreSums
  <2> QED
    BY <2>2
<1> QED
  BY <1>1, <1>2, <1>4, <1>5, <1>6

----------------------------------------------------------------------------
(***************************************************************************)
(* The inductive invariant.                                                *)
(***************************************************************************)
StaticFields == {f \in FieldSet : TypeOf[f] # "ip"}
RowRules == {RuleOf(csvFile.rows[i]) : i \in DOMAIN csvFile.rows}

\* Only a valid file gets as far as its rules, which are those of its first rows, and
\* every tree has counted them modulo 2^16.
RulesInv ==
    /\ csvFile \in CsvFiles
    /\ phase \in {"parsing", "building", "running", "stopped", "refused", "terminated",
                  "undefined"}
    /\ mode \in {"blacklist", "whitelist"}
    /\ IF phase \in {"parsing", "refused"}
       THEN rules = <<>>
       ELSE /\ IsValid(csvFile)
            /\ rules \in Seq(RowRules)
            /\ \A i \in DOMAIN rules :
                  i \in DOMAIN csvFile.rows /\ rules[i] = RuleOf(csvFile.rows[i])
    /\ \A f \in IpFields : ipMatchers[f].lastInsertIndex = Index(Len(rules))

\* The matcher walks its containers in the order chosen when it started.
OrdersInv ==
    /\ IsSpace(buffer)
    /\ phase = "running" => ipOrder \in Seq(IpFields) /\ maskOrder \in Seq(SUBSET StaticFields)

CountsInv ==
    /\ received \in 0 .. MaxRecords /\ sent \in 0 .. received
    /\ matchedCount \in Seq(0 .. received) /\ Len(matchedCount) = Len(rules)
    /\ CountsAddUp

IInv == RulesInv /\ OrdersInv /\ CountsInv
\* A valid row becomes a rule.
LEMMA RowIsRule ==
  ASSUME csvFile \in CsvFiles, IsValid(csvFile), NEW i \in DOMAIN csvFile.rows
  PROVE  IsRule(RuleOf(csvFile.rows[i]))
<1> DEFINE row == csvFile.rows[i]
<1>1. \A f \in FieldSet : IsDescription(f, row[f])
  BY FilesAssumption
<1> HIDE DEF row
<1>2. ASSUME NEW f \in FieldSet, RuleField(f, row[f]).kind = "literal"
      PROVE  TypeOf[f] # "ip" /\ RuleField(f, row[f]).bytes \in Seq(Nat)
  <2>1. CASE row[f].kind # "empty"
    <3>1. RuleField(f, row[f]) = row[f]
      BY <2>1 DEF RuleField
    <3> QED
      BY <1>1, <1>2, <3>1 DEF IsDescription
  <2>2. CASE row[f].kind = "empty" /\ TypeOf[f] = "string"
    BY <2>2 DEF RuleField
  <2>3. CASE row[f].kind = "empty" /\ TypeOf[f] # "string"
    BY <1>2, <2>3 DEF RuleField, Wildcard
  <2> QED
    BY <2>1, <2>2, <2>3
<1>3. \A f \in FieldSet : RuleOf(row)[f] = RuleField(f, row[f])
  BY DEF RuleOf
<1>4. IsRule(RuleOf(row))
  BY <1>2, <1>3 DEF IsRule
<1> QED
  BY <1>4 DEF row

\* The rows of a valid file are a sequence.
LEMMA RowsAre ==
  ASSUME csvFile \in CsvFiles, IsValid(csvFile)
  PROVE  Len(csvFile.rows) \in Nat /\ DOMAIN csvFile.rows = 1 .. Len(csvFile.rows)
BY FilesAssumption

\* What is read off the invariant once there are rules.
LEMMA RulesAre ==
  ASSUME RulesInv
  PROVE  /\ Len(rules) \in Nat /\ DOMAIN rules = 1 .. Len(rules)
         /\ \A i \in 1 .. Len(rules) : IsRule(rules[i])
<1>1. CASE phase \in {"parsing", "refused"}
  BY <1>1 DEF RulesInv
<1>2. CASE phase \notin {"parsing", "refused"}
  <2>1. rules \in Seq(RowRules)
    BY <1>2 DEF RulesInv
  <2>2. Len(rules) \in Nat /\ DOMAIN rules = 1 .. Len(rules)
    BY <2>1, LenProperties
  <2>3. ASSUME NEW i \in DOMAIN rules
        PROVE  IsRule(rules[i])
    BY <1>2, <2>3, RowIsRule DEF RulesInv
  <2> QED
    BY <2>2, <2>3
<1> QED
  BY <1>1, <1>2

LEMMA OrderOfSet ==
  ASSUME NEW S, IsFiniteSet(S), NEW order \in SetToSeqs(S)
  PROVE  order \in Seq(S)
<1>1. Cardinality(S) \in Nat
  BY FS_CardinalityType
<1>2. order \in [1 .. Cardinality(S) -> S]
  BY DEF SetToSeqs
<1> QED
  BY <1>1, <1>2, SeqDef

\* The elements of a sequence are finitely many.
LEMMA ElementsAreFinite ==
  ASSUME NEW n \in Nat, NEW s, DOMAIN s = 1 .. n
  PROVE  IsFiniteSet({s[i] : i \in 1 .. n})
<1> DEFINE S == {s[i] : i \in 1 .. n}
           f == [i \in 1 .. n |-> s[i]]
<1>1. f \in Surjection(1 .. n, S)
  BY DEF Surjection
<1>2. IsFiniteSet(1 .. n)
  BY FS_Interval
<1> HIDE DEF S, f
<1>3. IsFiniteSet(S)
  BY <1>1, <1>2, FS_Surjection
<1> QED
  BY <1>3 DEF S

LEMMA IpFieldsAreFinite == IsFiniteSet(IpFields)
<1>1. FieldSet = {Fields[i] : i \in 1 .. Len(Fields)}
  BY FieldsAre DEF FieldSet
<1>2. IsFiniteSet(FieldSet)
  BY <1>1, FieldsAre, ElementsAreFinite
<1> QED
  BY <1>2, FS_Subset DEF IpFields

\* A rule is looked up by static fields only.
LEMMA MaskIsStatic ==
  ASSUME NEW rule, IsRule(rule)
  PROVE  MaskOf(rule) \subseteq StaticFields
BY DEF MaskOf, IsRule, StaticFields

LEMMA MasksAre ==
  ASSUME RulesInv
  PROVE  IsFiniteSet(Masks) /\ Masks \subseteq SUBSET StaticFields
<1>1. /\ Len(rules) \in Nat /\ DOMAIN rules = 1 .. Len(rules)
      /\ \A i \in 1 .. Len(rules) : IsRule(rules[i])
  BY RulesAre
<1> DEFINE s == [i \in 1 .. Len(rules) |-> MaskOf(rules[i])]
<1>2. Masks = {s[i] : i \in 1 .. Len(rules)} /\ DOMAIN s = 1 .. Len(rules)
  BY <1>1 DEF Masks
<1>3. Masks \subseteq SUBSET StaticFields
  BY <1>1, MaskIsStatic DEF Masks
<1> HIDE DEF s
<1>4. IsFiniteSet(Masks)
  BY <1>1, <1>2, ElementsAreFinite
<1> QED
  BY <1>3, <1>4

----------------------------------------------------------------------------
(***************************************************************************)
(* Every step preserves the invariant.                                     *)
(***************************************************************************)
LEMMA InitIInv == Init => IInv
<1> SUFFICES ASSUME Init
             PROVE  IInv
  OBVIOUS
<1>1. RulesInv
  <2>1. Index(Len(<<>>)) = 0
    BY WidthAssumption DEF Index
  <2> QED
    BY <2>1 DEF Init, RulesInv, EmptyMatcher
<1>2. OrdersInv
  BY DEF Init, OrdersInv, IsSpace
<1>3. Total(<<>>) = 0
  <2> DEFINE none == <<>>
             n == 0
  <2>1. none \in [1 .. n -> Int] /\ n = 0 /\ n \in Nat
    OBVIOUS
  <2> HIDE DEF none, n
  <2>2. PICK sums : AreSums(none, n, sums) /\ Total(none) = sums[n]
    BY <2>1, TotalIs
  <2> QED
    BY <2>1, <2>2 DEF AreSums, none
<1>4. CountsAddUp
  <2>1. Total(matchedCount) = 0 /\ sent = 0 /\ received = 0
    BY <1>3 DEF Init
  <2>2. Total(matchedCount) = IF mode = "blacklist" THEN sent ELSE received - sent
    BY <2>1
  <2> QED
    BY <2>2 DEF CountsAddUp
<1>5. /\ received \in 0 .. MaxRecords /\ sent \in 0 .. received
      /\ matchedCount \in Seq(0 .. received) /\ Len(matchedCount) = Len(rules)
  BY RecordsAssumption DEF Init
<1> QED
  BY <1>1, <1>2, <1>4, <1>5 DEF IInv, CountsInv

\* What no variable of the rules' construction is touched by keeps RulesInv.
LEMMA RulesUnchanged ==
  ASSUME RulesInv, UNCHANGED <<csvFile, mode, rules, ipMatchers>>,
         phase' \in {"parsing", "building", "running", "stopped", "refused", "terminated",
                     "undefined"},
         phase' \in {"parsing", "refused"} => rules = <<>>,
         phase' \notin {"parsing", "refused"} => IsValid(csvFile),
         phase' \notin {"parsing", "refused"} /\ phase \in {"parsing", "refused"} => rules = <<>>
  PROVE  RulesInv'
<1>1. /\ csvFile' \in CsvFiles /\ mode' \in {"blacklist", "whitelist"}
      /\ \A f \in IpFields : ipMatchers'[f].lastInsertIndex = Index(Len(rules'))
  BY DEF RulesInv
<1>2. phase' \in {"parsing", "refused"} => rules' = <<>>
  OBVIOUS
<1>3. ASSUME phase' \notin {"parsing", "refused"}
      PROVE  /\ IsValid(csvFile)
             /\ rules \in Seq(RowRules)
             /\ \A i \in DOMAIN rules :
                   i \in DOMAIN csvFile.rows /\ rules[i] = RuleOf(csvFile.rows[i])
  <2>1. CASE phase \in {"parsing", "refused"}
    <3>1. rules = <<>> /\ IsValid(csvFile)
      BY <1>3, <2>1
    <3>2. <<>> \in Seq(RowRules) /\ DOMAIN <<>> = {}
      BY EmptySeq
    <3> QED
      BY <3>1, <3>2
  <2>2. CASE phase \notin {"parsing", "refused"}
    BY <1>3, <2>2 DEF RulesInv
  <2> QED
    BY <2>1, <2>2
<1>4. RowRules' = RowRules
  BY DEF RowRules
<1> QED
  BY <1>1, <1>2, <1>3, <1>4 DEF RulesInv

LEMMA CountsUnchanged ==
  ASSUME CountsInv, UNCHANGED <<mode, matchedCount, received, sent>>, Len(rules') = Len(rules)
  PROVE  CountsInv'
<1>1. CountsAddUp'
  <2>1. Total(matchedCount) = IF mode = "blacklist" THEN sent ELSE received - sent
    BY DEF CountsInv, CountsAddUp
  <2>2. Total(matchedCount') = IF mode' = "blacklist" THEN sent' ELSE received' - sent'
    BY <2>1
  <2> QED
    BY <2>2 DEF CountsAddUp
<1> QED
  BY <1>1 DEF CountsInv

LEMMA ParseIInv == IInv /\ Parse => IInv'
<1> SUFFICES ASSUME IInv, Parse
             PROVE  IInv'
  OBVIOUS
<1>1. rules = <<>>
  BY DEF IInv, RulesInv, Parse
<1>2. RulesInv'
  BY <1>1, RulesUnchanged DEF IInv, Parse
<1>3. OrdersInv'
  BY DEF IInv, OrdersInv, Parse
<1>4. CountsInv'
  BY CountsUnchanged DEF IInv, Parse
<1> QED
  BY <1>2, <1>3, <1>4 DEF IInv

LEMMA BuildMalformedIInv == IInv /\ BuildMalformed => IInv'
<1> SUFFICES ASSUME IInv, BuildMalformed
             PROVE  IInv'
  OBVIOUS
<1>1. RulesInv'
  BY RulesUnchanged DEF IInv, RulesInv, BuildMalformed, HasRow
<1>2. OrdersInv'
  BY DEF IInv, OrdersInv, BuildMalformed
<1>3. CountsInv'
  BY CountsUnchanged DEF IInv, BuildMalformed
<1> QED
  BY <1>1, <1>2, <1>3 DEF IInv

LEMMA StopIInv == IInv /\ Stop => IInv'
<1> SUFFICES ASSUME IInv, Stop
             PROVE  IInv'
  OBVIOUS
<1>1. RulesInv'
  BY RulesUnchanged DEF IInv, RulesInv, Stop
<1>2. OrdersInv'
  BY DEF IInv, OrdersInv, Stop
<1>3. CountsInv'
  BY CountsUnchanged DEF IInv, Stop
<1> QED
  BY <1>1, <1>2, <1>3 DEF IInv

LEMMA StartIInv == IInv /\ Start => IInv'
<1> SUFFICES ASSUME IInv, Start
             PROVE  IInv'
  OBVIOUS
<1>1. RulesInv'
  BY RulesUnchanged DEF IInv, RulesInv, Start
<1>2. IsSpace(buffer')
  BY RulesAre, BufferAfterIsBuffer DEF IInv, Start
<1>3. ipOrder' \in Seq(IpFields)
  BY IpFieldsAreFinite, OrderOfSet DEF Start
<1>4. maskOrder' \in Seq(SUBSET StaticFields)
  <2>1. maskOrder' \in Seq(Masks)
    BY MasksAre, OrderOfSet DEF IInv, Start
  <2> QED
    BY <2>1, MasksAre DEF IInv
<1>5. OrdersInv'
  BY <1>2, <1>3, <1>4 DEF OrdersInv
<1>6. CountsInv'
  BY CountsUnchanged DEF IInv, Start
<1> QED
  BY <1>1, <1>5, <1>6 DEF IInv

\* A row more: a rule more, a number more in every tree, a counter at zero.
LEMMA BuildRuleIInv == IInv /\ BuildRule => IInv'
<1> SUFFICES ASSUME IInv, BuildRule
             PROVE  IInv'
  OBVIOUS
<1> DEFINE n == Len(rules)
           rule == RuleOf(Row)
<1>1. /\ phase = "building" /\ IsValid(csvFile) /\ csvFile \in CsvFiles
      /\ rules \in Seq(RowRules) /\ n < Len(csvFile.rows)
      /\ \A i \in DOMAIN rules :
            i \in DOMAIN csvFile.rows /\ rules[i] = RuleOf(csvFile.rows[i])
  BY DEF IInv, RulesInv, BuildRule, HasRow
<1>2. n \in Nat /\ DOMAIN rules = 1 .. n
  BY <1>1, LenProperties
<1>3. n + 1 \in DOMAIN csvFile.rows
  <2> HIDE DEF n
  <2> QED
    BY <1>1, <1>2, RowsAre
<1>4. rule \in RowRules /\ rule = RuleOf(csvFile.rows[n + 1])
  BY <1>3 DEF RowRules, Row
<1>5. /\ rules' \in Seq(RowRules) /\ Len(rules') = n + 1
      /\ \A i \in 1 .. n : rules'[i] = rules[i]
      /\ rules'[n + 1] = rule
  <2>1. rules' = Append(rules, rule)
    BY DEF BuildRule
  <2> HIDE DEF rule
  <2> QED
    BY <1>1, <1>4, <2>1, AppendProperties
<1>6. DOMAIN rules' = 1 .. n + 1
  BY <1>5, LenProperties
<1>7. RulesInv'
  <2>1. \A i \in DOMAIN rules' : i \in DOMAIN csvFile.rows /\ rules'[i] = RuleOf(csvFile.rows[i])
    <3> HIDE DEF n, rule
    <3>1. \A i \in 1 .. n + 1 : i \in 1 .. n \/ i = n + 1
      BY <1>2
    <3> QED
      BY <1>1, <1>2, <1>3, <1>4, <1>5, <1>6, <3>1
  <2>2. ASSUME NEW f \in IpFields
        PROVE  ipMatchers'[f].lastInsertIndex = Index(Len(rules'))
    <3>1. ipMatchers'[f] = WithPrefix(ipMatchers[f], rule[f])
      BY DEF BuildRule
    <3>2. WithPrefix(ipMatchers[f], rule[f]).lastInsertIndex
            = Index(ipMatchers[f].lastInsertIndex + 1)
      BY DEF WithPrefix, AddPrefix
    <3>3. ipMatchers[f].lastInsertIndex = Index(n)
      BY DEF IInv, RulesInv
    <3> HIDE DEF n, rule
    <3>4. Index(Index(n) + 1) = Index(n + 1)
      BY <1>2, IndexOfNext
    <3> QED
      BY <1>5, <3>1, <3>2, <3>3, <3>4
  <2>3. csvFile' = csvFile /\ phase' = "building" /\ mode' = mode /\ RowRules' = RowRules
    BY <1>1 DEF BuildRule, RowRules
  <2>4. mode \in {"blacklist", "whitelist"}
    BY DEF IInv, RulesInv
  <2> HIDE DEF n, rule
  <2> QED
    BY <1>1, <1>5, <2>1, <2>2, <2>3, <2>4 DEF RulesInv
<1>8. OrdersInv'
  BY <1>1 DEF IInv, OrdersInv, BuildRule
<1>9. CountsInv'
  <2>1. /\ received \in 0 .. MaxRecords /\ sent \in 0 .. received
        /\ matchedCount \in Seq(0 .. received) /\ Len(matchedCount) = n
        /\ Total(matchedCount) = IF mode = "blacklist" THEN sent ELSE received - sent
    BY DEF IInv, CountsInv, CountsAddUp
  <2>2. received' = received /\ sent' = sent /\ mode' = mode
    BY DEF BuildRule
  <2>3. matchedCount' = Append(matchedCount, 0)
    BY DEF BuildRule
  <2> HIDE DEF n, rule
  <2>4. 0 \in 0 .. received
    BY <2>1, RecordsAssumption
  <2>5. /\ matchedCount' \in Seq(0 .. received) /\ Len(matchedCount') = n + 1
        /\ \A i \in 1 .. n : matchedCount'[i] = matchedCount[i]
        /\ matchedCount'[n + 1] = 0
    BY <2>1, <2>3, <2>4, AppendProperties
  <2>6. matchedCount \in [1 .. n -> Int] /\ matchedCount' \in [1 .. n + 1 -> Int]
    <3>1. 0 .. received \subseteq Int
      OBVIOUS
    <3>2. matchedCount \in [1 .. n -> 0 .. received]
      BY <2>1, LenProperties
    <3>3. matchedCount' \in [1 .. n + 1 -> 0 .. received]
      BY <2>5, LenProperties
    <3> QED
      BY <3>1, <3>2, <3>3
  <2>7. Total(matchedCount') = Total(matchedCount)
    BY <1>2, <2>5, <2>6, TotalOfAppend
  <2>8. CountsAddUp'
    <3>1. Total(matchedCount') = IF mode' = "blacklist" THEN sent' ELSE received' - sent'
      BY <2>1, <2>2, <2>7
    <3> QED
      BY <3>1 DEF CountsAddUp
  <2> QED
    BY <1>5, <2>1, <2>2, <2>5, <2>8 DEF CountsInv
<1> QED
  BY <1>7, <1>8, <1>9 DEF IInv

LEMMA ProcessUndefinedIInv ==
  ASSUME IInv, NEW record \in Records, ProcessUndefined(record)
  PROVE  IInv'
<1>1. RulesInv'
  BY RulesUnchanged DEF IInv, RulesInv, ProcessUndefined
<1>2. OrdersInv'
  BY DEF IInv, OrdersInv, ProcessUndefined
<1>3. CountsInv'
  BY CountsUnchanged DEF IInv, ProcessUndefined
<1> QED
  BY <1>1, <1>2, <1>3 DEF IInv

\* A record: the search leaves a buffer, and at most one of the rules' counters moves,
\* by one.
LEMMA ProcessRecordIInv ==
  ASSUME IInv, NEW record \in Records, ProcessRecord(record)
  PROVE  IInv'
<1> DEFINE n == Len(rules)
           found == Search(record, MatchingIpRules(record))
<1>1. /\ phase = "running" /\ received < MaxRecords /\ buffer' = found.buffer
      /\ UNCHANGED <<csvFile, phase, mode, rules, ipMatchers, ipOrder, maskOrder>>
  BY DEF ProcessRecord
<1>2. n \in Nat /\ DOMAIN rules = 1 .. n
  BY RulesAre DEF IInv
<1>3. MatchingIpRules(record) \subseteq DOMAIN rules
  <2>1. ipOrder \in Seq(IpFields)
    BY <1>1 DEF IInv, OrdersInv
  <2>2. Len(ipOrder) \in Nat /\ DOMAIN ipOrder = 1 .. Len(ipOrder)
    BY <2>1, LenProperties
  <2>3. DOMAIN rules \subseteq Int
    BY <1>2
  <2>4. MatchingIpRules(record) \subseteq DOMAIN rules \cup {NoRule}
    BY <2>2, <2>3, MatchingIpRulesAreRules
  <2>5. NoRule \notin MatchingIpRules(record)
    BY DEF ProcessRecord, LeavesAnArray
  <2> QED
    BY <2>4, <2>5
<1>4. found.candidates \subseteq MatchingIpRules(record) /\ IsSpace(found.buffer)
  <2>1. maskOrder \in Seq(SUBSET StaticFields)
    BY <1>1 DEF IInv, OrdersInv
  <2>2. Len(maskOrder) \in Nat /\ DOMAIN maskOrder = 1 .. Len(maskOrder)
    BY <2>1, LenProperties
  <2>3. \A i \in 1 .. Len(maskOrder) : IsMask(maskOrder[i])
    BY <2>1, ElementOfSeq DEF IsMask, StaticFields
  <2>4. IsRecord(record)
    BY RecordsAssumption DEF IsRecord
  <2>5. IsSpace(buffer)
    BY DEF IInv, OrdersInv
  <2> QED
    BY <2>2, <2>3, <2>4, <2>5, SearchFindsRules
<1>5. RulesInv'
  BY <1>1, RulesUnchanged DEF IInv, RulesInv
<1>6. OrdersInv'
  BY <1>1, <1>4 DEF IInv, OrdersInv
<1>7. CountsInv'
  <2>1. /\ received \in 0 .. MaxRecords /\ sent \in 0 .. received /\ MaxRecords \in Nat
        /\ matchedCount \in Seq(0 .. received) /\ Len(matchedCount) = n
        /\ Total(matchedCount) = IF mode = "blacklist" THEN sent ELSE received - sent
    BY RecordsAssumption DEF IInv, CountsInv, CountsAddUp
  <2>2. matchedCount \in [1 .. n -> 0 .. received]
    BY <2>1, LenProperties
  <2>3. Len(rules') = n
    BY <1>1
  <2>4. CASE found.candidates = {} /\ Forward(record, mode = "whitelist", NoRule)
                /\ UNCHANGED matchedCount
    <3>1. /\ received' = received + 1 /\ matchedCount' = matchedCount /\ mode' = mode
          /\ sent' = IF mode = "whitelist" THEN sent + 1 ELSE sent
      BY <1>1, <2>4 DEF Forward
    <3>2. mode \in {"blacklist", "whitelist"}
      BY DEF IInv, RulesInv
    <3> HIDE DEF n, found
    <3>3. matchedCount' \in [1 .. n -> 0 .. received']
      BY <2>1, <2>2, <3>1
    <3>4. matchedCount' \in Seq(0 .. received') /\ Len(matchedCount') = n
      BY <1>2, <2>1, <3>1, <3>3, SeqDef
    <3>5. Total(matchedCount') = IF mode' = "blacklist" THEN sent' ELSE received' - sent'
      BY <2>1, <3>1, <3>2
    <3>6. CountsAddUp'
      BY <3>5 DEF CountsAddUp
    <3>7. received' \in 0 .. MaxRecords /\ sent' \in 0 .. received'
      BY <1>1, <2>1, <3>1
    <3> QED
      BY <2>3, <3>4, <3>6, <3>7 DEF CountsInv
  <2>5. ASSUME NEW r \in found.candidates, Forward(record, mode = "blacklist", r),
               matchedCount' = [matchedCount EXCEPT ![r] = @ + 1]
        PROVE  CountsInv'
    <3>1. /\ received' = received + 1 /\ mode' = mode
          /\ sent' = IF mode = "blacklist" THEN sent + 1 ELSE sent
      BY <1>1, <2>5 DEF Forward
    <3>2. r \in 1 .. n
      BY <1>2, <1>3, <1>4
    <3> HIDE DEF n, found
    <3>3. matchedCount' \in [1 .. n -> 0 .. received']
      BY <2>1, <2>2, <2>5, <3>1, <3>2
    <3>4. matchedCount' \in Seq(0 .. received') /\ Len(matchedCount') = n
      <4>1. matchedCount' \in Seq(0 .. received')
        BY <1>2, <3>3, SeqDef
      <4>2. DOMAIN matchedCount' = 1 .. n
        BY <3>3
      <4> QED
        BY <1>2, <4>1, <4>2, LenProperties
    <3>5. matchedCount \in [1 .. n -> Int]
      BY <2>1, <2>2
    <3>6. Total(matchedCount') = Total(matchedCount) + 1
      BY <1>2, <2>5, <3>2, <3>5, TotalOfCount
    <3>7. Total(matchedCount') = IF mode' = "blacklist" THEN sent' ELSE received' - sent'
      BY <2>1, <3>1, <3>6
    <3>8. CountsAddUp'
      BY <3>7 DEF CountsAddUp
    <3>9. received' \in 0 .. MaxRecords /\ sent' \in 0 .. received'
      BY <1>1, <2>1, <3>1
    <3> QED
      BY <2>3, <3>4, <3>8, <3>9 DEF CountsInv
  <2> QED
    BY <2>4, <2>5 DEF ProcessRecord
<1> QED
  BY <1>5, <1>6, <1>7 DEF IInv

LEMMA StutterIInv == IInv /\ UNCHANGED vars => IInv'
<1> SUFFICES ASSUME IInv, UNCHANGED vars
             PROVE  IInv'
  OBVIOUS
<1>1. RulesInv'
  BY RulesUnchanged DEF IInv, RulesInv, vars
<1>2. OrdersInv'
  BY DEF IInv, OrdersInv, vars
<1>3. CountsInv'
  BY CountsUnchanged DEF IInv, vars
<1> QED
  BY <1>1, <1>2, <1>3 DEF IInv

THEOREM Invariance == Spec => []IInv
<1>1. Init => IInv
  BY InitIInv
<1>2. IInv /\ [Next]_vars => IInv'
  BY ParseIInv, BuildRuleIInv, BuildMalformedIInv, StartIInv, ProcessRecordIInv,
     ProcessUndefinedIInv, StopIInv, StutterIInv DEF Next
<1> QED
  BY <1>1, <1>2, PTL DEF Spec

----------------------------------------------------------------------------
(***************************************************************************)
(* The properties.                                                         *)
(***************************************************************************)
\* The rules are those of the file's first rows, every tree has counted them (modulo
\* 2^16), and no write to the hash buffer leaves it larger than its capacity.
THEOREM TypeCorrect == Spec => []TypeOK
<1>1. IInv => TypeOK
  <2> SUFFICES ASSUME IInv
               PROVE  TypeOK
    OBVIOUS
  <2>1. /\ csvFile \in CsvFiles
        /\ phase \in {"parsing", "building", "running", "stopped", "refused", "terminated",
                      "undefined"}
        /\ mode \in {"blacklist", "whitelist"}
        /\ \A f \in IpFields : ipMatchers[f].lastInsertIndex = Index(Len(rules))
    BY DEF IInv, RulesInv
  <2>2. \A i \in DOMAIN rules : rules[i] = RuleOf(csvFile.rows[i])
    BY DEF IInv, RulesInv
  <2>3. buffer.size \in Nat /\ buffer.capacity \in Nat /\ buffer.size <= buffer.capacity
    BY DEF IInv, OrdersInv, IsSpace
  <2>4. received \in 0 .. MaxRecords /\ sent \in 0 .. received
    BY DEF IInv, CountsInv
  <2>5. matchedCount \in [1 .. Len(rules) -> 0 .. received]
    BY LenProperties DEF IInv, CountsInv
  <2>6. DOMAIN rules = 1 .. Len(rules)
    BY RulesAre DEF IInv
  <2>7. 0 .. received \subseteq 0 .. MaxRecords
    BY <2>4, RecordsAssumption
  <2>8. DOMAIN matchedCount = DOMAIN rules /\ \A i \in DOMAIN rules : matchedCount[i] \in 0 .. MaxRecords
    BY <2>5, <2>6, <2>7
  <2> QED
    BY <2>1, <2>2, <2>3, <2>4, <2>8 DEF TypeOK
<1> QED
  BY <1>1, Invariance, PTL

\* The counters of the rules add up to the records a blacklist has sent on, or a whitelist
\* has held back: while no search has left an array (ProcessUndefined), which a list of
\* 2^16 rules or more always does, whatever is found is a rule of the list.
THEOREM CountersAddUp == Spec => []CountsAddUp
<1>1. IInv => CountsAddUp
  BY DEF IInv, CountsInv
<1> QED
  BY <1>1, Invariance, PTL
=============================================================================
