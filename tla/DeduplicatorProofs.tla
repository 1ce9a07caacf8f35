------------------------- MODULE DeduplicatorProofs -------------------------
(***************************************************************************)
(* For any number and size of buckets, any timeout and any hash function:  *)
(* a hash sits in one slot, the slot's time is the hash's last one, and so *)
(* a record is dropped only within the timeout of one with the same hash.  *)
(***************************************************************************)
EXTENDS Deduplicator, FiniteSetTheorems, WellFoundedInduction, TLAPS

----------------------------------------------------------------------------
(* The operators of a bucket.                                              *)

\* First returns the least element of a set of slots (any_of's first match).
LEMMA FirstIsLeast ==
  ASSUME NEW S \in SUBSET Slots, S # {}
  PROVE  First(S) \in S /\ \A j \in S : First(S) <= j
<1> DEFINE R == OpToRel(<, Nat)
<1>1. IsWellFoundedOn(R, Nat)
  BY NatLessThanWellFounded, Zenon
<1>2. \A m, n \in Nat : m < n => <<m, n>> \in R
  BY DEF OpToRel
<1>3. S \subseteq Nat
  BY BucketAssumption DEF Slots
<1> HIDE DEF R
<1>4. PICK x \in S : \A y \in S : ~(<<y, x>> \in R)
  BY <1>1, <1>3, WFMin, Zenon
<1>5. ASSUME NEW y \in S
      PROVE  x <= y
  <2>1. x \in Nat /\ y \in Nat
    BY <1>3
  <2>2. ~(y < x)
    BY <1>2, <1>4, <2>1
  <2> QED
    BY <2>1, <2>2
<1> QED
  BY <1>5 DEF First

\* The scan only clears valid bits, and never the one of the key looked for.
LEMMA ScanOnlyRemoves ==
  ASSUME NEW b \in Bucket, NEW key, NEW now
  PROVE  /\ Scanned(b, key, now) \in Bucket
         /\ Scanned(b, key, now).keys = b.keys
         /\ Scanned(b, key, now).times = b.times
         /\ Scanned(b, key, now).values = b.values
         /\ \A i \in Slots : Scanned(b, key, now).valid[i] => b.valid[i]
         /\ \A i \in Slots : b.valid[i] /\ b.keys[i] = key
                               => Scanned(b, key, now).valid[i]
  BY DEF Scanned, Bucket

\* Filling a slot gives a bucket again.
LEMMA FillGivesBucket ==
  ASSUME NEW b \in Bucket, NEW i, NEW key \in Hashes, NEW link \in Links,
         NEW now \in 0..MaxTime
  PROVE  Fill(b, i, key, link, now) \in Bucket
  BY DEF Fill, Bucket

\* Refreshing a slot gives a bucket again.
LEMMA RefreshGivesBucket ==
  ASSUME NEW b \in Bucket, NEW i, NEW now \in 0..MaxTime
  PROVE  Refresh(b, i, now) \in Bucket
  BY DEF Refresh, Bucket

\* Insert, case by case: the key is found, or it fills a slot of the scanned
\* bucket.
LEMMA InsertCases ==
  ASSUME NEW b \in Bucket, NEW key \in Hashes, NEW link \in Links,
         NEW now \in 0..MaxTime
  PROVE  LET a == Insert(b, key, link, now)
             s == Scanned(b, key, now)
         IN  \/ /\ Matches(b, key) # {}
                /\ a.index = First(Matches(b, key))
                /\ a.bucket = Refresh(s, a.index, now)
                /\ a.result = IF IsTimedOut(b, a.index, now)
                              THEN "INSERTED" ELSE "ALREADY_PRESENT"
             \/ /\ Matches(b, key) = {}
                /\ a.bucket = Fill(s, a.index, key, link, now)
                /\ a.result \in {"REPLACED", "INSERTED"}
  BY DEF Insert

\* Insert gives a bucket and one of the three results.
LEMMA InsertType ==
  ASSUME NEW b \in Bucket, NEW key \in Hashes, NEW link \in Links,
         NEW now \in 0..MaxTime
  PROVE  /\ Insert(b, key, link, now).bucket \in Bucket
         /\ Insert(b, key, link, now).result \in Results
<1>1. Scanned(b, key, now) \in Bucket
  BY ScanOnlyRemoves
<1>2. CASE Matches(b, key) # {}
  BY <1>1, <1>2, InsertCases, RefreshGivesBucket DEF Results
<1>3. CASE Matches(b, key) = {}
  BY <1>1, <1>3, InsertCases, FillGivesBucket DEF Results
<1> QED
  BY <1>2, <1>3

Unique(b) ==
  \A i, j \in Slots : /\ b.valid[i] /\ b.valid[j]
                      /\ b.keys[i] = b.keys[j]
                      => i = j

\* Insert never makes a second copy of a key.
LEMMA InsertKeepsUnique ==
  ASSUME NEW b \in Bucket, NEW key \in Hashes, NEW link \in Links,
         NEW now \in 0..MaxTime, Unique(b)
  PROVE  Unique(Insert(b, key, link, now).bucket)
<1> DEFINE a == Insert(b, key, link, now)
           s == Scanned(b, key, now)
<1> SUFFICES Unique(a.bucket)
  OBVIOUS
<1>1. /\ s \in Bucket /\ s.keys = b.keys
      /\ \A i \in Slots : s.valid[i] => b.valid[i]
  BY ScanOnlyRemoves
<1>2. CASE Matches(b, key) # {}
  <2>1. a.bucket = Refresh(s, a.index, now)
    BY <1>2, InsertCases
  <2>2. a.bucket.valid = s.valid /\ a.bucket.keys = s.keys
    BY <2>1 DEF Refresh
  <2> HIDE DEF a, s
  <2> QED
    BY <1>1, <2>2 DEF Unique
<1>3. CASE Matches(b, key) = {}
  <2> a.bucket = Fill(s, a.index, key, link, now)
    BY <1>3, InsertCases
  <2>1. /\ a.bucket.valid = [s.valid EXCEPT ![a.index] = TRUE]
        /\ a.bucket.keys = [s.keys EXCEPT ![a.index] = key]
    BY DEF Fill
  <2>2. \A i \in Slots : s.valid[i] => s.keys[i] # key
    BY <1>1, <1>3 DEF Matches
  <2>3. s.valid \in [Slots -> BOOLEAN] /\ s.keys \in [Slots -> Hashes \cup {0}]
    BY <1>1 DEF Bucket
  <2> HIDE DEF a, s
  <2> QED
    BY <1>1, <2>1, <2>2, <2>3 DEF Unique
<1> QED
  BY <1>2, <1>3

\* Insert leaves the key in a slot with the time of the call, if anywhere, and
\* every other valid slot as it was.
LEMMA InsertSetsTime ==
  ASSUME NEW b \in Bucket, NEW key \in Hashes, NEW link \in Links,
         NEW now \in 0..MaxTime, Unique(b)
  PROVE  LET c == Insert(b, key, link, now).bucket
         IN  \A i \in Slots : c.valid[i] =>
               \/ c.keys[i] = key /\ c.times[i] = now
               \/ /\ c.keys[i] # key
                  /\ b.valid[i] /\ c.keys[i] = b.keys[i]
                  /\ c.times[i] = b.times[i]
<1> DEFINE a == Insert(b, key, link, now)
           s == Scanned(b, key, now)
<1>1. /\ s \in Bucket /\ s.keys = b.keys /\ s.times = b.times
      /\ \A i \in Slots : s.valid[i] => b.valid[i]
  BY ScanOnlyRemoves
<1>2. SUFFICES ASSUME NEW i \in Slots, a.bucket.valid[i]
               PROVE  \/ a.bucket.keys[i] = key /\ a.bucket.times[i] = now
                      \/ /\ a.bucket.keys[i] # key
                         /\ b.valid[i] /\ a.bucket.keys[i] = b.keys[i]
                         /\ a.bucket.times[i] = b.times[i]
  OBVIOUS
<1>3. CASE Matches(b, key) # {}
  <2>1. /\ a.index = First(Matches(b, key))
        /\ a.bucket = Refresh(s, a.index, now)
    BY <1>3, InsertCases
  <2>2. a.index \in Matches(b, key)
    BY <1>3, <2>1, FirstIsLeast DEF Matches
  <2>3. /\ a.bucket.valid = s.valid /\ a.bucket.keys = s.keys
        /\ a.bucket.times = [s.times EXCEPT ![a.index] = now]
    BY <1>1, <2>1 DEF Refresh, Bucket
  <2>4. s.valid[i] /\ b.valid[i]
    BY <1>1, <1>2, <2>3
  <2>5. s.times \in [Slots -> 0..MaxTime]
    BY <1>1 DEF Bucket
  <2>6. /\ a.index \in Slots /\ b.valid[a.index] /\ b.keys[a.index] = key
    BY <2>2 DEF Matches
  <2>7. b.keys[i] = key => i = a.index
    BY <2>4, <2>6 DEF Unique
  <2> HIDE DEF a, s
  <2> QED
    BY <1>1, <2>3, <2>4, <2>5, <2>6, <2>7
<1>4. CASE Matches(b, key) = {}
  <2>1. a.bucket = Fill(s, a.index, key, link, now)
    BY <1>4, InsertCases
  <2>2. /\ a.bucket.valid = [s.valid EXCEPT ![a.index] = TRUE]
        /\ a.bucket.keys = [s.keys EXCEPT ![a.index] = key]
        /\ a.bucket.times = [s.times EXCEPT ![a.index] = now]
    BY <2>1 DEF Fill
  <2>3. /\ s.valid \in [Slots -> BOOLEAN] /\ s.keys \in [Slots -> Hashes \cup {0}]
        /\ s.times \in [Slots -> 0..MaxTime]
    BY <1>1 DEF Bucket
  <2>4. b.valid[i] => b.keys[i] # key
    BY <1>4 DEF Matches
  <2> HIDE DEF a, s
  <2> QED
    BY <1>1, <1>2, <2>2, <2>3, <2>4
<1> QED
  BY <1>3, <1>4

----------------------------------------------------------------------------
(* The map and the counters.                                               *)

\* A hash selects one of the buckets.
LEMMA HashSelectsBucket ==
  ASSUME NEW hash \in Hashes
  PROVE  hash \in Nat /\ BucketOf(hash) \in BucketIndices
<1>1. hash \in Nat
  BY MapAssumption DEF Hashes
<1> QED
  BY <1>1, MapAssumption DEF BucketOf, BucketIndices

\* A counter stays a uint32_t.
LEMMA BumpIsUint ==
  ASSUME NEW c \in 0..(CounterModulus - 1)
  PROVE  Bump(c) \in 0..(CounterModulus - 1)
  BY MapAssumption DEF Bump

\* A step is the processing of a record, the passing of time, or no step.
LEMMA StepCases ==
  ASSUME [Next]_vars
  PROVE  \/ \E hash \in Hashes, link \in Links : ProcessRecord(hash, link)
         \/ Tick
         \/ UNCHANGED vars
<1>1. \A f \in Flows : HashOf[f] \subseteq Hashes
  BY DEF Hashes
<1> QED
  BY <1>1 DEF Next

\* Every variable keeps its type in a step.
LEMMA TypeKept ==
  TypeOK /\ [Next]_vars => TypeOK'
<1> SUFFICES ASSUME TypeOK, [Next]_vars
             PROVE  TypeOK'
  OBVIOUS
<1>1. ASSUME NEW hash \in Hashes, NEW link \in Links,
             ProcessRecord(hash, link)
      PROVE  TypeOK'
  <2> DEFINE n == BucketOf(hash)
             answer == Insert(buckets[n], hash, link, clock)
  <2>1. n \in BucketIndices /\ buckets[n] \in Bucket
    BY HashSelectsBucket DEF TypeOK
  <2>2. answer.bucket \in Bucket /\ answer.result \in Results
    BY <2>1, InsertType DEF TypeOK
  <2>3. /\ buckets' = [buckets EXCEPT ![n] = answer.bucket]
        /\ result' = answer.result
        /\ lastSeen' = [lastSeen EXCEPT ![hash] = clock]
        /\ UNCHANGED clock
    BY <1>1 DEF ProcessRecord, MapInsert
  <2>4. /\ inserted' \in {inserted, Bump(inserted)}
        /\ replaced' \in {replaced, Bump(replaced)}
        /\ deduplicated' \in {deduplicated, Bump(deduplicated)}
    BY <1>1 DEF ProcessRecord, Count
  <2> HIDE DEF n, answer
  <2>5. buckets' \in [BucketIndices -> Bucket]
    BY <2>1, <2>2, <2>3 DEF TypeOK
  <2>6. /\ inserted' \in 0..(CounterModulus - 1)
        /\ replaced' \in 0..(CounterModulus - 1)
        /\ deduplicated' \in 0..(CounterModulus - 1)
    BY <2>4, BumpIsUint DEF TypeOK
  <2>7. lastSeen' \in [Hashes -> 0..MaxTime \cup {Never}]
    BY <2>3 DEF TypeOK
  <2> QED
    BY <2>2, <2>3, <2>5, <2>6, <2>7 DEF TypeOK
<1>2. CASE Tick
  BY <1>2, MapAssumption DEF Tick, counters, TypeOK
<1>3. CASE UNCHANGED vars
  BY <1>3 DEF vars, counters, TypeOK
<1> QED
  BY <1>1, <1>2, <1>3, StepCases

\* The inductive invariant: an exact time needs the one slot per hash, since
\* insert refreshes only the first slot it finds.
IInv == TypeOK /\ UniqueKeys /\ TimesAreExact

\* The empty map satisfies the inductive invariant.
LEMMA InitHolds == Init => IInv
<1> SUFFICES ASSUME Init
             PROVE  IInv
  OBVIOUS
<1>1. EmptyBucket(AnyLink) \in Bucket
  BY MapAssumption DEF EmptyBucket, Bucket
<1>2. TypeOK
  BY <1>1, MapAssumption DEF Init, TypeOK, Results, Never
<1>3. \A n \in BucketIndices, i \in Slots : ~buckets[n].valid[i]
  BY DEF Init, EmptyBucket
<1> QED
  BY <1>2, <1>3 DEF IInv, UniqueKeys, TimesAreExact

\* A record's insert keeps one slot per hash, and its exact time.
LEMMA RecordKeeps ==
  ASSUME IInv, NEW hash \in Hashes, NEW link \in Links,
         ProcessRecord(hash, link)
  PROVE  UniqueKeys' /\ TimesAreExact'
<1> DEFINE n == BucketOf(hash)
           c == Insert(buckets[n], hash, link, clock).bucket
<1>1. /\ n \in BucketIndices /\ buckets[n] \in Bucket
      /\ clock \in 0..MaxTime
      /\ buckets \in [BucketIndices -> Bucket]
      /\ lastSeen \in [Hashes -> 0..MaxTime \cup {Never}]
  BY HashSelectsBucket DEF IInv, TypeOK
<1>2. Unique(buckets[n])
  BY <1>1 DEF IInv, UniqueKeys, Unique
<1>3. Unique(c)
  BY <1>1, <1>2, InsertKeepsUnique
<1>4. \A i \in Slots : c.valid[i] =>
        \/ c.keys[i] = hash /\ c.times[i] = clock
        \/ /\ c.keys[i] # hash
           /\ buckets[n].valid[i] /\ c.keys[i] = buckets[n].keys[i]
           /\ c.times[i] = buckets[n].times[i]
  BY <1>1, <1>2, InsertSetsTime
<1>5. /\ buckets' = [buckets EXCEPT ![n] = c]
      /\ lastSeen' = [lastSeen EXCEPT ![hash] = clock]
  BY DEF ProcessRecord, MapInsert
<1>6. n = BucketOf(hash)
  OBVIOUS
<1> HIDE DEF n, c
<1>7. /\ buckets'[n] = c
      /\ \A m \in BucketIndices : m # n => buckets'[m] = buckets[m]
      /\ lastSeen'[hash] = clock
      /\ \A k \in Hashes : k # hash => lastSeen'[k] = lastSeen[k]
  BY <1>1, <1>5
<1>8. UniqueKeys'
  BY <1>3, <1>7 DEF IInv, UniqueKeys, Unique
<1>9. ASSUME NEW m \in BucketIndices, NEW i \in Slots, buckets'[m].valid[i]
      PROVE  /\ buckets'[m].keys[i] \in Hashes
             /\ BucketOf(buckets'[m].keys[i]) = m
             /\ buckets'[m].times[i] = lastSeen'[buckets'[m].keys[i]]
  <2>1. CASE m = n /\ c.keys[i] = hash
    BY <1>4, <1>6, <1>7, <1>9, <2>1
  <2>2. CASE m = n /\ c.keys[i] # hash
    <3>1. /\ buckets[n].valid[i] /\ c.keys[i] = buckets[n].keys[i]
          /\ c.times[i] = buckets[n].times[i]
      BY <1>4, <1>7, <1>9, <2>2
    <3>2. /\ c.keys[i] \in Hashes /\ BucketOf(c.keys[i]) = n
          /\ c.times[i] = lastSeen[c.keys[i]]
      BY <1>1, <3>1 DEF IInv, TimesAreExact
    <3> QED
      BY <1>7, <2>2, <3>2
  <2>3. CASE m # n
    <3>1. /\ buckets[m].keys[i] \in Hashes /\ BucketOf(buckets[m].keys[i]) = m
          /\ buckets[m].times[i] = lastSeen[buckets[m].keys[i]]
      BY <1>7, <1>9, <2>3 DEF IInv, TimesAreExact
    <3> QED
      BY <1>6, <1>7, <2>3, <3>1
  <2> QED
    BY <2>1, <2>2, <2>3
<1> QED
  BY <1>8, <1>9 DEF TimesAreExact

\* The inductive invariant is kept by every step.
LEMMA StepKeeps == IInv /\ [Next]_vars => IInv'
<1> SUFFICES ASSUME IInv, [Next]_vars
             PROVE  IInv'
  OBVIOUS
<1>1. TypeOK'
  BY TypeKept DEF IInv
<1>2. ASSUME NEW hash \in Hashes, NEW link \in Links,
             ProcessRecord(hash, link)
      PROVE  UniqueKeys' /\ TimesAreExact'
  BY <1>2, RecordKeeps
<1>3. ASSUME Tick \/ UNCHANGED vars
      PROVE  UniqueKeys' /\ TimesAreExact'
  BY <1>3 DEF Tick, vars, counters, IInv, UniqueKeys, TimesAreExact
<1>4. UniqueKeys' /\ TimesAreExact'
  BY <1>2, <1>3, StepCases
<1> QED
  BY <1>1, <1>4 DEF IInv

\* The inductive invariant holds in every reachable state.
LEMMA InvariantHolds == Spec => []IInv
  BY InitHolds, StepKeeps, PTL DEF Spec

\* Every variable of the deduplicator has its type, the counters their width.
THEOREM TypeCorrect == Spec => []TypeOK
  BY InvariantHolds, PTL DEF IInv

\* insert never makes a second valid slot for a hash.
THEOREM KeysAreUnique == Spec => []UniqueKeys
<1>1. IInv => UniqueKeys
  BY DEF IInv
<1> QED
  BY <1>1, InvariantHolds, PTL

\* A valid slot has the time its hash was last received.
THEOREM TimesMatchHistory == Spec => []TimesAreExact
<1>1. IInv => TimesAreExact
  BY DEF IInv
<1> QED
  BY <1>1, InvariantHolds, PTL

\* A record whose hash the map knows came within the timeout of the last one.
LEMMA KnownIsRecent ==
  ASSUME IInv, NEW hash \in Hashes, NEW link \in Links,
         ProcessRecord(hash, link), deduplicated' # deduplicated
  PROVE  lastSeen[hash] # Never /\ clock - lastSeen[hash] <= Timeout
<1> DEFINE n == BucketOf(hash)
           b == buckets[n]
           answer == Insert(b, hash, link, clock)
           at == First(Matches(b, hash))
<1>1. n \in BucketIndices /\ b \in Bucket /\ clock \in 0..MaxTime
  BY HashSelectsBucket DEF IInv, TypeOK
<1>2. answer.result = "ALREADY_PRESENT"
  BY DEF ProcessRecord, Count, MapInsert
<1>3. Matches(b, hash) # {} /\ ~IsTimedOut(b, at, clock)
  BY <1>1, <1>2, InsertCases
<1>4. at \in Slots /\ b.valid[at] /\ b.keys[at] = hash
  BY <1>3, FirstIsLeast DEF Matches
<1>5. b.times[at] = lastSeen[hash]
  BY <1>1, <1>4 DEF IInv, TimesAreExact
<1>6. b.times[at] \in 0..MaxTime
  BY <1>1, <1>4 DEF Bucket
<1> HIDE DEF b, at
<1> QED
  BY <1>1, <1>3, <1>5, <1>6, BucketAssumption, MapAssumption
  DEF IsTimedOut, Never

\* A record is dropped only within the timeout of one with the same hash.
THEOREM DropsOnlyRecent == Spec => DropsAreRecent
<1>1. IInv /\ [Next]_vars =>
        [\A h \in Hashes, l \in Links :
           ProcessRecord(h, l) /\ deduplicated' # deduplicated =>
             /\ lastSeen[h] # Never
             /\ clock - lastSeen[h] <= Timeout]_vars
  BY KnownIsRecent
<1> QED
  BY <1>1, InvariantHolds, PTL DEF Spec, DropsAreRecent

----------------------------------------------------------------------------
(* What an insert does to the slots that still count.                      *)

\* the slot has a key that has not timed out
LiveSlot(b, i, now) == b.valid[i] /\ ~IsTimedOut(b, i, now)

\* getVictimIndex: some slot has the least time, and the first such is chosen.
LEMMA VictimIsOldest ==
  ASSUME NEW b \in Bucket
  PROVE  /\ VictimIndex(b) \in Slots
         /\ \A j \in Slots : b.times[VictimIndex(b)] <= b.times[j]
<1> DEFINE R == OpToRel(<, Nat)
           T == {b.times[i] : i \in Slots}
           S == {i \in Slots : \A j \in Slots : b.times[i] <= b.times[j]}
<1>1. IsWellFoundedOn(R, Nat)
  BY NatLessThanWellFounded, Zenon
<1>2. \A m, n \in Nat : m < n => <<m, n>> \in R
  BY DEF OpToRel
<1>3. b.times \in [Slots -> Nat]
  BY MapAssumption DEF Bucket
<1>4. T \subseteq Nat /\ T # {}
  <2>1. 1 \in Slots
    BY BucketAssumption DEF Slots
  <2>2. b.times[1] \in T
    BY <2>1
  <2> QED
    BY <1>3, <2>2
<1> HIDE DEF R
<1>5. PICK x \in T : \A y \in T : ~(<<y, x>> \in R)
  BY <1>1, <1>4, WFMin, Zenon
<1>6. ASSUME NEW y \in T
      PROVE  x <= y
  <2>1. x \in Nat /\ y \in Nat
    BY <1>4
  <2>2. ~(y < x)
    BY <1>2, <1>5, <2>1
  <2> QED
    BY <2>1, <2>2
<1>7. PICK i \in Slots : x = b.times[i]
  OBVIOUS
<1>8. i \in S
  BY <1>6, <1>7
<1>9. S \in SUBSET Slots /\ S # {}
  BY <1>8
<1>10. First(S) \in S
  BY <1>9, FirstIsLeast
<1> QED
  BY <1>10 DEF VictimIndex

\* The scan removes no slot that still counts.
LEMMA ScanKeepsLive ==
  ASSUME NEW b \in Bucket, NEW key, NEW now
  PROVE  /\ \A i \in Slots : LiveSlot(b, i, now) => Scanned(b, key, now).valid[i]
         /\ Matches(b, key) = {} =>
              \A i \in Slots : Scanned(b, key, now).valid[i] => LiveSlot(b, i, now)
  BY DEF Scanned, LiveSlot, Matches, Bucket

\* the key was in a slot, which is all that changes
Found(b, a, key, now) ==
  \E at \in Slots :
    /\ b.valid[at] /\ b.keys[at] = key
    /\ a.bucket.keys = b.keys
    /\ a.bucket.valid[at]
    /\ \A i \in Slots : i # at /\ LiveSlot(b, i, now) => a.bucket.valid[i]
    /\ \A i \in Slots : a.bucket.valid[i] => b.valid[i]
    /\ a.result = IF IsTimedOut(b, at, now) THEN "INSERTED" ELSE "ALREADY_PRESENT"

\* the key, which no slot had, is in slot i; the other slots that count do so still
Placed(b, a, key, now, i) ==
  /\ \A j \in Slots : b.valid[j] => b.keys[j] # key
  /\ a.bucket.valid[i] /\ a.bucket.keys[i] = key
  /\ \A j \in Slots : j # i =>
       /\ a.bucket.keys[j] = b.keys[j]
       /\ LiveSlot(b, j, now) => a.bucket.valid[j]
       /\ a.bucket.valid[j] => b.valid[j]

\* Insert finds the key, puts it in a slot that does not count, or, when all
\* slots count, puts it in the one with the least time.
LEMMA InsertMoves ==
  ASSUME NEW b \in Bucket, NEW key \in Hashes, NEW link \in Links,
         NEW now \in 0..MaxTime
  PROVE  LET a == Insert(b, key, link, now)
         IN  \/ Found(b, a, key, now)
             \/ \E e \in Slots : /\ Placed(b, a, key, now, e)
                                 /\ ~LiveSlot(b, e, now)
                                 /\ a.result = "INSERTED"
             \/ \E v \in Slots : /\ Placed(b, a, key, now, v)
                                 /\ \A i \in Slots : /\ LiveSlot(b, i, now)
                                                     /\ b.times[v] <= b.times[i]
                                 /\ a.result = "REPLACED"
<1> DEFINE a == Insert(b, key, link, now)
           s == Scanned(b, key, now)
           hits == Matches(b, key)
<1>1. /\ s \in Bucket /\ s.keys = b.keys /\ s.times = b.times
      /\ \A i \in Slots : LiveSlot(b, i, now) => s.valid[i]
      /\ hits = {} => \A i \in Slots : s.valid[i] => LiveSlot(b, i, now)
      /\ \A i \in Slots : b.valid[i] /\ b.keys[i] = key => s.valid[i]
      /\ \A i \in Slots : s.valid[i] => b.valid[i]
  BY ScanOnlyRemoves, ScanKeepsLive
<1>2. s.valid \in [Slots -> BOOLEAN] /\ s.keys \in [Slots -> Hashes \cup {0}]
  BY <1>1 DEF Bucket
<1>3. hits \subseteq Slots
  BY DEF Matches
<1>4. CASE hits # {}
  <2>1. /\ a.index = First(hits)
        /\ a.bucket = Refresh(s, a.index, now)
        /\ a.result = IF IsTimedOut(b, a.index, now)
                      THEN "INSERTED" ELSE "ALREADY_PRESENT"
    BY <1>4, InsertCases
  <2>2. a.index \in hits
    BY <1>3, <1>4, <2>1, FirstIsLeast
  <2>3. /\ a.index \in Slots /\ b.valid[a.index] /\ b.keys[a.index] = key
    BY <2>2 DEF Matches
  <2>4. a.bucket.valid = s.valid /\ a.bucket.keys = s.keys
    BY <2>1 DEF Refresh
  <2> HIDE DEF a, s
  <2>5. Found(b, a, key, now)
    BY <1>1, <2>1, <2>3, <2>4 DEF Found
  <2> QED
    BY <2>5 DEF a
<1>5. CASE hits = {}
  <2>1. \A j \in Slots : b.valid[j] => b.keys[j] # key
    BY <1>5 DEF Matches
  <2>2. ASSUME NEW i \in Slots, a.bucket = Fill(s, i, key, link, now)
        PROVE  Placed(b, a, key, now, i)
    <3>1. /\ a.bucket.valid = [s.valid EXCEPT ![i] = TRUE]
          /\ a.bucket.keys = [s.keys EXCEPT ![i] = key]
      BY <2>2 DEF Fill
    <3> HIDE DEF a, s
    <3> QED
      BY <1>1, <1>2, <2>1, <3>1 DEF Placed
  <2>3. CASE IsFull(s)
    <3>1. /\ a.bucket = Fill(s, VictimIndex(s), key, link, now)
          /\ a.result = "REPLACED"
      BY <1>5, <2>3 DEF Insert
    <3>2. /\ VictimIndex(s) \in Slots
          /\ \A i \in Slots : s.times[VictimIndex(s)] <= s.times[i]
      BY <1>1, VictimIsOldest
    <3>3. \A i \in Slots : LiveSlot(b, i, now)
      BY <1>1, <1>5, <2>3 DEF IsFull
    <3>4. Placed(b, a, key, now, VictimIndex(s))
      BY <2>2, <3>1, <3>2
    <3> HIDE DEF a, s
    <3> QED
      BY <1>1, <3>1, <3>2, <3>3, <3>4 DEF a
  <2>4. CASE ~IsFull(s)
    <3> DEFINE holes == {i \in Slots : ~s.valid[i]}
    <3>1. /\ a.bucket = Fill(s, EmptyIndex(s), key, link, now)
          /\ a.result = "INSERTED"
      BY <1>5, <2>4 DEF Insert
    <3>2. holes # {} /\ holes \in SUBSET Slots
      BY <2>4 DEF IsFull
    <3>3. EmptyIndex(s) \in holes
      BY <3>2, FirstIsLeast DEF EmptyIndex
    <3>4. EmptyIndex(s) \in Slots /\ ~LiveSlot(b, EmptyIndex(s), now)
      BY <1>1, <3>3
    <3>5. Placed(b, a, key, now, EmptyIndex(s))
      BY <2>2, <3>1, <3>4
    <3> HIDE DEF a, s
    <3> QED
      BY <3>1, <3>4, <3>5 DEF a
  <2> QED
    BY <2>3, <2>4
<1> QED
  BY <1>4, <1>5

----------------------------------------------------------------------------
(* The map implements ExpiringCache.                                       *)

\* the slot i of its bucket has hash h
Has(h, i) == /\ buckets[BucketOf(h)].valid[i]
             /\ buckets[BucketOf(h)].keys[i] = h
InMap(h) == \E i \in Slots : Has(h, i)
\* the map still counts h as known
Alive(h) == InMap(h) /\ lastSeen[h] + Timeout >= clock

\* LiveSeen in terms of the history: what is remembered of a hash is when it was
\* last received, while it is in the map and has not timed out.
SeenIsHistory ==
  \A h \in Hashes :
    /\ LiveSeen[h] = IF Alive(h) THEN lastSeen[h] ELSE Never
    /\ InMap(h) => lastSeen[h] \in 0..MaxTime
    /\ \A i \in Slots : Has(h, i) =>
         /\ buckets[BucketOf(h)].times[i] = lastSeen[h]
         /\ \A j \in Slots : Has(h, j) => i = j

LEMMA LiveSeenMeans == IInv => SeenIsHistory
<1> SUFFICES ASSUME IInv, NEW h \in Hashes
             PROVE  /\ LiveSeen[h] = IF Alive(h) THEN lastSeen[h] ELSE Never
                    /\ InMap(h) => lastSeen[h] \in 0..MaxTime
                    /\ \A i \in Slots : Has(h, i) =>
                         /\ buckets[BucketOf(h)].times[i] = lastSeen[h]
                         /\ \A j \in Slots : Has(h, j) => i = j
  BY DEF SeenIsHistory
<1> DEFINE b == buckets[BucketOf(h)]
           live == {i \in Matches(b, h) : ~IsTimedOut(b, i, clock)}
<1>1. /\ BucketOf(h) \in BucketIndices /\ b \in Bucket
      /\ clock \in 0..MaxTime
      /\ lastSeen[h] \in 0..MaxTime \cup {Never}
  BY HashSelectsBucket DEF IInv, TypeOK
<1>2. \A i \in Slots : Has(h, i) => b.times[i] = lastSeen[h]
  BY <1>1 DEF IInv, TimesAreExact, Has
<1>3. \A i, j \in Slots : Has(h, i) /\ Has(h, j) => i = j
  BY <1>1 DEF IInv, UniqueKeys, Has
<1>4. b.times \in [Slots -> 0..MaxTime]
  BY <1>1 DEF Bucket
<1>5. InMap(h) => lastSeen[h] \in 0..MaxTime
  BY <1>2, <1>4 DEF InMap
<1>6. LiveSeen[h] = IF live = {} THEN Never ELSE b.times[First(live)]
  BY DEF LiveSeen
<1>7. \A i : i \in live <=> i \in Slots /\ Has(h, i) /\ lastSeen[h] + Timeout >= clock
  <2>1. ASSUME NEW i \in Slots, Has(h, i)
        PROVE  IsTimedOut(b, i, clock) <=> ~(lastSeen[h] + Timeout >= clock)
    BY <1>1, <1>2, <1>4, <2>1, BucketAssumption, MapAssumption DEF IsTimedOut
  <2> QED
    BY <2>1 DEF Matches, Has
<1>8. live # {} <=> Alive(h)
  BY <1>7 DEF Alive, InMap
<1>9. CASE live # {}
  <2>1. live \in SUBSET Slots
    BY <1>7
  <2>2. First(live) \in live
    BY <1>9, <2>1, FirstIsLeast
  <2>3. b.times[First(live)] = lastSeen[h]
    BY <1>2, <1>7, <2>2
  <2> QED
    BY <1>2, <1>3, <1>5, <1>6, <1>8, <1>9, <2>3
<1>10. CASE live = {}
  BY <1>2, <1>3, <1>5, <1>6, <1>8, <1>10
<1> QED
  BY <1>9, <1>10

LEMMA LiveSeenMeansNext == IInv' => SeenIsHistory'
BY LiveSeenMeans, PTL

\* A slot that counts has a hash of its bucket that is remembered, and a hash
\* that is remembered is in a slot that counts.
LEMMA SlotsAndHashes ==
  ASSUME IInv, NEW n \in BucketIndices
  PROVE  /\ \A i \in Slots : LiveSlot(buckets[n], i, clock) =>
              /\ buckets[n].keys[i] \in Hashes
              /\ BucketOf(buckets[n].keys[i]) = n
              /\ Has(buckets[n].keys[i], i)
              /\ Alive(buckets[n].keys[i])
              /\ buckets[n].times[i] = lastSeen[buckets[n].keys[i]]
         /\ \A h \in Hashes, i \in Slots : BucketOf(h) = n /\ Has(h, i) =>
              (LiveSlot(buckets[n], i, clock) <=> Alive(h))
<1> DEFINE b == buckets[n]
<1>1. b \in Bucket /\ clock \in 0..MaxTime
  BY DEF IInv, TypeOK
<1>2. b.times \in [Slots -> 0..MaxTime]
  BY <1>1 DEF Bucket
<1>3. ASSUME NEW h \in Hashes, NEW i \in Slots, BucketOf(h) = n, Has(h, i)
      PROVE  LiveSlot(b, i, clock) <=> Alive(h)
  <2>1. b.valid[i] /\ b.times[i] = lastSeen[h]
    BY <1>3, LiveSeenMeans DEF SeenIsHistory, Has
  <2>2. b.times[i] \in 0..MaxTime
    BY <1>2
  <2>3. IsTimedOut(b, i, clock) <=> ~(lastSeen[h] + Timeout >= clock)
    BY <1>1, <2>1, <2>2, BucketAssumption, MapAssumption DEF IsTimedOut
  <2>4. InMap(h)
    BY <1>3 DEF InMap
  <2> QED
    BY <2>1, <2>3, <2>4 DEF LiveSlot, Alive
<1>4. ASSUME NEW i \in Slots, LiveSlot(b, i, clock)
      PROVE  /\ b.keys[i] \in Hashes /\ BucketOf(b.keys[i]) = n
             /\ Has(b.keys[i], i)
             /\ Alive(b.keys[i])
             /\ b.times[i] = lastSeen[b.keys[i]]
  <2>1. /\ b.keys[i] \in Hashes /\ BucketOf(b.keys[i]) = n
        /\ b.times[i] = lastSeen[b.keys[i]]
    BY <1>4 DEF LiveSlot, IInv, TimesAreExact
  <2>2. Has(b.keys[i], i)
    BY <1>4, <2>1 DEF LiveSlot, Has
  <2> QED
    BY <1>3, <1>4, <2>1, <2>2
<1> QED
  BY <1>3, <1>4

\* The instance counts with a Cardinality of its own.
LEMMA SameCount == \A S : Cache!Cardinality(S) = Cardinality(S)
BY Zenon DEF Cardinality, Cache!Cardinality, IsFiniteSet, Cache!IsFiniteSet

\* How many hashes of a bucket are remembered: as many as it has slots when all
\* slots count, and fewer when one does not.
LEMMA RememberedCount ==
  ASSUME IInv, NEW hash \in Hashes
  PROVE  LET b == buckets[BucketOf(hash)]
             card == Cardinality(Cache!Remembered(hash))
         IN  /\ (\A i \in Slots : LiveSlot(b, i, clock)) => card = KeysPerBucket
             /\ (\E i \in Slots : ~LiveSlot(b, i, clock)) => card < KeysPerBucket
<1> DEFINE n == BucketOf(hash)
           b == buckets[n]
           R == Cache!Remembered(hash)
           L == {i \in Slots : LiveSlot(b, i, clock)}
           f == [i \in L |-> b.keys[i]]
<1>1. n \in BucketIndices
  BY HashSelectsBucket
<1>2. \A h : h \in R <=> h \in Hashes /\ BucketOf(h) = n /\ Alive(h)
  <2>1. \A h \in Hashes : LiveSeen[h] # Never <=> Alive(h)
    BY LiveSeenMeans, MapAssumption DEF SeenIsHistory, Alive, Never
  <2> QED
    BY <2>1 DEF Cache!Remembered
<1>3. \A i \in L : f[i] \in R
  BY <1>1, <1>2, SlotsAndHashes
<1>4. \A h \in R : \E i \in L : f[i] = h
  <2> SUFFICES ASSUME NEW h \in R PROVE \E i \in L : f[i] = h
    OBVIOUS
  <2>1. h \in Hashes /\ BucketOf(h) = n /\ Alive(h)
    BY <1>2
  <2>2. PICK i \in Slots : Has(h, i)
    BY <2>1 DEF Alive, InMap
  <2>3. LiveSlot(b, i, clock)
    BY <1>1, <2>1, <2>2, SlotsAndHashes
  <2>4. b.keys[i] = h
    BY <2>1, <2>2 DEF Has
  <2> QED
    BY <2>3, <2>4
<1>5. \A i, j \in L : f[i] = f[j] => i = j
  BY <1>1 DEF LiveSlot, IInv, UniqueKeys
<1>6. f \in Surjection(L, R) /\ f \in Injection(L, R)
  BY <1>3, <1>4, <1>5 DEF Surjection, Injection, IsInjective
<1>7. IsFiniteSet(Slots) /\ Cardinality(Slots) = KeysPerBucket
  BY BucketAssumption, FS_Interval DEF Slots
<1>8. IsFiniteSet(L) /\ Cardinality(L) <= Cardinality(Slots)
      /\ (Cardinality(Slots) = Cardinality(L) => Slots = L)
  BY <1>7, FS_Subset
<1>9. IsFiniteSet(R) /\ Cardinality(R) = Cardinality(L)
  BY <1>6, <1>8, FS_Surjection
<1>10. Cardinality(L) \in Nat
  BY <1>8, FS_CardinalityType
<1>11. (\A i \in Slots : LiveSlot(b, i, clock)) => L = Slots
  OBVIOUS
<1>12. (\E i \in Slots : ~LiveSlot(b, i, clock)) => L # Slots
  OBVIOUS
<1> HIDE DEF L, R
<1>13. (\A i \in Slots : LiveSlot(b, i, clock)) => Cardinality(R) = KeysPerBucket
  BY <1>7, <1>9, <1>11
<1>14. (\E i \in Slots : ~LiveSlot(b, i, clock)) => Cardinality(R) < KeysPerBucket
  BY <1>7, <1>8, <1>9, <1>10, <1>12, BucketAssumption
<1> QED
  BY <1>13, <1>14 DEF R

\* the step of a record: c is the bucket it leaves
Wrote(hash, c) ==
  /\ UNCHANGED clock
  /\ lastSeen' = [lastSeen EXCEPT ![hash] = clock]
  /\ buckets' = [buckets EXCEPT ![BucketOf(hash)] = c]

Holds(c, i, k) == c.valid[i] /\ c.keys[i] = k

\* What the map remembers after a record: its own hash, as received now, and of
\* the other hashes what it remembered of them, as long as their slots stay.
LEMMA OwnSeen ==
  ASSUME IInv, IInv', NEW hash \in Hashes, NEW c, Wrote(hash, c),
         NEW i \in Slots, Holds(c, i, hash)
  PROVE  LiveSeen'[hash] = clock
<1>1. /\ BucketOf(hash) \in BucketIndices
      /\ buckets \in [BucketIndices -> Bucket]
      /\ lastSeen \in [Hashes -> 0..MaxTime \cup {Never}]
      /\ clock \in 0..MaxTime
  BY HashSelectsBucket DEF IInv, TypeOK
<1>2. buckets'[BucketOf(hash)] = c /\ lastSeen'[hash] = clock
  BY <1>1 DEF Wrote
<1>3. InMap(hash)'
  BY <1>2 DEF InMap, Has, Holds
<1>4. lastSeen'[hash] + Timeout >= clock'
  BY <1>1, <1>2, BucketAssumption, MapAssumption DEF Wrote
<1>5. Alive(hash)'
  BY <1>3, <1>4 DEF Alive
<1> QED
  BY <1>2, <1>5, LiveSeenMeansNext DEF SeenIsHistory

LEMMA OtherKept ==
  ASSUME IInv, IInv', NEW hash \in Hashes, NEW c, Wrote(hash, c),
         NEW k \in Hashes, k # hash,
         \A j \in Slots : Holds(c, j, k) => Holds(buckets[BucketOf(hash)], j, k),
         \A j \in Slots : /\ LiveSlot(buckets[BucketOf(hash)], j, clock)
                          /\ buckets[BucketOf(hash)].keys[j] = k
                          => Holds(c, j, k)
  PROVE  LiveSeen'[k] = LiveSeen[k]
<1> DEFINE n == BucketOf(hash)
           b == buckets[n]
<1>1. /\ n \in BucketIndices /\ BucketOf(k) \in BucketIndices
      /\ buckets \in [BucketIndices -> Bucket]
      /\ lastSeen \in [Hashes -> 0..MaxTime \cup {Never}]
  BY HashSelectsBucket DEF IInv, TypeOK
<1>2. /\ buckets'[n] = c
      /\ \A m \in BucketIndices : m # n => buckets'[m] = buckets[m]
      /\ lastSeen'[k] = lastSeen[k] /\ clock' = clock
  BY <1>1 DEF Wrote
<1>3. InMap(k)' => InMap(k)
  BY <1>1, <1>2 DEF InMap, Has, Holds
<1>4. Alive(k)' => Alive(k)
  BY <1>2, <1>3 DEF Alive
<1>5. /\ LiveSeen[k] = IF Alive(k) THEN lastSeen[k] ELSE Never
      /\ LiveSeen'[k] = IF Alive(k)' THEN lastSeen'[k] ELSE Never
  BY LiveSeenMeans, LiveSeenMeansNext DEF SeenIsHistory
<1>6. ASSUME Alive(k)
      PROVE  Alive(k)'
  <2>1. PICK i \in Slots : Has(k, i)
    BY <1>6 DEF Alive, InMap
  <2>2. CASE BucketOf(k) = n
    <3>1. LiveSlot(b, i, clock) /\ b.keys[i] = k
      BY <1>1, <1>6, <2>1, <2>2, SlotsAndHashes DEF Has
    <3>2. Has(k, i)'
      BY <1>2, <2>2, <3>1 DEF Has, Holds
    <3> QED
      BY <1>2, <1>6, <3>2 DEF Alive, InMap
  <2>3. CASE BucketOf(k) # n
    <3>1. Has(k, i)'
      BY <1>1, <1>2, <2>1, <2>3 DEF Has
    <3> QED
      BY <1>2, <1>6, <3>1 DEF Alive, InMap
  <2> QED
    BY <2>2, <2>3
<1> QED
  BY <1>2, <1>4, <1>5, <1>6

LEMMA OtherGone ==
  ASSUME IInv, IInv', NEW hash \in Hashes, NEW c, Wrote(hash, c),
         NEW k \in Hashes, BucketOf(k) = BucketOf(hash),
         \A j \in Slots : ~Holds(c, j, k)
  PROVE  LiveSeen'[k] = Never
<1>1. /\ BucketOf(hash) \in BucketIndices
      /\ buckets \in [BucketIndices -> Bucket]
  BY HashSelectsBucket DEF IInv, TypeOK
<1>2. buckets'[BucketOf(hash)] = c
  BY <1>1 DEF Wrote
<1>3. ~Alive(k)'
  BY <1>2 DEF Alive, InMap, Has, Holds
<1> QED
  BY <1>3, LiveSeenMeansNext DEF SeenIsHistory

\* the answer as ExpiringCache words it
Answer == CASE result = "none" -> "none"
            [] result = "ALREADY_PRESENT" -> "known"
            [] OTHER -> "new"

\* A record of a hash that is in the map: known while it has not timed out, else
\* new, and its own slot is room for it.
LEMMA FoundIsCached ==
  ASSUME IInv, IInv', NEW hash \in Hashes, NEW a, Wrote(hash, a.bucket),
         result' = a.result,
         Found(buckets[BucketOf(hash)], a, hash, clock)
  PROVE  Cache!Known(hash) \/ Cache!New(hash)
<1> DEFINE n == BucketOf(hash)
           b == buckets[n]
           c == a.bucket
<1>1. PICK at \in Slots :
        /\ b.valid[at] /\ b.keys[at] = hash
        /\ c.keys = b.keys
        /\ c.valid[at]
        /\ \A i \in Slots : i # at /\ LiveSlot(b, i, clock) => c.valid[i]
        /\ \A i \in Slots : c.valid[i] => b.valid[i]
        /\ a.result = IF IsTimedOut(b, at, clock)
                      THEN "INSERTED" ELSE "ALREADY_PRESENT"
  BY Zenon DEF Found
<1>2. LiveSeen'[hash] = clock
  <2>1. Holds(c, at, hash)
    BY <1>1 DEF Holds
  <2> QED
    BY <2>1, OwnSeen
<1>3. ASSUME NEW k \in Hashes, k # hash
      PROVE  LiveSeen'[k] = LiveSeen[k]
  <2>1. \A j \in Slots : Holds(c, j, k) => Holds(b, j, k)
    BY <1>1 DEF Holds
  <2>2. \A j \in Slots : LiveSlot(b, j, clock) /\ b.keys[j] = k => Holds(c, j, k)
    BY <1>1, <1>3 DEF Holds
  <2> QED
    BY <1>3, <2>1, <2>2, OtherKept
<1>4. LiveSeen' = [LiveSeen EXCEPT ![hash] = clock]
  BY <1>2, <1>3 DEF LiveSeen
<1>5. n \in BucketIndices /\ Has(hash, at)
  BY <1>1, HashSelectsBucket DEF Has
<1>6. LiveSlot(b, at, clock) <=> Alive(hash)
  BY <1>5, SlotsAndHashes
<1>7. LiveSeen[hash] # Never <=> Alive(hash)
  BY LiveSeenMeans, MapAssumption DEF SeenIsHistory, Alive, Never
<1>8. CASE IsTimedOut(b, at, clock)
  <2>1. ~LiveSlot(b, at, clock)
    BY <1>8 DEF LiveSlot
  <2>2. Cardinality(Cache!Remembered(hash)) < KeysPerBucket
    BY <2>1, RememberedCount
  <2>3. Answer' = "new"
    BY <1>1, <1>8 DEF Answer
  <2>4. LiveSeen[hash] = Never
    BY <1>6, <1>7, <2>1
  <2> QED
    BY <1>4, <2>2, <2>3, <2>4, SameCount DEF Cache!New, Answer, Wrote
<1>9. CASE ~IsTimedOut(b, at, clock)
  <2>1. LiveSlot(b, at, clock)
    BY <1>1, <1>9 DEF LiveSlot
  <2>2. Answer' = "known"
    BY <1>1, <1>9 DEF Answer
  <2>3. LiveSeen[hash] # Never
    BY <1>6, <1>7, <2>1
  <2> QED
    BY <1>4, <2>2, <2>3 DEF Cache!Known, Answer, Wrote
<1> QED
  BY <1>8, <1>9

\* A record of a hash that is in no slot is new; what was in the slot it gets is
\* forgotten, and nothing else is.
LEMMA PlacedSeen ==
  ASSUME IInv, IInv', NEW hash \in Hashes, NEW a, Wrote(hash, a.bucket),
         NEW i \in Slots,
         Placed(buckets[BucketOf(hash)], a, hash, clock, i)
  PROVE  /\ LiveSeen[hash] = Never
         /\ LiveSeen'[hash] = clock
         /\ \A k \in Hashes : k # hash =>
              LiveSeen'[k] = IF /\ LiveSlot(buckets[BucketOf(hash)], i, clock)
                                /\ buckets[BucketOf(hash)].keys[i] = k
                             THEN Never ELSE LiveSeen[k]
<1> DEFINE n == BucketOf(hash)
           b == buckets[n]
           c == a.bucket
<1>1. /\ \A j \in Slots : b.valid[j] => b.keys[j] # hash
      /\ c.valid[i] /\ c.keys[i] = hash
      /\ \A j \in Slots : j # i =>
           /\ c.keys[j] = b.keys[j]
           /\ LiveSlot(b, j, clock) => c.valid[j]
           /\ c.valid[j] => b.valid[j]
  BY Zenon DEF Placed
<1>2. ~Alive(hash)
  BY <1>1 DEF Alive, InMap, Has
<1>3. LiveSeen[hash] = Never
  BY <1>2, LiveSeenMeans DEF SeenIsHistory
<1>4. LiveSeen'[hash] = clock
  <2>1. Holds(c, i, hash)
    BY <1>1 DEF Holds
  <2> QED
    BY <2>1, OwnSeen
<1>5. n \in BucketIndices
  BY HashSelectsBucket
<1>6. ASSUME NEW k \in Hashes, k # hash
      PROVE  LiveSeen'[k] = IF LiveSlot(b, i, clock) /\ b.keys[i] = k
                            THEN Never ELSE LiveSeen[k]
  <2>1. \A j \in Slots : Holds(c, j, k) => Holds(b, j, k)
    BY <1>1, <1>6 DEF Holds
  <2>2. CASE LiveSlot(b, i, clock) /\ b.keys[i] = k
    <3>1. BucketOf(k) = n
      BY <1>5, <2>2, SlotsAndHashes
    <3>2. \A j \in Slots : Holds(b, j, k) => i = j
      BY <1>5, <2>2 DEF LiveSlot, IInv, UniqueKeys, Holds
    <3>3. \A j \in Slots : ~Holds(c, j, k)
      BY <1>1, <1>6, <2>1, <3>2 DEF Holds
    <3> QED
      BY <2>2, <3>1, <3>3, OtherGone
  <2>3. CASE ~(LiveSlot(b, i, clock) /\ b.keys[i] = k)
    <3>1. \A j \in Slots : LiveSlot(b, j, clock) /\ b.keys[j] = k
            => Holds(c, j, k)
      BY <1>1, <2>3 DEF Holds
    <3>2. LiveSeen'[k] = LiveSeen[k]
      BY <1>6, <2>1, <3>1, OtherKept
    <3> QED
      BY <2>3, <3>2
  <2> QED
    BY <2>2, <2>3
<1> QED
  BY <1>3, <1>4, <1>6

\* With a slot that does not count there is room for it.
LEMMA FreeIsCached ==
  ASSUME IInv, IInv', NEW hash \in Hashes, NEW a, Wrote(hash, a.bucket),
         result' = a.result, a.result = "INSERTED",
         NEW i \in Slots, ~LiveSlot(buckets[BucketOf(hash)], i, clock),
         Placed(buckets[BucketOf(hash)], a, hash, clock, i)
  PROVE  Cache!New(hash)
<1>1. /\ LiveSeen[hash] = Never
      /\ LiveSeen'[hash] = clock
      /\ \A k \in Hashes : k # hash => LiveSeen'[k] = LiveSeen[k]
  BY PlacedSeen
<1>2. LiveSeen' = [LiveSeen EXCEPT ![hash] = clock]
  BY <1>1 DEF LiveSeen
<1>3. Cardinality(Cache!Remembered(hash)) < KeysPerBucket
  BY RememberedCount
<1>4. Answer' = "new"
  BY DEF Answer
<1> QED
  BY <1>1, <1>2, <1>3, <1>4, SameCount DEF Cache!New, Answer, Wrote

\* With none, the hash received longest ago makes room.
LEMMA VictimIsCached ==
  ASSUME IInv, IInv', NEW hash \in Hashes, NEW a, Wrote(hash, a.bucket),
         result' = a.result, a.result = "REPLACED",
         NEW v \in Slots, Placed(buckets[BucketOf(hash)], a, hash, clock, v),
         \A i \in Slots :
           /\ LiveSlot(buckets[BucketOf(hash)], i, clock)
           /\ buckets[BucketOf(hash)].times[v] <= buckets[BucketOf(hash)].times[i]
  PROVE  Cache!NewForOldest(hash)
<1> DEFINE n == BucketOf(hash)
           b == buckets[n]
           w == b.keys[v]
           R == Cache!Remembered(hash)
<1>1. n \in BucketIndices
  BY HashSelectsBucket
<1>2. /\ w \in Hashes /\ BucketOf(w) = n /\ Alive(w)
      /\ b.times[v] = lastSeen[w]
  BY <1>1, SlotsAndHashes
<1>3. /\ LiveSeen[hash] = Never
      /\ LiveSeen'[hash] = clock
      /\ \A k \in Hashes : k # hash =>
           LiveSeen'[k] = IF w = k THEN Never ELSE LiveSeen[k]
  BY PlacedSeen
<1>4. \A h \in Hashes : /\ Alive(h) => LiveSeen[h] = lastSeen[h]
                        /\ LiveSeen[h] # Never <=> Alive(h)
  BY LiveSeenMeans, MapAssumption DEF SeenIsHistory, Alive, Never
<1>5. w # hash
  BY <1>2, <1>3, <1>4
<1>6. w \in R
  BY <1>2, <1>4 DEF Cache!Remembered
<1>7. ASSUME NEW j \in R
      PROVE  LiveSeen[w] <= LiveSeen[j]
  <2>1. j \in Hashes /\ BucketOf(j) = n /\ Alive(j)
    BY <1>4 DEF Cache!Remembered
  <2>2. PICK i \in Slots : Has(j, i)
    BY <2>1 DEF Alive, InMap
  <2>3. b.times[i] = lastSeen[j]
    BY <2>1, <2>2, LiveSeenMeans DEF SeenIsHistory
  <2> QED
    BY <1>2, <1>4, <2>1, <2>3
<1>8. LiveSeen' = [LiveSeen EXCEPT ![w] = Never, ![hash] = clock]
  BY <1>2, <1>3, <1>5 DEF LiveSeen
<1>9. Cardinality(R) = KeysPerBucket
  BY RememberedCount
<1>10. Answer' = "new"
  BY DEF Answer
<1> HIDE DEF w, R
<1>11. \E x \in R : /\ \A j \in R : LiveSeen[x] <= LiveSeen[j]
                    /\ LiveSeen' = [LiveSeen EXCEPT ![x] = Never, ![hash] = clock]
  BY <1>6, <1>7, <1>8
<1> QED
  BY <1>3, <1>9, <1>10, <1>11, SameCount DEF Cache!NewForOldest, R, Answer, Wrote
\* The empty map remembers nothing.
LEMMA InitIsCached == Init => Cache!Init
<1> SUFFICES ASSUME Init PROVE Cache!Init
  OBVIOUS
<1>1. \A h \in Hashes : ~Alive(h)
  BY HashSelectsBucket DEF Init, Alive, InMap, Has, EmptyBucket
<1>2. \A h \in Hashes : LiveSeen[h] = Never
  BY <1>1, InitHolds, LiveSeenMeans DEF SeenIsHistory
<1>3. LiveSeen = [h \in Hashes |-> Never]
  BY <1>2 DEF LiveSeen
<1>4. clock = 0 /\ Answer = "none"
  BY DEF Init, Answer
<1> QED
  BY <1>3, <1>4 DEF Cache!Init, Answer

\* Time makes the map forget what it received more than Timeout ago.
LEMMA TickIsCached ==
  ASSUME IInv, IInv', Tick
  PROVE  Cache!Tick
<1>1. /\ clock' = clock + 1 /\ UNCHANGED <<buckets, result, lastSeen>>
      /\ clock \in 0..MaxTime
      /\ lastSeen \in [Hashes -> 0..MaxTime \cup {Never}]
  BY DEF Tick, counters, IInv, TypeOK
<1>2. ASSUME NEW k \in Hashes
      PROVE  LiveSeen'[k] = IF LiveSeen[k] # Never /\ LiveSeen[k] + Timeout < clock'
                            THEN Never ELSE LiveSeen[k]
  <2>1. /\ LiveSeen[k] = IF Alive(k) THEN lastSeen[k] ELSE Never
        /\ LiveSeen'[k] = IF Alive(k)' THEN lastSeen[k] ELSE Never
    BY <1>1, LiveSeenMeans, LiveSeenMeansNext DEF SeenIsHistory
  <2>2. Alive(k) => lastSeen[k] \in 0..MaxTime
    BY LiveSeenMeans DEF SeenIsHistory, Alive
  <2>3. InMap(k)' = InMap(k)
    BY <1>1 DEF InMap, Has
  <2>4. /\ Alive(k) <=> InMap(k) /\ lastSeen[k] + Timeout >= clock
        /\ Alive(k)' <=> InMap(k) /\ lastSeen[k] + Timeout >= clock + 1
    BY <1>1, <2>3 DEF Alive
  <2>5. lastSeen[k] \in Int /\ clock \in Int /\ Timeout \in Int
    BY <1>1, BucketAssumption DEF Never
  <2>6. CASE Alive(k)'
    <3>1. Alive(k) /\ ~(lastSeen[k] + Timeout < clock + 1)
      BY <2>4, <2>5, <2>6
    <3> QED
      BY <1>1, <2>1, <2>6, <3>1
  <2>7. CASE Alive(k) /\ ~Alive(k)'
    <3>1. lastSeen[k] + Timeout < clock + 1 /\ lastSeen[k] # Never
      BY <2>2, <2>4, <2>5, <2>7, MapAssumption DEF Never
    <3> QED
      BY <1>1, <2>1, <2>7, <3>1
  <2>8. CASE ~Alive(k) /\ ~Alive(k)'
    BY <2>1, <2>8
  <2> QED
    BY <2>6, <2>7, <2>8
<1>3. LiveSeen' = [k \in Hashes |->
                     IF LiveSeen[k] # Never /\ LiveSeen[k] + Timeout < clock'
                     THEN Never ELSE LiveSeen[k]]
  BY <1>2 DEF LiveSeen
<1>4. Answer' = Answer
  BY <1>1 DEF Answer
<1> QED
  BY <1>1, <1>3, <1>4 DEF Cache!Tick, Answer

\* Each record is one lookup of the cache.
LEMMA RecordIsCached ==
  ASSUME IInv, IInv', NEW hash \in Hashes, NEW link \in Links,
         ProcessRecord(hash, link)
  PROVE  Cache!Known(hash) \/ Cache!New(hash) \/ Cache!NewForOldest(hash)
<1> DEFINE b == buckets[BucketOf(hash)]
           a == MapInsert(hash, link)
<1>1. Wrote(hash, a.bucket) /\ result' = a.result
  BY DEF ProcessRecord, Wrote
<1>2. b \in Bucket /\ clock \in 0..MaxTime
  BY HashSelectsBucket DEF IInv, TypeOK
<1>3. a = Insert(b, hash, link, clock)
  BY DEF MapInsert
<1> HIDE DEF a
<1>4. \/ Found(b, a, hash, clock)
      \/ \E e \in Slots : /\ Placed(b, a, hash, clock, e)
                          /\ ~LiveSlot(b, e, clock)
                          /\ a.result = "INSERTED"
      \/ \E v \in Slots : /\ Placed(b, a, hash, clock, v)
                          /\ \A i \in Slots : /\ LiveSlot(b, i, clock)
                                              /\ b.times[v] <= b.times[i]
                          /\ a.result = "REPLACED"
  BY <1>2, <1>3, InsertMoves
<1>5. CASE Found(b, a, hash, clock)
  BY <1>1, <1>5, FoundIsCached
<1>6. CASE \E e \in Slots : /\ Placed(b, a, hash, clock, e)
                            /\ ~LiveSlot(b, e, clock)
                            /\ a.result = "INSERTED"
  BY <1>1, <1>6, FreeIsCached
<1>7. CASE \E v \in Slots : /\ Placed(b, a, hash, clock, v)
                            /\ \A i \in Slots : /\ LiveSlot(b, i, clock)
                                                /\ b.times[v] <= b.times[i]
                            /\ a.result = "REPLACED"
  BY <1>1, <1>7, VictimIsCached
<1> QED
  BY <1>4, <1>5, <1>6, <1>7

LEMMA StepIsCached == IInv /\ IInv' /\ [Next]_vars => [Cache!Next]_(Cache!cvars)
<1> SUFFICES ASSUME IInv, IInv', [Next]_vars
             PROVE  [Cache!Next]_(Cache!cvars)
  OBVIOUS
<1>1. ASSUME NEW hash \in Hashes, NEW link \in Links, ProcessRecord(hash, link)
      PROVE  Cache!Next
  BY <1>1, RecordIsCached DEF Cache!Next
<1>2. ASSUME Tick
      PROVE  Cache!Next
  BY <1>2, TickIsCached DEF Cache!Next
<1>3. ASSUME UNCHANGED vars
      PROVE  UNCHANGED Cache!cvars
  <2>1. UNCHANGED <<clock, LiveSeen, Answer>>
    BY <1>3 DEF vars, counters, LiveSeen, Answer, Matches, IsTimedOut
  <2> QED
    BY <2>1 DEF Cache!cvars, Answer
<1> QED
  BY <1>1, <1>2, <1>3, StepCases

\* The map of buckets and scans is the expiring cache that ExpiringCache
\* describes: timeouts, the removal of expired keys during a scan and the
\* replacement of the oldest key all follow from when keys were last received.
THEOREM CacheIsImplemented == Spec => ImplementsCache
<1>1. Spec => []IInv
  BY InvariantHolds
<1> QED
  BY <1>1, InitIsCached, StepIsCached, PTL DEF Spec, ImplementsCache, Cache!Spec


=============================================================================
