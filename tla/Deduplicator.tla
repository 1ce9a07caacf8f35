--------------------------- MODULE Deduplicator ---------------------------
(***************************************************************************)
(* The deduplicator module: Deduplicator::isDuplicate on the TimeoutHashMap *)
(* for each record of the input, in one thread.  The map is an array of    *)
(* TimeoutBuckets indexed by the low bits of a key's hash, and the hash    *)
(* stands for the key.                                                     *)
(*                                                                         *)
(* FlowKey has tail padding that isDuplicate leaves uninitialised, and all *)
(* of the struct is hashed: a flow may have several hashes.                *)
(***************************************************************************)
EXTENDS TimeoutBucket, FiniteSets

CONSTANTS
  NumBuckets,      \* 2^(bucketCountExponent - 3)
  Flows,           \* the values of FlowKey's fields
  HashOf,          \* the hashes each flow may have
  Links,           \* values of LINK_BIT_FIELD
  AnyLink,         \* the zeroed link of an empty slot
  CounterModulus,  \* 2^32: the counters are uint32_t
  MaxTime          \* bound: the steady clock

Hashes == UNION {HashOf[f] : f \in Flows}
Never == -1

ASSUME MapAssumption ==
  /\ NumBuckets \in Nat \ {0}
  /\ HashOf \in [Flows -> SUBSET Nat]
  /\ CounterModulus \in Nat \ {0}
  /\ MaxTime \in Nat

BucketIndices == 0..(NumBuckets - 1)
\* keyHash & M_BUCKET_MASK
BucketOf(hash) == hash % NumBuckets

VARIABLES
  buckets,       \* m_buckets
  clock,         \* steady_clock::now()
  inserted,      \* m_inserted
  replaced,      \* m_replaced
  deduplicated,  \* m_deduplicated
  result,        \* the InsertResult of the last record
  lastSeen       \* history: when each hash was last received

counters == <<inserted, replaced, deduplicated>>
vars == <<buckets, clock, counters, result, lastSeen>>

Init ==
  /\ buckets = [n \in BucketIndices |-> EmptyBucket(AnyLink)]
  /\ clock = 0
  /\ inserted = 0 /\ replaced = 0 /\ deduplicated = 0
  /\ result = "none"
  /\ lastSeen = [h \in Hashes |-> Never]

BumpPastEnd(c) == c + 1
\* c++ on a uint32_t
Bump(c) == (c + 1) % CounterModulus

\* isDuplicate with what the map answered
Count(answer, link) ==
  LET known == answer.result = "ALREADY_PRESENT"
      other == answer.bucket.values[answer.index] # link
  IN  \/ /\ answer.result = "INSERTED" \/ (known /\ ~other)
         /\ inserted' = Bump(inserted)
         /\ UNCHANGED <<replaced, deduplicated>>
      \/ /\ answer.result = "REPLACED"
         /\ replaced' = Bump(replaced)
         /\ UNCHANGED <<inserted, deduplicated>>
      \/ /\ known /\ other
         /\ deduplicated' = Bump(deduplicated)
         /\ UNCHANGED <<inserted, replaced>>

\* TimeoutHashMap::insert
MapInsert(hash, link) ==
  Insert(buckets[BucketOf(hash)], hash, link, clock)

\* processNextRecord: the record is sent on unless isDuplicate counts it in
\* m_deduplicated
ProcessRecord(hash, link) ==
  LET answer == MapInsert(hash, link)
  IN  /\ buckets' = [buckets EXCEPT ![BucketOf(hash)] = answer.bucket]
      /\ Count(answer, link)
      /\ result' = answer.result
      /\ lastSeen' = [lastSeen EXCEPT ![hash] = clock]
      /\ UNCHANGED clock

Tick ==
  /\ clock < MaxTime
  /\ clock' = clock + 1
  /\ UNCHANGED <<buckets, counters, result, lastSeen>>

Next ==
  \/ \E f \in Flows : \E hash \in HashOf[f], link \in Links :
       ProcessRecord(hash, link)
  \/ Tick

Spec == Init /\ [][Next]_vars

----------------------------------------------------------------------------
Results == {"none", "INSERTED", "REPLACED", "ALREADY_PRESENT"}

Bucket == [valid  : [Slots -> BOOLEAN],
           keys   : [Slots -> Hashes \cup {0}],
           values : [Slots -> Links \cup {AnyLink}],
           times  : [Slots -> 0..MaxTime]]

\* Every variable has its type; the counters stay uint32_t.
TypeOK ==
  /\ buckets \in [BucketIndices -> Bucket]
  /\ clock \in 0..MaxTime
  /\ inserted \in 0..(CounterModulus - 1)
  /\ replaced \in 0..(CounterModulus - 1)
  /\ deduplicated \in 0..(CounterModulus - 1)
  /\ result \in Results
  /\ lastSeen \in [Hashes -> 0..MaxTime \cup {Never}]

\* A hash is in one valid slot at most.  A second copy would keep an old time
\* and link that a later scan could find first: insert only looks for the first.
UniqueKeys ==
  \A n \in BucketIndices : \A i, j \in Slots :
    /\ buckets[n].valid[i] /\ buckets[n].valid[j]
    /\ buckets[n].keys[i] = buckets[n].keys[j]
    => i = j

\* A valid slot is in its key's bucket and carries the time the key was last
\* received, so neither an eviction nor a removal picks a key by an old time.
TimesAreExact ==
  \A n \in BucketIndices : \A i \in Slots :
    buckets[n].valid[i] =>
      /\ buckets[n].keys[i] \in Hashes /\ BucketOf(buckets[n].keys[i]) = n
      /\ buckets[n].times[i] = lastSeen[buckets[n].keys[i]]

\* A record is dropped only if one with its hash came at most Timeout before,
\* however often the slot changed hands in between.  README.md:28 of the module
\* says "with less than `--timeout` delay", but isTimedOut compares with `<`
\* (timeoutBucket.hpp:237): a record exactly Timeout later is dropped as well.
DropsAreRecent ==
  [][\A h \in Hashes, l \in Links :
       ProcessRecord(h, l) /\ deduplicated' # deduplicated =>
         /\ lastSeen[h] # Never
         /\ clock - lastSeen[h] <= Timeout]_vars

\* when a hash that the map still counts as live was last received
LiveSeen ==
  [h \in Hashes |->
     LET b == buckets[BucketOf(h)]
         live == {i \in Matches(b, h) : ~IsTimedOut(b, i, clock)}
     IN  IF live = {} THEN Never ELSE b.times[First(live)]]

Cache == INSTANCE ExpiringCache
  WITH Keys <- Hashes, Class <- BucketOf, Capacity <- KeysPerBucket,
       TTL <- Timeout, now <- clock, seen <- LiveSeen,
       answer <- CASE result = "none" -> "none"
                   [] result = "ALREADY_PRESENT" -> "known"
                   [] OTHER -> "new"

\* The map is an expiring cache: a key counts as known exactly while it was last
\* received at most Timeout ago and was not evicted, and a live key is evicted
\* only from a bucket full of live keys, the least recent one first.
ImplementsCache == Cache!Spec

----------------------------------------------------------------------------
(* What the documentation says.                                            *)

\* timeoutBucket.hpp:109: "If the keyValue pair already exists and has timed out,
\* it is updated": the link kept with a key is the one of the record that made
\* the map treat the key as new.
KeptLinkIsOpeners ==
  [][\A h \in Hashes, l \in Links :
       ProcessRecord(h, l) /\ result' # "ALREADY_PRESENT" =>
         \E i \in Slots : LET b == buckets'[BucketOf(h)] IN
           b.valid[i] /\ b.keys[i] = h /\ b.values[i] = l]_vars

=============================================================================
