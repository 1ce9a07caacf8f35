--------------------------- MODULE TimeoutBucket ---------------------------
(***************************************************************************)
(* TimeoutBucket::insert as an operator on buckets.  A bucket is a record  *)
(* of its arrays: valid (m_validBuckets), keys, values and times           *)
(* (m_expirationTime, which holds the time a key was last inserted).  The  *)
(* code has 8 slots, numbered from 0; here they are 1..KeysPerBucket.      *)
(***************************************************************************)
EXTENDS Integers

CONSTANTS
  KeysPerBucket,  \* KEYS_PER_BUCKET
  Timeout         \* M_TIMEOUT, small enough for a time plus it to be a time_point:
                  \* deduplicator.cpp:27 adds milliseconds to nanoseconds, unchecked

ASSUME BucketAssumption ==
  /\ KeysPerBucket \in Nat \ {0}
  /\ Timeout \in Nat

Slots == 1..KeysPerBucket

\* the constructor; keys and values are zeroed, a time is read only in a slot
\* that was set
EmptyBucket(value) ==
  [valid  |-> [i \in Slots |-> FALSE],
   keys   |-> [i \in Slots |-> 0],
   values |-> [i \in Slots |-> value],
   times  |-> [i \in Slots |-> 0]]

\* a slot never times out
NeverTimedOut(b, i, now) == FALSE
IsTimedOut(b, i, now) == b.times[i] + Timeout < now

MatchesUpToHole(b, key) ==
  {i \in Slots : b.keys[i] = key /\ \A j \in 1..i : b.valid[j]}
\* the valid slots with the key
Matches(b, key) == {i \in Slots : b.valid[i] /\ b.keys[i] = key}

First(S) == CHOOSE i \in S : \A j \in S : i <= j

\* The scan of any_of: up to the first match, or to the end when there is none,
\* valid slots with another key that have timed out are removed.
Scanned(b, key, now) ==
  LET hits == Matches(b, key)
      passed(i) == hits = {} \/ i < First(hits)
  IN  [valid  |-> [i \in Slots |->
                    b.valid[i] /\ ~(/\ b.keys[i] # key
                                    /\ passed(i)
                                    /\ IsTimedOut(b, i, now))],
       keys   |-> b.keys,
       values |-> b.values,
       times  |-> b.times]

IsFull(b) == \A i \in Slots : b.valid[i]

\* getEmptyIndex: the first slot that is not valid
EmptyIndex(b) == First({i \in Slots : ~b.valid[i]})

NewestIndex(b) ==
  First({i \in Slots : \A j \in Slots : b.times[i] >= b.times[j]})
\* getVictimIndex: the first of the least recently inserted
VictimIndex(b) ==
  First({i \in Slots : \A j \in Slots : b.times[i] <= b.times[j]})

\* the slot holds the key from now on
Fill(b, i, key, value, now) ==
  [valid  |-> [b.valid EXCEPT ![i] = TRUE],
   keys   |-> [b.keys EXCEPT ![i] = key],
   values |-> [b.values EXCEPT ![i] = value],
   times  |-> [b.times EXCEPT ![i] = now]]

\* the time of a present key is left as it was
NotRefreshed(b, i, now) == b
\* the slot's time is set, its value is not
Refresh(b, i, now) ==
  [valid  |-> b.valid,
   keys   |-> b.keys,
   values |-> b.values,
   times  |-> [b.times EXCEPT ![i] = now]]

\* insert: the new bucket, the index of the key in it and the InsertResult.
\* The map sets M_UPDATE_TIME_IF_KEY_EXISTS.
Insert(b, key, value, now) ==
  LET s == Scanned(b, key, now)
      hits == Matches(b, key)
      at == First(hits)
      victim == VictimIndex(s)
      empty == EmptyIndex(s)
  IN  IF hits # {}
      THEN [bucket |-> Refresh(s, at, now), index |-> at,
            result |-> IF IsTimedOut(b, at, now)
                       THEN "INSERTED" ELSE "ALREADY_PRESENT"]
      ELSE IF IsFull(s)
      THEN [bucket |-> Fill(s, victim, key, value, now), index |-> victim,
            result |-> "REPLACED"]
      ELSE [bucket |-> Fill(s, empty, key, value, now), index |-> empty,
            result |-> "INSERTED"]

=============================================================================
