--------------------------- MODULE ExpiringCache ---------------------------
(***************************************************************************)
(* What the deduplicator's hash map promises, without slots and scans: it  *)
(* remembers when a key was last seen, forgets it TTL after that, and has  *)
(* room for Capacity remembered keys in each of its classes.  A key of a   *)
(* class that is full takes the place of the one seen longest ago.         *)
(***************************************************************************)
EXTENDS Integers, FiniteSets

CONSTANTS
  Keys,
  Class(_),  \* the class (bucket) a key belongs to
  Capacity,
  TTL,
  Never      \* not a time

VARIABLES
  now,
  seen,      \* when each remembered key was last seen, Never for the others
  answer     \* the answer to the last lookup: "new", "known", or "none" yet

cvars == <<now, seen, answer>>

Init ==
  /\ now = 0
  /\ seen = [k \in Keys |-> Never]
  /\ answer = "none"

Remembered(k) == {j \in Keys : Class(j) = Class(k) /\ seen[j] # Never}

Known(k) ==
  /\ seen[k] # Never
  /\ seen' = [seen EXCEPT ![k] = now]
  /\ answer' = "known"
  /\ UNCHANGED now

New(k) ==
  /\ seen[k] = Never
  /\ Cardinality(Remembered(k)) < Capacity
  /\ seen' = [seen EXCEPT ![k] = now]
  /\ answer' = "new"
  /\ UNCHANGED now

NewForOldest(k) ==
  /\ seen[k] = Never
  /\ Cardinality(Remembered(k)) = Capacity
  /\ \E v \in Remembered(k) :
       /\ \A j \in Remembered(k) : seen[v] <= seen[j]
       /\ seen' = [seen EXCEPT ![v] = Never, ![k] = now]
  /\ answer' = "new"
  /\ UNCHANGED now

\* time passes, and what was last seen longer than TTL ago is forgotten
Tick ==
  /\ now' = now + 1
  /\ seen' = [k \in Keys |-> IF seen[k] # Never /\ seen[k] + TTL < now'
                             THEN Never ELSE seen[k]]
  /\ UNCHANGED answer

Next ==
  \/ \E k \in Keys : Known(k) \/ New(k) \/ NewForOldest(k)
  \/ Tick

Spec == Init /\ [][Next]_cvars

=============================================================================
