--------------------------- MODULE BlockDelivery ---------------------------
(***************************************************************************)
(* What the clickhouse module promises about the records it accepts, apart *)
(* from blocks, queues and threads: an accepted record stays pending until *)
(* it is in the table, unless the module is being stopped.  A record may   *)
(* be stored more than once, because an insert whose answer was lost is    *)
(* repeated.                                                               *)
(***************************************************************************)
EXTENDS Naturals

CONSTANTS Records

VARIABLES
  accepted,  \* the records written to a block
  pending,   \* those of them the module still holds
  stored,    \* the number of copies in the table: 0, 1, 2 = more than one
  stopping   \* the module has begun to stop

dvars == <<accepted, pending, stored, stopping>>

Init ==
  /\ accepted = {}
  /\ pending = {}
  /\ stored = [r \in Records |-> 0]
  /\ stopping = FALSE

Accept(r) ==
  /\ ~stopping
  /\ r \notin accepted
  /\ accepted' = accepted \cup {r}
  /\ pending' = pending \cup {r}
  /\ UNCHANGED <<stored, stopping>>

\* the server stores some pending records; the module does not know it yet
Store(R) ==
  /\ stored' = [r \in Records |-> IF r \in R /\ stored[r] < 2
                                  THEN stored[r] + 1 ELSE stored[r]]
  /\ UNCHANGED <<accepted, pending, stopping>>

\* the module lets go of stored records; once it is stopping, of any
Retire(R) ==
  /\ stopping \/ \A r \in R : stored[r] > 0
  /\ pending' = pending \ R
  /\ UNCHANGED <<accepted, stored, stopping>>

Stop ==
  /\ stopping' = TRUE
  /\ UNCHANGED <<accepted, pending, stored>>

Next ==
  \/ \E r \in Records : Accept(r)
  \/ \E R \in SUBSET pending : Store(R) \/ Retire(R)
  \/ Stop

Spec == Init /\ [][Next]_dvars

=============================================================================
