-------------------------- MODULE MCSyncContainer --------------------------
(***************************************************************************)
(* Two threads put three items, three threads get one each: enough for a   *)
(* thread that was woken to find its item taken by a thread that was not   *)
(* waiting.                                                                *)
(***************************************************************************)
EXTENDS SyncContainer

CONSTANTS p1, p2, t1, t2, t3

TwoPutters  == {p1, p2}
ThreeTakers == {t1, t2, t3}
OneGetEach  == [t \in Threads |-> IF t = p1 THEN 2 ELSE 1]

=============================================================================
