------------------------- MODULE BlockingContainer -------------------------
(***************************************************************************)
(* What SyncQueue and SyncStack promise their callers: put and get take    *)
(* effect at one moment, get takes an item that is there.  Clickhouse uses *)
(* the two containers at this level.                                       *)
(***************************************************************************)
EXTENDS Naturals, Sequences

CONSTANTS
  Threads,   \* the calling threads
  Items,     \* what they may put
  NoItem     \* a thread that has got nothing yet

VARIABLES
  lifo,      \* a stack (TRUE) or a queue (FALSE)
  contents,  \* the items, the oldest first
  got        \* the item each thread got last

avars == <<lifo, contents, got>>

Next1(s) == IF lifo THEN s[Len(s)] ELSE Head(s)
Rest1(s) == IF lifo THEN SubSeq(s, 1, Len(s) - 1) ELSE Tail(s)

Init ==
  /\ lifo \in BOOLEAN
  /\ contents = <<>>
  /\ got = [t \in Threads |-> NoItem]

Put(x) ==
  /\ contents' = Append(contents, x)
  /\ UNCHANGED <<lifo, got>>

Get(t) ==
  /\ contents # <<>>
  /\ got' = [got EXCEPT ![t] = Next1(contents)]
  /\ contents' = Rest1(contents)
  /\ UNCHANGED lifo

Next == (\E x \in Items : Put(x)) \/ (\E t \in Threads : Get(t))

Spec == Init /\ [][Next]_avars

=============================================================================
