--------------------------- MODULE SyncContainer ---------------------------
(***************************************************************************)
(* SyncQueue and SyncStack, one step per access to the mutex, the          *)
(* container, m_size and the condition variable.  The two classes differ   *)
(* only in the end they take items from (lifo).  Threads either put or     *)
(* get, as the manager and the inserters do, each a bounded number of      *)
(* times (left).                                                           *)
(***************************************************************************)
EXTENDS Naturals, Sequences, FiniteSets

CONSTANTS
  Putters,   \* threads that call put
  Takers,    \* threads that call get
  Items,     \* what is put
  NoItem,    \* not an item
  NoThread,  \* the mutex is free
  Calls      \* bound: the calls each thread makes

Threads == Putters \cup Takers

ASSUME ThreadsAssumption ==
  /\ Putters \cap Takers = {}
  /\ NoThread \notin Threads
  /\ NoItem \notin Items
  /\ Calls \in [Threads -> Nat]

VARIABLES
  lifo,      \* SyncStack (TRUE) or SyncQueue (FALSE)
  items,     \* m_items
  size,      \* m_size
  mutex,     \* the thread that holds m_mutex
  waiting,   \* the threads blocked on m_avail_cv
  pc,        \* where each thread is
  item,      \* the item a thread puts, or has got
  left       \* the calls a thread still makes

vars == <<lifo, items, size, mutex, waiting, pc, item, left>>

Init ==
  /\ lifo \in BOOLEAN
  /\ items = <<>>
  /\ size = 0
  /\ mutex = NoThread
  /\ waiting = {}
  /\ pc = [t \in Threads |-> "idle"]
  /\ item = [t \in Threads |-> NoItem]
  /\ left = Calls

Goto(t, l) == pc' = [pc EXCEPT ![t] = l]

----------------------------------------------------------------------------
(* put                                                                     *)

\* std::lock_guard
PutLock(t) ==
  /\ pc[t] = "idle" /\ left[t] > 0 /\ mutex = NoThread
  /\ mutex' = t
  /\ \E x \in Items : item' = [item EXCEPT ![t] = x]
  /\ left' = [left EXCEPT ![t] = @ - 1]
  /\ Goto(t, "push")
  /\ UNCHANGED <<lifo, items, size, waiting>>

\* m_items.push(item)
Push(t) ==
  /\ pc[t] = "push"
  /\ items' = Append(items, item[t])
  /\ Goto(t, "putSize")
  /\ UNCHANGED <<lifo, size, mutex, waiting, item, left>>

\* m_size keeps its old value
PutSizeForgotten(t) ==
  /\ pc[t] = "putSize"
  /\ Goto(t, "notify")
  /\ UNCHANGED <<lifo, items, size, mutex, waiting, item, left>>

\* m_size = m_items.size()
PutSize(t) ==
  /\ pc[t] = "putSize"
  /\ size' = Len(items)
  /\ Goto(t, "notify")
  /\ UNCHANGED <<lifo, items, mutex, waiting, item, left>>

\* one waiting thread is woken, and only when the container was empty
NotifyFirst(t) ==
  /\ pc[t] = "notify"
  /\ IF Len(items) = 1 /\ waiting # {}
     THEN \E w \in waiting : waiting' = waiting \ {w}
     ELSE UNCHANGED waiting
  /\ Goto(t, "unlock")
  /\ UNCHANGED <<lifo, items, size, mutex, item, left>>

\* m_avail_cv.notify_all()
Notify(t) ==
  /\ pc[t] = "notify"
  /\ waiting' = {}
  /\ Goto(t, "unlock")
  /\ UNCHANGED <<lifo, items, size, mutex, item, left>>

----------------------------------------------------------------------------
(* get                                                                     *)

\* std::unique_lock
GetLock(t) ==
  /\ pc[t] = "idle" /\ left[t] > 0 /\ mutex = NoThread
  /\ mutex' = t
  /\ left' = [left EXCEPT ![t] = @ - 1]
  /\ Goto(t, "test")
  /\ UNCHANGED <<lifo, items, size, waiting, item>>

\* the stack gives its oldest item but removes its newest
NextItemFront == Head(items)
\* front() of the queue, top() of the stack, and what pop() leaves
NextItem == IF lifo THEN items[Len(items)] ELSE Head(items)
RestItems == IF lifo THEN SubSeq(items, 1, Len(items) - 1) ELSE Tail(items)

\* while (true): an item is there, take it
Take(t) ==
  /\ pc[t] = "test" /\ items # <<>>
  /\ item' = [item EXCEPT ![t] = NextItem]
  /\ items' = RestItems
  /\ Goto(t, "getSize")
  /\ UNCHANGED <<lifo, size, mutex, waiting, left>>

\* none is there: m_avail_cv.wait releases the mutex as the thread blocks
Wait(t) ==
  /\ pc[t] = "test" /\ items = <<>>
  /\ waiting' = waiting \cup {t}
  /\ mutex' = NoThread
  /\ Goto(t, "wait")
  /\ UNCHANGED <<lifo, items, size, item, left>>

\* a condition variable may wake a thread for no reason
SpuriousWakeup(t) ==
  /\ t \in waiting
  /\ waiting' = waiting \ {t}
  /\ UNCHANGED <<lifo, items, size, mutex, pc, item, left>>

\* a woken thread believes the item it was woken for is still there
RelockAndTrust(t) ==
  /\ pc[t] = "wait" /\ t \notin waiting /\ mutex = NoThread
  /\ mutex' = t
  /\ item' = [item EXCEPT ![t] = IF items = <<>> THEN NoItem ELSE NextItem]
  /\ items' = IF items = <<>> THEN items ELSE RestItems
  /\ Goto(t, "getSize")
  /\ UNCHANGED <<lifo, size, waiting, left>>

\* wait returns once the thread is woken and holds the mutex again; the loop
\* tests the container again
Relock(t) ==
  /\ pc[t] = "wait" /\ t \notin waiting /\ mutex = NoThread
  /\ mutex' = t
  /\ Goto(t, "test")
  /\ UNCHANGED <<lifo, items, size, waiting, item, left>>

\* m_size = m_items.size()
GetSize(t) ==
  /\ pc[t] = "getSize"
  /\ size' = Len(items)
  /\ Goto(t, "unlock")
  /\ UNCHANGED <<lifo, items, mutex, waiting, item, left>>

----------------------------------------------------------------------------
\* the guard's destructor, in put and in get
Unlock(t) ==
  /\ pc[t] = "unlock"
  /\ mutex' = NoThread
  /\ Goto(t, "idle")
  /\ UNCHANGED <<lifo, items, size, waiting, item, left>>

PutStep(t) == PutLock(t) \/ Push(t) \/ PutSize(t) \/ Notify(t) \/ Unlock(t)
GetStep(t) ==
  GetLock(t) \/ Take(t) \/ Wait(t) \/ Relock(t) \/ GetSize(t) \/ Unlock(t)

\* every thread has made its calls
AllServed == \A t \in Threads : left[t] = 0 /\ pc[t] = "idle"

Next ==
  \/ \E t \in Putters : PutStep(t)
  \/ \E t \in Takers : GetStep(t) \/ SpuriousWakeup(t)
  \/ AllServed /\ UNCHANGED vars

Spec == Init /\ [][Next]_vars

\* a thread holding the mutex goes on; one that keeps finding it free gets it
Fairness ==
  /\ \A t \in Putters : WF_vars(PutStep(t)) /\ SF_vars(PutLock(t))
  /\ \A t \in Takers : /\ WF_vars(GetStep(t))
                       /\ SF_vars(GetLock(t)) /\ SF_vars(Relock(t))
LiveSpec == Spec /\ Fairness

----------------------------------------------------------------------------
Pcs == {"idle", "push", "putSize", "notify", "test", "wait", "getSize",
        "unlock"}

\* Every variable has its type, and a get that is about to return has an item.
TypeOK ==
  /\ lifo \in BOOLEAN
  /\ items \in Seq(Items)
  /\ size \in Nat
  /\ mutex \in Threads \cup {NoThread}
  /\ waiting \in SUBSET Takers
  /\ pc \in [Threads -> Pcs]
  /\ item \in [Threads -> Items \cup {NoItem}]
  /\ \A t \in Threads : pc[t] \in {"push", "getSize", "unlock"} => item[t] \in Items
  /\ left \in [Threads -> Nat]

\* No lost wake-up: while a thread sleeps on the condition variable the
\* container is empty, unless a put holds the mutex and has yet to notify.
NoLostWakeup ==
  waiting # {} /\ items # <<>> =>
    \E t \in Putters : mutex = t /\ pc[t] \in {"putSize", "notify"}

\* size(), which reads m_size without the mutex, is exact whenever no put or
\* get is under way.
SizeIsExact == mutex = NoThread => size = Len(items)

Container == INSTANCE BlockingContainer
  WITH contents <- items, got <- [t \in Threads |->
         IF t \in Takers THEN item[t] ELSE NoItem]

\* put and get are atomic to their callers: an item is taken once, by one
\* thread, in the order of the container.
ImplementsContainer == Container!Spec

\* When as many items are put as are asked for, every get returns: no thread
\* sleeps on while there is an item for it.
EveryGetReturns == <>[]AllServed

=============================================================================
