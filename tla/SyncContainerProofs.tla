------------------------ MODULE SyncContainerProofs ------------------------
(***************************************************************************)
(* Proofs about SyncContainer, for every number of threads.                *)
(***************************************************************************)
EXTENDS SyncContainer, TLAPS

PutPcs == {"idle", "push", "putSize", "notify", "unlock"}
Inside == {"push", "putSize", "notify", "test", "getSize", "unlock"}

\* The mutex is held by the one thread that is inside put or get, putters do
\* not wait, and m_size lags behind only until the mutex is released.
LockInv ==
  /\ mutex \in Threads \cup {NoThread}
  /\ pc \in [Threads -> Pcs]
  /\ waiting \in SUBSET Takers
  /\ \A t \in Putters : pc[t] \in PutPcs
  /\ \A t \in waiting : pc[t] = "wait"
  /\ \A t \in Threads : mutex = t <=> pc[t] \in Inside
  /\ (\A t \in Threads : pc[t] \notin {"putSize", "getSize"}) => size = Len(items)

IInv == LockInv /\ NoLostWakeup

\* While the mutex is free nobody is inside.
LEMMA FreeMeansOutside ==
  ASSUME LockInv, mutex = NoThread
  PROVE  /\ \A u \in Threads : pc[u] \notin Inside
         /\ size = Len(items)
<1>1. \A u \in Threads : pc[u] \notin Inside
  BY ThreadsAssumption DEF LockInv
<1> QED
  BY <1>1 DEF LockInv, Inside

\* A thread that takes the free mutex and goes to l.
LEMMA Acquire ==
  ASSUME IInv, mutex = NoThread, NEW t \in Threads, t \notin waiting,
         NEW l \in {"push", "test"}, t \in Putters => l = "push",
         pc' = [pc EXCEPT ![t] = l], mutex' = t,
         UNCHANGED <<items, size, waiting>>
  PROVE  IInv'
<1> USE DEF IInv, LockInv
<1>1. /\ \A u \in Threads : pc[u] \notin Inside
      /\ size = Len(items)
  BY FreeMeansOutside
<1>2. pc' \in [Threads -> Pcs] /\ l \in Inside
  BY DEF Pcs, Inside
<1>3. \A u \in Threads : pc'[u] = IF u = t THEN l ELSE pc[u]
  OBVIOUS
<1>4. \A u \in Threads : mutex' = u <=> pc'[u] \in Inside
  BY <1>1, <1>2, <1>3
<1>5. \A u \in Putters : pc'[u] \in PutPcs
  BY <1>3 DEF PutPcs, Threads
<1>6. \A u \in waiting' : pc'[u] = "wait"
  BY <1>3 DEF Threads
<1>7. NoLostWakeup'
  <2>1. \A u \in Putters : mutex # u
    BY ThreadsAssumption DEF Threads
  <2> QED
    BY <2>1 DEF NoLostWakeup
<1> QED
  BY <1>1, <1>2, <1>4, <1>5, <1>6, <1>7

LEMMA InitIInv == Init => IInv
<1> SUFFICES ASSUME Init PROVE IInv
  OBVIOUS
<1>1. \A t \in Threads : t # NoThread
  BY ThreadsAssumption
<1> QED
  BY <1>1 DEF Init, IInv, LockInv, NoLostWakeup, Pcs, PutPcs, Inside, Threads

\* put keeps the invariant: it notifies before it lets go of the mutex.
LEMMA PutIInv ==
  ASSUME NEW t \in Putters
  PROVE  IInv /\ PutStep(t) => IInv'
<1> SUFFICES ASSUME IInv, PutStep(t) PROVE IInv'
  OBVIOUS
<1> t \in Threads /\ t # NoThread /\ t \notin Takers
  BY ThreadsAssumption DEF Threads
<1> USE DEF IInv, LockInv, NoLostWakeup, Goto, Pcs, PutPcs, Inside
<1>1. CASE PutLock(t)
  <2>1. mutex = NoThread
    BY <1>1 DEF PutLock
  <2>2. /\ pc' = [pc EXCEPT ![t] = "push"]
        /\ mutex' = t
        /\ UNCHANGED <<items, size, waiting>>
        /\ t \notin waiting
    BY <1>1 DEF PutLock
  <2> QED
    BY <2>1, <2>2, Acquire
<1>2. CASE Push(t)
  BY <1>2 DEF Push
<1>3. CASE PutSize(t)
  BY <1>3 DEF PutSize
<1>4. CASE Notify(t)
  BY <1>4 DEF Notify
<1>5. CASE Unlock(t)
  BY <1>5, ThreadsAssumption DEF Unlock
<1> QED
  BY <1>1, <1>2, <1>3, <1>4, <1>5 DEF PutStep

\* get keeps it: it sleeps only when it has found the container empty.
LEMMA GetIInv ==
  ASSUME NEW t \in Takers
  PROVE  IInv /\ GetStep(t) => IInv'
<1> SUFFICES ASSUME IInv, GetStep(t) PROVE IInv'
  OBVIOUS
<1> t \in Threads /\ t # NoThread /\ t \notin Putters
  BY ThreadsAssumption DEF Threads
<1> USE DEF IInv, LockInv, NoLostWakeup, Goto, Pcs, PutPcs, Inside
<1>1. CASE GetLock(t)
  <2>1. mutex = NoThread
    BY <1>1 DEF GetLock
  <2>2. /\ pc' = [pc EXCEPT ![t] = "test"]
        /\ mutex' = t
        /\ UNCHANGED <<items, size, waiting>>
        /\ t \notin waiting
    BY <1>1 DEF GetLock
  <2> QED
    BY <2>1, <2>2, Acquire
<1>2. CASE Take(t)
  \* t is a taker and holds the mutex, so no putter does: nobody is waiting
  <2>1. waiting = {}
    BY <1>2 DEF Take
  <2> QED
    BY <1>2, <2>1 DEF Take
<1>3. CASE Wait(t)
  BY <1>3, ThreadsAssumption DEF Wait
<1>4. CASE Relock(t)
  <2>1. mutex = NoThread
    BY <1>4 DEF Relock
  <2>2. /\ pc' = [pc EXCEPT ![t] = "test"]
        /\ mutex' = t
        /\ UNCHANGED <<items, size, waiting>>
        /\ t \notin waiting
    BY <1>4 DEF Relock
  <2> QED
    BY <2>1, <2>2, Acquire
<1>5. CASE GetSize(t)
  BY <1>5 DEF GetSize
<1>6. CASE Unlock(t)
  BY <1>6, ThreadsAssumption DEF Unlock
<1> QED
  BY <1>1, <1>2, <1>3, <1>4, <1>5, <1>6 DEF GetStep

LEMMA NextIInv == IInv /\ [Next]_vars => IInv'
<1> SUFFICES ASSUME IInv, [Next]_vars PROVE IInv'
  OBVIOUS
<1>1. ASSUME NEW t \in Putters, PutStep(t)
      PROVE  IInv'
  BY <1>1, PutIInv
<1>2. ASSUME NEW t \in Takers, GetStep(t)
      PROVE  IInv'
  BY <1>2, GetIInv
<1>3. ASSUME NEW t \in Takers, SpuriousWakeup(t)
      PROVE  IInv'
  BY <1>3 DEF SpuriousWakeup, IInv, LockInv, NoLostWakeup
<1>4. CASE UNCHANGED vars
  BY <1>4 DEF vars, IInv, LockInv, NoLostWakeup
<1> QED
  BY <1>1, <1>2, <1>3, <1>4 DEF Next

\* No thread sleeps while an item is there for it, because put notifies every
\* waiting thread before it releases the mutex and get tests the container
\* under the same mutex it waits with.
THEOREM WakeupsAreNotLost == Spec => []NoLostWakeup
<1>1. IInv => NoLostWakeup
  BY DEF IInv
<1> QED
  BY <1>1, InitIInv, NextIInv, PTL DEF Spec

\* size() can only be wrong while a put or a get is under way.
THEOREM SizeAgrees == Spec => []SizeIsExact
<1>1. IInv => SizeIsExact
  BY ThreadsAssumption DEF IInv, LockInv, SizeIsExact, Inside
<1> QED
  BY <1>1, InitIInv, NextIInv, PTL DEF Spec

----------------------------------------------------------------------------
(* Type correctness.                                                       *)

WithItem == {"push", "putSize", "notify", "getSize", "unlock"}

\* TypeOK says nothing of the item between push and unlock of a put; a put that
\* is about to leave has it because it had it when it entered.
TypeInv ==
  /\ lifo \in BOOLEAN
  /\ items \in Seq(Items)
  /\ size \in Nat
  /\ item \in [Threads -> Items \cup {NoItem}]
  /\ \A t \in Threads : pc[t] \in WithItem => item[t] \in Items
  /\ left \in [Threads -> Nat]

\* What front() or top() gives and pop() leaves of a container that has an item.
LEMMA NextItemFacts ==
  ASSUME items \in Seq(Items), items # <<>>
  PROVE  NextItem \in Items /\ RestItems \in Seq(Items)
<1>1. /\ Head(items) \in Items /\ Tail(items) \in Seq(Items)
      /\ Len(items) \in DOMAIN items
      /\ items[Len(items)] \in Items
      /\ SubSeq(items, 1, Len(items) - 1) \in Seq(Items)
  OBVIOUS
<1> QED
  BY <1>1 DEF NextItem, RestItems

LEMMA InitTypeInv == Init => TypeInv
BY ThreadsAssumption DEF Init, TypeInv, WithItem

LEMMA NextTypeInv == LockInv /\ TypeInv /\ [Next]_vars => TypeInv'
<1> SUFFICES ASSUME LockInv, TypeInv, [Next]_vars PROVE TypeInv'
  OBVIOUS
<1> USE DEF TypeInv, WithItem, Goto
<1>0. pc \in [Threads -> Pcs]
  BY DEF LockInv
<1>1. ASSUME NEW t \in Putters, PutStep(t)
      PROVE  TypeInv'
  <2> t \in Threads
    BY DEF Threads
  <2>1. CASE PutLock(t)
    BY <1>0, <2>1 DEF PutLock
  <2>2. CASE Push(t)
    BY <1>0, <2>2 DEF Push
  <2>3. CASE PutSize(t)
    BY <1>0, <2>3 DEF PutSize
  <2>4. CASE Notify(t)
    BY <1>0, <2>4 DEF Notify
  <2>5. CASE Unlock(t)
    BY <1>0, <2>5 DEF Unlock
  <2> QED
    BY <1>1, <2>1, <2>2, <2>3, <2>4, <2>5 DEF PutStep
<1>2. ASSUME NEW t \in Takers, GetStep(t)
      PROVE  TypeInv'
  <2> t \in Threads
    BY DEF Threads
  <2>1. CASE GetLock(t)
    BY <1>0, <2>1 DEF GetLock
  <2>2. CASE Take(t)
    BY <1>0, <2>2, NextItemFacts DEF Take
  <2>3. CASE Wait(t)
    BY <1>0, <2>3 DEF Wait
  <2>4. CASE Relock(t)
    BY <1>0, <2>4 DEF Relock
  <2>5. CASE GetSize(t)
    BY <1>0, <2>5 DEF GetSize
  <2>6. CASE Unlock(t)
    BY <1>0, <2>6 DEF Unlock
  <2> QED
    BY <1>2, <2>1, <2>2, <2>3, <2>4, <2>5, <2>6 DEF GetStep
<1>3. ASSUME NEW t \in Takers, SpuriousWakeup(t)
      PROVE  TypeInv'
  BY <1>3 DEF SpuriousWakeup
<1>4. CASE UNCHANGED vars
  BY <1>4 DEF vars
<1> QED
  BY <1>1, <1>2, <1>3, <1>4 DEF Next

\* Every variable keeps its type, and a get never returns without an item.
THEOREM TypeCorrect == Spec => []TypeOK
<1>1. IInv => LockInv
  BY DEF IInv
<1>2. LockInv /\ TypeInv => TypeOK
  BY DEF LockInv, TypeInv, TypeOK, WithItem
<1> QED
  BY <1>1, <1>2, InitIInv, NextIInv, InitTypeInv, NextTypeInv, PTL DEF Spec

----------------------------------------------------------------------------
(* put and get are atomic to their callers.                                *)

\* got of BlockingContainer
Got == [t \in Threads |-> IF t \in Takers THEN item[t] ELSE NoItem]

\* A put takes effect where it pushes, a get where it pops: no other step
\* changes the container or what a taker has got.
LEMMA StepIsAtomic ==
  IInv /\ TypeInv /\ [Next]_vars => [Container!Next]_(Container!avars)
<1> SUFFICES ASSUME IInv, TypeInv, [Next]_vars
             PROVE  Container!Next \/ UNCHANGED Container!avars
  OBVIOUS
<1>0. item \in [Threads -> Items \cup {NoItem}]
  BY DEF TypeInv
<1>1. ASSUME UNCHANGED <<lifo, items, item>>
      PROVE  UNCHANGED Container!avars
  BY <1>1 DEF Container!avars
<1>2. ASSUME NEW t \in Putters, PutStep(t)
      PROVE  Container!Next \/ UNCHANGED Container!avars
  <2> t \in Threads /\ t \notin Takers
    BY ThreadsAssumption DEF Threads
  <2>1. CASE PutLock(t)
    <3>1. Got' = Got /\ UNCHANGED <<lifo, items>>
      BY <1>0, <2>1 DEF PutLock, Got
    <3> QED
      BY <3>1 DEF Container!avars, Got
  <2>2. CASE Push(t)
    <3>1. item[t] \in Items
      BY <2>2 DEF Push, TypeInv, WithItem
    <3>2. Container!Put(item[t])
      BY <2>2 DEF Push, Container!Put
    <3> QED
      BY <3>1, <3>2 DEF Container!Next
  <2>3. CASE PutSize(t) \/ Notify(t) \/ Unlock(t)
    BY <1>1, <2>3 DEF PutSize, Notify, Unlock
  <2> QED
    BY <1>2, <2>1, <2>2, <2>3 DEF PutStep
<1>3. ASSUME NEW t \in Takers, GetStep(t)
      PROVE  Container!Next \/ UNCHANGED Container!avars
  <2> t \in Threads
    BY DEF Threads
  <2>1. CASE Take(t)
    <3>1. Got' = [Got EXCEPT ![t] = NextItem]
      BY <1>0, <2>1 DEF Take, Got
    <3>2. Container!Get(t)
      BY <2>1, <3>1
      DEF Take, Got, NextItem, RestItems, Container!Get, Container!Next1,
          Container!Rest1
    <3> QED
      BY <3>2 DEF Container!Next
  <2>2. CASE GetLock(t) \/ Wait(t) \/ Relock(t) \/ GetSize(t) \/ Unlock(t)
    BY <1>1, <2>2 DEF GetLock, Wait, Relock, GetSize, Unlock
  <2> QED
    BY <1>3, <2>1, <2>2 DEF GetStep
<1>4. ASSUME NEW t \in Takers, SpuriousWakeup(t)
      PROVE  UNCHANGED Container!avars
  BY <1>1, <1>4 DEF SpuriousWakeup
<1>5. CASE UNCHANGED vars
  BY <1>1, <1>5 DEF vars
<1> QED
  BY <1>2, <1>3, <1>4, <1>5 DEF Next

\* SyncQueue and SyncStack implement the container that Clickhouse uses: an item
\* is taken once, by one thread, in the order of the container, however the
\* threads interleave inside put and get.
THEOREM ContainerIsImplemented == Spec => ImplementsContainer
<1>1. Init => Container!Init
  BY ThreadsAssumption DEF Init, Container!Init
<1>2. IInv => LockInv
  BY DEF IInv
<1> QED
  BY <1>1, <1>2, InitIInv, NextIInv, InitTypeInv, NextTypeInv, StepIsAtomic, PTL
  DEF Spec, ImplementsContainer, Container!Spec

=============================================================================
