------------------------- MODULE ClickhouseProofs -------------------------
(***************************************************************************)
(* Proofs about Clickhouse, for every number of blocks, inserters and      *)
(* records, every threshold, input and fault: its types and shared words,  *)
(* and what becomes of the records in its blocks.  No block leaves         *)
(* circulation, the records keep their order, and Clickhouse implements    *)
(* BlockDelivery.                                                          *)
(***************************************************************************)
EXTENDS Clickhouse, FiniteSetTheorems, TLAPS

Holding == {"insert", "reconnect", "call", "recycle"}

\* What the program counters say of the pointers: processRecord writes to a
\* block and a record it has, an inserter holds a block exactly inside run()'s
\* loop body.
PcShape ==
  /\ pc \in {"getBlock", "write"} => Incoming \in Records
  /\ pc = "getBlock" => current = NoBlock
  /\ pc = "write" => current # NoBlock
  /\ \A i \in Inserters : hand[i] # NoBlock <=> ipc[i] \in Holding

TypeInv == TypeOK /\ PcShape

----------------------------------------------------------------------------
(* Type correctness.                                                       *)

LEMMA InitTypeInv == Init => TypeInv
<1> SUFFICES ASSUME Init PROVE TypeInv
  OBVIOUS
<1>1. /\ 1 \in Inserters
      /\ 1 \in 1..MaxTime
  BY SizesAssumption, BoundsAssumption DEF Inserters
<1>2. emptyBlocks \in Seq(Blocks)
  BY SizesAssumption DEF Init, Blocks
<1>3. rows \in [Blocks -> Seq(Records)]
  BY DEF Init
<1>4. TypeOK
  <2>1. received \in 0..MaxRecords /\ lastInsert \in 0..MaxTime
    BY BoundsAssumption DEF Init
  <2>2. filledBlocks \in Seq(Blocks \cup {NoBlock})
    BY DEF Init
  <2>3. /\ pc \in MainPcs
        /\ ipc \in [Inserters -> InserterPcs]
        /\ current \in Blocks \cup {NoBlock}
        /\ hand \in [Inserters -> Blocks \cup {NoBlock}]
    BY DEF Init, MainPcs, InserterPcs
  <2>4. /\ needsReconnect \in [Inserters -> BOOLEAN]
        /\ stopSignal \in [Inserters -> BOOLEAN]
        /\ exception \in [Inserters -> BOOLEAN]
        /\ errored \in [Inserters -> BOOLEAN]
        /\ stored \in [Records -> 0..2]
    BY DEF Init
  <2> QED
    BY <1>1, <1>2, <1>3, <2>1, <2>2, <2>3, <2>4 DEF Init, TypeOK
<1>5. PcShape
  BY DEF Init, PcShape, Holding
<1> QED
  BY <1>4, <1>5 DEF TypeInv

\* The index of a for loop over the inserters stays within them.
LEMMA NextInserterType ==
  ASSUME NEW p \in MainPcs, TypeOK, NextInserter(p)
  PROVE  idx' \in Inserters /\ pc' \in {pc, p}
BY SizesAssumption DEF NextInserter, TypeOK, Inserters

\* An export keeps the types, and leaves either no current block or the old one.
LEMMA ExportType ==
  ASSUME TypeOK, ExportLeft
  PROVE  /\ filledBlocks' \in Seq(Blocks \cup {NoBlock})
         /\ current' \in {current, NoBlock}
<1> DEFINE left == current # NoBlock /\ rows[current] # <<>>
<1> /\ current \in Blocks \cup {NoBlock}
    /\ filledBlocks \in Seq(Blocks \cup {NoBlock})
  BY DEF TypeOK
<1>1. CASE left
  <2>1. filledBlocks' = Append(filledBlocks, current) /\ current' = NoBlock
    BY <1>1, Zenon DEF ExportLeft
  <2> QED
    BY <2>1
<1>2. CASE ~left
  <2>1. filledBlocks' = filledBlocks /\ current' = current
    BY <1>2, Zenon DEF ExportLeft
  <2> QED
    BY <2>1
<1> QED
  BY <1>1, <1>2

LEMMA MainTypeInv == TypeInv /\ MainStep => TypeInv'
<1> SUFFICES ASSUME TypeInv, MainStep PROVE TypeInv'
  OBVIOUS
<1> USE DEF TypeInv, TypeOK, PcShape, threadVars, Incoming
<1>1. CASE Loop
  BY <1>1 DEF Loop, MainPcs, blockVars
<1>2. CASE ReceiveRecord
  BY <1>2, BoundsAssumption DEF ReceiveRecord, MainPcs, blockVars, Records
<1>3. CASE ReceiveOther
  BY <1>3 DEF ReceiveOther, MainPcs, blockVars
<1>4. CASE ReceiveFormat
  BY <1>4, ExportType DEF ReceiveFormat, MainPcs
<1>5. CASE ReceiveBadFormat
  BY <1>5 DEF Updated, WriteThrows, ReceiveBadFormat, MainPcs, blockVars
<1>6. CASE GetBlock
  <2>1. /\ current' \in Blocks
        /\ emptyBlocks' \in Seq(Blocks)
    BY <1>6 DEF GetBlock
  <2>2. current' # NoBlock
    BY <2>1, SizesAssumption DEF Blocks, NoBlock
  <2> QED
    BY <1>6, <2>1, <2>2 DEF GetBlock, MainPcs
<1>7. CASE Write
  <2>1. current \in Blocks /\ Incoming \in Records
    BY <1>7 DEF Write
  <2>0. received' \in 0..MaxRecords
    BY <1>7, <2>1, BoundsAssumption DEF Write, Records
  <2>2. rows' \in [Blocks -> Seq(Records)]
    BY <1>7, <2>1 DEF Write
  <2>3. /\ filledBlocks' \in Seq(Blocks \cup {NoBlock})
        /\ current' \in Blocks \cup {NoBlock}
        /\ lastInsert' \in 0..MaxTime
    <3> DEFINE due == Due(Len(Append(rows[current], Incoming)), clock,
                          IF lastInsert = 0 THEN clock ELSE lastInsert)
    <3>1. CASE due
      <4>1. /\ filledBlocks' = Append(filledBlocks, current)
            /\ current' = NoBlock
            /\ lastInsert' = clock
        BY <1>7, <3>1, Zenon DEF Write
      <4> QED
        BY <2>1, <4>1
    <3>2. CASE ~due
      <4>1. /\ filledBlocks' = filledBlocks
            /\ current' = current
            /\ lastInsert' = IF lastInsert = 0 THEN clock ELSE lastInsert
        BY <1>7, <3>2, Zenon DEF Write
      <4> QED
        BY <4>1
    <3> QED
      BY <3>1, <3>2
  <2>4. 1 \in Inserters
    BY SizesAssumption DEF Inserters
  <2> QED
    BY <1>7, <2>0, <2>2, <2>3, <2>4 DEF Write, MainPcs
<1>8. CASE CheckError
  <2>1. idx' \in Inserters /\ pc' \in {"check", "failed", "loop"}
    BY <1>8, NextInserterType DEF CheckError, MainPcs
  <2> QED
    BY <1>8, <2>1 DEF CheckError, MainPcs, blockVars
<1>9. CASE StopExport
  <2>1. 1 \in Inserters
    BY SizesAssumption DEF Inserters
  <2> QED
    BY <1>9, <2>1, ExportType DEF StopExport, MainPcs
<1>10. CASE StopSignal
  <2>1. idx' \in Inserters /\ pc' \in {"signal", "wake"}
    BY <1>10, NextInserterType DEF StopSignal, MainPcs
  <2> QED
    BY <1>10, <2>1 DEF StopSignal, MainPcs, blockVars
<1>11. CASE StopWake
  <2>1. idx' \in Inserters /\ pc' \in {"wake", "join"}
    BY <1>11, NextInserterType DEF StopWake, MainPcs
  <2>2. filledBlocks' \in Seq(Blocks \cup {NoBlock})
    BY <1>11 DEF StopWake
  <2> QED
    BY <1>11, <2>1, <2>2 DEF StopWake, MainPcs
<1>12. CASE StopJoin
  <2>1. idx' \in Inserters /\ pc' \in {"join", "returned"}
    BY <1>12, NextInserterType DEF StopJoin, MainPcs, Ended
  <2> QED
    BY <1>12, <2>1 DEF StopJoin, MainPcs, blockVars, Ended
<1>13. CASE Destroy
  BY <1>13 DEF Destroy, MainPcs, blockVars, Ended
<1>14. CASE Updated
  BY <1>14 DEF Updated, MainPcs, blockVars
<1>15. CASE WriteThrows
  BY <1>15 DEF WriteThrows, MainPcs, blockVars
<1> QED
  BY <1>1, <1>2, <1>3, <1>4, <1>5, <1>6, <1>7, <1>8, <1>9, <1>10, <1>11,
     <1>12, <1>13, <1>14, <1>15 DEF MainStep

LEMMA InserterTypeInv ==
  ASSUME NEW i \in Inserters
  PROVE  TypeInv /\ InserterStep(i) => TypeInv'
<1> SUFFICES ASSUME TypeInv, InserterStep(i) PROVE TypeInv'
  OBVIOUS
<1> USE DEF TypeInv, TypeOK, PcShape, mainVars, Holding, InserterPcs, Incoming
<1>1. CASE Connect(i)
  BY <1>1 DEF Connect, blockVars
<1>2. CASE Publish(i)
  BY <1>2 DEF Publish, blockVars
<1>3. CASE CheckStop(i)
  BY <1>3 DEF CheckStop, blockVars
<1>4. CASE Get(i)
  <2>1. /\ Head(filledBlocks) \in Blocks \cup {NoBlock}
        /\ filledBlocks' \in Seq(Blocks \cup {NoBlock})
    BY <1>4 DEF Get
  <2> QED
    BY <1>4, <2>1 DEF Get
<1>5. CASE InsertLoop(i)
  BY <1>5 DEF InsertLoop, blockVars
<1>6. CASE Reconnect(i)
  BY <1>6 DEF Reconnect, blockVars
<1>. /\ StoredBy(i) \in [Records -> 0..2]
  BY DEF StoredBy
<1>7. CASE InsertOk(i)
  BY <1>7 DEF InsertOk, blockVars
<1>8. CASE InsertFails(i)
  BY <1>8 DEF InsertFails, blockVars
<1>9. CASE Recycle(i)
  <2>1. hand[i] \in Blocks
    BY <1>9 DEF Recycle
  <2>2. /\ emptyBlocks' \in Seq(Blocks)
        /\ rows' \in [Blocks -> Seq(Records)]
    BY <1>9, <2>1 DEF Recycle
  <2> QED
    BY <1>9, <2>2 DEF Recycle
<1> QED
  BY <1>1, <1>2, <1>3, <1>4, <1>5, <1>6, <1>7, <1>8, <1>9 DEF InserterStep

LEMMA NextTypeInv == TypeInv /\ [Next]_vars => TypeInv'
<1> SUFFICES ASSUME TypeInv, [Next]_vars PROVE TypeInv'
  OBVIOUS
<1>1. CASE MainStep
  BY <1>1, MainTypeInv
<1>2. ASSUME NEW i \in Inserters, InserterStep(i)
      PROVE  TypeInv'
  BY <1>2, InserterTypeInv
<1>3. CASE Interrupt
  BY <1>3 DEF Interrupt, TypeInv, TypeOK, PcShape, Incoming, blockVars, threadVars
<1>4. CASE Tick
  BY <1>4 DEF Tick, TypeInv, TypeOK, PcShape, Incoming, mainVars, blockVars,
     threadVars
<1>5. CASE UNCHANGED vars
  BY <1>5 DEF vars, TypeInv, TypeOK, PcShape, Incoming, mainVars, blockVars,
     threadVars
<1> QED
  BY <1>1, <1>2, <1>3, <1>4, <1>5 DEF Next, Finished

\* Every reachable state is well typed, and the pointers agree with the program
\* counters: the main thread never writes through a null m_current_block, and
\* an inserter never clears a block it does not hold.
THEOREM TypeCorrect == Spec => [](TypeOK /\ PcShape)
<1>1. TypeInv <=> TypeOK /\ PcShape
  BY DEF TypeInv
<1> QED
  BY <1>1, InitTypeInv, NextTypeInv, PTL DEF Spec

----------------------------------------------------------------------------
(* A block has one holder.                                                 *)

\* What put does to a sequence.
LEMMA AppendFacts ==
  ASSUME NEW S, NEW s \in Seq(S), NEW x \in S
  PROVE  /\ DOMAIN Append(s, x) = (DOMAIN s) \cup {Len(s) + 1}
         /\ Len(s) + 1 \notin DOMAIN s
         /\ \A k \in DOMAIN s : Append(s, x)[k] = s[k]
         /\ Append(s, x)[Len(s) + 1] = x
OBVIOUS

\* What SyncQueue::get does to it.
LEMMA TailFacts ==
  ASSUME NEW S, NEW s \in Seq(S), s # <<>>
  PROVE  /\ 1 \in DOMAIN s /\ Head(s) = s[1]
         /\ \A k \in DOMAIN Tail(s) : /\ k + 1 \in DOMAIN s
                                      /\ k \in Nat /\ k >= 1
                                      /\ Tail(s)[k] = s[k + 1]
OBVIOUS

\* What SyncStack::get does to it.
LEMMA PopFacts ==
  ASSUME NEW S, NEW s \in Seq(S), s # <<>>
  PROVE  /\ Len(s) \in DOMAIN s
         /\ \A k \in DOMAIN SubSeq(s, 1, Len(s) - 1) :
              /\ k \in DOMAIN s /\ k # Len(s)
              /\ SubSeq(s, 1, Len(s) - 1)[k] = s[k]
OBVIOUS

LEMMA EmptyAreBlocks ==
  ASSUME TypeInv
  PROVE  /\ NoBlock \notin Blocks
         /\ \A k \in DOMAIN emptyBlocks : /\ emptyBlocks[k] \in Blocks
                                         /\ emptyBlocks[k] # NoBlock
<1>1. NoBlock \notin Blocks
  BY DEF Blocks, NoBlock
<1>2. \A k \in DOMAIN emptyBlocks : emptyBlocks[k] \in Blocks
  BY DEF TypeInv, TypeOK
<1> QED
  BY <1>1, <1>2

LEMMA InitOneHolder == Init => OneHolder
BY DEF Init, OneHolder, NoRepeats, NoBlock, Blocks, Inserters

\* The main thread hands its block to the queue.
LEMMA PutCurrent ==
  ASSUME TypeInv, OneHolder, current # NoBlock,
         filledBlocks' = Append(filledBlocks, current),
         current' = NoBlock, UNCHANGED <<emptyBlocks, hand>>
  PROVE  OneHolder'
<1> current \in Blocks \cup {NoBlock}
  BY DEF TypeInv, TypeOK
<1> DEFINE n == Len(filledBlocks) + 1
<1>1. /\ DOMAIN filledBlocks' = (DOMAIN filledBlocks) \cup {n}
      /\ n \notin DOMAIN filledBlocks
      /\ \A k \in DOMAIN filledBlocks : filledBlocks'[k] = filledBlocks[k]
      /\ filledBlocks'[n] = current
  BY AppendFacts DEF TypeInv, TypeOK
<1> HIDE DEF n
<1> QED
  BY <1>1, EmptyAreBlocks DEF OneHolder, NoRepeats

\* The main thread takes the top of the stack.
LEMMA TakeEmpty == TypeInv /\ OneHolder /\ GetBlock => OneHolder'
<1> SUFFICES ASSUME TypeInv, OneHolder, GetBlock PROVE OneHolder'
  OBVIOUS
<1> DEFINE n == Len(emptyBlocks)
<1>1. /\ n \in DOMAIN emptyBlocks
      /\ \A k \in DOMAIN emptyBlocks' :
           /\ k \in DOMAIN emptyBlocks /\ k # n
           /\ emptyBlocks'[k] = emptyBlocks[k]
  BY PopFacts DEF GetBlock, TypeInv, TypeOK
<1>2. /\ current' = emptyBlocks[n]
      /\ UNCHANGED <<filledBlocks, hand>>
  BY DEF GetBlock, threadVars
<1>3. \A k \in DOMAIN emptyBlocks : emptyBlocks[k] # NoBlock
  BY EmptyAreBlocks
<1> HIDE DEF n
<1> QED
  BY <1>1, <1>2, <1>3 DEF OneHolder, NoRepeats

\* A nullptr put in the queue is nobody's block.
LEMMA PutNull == TypeInv /\ OneHolder /\ StopWake => OneHolder'
<1> SUFFICES ASSUME TypeInv, OneHolder, StopWake PROVE OneHolder'
  OBVIOUS
<1> DEFINE n == Len(filledBlocks) + 1
<1>1. /\ DOMAIN filledBlocks' = (DOMAIN filledBlocks) \cup {n}
      /\ n \notin DOMAIN filledBlocks
      /\ \A k \in DOMAIN filledBlocks : filledBlocks'[k] = filledBlocks[k]
      /\ filledBlocks'[n] = NoBlock
  BY AppendFacts DEF StopWake, TypeInv, TypeOK
<1>2. \A k \in DOMAIN emptyBlocks : emptyBlocks[k] # NoBlock
  BY EmptyAreBlocks
<1>3. UNCHANGED <<emptyBlocks, current, hand>>
  BY DEF StopWake, threadVars
<1> HIDE DEF n
<1> QED
  BY <1>1, <1>2, <1>3 DEF OneHolder, NoRepeats

\* An inserter takes the front of the queue.
LEMMA TakeFilled ==
  ASSUME NEW i \in Inserters
  PROVE  TypeInv /\ OneHolder /\ Get(i) => OneHolder'
<1> SUFFICES ASSUME TypeInv, OneHolder, Get(i) PROVE OneHolder'
  OBVIOUS
<1>1. /\ 1 \in DOMAIN filledBlocks
      /\ \A k \in DOMAIN filledBlocks' :
           /\ k + 1 \in DOMAIN filledBlocks /\ k \in Nat /\ k >= 1
           /\ filledBlocks'[k] = filledBlocks[k + 1]
      /\ Head(filledBlocks) = filledBlocks[1]
  BY TailFacts DEF Get, TypeInv, TypeOK
<1>2. /\ hand' = [hand EXCEPT ![i] = filledBlocks[1]]
      /\ UNCHANGED <<emptyBlocks, current>>
  BY <1>1 DEF Get, mainVars
<1>3. hand \in [Inserters -> Blocks \cup {NoBlock}]
  BY DEF TypeInv, TypeOK
<1>4. NoRepeats(filledBlocks')
  BY <1>1 DEF OneHolder, NoRepeats
<1>5. \A k \in DOMAIN filledBlocks' :
        filledBlocks'[k] # NoBlock => filledBlocks'[k] # filledBlocks[1]
  BY <1>1 DEF OneHolder, NoRepeats
<1>6. \A j \in Inserters :
        hand'[j] = IF j = i THEN filledBlocks[1] ELSE hand[j]
  BY <1>2, <1>3
<1>7. \A k \in DOMAIN filledBlocks' :
        \E l \in DOMAIN filledBlocks : filledBlocks'[k] = filledBlocks[l]
  BY <1>1
<1> QED
  BY <1>1, <1>2, <1>4, <1>5, <1>6, <1>7 DEF OneHolder

\* An inserter gives its block back.
LEMMA GiveBack ==
  ASSUME NEW i \in Inserters
  PROVE  TypeInv /\ OneHolder /\ Recycle(i) => OneHolder'
<1> SUFFICES ASSUME TypeInv, OneHolder, Recycle(i) PROVE OneHolder'
  OBVIOUS
<1>1. hand[i] \in Blocks /\ hand[i] # NoBlock
  BY DEF Recycle, TypeInv, TypeOK, PcShape, Holding
<1> DEFINE n == Len(emptyBlocks) + 1
<1>2. /\ DOMAIN emptyBlocks' = (DOMAIN emptyBlocks) \cup {n}
      /\ n \notin DOMAIN emptyBlocks
      /\ \A k \in DOMAIN emptyBlocks : emptyBlocks'[k] = emptyBlocks[k]
      /\ emptyBlocks'[n] = hand[i]
  BY <1>1, AppendFacts DEF Recycle, TypeInv, TypeOK
<1>3. \A j \in Inserters : hand'[j] = IF j = i THEN NoBlock ELSE hand[j]
  BY DEF Recycle, TypeInv, TypeOK
<1>4. UNCHANGED <<filledBlocks, current>>
  BY DEF Recycle, mainVars
<1>5. \A k \in DOMAIN emptyBlocks : emptyBlocks[k] # NoBlock
  BY EmptyAreBlocks
<1> HIDE DEF n
<1> QED
  BY <1>1, <1>2, <1>3, <1>4, <1>5 DEF OneHolder, NoRepeats

LEMMA NextOneHolder ==
  TypeInv /\ OneHolder /\ [Next]_vars => OneHolder'
<1> SUFFICES ASSUME TypeInv, OneHolder, [Next]_vars PROVE OneHolder'
  OBVIOUS
<1>0. ASSUME UNCHANGED <<emptyBlocks, filledBlocks, current, hand>>
      PROVE  OneHolder'
  BY <1>0 DEF OneHolder, NoRepeats
<1>1. ASSUME ExportLeft, UNCHANGED <<emptyBlocks, hand>>
      PROVE  OneHolder'
  <2>1. CASE current # NoBlock /\ rows[current] # <<>>
    BY <1>1, <2>1, PutCurrent DEF ExportLeft
  <2>2. CASE ~(current # NoBlock /\ rows[current] # <<>>)
    BY <1>0, <1>1, <2>2, Zenon DEF ExportLeft
  <2> QED
    BY <2>1, <2>2
<1>2. CASE MainStep
  <2>1. CASE Loop \/ ReceiveRecord \/ ReceiveOther \/ Updated \/ ReceiveBadFormat
             \/ WriteThrows \/ CheckError \/ StopSignal \/ StopJoin \/ Destroy
    BY <1>0, <2>1 DEF Loop, ReceiveRecord, ReceiveOther, Updated, WriteThrows,
       ReceiveBadFormat,
       CheckError, StopSignal, StopJoin, Destroy, blockVars, threadVars
  <2>2. CASE ReceiveFormat
    BY <1>1, <2>2 DEF ReceiveFormat, threadVars
  <2>3. CASE StopExport
    BY <1>1, <2>3 DEF StopExport, threadVars
  <2>4. CASE GetBlock
    BY <2>4, TakeEmpty
  <2>5. CASE Write
    <3> DEFINE due == Due(Len(Append(rows[current], Incoming)), clock,
                          IF lastInsert = 0 THEN clock ELSE lastInsert)
    <3>1. current # NoBlock /\ UNCHANGED <<emptyBlocks, hand>>
      BY <2>5 DEF Write, TypeInv, PcShape, threadVars
    <3>2. CASE due
      <4>1. /\ filledBlocks' = Append(filledBlocks, current)
            /\ current' = NoBlock
        BY <2>5, <3>2, Zenon DEF Write
      <4> QED
        BY <3>1, <4>1, PutCurrent
    <3>3. CASE ~due
      <4>1. UNCHANGED <<filledBlocks, current>>
        BY <2>5, <3>3, Zenon DEF Write
      <4> QED
        BY <1>0, <3>1, <4>1
    <3> QED
      BY <3>2, <3>3
  <2>6. CASE StopWake
    BY <2>6, PutNull
  <2> QED
    BY <1>2, <2>1, <2>2, <2>3, <2>4, <2>5, <2>6 DEF MainStep
<1>3. ASSUME NEW i \in Inserters, InserterStep(i)
      PROVE  OneHolder'
  <2>1. CASE Get(i)
    BY <2>1, TakeFilled
  <2>2. CASE Recycle(i)
    BY <2>2, GiveBack
  <2>3. CASE \/ Connect(i) \/ Publish(i) \/ CheckStop(i) \/ InsertLoop(i)
             \/ Reconnect(i) \/ InsertOk(i) \/ InsertFails(i)
    BY <1>0, <2>3 DEF Connect, Publish, CheckStop, InsertLoop, Reconnect,
       InsertOk, InsertFails, blockVars, mainVars
  <2> QED
    BY <1>3, <2>1, <2>2, <2>3 DEF InserterStep
<1>4. CASE Interrupt \/ Tick \/ UNCHANGED vars
  BY <1>0, <1>4 DEF Interrupt, Tick, vars, mainVars, blockVars, threadVars
<1> QED
  BY <1>2, <1>3, <1>4 DEF Next, Finished

\* A block is never in two places, so no two threads ever touch its columns at
\* the same time although BlockCtx has no lock.
THEOREM BlockExclusive == Spec => []OneHolder
<1>1. TypeInv <=> TypeOK /\ PcShape
  BY DEF TypeInv
<1> QED
  BY <1>1, InitTypeInv, NextTypeInv, InitOneHolder, NextOneHolder, PTL DEF Spec

----------------------------------------------------------------------------
(* stop() wakes every inserter.                                            *)

\* When the first nullptr is put every stop signal is set, so from then on an
\* inserter never enters get(), and one that is in it takes a single item: each
\* item an inserter takes away also takes that inserter out of the count.
WakeInv ==
  /\ pc = "signal" => \A j \in Inserters : j < idx => stopSignal[j]
  /\ pc \in {"wake", "join"} => \A j \in Inserters : stopSignal[j]
  /\ WakeUpsSuffice

LEMMA GettersFinite ==
  /\ IsFiniteSet(Getters)
  /\ Cardinality(Getters) \in Nat
  /\ Cardinality(Getters) <= NumInserters
<1>1. /\ IsFiniteSet(Inserters)
      /\ Cardinality(Inserters) = NumInserters
  BY SizesAssumption, FS_Interval DEF Inserters
<1>2. Getters \in SUBSET Inserters
  BY DEF Getters
<1> QED
  BY <1>1, <1>2, FS_Subset, FS_CardinalityType

LEMMA InitWakeInv == Init => WakeInv
BY DEF Init, WakeInv, WakeUpsSuffice

\* The steps that touch neither the queue nor a thread in get().
LEMMA WakeFrame ==
  ASSUME WakeInv, UNCHANGED <<pc, idx, stopSignal>>,
         Getters' = Getters, UNCHANGED filledBlocks
  PROVE  WakeInv'
BY DEF WakeInv, WakeUpsSuffice

LEMMA MainWakeInv == TypeInv /\ WakeInv /\ MainStep => WakeInv'
<1> SUFFICES ASSUME TypeInv, WakeInv, MainStep PROVE WakeInv'
  OBVIOUS
<1> NumInserters \in Nat /\ NumInserters >= 1 /\ idx \in 1..NumInserters
  BY SizesAssumption DEF TypeInv, TypeOK, Inserters
<1>1. ASSUME pc' \notin {"signal", "wake", "join"}
      PROVE  WakeInv'
  BY <1>1 DEF WakeInv, WakeUpsSuffice
<1>2. CASE \/ Loop \/ ReceiveRecord \/ ReceiveOther \/ ReceiveFormat
           \/ Updated \/ ReceiveBadFormat \/ GetBlock \/ Write
           \/ WriteThrows \/ Destroy
  BY <1>1, <1>2 DEF Loop, ReceiveRecord, ReceiveOther, ReceiveFormat,
     Updated, WriteThrows, ReceiveBadFormat, GetBlock, Write, Destroy
<1>3. CASE CheckError
  BY <1>1, <1>3 DEF CheckError, NextInserter
<1>4. CASE StopExport
  BY <1>4 DEF StopExport, WakeInv, WakeUpsSuffice, Inserters
<1>5. CASE StopSignal
  <2>1. /\ stopSignal' = [stopSignal EXCEPT ![idx] = TRUE]
        /\ stopSignal \in [Inserters -> BOOLEAN]
        /\ \A j \in Inserters : j < idx => stopSignal[j]
        /\ Getters' = Getters
        /\ filledBlocks \in Seq(Blocks \cup {NoBlock})
    BY <1>5 DEF StopSignal, WakeInv, TypeInv, TypeOK, Getters, threadVars
  <2>2. \A j \in Inserters : j <= idx => stopSignal'[j]
    BY <2>1 DEF Inserters
  <2>3. CASE idx < NumInserters
    <3>1. pc' = "signal" /\ idx' = idx + 1
      BY <1>5, <2>3 DEF StopSignal, NextInserter
    <3> QED
      BY <2>2, <3>1 DEF WakeInv, WakeUpsSuffice, Inserters
  <2>4. CASE ~(idx < NumInserters)
    <3>1. pc' = "wake" /\ idx' = 1 /\ UNCHANGED filledBlocks
      BY <1>5, <2>4 DEF StopSignal, NextInserter, blockVars
    <3>2. \A j \in Inserters : stopSignal'[j]
      BY <2>2, <2>4 DEF Inserters
    <3>3. Cardinality(Getters') <= Len(filledBlocks') + NumInserters - (idx' - 1)
      BY <2>1, <3>1, GettersFinite
    <3> QED
      BY <3>1, <3>2, <3>3 DEF WakeInv, WakeUpsSuffice
  <2> QED
    BY <2>3, <2>4
<1>6. CASE StopWake
  <2>1. /\ Len(filledBlocks') = Len(filledBlocks) + 1
        /\ Len(filledBlocks) \in Nat
    BY <1>6 DEF StopWake, TypeInv, TypeOK
  <2>2. Getters' = Getters /\ UNCHANGED stopSignal
    BY <1>6 DEF StopWake, Getters, threadVars
  <2>3. /\ \A j \in Inserters : stopSignal[j]
        /\ Cardinality(Getters) <= Len(filledBlocks) + NumInserters - (idx - 1)
    BY <1>6 DEF StopWake, WakeInv, WakeUpsSuffice
  <2>4. CASE idx < NumInserters
    <3>1. pc' = "wake" /\ idx' = idx + 1
      BY <1>6, <2>4 DEF StopWake, NextInserter
    <3>2. Cardinality(Getters') <= Len(filledBlocks') + NumInserters - (idx' - 1)
      BY <2>1, <2>2, <2>3, <3>1, GettersFinite
    <3> QED
      BY <2>2, <2>3, <3>1, <3>2 DEF WakeInv, WakeUpsSuffice
  <2>5. CASE ~(idx < NumInserters)
    <3>1. pc' = "join" /\ idx' = 1
      BY <1>6, <2>5 DEF StopWake, NextInserter
    <3>2. Cardinality(Getters') <= Len(filledBlocks')
      BY <2>1, <2>2, <2>3, <2>5, GettersFinite
    <3> QED
      BY <2>2, <2>3, <3>1, <3>2 DEF WakeInv, WakeUpsSuffice
  <2> QED
    BY <2>4, <2>5
<1>7. CASE StopJoin
  <2>1. CASE idx < NumInserters
    <3>1. /\ pc = "join" /\ pc' = "join"
          /\ UNCHANGED <<stopSignal, filledBlocks>>
          /\ Getters' = Getters
      BY <1>7, <2>1
      DEF StopJoin, NextInserter, blockVars, threadVars, Getters
    <3> QED
      BY <3>1 DEF WakeInv, WakeUpsSuffice
  <2>2. CASE ~(idx < NumInserters)
    BY <1>1, <1>7, <2>2 DEF StopJoin, NextInserter
  <2> QED
    BY <2>1, <2>2
<1> QED
  BY <1>2, <1>3, <1>4, <1>5, <1>6, <1>7 DEF MainStep

LEMMA InserterWakeInv ==
  ASSUME NEW i \in Inserters
  PROVE  TypeInv /\ WakeInv /\ InserterStep(i) => WakeInv'
<1> SUFFICES ASSUME TypeInv, WakeInv, InserterStep(i) PROVE WakeInv'
  OBVIOUS
<1>0. ipc \in [Inserters -> InserterPcs]
  BY DEF TypeInv, TypeOK
<1>1. CASE Get(i)
  <2>1. i \in Getters /\ Getters' = Getters \ {i}
    BY <1>0, <1>1 DEF Get, Getters
  <2>2. Cardinality(Getters') = Cardinality(Getters) - 1
    BY <2>1, GettersFinite, FS_RemoveElement
  <2>3. Len(filledBlocks') = Len(filledBlocks) - 1 /\ Len(filledBlocks) \in Nat
    BY <1>1 DEF Get, TypeInv, TypeOK
  <2>4. UNCHANGED <<pc, idx, stopSignal>>
    BY <1>1 DEF Get, mainVars
  <2>5. NumInserters \in Nat /\ idx \in Nat
    BY SizesAssumption DEF TypeInv, TypeOK, Inserters
  <2> QED
    BY <2>2, <2>3, <2>4, <2>5, GettersFinite DEF WakeInv, WakeUpsSuffice
<1>2. CASE CheckStop(i)
  <2>1. UNCHANGED <<pc, idx, stopSignal, filledBlocks>>
    BY <1>2 DEF CheckStop, mainVars, blockVars
  <2>2. CASE stopSignal[i]
    <3>1. Getters' = Getters
      BY <1>0, <1>2, <2>2 DEF CheckStop, Getters
    <3> QED
      BY <2>1, <3>1, WakeFrame
  <2>3. CASE ~stopSignal[i]
    BY <2>1, <2>3 DEF WakeInv, WakeUpsSuffice
  <2> QED
    BY <2>2, <2>3
<1>3. CASE \/ Connect(i) \/ Publish(i) \/ InsertLoop(i) \/ Reconnect(i)
           \/ InsertOk(i) \/ InsertFails(i) \/ Recycle(i)
  <2>1. UNCHANGED <<pc, idx, stopSignal, filledBlocks>>
    BY <1>3 DEF Connect, Publish, InsertLoop, Reconnect, InsertOk,
       InsertFails, Recycle, mainVars, blockVars
  <2>2. Getters' = Getters
    BY <1>0, <1>3 DEF Connect, Publish, InsertLoop, Reconnect, InsertOk,
       InsertFails, Recycle, Getters
  <2> QED
    BY <2>1, <2>2, WakeFrame
<1> QED
  BY <1>1, <1>2, <1>3 DEF InserterStep

LEMMA NextWakeInv == TypeInv /\ WakeInv /\ [Next]_vars => WakeInv'
<1> SUFFICES ASSUME TypeInv, WakeInv, [Next]_vars PROVE WakeInv'
  OBVIOUS
<1>1. CASE MainStep
  BY <1>1, MainWakeInv
<1>2. ASSUME NEW i \in Inserters, InserterStep(i)
      PROVE  WakeInv'
  BY <1>2, InserterWakeInv
<1>3. CASE Interrupt \/ Tick \/ UNCHANGED vars
  <2>1. /\ UNCHANGED <<pc, idx, stopSignal, filledBlocks>>
        /\ Getters' = Getters
    BY <1>3 DEF Interrupt, Tick, vars, mainVars, blockVars, threadVars, Getters
  <2> QED
    BY <2>1, WakeFrame
<1> QED
  BY <1>1, <1>2, <1>3 DEF Next, Finished

\* However many inserters wait in get() when stop() is called, and whatever is
\* left in the queue, one nullptr per inserter wakes them all: join() never
\* waits for a thread that waits for an item.
THEOREM StopWakesAll == Spec => []WakeUpsSuffice
<1>1. TypeInv <=> TypeOK /\ PcShape
  BY DEF TypeInv
<1>2. WakeInv => WakeUpsSuffice
  BY DEF WakeInv
<1> QED
  BY <1>1, <1>2, InitTypeInv, NextTypeInv, InitWakeInv, NextWakeInv, PTL
  DEF Spec

----------------------------------------------------------------------------
(* Errors are published after the exception they announce.                 *)

ErrorInv ==
  /\ ErrorHasException
  /\ \A i \in Inserters : ipc[i] = "flag" => exception[i]

LEMMA NextErrorInv == TypeInv /\ ErrorInv /\ [Next]_vars => ErrorInv'
<1> SUFFICES ASSUME TypeInv, ErrorInv, [Next]_vars PROVE ErrorInv'
  OBVIOUS
<1> USE DEF ErrorInv, ErrorHasException, TypeInv, TypeOK
<1>1. CASE MainStep \/ Interrupt \/ Tick \/ UNCHANGED vars
  <2>1. UNCHANGED threadVars
    BY <1>1 DEF MainStep, Loop, ReceiveRecord, ReceiveOther, ReceiveFormat,
       Updated, WriteThrows, ReceiveBadFormat, GetBlock, Write, CheckError,
       StopExport, StopSignal,
       StopWake, StopJoin, Destroy, Interrupt, Tick, vars
  <2> QED
    BY <2>1 DEF threadVars
<1>2. ASSUME NEW i \in Inserters, InserterStep(i)
      PROVE  ErrorInv'
  <2>1. CASE Publish(i)
    BY <2>1 DEF Publish
  <2>2. CASE ~Publish(i)
    <3>1. UNCHANGED <<exception, errored>>
      BY <1>2, <2>2 DEF InserterStep, Connect, CheckStop, Get, InsertLoop,
         Reconnect, InsertOk, InsertFails, Recycle
    <3>2. \A j \in Inserters : ipc'[j] = "flag" => ipc[j] = "flag"
      BY <1>2, <2>2 DEF InserterStep, Connect, CheckStop, Get, InsertLoop,
         Reconnect, InsertOk, InsertFails, Recycle
    <3> QED
      BY <3>1, <3>2
  <2> QED
    BY <2>1, <2>2
<1> QED
  BY <1>1, <1>2 DEF Next, Finished

\* checkError never rethrows a null exception.
THEOREM ErrorPublished == Spec => []ErrorHasException
<1>1. TypeInv <=> TypeOK /\ PcShape
  BY DEF TypeInv
<1>2. Init => ErrorInv
  BY DEF Init, ErrorInv, ErrorHasException
<1>3. ErrorInv => ErrorHasException
  BY DEF ErrorInv
<1> QED
  BY <1>1, <1>2, <1>3, InitTypeInv, NextTypeInv, NextErrorInv, PTL DEF Spec

----------------------------------------------------------------------------
(* Where a block can be, and what its rows can be.                         *)

\* What is left to write to fits: a block is sent out at the threshold, so the
\* current one is always below it.
SizeInv ==
  /\ BlocksFitTheirPlace
  /\ current # NoBlock => Len(rows[current]) < Threshold

\* Nothing is in a block before it is accepted.
OrderInv ==
  /\ ArrivalOrder
  /\ Held \subseteq Accepted

\* A record is in one block at most, is stored only once its block has been
\* inserted, and the block it is in then is about to be cleared.
CopyInv ==
  ~MayFail("ackLost") =>
    /\ NoDuplicates
    /\ \A r \in Records : r \notin Accepted => stored[r] = 0
    /\ \A a, b \in Blocks : a # b => Elems(rows[a]) \cap Elems(rows[b]) = {}
    /\ \A b \in Blocks :
         (\A i \in Inserters : hand[i] = b => ipc[i] # "recycle")
           => \A r \in Elems(rows[b]) : stored[r] = 0

\* An inserter clears a block only when its rows are in the table, or when it was
\* told to stop.
RetireInv ==
  /\ \A i \in Inserters : stopSignal[i] => Stopping
  /\ \A i \in Inserters : ipc[i] = "recycle" =>
       Stopping \/ \A r \in Elems(rows[hand[i]]) : stored[r] > 0

----------------------------------------------------------------------------
(* What a step can do to the blocks.                                       *)

\* no block moves or changes
Still == UNCHANGED <<emptyBlocks, filledBlocks, rows, current, hand>>

\* the main thread puts its block in the queue
Exported ==
  /\ current # NoBlock /\ rows[current] # <<>>
  /\ filledBlocks' = Append(filledBlocks, current)
  /\ current' = NoBlock
  /\ UNCHANGED <<emptyBlocks, rows, hand>>

\* An export puts a block in the queue or does nothing.
LEMMA ExportMoves ==
  ASSUME ExportLeft, UNCHANGED <<emptyBlocks, rows, hand>>
  PROVE  Exported \/ Still
<1> DEFINE left == current # NoBlock /\ rows[current] # <<>>
<1>1. CASE left
  <2>1. filledBlocks' = Append(filledBlocks, current) /\ current' = NoBlock
    BY <1>1, Zenon DEF ExportLeft
  <2> QED
    BY <1>1, <2>1 DEF Exported
<1>2. CASE ~left
  <2>1. filledBlocks' = filledBlocks /\ current' = current
    BY <1>2, Zenon DEF ExportLeft
  <2> QED
    BY <2>1 DEF Still
<1> QED
  BY <1>1, <1>2

\* Only these steps move or change a block.
LEMMA BlockMoves ==
  ASSUME [Next]_vars
  PROVE  \/ Still
         \/ Exported /\ ~Write
         \/ GetBlock \/ Write \/ StopWake
         \/ \E i \in Inserters : Get(i) \/ Recycle(i)
<1> USE DEF Still, blockVars, threadVars, mainVars
<1>1. CASE MainStep
  <2>1. CASE Loop \/ ReceiveRecord \/ ReceiveOther \/ Updated \/ ReceiveBadFormat
             \/ WriteThrows \/ CheckError \/ StopSignal \/ StopJoin \/ Destroy
    BY <2>1 DEF Loop, ReceiveRecord, ReceiveOther, Updated, WriteThrows,
       ReceiveBadFormat,
       CheckError, StopSignal, StopJoin, Destroy
  <2>2. CASE ReceiveFormat
    <3>1. /\ ExportLeft /\ pc = "receive"
          /\ UNCHANGED <<emptyBlocks, rows, hand>>
      BY <2>2 DEF ReceiveFormat
    <3> QED
      BY <3>1, ExportMoves DEF Write
  <2>3. CASE StopExport
    <3>1. /\ ExportLeft /\ pc = "export"
          /\ UNCHANGED <<emptyBlocks, rows, hand>>
      BY <2>3 DEF StopExport
    <3> QED
      BY <3>1, ExportMoves DEF Write
  <2> QED
    BY <1>1, <2>1, <2>2, <2>3 DEF MainStep
<1>2. ASSUME NEW i \in Inserters, InserterStep(i)
      PROVE  Still \/ Get(i) \/ Recycle(i)
  BY <1>2 DEF InserterStep, Connect, Publish, CheckStop, InsertLoop, Reconnect,
     InsertOk, InsertFails
<1>3. CASE Interrupt \/ Tick \/ UNCHANGED vars
  BY <1>3 DEF Interrupt, Tick, vars
<1> QED
  BY <1>1, <1>2, <1>3 DEF Next, Finished

\* A write either keeps the block, which then is below the threshold, or sends it.
LEMMA WriteMoves ==
  ASSUME TypeInv, Write
  PROVE  /\ current \in Blocks /\ current # NoBlock /\ Incoming \in Records
         /\ rows' = [rows EXCEPT ![current] = Append(rows[current], Incoming)]
         /\ rows[current] \in Seq(Records)
         /\ UNCHANGED <<emptyBlocks, hand>>
         /\ \/ /\ UNCHANGED <<filledBlocks, current>>
               /\ Len(rows[current]) + 1 < Threshold
            \/ /\ filledBlocks' = Append(filledBlocks, current)
               /\ current' = NoBlock
<1> USE DEF TypeInv, TypeOK, PcShape
<1> DEFINE written == Append(rows[current], Incoming)
           last == IF lastInsert = 0 THEN clock ELSE lastInsert
           due == Due(Len(written), clock, last)
<1>1. current \in Blocks /\ current # NoBlock /\ Incoming \in Records
  BY DEF Write
<1>2. /\ rows' = [rows EXCEPT ![current] = written]
      /\ UNCHANGED <<emptyBlocks, hand>>
  BY DEF Write, threadVars
<1>3. rows[current] \in Seq(Records) /\ Len(written) = Len(rows[current]) + 1
  BY <1>1
<1>4. CASE due
  <2>1. filledBlocks' = Append(filledBlocks, current) /\ current' = NoBlock
    BY <1>4, Zenon DEF Write
  <2> QED
    BY <1>1, <1>2, <1>3, <2>1
<1>5. CASE ~due
  <2>1. UNCHANGED <<filledBlocks, current>>
    BY <1>5, Zenon DEF Write
  <2>2. Len(rows[current]) + 1 < Threshold
    BY <1>3, <1>5, SizesAssumption DEF Due
  <2> QED
    BY <1>1, <1>2, <1>3, <2>1, <2>2
<1> QED
  BY <1>4, <1>5

----------------------------------------------------------------------------
(* No block is lost.                                                       *)

\* What a put adds to what a sequence holds.
LEMMA AppendElems ==
  ASSUME NEW S, NEW s \in Seq(S), NEW x \in S
  PROVE  Elems(Append(s, x)) = Elems(s) \cup {x}
<1>1. /\ DOMAIN Append(s, x) = (DOMAIN s) \cup {Len(s) + 1}
      /\ Len(s) + 1 \notin DOMAIN s
      /\ \A k \in DOMAIN s : Append(s, x)[k] = s[k]
      /\ Append(s, x)[Len(s) + 1] = x
  BY AppendFacts
<1> DEFINE n == Len(s) + 1
           t == Append(s, x)
<1> HIDE DEF n, t
<1>2. /\ DOMAIN t = (DOMAIN s) \cup {n}
      /\ \A k \in DOMAIN s : t[k] = s[k]
      /\ t[n] = x
  BY <1>1 DEF n, t
<1>3. Elems(t) = Elems(s) \cup {x}
  BY <1>2 DEF Elems
<1> QED
  BY <1>3 DEF t

\* What SyncQueue::get leaves.
LEMMA TailElems ==
  ASSUME NEW S, NEW s \in Seq(S), s # <<>>
  PROVE  Elems(s) = Elems(Tail(s)) \cup {Head(s)}
<1>1. /\ DOMAIN s = 1..Len(s) /\ Len(s) \in Nat /\ Len(s) >= 1
      /\ DOMAIN Tail(s) = 1..(Len(s) - 1)
      /\ Head(s) = s[1]
      /\ \A k \in 1..(Len(s) - 1) : Tail(s)[k] = s[k + 1]
  OBVIOUS
<1> DEFINE t == Tail(s)
           n == Len(s)
<1> HIDE DEF t, n
<1>2. /\ DOMAIN s = 1..n /\ n \in Nat /\ n >= 1
      /\ DOMAIN t = 1..(n - 1)
      /\ \A k \in 1..(n - 1) : t[k] = s[k + 1]
  BY <1>1 DEF t, n
<1>3. \A k \in DOMAIN s : k = 1 \/ (k - 1 \in DOMAIN t /\ t[k - 1] = s[k])
  BY <1>2
<1>4. \A k \in DOMAIN t : k + 1 \in DOMAIN s /\ t[k] = s[k + 1]
  BY <1>2
<1>5. Elems(s) = Elems(t) \cup {s[1]}
  BY <1>2, <1>3, <1>4 DEF Elems
<1> QED
  BY <1>1, <1>5 DEF t

\* What SyncStack::get leaves.
LEMMA PopElems ==
  ASSUME NEW S, NEW s \in Seq(S), s # <<>>
  PROVE  Elems(s) = Elems(SubSeq(s, 1, Len(s) - 1)) \cup {s[Len(s)]}
<1> DEFINE t == SubSeq(s, 1, Len(s) - 1)
           n == Len(s)
<1>1. /\ DOMAIN s = 1..n /\ n \in Nat /\ n >= 1
      /\ DOMAIN t = 1..(n - 1)
      /\ \A k \in 1..(n - 1) : t[k] = s[k]
  OBVIOUS
<1> HIDE DEF t, n
<1>2. \A k \in DOMAIN s : k = n \/ (k \in DOMAIN t /\ t[k] = s[k])
  BY <1>1
<1>3. n \in DOMAIN s /\ \A k \in DOMAIN t : k \in DOMAIN s /\ t[k] = s[k]
  BY <1>1
<1>4. Elems(s) = Elems(t) \cup {s[n]}
  BY <1>2, <1>3 DEF Elems
<1> QED
  BY <1>4 DEF t, n

LEMMA NextNoBlockLeaks ==
  TypeInv /\ NoBlockLeaks /\ [Next]_vars => NoBlockLeaks'
<1> SUFFICES ASSUME TypeInv, NoBlockLeaks, [Next]_vars PROVE NoBlockLeaks'
  OBVIOUS
<1> USE DEF NoBlockLeaks
<1>0. /\ emptyBlocks \in Seq(Blocks)
      /\ filledBlocks \in Seq(Blocks \cup {NoBlock})
      /\ current \in Blocks \cup {NoBlock}
      /\ hand \in [Inserters -> Blocks \cup {NoBlock}]
      /\ NoBlock \notin Blocks
  BY EmptyAreBlocks DEF TypeInv, TypeOK
<1>1. ASSUME filledBlocks' = Append(filledBlocks, current), current' = NoBlock,
             UNCHANGED <<emptyBlocks, hand>>
      PROVE  NoBlockLeaks'
  BY <1>0, <1>1, AppendElems
<1>2. CASE Still
  BY <1>2 DEF Still
<1>3. CASE Exported
  BY <1>1, <1>3 DEF Exported
<1>4. CASE GetBlock
  <2>1. /\ Elems(emptyBlocks) = Elems(emptyBlocks') \cup {current'}
        /\ current = NoBlock
        /\ UNCHANGED <<filledBlocks, hand>>
    BY <1>0, <1>4, PopElems DEF GetBlock, TypeInv, PcShape, threadVars
  <2> QED
    BY <1>0, <2>1
<1>5. CASE Write
  BY <1>1, <1>5, WriteMoves
<1>6. CASE StopWake
  <2>1. /\ Elems(filledBlocks') = Elems(filledBlocks) \cup {NoBlock}
        /\ UNCHANGED <<emptyBlocks, current, hand>>
    BY <1>0, <1>6, AppendElems DEF StopWake, threadVars
  <2> QED
    BY <2>1
<1>7. ASSUME NEW i \in Inserters, Get(i)
      PROVE  NoBlockLeaks'
  <2>1. /\ Elems(filledBlocks) = Elems(filledBlocks') \cup {Head(filledBlocks)}
        /\ \A j \in Inserters :
             hand'[j] = IF j = i THEN Head(filledBlocks) ELSE hand[j]
        /\ UNCHANGED <<emptyBlocks, current>>
    BY <1>0, <1>7, TailElems DEF Get, mainVars
  <2>2. hand[i] = NoBlock
    BY <1>7 DEF Get, TypeInv, TypeOK, PcShape, Holding
  <2> QED
    BY <1>0, <2>1, <2>2
<1>8. ASSUME NEW i \in Inserters, Recycle(i)
      PROVE  NoBlockLeaks'
  <2>1. hand[i] \in Blocks
    BY <1>0, <1>8 DEF Recycle, TypeInv, PcShape, Holding
  <2>2. /\ Elems(emptyBlocks') = Elems(emptyBlocks) \cup {hand[i]}
        /\ \A j \in Inserters : hand'[j] = IF j = i THEN NoBlock ELSE hand[j]
        /\ UNCHANGED <<filledBlocks, current>>
    BY <1>0, <1>8, <2>1, AppendElems DEF Recycle, mainVars
  <2> QED
    BY <1>0, <2>2
<1> QED
  BY <1>2, <1>3, <1>4, <1>5, <1>6, <1>7, <1>8, BlockMoves

LEMMA InitNoBlockLeaks == Init => NoBlockLeaks
<1> SUFFICES ASSUME Init PROVE NoBlockLeaks
  OBVIOUS
<1>1. \A b \in Blocks : b \in DOMAIN emptyBlocks /\ emptyBlocks[b] = b
  BY SizesAssumption DEF Init, Blocks
<1>2. \A b \in Blocks : b \in Elems(emptyBlocks)
  BY <1>1 DEF Elems
<1> QED
  BY <1>2 DEF NoBlockLeaks

\* Every block is in the stack, in the queue, with the main thread or with an
\* inserter, whatever the server does: the main thread never runs out of blocks.
THEOREM BlocksCirculate == Spec => []NoBlockLeaks
BY InitTypeInv, NextTypeInv, InitNoBlockLeaks, NextNoBlockLeaks, PTL DEF Spec

----------------------------------------------------------------------------
(* Blocks on the stack are clear, blocks in the queue are neither empty nor  *)
(* too long.                                                               *)

\* The main thread hands a block that fits to the queue.
LEMMA PutFits ==
  ASSUME TypeInv, OneHolder, SizeInv, current # NoBlock,
         rows' \in [Blocks -> Seq(Records)],
         \A b \in Blocks : b # current => rows'[b] = rows[b],
         Len(rows'[current]) \in 1..Threshold,
         filledBlocks' = Append(filledBlocks, current),
         current' = NoBlock, UNCHANGED emptyBlocks
  PROVE  SizeInv'
<1> USE DEF TypeInv, TypeOK, SizeInv, BlocksFitTheirPlace
<1> DEFINE n == Len(filledBlocks) + 1
<1>1. /\ DOMAIN filledBlocks' = (DOMAIN filledBlocks) \cup {n}
      /\ \A k \in DOMAIN filledBlocks : filledBlocks'[k] = filledBlocks[k]
      /\ filledBlocks'[n] = current
  BY AppendFacts
<1> HIDE DEF n
<1>2. \A k \in DOMAIN filledBlocks :
        filledBlocks[k] # NoBlock => /\ filledBlocks[k] \in Blocks
                                     /\ filledBlocks[k] # current
  BY DEF OneHolder
<1>3. \A k \in DOMAIN emptyBlocks :
        emptyBlocks[k] \in Blocks /\ emptyBlocks[k] # current
  BY EmptyAreBlocks DEF OneHolder
<1>4. \A k \in DOMAIN emptyBlocks' : rows'[emptyBlocks'[k]] = <<>>
  BY <1>3
<1>5. \A l \in DOMAIN filledBlocks' : filledBlocks'[l] # NoBlock =>
        Len(rows'[filledBlocks'[l]]) \in 1..Threshold
  BY <1>1, <1>2
<1> QED
  BY <1>4, <1>5

LEMMA NextSizeInv ==
  TypeInv /\ OneHolder /\ SizeInv /\ [Next]_vars => SizeInv'
<1> SUFFICES ASSUME TypeInv, OneHolder, SizeInv, [Next]_vars PROVE SizeInv'
  OBVIOUS
<1>0. /\ emptyBlocks \in Seq(Blocks)
      /\ filledBlocks \in Seq(Blocks \cup {NoBlock})
      /\ rows \in [Blocks -> Seq(Records)]
      /\ current \in Blocks \cup {NoBlock}
      /\ hand \in [Inserters -> Blocks \cup {NoBlock}]
      /\ \A b \in Blocks : Len(rows[b]) \in Nat /\ (rows[b] # <<>> => Len(rows[b]) > 0)
      /\ Threshold \in Nat /\ Threshold > 0
  BY SizesAssumption DEF TypeInv, TypeOK
<1>1. CASE Still
  BY <1>1 DEF Still, SizeInv, BlocksFitTheirPlace
<1>2. CASE Exported
  <2>1. Len(rows'[current]) \in 1..Threshold
    BY <1>0, <1>2 DEF Exported, SizeInv
  <2> QED
    BY <1>0, <1>2, <2>1, PutFits DEF Exported
<1>3. CASE GetBlock
  <2>1. /\ Len(emptyBlocks) \in DOMAIN emptyBlocks
        /\ current' = emptyBlocks[Len(emptyBlocks)]
        /\ \A k \in DOMAIN emptyBlocks' :
             k \in DOMAIN emptyBlocks /\ emptyBlocks'[k] = emptyBlocks[k]
        /\ UNCHANGED <<filledBlocks, rows>>
    BY <1>0, <1>3, PopFacts DEF GetBlock
  <2> QED
    BY <1>0, <2>1 DEF SizeInv, BlocksFitTheirPlace
<1>4. CASE Write
  <2>1. /\ current \in Blocks /\ current # NoBlock /\ Incoming \in Records
        /\ rows' = [rows EXCEPT ![current] = Append(rows[current], Incoming)]
        /\ UNCHANGED emptyBlocks
        /\ \/ /\ UNCHANGED <<filledBlocks, current>>
              /\ Len(rows[current]) + 1 < Threshold
           \/ /\ filledBlocks' = Append(filledBlocks, current)
              /\ current' = NoBlock
    BY <1>4, WriteMoves
  <2>2. /\ rows' \in [Blocks -> Seq(Records)]
        /\ \A b \in Blocks : b # current => rows'[b] = rows[b]
        /\ Len(rows'[current]) = Len(rows[current]) + 1
    BY <1>0, <2>1
  <2>3. Len(rows'[current]) \in 1..Threshold
    BY <1>0, <2>1, <2>2 DEF SizeInv
  <2>4. CASE /\ UNCHANGED <<filledBlocks, current>>
             /\ Len(rows[current]) + 1 < Threshold
    <3>1. \A k \in DOMAIN emptyBlocks : /\ emptyBlocks[k] \in Blocks
                                        /\ emptyBlocks[k] # current
      BY EmptyAreBlocks DEF OneHolder
    <3>2. \A l \in DOMAIN filledBlocks : filledBlocks[l] # NoBlock =>
            filledBlocks[l] \in Blocks /\ filledBlocks[l] # current
      BY <1>0 DEF OneHolder
    <3> QED
      BY <2>1, <2>2, <2>4, <3>1, <3>2 DEF SizeInv, BlocksFitTheirPlace
  <2>5. CASE filledBlocks' = Append(filledBlocks, current) /\ current' = NoBlock
    BY <2>1, <2>2, <2>3, <2>5, PutFits
  <2> QED
    BY <2>1, <2>4, <2>5
<1>5. CASE StopWake
  <2>1. /\ DOMAIN filledBlocks' = (DOMAIN filledBlocks) \cup {Len(filledBlocks) + 1}
        /\ \A k \in DOMAIN filledBlocks : filledBlocks'[k] = filledBlocks[k]
        /\ filledBlocks'[Len(filledBlocks) + 1] = NoBlock
        /\ UNCHANGED <<emptyBlocks, rows, current>>
    BY <1>0, <1>5, AppendFacts DEF StopWake
  <2> QED
    BY <2>1 DEF SizeInv, BlocksFitTheirPlace
<1>6. ASSUME NEW i \in Inserters, Get(i)
      PROVE  SizeInv'
  <2>1. /\ \A k \in DOMAIN filledBlocks' :
             /\ k + 1 \in DOMAIN filledBlocks
             /\ filledBlocks'[k] = filledBlocks[k + 1]
        /\ UNCHANGED <<emptyBlocks, rows, current>>
    BY <1>0, <1>6, TailFacts DEF Get, mainVars
  <2> QED
    BY <2>1 DEF SizeInv, BlocksFitTheirPlace
<1>7. ASSUME NEW i \in Inserters, Recycle(i)
      PROVE  SizeInv'
  <2>1. hand[i] \in Blocks /\ hand[i] # NoBlock
    BY <1>0, <1>7 DEF Recycle, TypeInv, PcShape, Holding
  <2>2. /\ \A b \in Blocks : rows'[b] = IF b = hand[i] THEN <<>> ELSE rows[b]
        /\ UNCHANGED <<filledBlocks, current>>
    BY <1>0, <1>7, <2>1 DEF Recycle, mainVars
  <2> DEFINE n == Len(emptyBlocks) + 1
  <2>3. /\ DOMAIN emptyBlocks' = (DOMAIN emptyBlocks) \cup {n}
        /\ \A k \in DOMAIN emptyBlocks : emptyBlocks'[k] = emptyBlocks[k]
        /\ emptyBlocks'[n] = hand[i]
    BY <1>0, <1>7, <2>1, AppendFacts DEF Recycle
  <2> HIDE DEF n
  <2>4. \A k \in DOMAIN emptyBlocks' : rows'[emptyBlocks'[k]] = <<>>
    BY <2>1, <2>2, <2>3, EmptyAreBlocks DEF SizeInv, BlocksFitTheirPlace
  <2>5. \A l \in DOMAIN filledBlocks : filledBlocks[l] # NoBlock =>
          filledBlocks[l] \in Blocks /\ filledBlocks[l] # hand[i]
    BY <1>0 DEF OneHolder
  <2>6. current # NoBlock => current \in Blocks /\ hand[i] # current
    BY <1>0, <2>1 DEF OneHolder
  <2> QED
    BY <2>2, <2>4, <2>5, <2>6 DEF SizeInv, BlocksFitTheirPlace
<1> QED
  BY <1>1, <1>2, <1>3, <1>4, <1>5, <1>6, <1>7, BlockMoves

LEMMA InitSizeInv == Init => SizeInv
BY DEF Init, SizeInv, BlocksFitTheirPlace, Blocks

\* A block in the stack has no rows and one in the queue has from one row to the
\* threshold, whoever put it there: no insert is empty, none repeats old rows.
THEOREM BlocksFit == Spec => []BlocksFitTheirPlace
<1>1. TypeInv <=> TypeOK /\ PcShape
  BY DEF TypeInv
<1>2. SizeInv => BlocksFitTheirPlace
  BY DEF SizeInv
<1> QED
  BY <1>1, <1>2, InitTypeInv, NextTypeInv, InitOneHolder, NextOneHolder,
     InitSizeInv, NextSizeInv, PTL DEF Spec

----------------------------------------------------------------------------
(* The records that are accepted and those that the blocks hold.           *)

\* A record is accepted when it is written to a block, and at no other step.
LEMMA AcceptedMoves ==
  ASSUME TypeInv, [Next]_vars
  PROVE  /\ Write => /\ Accepted' = Accepted \cup {Incoming}
                     /\ Incoming \notin Accepted
                     /\ Incoming \in Records
                     /\ \A r \in Accepted : r < Incoming
         /\ ~Write => Accepted' = Accepted
<1>1. CASE Write
  <2>1. received' = received + 1 /\ Incoming = received + 1
    BY <1>1 DEF Write, Incoming
  <2>2. Incoming \in Records
    BY <1>1, WriteMoves
  <2>3. received \in Nat
    BY BoundsAssumption DEF TypeInv, TypeOK
  <2> QED
    BY <1>1, <2>1, <2>2, <2>3 DEF Accepted
<1>2. CASE ~Write
  <2>1. UNCHANGED received
    <3>1. CASE MainStep
      BY <1>2, <3>1 DEF MainStep, Loop, ReceiveRecord, ReceiveOther,
         ReceiveFormat, Updated, ReceiveBadFormat, GetBlock, WriteThrows,
         CheckError, StopExport, StopSignal, StopWake, StopJoin, Destroy
    <3>2. CASE ~MainStep
      BY <3>2 DEF Next, InserterStep, Connect, Publish, CheckStop, Get,
         InsertLoop, Reconnect, InsertOk, InsertFails, Recycle, Interrupt,
         Tick, Finished, vars, mainVars
    <3> QED
      BY <3>1, <3>2
  <2> QED
    BY <1>2, <2>1 DEF Accepted
<1> QED
  BY <1>1, <1>2

\* The rows change when a record is written and when a block is cleared.
LEMMA RowsMoves ==
  ASSUME TypeInv, [Next]_vars
  PROVE  \/ UNCHANGED rows /\ ~Write
         \/ Write
         \/ \E i \in Inserters : Recycle(i) /\ ~Write
<1>1. CASE Write
  BY <1>1
<1>2. CASE ~Write
  BY <1>2, BlockMoves DEF Still, Exported, GetBlock, StopWake, Get
<1> QED
  BY <1>1, <1>2

\* A write adds its record to what its block holds.
LEMMA WriteElems ==
  ASSUME TypeInv, Write
  PROVE  /\ current \in Blocks
         /\ \A b \in Blocks : Elems(rows'[b]) =
              IF b = current THEN Elems(rows[b]) \cup {Incoming}
              ELSE Elems(rows[b])
         /\ Held' = Held \cup {Incoming}
<1>1. /\ current \in Blocks /\ Incoming \in Records
      /\ rows' = [rows EXCEPT ![current] = Append(rows[current], Incoming)]
      /\ rows[current] \in Seq(Records)
      /\ rows \in [Blocks -> Seq(Records)]
  BY WriteMoves DEF TypeInv, TypeOK
<1>2. Elems(Append(rows[current], Incoming)) = Elems(rows[current]) \cup {Incoming}
  BY <1>1, AppendElems
<1>3. \A b \in Blocks : Elems(rows'[b]) =
        IF b = current THEN Elems(rows[b]) \cup {Incoming} ELSE Elems(rows[b])
  BY <1>1, <1>2
<1> QED
  BY <1>1, <1>3 DEF Held

\* A clear takes away what the block held, and nothing else.
LEMMA RecycleElems ==
  ASSUME TypeInv, NEW i \in Inserters, Recycle(i)
  PROVE  /\ hand[i] \in Blocks /\ hand[i] # NoBlock
         /\ \A b \in Blocks : rows'[b] = IF b = hand[i] THEN <<>> ELSE rows[b]
         /\ \A b \in Blocks : Elems(rows'[b]) =
              IF b = hand[i] THEN {} ELSE Elems(rows[b])
         /\ Held' \subseteq Held
         /\ Held \ Held' \subseteq Elems(rows[hand[i]])
<1>1. /\ hand[i] \in Blocks /\ hand[i] # NoBlock
      /\ rows \in [Blocks -> Seq(Records)]
      /\ rows' = [rows EXCEPT ![hand[i]] = <<>>]
  BY DEF Recycle, TypeInv, TypeOK, PcShape, Holding
<1>2. \A b \in Blocks : rows'[b] = IF b = hand[i] THEN <<>> ELSE rows[b]
  BY <1>1
<1>3. Elems(<<>>) = {}
  BY DEF Elems
<1>4. \A b \in Blocks : Elems(rows'[b]) =
        IF b = hand[i] THEN {} ELSE Elems(rows[b])
  BY <1>2, <1>3
<1> QED
  BY <1>1, <1>2, <1>4 DEF Held

----------------------------------------------------------------------------
(* The stream keeps its order.                                             *)

\* in f, all rows of block a come before all rows of block b
Before(f, a, b) ==
  \A m \in DOMAIN f[a], n \in DOMAIN f[b] : f[a][m] < f[b][n]

Sorted ==
  \A b \in Blocks : \A m, n \in DOMAIN rows[b] : m < n => rows[b][m] < rows[b][n]

QueueSorted ==
  \A k, l \in DOMAIN filledBlocks :
    k < l /\ filledBlocks[k] # NoBlock /\ filledBlocks[l] # NoBlock
      => Before(rows, filledBlocks[k], filledBlocks[l])

CurrentLast ==
  \A k \in DOMAIN filledBlocks :
    filledBlocks[k] # NoBlock /\ current # NoBlock
      => Before(rows, filledBlocks[k], current)

\* The three parts of ArrivalOrder by name, in a state and in the next one.
LEMMA OrderParts == ArrivalOrder <=> Sorted /\ QueueSorted /\ CurrentLast
BY DEF ArrivalOrder, Sorted, QueueSorted, CurrentLast, Before

LEMMA OrderPartsNext ==
  ArrivalOrder' <=> Sorted' /\ QueueSorted' /\ CurrentLast'
BY DEF ArrivalOrder, Sorted, QueueSorted, CurrentLast, Before

\* The current block goes to the end of the queue.
LEMMA PutKeepsOrder ==
  ASSUME TypeInv, current # NoBlock,
         \A k, l \in DOMAIN filledBlocks :
           k < l /\ filledBlocks[k] # NoBlock /\ filledBlocks[l] # NoBlock
             => Before(rows', filledBlocks[k], filledBlocks[l]),
         \A k \in DOMAIN filledBlocks :
           filledBlocks[k] # NoBlock => Before(rows', filledBlocks[k], current),
         filledBlocks' = Append(filledBlocks, current), current' = NoBlock
  PROVE  QueueSorted' /\ CurrentLast'
<1> DEFINE n == Len(filledBlocks) + 1
<1>1. /\ DOMAIN filledBlocks' = (DOMAIN filledBlocks) \cup {n}
      /\ \A k \in DOMAIN filledBlocks : filledBlocks'[k] = filledBlocks[k]
      /\ filledBlocks'[n] = current
      /\ \A k \in DOMAIN filledBlocks : k \in Int /\ k < n
      /\ n \in Int
  BY AppendFacts DEF TypeInv, TypeOK
<1> HIDE DEF n
<1>2. \A k, l \in DOMAIN filledBlocks' : k < l => k \in DOMAIN filledBlocks
  BY <1>1
<1> QED
  BY <1>1, <1>2 DEF QueueSorted, CurrentLast

\* The record that is written is the last one so far.
LEMMA WriteKeepsOrder ==
  ASSUME TypeInv, OneHolder, Held \subseteq Accepted, [Next]_vars, Write,
         Sorted, QueueSorted, CurrentLast
  PROVE  Sorted' /\ QueueSorted' /\ CurrentLast'
<1>1. /\ current \in Blocks /\ current # NoBlock /\ Incoming \in Records
      /\ rows' = [rows EXCEPT ![current] = Append(rows[current], Incoming)]
      /\ rows[current] \in Seq(Records)
      /\ rows \in [Blocks -> Seq(Records)]
      /\ \/ UNCHANGED <<filledBlocks, current>>
         \/ filledBlocks' = Append(filledBlocks, current) /\ current' = NoBlock
  BY WriteMoves DEF TypeInv, TypeOK
<1>2. \A b \in Blocks : \A m \in DOMAIN rows[b] :
        rows[b][m] \in Int /\ rows[b][m] < Incoming
  <2>1. \A r \in Accepted : r \in Int /\ r < Incoming
    BY AcceptedMoves DEF Accepted
  <2> QED
    BY <2>1 DEF Held, Elems
<1> DEFINE old == rows[current]
           new == Append(old, Incoming)
           n   == Len(old) + 1
<1>3. /\ DOMAIN new = (DOMAIN old) \cup {n}
      /\ \A k \in DOMAIN old : new[k] = old[k] /\ k \in Int /\ k < n
      /\ new[n] = Incoming /\ n \in Int
  BY <1>1, AppendFacts
<1>4. rows'[current] = new /\ \A b \in Blocks : b # current => rows'[b] = rows[b]
  BY <1>1
<1>5. \A k \in DOMAIN old : old[k] \in Int /\ old[k] < Incoming
  BY <1>1, <1>2
<1>6. \A m, k \in DOMAIN old : m < k => old[m] < old[k]
  BY <1>1 DEF Sorted
<1>7. /\ current' \in {current, NoBlock} /\ Incoming \in Int
      /\ filledBlocks \in Seq(Blocks \cup {NoBlock})
  BY <1>1 DEF Records, TypeInv, TypeOK
<1> HIDE DEF old, new, n
<1>8. Sorted'
  <2>1. \A m, k \in DOMAIN new : m < k => new[m] < new[k]
    BY <1>3, <1>5, <1>6, <1>7
  <2> QED
    BY <1>4, <2>1 DEF Sorted
<1>9. \A k \in DOMAIN filledBlocks : filledBlocks[k] # NoBlock =>
        filledBlocks[k] \in Blocks /\ filledBlocks[k] # current
  BY <1>7 DEF OneHolder
<1>10. \A k, l \in DOMAIN filledBlocks :
         k < l /\ filledBlocks[k] # NoBlock /\ filledBlocks[l] # NoBlock
           => Before(rows', filledBlocks[k], filledBlocks[l])
  BY <1>4, <1>9 DEF QueueSorted, Before
<1>11. \A k \in DOMAIN filledBlocks :
         filledBlocks[k] # NoBlock => Before(rows', filledBlocks[k], current)
  <2> SUFFICES ASSUME NEW k \in DOMAIN filledBlocks, filledBlocks[k] # NoBlock
               PROVE  Before(rows', filledBlocks[k], current)
    OBVIOUS
  <2>1. Before(rows, filledBlocks[k], current)
    BY <1>1 DEF CurrentLast
  <2>2. \A m \in DOMAIN rows[filledBlocks[k]] : rows[filledBlocks[k]][m] < Incoming
    BY <1>2, <1>9
  <2> QED
    BY <1>3, <1>4, <1>9, <2>1, <2>2 DEF Before, old
<1>12. CASE UNCHANGED <<filledBlocks, current>>
  BY <1>8, <1>10, <1>11, <1>12 DEF QueueSorted, CurrentLast
<1>13. CASE filledBlocks' = Append(filledBlocks, current) /\ current' = NoBlock
  BY <1>1, <1>8, <1>10, <1>11, <1>13, PutKeepsOrder
<1> QED
  BY <1>1, <1>12, <1>13

LEMMA NextOrderInv ==
  TypeInv /\ OneHolder /\ SizeInv /\ OrderInv /\ [Next]_vars => OrderInv'
<1> SUFFICES ASSUME TypeInv, OneHolder, SizeInv, OrderInv, [Next]_vars
             PROVE  OrderInv'
  OBVIOUS
<1>0. /\ Sorted /\ QueueSorted /\ CurrentLast
      /\ Held \subseteq Accepted
      /\ emptyBlocks \in Seq(Blocks)
      /\ filledBlocks \in Seq(Blocks \cup {NoBlock})
      /\ rows \in [Blocks -> Seq(Records)]
      /\ current \in Blocks \cup {NoBlock}
      /\ hand \in [Inserters -> Blocks \cup {NoBlock}]
  BY OrderParts DEF OrderInv, TypeInv, TypeOK
<1>1. Held' \subseteq Accepted'
  <2>1. CASE UNCHANGED rows /\ ~Write
    BY <1>0, <2>1, AcceptedMoves DEF Held
  <2>2. CASE Write
    BY <1>0, <2>2, AcceptedMoves, WriteElems
  <2>3. ASSUME NEW i \in Inserters, Recycle(i), ~Write
        PROVE  Held' \subseteq Accepted'
    BY <1>0, <2>3, AcceptedMoves, RecycleElems
  <2> QED
    BY <2>1, <2>2, <2>3, RowsMoves
<1>2. Sorted' /\ QueueSorted' /\ CurrentLast'
  <2>1. CASE Still
    BY <1>0, <2>1 DEF Still, Sorted, QueueSorted, CurrentLast
  <2>2. CASE Exported
    <3>1. /\ UNCHANGED rows /\ current # NoBlock
          /\ filledBlocks' = Append(filledBlocks, current)
          /\ current' = NoBlock
      BY <2>2 DEF Exported
    <3> QED
      BY <1>0, <3>1, PutKeepsOrder DEF Sorted, QueueSorted, CurrentLast
  <2>3. CASE GetBlock
    <3>1. /\ Len(emptyBlocks) \in DOMAIN emptyBlocks
          /\ current' = emptyBlocks[Len(emptyBlocks)]
          /\ UNCHANGED <<filledBlocks, rows>>
      BY <1>0, <2>3, PopFacts DEF GetBlock
    <3>2. rows[current'] = <<>>
      BY <3>1 DEF SizeInv, BlocksFitTheirPlace
    <3> QED
      BY <1>0, <3>1, <3>2 DEF Sorted, QueueSorted, CurrentLast, Before
  <2>4. CASE Write
    BY <1>0, <2>4, WriteKeepsOrder
  <2>5. CASE StopWake
    <3>1. /\ DOMAIN filledBlocks' = (DOMAIN filledBlocks) \cup {Len(filledBlocks) + 1}
          /\ \A k \in DOMAIN filledBlocks : filledBlocks'[k] = filledBlocks[k]
          /\ filledBlocks'[Len(filledBlocks) + 1] = NoBlock
          /\ UNCHANGED <<rows, current>>
      BY <1>0, <2>5, AppendFacts DEF StopWake
    <3> QED
      BY <1>0, <3>1 DEF Sorted, QueueSorted, CurrentLast
  <2>6. ASSUME NEW i \in Inserters, Get(i)
        PROVE  Sorted' /\ QueueSorted' /\ CurrentLast'
    <3>1. /\ \A k \in DOMAIN filledBlocks' :
               /\ k \in Int /\ k + 1 \in DOMAIN filledBlocks
               /\ filledBlocks'[k] = filledBlocks[k + 1]
          /\ UNCHANGED <<rows, current>>
      BY <1>0, <2>6, TailFacts DEF Get, mainVars
    <3> QED
      BY <1>0, <3>1 DEF Sorted, QueueSorted, CurrentLast
  <2>7. ASSUME NEW i \in Inserters, Recycle(i)
        PROVE  Sorted' /\ QueueSorted' /\ CurrentLast'
    <3>1. /\ hand[i] \in Blocks
          /\ \A b \in Blocks : rows'[b] = IF b = hand[i] THEN <<>> ELSE rows[b]
          /\ UNCHANGED <<filledBlocks, current>>
      BY <2>7, RecycleElems DEF Recycle, mainVars
    <3>2. \A a, b \in Blocks : Before(rows, a, b) => Before(rows', a, b)
      BY <3>1 DEF Before
    <3>3. Sorted'
      BY <1>0, <3>1 DEF Sorted
    <3> QED
      BY <1>0, <3>1, <3>2, <3>3 DEF QueueSorted, CurrentLast
  <2> QED
    BY <2>1, <2>2, <2>3, <2>4, <2>5, <2>6, <2>7, BlockMoves
<1> QED
  BY <1>1, <1>2, OrderPartsNext DEF OrderInv

LEMMA InitOrderInv == Init => OrderInv
<1> SUFFICES ASSUME Init PROVE OrderInv
  OBVIOUS
<1>1. \A b \in Blocks : rows[b] = <<>> /\ Elems(rows[b]) = {}
  BY DEF Init, Elems
<1>2. ArrivalOrder
  BY <1>1 DEF Init, ArrivalOrder
<1> QED
  BY <1>1, <1>2 DEF OrderInv, Held

\* The queue and then the current block hold the records in the order they
\* arrived in, although format changes and delays cut blocks short.
THEOREM OrderIsKept == Spec => []ArrivalOrder
<1>1. TypeInv <=> TypeOK /\ PcShape
  BY DEF TypeInv
<1>2. OrderInv => ArrivalOrder
  BY DEF OrderInv
<1> QED
  BY <1>1, <1>2, InitTypeInv, NextTypeInv, InitOneHolder, NextOneHolder,
     InitSizeInv, NextSizeInv, InitOrderInv, NextOrderInv, PTL DEF Spec

----------------------------------------------------------------------------
(* The table.                                                              *)

\* An inserter that is about to insert a block or has done so holds it, and the
\* rows it sends are records.
LEMMA HeldBlock ==
  ASSUME TypeInv, NEW i \in Inserters, ipc[i] \in Holding
  PROVE  /\ hand[i] \in Blocks /\ hand[i] # NoBlock
         /\ Elems(rows[hand[i]]) \subseteq Records
         /\ Elems(rows[hand[i]]) \subseteq Held
<1>1. hand[i] \in Blocks /\ hand[i] # NoBlock
  BY DEF TypeInv, TypeOK, PcShape
<1>2. rows[hand[i]] \in Seq(Records)
  BY <1>1 DEF TypeInv, TypeOK
<1>3. Elems(rows[hand[i]]) \subseteq Records
  BY <1>2 DEF Elems
<1> QED
  BY <1>1, <1>3 DEF Held

\* What an insert does to the table.
LEMMA StoredByFacts ==
  ASSUME TypeInv, NEW i \in Inserters, stored' = StoredBy(i)
  PROVE  \A r \in Records :
           /\ stored[r] \in 0..2 /\ stored'[r] \in 0..2
           /\ stored'[r] >= stored[r]
           /\ r \in Elems(rows[hand[i]]) => stored'[r] > 0
           /\ r \in Elems(rows[hand[i]]) /\ stored[r] = 0 => stored'[r] = 1
           /\ r \notin Elems(rows[hand[i]]) => stored'[r] = stored[r]
BY DEF StoredBy, TypeInv, TypeOK

LEMMA NextCopyInv ==
  TypeInv /\ OneHolder /\ OrderInv /\ CopyInv /\ [Next]_vars => CopyInv'
<1> SUFFICES ASSUME TypeInv, OneHolder, Held \subseteq Accepted, CopyInv,
                    [Next]_vars, ~MayFail("ackLost")
             PROVE  CopyInv'
  BY DEF CopyInv, OrderInv, MayFail
<1> DEFINE Once    == \A r \in Records : stored[r] <= 1
           Unseen  == \A r \in Records : r \notin Accepted => stored[r] = 0
           Apart   == \A a, b \in Blocks :
                        a # b => Elems(rows[a]) \cap Elems(rows[b]) = {}
           Waits(b) == \A i \in Inserters : hand[i] = b => ipc[i] # "recycle"
           Pending == \A b \in Blocks :
                        Waits(b) => \A r \in Elems(rows[b]) : stored[r] = 0
<1>0. Once /\ Unseen /\ Apart /\ Pending
  BY DEF CopyInv, NoDuplicates
<1> SUFFICES Once' /\ Unseen' /\ Apart' /\ Pending'
  BY DEF CopyInv, NoDuplicates, MayFail
<1> USE DEF TypeInv, TypeOK
<1>1. ASSUME UNCHANGED <<rows, stored>>, Accepted' = Accepted,
             \A b \in Blocks : Waits(b)' => Waits(b)
      PROVE  Once' /\ Unseen' /\ Apart' /\ Pending'
  BY <1>0, <1>1
<1>2. ASSUME UNCHANGED <<rows, stored, hand, ipc>>, Accepted' = Accepted
      PROVE  Once' /\ Unseen' /\ Apart' /\ Pending'
  BY <1>1, <1>2
<1>3. CASE Write
  <2>1. /\ current \in Blocks /\ current # NoBlock
        /\ \A b \in Blocks : Elems(rows'[b]) =
             IF b = current THEN Elems(rows[b]) \cup {Incoming}
             ELSE Elems(rows[b])
        /\ UNCHANGED <<stored, hand, ipc>>
    BY <1>3, WriteElems, WriteMoves DEF Write, threadVars
  <2>2. /\ Accepted' = Accepted \cup {Incoming}
        /\ Incoming \notin Accepted /\ Incoming \in Records
    BY <1>3, AcceptedMoves
  <2>3. \A b \in Blocks : Incoming \notin Elems(rows[b])
    BY <2>2 DEF Held
  <2>4. stored[Incoming] = 0 /\ Waits(current)
    BY <1>0, <2>1, <2>2 DEF OneHolder
  <2>5. Apart'
    BY <1>0, <2>1, <2>3
  <2>6. Pending'
    <3> SUFFICES ASSUME NEW b \in Blocks, Waits(b)', NEW r \in Elems(rows'[b])
                 PROVE  stored[r] = 0
      BY <2>1
    <3>1. Waits(b)
      BY <2>1
    <3>2. \A q \in Elems(rows[b]) : stored[q] = 0
      BY <1>0, <3>1
    <3>3. r \in Elems(rows[b]) \/ r = Incoming
      BY <2>1
    <3> QED
      BY <2>4, <3>2, <3>3
  <2> QED
    BY <1>0, <2>1, <2>2, <2>5, <2>6
<1>4. CASE MainStep /\ ~Write
  <2>1. UNCHANGED <<rows, stored, hand, ipc>>
    BY <1>4 DEF MainStep, Loop, ReceiveRecord, ReceiveOther, ReceiveFormat,
       Updated, WriteThrows, ReceiveBadFormat, GetBlock, CheckError,
       StopExport, StopSignal,
       StopWake, StopJoin, Destroy, blockVars, threadVars
  <2> QED
    BY <1>2, <1>4, <2>1, AcceptedMoves
<1>5. CASE (Interrupt \/ Tick \/ UNCHANGED vars) /\ ~Write
  <2>1. UNCHANGED <<rows, stored, hand, ipc>>
    BY <1>5 DEF Interrupt, Tick, vars, blockVars, threadVars
  <2> QED
    BY <1>2, <1>5, <2>1, AcceptedMoves
<1>6. ASSUME NEW i \in Inserters, InserterStep(i), ~Write
      PROVE  Once' /\ Unseen' /\ Apart' /\ Pending'
  <2>0. Accepted' = Accepted
    BY <1>6, AcceptedMoves
  <2>1. CASE \/ Connect(i) \/ Publish(i) \/ CheckStop(i) \/ InsertLoop(i)
             \/ Reconnect(i)
    <3>1. /\ UNCHANGED <<rows, stored, hand>>
          /\ ipc[i] # "recycle"
          /\ \A j \in Inserters : j # i => ipc'[j] = ipc[j]
      BY <2>1 DEF Connect, Publish, CheckStop, InsertLoop, Reconnect, blockVars
    <3> QED
      BY <1>1, <2>0, <3>1
  <2>2. CASE Get(i)
    <3>1. /\ UNCHANGED <<rows, stored>>
          /\ ipc[i] # "recycle"
          /\ \A j \in Inserters : j # i => ipc'[j] = ipc[j] /\ hand'[j] = hand[j]
      BY <2>2 DEF Get
    <3> QED
      BY <1>1, <2>0, <3>1
  <2>3. CASE InsertOk(i)
    <3>1. /\ UNCHANGED <<rows, hand>>
          /\ ipc[i] = "call" /\ ipc'[i] = "recycle"
          /\ \A j \in Inserters : j # i => ipc'[j] = ipc[j]
          /\ stored' = StoredBy(i)
      BY <2>3 DEF InsertOk, blockVars
    <3>2. /\ hand[i] \in Blocks /\ hand[i] # NoBlock
          /\ Elems(rows[hand[i]]) \subseteq Held
      BY <3>1, HeldBlock DEF Holding
    <3>3. \A r \in Elems(rows[hand[i]]) : stored[r] = 0
      BY <1>0, <3>1, <3>2 DEF OneHolder
    <3>4. Once'
      <4>1. \A r \in Records : r \in Elems(rows[hand[i]]) => stored'[r] = 1
        BY <3>1, <3>3, StoredByFacts
      <4>2. \A r \in Records : r \notin Elems(rows[hand[i]]) => stored'[r] <= 1
        BY <1>0, <3>1, StoredByFacts
      <4> QED
        BY <4>1, <4>2
    <3>5. Unseen'
      BY <1>0, <2>0, <3>1, <3>2, StoredByFacts
    <3>6. Pending'
      <4> SUFFICES ASSUME NEW b \in Blocks, Waits(b)', NEW r \in Elems(rows[b])
                   PROVE  stored'[r] = 0
        BY <3>1
      <4>1. b # hand[i] /\ Waits(b)
        BY <3>1
      <4>2. r \notin Elems(rows[hand[i]]) /\ stored[r] = 0
        BY <1>0, <3>2, <4>1
      <4>3. r \in Records
        <5>1. rows[b] \in Seq(Records)
          OBVIOUS
        <5> QED
          BY <5>1 DEF Elems
      <4> QED
        BY <3>1, <4>2, <4>3, StoredByFacts
    <3> QED
      BY <1>0, <3>1, <3>4, <3>5, <3>6
  <2>4. CASE InsertFails(i)
    <3>1. /\ UNCHANGED <<rows, stored, hand>>
          /\ ipc[i] # "recycle"
          /\ \A j \in Inserters : j # i => ipc'[j] = ipc[j]
      BY <2>4 DEF InsertFails, blockVars
    <3> QED
      BY <1>1, <2>0, <3>1
  <2>5. CASE Recycle(i)
    <3>1. /\ hand[i] \in Blocks /\ hand[i] # NoBlock
          /\ \A b \in Blocks : Elems(rows'[b]) =
               IF b = hand[i] THEN {} ELSE Elems(rows[b])
          /\ UNCHANGED stored
          /\ \A j \in Inserters : j # i => ipc'[j] = ipc[j] /\ hand'[j] = hand[j]
      BY <2>5, RecycleElems DEF Recycle
    <3>2. \A b \in Blocks : b # hand[i] /\ Waits(b)' => Waits(b)
      BY <3>1
    <3> QED
      BY <1>0, <2>0, <3>1, <3>2
  <2> QED
    BY <1>6, <2>1, <2>2, <2>3, <2>4, <2>5 DEF InserterStep
<1> QED
  BY <1>3, <1>4, <1>5, <1>6 DEF Next, Finished

LEMMA InitCopyInv == Init => CopyInv
<1> SUFFICES ASSUME Init PROVE CopyInv
  OBVIOUS
<1>1. \A b \in Blocks : Elems(rows[b]) = {}
  BY DEF Init, Elems
<1>2. \A r \in Records : stored[r] = 0
  BY DEF Init
<1> QED
  BY <1>1, <1>2 DEF CopyInv, NoDuplicates

\* While no answer of the server is lost, a record is in the table once at most:
\* no retry, no recycled block and no stop makes a second copy.
THEOREM StoredOnce == Spec => []NoDuplicates
<1>1. TypeInv <=> TypeOK /\ PcShape
  BY DEF TypeInv
<1>2. CopyInv => NoDuplicates
  BY DEF CopyInv, NoDuplicates
<1> QED
  BY <1>1, <1>2, InitTypeInv, NextTypeInv, InitOneHolder, NextOneHolder,
     InitSizeInv, NextSizeInv, InitOrderInv, NextOrderInv,
     InitCopyInv, NextCopyInv, PTL DEF Spec

----------------------------------------------------------------------------
(* Clickhouse implements BlockDelivery.                                    *)

\* Stopping is never taken back, and a stop signal means it.
LEMMA StoppingStays ==
  ASSUME TypeInv, [Next]_vars
  PROVE  Stopping => Stopping'
<1>1. CASE MainRuns /\ MainStep
  BY <1>1 DEF Stopping, MainStep, Loop, ReceiveRecord, ReceiveOther,
     ReceiveFormat, Updated, WriteThrows, ReceiveBadFormat, GetBlock, Write,
     CheckError, StopExport,
     StopSignal, StopWake, StopJoin, Destroy, NextInserter
<1>2. CASE ~(MainRuns /\ MainStep)
  <2>1. UNCHANGED pc
    BY <1>2 DEF Next, InserterStep, Connect, Publish, CheckStop, Get,
       InsertLoop, Reconnect, InsertOk, InsertFails, Recycle, Interrupt,
       Tick, Finished, vars, mainVars
  <2> QED
    BY <2>1 DEF Stopping
<1> QED
  BY <1>1, <1>2

\* The table changes when the server takes a block, and no other way.
LEMMA StoredMoves ==
  ASSUME [Next]_vars
  PROVE  \/ UNCHANGED stored
         \/ \E i \in Inserters :
              /\ InsertOk(i) \/ InsertFails(i)
              /\ ipc[i] = "call" /\ stored' = StoredBy(i)
              /\ UNCHANGED <<pc, received, rows>>
<1>1. CASE MainStep \/ Interrupt \/ Tick \/ UNCHANGED vars
  <2>1. UNCHANGED stored
    BY <1>1 DEF MainStep, Loop, ReceiveRecord, ReceiveOther, ReceiveFormat,
       Updated, WriteThrows, ReceiveBadFormat, GetBlock, Write, CheckError,
       StopExport, StopSignal,
       StopWake, StopJoin, Destroy, Interrupt, Tick, vars
  <2> QED
    BY <2>1
<1>2. ASSUME NEW i \in Inserters, InserterStep(i)
      PROVE  \/ UNCHANGED stored
             \/ /\ InsertOk(i) \/ InsertFails(i)
                /\ ipc[i] = "call" /\ stored' = StoredBy(i)
                /\ UNCHANGED <<pc, received, rows>>
  BY <1>2 DEF InserterStep, Connect, Publish, CheckStop, Get, InsertLoop,
     Reconnect, InsertOk, InsertFails, Recycle, mainVars, blockVars
<1> QED
  BY <1>1, <1>2 DEF Next, Finished

LEMMA NextRetireInv ==
  TypeInv /\ OneHolder /\ RetireInv /\ [Next]_vars => RetireInv'
<1> SUFFICES ASSUME TypeInv, OneHolder, RetireInv, [Next]_vars
             PROVE  RetireInv'
  OBVIOUS
<1> DEFINE Told == \A i \in Inserters : stopSignal[i] => Stopping
           Safe(i) == Stopping \/ \A r \in Elems(rows[hand[i]]) : stored[r] > 0
<1>0. /\ Told
      /\ \A i \in Inserters : ipc[i] = "recycle" => Safe(i)
      /\ ipc \in [Inserters -> InserterPcs]
      /\ hand \in [Inserters -> Blocks \cup {NoBlock}]
      /\ stopSignal \in [Inserters -> BOOLEAN]
  BY DEF RetireInv, TypeInv, TypeOK
<1>1. Told'
  <2>1. CASE StopSignal
    <3>1. pc' \in {"signal", "wake"}
      BY <2>1 DEF StopSignal, NextInserter
    <3> QED
      BY <3>1 DEF Stopping
  <2>2. CASE ~StopSignal
    <3>1. UNCHANGED stopSignal
      BY <2>2 DEF Next, MainStep, Loop, ReceiveRecord, ReceiveOther,
         ReceiveFormat, Updated, WriteThrows, ReceiveBadFormat, GetBlock,
         Write, CheckError,
         StopExport, StopWake, StopJoin, Destroy, InserterStep, Connect,
         Publish, CheckStop, Get, InsertLoop, Reconnect, InsertOk,
         InsertFails, Recycle, Interrupt, Tick, Finished, vars
    <3> QED
      BY <1>0, <3>1, StoppingStays
  <2> QED
    BY <2>1, <2>2
<1>2. ASSUME NEW i \in Inserters, ipc'[i] = "recycle"
      PROVE  Safe(i)'
  <2>1. CASE ipc[i] = "recycle"
    <3>1. /\ hand[i] \in Blocks /\ hand[i] # NoBlock
          /\ Elems(rows[hand[i]]) \subseteq Records
      BY <2>1, HeldBlock DEF Holding
    <3>2. UNCHANGED hand[i]
      <4>1. \A j \in Inserters : j = i => ~Get(j) /\ ~Recycle(j)
        BY <1>0, <1>2, <2>1 DEF Get, Recycle
      <4> QED
        BY <1>0, <4>1, BlockMoves, WriteMoves
        DEF Still, Exported, GetBlock, StopWake, Get, Recycle, threadVars
    <3>3. \A r \in Records : stored[r] > 0 => stored'[r] > 0
      BY StoredMoves, StoredByFacts DEF TypeInv, TypeOK
    <3>4. UNCHANGED rows[hand[i]]
      <4>1. CASE Write
        BY <3>1, <4>1, WriteMoves DEF OneHolder, TypeInv, TypeOK
      <4>2. ASSUME NEW j \in Inserters, Recycle(j)
            PROVE  UNCHANGED rows[hand[i]]
        <5>1. j # i
          BY <1>0, <1>2, <4>2 DEF Recycle
        <5>2. hand[j] # hand[i]
          BY <3>1, <5>1 DEF OneHolder
        <5> QED
          BY <3>1, <3>2, <4>2, <5>2, RecycleElems
      <4> QED
        BY <3>2, <4>1, <4>2, RowsMoves
    <3> QED
      BY <1>0, <2>1, <3>1, <3>2, <3>3, <3>4, StoppingStays
  <2>2. CASE ipc[i] # "recycle"
    <3>1. InsertLoop(i) \/ InsertOk(i)
      <4>1. ASSUME UNCHANGED threadVars
            PROVE  FALSE
        BY <1>2, <2>2, <4>1 DEF threadVars
      <4>2. ~(MainStep \/ Interrupt \/ Tick \/ UNCHANGED vars)
        BY <4>1 DEF MainStep, Loop, ReceiveRecord, ReceiveOther, ReceiveFormat,
           Updated, WriteThrows, ReceiveBadFormat, GetBlock, Write,
           CheckError, StopExport,
           StopSignal, StopWake, StopJoin, Destroy, Interrupt, Tick, vars
      <4>3. ASSUME NEW j \in Inserters, InserterStep(j)
            PROVE  InsertLoop(i) \/ InsertOk(i)
        <5>1. /\ ipc' = [ipc EXCEPT ![j] = ipc'[j]]
              /\ ipc'[j] = "recycle" => InsertLoop(j) \/ InsertOk(j)
          BY <1>0, <4>3 DEF InserterStep, Connect, Publish, CheckStop, Get,
             InsertLoop, InsertOk, Reconnect, InsertFails, Recycle
        <5>2. j = i
          BY <1>0, <1>2, <2>2, <5>1
        <5> QED
          BY <1>2, <5>1, <5>2
      <4> QED
        BY <4>2, <4>3 DEF Next, Finished
    <3>2. CASE InsertLoop(i)
      <4>1. stopSignal[i]
        BY <1>0, <1>2, <3>2 DEF InsertLoop
      <4> QED
        BY <1>0, <4>1, StoppingStays
    <3>3. CASE InsertOk(i)
      <4>1. /\ ipc[i] = "call" /\ stored' = StoredBy(i)
            /\ UNCHANGED <<rows, hand>>
        BY <3>3 DEF InsertOk, blockVars
      <4>2. Elems(rows[hand[i]]) \subseteq Records
        BY <4>1, HeldBlock DEF Holding
      <4> QED
        BY <4>1, <4>2, StoredByFacts
    <3> QED
      BY <3>1, <3>2, <3>3
  <2> QED
    BY <2>1, <2>2
<1> QED
  BY <1>1, <1>2 DEF RetireInv

LEMMA InitRetireInv == Init => RetireInv
BY DEF Init, RetireInv

LEMMA InitDelivers == Init => Delivery!Init
<1> SUFFICES ASSUME Init PROVE Delivery!Init
  OBVIOUS
<1>1. Accepted = {}
  BY DEF Init, Accepted
<1>2. Held = {}
  <2>1. \A b \in Blocks : Elems(rows[b]) = {}
    BY DEF Init, Elems
  <2> QED
    BY <2>1 DEF Held
<1>3. ~Stopping
  BY DEF Init, Stopping
<1> QED
  BY <1>1, <1>2, <1>3 DEF Init, Delivery!Init

\* Every step is a step of BlockDelivery or changes nothing it speaks of.
LEMMA StepDelivers ==
  TypeInv /\ OneHolder /\ OrderInv /\ RetireInv /\ [Next]_vars
    => [Delivery!Next]_(Delivery!dvars)
<1> SUFFICES ASSUME TypeInv, OneHolder, OrderInv, RetireInv, [Next]_vars
             PROVE  Delivery!Next \/ UNCHANGED Delivery!dvars
  OBVIOUS
<1>1. CASE Write
  <2>1. /\ Accepted' = Accepted \cup {Incoming}
        /\ Incoming \notin Accepted /\ Incoming \in Records
    BY <1>1, AcceptedMoves
  <2>2. Held' = Held \cup {Incoming}
    BY <1>1, WriteElems
  <2>3. ~Stopping /\ Stopping' = Stopping /\ UNCHANGED stored
    BY <1>1 DEF Write, Stopping
  <2>4. Delivery!Accept(Incoming)
    BY <2>1, <2>2, <2>3 DEF Delivery!Accept
  <2> QED
    BY <2>1, <2>4 DEF Delivery!Next
<1>2. ASSUME NEW i \in Inserters, Recycle(i), ~Write
      PROVE  Delivery!Next
  <2>1. Accepted' = Accepted
    BY <1>2, AcceptedMoves
  <2>2. Held' \subseteq Held /\ Held \ Held' \subseteq Elems(rows[hand[i]])
    BY <1>2, RecycleElems
  <2>3. UNCHANGED <<stored, pc>> /\ ipc[i] = "recycle"
    BY <1>2 DEF Recycle, mainVars
  <2>4. Stopping \/ \A r \in Held \ Held' : stored[r] > 0
    BY <2>2, <2>3 DEF RetireInv
  <2>5. Stopping' = Stopping
    BY <2>3 DEF Stopping
  <2>6. Delivery!Retire(Held \ Held')
    BY <2>1, <2>2, <2>3, <2>4, <2>5 DEF Delivery!Retire
  <2> QED
    BY <2>6 DEF Delivery!Next
<1>3. ASSUME NEW i \in Inserters, ipc[i] = "call", stored' = StoredBy(i),
             UNCHANGED <<pc, received, rows>>
      PROVE  Delivery!Next
  <2>1. Elems(rows[hand[i]]) \in SUBSET Held
    BY <1>3, HeldBlock DEF Holding
  <2>2. Accepted' = Accepted /\ Held' = Held /\ Stopping' = Stopping
    BY <1>3 DEF Accepted, Held, Stopping
  <2>3. Delivery!Store(Elems(rows[hand[i]]))
    BY <1>3, <2>2 DEF Delivery!Store, StoredBy
  <2> QED
    BY <2>1, <2>3 DEF Delivery!Next
<1>4. CASE UNCHANGED <<rows, stored>> /\ ~Write
  <2>1. Accepted' = Accepted /\ Held' = Held
    BY <1>4, AcceptedMoves DEF Held
  <2>2. CASE Stopping' = Stopping
    BY <1>4, <2>1, <2>2 DEF Delivery!dvars
  <2>3. CASE Stopping' # Stopping
    <3>1. Stopping' = TRUE
      BY <2>3, StoppingStays DEF Stopping
    <3>2. Delivery!Stop
      BY <1>4, <2>1, <3>1 DEF Delivery!Stop
    <3> QED
      BY <3>2 DEF Delivery!Next
  <2> QED
    BY <2>2, <2>3
<1> QED
  BY <1>1, <1>2, <1>3, <1>4, RowsMoves, StoredMoves

\* What the threads, the queue, the retries and the stop do to a record is what
\* BlockDelivery allows: once accepted it leaves the blocks only when it is in
\* the table, or while the module stops.
THEOREM DeliveryIsImplemented == Spec => ImplementsDelivery
<1>1. TypeInv <=> TypeOK /\ PcShape
  BY DEF TypeInv
<1> QED
  BY <1>1, InitTypeInv, NextTypeInv, InitOneHolder, NextOneHolder,
     InitSizeInv, NextSizeInv, InitOrderInv, NextOrderInv,
     InitRetireInv, NextRetireInv, InitDelivers, StepDelivers, PTL
  DEF Spec, ImplementsDelivery, Delivery!Spec

=============================================================================
