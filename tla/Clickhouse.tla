---------------------------- MODULE Clickhouse ----------------------------
(***************************************************************************)
(* The clickhouse module: the main thread (main.cpp, Manager) fills blocks *)
(* with the records it receives, NumInserters threads (Inserter) send them *)
(* to the ClickHouse server.  Blocks circulate between a SyncStack of      *)
(* empty blocks and a SyncQueue of filled ones.  put and get of the two    *)
(* containers are atomic here; module SyncContainer justifies that.        *)
(*                                                                         *)
(* A block's columns hold the ids of the records written to it, and        *)
(* BlockCtx::rows is the length of that sequence: both change together,    *)
(* by the thread that holds the block.                                     *)
(***************************************************************************)
EXTENDS Integers, Sequences, FiniteSets

CONSTANTS
  NumBlocks,      \* Config::blocks
  NumInserters,   \* Config::inserterThreads
  Threshold,      \* Config::blockInsertThreshold, in rows
  MaxDelay,       \* Config::blockInsertMaxDelaySecs
  TimeModulus,    \* 2^64: the elapsed time is converted to uint64_t
  Inputs,         \* what UnirecInputInterface::receive may come back with
  Faults,         \* what the ClickHouse server may do wrong
  ClockSteps,     \* how the wall clock may move: {1}, or {1, -1}
  MaxRecords,     \* bound: records received
  MaxTime         \* bound: the wall clock

AllInputs == {"record", "badRecord", "nothing", "format", "badFormat", "eof", "error"}
AllFaults == {"startup", "refused", "ackLost"}

\* parseRoot rejects neither 0 blocks nor 0 threads; the module needs one of each
ASSUME SizesAssumption ==
  /\ NumBlocks \in Nat \ {0}
  /\ NumInserters \in Nat \ {0}
  /\ Threshold \in Nat \ {0}
  /\ MaxDelay \in Nat
  /\ TimeModulus \in Nat \ {0}
ASSUME EnvironmentAssumption ==
  /\ Inputs \subseteq AllInputs
  /\ Faults \subseteq AllFaults
  /\ ClockSteps \subseteq Int
ASSUME BoundsAssumption ==
  /\ MaxRecords \in Nat
  /\ MaxTime \in Nat \ {0}

Blocks    == 1..NumBlocks
NoBlock   == 0                 \* nullptr
Inserters == 1..NumInserters
Records   == 1..MaxRecords
MayInput(x) == x \in Inputs
MayFail(x)  == x \in Faults

VARIABLES
  pc,             \* where the main thread is
  idx,            \* the inserter the main thread's for loop is at
  stopFlag,       \* g_stopFlag
  stuck,          \* the main thread waits in the signal handler, for ever
  template,       \* the interface has a template (libtrap negotiated a format)
  received,       \* number of records written to a block; ids are 1..received
  current,        \* m_current_block
  lastInsert,     \* m_last_insert_time; 0 exactly while m_start_time is 0
  clock,          \* std::time(nullptr)
  emptyBlocks,    \* m_empty_blocks, the top of the stack last
  filledBlocks,   \* m_filled_blocks, the front of the queue first
  rows,           \* the records in each block
  ipc,            \* where each inserter thread is
  hand,           \* the block an inserter's run() has taken
  needsReconnect, \* needsReconnect of an inserter's insert()
  stopSignal,     \* m_stop_signal of each inserter
  exception,      \* m_exception is set
  errored,        \* m_errored
  stored          \* copies of each record in the table: 0, 1, 2 = more than one

mainVars   == <<pc, idx, stopFlag, stuck, template, received, current, lastInsert>>
blockVars  == <<emptyBlocks, filledBlocks, rows>>
threadVars == <<ipc, hand, needsReconnect, exception, errored>>
vars == <<mainVars, clock, blockVars, threadVars, stopSignal, stored>>

Elems(s) == {s[k] : k \in DOMAIN s}

Ended == {"returned", "terminated", "hung"}

----------------------------------------------------------------------------
(* Manager::Manager: every block is put on the stack, the threads start.   *)

Init ==
  /\ pc = "loop"
  /\ idx = 1
  /\ stopFlag = FALSE
  /\ stuck = FALSE
  /\ template = FALSE
  /\ received = 0
  /\ current = NoBlock
  /\ lastInsert = 0
  /\ clock = 1
  /\ emptyBlocks = [k \in 1..NumBlocks |-> k]
  /\ filledBlocks = <<>>
  /\ rows = [b \in Blocks |-> <<>>]
  /\ ipc = [i \in Inserters |-> "connect"]
  /\ hand = [i \in Inserters |-> NoBlock]
  /\ needsReconnect = [i \in Inserters |-> FALSE]
  /\ stopSignal = [i \in Inserters |-> FALSE]
  /\ exception = [i \in Inserters |-> FALSE]
  /\ errored = [i \in Inserters |-> FALSE]
  /\ stored = [r \in Records |-> 0]

----------------------------------------------------------------------------
(* The main thread: processUnirecRecords, Manager and the end of main().   *)

\* m_current_block is not reset after the put
ExportKeepsCurrent ==
  /\ filledBlocks' = IF current # NoBlock /\ rows[current] # <<>>
                     THEN Append(filledBlocks, current) ELSE filledBlocks
  /\ UNCHANGED current

\* the queue and the current block once what is left in the block is exported
\* (the same lines in updateFieldIDs and in stop)
ExportLeft ==
  IF current # NoBlock /\ rows[current] # <<>>
  THEN /\ filledBlocks' = Append(filledBlocks, current)
       /\ current' = NoBlock
  ELSE UNCHANGED <<filledBlocks, current>>

\* while (!g_stopFlag.load())
Loop ==
  /\ pc = "loop"
  /\ pc' = IF stopFlag THEN "export" ELSE "receive"
  /\ UNCHANGED <<idx, stopFlag, stuck, template, received, current, lastInsert,
                 clock, blockVars, threadVars, stopSignal, stored>>

\* receive() returns a record; processRecord needs a block to write it to.
\* libtrap delivers records only in a negotiated format.
ReceiveRecord ==
  /\ MayInput("record") /\ pc = "receive" /\ template /\ received < MaxRecords
  /\ pc' = IF current = NoBlock THEN "getBlock" ELSE "write"
  /\ UNCHANGED <<idx, stopFlag, stuck, template, received, current, lastInsert,
                 clock, blockVars, threadVars, stopSignal, stored>>

\* receive() times out (nullopt), meets the end of the input (EoFException:
\* break) or fails (any other exception leaves the loop)
ReceiveOther ==
  /\ pc = "receive"
  /\ \/ MayInput("nothing") /\ pc' = "loop"
     \/ MayInput("eof") /\ pc' = "export"
     \/ MayInput("error") /\ pc' = "failed"
  /\ UNCHANGED <<idx, stopFlag, stuck, template, received, current, lastInsert,
                 clock, blockVars, threadVars, stopSignal, stored>>

\* FormatChangeException: handleFormatChange with the configured template,
\* then Manager::updateFieldIDs, which logs in the end
ReceiveFormat ==
  /\ MayInput("format") /\ pc = "receive"
  /\ template' = TRUE
  /\ ExportLeft
  /\ pc' = "updated"
  /\ UNCHANGED <<idx, stopFlag, stuck, received, lastInsert, clock, emptyBlocks,
                 rows, threadVars, stopSignal, stored>>

Updated ==
  /\ pc = "updated"
  /\ pc' = "loop"
  /\ UNCHANGED <<idx, stopFlag, stuck, template, received, current, lastInsert,
                 clock, blockVars, threadVars, stopSignal, stored>>

\* handleFormatChange with another template throws
ReceiveBadFormat ==
  /\ MayInput("badFormat") /\ pc = "receive"
  /\ template' = TRUE
  /\ pc' = "failed"
  /\ UNCHANGED <<idx, stopFlag, stuck, received, current, lastInsert, clock,
                 blockVars, threadVars, stopSignal, stored>>

\* processRecord without a current block: m_empty_blocks.get() waits for one
GetBlock ==
  /\ pc = "getBlock" /\ emptyBlocks # <<>>
  /\ current' = emptyBlocks[Len(emptyBlocks)]
  /\ emptyBlocks' = SubSeq(emptyBlocks, 1, Len(emptyBlocks) - 1)
  /\ pc' = "write"
  /\ UNCHANGED <<idx, stopFlag, stuck, template, received, lastInsert, clock,
                 filledBlocks, rows, threadVars, stopSignal, stored>>

\* uint64_t(now - m_last_insert_time)
Elapsed(now, last) == (now - last) % TimeModulus

\* the block with n rows is sent out
Due(n, now, last) == n >= Threshold \/ Elapsed(now, last) >= MaxDelay

\* the id of the record being processed
Incoming == received + 1

\* the rest of processRecord up to the error check: write the row, read the
\* clock, send the block out when it is due
Write ==
  LET written == Append(rows[current], Incoming)
      last    == IF lastInsert = 0 THEN clock ELSE lastInsert
  IN  /\ pc = "write"
      /\ rows' = [rows EXCEPT ![current] = written]
      /\ IF Due(Len(written), clock, last)
         THEN /\ filledBlocks' = Append(filledBlocks, current)
              /\ current' = NoBlock
              /\ lastInsert' = clock
         ELSE /\ lastInsert' = last
              /\ UNCHANGED <<filledBlocks, current>>
      /\ received' = Incoming
      /\ pc' = "check"
      /\ idx' = 1
      /\ UNCHANGED <<stopFlag, stuck, template, clock, emptyBlocks,
                     threadVars, stopSignal, stored>>

\* a getter or a column writer throws: the row is not counted, and no one sends
\* the block any more
WriteThrows ==
  /\ MayInput("badRecord") /\ pc = "write"
  /\ pc' = "failed"
  /\ UNCHANGED <<idx, stopFlag, stuck, template, received, current, lastInsert,
                 clock, blockVars, threadVars, stopSignal, stored>>

\* the loop runs one element too far
NextInserterTooFar(nextPc) ==
  IF idx <= NumInserters
  THEN /\ idx' = idx + 1
       /\ UNCHANGED pc
  ELSE /\ idx' = 1
       /\ pc' = nextPc

\* the for loop over the inserters: the next one, or nextPc after the last
NextInserter(nextPc) ==
  IF idx < NumInserters
  THEN /\ idx' = idx + 1
       /\ UNCHANGED pc
  ELSE /\ idx' = 1
       /\ pc' = nextPc

\* Inserter::checkError, called for every inserter in turn
CheckError ==
  /\ pc = "check"
  /\ IF errored[idx]
     THEN /\ pc' = "failed"
          /\ UNCHANGED idx
     ELSE NextInserter("loop")
  /\ UNCHANGED <<stopFlag, stuck, template, received, current, lastInsert, clock,
                 blockVars, threadVars, stopSignal, stored>>

\* Manager::stop, in order: export, stop signals, one nullptr each, join
StopExport ==
  /\ pc = "export"
  /\ ExportLeft
  /\ pc' = "signal"
  /\ idx' = 1
  /\ UNCHANGED <<stopFlag, stuck, template, received, lastInsert, clock,
                 emptyBlocks, rows, threadVars, stopSignal, stored>>

StopSignal ==
  /\ pc = "signal"
  /\ stopSignal' = [stopSignal EXCEPT ![idx] = TRUE]
  /\ NextInserter("wake")
  /\ UNCHANGED <<stopFlag, stuck, template, received, current, lastInsert, clock,
                 blockVars, threadVars, stored>>

\* only the first inserter is sent a nullptr
StopWakeOne ==
  /\ pc = "wake"
  /\ filledBlocks' = Append(filledBlocks, NoBlock)
  /\ idx' = 1
  /\ pc' = "join"
  /\ UNCHANGED <<stopFlag, stuck, template, received, current, lastInsert, clock,
                 emptyBlocks, rows, threadVars, stopSignal, stored>>

StopWake ==
  /\ pc = "wake"
  /\ filledBlocks' = Append(filledBlocks, NoBlock)
  /\ NextInserter("join")
  /\ UNCHANGED <<stopFlag, stuck, template, received, current, lastInsert, clock,
                 emptyBlocks, rows, threadVars, stopSignal, stored>>

\* Inserter::join; after the last one main returns EXIT_SUCCESS
StopJoin ==
  /\ pc = "join" /\ ipc[idx] = "done"
  /\ NextInserter("returned")
  /\ UNCHANGED <<stopFlag, stuck, template, received, current, lastInsert, clock,
                 blockVars, threadVars, stopSignal, stored>>

\* main's catch: return EXIT_FAILURE without stop().  ~Manager first destroys
\* the two containers, which is undefined while a thread waits on them (glibc's
\* pthread_cond_destroy then never returns), later a joinable std::thread,
\* which is std::terminate.
Destroy ==
  /\ pc = "failed"
  /\ \/ pc' = "terminated"
     \/ /\ \E i \in Inserters : ipc[i] = "get"
        /\ filledBlocks = <<>>
        /\ pc' = "hung"
  /\ UNCHANGED <<idx, stopFlag, stuck, template, received, current, lastInsert,
                 clock, blockVars, threadVars, stopSignal, stored>>

----------------------------------------------------------------------------
(* An inserter thread: Inserter::start's lambda, run and insert.           *)

\* the client's constructor and the first ensureSchema: either may throw
Connect(i) ==
  /\ ipc[i] = "connect"
  /\ \/ ipc' = [ipc EXCEPT ![i] = "check"]
     \/ MayFail("startup") /\ ipc' = [ipc EXCEPT ![i] = "throw"]
  /\ UNCHANGED <<mainVars, clock, blockVars, hand, needsReconnect, exception,
                 errored, stopSignal, stored>>

\* the flag is published before the exception
PublishFlagFirst(i) ==
  /\ \/ /\ ipc[i] = "throw"
        /\ errored' = [errored EXCEPT ![i] = TRUE]
        /\ ipc' = [ipc EXCEPT ![i] = "flag"]
        /\ UNCHANGED exception
     \/ /\ ipc[i] = "flag"
        /\ exception' = [exception EXCEPT ![i] = TRUE]
        /\ ipc' = [ipc EXCEPT ![i] = "done"]
        /\ UNCHANGED errored
  /\ UNCHANGED <<mainVars, clock, blockVars, hand, needsReconnect,
                 stopSignal, stored>>

\* catch (...): m_exception, then m_errored
Publish(i) ==
  /\ \/ /\ ipc[i] = "throw"
        /\ exception' = [exception EXCEPT ![i] = TRUE]
        /\ ipc' = [ipc EXCEPT ![i] = "flag"]
        /\ UNCHANGED errored
     \/ /\ ipc[i] = "flag"
        /\ errored' = [errored EXCEPT ![i] = TRUE]
        /\ ipc' = [ipc EXCEPT ![i] = "done"]
        /\ UNCHANGED exception
  /\ UNCHANGED <<mainVars, clock, blockVars, hand, needsReconnect,
                 stopSignal, stored>>

\* while (!m_stop_signal) of run()
CheckStop(i) ==
  /\ ipc[i] = "check"
  /\ ipc' = [ipc EXCEPT ![i] = IF stopSignal[i] THEN "done" ELSE "get"]
  /\ UNCHANGED <<mainVars, clock, blockVars, hand, needsReconnect, exception,
                 errored, stopSignal, stored>>

\* a nullptr is passed over: the thread waits for the next item
GetPassesOver(i) ==
  /\ ipc[i] = "get" /\ filledBlocks # <<>>
  /\ filledBlocks' = Tail(filledBlocks)
  /\ IF Head(filledBlocks) = NoBlock
     THEN UNCHANGED <<hand, ipc>>
     ELSE /\ hand' = [hand EXCEPT ![i] = Head(filledBlocks)]
          /\ ipc' = [ipc EXCEPT ![i] = "insert"]
  /\ UNCHANGED <<mainVars, clock, emptyBlocks, rows, needsReconnect,
                 exception, errored, stopSignal, stored>>

\* m_filled_blocks.get(); a nullptr only makes the thread look at the signal
Get(i) ==
  /\ ipc[i] = "get" /\ filledBlocks # <<>>
  /\ hand' = [hand EXCEPT ![i] = Head(filledBlocks)]
  /\ filledBlocks' = Tail(filledBlocks)
  /\ ipc' = [ipc EXCEPT ![i] = IF Head(filledBlocks) = NoBlock
                               THEN "check" ELSE "insert"]
  /\ UNCHANGED <<mainVars, clock, emptyBlocks, rows, needsReconnect,
                 exception, errored, stopSignal, stored>>

\* a failed insert is given up instead of retried
InsertLoopGivesUp(i) ==
  /\ ipc[i] = "insert"
  /\ ipc' = [ipc EXCEPT ![i] = IF stopSignal[i] \/ needsReconnect[i]
                               THEN "recycle" ELSE "call"]
  /\ UNCHANGED <<mainVars, clock, blockVars, hand, needsReconnect, exception,
                 errored, stopSignal, stored>>

\* while (!m_stop_signal) of insert(), with the one-second pause before a retry
InsertLoop(i) ==
  /\ ipc[i] = "insert"
  /\ ipc' = [ipc EXCEPT ![i] = IF stopSignal[i] THEN "recycle"
                               ELSE IF needsReconnect[i] THEN "reconnect"
                               ELSE "call"]
  /\ UNCHANGED <<mainVars, clock, blockVars, hand, needsReconnect, exception,
                 errored, stopSignal, stored>>

\* ResetConnectionEndpoint and ensureSchema: either may throw
Reconnect(i) ==
  /\ ipc[i] = "reconnect"
  /\ \/ ipc' = [ipc EXCEPT ![i] = "call"]
     \/ MayFail("refused") /\ ipc' = [ipc EXCEPT ![i] = "insert"]
  /\ UNCHANGED <<mainVars, clock, blockVars, hand, needsReconnect, exception,
                 errored, stopSignal, stored>>

\* the table after the server took the block that inserter i holds
StoredBy(i) ==
  [r \in Records |-> IF r \in Elems(rows[hand[i]]) /\ stored[r] < 2
                     THEN stored[r] + 1 ELSE stored[r]]

\* the loop goes on after an insert that succeeded
InsertOkNoBreak(i) ==
  /\ ipc[i] = "call"
  /\ stored' = StoredBy(i)
  /\ ipc' = [ipc EXCEPT ![i] = "insert"]
  /\ UNCHANGED <<mainVars, clock, blockVars, hand, needsReconnect, exception,
                 errored, stopSignal>>

\* m_client->Insert returns: break
InsertOk(i) ==
  /\ ipc[i] = "call"
  /\ stored' = StoredBy(i)
  /\ ipc' = [ipc EXCEPT ![i] = "recycle"]
  /\ UNCHANGED <<mainVars, clock, blockVars, hand, needsReconnect, exception,
                 errored, stopSignal>>

\* m_client->Insert throws: before the server stored the block, or after it
InsertFails(i) ==
  /\ ipc[i] = "call"
  /\ \/ MayFail("refused") /\ UNCHANGED stored
     \/ MayFail("ackLost") /\ stored' = StoredBy(i)
  /\ needsReconnect' = [needsReconnect EXCEPT ![i] = TRUE]
  /\ ipc' = [ipc EXCEPT ![i] = "insert"]
  /\ UNCHANGED <<mainVars, clock, blockVars, hand, exception, errored,
                 stopSignal>>

\* the block is given back before it is cleared, with a row left in it
RecycleDirty(i) ==
  /\ ipc[i] = "recycle"
  /\ emptyBlocks' = Append(emptyBlocks, hand[i])
  /\ hand' = [hand EXCEPT ![i] = NoBlock]
  /\ needsReconnect' = [needsReconnect EXCEPT ![i] = FALSE]
  /\ ipc' = [ipc EXCEPT ![i] = "check"]
  /\ UNCHANGED <<mainVars, clock, filledBlocks, rows, exception, errored,
                 stopSignal, stored>>

\* the block is given back and kept
RecycleKept(i) ==
  /\ ipc[i] = "recycle"
  /\ rows' = [rows EXCEPT ![hand[i]] = <<>>]
  /\ emptyBlocks' = Append(emptyBlocks, hand[i])
  /\ needsReconnect' = [needsReconnect EXCEPT ![i] = FALSE]
  /\ ipc' = [ipc EXCEPT ![i] = "insert"]
  /\ UNCHANGED <<mainVars, clock, filledBlocks, hand, exception, errored,
                 stopSignal, stored>>

\* the block is cleared and never given back
RecycleLost(i) ==
  /\ ipc[i] = "recycle"
  /\ rows' = [rows EXCEPT ![hand[i]] = <<>>]
  /\ hand' = [hand EXCEPT ![i] = NoBlock]
  /\ needsReconnect' = [needsReconnect EXCEPT ![i] = FALSE]
  /\ ipc' = [ipc EXCEPT ![i] = "check"]
  /\ UNCHANGED <<mainVars, clock, emptyBlocks, filledBlocks, exception,
                 errored, stopSignal, stored>>

\* the columns are cleared, rows = 0, m_empty_blocks.put(block); needsReconnect
\* was local to insert()
Recycle(i) ==
  /\ ipc[i] = "recycle"
  /\ rows' = [rows EXCEPT ![hand[i]] = <<>>]
  /\ emptyBlocks' = Append(emptyBlocks, hand[i])
  /\ hand' = [hand EXCEPT ![i] = NoBlock]
  /\ needsReconnect' = [needsReconnect EXCEPT ![i] = FALSE]
  /\ ipc' = [ipc EXCEPT ![i] = "check"]
  /\ UNCHANGED <<mainVars, clock, filledBlocks, exception, errored,
                 stopSignal, stored>>

----------------------------------------------------------------------------
(* The environment: SIGINT and the wall clock.                             *)

\* The main thread may be in the logger: after a format change, before and in
\* stop(), reporting an exception.
MayLog ==
  \/ pc \in {"updated", "export", "failed"}
  \/ pc \in {"signal", "join"} /\ idx = 1

\* signalHandler, on the main thread: it logs and then sets the flag.  The mutex of
\* the logger's sink is not recursive, so a signal that finds the main thread
\* inside waits for ever.
Interrupt ==
  /\ \/ stopFlag' = TRUE /\ UNCHANGED stuck
     \/ MayLog /\ stuck' = TRUE /\ UNCHANGED stopFlag
  /\ UNCHANGED <<pc, idx, template, received, current, lastInsert, clock,
                 blockVars, threadVars, stopSignal, stored>>

\* time(nullptr) is the wall clock: it may also be set back
Tick ==
  \E d \in ClockSteps :
    /\ clock + d \in 1..MaxTime
    /\ clock' = clock + d
    /\ UNCHANGED <<mainVars, blockVars, threadVars, stopSignal, stored>>

----------------------------------------------------------------------------
MainStep ==
  \/ Loop
  \/ ReceiveRecord \/ ReceiveOther \/ ReceiveFormat \/ Updated \/ ReceiveBadFormat
  \/ GetBlock \/ Write \/ WriteThrows \/ CheckError
  \/ StopExport \/ StopSignal \/ StopWake \/ StopJoin
  \/ Destroy

InserterStep(i) ==
  \/ Connect(i) \/ Publish(i)
  \/ CheckStop(i) \/ Get(i)
  \/ InsertLoop(i) \/ Reconnect(i) \/ InsertOk(i) \/ InsertFails(i)
  \/ Recycle(i)

\* once main has returned or the process is gone, nothing runs any more
Running == pc \notin Ended

MainRuns == Running /\ ~stuck

\* the process is gone, or its main thread waits for ever: the specification
\* stutters here and deadlocks nowhere else
Finished == ~MainRuns /\ UNCHANGED vars

Next ==
  \/ MainRuns /\ MainStep
  \/ \E i \in Inserters : Running /\ InserterStep(i)
  \/ MainRuns /\ Interrupt
  \/ Running /\ Tick
  \/ Finished

Spec == Init /\ [][Next]_vars

Fairness ==
  /\ WF_vars(MainRuns /\ MainStep)
  /\ \A i \in Inserters : WF_vars(Running /\ InserterStep(i))

\* the server answers an insert that is tried again and again, and lets a
\* thread that reconnects again and again in
ServerAnswers ==
  \A i \in Inserters :
    /\ SF_vars(Running /\ InsertOk(i))
    /\ SF_vars(Running /\ Reconnect(i) /\ ipc'[i] = "call")

LiveSpec == Spec /\ Fairness /\ ServerAnswers

----------------------------------------------------------------------------
(* Safety.                                                                 *)

MainPcs == {"loop", "receive", "updated", "getBlock", "write", "check", "export",
            "signal", "wake", "join", "failed"} \cup Ended
InserterPcs == {"connect", "throw", "flag", "check", "get", "insert",
                "reconnect", "call", "recycle", "done"}

\* Every variable has its type: the program counters, indices and pointers
\* stay within what Manager and Inserter allocate.
TypeOK ==
  /\ pc \in MainPcs
  /\ idx \in Inserters
  /\ stopFlag \in BOOLEAN /\ stuck \in BOOLEAN /\ template \in BOOLEAN
  /\ received \in 0..MaxRecords
  /\ current \in Blocks \cup {NoBlock}
  /\ lastInsert \in 0..MaxTime
  /\ clock \in 1..MaxTime
  /\ emptyBlocks \in Seq(Blocks)
  /\ filledBlocks \in Seq(Blocks \cup {NoBlock})
  /\ rows \in [Blocks -> Seq(Records)]
  /\ ipc \in [Inserters -> InserterPcs]
  /\ hand \in [Inserters -> Blocks \cup {NoBlock}]
  /\ needsReconnect \in [Inserters -> BOOLEAN]
  /\ stopSignal \in [Inserters -> BOOLEAN]
  /\ exception \in [Inserters -> BOOLEAN]
  /\ errored \in [Inserters -> BOOLEAN]
  /\ stored \in [Records -> 0..2]

NoRepeats(s) == \A k, l \in DOMAIN s : s[k] = s[l] /\ s[k] # NoBlock => k = l

\* A block has one holder at a time: the empty stack, the filled queue, the
\* main thread or one inserter.  Two holders would write and clear the same
\* columns without a lock (Manager::processRecord, Inserter::run).
OneHolder ==
  /\ NoRepeats(emptyBlocks)
  /\ NoRepeats(filledBlocks)
  /\ \A k \in DOMAIN emptyBlocks :
       /\ emptyBlocks[k] # current
       /\ \A l \in DOMAIN filledBlocks : emptyBlocks[k] # filledBlocks[l]
       /\ \A i \in Inserters : emptyBlocks[k] # hand[i]
  /\ \A l \in DOMAIN filledBlocks : filledBlocks[l] # NoBlock =>
       /\ filledBlocks[l] # current
       /\ \A i \in Inserters : filledBlocks[l] # hand[i]
  /\ \A i \in Inserters : hand[i] # NoBlock =>
       /\ hand[i] # current
       /\ \A j \in Inserters : hand[i] = hand[j] => i = j

\* No block is lost from circulation: with fewer and fewer blocks the main
\* thread would end up waiting for an empty one for ever.
NoBlockLeaks ==
  \A b \in Blocks :
    \/ b \in Elems(emptyBlocks) \cup Elems(filledBlocks)
    \/ b = current
    \/ \E i \in Inserters : b = hand[i]

\* A block on the stack is clear, so its old rows are never inserted again;
\* a block in the queue has a row and no more than the threshold, whichever
\* of the three places (threshold, format change, stop) put it there.
BlocksFitTheirPlace ==
  /\ \A k \in DOMAIN emptyBlocks : rows[emptyBlocks[k]] = <<>>
  /\ \A l \in DOMAIN filledBlocks :
       filledBlocks[l] # NoBlock => Len(rows[filledBlocks[l]]) \in 1..Threshold

Accepted == 1..received
Held     == UNION {Elems(rows[b]) : b \in Blocks}
Stopping == pc \in {"export", "signal", "wake", "join", "returned"}

\* The blocks waiting in the queue and then the current one hold the records
\* in the order they arrived in: neither a format change nor a delay that cuts
\* a block short reorders the stream.
ArrivalOrder ==
  LET Before(a, b) == \A m \in DOMAIN rows[a], n \in DOMAIN rows[b] :
                        rows[a][m] < rows[b][n]
  IN  /\ \A b \in Blocks : \A m, n \in DOMAIN rows[b] :
           m < n => rows[b][m] < rows[b][n]
      /\ \A k, l \in DOMAIN filledBlocks :
           k < l /\ filledBlocks[k] # NoBlock /\ filledBlocks[l] # NoBlock
             => Before(filledBlocks[k], filledBlocks[l])
      /\ \A k \in DOMAIN filledBlocks :
           filledBlocks[k] # NoBlock /\ current # NoBlock
             => Before(filledBlocks[k], current)

Delivery == INSTANCE BlockDelivery
  WITH accepted <- Accepted, pending <- Held, stopping <- Stopping

\* The module implements BlockDelivery: a record leaves the blocks only stored
\* or while the module stops, whatever the server does and however often the
\* insert is retried.
ImplementsDelivery == Delivery!Spec

\* A record is inserted once when no answer of the server is lost: no retry, no
\* recycled block and no stop makes a second copy.
NoDuplicates ==
  ~MayFail("ackLost") => \A r \in Records : stored[r] <= 1

\* checkError reads m_exception without a lock once m_errored is set: it must
\* have been written by then, or main rethrows a null exception_ptr.
ErrorHasException ==
  \A i \in Inserters : errored[i] => exception[i]

Getters == {i \in Inserters : ipc[i] = "get"}

\* When stop() joins the threads, every inserter that is in or about to enter
\* m_filled_blocks.get() finds an item there: one nullptr per thread is enough
\* although other threads and left-over blocks take items from the same queue.
WakeUpsSuffice ==
  /\ pc = "wake" =>
       Cardinality(Getters) <= Len(filledBlocks) + NumInserters - (idx - 1)
  /\ pc = "join" => Cardinality(Getters) <= Len(filledBlocks)

----------------------------------------------------------------------------
(* Liveness.                                                               *)

\* Manager::stop ends: every inserter leaves its loops and is joined, even
\* when the server refuses every insert, unless a SIGINT finds the main thread
\* in the logger.
StopEnds == pc = "export" ~> pc = "returned" \/ stuck

\* A SIGINT that gets as far as the flag ends the program while the inserters
\* work: main is never left waiting for an empty block, unless another SIGINT
\* finds it in the logger.
InterruptEnds == stopFlag ~> ~MainRuns

\* A block that was put in the queue is inserted unless the module stops:
\* the retries of a refused insert starve no block that waits behind it, for
\* insert() goes on until the server takes the block.
QueuedIsStored ==
  \A r \in Records :
    (\E k \in DOMAIN filledBlocks : /\ filledBlocks[k] # NoBlock
                                   /\ r \in Elems(rows[filledBlocks[k]]))
      ~> (stored[r] > 0 \/ Stopping \/ pc \in {"failed", "terminated", "hung"})

----------------------------------------------------------------------------
(* What the documentation says.                                            *)

\* manager.cpp:169 exports what is left in the last block when the module
\* stops; what was exported is in the table when main returns.
LeftoversAreInserted ==
  pc = "returned" => \A r \in Accepted : stored[r] > 0

=============================================================================
