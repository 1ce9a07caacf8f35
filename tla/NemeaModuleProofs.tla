------------------------- MODULE NemeaModuleProofs -------------------------
(***************************************************************************)
(* Proofs about NemeaModule, for every set of command lines and formats    *)
(* and any number of records.                                              *)
(***************************************************************************)
EXTENDS NemeaModule, SequenceTheorems, TLAPS

-----------------------------------------------------------------------------
(* The last print.                                                         *)

\* where the main thread is once it has begun to destroy its objects
Closing == {"unwind", "setFlag", "notify", "join", "stopFuse", "report", "ended",
            "killed", "aborted", "hung"}

\* The flag is set when the loop is over; the last print comes after the flag.
PrintInv ==
  /\ quit => pc \in Closing
  /\ printer \in {"final", "done"} => quit
  /\ LastPrintIsFinal

LEMMA PrintInvHolds == Spec => []PrintInv
<1> USE DEF LastPrintIsFinal, Closing
<1>1. Init => PrintInv
  BY DEF Init, PrintInv
<1>2. PrintInv /\ [Next]_vars => PrintInv'
  <2> SUFFICES ASSUME PrintInv, [Next]_vars PROVE PrintInv'
    OBVIOUS
  <2> USE DEF PrintInv, printerVars, records, lifeVars, readerVars
  <2>1. ASSUME MainStep PROVE PrintInv'
    <3>1. ASSUME ReceiveRecord PROVE PrintInv'
      BY <3>1 DEF ReceiveRecord
    <3>2. ASSUME SetFlag PROVE PrintInv'
      BY <3>2 DEF SetFlag
    <3>3. ASSUME Notify PROVE PrintInv'
      BY <3>3 DEF Notify
    <3>4. ASSUME Construct PROVE PrintInv'
      BY <3>4 DEF Construct, AtConstruction
    <3>5. ASSUME Start \/ Refuse \/ GetLogger \/ ConstructThrows PROVE PrintInv'
      BY <3>5 DEF Start, Refuse, GetLogger, ConstructThrows, AtConstruction, Unwind
    <3>6. ASSUME Attach \/ Loop \/ ReceiveNothing \/ ReceiveFormat \/ ReceiveEnds
          PROVE PrintInv'
      BY <3>6 DEF Attach, Loop, ReceiveNothing, ReceiveFormat, ReceiveEnds, Unwind
    <3>7. ASSUME HandleFormatChange PROVE PrintInv'
      BY <3>7 DEF HandleFormatChange, Unwind
    <3>8. ASSUME ProcessRecord \/ ProcessThrows PROVE PrintInv'
      <4>1. pc = "process" /\ UNCHANGED <<inputs, printerVars>>
        BY <3>8 DEF ProcessRecord, ProcessThrows
      <4> QED
        BY <4>1
    <3>9. ASSUME Destroy \/ DestroyHolder \/ DestroyPlugin \/ Join PROVE PrintInv'
      BY <3>9 DEF Destroy, DestroyHolder, DestroyPlugin, Join
    <3>10. ASSUME StopFuse \/ Leave \/ Report PROVE PrintInv'
      BY <3>10 DEF StopFuse, Leave, Report
    <3> QED
      BY <2>1, <3>1, <3>2, <3>3, <3>4, <3>5, <3>6, <3>7, <3>8, <3>9,
         <3>10 DEF MainStep
  <2>2. ASSUME PrinterStep PROVE PrintInv'
    BY <2>2 DEF PrinterStep, PrintFile, InterfaceTelemetry, Acquire, Check, Wait, LeaveWait
  <2>3. ASSUME WakeUp \/ ReadStep \/ Open PROVE PrintInv'
    BY <2>3 DEF WakeUp, ReadStep, BeginRead, EndRead, Open
  <2>4. ASSUME Interrupt PROVE PrintInv'
    BY <2>4 DEF Interrupt
  <2>5. ASSUME UNCHANGED vars PROVE PrintInv'
    BY <2>5 DEF vars
  <2> QED
    BY <2>1, <2>2, <2>3, <2>4, <2>5 DEF Next, Finished
<1> QED
  BY <1>1, <1>2, PTL DEF Spec

\* When the ncurses thread has ended, the last thing it printed are the statistics
\* of all records received (ncurses-stdout-plugin.cpp:101).
THEOREM LastPrint == Spec => []LastPrintIsFinal
<1>1. PrintInv => LastPrintIsFinal
  BY DEF PrintInv
<1> QED
  BY <1>1, PrintInvHolds, PTL

-----------------------------------------------------------------------------
(* Reads of live objects.                                                  *)

\* telemetry has three objects, and the plugin is the last of them
LEMMA TelemetryScope ==
  ASSUME args \in CommandLines, args.program = "telemetry", built \in 0..Len(Scope)
  PROVE  /\ built \in 0..3 /\ Len(Scope) = 3
         /\ built = 3 => "interface" \in Alive /\ Youngest = "plugin"
         /\ BlockIsGone => built = 0
         /\ built < 3 => (NextObject = "plugin" <=> built = 2) /\ NextObject # "fuse"
<1>1. Scope = <<"interface", "inputFile", "plugin">>
  BY DEF Scope, Block, TelemetryBlock, CommandLines
<1>2. built \in 0..3 /\ Len(Scope) = 3
  BY <1>1
<1>3. Alive = {Scope[k] : k \in 1..built}
  BY DEF Alive
<1>4. built = 3 => "interface" \in Alive /\ Youngest = "plugin"
  BY <1>1, <1>2, <1>3 DEF Youngest
<1>5. BlockIsGone => built = 0
  <2>1. built # 0 => Scope[1] \in Alive
    BY <1>2, <1>3
  <2> QED
    BY <1>1, <1>2, <2>1 DEF BlockIsGone
<1>6. built < 3 => (NextObject = "plugin" <=> built = 2) /\ NextObject # "fuse"
  BY <1>1, <1>2 DEF NextObject
<1> QED
  BY <1>2, <1>4, <1>5, <1>6

\* of deduplicator's objects the holder is the last, and the map stands before it
LEMMA DeduplicatorScope ==
  ASSUME args \in CommandLines, args.program = "deduplicator", built \in 0..Len(Scope)
  PROVE  "holder" \in Alive => "map" \in Alive /\ Youngest = "holder"
<1>1. Len(Scope) \in {4, 5} /\ Scope[Len(Scope)] = "holder" /\ Scope[Len(Scope) - 1] = "map"
      /\ \A k \in 1..(Len(Scope) - 1) : Scope[k] # "holder"
  <2>1. Block = <<"interface", "inputFile", "map", "holder">>
    BY DEF Block, DeduplicatorBlock
  <2>2. CASE args.mount
    <3> DEFINE Objects == {"fuse", "interface", "inputFile", "map", "holder"}
               fuse == <<"fuse">>
    <3>1. Scope = fuse \o Block
      BY <2>2 DEF Scope
    <3>2. fuse \in Seq(Objects) /\ Len(fuse) = 1 /\ fuse[1] = "fuse"
      OBVIOUS
    <3>3. Block \in Seq(Objects) /\ Len(Block) = 4
      BY <2>1
    <3> HIDE DEF fuse, Objects
    <3>4. /\ Len(Scope) = Len(fuse) + Len(Block)
          /\ \A k \in 1..(Len(fuse) + Len(Block)) :
               Scope[k] = IF k <= Len(fuse) THEN fuse[k] ELSE Block[k - Len(fuse)]
      BY <3>1, <3>2, <3>3, ConcatProperties, Zenon
    <3>5. /\ Scope[2] = "interface" /\ Scope[3] = "inputFile"
          /\ Scope[4] = "map" /\ Scope[5] = "holder"
      BY <2>1, <3>2, <3>3, <3>4
    <3>6. Len(Scope) = 5 /\ Scope[1] = "fuse"
      BY <3>2, <3>3, <3>4
    <3> QED
      BY <3>5, <3>6
  <2>3. CASE ~args.mount
    BY <2>1, <2>3 DEF Scope
  <2> QED
    BY <2>2, <2>3
<1>2. "holder" \in Alive => built = Len(Scope)
  BY <1>1 DEF Alive
<1> QED
  BY <1>1, <1>2 DEF Alive, Youngest

LEMMA ThreadIsTelemetrys ==
  ASSUME args \in CommandLines, HasThread
  PROVE  args.program = "telemetry"
<1>1. args.program # "telemetry" => args.output = NoOutput
  BY DEF CommandLines
<1>2. NoOutput.plugin # "stdout"
  BY DEF NoOutput, Nothing
<1> QED
  BY <1>1, <1>2 DEF HasThread

\* the appFs thread has a file
WithFile == {"open", "reading"}

\* the main thread destroys an object in several steps
Destroying == {"setFlag", "notify", "join", "stopFuse"}

\* A thread runs only while the last object of telemetry exists, and a holder is
\* not destroyed while one of its files is read.
LifeInv ==
  /\ args \in CommandLines
  /\ built \in 0..Len(Scope)
  /\ pc \in Destroying => built > 0
  /\ reader \in WithFile => file \in Files
  /\ printer # "none" => HasThread
  /\ reader = "reading" /\ file = "countersFile" => "holder" \in Alive
  /\ args.program = "telemetry" =>
       /\ reader # "off" => ~HasThread /\ built = 3
       /\ printer \notin {"none", "done"} => built = 3
       /\ pc = "stopFuse" => ~HasThread
       /\ pc \in {"start", "report"} => built = 0

\* a callback under way has what it reads
LEMMA LifeInvSuffices == LifeInv => ReadsAreOfLiveObjects
<1> SUFFICES ASSUME LifeInv PROVE ReadsAreOfLiveObjects
  OBVIOUS
<1>1. args.program \in Programs
  BY DEF LifeInv, CommandLines, Programs
<1>2. ASSUME reader = "reading", file \notin Unprotected PROVE Reads(file) \in Alive
  <2>1. CASE args.program = "telemetry"
    BY <1>2, <2>1, TelemetryScope DEF LifeInv, WithFile, Files, Reads
  <2>2. CASE args.program = "deduplicator"
    BY <1>2, <2>2, DeduplicatorScope DEF LifeInv, WithFile, Files, Unprotected, Reads
  <2>3. CASE args.program \in {"sampler", "listDetector"}
    BY <1>2, <2>3 DEF LifeInv, WithFile, Files, Unprotected
  <2> QED
    BY <1>1, <2>1, <2>2, <2>3 DEF Programs
<1>3. ASSUME printer \in {"print", "final"} PROVE Reads("inputFile") \in Alive
  <2>1. args.program = "telemetry"
    BY <1>3, ThreadIsTelemetrys DEF LifeInv
  <2> QED
    BY <1>3, <2>1, TelemetryScope DEF LifeInv, Reads
<1> QED
  BY <1>2, <1>3 DEF ReadsAreOfLiveObjects

LEMMA SameScope ==
  ASSUME UNCHANGED args
  PROVE  Scope' = Scope /\ Files' = Files /\ HasThread' = HasThread
BY DEF Scope, Block, Files, HasThread

\* a step of the main thread that neither makes nor destroys an object
LEMMA LifeFrame ==
  ASSUME LifeInv, UNCHANGED <<args, built, readerVars, printer>>,
         pc' \in Destroying => built > 0,
         args.program = "telemetry" =>
           /\ pc' = "stopFuse" => ~HasThread
           /\ pc' \in {"start", "report"} => built = 0
  PROVE  LifeInv'
<1>1. Alive' = Alive
  BY SameScope DEF Alive
<1> QED
  BY <1>1, SameScope DEF LifeInv, WithFile, Destroying, readerVars

\* a step of the ncurses thread
LEMMA LifePrinter ==
  ASSUME LifeInv, UNCHANGED <<args, built, readerVars>>,
         printer \notin {"none", "done"}, printer' # "none",
         pc' \in {pc, "aborted"} \/ (pc = "notify" /\ pc' = "join")
  PROVE  LifeInv'
<1>1. Alive' = Alive
  BY SameScope DEF Alive
<1> QED
  BY <1>1, SameScope DEF LifeInv, WithFile, Destroying, readerVars

\* a step of the appFs thread
LEMMA LifeReader ==
  ASSUME LifeInv, UNCHANGED <<args, built, pc, printer>>,
         reader # "off", reader' \in WithFile => file' \in Files,
         reader' = "reading" /\ file' = "countersFile" => "holder" \in Alive
  PROVE  LifeInv'
<1>1. Alive' = Alive
  BY SameScope DEF Alive
<1> QED
  BY <1>1, SameScope DEF LifeInv, WithFile, Destroying

\* an object is destroyed: not a holder whose file is read, nor a plugin in use
LEMMA LifeDestroy ==
  ASSUME LifeInv, UNCHANGED <<args, file, printer>>,
         built > 0, built' = built - 1, pc' = "unwind",
         reader' \in {reader, "off"},
         reader' = "reading" /\ file = "countersFile" => Youngest # "holder",
         Youngest = "plugin" => reader' = "off" /\ printer \in {"none", "done"}
  PROVE  LifeInv'
<1>1. built' \in 0..Len(Scope')
  BY SameScope DEF LifeInv
<1>2. ~(reader' = "reading" /\ file' = "countersFile")
  <2>1. file = "countersFile" /\ file \in Files => args.program = "deduplicator"
    BY DEF LifeInv, CommandLines, Files
  <2> QED
    BY <2>1, DeduplicatorScope DEF LifeInv, WithFile
<1>3. ASSUME args.program = "telemetry"
      PROVE  /\ reader' = "off" /\ printer' \in {"none", "done"}
             /\ pc' = "stopFuse" => ~HasThread
             /\ pc' \notin {"start", "report"}
  BY <1>3, TelemetryScope DEF LifeInv
<1> QED
  BY <1>1, <1>2, <1>3, SameScope DEF LifeInv, WithFile, Destroying

\* an object is constructed: the plugin of telemetry is the last one
LEMMA LifeConstruct == LifeInv /\ Construct => LifeInv'
<1> SUFFICES ASSUME LifeInv, Construct PROVE LifeInv'
  OBVIOUS
<1>1. /\ UNCHANGED <<args, file>> /\ built < Len(Scope) /\ built' = built + 1
      /\ pc' = "build"
      /\ reader' = IF NextObject = "fuse" \/ (NextObject = "plugin" /\ ~HasThread)
                   THEN "idle" ELSE reader
      /\ printer' = IF NextObject = "plugin" /\ HasThread THEN "print" ELSE printer
  BY DEF Construct, AtConstruction
<1>2. built' \in 0..Len(Scope')
  BY <1>1, SameScope DEF LifeInv
<1>3. "holder" \in Alive => "holder" \in Alive'
  BY <1>1, SameScope DEF LifeInv, Alive
<1>4. ASSUME args.program = "telemetry"
      PROVE  /\ reader' # "off" => ~HasThread /\ built' = 3
             /\ printer' \notin {"none", "done"} => built' = 3
  <2>1. built < 3 /\ built \in Nat /\ (NextObject = "plugin" <=> built = 2) /\ NextObject # "fuse"
    <3>1. /\ built \in 0..3 /\ Len(Scope) = 3
          /\ built < 3 => (NextObject = "plugin" <=> built = 2) /\ NextObject # "fuse"
      BY <1>4, TelemetryScope, Zenon DEF LifeInv
    <3>2. built < 3 /\ built \in Nat
      BY <1>1, <3>1
    <3> QED
      BY <3>1, <3>2
  <2>2. reader = "off" /\ printer \in {"none", "done"}
    BY <1>4, <2>1 DEF LifeInv
  <2>3. reader' # "off" => NextObject = "plugin" /\ ~HasThread
    BY <1>1, <2>1, <2>2
  <2>4. printer' \notin {"none", "done"} => NextObject = "plugin"
    BY <1>1, <2>2
  <2> QED
    BY <1>1, <2>1, <2>3, <2>4
<1>5. reader' \in WithFile => reader' = reader
  BY <1>1 DEF WithFile
<1>6. printer' # "none" => HasThread
  BY <1>1 DEF LifeInv
<1>7. Files' = Files /\ HasThread' = HasThread
  BY <1>1, SameScope
<1>8. reader' \in WithFile => file' \in Files
  BY <1>1, <1>5 DEF LifeInv
<1>9. reader' = "reading" /\ file' = "countersFile" => "holder" \in Alive'
  BY <1>1, <1>3, <1>5 DEF LifeInv, WithFile
<1>10. args' = args /\ args' \in CommandLines /\ pc' = "build"
  BY <1>1 DEF LifeInv
<1> QED
  BY <1>2, <1>4, <1>6, <1>7, <1>8, <1>9, <1>10 DEF LifeInv, Destroying

\* when the block of telemetry is gone nothing is left
LEMMA TelemetryLeaves ==
  ASSUME LifeInv, args.program = "telemetry", BlockIsGone
  PROVE  built = 0
BY TelemetryScope DEF LifeInv

LEMMA LifeMainStep == LifeInv /\ MainStep => LifeInv'
<1> SUFFICES ASSUME LifeInv, MainStep PROVE LifeInv'
  OBVIOUS
<1> USE DEF lifeVars, printerVars, Destroying
<1>1. ASSUME Start PROVE LifeInv'
  BY <1>1, LifeFrame DEF Start, LifeInv
<1>2. ASSUME Refuse \/ GetLogger \/ ConstructThrows PROVE LifeInv'
  BY <1>2, LifeFrame DEF Refuse, GetLogger, ConstructThrows, Unwind
<1>3. ASSUME Attach \/ Loop \/ ReceiveNothing \/ ReceiveRecord \/ ReceiveFormat \/ ReceiveEnds
      PROVE  LifeInv'
  BY <1>3, LifeFrame
  DEF Attach, Loop, ReceiveNothing, ReceiveRecord, ReceiveFormat, ReceiveEnds, Unwind
<1>4. ASSUME HandleFormatChange PROVE LifeInv'
  BY <1>4, LifeFrame DEF HandleFormatChange, Unwind
<1>5. ASSUME ProcessRecord \/ ProcessThrows PROVE LifeInv'
  <2>1. /\ pc' \in {"loop", "unwind"}
        /\ UNCHANGED <<args, built, readerVars, printer>>
    BY <1>5 DEF ProcessRecord, ProcessThrows, Unwind
  <2> QED
    BY <2>1, LifeFrame
<1>6. built \in Nat /\ (Youngest # "none" => built > 0)
  BY DEF LifeInv, Youngest
<1>7. ASSUME DestroyPlugin \/ SetFlag \/ Notify PROVE LifeInv'
  <2>1. built > 0
    BY <1>6, <1>7 DEF DestroyPlugin, SetFlag, Notify, LifeInv
  <2>2. CASE DestroyPlugin \/ SetFlag
    BY <2>1, <2>2, LifeFrame DEF DestroyPlugin, SetFlag
  <2>3. CASE Notify /\ printer = "waiting"
    BY <2>3, LifePrinter DEF Notify
  <2>4. CASE Notify /\ printer # "waiting"
    BY <2>1, <2>4, LifeFrame DEF Notify
  <2> QED
    BY <1>7, <2>2, <2>3, <2>4
<1>8. ASSUME Leave PROVE LifeInv'
  BY <1>8, LifeFrame, TelemetryLeaves DEF Leave
<1>9. ASSUME Report PROVE LifeInv'
  BY <1>9, LifeFrame DEF Report, LifeInv
<1>10. ASSUME Destroy \/ DestroyHolder PROVE LifeInv'
  <2>1. Youngest \notin {"none", "plugin"}
    BY <1>10 DEF Destroy, DestroyHolder, PlainObjects
  <2>2. /\ UNCHANGED <<args, file, printer, reader>>
        /\ built' = built - 1 /\ pc' = "unwind"
    BY <1>10 DEF Destroy, DestroyHolder, readerVars
  <2>3. reader = "reading" /\ file = "countersFile" => Youngest # "holder"
    BY <1>10 DEF Destroy, DestroyHolder, PlainObjects
  <2> QED
    BY <1>6, <2>1, <2>2, <2>3, LifeDestroy
<1>11. ASSUME Join \/ StopFuse PROVE LifeInv'
  <2>1. /\ UNCHANGED <<args, printer>> /\ built' = built - 1 /\ pc' = "unwind"
    BY <1>11 DEF Join, StopFuse
  <2>2. built > 0
    BY <1>11 DEF Join, StopFuse, LifeInv
  <2>3. printer = "done" \/ pc = "stopFuse"
    BY <1>11 DEF Join, StopFuse
  <2>4. printer # "none" => HasThread /\ args.program = "telemetry"
    BY ThreadIsTelemetrys DEF LifeInv
  <2>5. printer \in {"none", "done"}
    BY <2>3, <2>4 DEF LifeInv
  <2>6. reader' = "off" /\ file' = file
    BY <1>11, <2>4 DEF Join, StopFuse, readerVars, LifeInv
  <2> QED
    BY <2>1, <2>2, <2>5, <2>6, LifeDestroy
<1> QED
  BY <1>1, <1>2, <1>3, <1>4, <1>5, <1>7, <1>8, <1>9, <1>10, <1>11, LifeConstruct
  DEF MainStep

LEMMA LifeInvHolds == Spec => []LifeInv
<1>1. Init => LifeInv
  <2> SUFFICES ASSUME Init PROVE LifeInv
    OBVIOUS
  <2>1. /\ args \in CommandLines /\ pc = "start" /\ built = 0
        /\ reader = "off" /\ printer = "none"
    BY DEF Init
  <2>2. Len(Scope) \in Nat
    BY DEF Scope, Block, SamplerBlock, DeduplicatorBlock, ListDetectorBlock, TelemetryBlock
  <2> QED
    BY <2>1, <2>2 DEF LifeInv, Destroying, WithFile
<1>2. LifeInv /\ [Next]_vars => LifeInv'
  <2> SUFFICES ASSUME LifeInv, [Next]_vars PROVE LifeInv'
    OBVIOUS
  <2>1. ASSUME PrinterStep PROVE LifeInv'
    BY <2>1, LifePrinter
    DEF PrinterStep, PrintFile, Acquire, Check, Wait, LeaveWait, lifeVars
  <2>2. ASSUME WakeUp PROVE LifeInv'
    BY <2>2, LifePrinter DEF WakeUp, lifeVars
  <2>3. ASSUME Open PROVE LifeInv'
    BY <2>3, LifeReader DEF Open, lifeVars, printerVars
  <2>4. ASSUME BeginRead PROVE LifeInv'
    BY <2>4, LifeReader DEF BeginRead, lifeVars, printerVars, Enabled, WithFile, LifeInv
  <2>5. ASSUME EndRead PROVE LifeInv'
    BY <2>5, LifeReader DEF EndRead, lifeVars, printerVars, WithFile
  <2>6. ASSUME Interrupt PROVE LifeInv'
    BY <2>6, LifeFrame DEF Interrupt, lifeVars, printerVars, LifeInv, Destroying
  <2>7. ASSUME UNCHANGED vars PROVE LifeInv'
    BY <2>7, LifeFrame
    DEF vars, lifeVars, printerVars, LifeInv, Destroying
  <2> QED
    BY <2>1, <2>2, <2>3, <2>4, <2>5, <2>6, <2>7, LifeMainStep DEF Next, ReadStep, Finished
<1> QED
  BY <1>1, <1>2, PTL DEF Spec

\* A callback that another thread runs reads an object that still exists
\* (telemetry's main.cpp:165, deduplicator.hpp:83); Unprotected names the exceptions.
THEOREM ReadsAreSafe == Spec => []ReadsAreOfLiveObjects
BY LifeInvHolds, LifeInvSuffices, PTL
-----------------------------------------------------------------------------
(* Types.                                                                  *)

Phases == {"start", "build", "logger", "loop", "receive", "process", "format"}
Leaving == {"unwind", "report"} \cup Destroying
Gone == {"ended", "killed", "aborted", "hung"}

\* The main thread does not destroy anything without a reason, and what it has
\* built is gone at the end.
PhaseInv ==
  /\ pc \in Phases \cup Leaving \cup Gone
  /\ outcome \in {"running", "success", "refused", "exception", "reported"}
  /\ pc \in Leaving => outcome # "running"
  /\ pc = "start" => built = 0
  /\ pc = "ended" => built = 0 /\ outcome # "running"

\* The mutex of the ncurses plugin is with whom it says, and a thread has a file
\* while it reads one.
ThreadInv ==
  /\ ~Over => (mutex = "main" <=> pc = "setFlag")
  /\ mutex = "printer" <=> printer \in {"check", "block", "leave"}
  /\ file \in Files \cup {NoFile}
  /\ reader \in WithFile <=> file # NoFile
  /\ reader # "off" => (args.mount /\ built > 0) \/ args.program = "telemetry"

\* where records are processed, and all that were received have been
Between == {"start", "build", "logger", "loop", "receive", "format"}

\* A record received is in the current format until it is processed, and sampler
\* has counted what was processed.
RecordInv ==
  /\ inputs \in Seq(Formats) /\ Len(inputs) <= MaxRecords
  /\ handled \in 0..Len(inputs)
  /\ pc \in Between => handled = Len(inputs)
  /\ pc = "process" => handled + 1 = Len(inputs) /\ inputs[Len(inputs)] = template
  /\ template \in Formats \cup {NoFormat}
  /\ incoming \in Formats \cup {NoFormat}
  /\ totalRecords \in 0..Len(inputs) /\ sampledRecords \in 0..totalRecords
  /\ pc \in Phases =>
       totalRecords = IF args.program = "sampler" THEN handled ELSE 0

LEMMA PhaseMain == LifeInv /\ PhaseInv /\ MainStep => PhaseInv'
<1> SUFFICES ASSUME LifeInv, PhaseInv, MainStep PROVE PhaseInv'
  OBVIOUS
<1> USE DEF PhaseInv, Phases, Leaving, Destroying, Gone, lifeVars
<1>1. ASSUME Start \/ Refuse \/ GetLogger \/ Construct \/ ConstructThrows
      PROVE  PhaseInv'
  BY <1>1 DEF Start, Refuse, GetLogger, Construct, ConstructThrows, Unwind
<1>2. ASSUME Attach \/ Loop \/ ReceiveNothing \/ ReceiveRecord \/ ReceiveFormat
             \/ ReceiveEnds
      PROVE  PhaseInv'
  BY <1>2 DEF Attach, Loop, ReceiveNothing, ReceiveRecord, ReceiveFormat, ReceiveEnds,
              Unwind
<1>3. ASSUME HandleFormatChange PROVE PhaseInv'
  BY <1>3 DEF HandleFormatChange, Unwind
<1>4. ASSUME ProcessRecord \/ ProcessThrows PROVE PhaseInv'
  <2>1. \/ pc' = "loop" /\ UNCHANGED outcome
        \/ pc' = "unwind" /\ outcome' = "exception"
    BY <1>4 DEF ProcessRecord, ProcessThrows, Unwind
  <2> QED
    BY <2>1
<1>5. ASSUME Destroy \/ DestroyHolder \/ DestroyPlugin \/ SetFlag \/ Notify \/ Join
             \/ StopFuse
      PROVE  PhaseInv'
  BY <1>5 DEF Destroy, DestroyHolder, DestroyPlugin, SetFlag, Notify, Join, StopFuse
<1>6. ASSUME Leave PROVE PhaseInv'
  <2>1. built \in Nat /\ pc = "unwind" /\ UNCHANGED lifeVars
    BY <1>6 DEF Leave, LifeInv
  <2>2. \/ pc' \in {"report", "stopFuse"}
        \/ pc' = "ended" /\ built = 0
    BY <1>6, <2>1 DEF Leave
  <2> QED
    BY <2>1, <2>2
<1>7. ASSUME Report PROVE PhaseInv'
  <2>1. built \in Nat /\ outcome' = "reported" /\ built' = built
    BY <1>7 DEF Report, LifeInv
  <2>2. pc' = "stopFuse" \/ (pc' = "ended" /\ built = 0)
    BY <1>7, <2>1 DEF Report
  <2> QED
    BY <2>1, <2>2
<1> QED
  BY <1>1, <1>2, <1>3, <1>4, <1>5, <1>6, <1>7 DEF MainStep

LEMMA PhaseInvHolds == Spec => []PhaseInv
<1> USE DEF PhaseInv, Phases, Leaving, Destroying, Gone
<1>1. Init => PhaseInv
  BY DEF Init
<1>2. LifeInv /\ PhaseInv /\ [Next]_vars => PhaseInv'
  <2> SUFFICES ASSUME LifeInv, PhaseInv, [Next]_vars PROVE PhaseInv'
    OBVIOUS
  <2>1. ASSUME PrinterStep PROVE PhaseInv'
    <3>1. UNCHANGED <<built, outcome>> /\ pc' \in {pc, "aborted"}
      BY <2>1 DEF PrinterStep, PrintFile, Acquire, Check, Wait, LeaveWait, lifeVars
    <3> QED
      BY <3>1
  <2>2. ASSUME WakeUp \/ ReadStep \/ Open PROVE PhaseInv'
    BY <2>2 DEF WakeUp, ReadStep, BeginRead, EndRead, Open, lifeVars
  <2>3. ASSUME Interrupt PROVE PhaseInv'
    <3>1. UNCHANGED <<built, outcome>> /\ pc' \in {pc, "killed", "hung"}
      BY <2>3 DEF Interrupt, lifeVars
    <3> QED
      BY <3>1
  <2>4. ASSUME UNCHANGED vars PROVE PhaseInv'
    BY <2>4 DEF vars, lifeVars
  <2> QED
    BY <2>1, <2>2, <2>3, <2>4, PhaseMain DEF Next, Finished
<1> QED
  BY <1>1, <1>2, LifeInvHolds, PTL DEF Spec

\* with --appfs-mountpoint appFs is the first object, and the only one of that name
LEMMA FuseIsFirst ==
  ASSUME args \in CommandLines, built \in 0..Len(Scope)
  PROVE  /\ args.mount /\ built > 0 => Scope[1] = "fuse" /\ "fuse" \in Alive
         /\ built < Len(Scope) /\ NextObject = "fuse" => args.mount /\ built = 0
         /\ built < Len(Scope) /\ NextObject = "plugin" => args.program = "telemetry"
<1> DEFINE Objects == {"fuse", "sampler", "interface", "inputFile", "samplerFile", "map",
                       "holder", "parser", "rules", "plugin"}
           fuse == <<"fuse">>
<1>1. /\ Block \in Seq(Objects)
      /\ \A k \in 1..Len(Block) : Block[k] # "fuse"
      /\ args.program # "telemetry" => \A k \in 1..Len(Block) : Block[k] # "plugin"
  <2>1. args.program \in Programs
    BY DEF CommandLines, Programs
  <2>2. CASE args.program = "sampler"
    BY <2>2 DEF Block, SamplerBlock
  <2>3. CASE args.program = "deduplicator"
    BY <2>3 DEF Block, DeduplicatorBlock
  <2>4. CASE args.program = "listDetector"
    BY <2>4 DEF Block, ListDetectorBlock
  <2>5. CASE args.program = "telemetry"
    BY <2>5 DEF Block, TelemetryBlock
  <2> QED
    BY <2>1, <2>2, <2>3, <2>4, <2>5 DEF Programs
<1>2. CASE args.mount
  <2>1. Scope = fuse \o Block
    BY <1>2 DEF Scope
  <2>2. fuse \in Seq(Objects) /\ Len(fuse) = 1 /\ fuse[1] = "fuse"
    OBVIOUS
  <2> HIDE DEF fuse, Objects
  <2>3. /\ Len(Scope) = Len(fuse) + Len(Block)
        /\ \A k \in 1..(Len(fuse) + Len(Block)) :
             Scope[k] = IF k <= Len(fuse) THEN fuse[k] ELSE Block[k - Len(fuse)]
    BY <1>1, <2>1, <2>2, ConcatProperties, Zenon
  <2>4. Len(Block) \in Nat
    BY <1>1, LenProperties
  <2>5. Scope[1] = "fuse"
    BY <2>2, <2>3, <2>4
  <2>6. built > 0 => "fuse" \in Alive
    BY <2>5 DEF Alive
  <2>7. \A k \in 1..Len(Scope) : Scope[k] = "plugin" => args.program = "telemetry"
    <3> SUFFICES ASSUME NEW k \in 1..Len(Scope), Scope[k] = "plugin"
                 PROVE  args.program = "telemetry"
      OBVIOUS
    <3>1. k # 1
      BY <2>5
    <3>2. k - 1 \in 1..Len(Block) /\ Scope[k] = Block[k - 1]
      BY <2>2, <2>3, <2>4, <3>1
    <3> QED
      BY <1>1, <3>2
  <2>8. \A k \in 1..Len(Scope) : Scope[k] = "fuse" => k = 1
    <3> SUFFICES ASSUME NEW k \in 1..Len(Scope), k # 1
                 PROVE  Scope[k] # "fuse"
      OBVIOUS
    <3>1. k - 1 \in 1..Len(Block) /\ Scope[k] = Block[k - 1]
      BY <2>2, <2>3, <2>4
    <3> QED
      BY <1>1, <3>1
  <2>9. built < Len(Scope) => built + 1 \in 1..Len(Scope)
    BY <2>2, <2>3, <2>4
  <2> QED
    BY <1>2, <2>5, <2>6, <2>7, <2>8, <2>9 DEF NextObject
<1>3. CASE ~args.mount
  <2>1. Scope = Block
    BY <1>3 DEF Scope
  <2> HIDE DEF Objects
  <2>2. Len(Block) \in Nat
    BY <1>1, LenProperties
  <2>3. built < Len(Scope) => built + 1 \in 1..Len(Block)
    BY <2>1, <2>2
  <2> QED
    BY <1>1, <1>3, <2>1, <2>3 DEF NextObject
<1> QED
  BY <1>2, <1>3

LEMMA ThreadMain == LifeInv /\ ThreadInv /\ MainStep => ThreadInv'
<1> SUFFICES ASSUME LifeInv, ThreadInv, MainStep PROVE ThreadInv'
  OBVIOUS
<1> USE DEF WithFile, Over
<1>1. UNCHANGED <<args, file>> /\ Files' = Files
  <2>1. UNCHANGED <<args, file>>
    <3>1. ASSUME Start \/ Refuse \/ GetLogger \/ Construct \/ ConstructThrows \/ Attach
          PROVE  UNCHANGED <<args, file>>
      BY <3>1 DEF Start, Refuse, GetLogger, Construct, ConstructThrows, Attach, readerVars
    <3>2. ASSUME \/ Loop \/ ReceiveNothing \/ ReceiveRecord \/ ReceiveFormat \/ ReceiveEnds
                 \/ HandleFormatChange
          PROVE  UNCHANGED <<args, file>>
      BY <3>2 DEF Loop, ReceiveNothing, ReceiveRecord, ReceiveFormat, ReceiveEnds,
                  HandleFormatChange, readerVars
    <3>3. ASSUME ProcessRecord \/ ProcessThrows
          PROVE  UNCHANGED <<args, file>>
      BY <3>3 DEF ProcessRecord, ProcessThrows, readerVars
    <3>4. ASSUME Destroy \/ DestroyHolder \/ DestroyPlugin \/ SetFlag \/ Notify \/ Join
                 \/ StopFuse \/ Leave \/ Report
          PROVE  UNCHANGED <<args, file>>
      BY <3>4 DEF Destroy, DestroyHolder, DestroyPlugin, SetFlag, Notify, Join, StopFuse,
                  Leave, Report, readerVars
    <3> QED
      BY <3>1, <3>2, <3>3, <3>4 DEF MainStep
  <2> QED
    BY <2>1, SameScope
<1>2. ASSUME UNCHANGED <<built, reader, printer, mutex>>, pc # "setFlag", ~Over,
             pc' # "setFlag"
      PROVE  ThreadInv'
  BY <1>1, <1>2 DEF ThreadInv
<1>3. ASSUME \/ Start \/ Refuse \/ GetLogger \/ ConstructThrows \/ Attach
             \/ Loop \/ ReceiveNothing \/ ReceiveRecord \/ ReceiveFormat \/ ReceiveEnds
      PROVE  ThreadInv'
  <2>1. UNCHANGED <<built, reader, printer, mutex>> /\ pc # "setFlag" /\ ~Over
        /\ pc' # "setFlag"
    BY <1>3 DEF Start, Refuse, GetLogger, ConstructThrows, Attach, Loop, ReceiveNothing,
                ReceiveRecord, ReceiveFormat, ReceiveEnds, Unwind, AtConstruction,
                readerVars, printerVars, lifeVars
  <2> QED
    BY <1>2, <2>1
<1>4. ASSUME HandleFormatChange \/ ProcessRecord \/ ProcessThrows
      PROVE  ThreadInv'
  <2>1. UNCHANGED <<built, reader, printer, mutex>> /\ pc # "setFlag" /\ ~Over
        /\ pc' # "setFlag"
    <3>1. CASE HandleFormatChange
      BY <3>1 DEF HandleFormatChange, Unwind, readerVars, printerVars, lifeVars
    <3>2. CASE ProcessRecord \/ ProcessThrows
      BY <3>2 DEF ProcessRecord, ProcessThrows, Unwind, readerVars, printerVars, lifeVars
    <3> QED
      BY <1>4, <3>1, <3>2
  <2> QED
    BY <1>2, <2>1
<1>5. ASSUME Leave \/ Report
      PROVE  ThreadInv'
  <2>1. UNCHANGED <<built, reader, printer, mutex>> /\ pc # "setFlag" /\ ~Over
        /\ pc' # "setFlag"
    BY <1>5 DEF Leave, Report, readerVars, printerVars, lifeVars
  <2> QED
    BY <1>2, <2>1
<1>6. ASSUME Construct PROVE ThreadInv'
  <2>1. /\ built < Len(Scope) /\ built' = built + 1 /\ pc # "setFlag" /\ ~Over
        /\ pc' = "build" /\ UNCHANGED mutex
        /\ reader' = IF NextObject = "fuse" \/ (NextObject = "plugin" /\ ~HasThread)
                     THEN "idle" ELSE reader
        /\ printer' = IF NextObject = "plugin" /\ HasThread THEN "print" ELSE printer
    BY <1>6 DEF Construct, AtConstruction
  <2>2. args \in CommandLines /\ built \in 0..Len(Scope)
    BY DEF LifeInv
  <2>3. /\ NextObject = "fuse" => args.mount
        /\ NextObject = "plugin" => args.program = "telemetry"
    BY <2>1, <2>2, FuseIsFirst
  <2>4. built' > 0
    BY <2>1, <2>2
  <2>5. reader' # "off" => (args.mount /\ built' > 0) \/ args.program = "telemetry"
    BY <2>1, <2>3, <2>4 DEF ThreadInv
  <2>6. (NextObject = "fuse" \/ (NextObject = "plugin" /\ ~HasThread))
          => reader \notin WithFile
    <3>1. CASE args.program = "telemetry"
      <4>1. (reader # "off" => built = 3) /\ Len(Scope) = 3
        BY <2>2, <3>1, TelemetryScope, Zenon DEF LifeInv
      <4>2. built < Len(Scope)
        BY <2>1
      <4>3. reader = "off"
        BY <4>1, <4>2
      <4> QED
        BY <4>3
    <3>2. CASE args.program # "telemetry" /\ NextObject = "fuse"
      <4>1. reader # "off" => args.mount /\ built > 0
        BY <3>2 DEF ThreadInv
      <4>2. args.mount /\ built > 0 => FALSE
        BY <2>1, <2>2, <3>2, FuseIsFirst
      <4> QED
        BY <4>1, <4>2
    <3> QED
      BY <2>3, <3>1, <3>2
  <2>7. NextObject = "plugin" /\ HasThread => printer \notin {"check", "block", "leave"}
    <3> SUFFICES ASSUME NextObject = "plugin"
                 PROVE  printer \notin {"check", "block", "leave"}
      OBVIOUS
    <3>1. args.program = "telemetry"
      BY <2>3
    <3>2. Len(Scope) = 3
      BY <2>2, <3>1, TelemetryScope, Zenon
    <3>3. built # 3
      BY <2>1, <3>2
    <3> QED
      BY <3>1, <3>3 DEF LifeInv
  <2>8. mutex' = "printer" <=> printer' \in {"check", "block", "leave"}
    BY <2>1, <2>7 DEF ThreadInv
  <2>9. reader' \in WithFile <=> file' # NoFile
    BY <1>1, <2>1, <2>6 DEF ThreadInv
  <2>10. ~Over' => (mutex' = "main" <=> pc' = "setFlag")
    BY <2>1 DEF ThreadInv
  <2> QED
    BY <1>1, <2>5, <2>8, <2>9, <2>10 DEF ThreadInv
<1>7. ASSUME Destroy \/ DestroyHolder PROVE ThreadInv'
  <2>1. /\ built' = built - 1 /\ UNCHANGED <<pc, reader, printer, mutex>> /\ pc = "unwind"
        /\ Youngest \notin {"fuse", "none"}
    BY <1>7 DEF Destroy, DestroyHolder, readerVars, printerVars, PlainObjects
  <2>2. args.mount /\ built > 0 => built' > 0
    <3>1. built \in 0..Len(Scope) /\ args \in CommandLines
      BY DEF LifeInv
    <3>2. args.mount /\ built > 0 => Scope[1] = "fuse"
      BY <3>1, FuseIsFirst
    <3> QED
      BY <2>1, <3>1, <3>2 DEF Youngest
  <2> QED
    BY <1>1, <2>1, <2>2 DEF ThreadInv
<1>8. ASSUME DestroyPlugin \/ SetFlag \/ Notify PROVE ThreadInv'
  <2>1. UNCHANGED <<built, reader>> /\ ~Over
    BY <1>8 DEF DestroyPlugin, SetFlag, Notify, lifeVars, readerVars
  <2>2. CASE DestroyPlugin
    BY <1>1, <2>1, <2>2 DEF DestroyPlugin, ThreadInv
  <2>3. CASE SetFlag
    BY <1>1, <2>1, <2>3 DEF SetFlag, ThreadInv
  <2>4. CASE Notify
    BY <1>1, <2>1, <2>4 DEF Notify, ThreadInv
  <2> QED
    BY <1>8, <2>2, <2>3, <2>4
<1>9. ASSUME Join PROVE ThreadInv'
  <2>1. /\ printer = "done" /\ pc = "join" /\ pc' = "unwind"
        /\ UNCHANGED <<reader, printer, mutex>>
    BY <1>9 DEF Join, readerVars, printerVars
  <2>2. args.program = "telemetry"
    BY <2>1, ThreadIsTelemetrys DEF LifeInv
  <2> QED
    BY <1>1, <2>1, <2>2 DEF ThreadInv
<1>10. ASSUME StopFuse PROVE ThreadInv'
  <2>1. /\ reader = "idle" /\ reader' = "off" /\ pc = "stopFuse" /\ pc' = "unwind"
        /\ UNCHANGED <<printer, mutex>>
    BY <1>10 DEF StopFuse, printerVars
  <2> QED
    BY <1>1, <2>1 DEF ThreadInv
<1> QED
  BY <1>3, <1>4, <1>5, <1>6, <1>7, <1>8, <1>9, <1>10 DEF MainStep

LEMMA ThreadInvHolds == Spec => []ThreadInv
<1>1. Init => ThreadInv
  BY DEF Init, ThreadInv, Over, WithFile
<1>2. LifeInv /\ ThreadInv /\ [Next]_vars => ThreadInv'
  <2> SUFFICES ASSUME LifeInv, ThreadInv, [Next]_vars PROVE ThreadInv'
    OBVIOUS
  <2>1. ASSUME PrinterStep PROVE ThreadInv'
    <3>1. UNCHANGED <<args, built, reader, file>> /\ Files' = Files /\ ~Over
      BY <2>1, SameScope
      DEF PrinterStep, PrintFile, Acquire, Check, Wait, LeaveWait, lifeVars, readerVars
    <3>2. CASE PrintFile
      BY <3>1, <3>2 DEF PrintFile, ThreadInv, Over
    <3>3. CASE Acquire
      BY <3>1, <3>3 DEF Acquire, ThreadInv, Over
    <3>4. CASE Check
      BY <3>1, <3>4 DEF Check, ThreadInv, Over
    <3>5. CASE Wait \/ LeaveWait
      BY <3>1, <3>5 DEF Wait, LeaveWait, ThreadInv, Over
    <3> QED
      BY <2>1, <3>2, <3>3, <3>4, <3>5 DEF PrinterStep
  <2>2. ASSUME WakeUp PROVE ThreadInv'
    BY <2>2, SameScope DEF WakeUp, lifeVars, readerVars, ThreadInv, Over
  <2>3. ASSUME ReadStep \/ Open PROVE ThreadInv'
    <3>1. UNCHANGED <<args, built, pc, printer, mutex>> /\ Files' = Files
      BY <2>3, SameScope DEF ReadStep, BeginRead, EndRead, Open, lifeVars, printerVars
    <3>2. /\ file' \in Files \cup {NoFile}
          /\ reader' \in WithFile <=> file' # NoFile
          /\ reader' # "off" => reader # "off"
      <4>1. NoFile \notin Files
        BY DEF NoFile, Files, LifeInv, CommandLines
      <4> QED
        BY <2>3, <4>1 DEF ReadStep, BeginRead, EndRead, Open, ThreadInv, WithFile
    <3> QED
      BY <3>1, <3>2 DEF ThreadInv, Over
  <2>4. ASSUME Interrupt PROVE ThreadInv'
    <3>1. UNCHANGED <<args, built, reader, file, printer, mutex>> /\ Files' = Files
      BY <2>4, SameScope DEF Interrupt, lifeVars, readerVars, printerVars
    <3>2. ~Over /\ (pc' \in {pc, "killed"} \/ (pc' = "hung" /\ pc \in {"logger", "report"}))
      BY <2>4 DEF Interrupt
    <3> QED
      BY <3>1, <3>2 DEF ThreadInv, Over
  <2>5. ASSUME UNCHANGED vars PROVE ThreadInv'
    BY <2>5, SameScope DEF vars, lifeVars, readerVars, printerVars, ThreadInv, Over
  <2> QED
    BY <2>1, <2>2, <2>3, <2>4, <2>5, ThreadMain DEF Next, Finished
<1> QED
  BY <1>1, <1>2, LifeInvHolds, PTL DEF Spec

recordState == <<args, template, incoming, inputs, handled, totalRecords, sampledRecords>>

\* a step that neither receives nor processes anything
LEMMA RecordFrame ==
  ASSUME RecordInv, UNCHANGED recordState,
         pc' \in Between => pc \in Between,
         pc' = "process" => pc = "process"
  PROVE  RecordInv'
<1>1. UNCHANGED recordState /\ (pc' \in Phases => pc \in Phases)
  BY DEF Phases, Between
<1>2. /\ inputs' \in Seq(Formats) /\ Len(inputs') <= MaxRecords
      /\ handled' \in 0..Len(inputs')
      /\ template' \in Formats \cup {NoFormat}
      /\ incoming' \in Formats \cup {NoFormat}
      /\ totalRecords' \in 0..Len(inputs') /\ sampledRecords' \in 0..totalRecords'
  BY <1>1 DEF recordState, RecordInv
<1>3. /\ pc' \in Between => handled' = Len(inputs')
      /\ pc' = "process" => handled' + 1 = Len(inputs') /\ inputs'[Len(inputs')] = template'
  BY <1>1 DEF recordState, RecordInv
<1>4. pc' \in Phases =>
        totalRecords' = IF args'.program = "sampler" THEN handled' ELSE 0
  BY <1>1 DEF recordState, RecordInv
<1> QED
  BY <1>2, <1>3, <1>4 DEF RecordInv

\* what a record adds to sampler's counters
LEMMA CountsOne ==
  ASSUME RecordInv, pc = "process", NEW pass, CountSample(pass)
  PROVE  /\ totalRecords' = IF args.program = "sampler" THEN handled + 1 ELSE 0
         /\ totalRecords' \in 0..Len(inputs)
         /\ sampledRecords' \in 0..totalRecords'
<1>1. /\ totalRecords = IF args.program = "sampler" THEN handled ELSE 0
      /\ handled + 1 = Len(inputs) /\ handled \in Nat
      /\ sampledRecords \in 0..totalRecords
  BY DEF RecordInv, Phases
<1>2. CASE args.program = "sampler"
  <2>1. /\ totalRecords' = totalRecords + 1
        /\ sampledRecords' \in {sampledRecords, sampledRecords + 1}
    BY <1>2 DEF CountSample
  <2> QED
    BY <1>1, <1>2, <2>1
<1>3. CASE args.program # "sampler"
  <2>1. UNCHANGED <<totalRecords, sampledRecords>>
    BY <1>3 DEF CountSample
  <2> QED
    BY <1>1, <1>3, <2>1
<1> QED
  BY <1>2, <1>3

LEMMA RecordMain == RecordInv /\ MainStep => RecordInv'
<1> SUFFICES ASSUME RecordInv, MainStep PROVE RecordInv'
  OBVIOUS
<1>1. ASSUME \/ Start \/ Refuse \/ GetLogger \/ Construct \/ ConstructThrows
             \/ Loop \/ ReceiveNothing \/ ReceiveEnds
      PROVE  RecordInv'
  <2>1. UNCHANGED recordState
    BY <1>1 DEF Start, Refuse, GetLogger, Construct, ConstructThrows, Loop, ReceiveNothing,
                ReceiveEnds, records, recordState
  <2>2. pc \in Between /\ pc' # "process"
    BY <1>1 DEF Start, Refuse, GetLogger, Construct, ConstructThrows, Loop, ReceiveNothing,
                ReceiveEnds, Unwind, AtConstruction, Between
  <2> QED
    BY <2>1, <2>2, RecordFrame
<1>2. ASSUME \/ Destroy \/ DestroyHolder \/ DestroyPlugin \/ SetFlag \/ Notify \/ Join
             \/ StopFuse \/ Leave \/ Report
      PROVE  RecordInv'
  <2>1. UNCHANGED recordState
    BY <1>2 DEF Destroy, DestroyHolder, DestroyPlugin, SetFlag, Notify, Join, StopFuse,
                Leave, Report, records, recordState
  <2>2. pc' \notin Between /\ pc' # "process"
    BY <1>2 DEF Destroy, DestroyHolder, DestroyPlugin, SetFlag, Notify, Join, StopFuse,
                Leave, Report, Between
  <2> QED
    BY <2>1, <2>2, RecordFrame
<1>3. ASSUME Attach PROVE RecordInv'
  <2>1. /\ pc = "build" /\ pc' \in {"loop", "unwind"}
        /\ UNCHANGED <<args, template, incoming, inputs, handled, totalRecords,
                       sampledRecords>>
    BY <1>3 DEF Attach, Unwind
  <2> QED
    BY <2>1 DEF RecordInv, Between, Phases
<1>4. ASSUME ReceiveFormat PROVE RecordInv'
  <2>1. /\ pc = "receive" /\ pc' = "format" /\ incoming' \in Formats
        /\ UNCHANGED <<args, template, inputs, handled, totalRecords,
                       sampledRecords>>
    BY <1>4 DEF ReceiveFormat
  <2> QED
    BY <2>1 DEF RecordInv, Between, Phases
<1>5. ASSUME HandleFormatChange PROVE RecordInv'
  <2>1. /\ pc = "format"
        /\ UNCHANGED <<args, incoming, inputs, handled, totalRecords, sampledRecords>>
        /\ \/ pc' = "loop" /\ template' = incoming
           \/ pc' = "unwind" /\ UNCHANGED template
    BY <1>5 DEF HandleFormatChange, Unwind
  <2> QED
    BY <2>1 DEF RecordInv, Between, Phases
<1>6. ASSUME ReceiveRecord PROVE RecordInv'
  <2>1. /\ pc = "receive" /\ pc' = "process" /\ Len(inputs) < MaxRecords
        /\ template # NoFormat
        /\ inputs' = Append(inputs, template) /\ incoming' = NoFormat
        /\ UNCHANGED <<args, template, handled, totalRecords, sampledRecords>>
    BY <1>6 DEF ReceiveRecord
  <2>2. /\ template \in Formats /\ inputs \in Seq(Formats) /\ handled = Len(inputs)
        /\ Len(inputs) \in Nat
    BY <2>1, LenProperties DEF RecordInv, Between
  <2>3. /\ inputs' \in Seq(Formats) /\ Len(inputs') = Len(inputs) + 1
        /\ inputs'[Len(inputs')] = template
    BY <2>1, <2>2, AppendProperties
  <2>4. Len(inputs') <= MaxRecords
    BY <2>1, <2>2, <2>3, NumbersAssumption
  <2>5. totalRecords \in 0..Len(inputs') /\ handled \in 0..Len(inputs')
    BY <2>2, <2>3 DEF RecordInv
  <2> QED
    BY <2>1, <2>2, <2>3, <2>4, <2>5 DEF RecordInv, Between, Phases
<1>7. ASSUME ProcessRecord \/ ProcessThrows PROVE RecordInv'
  <2>1. /\ pc = "process"
        /\ UNCHANGED <<args, template, incoming, inputs>>
        /\ \E pass \in BOOLEAN \cup MayPass : CountSample(pass)
    BY <1>7 DEF ProcessRecord, ProcessThrows
  <2>2. \/ pc' = "loop" /\ handled' = handled + 1
        \/ pc' = "unwind" /\ handled' = handled
    BY <1>7 DEF ProcessRecord, ProcessThrows, Unwind
  <2>3. /\ totalRecords' = IF args.program = "sampler" THEN handled + 1 ELSE 0
        /\ totalRecords' \in 0..Len(inputs)
        /\ sampledRecords' \in 0..totalRecords'
    BY <2>1, CountsOne
  <2>4. handled + 1 = Len(inputs) /\ handled \in Nat
    BY <2>1 DEF RecordInv
  <2>5. handled' \in 0..Len(inputs) /\ (pc' = "loop" => handled' = Len(inputs))
    BY <2>2, <2>4
  <2> QED
    BY <2>1, <2>2, <2>3, <2>5 DEF RecordInv, Between, Phases
<1> QED
  BY <1>1, <1>2, <1>3, <1>4, <1>5, <1>6, <1>7 DEF MainStep

LEMMA RecordInvHolds == Spec => []RecordInv
<1>1. Init => RecordInv
  <2> SUFFICES ASSUME Init PROVE RecordInv
    OBVIOUS
  <2>1. inputs = <<>> /\ inputs \in Seq(Formats) /\ Len(inputs) = 0
    BY DEF Init
  <2> QED
    BY <2>1, NumbersAssumption DEF Init, RecordInv
<1>2. RecordInv /\ [Next]_vars => RecordInv'
  <2> SUFFICES ASSUME RecordInv, [Next]_vars PROVE RecordInv'
    OBVIOUS
  <2>1. ASSUME PrinterStep PROVE RecordInv'
    <3>1. UNCHANGED recordState /\ pc' \in {pc, "aborted"}
      BY <2>1 DEF PrinterStep, PrintFile, Acquire, Check, Wait, LeaveWait, records, recordState
    <3> QED
      BY <3>1, RecordFrame DEF Between
  <2>2. ASSUME WakeUp \/ ReadStep \/ Open PROVE RecordInv'
    <3>1. UNCHANGED recordState /\ pc' = pc
      BY <2>2 DEF WakeUp, ReadStep, BeginRead, EndRead, Open, records, recordState
    <3> QED
      BY <3>1, RecordFrame
  <2>3. ASSUME Interrupt PROVE RecordInv'
    <3>1. UNCHANGED recordState /\ pc' \in {pc, "killed", "hung"}
      BY <2>3 DEF Interrupt, records, recordState
    <3> QED
      BY <3>1, RecordFrame DEF Between
  <2>4. ASSUME UNCHANGED vars PROVE RecordInv'
    <3>1. UNCHANGED recordState /\ pc' = pc
      BY <2>4 DEF vars, records, recordState
    <3> QED
      BY <3>1, RecordFrame
  <2> QED
    BY <2>1, <2>2, <2>3, <2>4, RecordMain DEF Next, Finished
<1> QED
  BY <1>1, <1>2, PTL DEF Spec

\* the record loop
Looping == {"loop", "receive", "format", "process"}

\* The formats in which field ids are looked up: the deduplicator's in the current
\* one, the list detector's in the required one before the loop begins; sampler and
\* telemetry read no field.
IdsInv ==
  /\ pc = "start" => built = 0
  /\ pc \in {"start", "build", "logger"} => template = NoFormat
  /\ pc = "format" => incoming \in Formats
  /\ ids \in Formats \cup {NoFormat, RequiredFormat}
  /\ args.program = "deduplicator" /\ pc \in Looping =>
       ids = IF template = NoFormat THEN RequiredFormat ELSE template
  /\ args.program = "listDetector" /\ (pc \in Looping \/ (pc = "build" /\ built = Len(Scope)))
       => ids = RequiredFormat
  /\ args.program \in {"sampler", "telemetry"} => ids = NoFormat

\* the list detector's rules are its last object, sampler and telemetry have none
LEMMA ScopeOfRules ==
  ASSUME args \in CommandLines
  PROVE  /\ Len(Scope) \in Nat \ {0}
         /\ args.program = "listDetector" => Scope[Len(Scope)] = "rules"
         /\ args.program \in {"sampler", "telemetry"} =>
              \A k \in 1..Len(Scope) : Scope[k] # "rules"
<1> DEFINE Objects == {"fuse", "sampler", "interface", "inputFile", "samplerFile", "parser",
                       "holder", "rules", "plugin", "map"}
           fuse == <<"fuse">>
<1>1. args.program \in Programs
  BY DEF CommandLines, Programs
<1>2. /\ Block \in Seq(Objects) /\ Len(Block) \in Nat \ {0}
      /\ args.program = "listDetector" => Block[Len(Block)] = "rules"
      /\ args.program \in {"sampler", "telemetry"} => \A k \in 1..Len(Block) : Block[k] # "rules"
  <2>1. CASE args.program = "sampler"
    BY <2>1 DEF Block, SamplerBlock
  <2>2. CASE args.program = "deduplicator"
    BY <2>2 DEF Block, DeduplicatorBlock
  <2>3. CASE args.program = "listDetector"
    BY <2>3 DEF Block, ListDetectorBlock
  <2>4. CASE args.program = "telemetry"
    BY <2>4 DEF Block, TelemetryBlock
  <2> QED
    BY <1>1, <2>1, <2>2, <2>3, <2>4 DEF Programs
<1>3. CASE ~args.mount
  BY <1>2, <1>3 DEF Scope
<1>4. CASE args.mount
  <2>1. Scope = fuse \o Block
    BY <1>4 DEF Scope
  <2>2. fuse \in Seq(Objects) /\ Len(fuse) = 1 /\ fuse[1] = "fuse"
    OBVIOUS
  <2> HIDE DEF fuse, Objects
  <2>3. /\ Len(Scope) = Len(fuse) + Len(Block)
        /\ \A k \in 1..(Len(fuse) + Len(Block)) :
             Scope[k] = IF k <= Len(fuse) THEN fuse[k] ELSE Block[k - Len(fuse)]
    BY <1>2, <2>1, <2>2, ConcatProperties, Zenon
  <2> DEFINE n == Len(Block)
  <2>4. /\ n \in Nat \ {0} /\ Len(Scope) = n + 1
        /\ \A k \in 1..(n + 1) : Scope[k] = IF k <= 1 THEN "fuse" ELSE Block[k - 1]
    BY <1>2, <2>2, <2>3
  <2>5. args.program = "listDetector" => Block[n] = "rules"
    BY <1>2
  <2>6. args.program \in {"sampler", "telemetry"} => \A k \in 1..n : Block[k] # "rules"
    BY <1>2
  <2> HIDE DEF n
  <2>7. ASSUME args.program \in {"sampler", "telemetry"}, NEW k \in 1..(n + 1)
        PROVE  Scope[k] # "rules"
    <3>1. CASE k = 1
      BY <2>4, <3>1
    <3>2. CASE k # 1
      <4>1. k - 1 \in 1..n /\ Scope[k] = Block[k - 1]
        BY <2>4, <3>2
      <4> QED
        BY <2>6, <2>7, <4>1
    <3> QED
      BY <3>1, <3>2
  <2>8. args.program = "listDetector" => Scope[n + 1] = "rules"
    BY <2>4, <2>5
  <2> QED
    BY <2>4, <2>7, <2>8
<1> QED
  BY <1>3, <1>4

\* a step that looks nothing up, receives no format and begins no loop
LEMMA IdsFrame ==
  ASSUME IdsInv, UNCHANGED <<args, ids, template>>,
         pc' = "start" => pc = "start" /\ built' = built,
         pc' \in {"start", "build", "logger"} => pc \in {"start", "build", "logger"},
         pc' = "format" => pc = "format" /\ incoming' = incoming,
         pc' \in Looping => pc \in Looping,
         args.program = "listDetector" /\ pc' = "build" /\ built' = Len(Scope) =>
           pc = "build" /\ built' = built
  PROVE  IdsInv'
<1>1. Scope' = Scope
  BY SameScope
<1> QED
  BY <1>1 DEF IdsInv

LEMMA IdsMain == LifeInv /\ IdsInv /\ MainStep => IdsInv'
<1> SUFFICES ASSUME LifeInv, IdsInv, MainStep PROVE IdsInv'
  OBVIOUS
<1>1. /\ Len(Scope) \in Nat \ {0}
      /\ args.program = "listDetector" => Scope[Len(Scope)] = "rules"
      /\ args.program \in {"sampler", "telemetry"} =>
           \A k \in 1..Len(Scope) : Scope[k] # "rules"
  BY ScopeOfRules DEF LifeInv
<1>2. ASSUME Start PROVE IdsInv'
  <2>1. /\ UNCHANGED <<args, ids, template, built>> /\ pc = "start"
        /\ pc' \in {"build", "ended", "report"}
    BY <1>2 DEF Start, records
  <2>2. built = 0
    BY <2>1 DEF IdsInv
  <2> QED
    BY <1>1, <2>1, <2>2, IdsFrame DEF Looping
<1>3. ASSUME Construct PROVE IdsInv'
  <2>1. /\ UNCHANGED <<args, template>> /\ pc \in {"build", "logger"} /\ pc' = "build"
        /\ built < Len(Scope) /\ built' = built + 1
        /\ ids' = IF Scope[built + 1] = "rules" THEN RequiredFormat ELSE ids
    BY <1>3 DEF Construct, AtConstruction, NextObject
  <2>2. built \in Nat /\ Scope' = Scope
    BY <2>1, SameScope DEF LifeInv
  <2>3. template' = NoFormat /\ ids' \in Formats \cup {NoFormat, RequiredFormat}
    BY <2>1 DEF IdsInv
  <2>4. args.program = "listDetector" /\ built' = Len(Scope) => ids' = RequiredFormat
    BY <1>1, <2>1, <2>2
  <2>5. args.program \in {"sampler", "telemetry"} => ids' = NoFormat
    <3>1. built + 1 \in 1..Len(Scope)
      BY <1>1, <2>1, <2>2
    <3> QED
      BY <1>1, <2>1, <3>1 DEF IdsInv
  <2> QED
    BY <2>1, <2>2, <2>3, <2>4, <2>5 DEF IdsInv, Looping
<1>4. ASSUME Attach PROVE IdsInv'
  <2>1. /\ UNCHANGED <<args, built, template, incoming>> /\ pc = "build" /\ built = Len(Scope)
        /\ pc' \in {"loop", "unwind"}
        /\ ids' = IF args.program = "deduplicator" THEN RequiredFormat ELSE ids
    BY <1>4 DEF Attach, Unwind
  <2>2. Scope' = Scope
    BY <2>1, SameScope
  <2> QED
    BY <2>1, <2>2 DEF IdsInv, Looping
<1>5. ASSUME HandleFormatChange PROVE IdsInv'
  <2>1. /\ UNCHANGED <<args, built, incoming>> /\ pc = "format"
        /\ \/ /\ pc' = "loop" /\ template' = incoming
              /\ ids' = IF args.program = "deduplicator" THEN incoming ELSE ids
           \/ pc' = "unwind" /\ UNCHANGED <<template, ids>>
    BY <1>5 DEF HandleFormatChange, Unwind
  <2>2. incoming \in Formats /\ incoming # NoFormat
    BY <2>1, FormatsAssumption DEF IdsInv
  <2>3. Scope' = Scope
    BY <2>1, SameScope
  <2> QED
    BY <2>1, <2>2, <2>3 DEF IdsInv, Looping
<1>6. ASSUME ReceiveFormat PROVE IdsInv'
  <2>1. /\ UNCHANGED <<args, built, ids, template>> /\ pc = "receive"
        /\ pc' = "format" /\ incoming' \in Formats
    BY <1>6 DEF ReceiveFormat, lifeVars
  <2>2. Scope' = Scope
    BY <2>1, SameScope
  <2> QED
    BY <2>1, <2>2 DEF IdsInv, Looping
<1>7. ASSUME \/ Refuse \/ GetLogger \/ ConstructThrows \/ Loop \/ ReceiveNothing
             \/ ReceiveRecord \/ ReceiveEnds \/ ProcessRecord \/ ProcessThrows
      PROVE  IdsInv'
  <2>1. UNCHANGED <<args, ids, template>>
    BY <1>7 DEF Refuse, GetLogger, ConstructThrows, Loop, ReceiveNothing, ReceiveRecord,
                ReceiveEnds, ProcessRecord, ProcessThrows, records
  <2>2. /\ pc' \notin {"start", "build", "format"}
        /\ pc' = "logger" => pc = "build"
        /\ pc' \in Looping => pc \in Looping
    BY <1>7 DEF Refuse, GetLogger, ConstructThrows, Loop, ReceiveNothing, ReceiveRecord,
                ReceiveEnds, ProcessRecord, ProcessThrows, Unwind, Looping
  <2> QED
    BY <2>1, <2>2, IdsFrame
<1>8. ASSUME \/ Destroy \/ DestroyHolder \/ DestroyPlugin \/ SetFlag \/ Notify \/ Join
             \/ StopFuse \/ Leave \/ Report
      PROVE  IdsInv'
  <2>1. UNCHANGED <<args, ids, template>>
    BY <1>8 DEF Destroy, DestroyHolder, DestroyPlugin, SetFlag, Notify, Join, StopFuse,
                Leave, Report, records
  <2>2. pc' \notin {"start", "build", "logger", "format"} /\ pc' \notin Looping
    BY <1>8 DEF Destroy, DestroyHolder, DestroyPlugin, SetFlag, Notify, Join, StopFuse,
                Leave, Report, Looping
  <2> QED
    BY <2>1, <2>2, IdsFrame
<1> QED
  BY <1>2, <1>3, <1>4, <1>5, <1>6, <1>7, <1>8 DEF MainStep

LEMMA IdsInvHolds == Spec => []IdsInv
<1>1. Init => IdsInv
  <2> SUFFICES ASSUME Init PROVE IdsInv
    OBVIOUS
  <2>1. /\ args \in CommandLines /\ pc = "start" /\ built = 0
        /\ template = NoFormat /\ ids = NoFormat
    BY DEF Init
  <2> QED
    BY <2>1 DEF IdsInv, Looping
<1>2. LifeInv /\ IdsInv /\ [Next]_vars => IdsInv'
  <2> SUFFICES ASSUME LifeInv, IdsInv, [Next]_vars PROVE IdsInv'
    OBVIOUS
  <2>1. ASSUME PrinterStep \/ Interrupt PROVE IdsInv'
    <3>1. /\ UNCHANGED <<args, ids, template, incoming, built>>
          /\ pc' \in {pc, "aborted", "killed", "hung"}
      BY <2>1 DEF PrinterStep, PrintFile, Acquire, Check, Wait, LeaveWait, Interrupt,
                  records, lifeVars
    <3> QED
      BY <3>1, IdsFrame DEF Looping
  <2>2. ASSUME WakeUp \/ ReadStep \/ Open \/ UNCHANGED vars PROVE IdsInv'
    <3>1. UNCHANGED <<args, ids, template, incoming, built, pc>>
      BY <2>2 DEF WakeUp, ReadStep, BeginRead, EndRead, Open, vars, records, lifeVars
    <3> QED
      BY <3>1, IdsFrame
  <2> QED
    BY <2>1, <2>2, IdsMain DEF Next, Finished
<1> QED
  BY <1>1, <1>2, LifeInvHolds, PTL DEF Spec

\* Every variable has its type, threads run only while the object that joins or
\* stops them exists, and nothing is left when main returns.
THEOREM TypeCorrect == Spec => []TypeOK
<1>1. LifeInv /\ PhaseInv /\ ThreadInv /\ RecordInv /\ IdsInv => TypeOK
  <2> SUFFICES ASSUME LifeInv, PhaseInv, ThreadInv, RecordInv, IdsInv PROVE TypeOK
    OBVIOUS
  <2>1. /\ args \in CommandLines /\ built \in 0..Len(Scope)
        /\ printer \notin {"none", "done"} => HasThread
        /\ args.program = "telemetry" =>
             /\ reader # "off" => built = 3
             /\ printer \notin {"none", "done"} => built = 3
    BY DEF LifeInv
  <2>2. built = 3 /\ args.program = "telemetry" => "plugin" \in Alive
    BY <2>1, TelemetryScope DEF Alive, Youngest
  <2>3. reader # "off" => Alive \cap {"fuse", "plugin"} # {}
    <3>1. CASE args.program = "telemetry"
      BY <2>1, <2>2, <3>1
    <3>2. CASE args.program # "telemetry"
      BY <2>1, <3>2, FuseIsFirst DEF ThreadInv
    <3> QED
      BY <3>1, <3>2
  <2>4. printer \notin {"none", "done"} => "plugin" \in Alive
    BY <2>1, <2>2, ThreadIsTelemetrys
  <2>5. /\ pc \in Phases \cup Leaving \cup Gone
        /\ outcome \in {"running", "success", "refused", "exception", "reported"}
        /\ pc = "ended" => built = 0 /\ outcome # "running"
    BY DEF PhaseInv
  <2>6. /\ template \in Formats \cup {NoFormat}
        /\ incoming \in Formats \cup {NoFormat}
        /\ Len(inputs) <= MaxRecords /\ handled \in 0..Len(inputs)
        /\ totalRecords \in 0..Len(inputs) /\ sampledRecords \in 0..totalRecords
        /\ ids \in Formats \cup {NoFormat, RequiredFormat}
    BY DEF RecordInv, IdsInv
  <2>7. /\ file \in Files \cup {NoFile}
        /\ reader \in {"open", "reading"} <=> file # NoFile
        /\ ~Over => (mutex = "main" <=> pc = "setFlag")
        /\ mutex = "printer" <=> printer \in {"check", "block", "leave"}
    BY DEF ThreadInv, WithFile
  <2>8. pc \in {"start", "build", "logger", "loop", "receive", "process", "format",
                "unwind", "setFlag", "notify", "join", "stopFuse", "report", "ended",
                "killed", "aborted", "hung"}
    BY <2>5 DEF Phases, Leaving, Destroying, Gone
  <2> QED
    BY <2>1, <2>3, <2>4, <2>5, <2>6, <2>7, <2>8 DEF TypeOK
<1> QED
  BY <1>1, LifeInvHolds, PhaseInvHolds, ThreadInvHolds, RecordInvHolds, IdsInvHolds, PTL

-----------------------------------------------------------------------------
(* The program implements RecordForwarding.                                *)

\* the state of RecordForwarding
Rate == CASE args.program = "sampler"   -> args.number
          [] args.program = "telemetry" -> 1
          [] OTHER                      -> 0
FieldIds == CASE args.program = "deduplicator" -> "refreshed"
              [] args.program = "listDetector" -> "kept"
              [] OTHER                         -> "none"
Accepted == SubSeq(inputs, 1, handled)

\* at a rate of 1 every record is due
LEMMA EveryOneIsDue == \A n \in Nat : n % 1 = 0
OBVIOUS

\* a record received is not looked at before it is processed
LEMMA ReceivingIsAhead ==
  ASSUME RecordInv, NEW format \in Formats
  PROVE  SubSeq(Append(inputs, format), 1, handled) = SubSeq(inputs, 1, handled)
<1> DEFINE s == Append(inputs, format)
<1>1. /\ inputs \in Seq(Formats) /\ Len(inputs) \in Nat
      /\ handled \in 0..Len(inputs)
  BY LenProperties DEF RecordInv
<1>2. /\ s \in Seq(Formats) /\ Len(s) = Len(inputs) + 1
      /\ \A i \in 1..Len(inputs) : s[i] = inputs[i]
  BY <1>1, AppendProperties
<1> HIDE DEF s
<1>3. CASE handled = 0
  BY <1>3, SubSeqEmpty
<1>4. CASE handled # 0
  <2>1. /\ 1 \in Int /\ handled \in Int
        /\ \A i \in 1..handled : s[i] \in Formats /\ inputs[i] \in Formats
        /\ \A i \in 1..handled : s[i] = inputs[i]
    BY <1>1, <1>2
  <2> DEFINE a == SubSeq(s, 1, handled)
             b == SubSeq(inputs, 1, handled)
  <2>2. /\ a \in Seq(Formats) /\ Len(a) = handled
        /\ \A i \in 1..handled : a[i] = s[i]
    <3>1. /\ a \in Seq(Formats)
          /\ Len(a) = IF 1 <= handled THEN handled - 1 + 1 ELSE 0
          /\ \A i \in 1..(handled - 1 + 1) : a[i] = s[1 + i - 1]
      BY <2>1, SubSeqProperties
    <3> HIDE DEF a
    <3> QED
      BY <1>1, <1>4, <3>1
  <2>3. /\ b \in Seq(Formats) /\ Len(b) = handled
        /\ \A i \in 1..handled : b[i] = inputs[i]
    <3>1. /\ b \in Seq(Formats)
          /\ Len(b) = IF 1 <= handled THEN handled - 1 + 1 ELSE 0
          /\ \A i \in 1..(handled - 1 + 1) : b[i] = inputs[1 + i - 1]
      BY <2>1, SubSeqProperties
    <3> HIDE DEF b
    <3> QED
      BY <1>1, <1>4, <3>1
  <2> HIDE DEF a, b
  <2>4. a = b
    BY <2>1, <2>2, <2>3, SeqEqual
  <2> QED
    BY <2>4 DEF a, b, s
<1> QED
  BY <1>1, <1>3, <1>4 DEF s

\* the record processed is the next one
LEMMA ProcessingIsNext ==
  ASSUME RecordInv, pc = "process"
  PROVE  /\ SubSeq(inputs, 1, handled + 1) = Append(Accepted, template)
         /\ Len(inputs) = Len(Accepted) + 1
         /\ template \in Formats
<1> DEFINE last == handled + 1
<1>1. /\ inputs \in Seq(Formats) /\ handled \in Nat
      /\ last = Len(inputs) /\ inputs[last] = template
  BY DEF RecordInv
<1>2. last \in 1..Len(inputs) /\ 1 \in 1..Len(inputs) /\ last \in 1..Len(inputs)
  BY <1>1
<1>3. template \in Formats
  BY <1>1, <1>2, ElementOfSeq
<1>4. SubSeq(inputs, 1, last) = SubSeq(inputs, 1, last - 1) \o <<inputs[last]>>
  BY <1>1, <1>2, SubSeqRecursiveSecond
<1>5. last - 1 = handled
  BY <1>1
<1>6. Accepted \in Seq(Formats) /\ Len(Accepted) = handled
  <2>1. /\ 1 \in Int /\ handled \in Int
        /\ \A i \in 1..handled : inputs[i] \in Formats
    BY <1>1, ElementOfSeq
  <2>2. /\ Accepted \in Seq(Formats)
        /\ Len(Accepted) = IF 1 <= handled THEN handled - 1 + 1 ELSE 0
    BY <2>1, SubSeqProperties DEF Accepted
  <2> QED
    BY <1>1, <2>2
<1>7. Append(Accepted, template) = Accepted \o <<template>>
  BY <1>3, <1>6, AppendIsConcat
<1> QED
  BY <1>1, <1>3, <1>4, <1>5, <1>6, <1>7 DEF Accepted

\* sampler sends the record on exactly when its number is a multiple of the rate
LEMMA PassesWhenDue ==
  ASSUME RecordInv, args \in CommandLines, pc = "process", NEW pass \in MayPass
  PROVE  /\ pass \in BOOLEAN
         /\ Rate # 0 => (pass <=> (handled + 1) % Rate = 0)
<1>1. CASE args.program = "sampler"
  <2>1. totalRecords = handled /\ Rate = args.number
    BY <1>1 DEF RecordInv, Phases, Rate
  <2>2. pass = ((totalRecords + 1) % args.number = 0)
    BY <1>1 DEF MayPass
  <2> QED
    BY <2>1, <2>2
<1>2. CASE args.program = "telemetry"
  <2>1. pass = TRUE /\ Rate = 1
    BY <1>2 DEF MayPass, Rate
  <2>2. (handled + 1) % 1 = 0
    BY EveryOneIsDue DEF RecordInv
  <2> QED
    BY <2>1, <2>2
<1>3. CASE args.program \notin {"sampler", "telemetry"}
  BY <1>3 DEF MayPass, Rate
<1> QED
  BY <1>1, <1>2, <1>3

\* the field ids a record is read with are those the program promises
LEMMA ReadsWithItsIds ==
  ASSUME IdsInv, args \in CommandLines, pc = "process", template \in Formats
  PROVE  ids = Forwarding!LookedUpIn(template)
<1>1. template # NoFormat
  BY FormatsAssumption
<1>2. CASE args.program = "deduplicator"
  BY <1>1, <1>2 DEF IdsInv, Looping, Forwarding!LookedUpIn
<1>3. CASE args.program = "listDetector"
  BY <1>3 DEF IdsInv, Looping, Forwarding!LookedUpIn
<1>4. CASE args.program \in {"sampler", "telemetry"}
  BY <1>4 DEF IdsInv, Forwarding!LookedUpIn
<1>5. args.program \in Programs
  BY DEF CommandLines, Programs
<1> QED
  BY <1>2, <1>3, <1>4, <1>5 DEF Programs

\* each record that is processed is passed on or dropped
LEMMA ProcessForwards ==
  ASSUME RecordInv, IdsInv, args \in CommandLines, ProcessRecord
  PROVE  Forwarding!Next
<1>1. /\ pc = "process" /\ handled' = handled + 1
      /\ UNCHANGED <<args, template, ids, inputs>>
  BY DEF ProcessRecord
<1>2. PICK pass \in MayPass :
        sent' = IF pass
                THEN Append(sent, [number |-> Len(inputs), sentAs |-> template,
                                   readAs |-> ids])
                ELSE sent
  BY DEF ProcessRecord
<1>3. pass \in BOOLEAN /\ (Rate # 0 => (pass <=> (handled + 1) % Rate = 0))
  BY <1>1, PassesWhenDue
<1>4. /\ Accepted' = Append(Accepted, template) /\ template \in Formats
      /\ Len(inputs) = Len(Accepted) + 1 /\ Len(Accepted) + 1 = handled + 1
  BY <1>1, ProcessingIsNext DEF Accepted, RecordInv
<1>5. Rate' = Rate /\ FieldIds' = FieldIds
  BY <1>1 DEF Rate, FieldIds
<1>6. ids = Forwarding!LookedUpIn(template)
  BY <1>1, <1>4, ReadsWithItsIds
<1>7. CASE pass
  <2>1. sent' = Append(sent, [number |-> Len(Accepted) + 1, sentAs |-> template,
                              readAs |-> Forwarding!LookedUpIn(template)])
    BY <1>2, <1>4, <1>6, <1>7
  <2>2. Rate # 0 => (Len(Accepted) + 1) % Rate = 0
    BY <1>3, <1>4, <1>7
  <2>3. Forwarding!Pass(template)
    BY <1>4, <1>5, <2>1, <2>2 DEF Forwarding!Pass, Forwarding!Due, Rate, FieldIds, Accepted
  <2> QED
    BY <1>4, <2>3 DEF Forwarding!Next
<1>8. CASE ~pass
  <2>1. sent' = sent
    BY <1>2, <1>8
  <2>2. Rate # 0 => ~((Len(Accepted) + 1) % Rate = 0)
    BY <1>3, <1>4, <1>8
  <2>3. Forwarding!Drop(template)
    BY <1>4, <1>5, <2>1, <2>2 DEF Forwarding!Drop, Forwarding!Due, Rate, FieldIds, Accepted
  <2> QED
    BY <1>4, <2>3 DEF Forwarding!Next
<1> QED
  BY <1>3, <1>7, <1>8

LEMMA StepForwards ==
  RecordInv /\ IdsInv /\ LifeInv /\ [Next]_vars => [Forwarding!Next]_(Forwarding!fvars)
<1> SUFFICES ASSUME RecordInv, IdsInv, LifeInv, [Next]_vars
             PROVE  [Forwarding!Next]_(Forwarding!fvars)
  OBVIOUS
<1>1. ASSUME UNCHANGED <<args, handled, inputs, sent>>
      PROVE  UNCHANGED Forwarding!fvars
  BY <1>1 DEF Forwarding!fvars
<1>2. ASSUME ReceiveRecord
      PROVE  UNCHANGED Forwarding!fvars
  <2>1. /\ UNCHANGED <<args, handled, sent>> /\ inputs' = Append(inputs, template)
        /\ template # NoFormat
    BY <1>2 DEF ReceiveRecord
  <2>2. template \in Formats
    BY <2>1 DEF RecordInv
  <2>3. SubSeq(inputs', 1, handled') = SubSeq(inputs, 1, handled)
    BY <2>1, <2>2, ReceivingIsAhead
  <2> QED
    BY <2>1, <2>3 DEF Forwarding!fvars
<1>3. ASSUME ProcessRecord
      PROVE  Forwarding!Next
  BY <1>3, ProcessForwards DEF LifeInv
<1>4. ASSUME \/ Start \/ Refuse \/ GetLogger \/ Construct \/ ConstructThrows
             \/ Loop \/ ReceiveNothing \/ ReceiveEnds
      PROVE  UNCHANGED <<args, handled, inputs, sent>>
  BY <1>4 DEF Start, Refuse, GetLogger, Construct, ConstructThrows, Loop, ReceiveNothing,
              ReceiveEnds, records
<1>5. ASSUME Attach \/ ReceiveFormat \/ HandleFormatChange \/ ProcessThrows
      PROVE  UNCHANGED <<args, handled, inputs, sent>>
  BY <1>5 DEF Attach, ReceiveFormat, HandleFormatChange, ProcessThrows
<1>6. ASSUME \/ Destroy \/ DestroyHolder \/ DestroyPlugin \/ SetFlag \/ Notify \/ Join
             \/ StopFuse \/ Leave \/ Report
      PROVE  UNCHANGED <<args, handled, inputs, sent>>
  BY <1>6 DEF Destroy, DestroyHolder, DestroyPlugin, SetFlag, Notify, Join, StopFuse,
              Leave, Report, records
<1>7. ASSUME PrinterStep \/ WakeUp
      PROVE  UNCHANGED <<args, handled, inputs, sent>>
  BY <1>7 DEF PrinterStep, PrintFile, Acquire, Check, Wait, LeaveWait, WakeUp, records
<1>8. ASSUME ReadStep \/ Open \/ Interrupt
      PROVE  UNCHANGED <<args, handled, inputs, sent>>
  BY <1>8 DEF ReadStep, BeginRead, EndRead, Open, Interrupt, records
<1>9. ASSUME UNCHANGED vars
      PROVE  UNCHANGED <<args, handled, inputs, sent>>
  BY <1>9 DEF vars, records
<1> QED
  BY <1>1, <1>2, <1>3, <1>4, <1>5, <1>6, <1>7, <1>8, <1>9 DEF Next, MainStep, Finished

LEMMA InitForwards == Init => Forwarding!Init
<1> SUFFICES ASSUME Init PROVE Forwarding!Init
  OBVIOUS
<1>1. args \in CommandLines /\ inputs = <<>> /\ handled = 0 /\ sent = <<>>
  BY DEF Init
<1>2. SubSeq(inputs, 1, handled) = <<>>
  BY <1>1, SubSeqEmpty
<1>3. Rate \in Nat
  <2>1. args.number \in Numbers \cup {1}
    BY <1>1 DEF CommandLines
  <2> QED
    BY <2>1, NumbersAssumption DEF Rate
<1> QED
  BY <1>1, <1>2, <1>3 DEF Forwarding!Init, Rate

\* Records are sent on once, in order and in the format they came in, through every
\* change of the format and up to whatever ends the loop; sampler sends exactly
\* every rate-th one.  The deduplicator reads each with the field ids of its own
\* format; the list detector reads all of them with the ids of the required format,
\* which it looked up when it built its rules (ruleBuilder.cpp:82).
THEOREM ForwardingIsImplemented == Spec => ImplementsForwarding
BY RecordInvHolds, IdsInvHolds, LifeInvHolds, InitForwards, StepForwards, PTL
DEF Spec, ImplementsForwarding, Forwarding!Spec
=============================================================================
