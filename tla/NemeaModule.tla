----------------------------- MODULE NemeaModule -----------------------------
(***************************************************************************)
(* The process that sampler, deduplicator, listDetector and telemetry have *)
(* in common: main() reads its command line, constructs its objects one    *)
(* after the other, forwards records until the input ends or SIGINT sets a *)
(* flag, and destroys the objects in the opposite order.  Meanwhile an     *)
(* appFs (FUSE) thread, or telemetry's ncurses thread, runs callbacks that *)
(* read these objects.                                                     *)
(*                                                                         *)
(* What deduplicator and listDetector decide about a record is left open;  *)
(* modules Deduplicator and ListDetector have it.  Of the libraries:       *)
(* libtelemetry's directories do not own their files, a file runs its      *)
(* callback under a lock, and a Holder disables its files under the same   *)
(* lock when it is destroyed; stopping appFs waits for a read under way.   *)
(***************************************************************************)
EXTENDS OutputPlugins, Naturals

CONSTANTS
  Numbers,     \* values of --rate of sampler; of deduplicator, the smaller of
               \* --size and --timeout
  Outputs,     \* values of --output of telemetry
  Formats,     \* the templates records may come in
  NoFormat,
  RequiredFormat,  \* the template that setRequieredFormat asks for
  MaxRecords   \* bound: records received

ASSUME NumbersAssumption == Numbers \subseteq Nat /\ MaxRecords \in Nat
ASSUME FormatsAssumption ==
  /\ NoFormat \notin Formats /\ RequiredFormat \notin Formats
  /\ NoFormat # RequiredFormat

Programs == {"sampler", "deduplicator", "listDetector", "telemetry"}
NoOutput == [plugin |-> Nothing, items |-> <<>>]

\* --appfs-mountpoint may be left empty; telemetry has no such argument
CommandLines ==
  [program : {"sampler", "deduplicator"}, mount : BOOLEAN, number : Numbers,
   output : {NoOutput}]
    \cup [program : {"listDetector"}, mount : BOOLEAN, number : {1}, output : {NoOutput}]
    \cup [program : {"telemetry"}, mount : {FALSE}, number : {1}, output : Outputs]

VARIABLES
  args,        \* the command line
  pc,          \* where the main thread is
  built,       \* how many objects of Scope it has constructed
  attached,    \* setTelemetryDirectory has put files into the holder
  outcome,     \* "running", or why the objects are destroyed
  stopFlag,    \* g_stopFlag
  template,    \* the format of the bidirectional interface
  ids,         \* the format in which the ids of the fields that are read were looked up
  incoming,    \* the format of a record that waits for changeTemplate
  inputs,      \* history: the formats of the records received
  totalRecords, sampledRecords,  \* of sampler
  handled,     \* history: records processed to the end
  sent,        \* history: records sent on
  reader,      \* the appFs thread: "off", "idle", "open" or "reading"
  file,        \* and its file
  printer,     \* where the ncurses thread is
  mutex,       \* m_mutex of the ncurses plugin
  quit,        \* its m_stopFlag
  shown        \* records received, according to its last print

records == <<template, ids, incoming, inputs, totalRecords, sampledRecords, handled, sent>>
readerVars == <<reader, file>>
printerVars == <<printer, mutex, quit, shown>>
lifeVars == <<built, attached, outcome>>
vars == <<args, pc, lifeVars, stopFlag, records, readerVars, printerVars>>

NoFile == "none"

-----------------------------------------------------------------------------
(* The objects, in the order of their declarations, and what reads them.   *)

SamplerBlock == <<"sampler", "interface", "inputFile", "samplerFile">>

\* with this one the holder is declared before the counters
HolderFirst == <<"interface", "inputFile", "holder", "map">>

\* "map" is the Deduplicator's hash map and counters, "holder" its m_holder
DeduplicatorBlock == <<"interface", "inputFile", "map", "holder">>

\* "holder" is the ListDetector's m_holder, "rules" its RulesMatcher
ListDetectorBlock == <<"parser", "interface", "inputFile", "holder", "rules">>

TelemetryBlock == <<"interface", "inputFile", "plugin">>

\* the objects of main's last try block
Block ==
  CASE args.program = "sampler"      -> SamplerBlock
    [] args.program = "deduplicator" -> DeduplicatorBlock
    [] args.program = "listDetector" -> ListDetectorBlock
    [] args.program = "telemetry"    -> TelemetryBlock

\* appFs is declared in front of that block and outlives it
Scope == IF args.mount THEN <<"fuse">> \o Block ELSE Block

Alive == {Scope[k] : k \in 1..built}
Youngest == IF built = 0 THEN "none" ELSE Scope[built]
BlockIsGone == Alive \subseteq {"fuse"}

\* the files of the telemetry tree: what keeps each, and what its callback reads
Files ==
  CASE args.program = "sampler"      -> {"inputFile", "samplerFile"}
    [] args.program = "deduplicator" -> {"inputFile", "countersFile"}
    [] args.program = "listDetector" -> {"inputFile", "ruleFile"}
    [] args.program = "telemetry"    -> {"inputFile"}
Kept(f) == IF f \in {"countersFile", "ruleFile"}
           THEN attached /\ "holder" \in Alive
           ELSE f \in Alive
Reads(f) == CASE f = "inputFile"    -> "interface"
              [] f = "samplerFile"  -> "sampler"
              [] f = "countersFile" -> "map"
              [] f = "ruleFile"     -> "rules"

\* a file of a holder that is gone has lost its callback
Enabled(f) == f \in {"countersFile", "ruleFile"} => "holder" \in Alive

HasThread == args.output.plugin = "stdout"

Init ==
  /\ args \in CommandLines
  /\ pc = "start"
  /\ built = 0 /\ attached = FALSE /\ outcome = "running"
  /\ stopFlag = FALSE
  /\ template = NoFormat /\ ids = NoFormat /\ incoming = NoFormat
  /\ inputs = <<>> /\ sent = <<>>
  /\ totalRecords = 0 /\ sampledRecords = 0 /\ handled = 0
  /\ reader = "off" /\ file = NoFile
  /\ printer = "none" /\ mutex = "free" /\ quit = FALSE /\ shown = 0

-----------------------------------------------------------------------------
(* main: the command line and the construction of the objects.             *)

\* unirec.init and parse_args; the signal handler is installed before them
Start ==
  /\ pc = "start"
  /\ \/ pc' = "build" /\ UNCHANGED outcome
     \/ pc' = "ended" /\ outcome' = "success"     \* HelpException
     \/ pc' = "report" /\ outcome' = "exception"
  /\ UNCHANGED <<args, built, attached, stopFlag, records, readerVars, printerVars>>

NextObject == Scope[built + 1]

\* these objects, or what is called to make them, get a logger
Logging == {"parser", "rules", "plugin"}

\* a rate, table size or timeout of 0 is refused at the start of the block
IsRefused ==
  /\ args.program \in {"sampler", "deduplicator"}
  /\ args.number = 0
  /\ NextObject = Block[1]

Unwind(why) == pc' = "unwind" /\ outcome' = why

Refuse ==
  /\ pc = "build" /\ built < Len(Scope) /\ IsRefused
  /\ Unwind("refused")
  /\ UNCHANGED <<args, built, attached, stopFlag, records, readerVars, printerVars>>

\* loggerGet: the main thread holds g_loggerGetMutex
GetLogger ==
  /\ pc = "build" /\ built < Len(Scope) /\ NextObject \in Logging
  /\ pc' = "logger"
  /\ UNCHANGED <<args, lifeVars, stopFlag, records, readerVars, printerVars>>

AtConstruction ==
  /\ built < Len(Scope) /\ ~IsRefused
  /\ pc = IF NextObject \in Logging THEN "logger" ELSE "build"

\* appFs and its thread run when start() has returned, the ncurses thread at the
\* end of the plugin's constructor.  RuleBuilder looks up the ids that the list
\* detector's matchers keep.
Construct ==
  /\ AtConstruction
  /\ NextObject = "plugin" => CreatePlugin(args.output)
  /\ built' = built + 1
  /\ pc' = "build"
  /\ reader' = IF NextObject = "fuse" \/ (NextObject = "plugin" /\ ~HasThread)
               THEN "idle" ELSE reader
  /\ printer' = IF NextObject = "plugin" /\ HasThread THEN "print" ELSE printer
  /\ ids' = IF NextObject = "rules" THEN RequiredFormat ELSE ids
  /\ UNCHANGED <<args, attached, outcome, stopFlag, template, incoming, inputs, totalRecords,
                 sampledRecords, handled, sent, file, mutex, quit, shown>>

\* A statement on the way to the next object, or its constructor, throws:
\* mounting, the interface, the required format, the list, the mode, the size of
\* the hash map, the plugin and its parameters.  RulesMatcher's constructor is
\* noexcept.
ConstructThrows ==
  /\ AtConstruction
  /\ NextObject # "sampler"
  /\ IF NextObject = "rules" THEN pc' = "aborted" /\ UNCHANGED outcome
     ELSE Unwind("exception")
  /\ UNCHANGED <<args, built, attached, stopFlag, records, readerVars, printerVars>>

\* the last statements before the loop: setTelemetryDirectory, and of the
\* deduplicator setRequieredFormat and updateUnirecIds, which may throw
Attach ==
  /\ pc = "build" /\ built = Len(Scope)
  /\ attached' = (args.program \in {"deduplicator", "listDetector"})
  /\ ids' = IF args.program = "deduplicator" THEN RequiredFormat ELSE ids
  /\ \/ pc' = "loop" /\ UNCHANGED outcome
     \/ args.program = "deduplicator" /\ Unwind("exception")
  /\ UNCHANGED <<args, built, stopFlag, template, incoming, inputs, totalRecords,
                 sampledRecords, handled, sent, readerVars, printerVars>>

-----------------------------------------------------------------------------
(* main: the record loop.                                                  *)

\* the test of the while statement; the deduplicator's is `true`
Loop ==
  /\ pc = "loop"
  /\ IF stopFlag THEN Unwind("success") ELSE pc' = "receive" /\ UNCHANGED outcome
  /\ UNCHANGED <<args, built, attached, stopFlag, records, readerVars, printerVars>>

\* receive() returns without a record when libtrap's timeout has passed
ReceiveNothing ==
  /\ pc = "receive"
  /\ pc' = "loop"
  /\ UNCHANGED <<args, lifeVars, stopFlag, records, readerVars, printerVars>>

\* a record in the interface's format; one that waited for changeTemplate comes first
ReceiveRecord ==
  /\ pc = "receive" /\ Len(inputs) < MaxRecords
  /\ template # NoFormat /\ incoming \in {NoFormat, template}
  /\ inputs' = Append(inputs, template)
  /\ incoming' = NoFormat
  /\ pc' = "process"
  /\ UNCHANGED <<args, lifeVars, stopFlag, template, ids, totalRecords, sampledRecords,
                 handled, sent, readerVars, printerVars>>

\* FormatChangeException: a record in another format has come and is kept
ReceiveFormat ==
  /\ pc = "receive" /\ Len(inputs) < MaxRecords /\ incoming = NoFormat
  /\ incoming' \in Formats \ {template}
  /\ pc' = "format"
  /\ UNCHANGED <<args, lifeVars, stopFlag, template, ids, inputs, totalRecords,
                 sampledRecords, handled, sent, readerVars, printerVars>>

\* EoFException, or another exception
ReceiveEnds ==
  /\ pc = "receive"
  /\ \E why \in {"success", "exception"} : Unwind(why)
  /\ UNCHANGED <<args, built, attached, stopFlag, records, readerVars, printerVars>>

\* with this one deduplicator's ids are not looked up again
ChangeTemplateOnly ==
  /\ pc = "format"
  /\ template' = incoming
  /\ pc' = "loop"
  /\ UNCHANGED <<args, lifeVars, stopFlag, ids, incoming, inputs, totalRecords,
                 sampledRecords, handled, sent, readerVars, printerVars>>

\* handleFormatChange; updateUnirecIds throws when a field is missing.  The list
\* detector's matchers keep the ids of their construction.
HandleFormatChange ==
  /\ pc = "format"
  /\ \/ /\ template' = incoming
        /\ ids' = IF args.program = "deduplicator" THEN incoming ELSE ids
        /\ pc' = "loop" /\ UNCHANGED outcome
     \/ /\ Unwind("exception")
        /\ UNCHANGED <<template, ids>>
  /\ UNCHANGED <<args, built, attached, stopFlag, incoming, inputs, totalRecords,
                 sampledRecords, handled, sent, readerVars, printerVars>>

\* shouldBeSampled, !isDuplicate and !matches; telemetry sends everything
MayPass ==
  CASE args.program = "sampler"   -> {(totalRecords + 1) % args.number = 0}
    [] args.program = "telemetry" -> {TRUE}
    [] OTHER                      -> BOOLEAN

\* shouldBeSampled counts before anything is sent
CountSample(pass) ==
  IF args.program = "sampler"
  THEN /\ totalRecords' = totalRecords + 1
       /\ sampledRecords' = IF pass THEN sampledRecords + 1 ELSE sampledRecords
  ELSE UNCHANGED <<totalRecords, sampledRecords>>

\* processNextRecord once the record is there
ProcessRecord ==
  /\ pc = "process"
  /\ \E pass \in MayPass :
       /\ CountSample(pass)
       /\ sent' = IF pass
                  THEN Append(sent, [number |-> Len(inputs), sentAs |-> template,
                                     readAs |-> ids])
                  ELSE sent
  /\ handled' = handled + 1
  /\ pc' = "loop"
  /\ UNCHANGED <<args, lifeVars, stopFlag, template, ids, incoming, inputs,
                 readerVars, printerVars>>

\* A field cannot be read, or the record cannot be sent; sampler reads no field.
ProcessThrows ==
  /\ pc = "process"
  /\ args.program = "sampler" => TRUE \in MayPass
  /\ CountSample(TRUE)
  /\ Unwind("exception")
  /\ UNCHANGED <<args, built, attached, stopFlag, template, ids, incoming, inputs,
                 handled, sent, readerVars, printerVars>>

-----------------------------------------------------------------------------
(* main: the end of the block, the report of an exception, the return.     *)

\* objects whose destruction waits for no one
PlainObjects ==
  {"interface", "inputFile", "samplerFile", "sampler", "map", "parser", "rules"}

Destroy ==
  /\ pc = "unwind" /\ ~BlockIsGone
  /\ Youngest \in PlainObjects
  /\ built' = built - 1
  /\ UNCHANGED <<args, pc, attached, outcome, stopFlag, records, readerVars, printerVars>>

\* the holder disables its files: it waits for the lock of one that is being read
DestroyHolder ==
  /\ pc = "unwind" /\ Youngest = "holder"
  /\ ~(reader = "reading" /\ file \in {"countersFile", "ruleFile"})
  /\ built' = built - 1
  /\ UNCHANGED <<args, pc, attached, outcome, stopFlag, records, readerVars, printerVars>>

\* with this one the flag is set without the mutex
SetFlagUnlocked ==
  /\ pc = "unwind" /\ Youngest = "plugin"
  /\ \/ HasThread /\ quit' = TRUE /\ pc' = "notify"
     \/ ~HasThread /\ pc' = "stopFuse" /\ UNCHANGED quit
  /\ UNCHANGED <<args, lifeVars, stopFlag, records, readerVars, printer, mutex, shown>>

\* ~NcursesOutputPlugin takes the mutex; the other plugin stops its appFs
DestroyPlugin ==
  /\ pc = "unwind" /\ Youngest = "plugin"
  /\ \/ HasThread /\ mutex = "free" /\ mutex' = "main" /\ pc' = "setFlag"
     \/ ~HasThread /\ pc' = "stopFuse" /\ UNCHANGED mutex
  /\ UNCHANGED <<args, lifeVars, stopFlag, records, readerVars, printer, quit, shown>>

\* m_stopFlag.store(true), and the guard lets the mutex go
SetFlag ==
  /\ pc = "setFlag"
  /\ quit' = TRUE
  /\ mutex' = "free"
  /\ pc' = "notify"
  /\ UNCHANGED <<args, lifeVars, stopFlag, records, readerVars, printer, shown>>

\* notify_all
Notify ==
  /\ pc = "notify"
  /\ printer' = IF printer = "waiting" THEN "woken" ELSE printer
  /\ pc' = "join"
  /\ UNCHANGED <<args, lifeVars, stopFlag, records, readerVars, mutex, quit, shown>>

\* the thread has ended; ~Ncurces ends the screen
Join ==
  /\ pc = "join" /\ printer = "done"
  /\ built' = built - 1
  /\ pc' = "unwind"
  /\ UNCHANGED <<args, attached, outcome, stopFlag, records, readerVars, printerVars>>

\* with this one a read under way is not waited for
StopFuseAtOnce ==
  /\ pc = "stopFuse"
  /\ built' = built - 1
  /\ pc' = "unwind"
  /\ UNCHANGED <<args, attached, outcome, stopFlag, records, readerVars, printerVars>>

\* appFs's stop: a read under way comes to its end, no other one starts
StopFuse ==
  /\ pc = "stopFuse" /\ reader = "idle"
  /\ reader' = "off"
  /\ built' = built - 1
  /\ pc' = "unwind"
  /\ UNCHANGED <<args, attached, outcome, stopFlag, records, file, printerVars>>

\* the block is gone: an exception is reported, then appFs goes, then main returns
Leave ==
  /\ pc = "unwind" /\ BlockIsGone
  /\ pc' = CASE outcome = "exception" -> "report"
             [] outcome # "exception" /\ built > 0 -> "stopFuse"
             [] OTHER -> "ended"
  /\ UNCHANGED <<args, lifeVars, stopFlag, records, readerVars, printerVars>>

\* logger->error(ex.what()); return EXIT_FAILURE
Report ==
  /\ pc = "report"
  /\ outcome' = "reported"
  /\ pc' = IF built > 0 THEN "stopFuse" ELSE "ended"
  /\ UNCHANGED <<args, built, attached, stopFlag, records, readerVars, printerVars>>

-----------------------------------------------------------------------------
(* telemetry: the ncurses thread, NcursesOutputPlugin::loopThread.         *)

Over == pc \in {"ended", "killed", "aborted"}

\* getInterfaceTelemetry, of which the records received are looked at
InterfaceTelemetry == Len(inputs)

\* printFile: the statistics as they are now; what is thrown here ends the process
PrintFile ==
  /\ printer \in {"print", "final"}
  /\ \/ /\ shown' = InterfaceTelemetry
        /\ printer' = IF printer = "print" THEN "enter" ELSE "done"
        /\ UNCHANGED pc
     \/ pc' = "aborted" /\ UNCHANGED <<printer, shown>>
  /\ UNCHANGED <<args, lifeVars, stopFlag, records, readerVars, mutex, quit>>

\* unique_lock, or the end of the wait: the mutex is taken
Acquire ==
  /\ printer \in {"enter", "woken", "late"}
  /\ mutex = "free" /\ mutex' = "printer"
  /\ printer' = IF printer = "late" THEN "leave" ELSE "check"
  /\ UNCHANGED <<args, pc, lifeVars, stopFlag, records, readerVars, quit, shown>>

\* the predicate of wait_until, with time left
Check ==
  /\ printer = "check"
  /\ printer' = IF quit THEN "leave" ELSE "block"
  /\ UNCHANGED <<args, pc, lifeVars, stopFlag, records, readerVars, mutex, quit, shown>>

\* the thread lets the mutex go and waits, in one step
Wait ==
  /\ printer = "block"
  /\ mutex' = "free" /\ printer' = "waiting"
  /\ UNCHANGED <<args, pc, lifeVars, stopFlag, records, readerVars, quit, shown>>

\* a spurious wake-up, or the time of the next print
WakeUp ==
  /\ printer = "waiting"
  /\ printer' \in {"woken", "late"}
  /\ UNCHANGED <<args, pc, lifeVars, stopFlag, records, readerVars, mutex, quit, shown>>

\* with this one the thread ends without the last print
LeaveAtOnce ==
  /\ printer = "leave"
  /\ mutex' = "free"
  /\ printer' = IF quit THEN "done" ELSE "print"
  /\ UNCHANGED <<args, pc, lifeVars, stopFlag, records, readerVars, quit, shown>>

\* wait_until has returned: the end of the loop, or the next print
LeaveWait ==
  /\ printer = "leave"
  /\ mutex' = "free"
  /\ printer' = IF quit THEN "final" ELSE "print"
  /\ UNCHANGED <<args, pc, lifeVars, stopFlag, records, readerVars, quit, shown>>

-----------------------------------------------------------------------------
(* The appFs thread.                                                       *)

\* a file is looked up and held; nothing is looked up once appFs stops
Open ==
  /\ reader = "idle" /\ pc # "stopFuse"
  /\ \E f \in Files : Kept(f) /\ file' = f
  /\ reader' = "open"
  /\ UNCHANGED <<args, pc, lifeVars, stopFlag, records, printerVars>>

\* the callback starts, unless the file has been disabled in the meantime
BeginRead ==
  /\ reader = "open"
  /\ IF Enabled(file) THEN reader' = "reading" /\ UNCHANGED file
     ELSE reader' = "idle" /\ file' = NoFile
  /\ UNCHANGED <<args, pc, lifeVars, stopFlag, records, printerVars>>

EndRead ==
  /\ reader = "reading"
  /\ reader' = "idle" /\ file' = NoFile
  /\ UNCHANGED <<args, pc, lifeVars, stopFlag, records, printerVars>>

-----------------------------------------------------------------------------
(* SIGINT.                                                                 *)

\* Deduplicator has no handler.  The handlers of the others call loggerGet: run by
\* the main thread while it is in there itself, or writes to the same console,
\* they wait for their own thread, a first SIGINT or a later one.
Interrupt ==
  /\ ~Over /\ pc # "hung"
  /\ \/ args.program = "deduplicator" /\ pc' = "killed" /\ UNCHANGED stopFlag
     \/ args.program # "deduplicator" /\ stopFlag' = TRUE /\ UNCHANGED pc
     \/ /\ args.program # "deduplicator" /\ pc \in {"logger", "report"}
        /\ pc' = "hung" /\ UNCHANGED stopFlag
  /\ UNCHANGED <<args, lifeVars, records, readerVars, printerVars>>

-----------------------------------------------------------------------------
MainStep ==
  \/ Start \/ Refuse \/ GetLogger \/ Construct \/ ConstructThrows \/ Attach
  \/ Loop \/ ReceiveNothing \/ ReceiveRecord \/ ReceiveFormat \/ ReceiveEnds
  \/ HandleFormatChange \/ ProcessRecord \/ ProcessThrows
  \/ Destroy \/ DestroyHolder \/ DestroyPlugin \/ SetFlag \/ Notify \/ Join
  \/ StopFuse \/ Leave \/ Report

PrinterStep == ~Over /\ (PrintFile \/ Acquire \/ Check \/ Wait \/ LeaveWait)

ReadStep == ~Over /\ (BeginRead \/ EndRead)

\* the process is gone, or its main thread waits for itself
Finished == (Over \/ pc = "hung") /\ UNCHANGED vars

Next ==
  \/ MainStep
  \/ PrinterStep \/ (~Over /\ WakeUp)
  \/ ReadStep \/ (~Over /\ Open)
  \/ Interrupt
  \/ Finished

Spec == Init /\ [][Next]_vars

\* Every thread is scheduled, receive() returns in the end, with a record or
\* without, and the main thread takes a lock that becomes free again and again.
\* No reader, timeout or spurious wake-up is relied on.
FairSpec ==
  /\ Spec
  /\ SF_vars(MainStep)
  /\ WF_vars(PrinterStep)
  /\ WF_vars(ReadStep)

-----------------------------------------------------------------------------
\* Every variable has its type, threads run only while the object that joins or
\* stops them exists, and nothing is left when main returns.
TypeOK ==
  /\ args \in CommandLines
  /\ pc \in {"start", "build", "logger", "loop", "receive", "process", "format",
             "unwind", "setFlag", "notify", "join", "stopFuse", "report", "ended",
             "killed", "aborted", "hung"}
  /\ built \in 0..Len(Scope)
  /\ outcome \in {"running", "success", "refused", "exception", "reported"}
  /\ template \in Formats \cup {NoFormat} /\ ids \in Formats \cup {NoFormat, RequiredFormat}
  /\ incoming \in Formats \cup {NoFormat}
  /\ Len(inputs) <= MaxRecords /\ handled \in 0..Len(inputs)
  /\ totalRecords \in 0..Len(inputs) /\ sampledRecords \in 0..totalRecords
  /\ file \in Files \cup {NoFile} /\ (reader \in {"open", "reading"} <=> file # NoFile)
  /\ reader # "off" => Alive \cap {"fuse", "plugin"} # {}
  /\ printer \notin {"none", "done"} => "plugin" \in Alive
  /\ ~Over => (mutex = "main" <=> pc = "setFlag")
  /\ mutex = "printer" <=> printer \in {"check", "block", "leave"}
  /\ pc = "ended" => built = 0 /\ outcome # "running"

\* The files whose callbacks outlive what they read: appFs is stopped only after
\* main's block, and the list detector's holder is destroyed after the rules.
Unprotected ==
  CASE args.program = "sampler"      -> {"inputFile", "samplerFile"}
    [] args.program = "deduplicator" -> {"inputFile"}
    [] args.program = "listDetector" -> {"inputFile", "ruleFile"}
    [] args.program = "telemetry"    -> {}

\* A callback that another thread runs reads an object that still exists,
\* whatever the moment at which main leaves its block: always in telemetry
\* (main.cpp:165), and for the deduplicator's counters (deduplicator.hpp:83).  The
\* files above are the exceptions.
ReadsAreOfLiveObjects ==
  /\ reader = "reading" /\ file \notin Unprotected => Reads(file) \in Alive
  /\ printer \in {"print", "final"} => Reads("inputFile") \in Alive

\* When the ncurses thread has ended, the last thing it printed are the statistics
\* of all records received (ncurses-stdout-plugin.cpp:101): the flag is set after
\* the last record, and is never taken for a timeout.
LastPrintIsFinal == printer = "done" => shown = Len(inputs)

\* SIGINT ends the program once its flag is set, and a program that has begun to
\* destroy its objects ends: neither the mutex, the condition variable, the join
\* nor a file being read keeps the main thread.  Only another SIGINT that finds it
\* in the logger does.
ShutdownEnds ==
  /\ stopFlag ~> pc \in {"ended", "aborted", "hung"}
  /\ pc = "unwind" ~> (Over \/ pc = "hung")

Forwarding == INSTANCE RecordForwarding WITH
  rate <- CASE args.program = "sampler"   -> args.number
            [] args.program = "telemetry" -> 1
            [] OTHER                      -> 0,
  fieldIds <- CASE args.program = "deduplicator" -> "refreshed"
                [] args.program = "listDetector" -> "kept"
                [] OTHER                         -> "none",
  accepted <- SubSeq(inputs, 1, handled)

\* Records are sent on once, in order and in the format they came in, through every
\* change of the format and up to whatever ends the loop; sampler sends exactly
\* every rate-th one.  The deduplicator reads each with the field ids of its own
\* format; the list detector keeps those of the required format, which it looked
\* up when it built its rules (ruleBuilder.cpp:82), whatever format comes.
ImplementsForwarding == Forwarding!Spec
=============================================================================
