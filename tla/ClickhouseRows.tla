-------------------------- MODULE ClickhouseRows --------------------------
(***************************************************************************)
(* The data path of the clickhouse module: the configured columns, the     *)
(* template of the input and the field ids taken from it, the columns of a *)
(* block and the table they are sent to, on one of several endpoints.      *)
(*                                                                         *)
(* Module Clickhouse has the many blocks, the many threads and the stop;   *)
(* here one block goes back and forth between the main thread and one      *)
(* inserter, and what is looked at is what the block holds and where it    *)
(* goes.  A value is the pair of a record and the field it was read from.  *)
(***************************************************************************)
EXTENDS ClickhouseConfig, FiniteSets

CONSTANTS
  Documents,      \* YAML documents the module may be started with
  OtherTemplates, \* templates the input may have besides the configured one
  TablesFor(_),   \* the descriptions a table may have under a list of columns
  NoConfig,       \* before the document is parsed
  FieldIds,       \* ids libunirec gives to fields
  MaxRecords      \* bound: records received

IsList(list) == Len(list) \in Nat /\ DOMAIN list = 1..Len(list)

\* config.cpp:140 takes the last character of the column list: it must not be empty
ASSUME DocumentsAssumption == \A d \in Documents :
  /\ d.columns # <<>> /\ IsList(d.columns)
  /\ IsList(EndpointNodes(d))
  /\ Has(d, "blockInsertThreshold") => d.blockInsertThreshold \in Nat \cup {Malformed}
  /\ ConfigParses(d) => ParseConfig(d) # NoConfig
ASSUME TablesAssumption ==
  \A d \in Documents : \A table \in TablesFor(Template(d.columns)) : IsList(table)
ASSUME RowSizesAssumption ==
  /\ MaxRecords \in Nat
  /\ FieldIds \subseteq Nat

NoTable   == <<>>      \* DESCRIBE TABLE fails: the table does not exist

VARIABLES
  document,   \* the YAML file
  config,     \* the Config made of it
  tables,     \* the table's description on each endpoint
  up,         \* which endpoints can be reached
  pc,         \* where the main thread is
  columns,    \* m_columns: name, type, fieldID, hasValue, valueBuffer
  template,   \* the fields of the input: their words, names and ids
  received,   \* number of records received
  holder,     \* who has the block: "main", "queue" or "inserter"
  cells,      \* what each of the block's columns holds
  rows,       \* BlockCtx::rows
  ipc,        \* where the inserter's thread is
  endpoint,   \* the endpoint its client used last, 0 before the first
  connected,  \* and whether that connection still stands
  stored      \* the rows in the table of each endpoint

environment == <<document, tables, up>>
mainVars  == <<config, pc, columns, template, received>>
blockVars == <<holder, cells, rows>>
threadVars == <<ipc, endpoint, connected>>
vars == <<environment, mainVars, blockVars, threadVars, stored>>

\* the endpoints of the document, in its order
Endpoints == DOMAIN EndpointNodes(document)
NumEndpoints == Len(EndpointNodes(document))

NoTemplate == [fields |-> <<>>, ids |-> <<>>]

----------------------------------------------------------------------------
(* Configuration and schema.                                               *)

\* prepareColumns; the field id starts as the type's number
PrepareColumns(list) ==
  [k \in DOMAIN list |->
     [name |-> list[k].name, type |-> list[k].type,
      fieldID |-> Ordinal(list[k].type),
      hasValue |-> FALSE, value |-> NoValue]]

\* Nullable(T) is compared as T
StripNullable(type) ==
  IF Head(type) = "Nullable" THEN Tail(type) ELSE type

\* ensureSchema returns: the table exists and has the configured columns, by
\* position, name and type
EnsureSchema(description) ==
  /\ description # NoTable
  /\ Len(columns) = Len(description)
  /\ \A k \in DOMAIN description :
       /\ columns[k].name = description[k].name
       /\ TypeToClickhouse(columns[k].type) = StripNullable(description[k].type)

\* the endpoint a client connects to after the given one: they are tried in
\* turn, and none is left when all are down
NextEndpoint(last) ==
  LET Nth(k) == ((last + k - 1) % NumEndpoints) + 1
      reached == {k \in Endpoints : up[Nth(k)]}
  IN  IF reached = {} THEN 0
      ELSE Nth(CHOOSE k \in reached : \A l \in reached : k <= l)

----------------------------------------------------------------------------
Init ==
  /\ document \in Documents
  /\ config = NoConfig
  /\ tables \in [Endpoints -> TablesFor(Template(document.columns))]
  /\ up \in [Endpoints -> BOOLEAN]
  /\ pc = "configure"
  /\ columns = <<>>
  /\ template = NoTemplate
  /\ received = 0
  /\ holder = "main"
  /\ cells = <<>>
  /\ rows = 0
  /\ ipc = "created"
  /\ endpoint = 0
  /\ connected = FALSE
  /\ stored = [e \in Endpoints |-> {}]

\* parseConfig, then Manager::Manager: columns, the block's columns, the thread
Configure ==
  /\ pc = "configure"
  /\ IF ~ConfigParses(document)
     THEN pc' = "refused" /\ UNCHANGED <<config, columns, cells, ipc>>
     ELSE LET parsed   == ParseConfig(document)
              prepared == PrepareColumns(parsed.columns)
          IN  /\ config' = parsed
              /\ IF \A k \in DOMAIN prepared : IsUsable(prepared[k].type)
                 THEN /\ columns' = prepared
                      /\ cells' = [k \in DOMAIN prepared |-> <<>>]
                      /\ pc' = "loop"
                      /\ ipc' = "connect"
                 ELSE /\ pc' = "invalidType"
                      /\ UNCHANGED <<columns, cells, ipc>>
  /\ UNCHANGED <<environment, template, received, holder, rows, endpoint,
                 connected, stored>>

----------------------------------------------------------------------------
(* The main thread.                                                        *)

\* updateFieldIDs forgets to take the new ids once it has some
FieldIdsOnce(fields, ids) ==
  IF template # NoTemplate THEN columns
  ELSE [k \in DOMAIN columns |->
          [columns[k] EXCEPT !.fieldID = ids[columns[k].name]]]

\* updateFieldIDs: every column's field id is looked up by its name
FieldIdsByName(fields, ids) ==
  [k \in DOMAIN columns |->
     [columns[k] EXCEPT !.fieldID = ids[columns[k].name]]]

\* the template's string equals the configured one
SameTemplate(fields) == fields = config.template

\* handleFormatChange: the input takes its new template, whose fields have any
\* ids; another template than the configured one ends the program.
\* A block with rows is exported before the ids change.
HandleFormatChange ==
  /\ pc = "loop"
  /\ \E fields \in OtherTemplates \cup {config.template} :
     \E ids \in [{fields[k].name : k \in DOMAIN fields} -> FieldIds] :
       /\ \A m, n \in DOMAIN ids : ids[m] = ids[n] => m = n
       /\ template' = [fields |-> fields, ids |-> ids]
       /\ IF SameTemplate(fields)
          THEN /\ holder' = IF holder = "main" /\ rows > 0 THEN "queue" ELSE holder
               /\ columns' = FieldIdsByName(fields, ids)
               /\ UNCHANGED pc
          ELSE /\ pc' = "failed"
               /\ UNCHANGED <<holder, columns>>
  /\ UNCHANGED <<environment, config, received, cells, rows, threadVars, stored>>

\* the getters: the field with that id in the record, whatever its name.  What
\* they make of its value (an IPv4 address becomes an IPv4-mapped IPv6 one, a
\* time nanoseconds, an array a vector) is left out.
ReadField(record, id) ==
  LET named == {n \in DOMAIN template.ids : template.ids[n] = id}
  IN  IF named = {} THEN <<record, "no field">>
      ELSE <<record, CHOOSE n \in named : TRUE>>

\* the getters ran up to column n
Buffered(record, n) ==
  [k \in DOMAIN columns |->
     IF k > n THEN columns[k]
     ELSE [columns[k] EXCEPT !.value = ReadField(record, columns[k].fieldID),
                             !.hasValue = TRUE]]

\* the columnWriter of every column
Written(filled) ==
  [k \in DOMAIN columns |->
     WriteCell(filled[k].type, filled[k].hasValue, filled[k].value, cells[k])]

\* processRecord: all getters, then all writers, then the block is sent out at
\* the threshold, or earlier when the delay has passed; an inserter's error is
\* rethrown.  libtrap delivers records only in a negotiated format.
ProcessRecord ==
  /\ pc = "loop" /\ template # NoTemplate /\ received < MaxRecords
  /\ holder = "main"
  /\ received' = received + 1
  /\ LET filled == Buffered(received + 1, Len(columns))
     IN  /\ columns' = filled
         /\ cells' = Written(filled)
  /\ rows' = rows + 1
  /\ \/ holder' = "queue"
     \/ rows' < config.blockInsertThreshold /\ holder' = "main"
  /\ pc' = IF ipc = "errored" THEN "failed" ELSE "loop"
  /\ UNCHANGED <<environment, config, template, threadVars, stored>>

\* a getter throws: no writer has run, and the program ends
GetterThrows ==
  /\ pc = "loop" /\ template # NoTemplate /\ received < MaxRecords
  /\ holder = "main"
  /\ received' = received + 1
  /\ \E n \in DOMAIN columns : columns' = Buffered(received + 1, n - 1)
  /\ pc' = "failed"
  /\ UNCHANGED <<environment, config, template, blockVars, threadVars, stored>>

----------------------------------------------------------------------------
(* The inserter thread.                                                    *)

\* the client's constructor; no endpoint can be reached: the exception ends run()
Connect ==
  /\ ipc = "connect"
  /\ LET e == NextEndpoint(endpoint)
     IN  IF e = 0 THEN ipc' = "errored" /\ UNCHANGED <<endpoint, connected>>
         ELSE endpoint' = e /\ connected' = TRUE /\ ipc' = "check"
  /\ UNCHANGED <<environment, mainVars, blockVars, stored>>

\* run()'s ensureSchema: a lost connection, a missing or different table ends run()
Check ==
  /\ ipc = "check"
  /\ ipc' = IF connected /\ EnsureSchema(tables[endpoint]) THEN "get" ELSE "errored"
  /\ UNCHANGED <<environment, mainVars, blockVars, endpoint, connected, stored>>

\* RefreshRowCount: it throws when the block's columns differ in length
Aligned == \A k, l \in DOMAIN cells : Len(cells[k]) = Len(cells[l])

Get ==
  /\ ipc = "get" /\ holder = "queue"
  /\ holder' = "inserter"
  /\ ipc' = IF Aligned THEN "insert" ELSE "errored"
  /\ UNCHANGED <<environment, mainVars, cells, rows, endpoint, connected, stored>>

\* row k of the block
RowOf(k) == [c \in DOMAIN cells |-> cells[c][k]]

Store == stored' = [stored EXCEPT ![endpoint] = @ \cup {RowOf(k) : k \in 1..rows}]

InsertReturns == connected /\ Store /\ ipc' = "clear"

\* The connection is gone, the server refuses the rows, or its answer is lost: then
\* insert() waits a second and needsReconnect is set.
InsertThrows ==
  /\ \/ UNCHANGED stored
     \/ connected /\ Store
  /\ ipc' = "reconnect"

Insert ==
  /\ ipc = "insert"
  /\ InsertReturns \/ InsertThrows
  /\ UNCHANGED <<environment, mainVars, blockVars, endpoint, connected>>

ReconnectUnchecked ==
  /\ ipc = "reconnect"
  /\ LET e == NextEndpoint(endpoint)
     IN  IF e = 0
         THEN connected' = FALSE /\ UNCHANGED <<ipc, endpoint>>
         ELSE endpoint' = e /\ connected' = TRUE /\ ipc' = "insert"
  /\ UNCHANGED <<environment, mainVars, blockVars, stored>>

\* the client starts over at the first endpoint each time
ReconnectToFirst ==
  /\ ipc = "reconnect"
  /\ LET e == NextEndpoint(0)
     IN  IF e = 0
         THEN connected' = FALSE /\ UNCHANGED <<ipc, endpoint>>
         ELSE endpoint' = e /\ connected' = TRUE /\ ipc' = "recheck"
  /\ UNCHANGED <<environment, mainVars, blockVars, stored>>

\* ResetConnectionEndpoint, tried again while no endpoint can be reached
Reconnect ==
  /\ ipc = "reconnect"
  /\ LET e == NextEndpoint(endpoint)
     IN  IF e = 0
         THEN connected' = FALSE /\ UNCHANGED <<ipc, endpoint>>
         ELSE endpoint' = e /\ connected' = TRUE /\ ipc' = "recheck"
  /\ UNCHANGED <<environment, mainVars, blockVars, stored>>

\* insert()'s ensureSchema: a table that does not fit is no end, the loop goes
\* on with the next endpoint
Recheck ==
  /\ ipc = "recheck"
  /\ ipc' = IF connected /\ EnsureSchema(tables[endpoint]) THEN "insert" ELSE "reconnect"
  /\ UNCHANGED <<environment, mainVars, blockVars, endpoint, connected, stored>>

\* the last column keeps its cells
ClearAllButLast ==
  /\ ipc = "clear"
  /\ cells' = [k \in DOMAIN cells |->
                 IF k = Len(cells) /\ k > 1 THEN cells[k] ELSE <<>>]
  /\ rows' = 0
  /\ holder' = "main"
  /\ ipc' = "get"
  /\ UNCHANGED <<environment, mainVars, endpoint, connected, stored>>

\* rows is not reset
ClearKeepsRows ==
  /\ ipc = "clear"
  /\ cells' = [k \in DOMAIN cells |-> <<>>]
  /\ holder' = "main"
  /\ ipc' = "get"
  /\ UNCHANGED <<environment, mainVars, rows, endpoint, connected, stored>>

\* the columns are cleared and the block is given back
Clear ==
  /\ ipc = "clear"
  /\ cells' = [k \in DOMAIN cells |-> <<>>]
  /\ rows' = 0
  /\ holder' = "main"
  /\ ipc' = "get"
  /\ UNCHANGED <<environment, mainVars, endpoint, connected, stored>>

----------------------------------------------------------------------------
(* Endpoints fail and come back; a connection does not survive.            *)

Flip(e) ==
  /\ ipc # "created"
  /\ up' = [up EXCEPT ![e] = ~up[e]]
  /\ connected' = (connected /\ endpoint # e)
  /\ UNCHANGED <<document, tables, mainVars, blockVars, ipc, endpoint, stored>>

Running == pc \notin {"refused", "invalidType", "failed"}

InserterStep ==
  Connect \/ Check \/ Get \/ Insert \/ Reconnect \/ Recheck \/ Clear

\* the process is about to exit: nothing else stops
Finished == ~Running /\ UNCHANGED vars

Next ==
  \/ Configure \/ HandleFormatChange \/ ProcessRecord \/ GetterThrows
  \/ Running /\ InserterStep
  \/ \E e \in Endpoints : Running /\ Flip(e)
  \/ Finished

Spec == Init /\ [][Next]_vars

\* the thread is scheduled; insert() retries once a second without end, and a
\* server that is asked again and again answers in the end
LiveSpec ==
  /\ Spec
  /\ WF_vars(Running /\ InserterStep)
  /\ SF_vars(Running /\ Insert /\ InsertReturns)

----------------------------------------------------------------------------
(* Safety.                                                                 *)

\* Every variable has its type, and the block's columns are those configured.  One
\* row is allowed at every threshold, 0 included.
TypeOK ==
  /\ document \in Documents
  /\ config # NoConfig <=> pc \notin {"configure", "refused"}
  /\ pc \in {"configure", "loop", "refused", "invalidType", "failed"}
  /\ received \in 0..MaxRecords
  /\ holder \in {"main", "queue", "inserter"}
  /\ rows \in Nat /\ (rows > 1 => rows <= config.blockInsertThreshold)
  /\ ipc \in {"created", "connect", "check", "get", "insert", "reconnect",
              "recheck", "clear", "errored"}
  /\ endpoint \in 0..NumEndpoints
  /\ up \in [Endpoints -> BOOLEAN] /\ connected \in BOOLEAN
  /\ DOMAIN cells = DOMAIN columns

\* A type that parseColumns accepts is usable: each of its getter, column and
\* writer finds its case.  The code keeps the types in five separate lists.
AcceptedTypesAreUsable == pc # "invalidType"

\* The columns of a block have one cell for each of its rows, over writing,
\* retried inserts and clearing by the other thread: RefreshRowCount, outside
\* the retry loop, would end the thread on any other block.
RowsStayAligned ==
  /\ \A k \in DOMAIN cells : Len(cells[k]) = rows
  /\ holder # "main" => rows > 0

\* A stored row is one record: each of its cells was read from that record and
\* from the field its column is named for, whatever ids a format change gave.
RowsAreRecords ==
  \A e \in Endpoints : \A row \in stored[e] :
    \E r \in 1..received :
      \A k \in DOMAIN row : row[k] = <<r, columns[k].name>>

\* Rows are stored only where the table fits the columns of the block, up to
\* Nullable: also on the endpoint a lost connection was moved to.
StoredWhereTheTableFits ==
  \A e \in Endpoints : stored[e] # {} =>
    /\ Len(tables[e]) = Len(columns)
    /\ \A k \in DOMAIN columns :
         /\ tables[e][k].name = columns[k].name
         /\ StripNullable(tables[e][k].type)
              = StripNullable(MakeColumn(columns[k].type))

----------------------------------------------------------------------------
(* Liveness.                                                               *)

AnyEndpoint == UNION {DOMAIN EndpointNodes(d) : d \in Documents}

\* While an endpoint whose table fits stays up, a block the inserter has taken
\* is stored in the end: retries move on past endpoints that are down, that
\* fail again and again, that refuse the rows, or whose table does not fit.
FittingEndpointIsFound ==
  \A e \in AnyEndpoint :
    <>[](e \in Endpoints /\ up[e] /\ EnsureSchema(tables[e])) =>
      (ipc = "insert" ~> (ipc = "clear" \/ ~Running))
=============================================================================
