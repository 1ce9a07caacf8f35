-------------------------- MODULE ClickhouseConfig --------------------------
(***************************************************************************)
(* parseConfig of the clickhouse module (config.cpp): which YAML documents *)
(* it takes and the Config it makes of them.  A node with names is a       *)
(* record of those it has, a list a sequence.  A scalar is its value, or   *)
(* Malformed when it does not convert to the type that is asked for.       *)
(*                                                                         *)
(* A line of the column list is split at its first space: the word before  *)
(* it, and the name behind it.  A line without a space has no name.        *)
(***************************************************************************)
EXTENDS ColumnTypes

CONSTANT Malformed

Has(node, name) == name \in DOMAIN node
Converts(node, name) == Has(node, name) => node[name] # Malformed
Gives(node, name) == Has(node, name) /\ Converts(node, name)
Optional(node, name, default) == IF Has(node, name) THEN node[name] ELSE default

\* the defaults of Config
DefaultPort == 9000
DefaultInserterThreads == 32
DefaultBlocks == 256
DefaultBlockInsertThreshold == 100000
DefaultMaxBlockInsertDelay == 10

\* an absent list is walked as an empty one
EndpointNodes(document) == Optional(Optional(document, "connection", <<>>), "endpoints", <<>>)

ParseEndpoint(node) == [host |-> node.host, port |-> Optional(node, "port", DefaultPort)]
EndpointParses(node) == Gives(node, "host") /\ Converts(node, "port")

\* parseConnection
ConnectionParses(document) ==
  /\ Has(document, "connection")
  /\ \A name \in {"username", "password", "database", "table"} :
       Gives(document.connection, name)
  /\ \A e \in DOMAIN EndpointNodes(document) : EndpointParses(EndpointNodes(document)[e])

\* a line without a name: the whole line is taken as the word and as the name
NameOf(line) == Optional(line, "name", line.word)

\* templateColumnCsv
Template(lines) == [k \in DOMAIN lines |-> [word |-> lines[k].word, name |-> NameOf(lines[k])]]

\* parseColumns
ColumnsParse(lines) == \A k \in DOMAIN lines : lines[k].word \in Words
ParseColumns(lines) ==
  [k \in DOMAIN lines |->
     [name |-> NameOf(lines[k]), type |-> TypeOfWord(lines[k].word), fieldID |-> 0]]

\* parseConfig returns
ConfigParses(document) ==
  /\ ConnectionParses(document)
  /\ ColumnsParse(document.columns)
  /\ \A name \in {"blocks", "inserterThreads", "blockInsertThreshold",
                  "blockInsertMaxDelaySecs"} : Converts(document, name)

ParseConfig(document) ==
  [endpoints |-> [e \in DOMAIN EndpointNodes(document) |->
                    ParseEndpoint(EndpointNodes(document)[e])],
   columns  |-> ParseColumns(document.columns),
   template |-> Template(document.columns),
   blocks   |-> Optional(document, "blocks", DefaultBlocks),
   inserterThreads         |-> Optional(document, "inserterThreads", DefaultInserterThreads),
   blockInsertThreshold    |-> Optional(document, "blockInsertThreshold",
                                        DefaultBlockInsertThreshold),
   blockInsertMaxDelaySecs |-> Optional(document, "blockInsertMaxDelaySecs",
                                        DefaultMaxBlockInsertDelay)]

=============================================================================
