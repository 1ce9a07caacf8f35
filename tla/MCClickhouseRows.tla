------------------------- MODULE MCClickhouseRows -------------------------
(***************************************************************************)
(* Values for checking ClickhouseRows: every column type by itself, two    *)
(* lists of two columns (one where the array comes last), and a word that  *)
(* is no type or stands there without a name.  The other parts of the      *)
(* document are left out one by one.  Each of two endpoints has the table  *)
(* that fits, with or without Nullable, one of the tables that nearly fit, *)
(* or none.                                                                *)
(***************************************************************************)
EXTENDS ClickhouseRows

Col(word, name) == [word |-> word, name |-> name]
Two == <<Col("uint8", "A"), Col("ipaddr*", "B")>>

Singles == {<<Col(w, "A")>> : w \in Words \cup {"uint7"}}
Pairs == {Two, <<Col("macaddr", "B"), Col("time", "A")>>}

Host(port) == [host |-> "server", port |-> port]
To(endpoints) ==
  [endpoints |-> endpoints,
   username |-> "u", password |-> "p", database |-> "d", table |-> "t"]
Document(connection, list) ==
  [connection |-> connection, columns |-> list, blockInsertThreshold |-> 2]

Without(node, name) == [n \in DOMAIN node \ {name} |-> node[n]]

Nameless == <<[word |-> "uint8"]>>
Plain == Document(To(<<Host(1)>>), Nameless)

\* Two columns and two endpoints; every type and one endpoint; a line without a
\* name, no threshold, no endpoint; and documents that are refused.
MCDocuments ==
  {Document(To(<<Host(1), Host(2)>>), list) : list \in Pairs}
    \cup {Document(To(<<[host |-> "server"]>>), list) : list \in Singles}
    \cup {Plain, Without(Plain, "blockInsertThreshold"), Without(Plain, "connection"),
          [Plain EXCEPT !.blockInsertThreshold = Malformed],
          [Plain EXCEPT !.connection.endpoints = <<[port |-> 1]>>],
          [Plain EXCEPT !.connection.endpoints = <<Host(Malformed)>>],
          [Plain EXCEPT !.connection.endpoints = <<[host |-> Malformed]>>],
          [Plain EXCEPT !.connection.password = Malformed],
          [Plain EXCEPT !.connection = Without(@, "endpoints")],
          [Plain EXCEPT !.connection = Without(@, "table")]}

\* the same fields in the other order, or with another type
MCTemplates == {<<Two[2], Two[1]>>, <<Two[1], Col("uint16", "B")>>}

Described(name, type) == [name |-> name, type |-> type]

Fitting(list) ==
  [k \in DOMAIN list |->
     Described(list[k].name, TypeToClickhouse(TypeOfWord(list[k].word)))]

\* ClickHouse has no Nullable arrays
Nullable(table) ==
  [k \in DOMAIN table |->
     IF Head(table[k].type) = "Array" THEN table[k]
     ELSE Described(table[k].name, <<"Nullable">> \o table[k].type)]

\* the table with another last column
LastIs(table, column) == [table EXCEPT ![Len(table)] = column]

MCTablesFor(list) ==
  IF \E k \in DOMAIN list : list[k].word \notin Words THEN {NoTable}
  ELSE LET table == Fitting(list)
           last  == table[Len(table)]
       IN  {table, Nullable(table)}
             \cup (IF Len(list) = 1 THEN {}
                   ELSE {NoTable, Append(table, last), SubSeq(table, 1, 1),
                         LastIs(table, Described("Z", last.type)),
                         LastIs(table, Described(last.name, <<"Decimal">>))})
=============================================================================
