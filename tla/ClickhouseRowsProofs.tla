------------------------ MODULE ClickhouseRowsProofs ------------------------
(***************************************************************************)
(* Proofs about ClickhouseRows, for every list of documents, tables,       *)
(* templates and field ids, and any number of records.                     *)
(***************************************************************************)
EXTENDS ClickhouseRows, SequenceTheorems, WellFoundedInduction, TLAPS

----------------------------------------------------------------------------
(* The five lists of types agree.                                          *)

\* The first sixteen types of the enumeration have a case of visitArr, the others
\* one of visitNonArr, and INT8 is the first of these.
LEMMA EnumIsSplit ==
  /\ DOMAIN EnumOrder = 1..30
  /\ \A k \in 1..16 : EnumOrder[k] \in VisitArr
  /\ \A k \in 17..30 : EnumOrder[k] \in VisitNonArr
  /\ \A k \in 1..30 : EnumOrder[k] = "INT8" <=> k = 17
  /\ ColumnType \subseteq Visit
<1>1. DOMAIN EnumOrder = 1..30
  BY DEF EnumOrder
<1>2. \A k \in 1..16 : EnumOrder[k] \in VisitArr /\ EnumOrder[k] # "INT8"
  BY DEF EnumOrder, VisitArr
<1>3. \A k \in 17..30 : EnumOrder[k] \in VisitNonArr /\ (EnumOrder[k] = "INT8" <=> k = 17)
  BY DEF EnumOrder, VisitNonArr
<1>4. \A k \in 1..30 : k \in 1..16 \/ k \in 17..30
  OBVIOUS
<1>5. VisitArr \cup VisitNonArr \subseteq Visit
  BY DEF VisitArr, VisitNonArr, Visit
<1>6. ColumnType \subseteq Visit
  BY <1>1, <1>2, <1>3, <1>4, <1>5 DEF ColumnType
<1>7. \A k \in 1..30 : EnumOrder[k] = "INT8" <=> k = 17
  <2> SUFFICES ASSUME NEW k \in 1..30
               PROVE  EnumOrder[k] = "INT8" <=> k = 17
    OBVIOUS
  <2>1. CASE k \in 1..16
    BY <1>2, <2>1
  <2>2. CASE k \in 17..30
    BY <1>3, <2>2
  <2> QED
    BY <1>4, <2>1, <2>2
<1> QED
  BY <1>1, <1>2, <1>3, <1>6, <1>7

\* isArr tells the types of the two visitors apart.
LEMMA ArraysAreBeforeInt8 ==
  ASSUME NEW type \in ColumnType
  PROVE  type \in IF IsArr(type) THEN VisitArr ELSE VisitNonArr
<1> DEFINE at == CHOOSE k \in DOMAIN EnumOrder : EnumOrder[k] = type
           first == CHOOSE k \in DOMAIN EnumOrder : EnumOrder[k] = "INT8"
<1>1. \E k \in DOMAIN EnumOrder : EnumOrder[k] = type
  BY DEF ColumnType
<1>2. at \in 1..30 /\ EnumOrder[at] = type
  BY <1>1, EnumIsSplit
<1>3. first = 17
  BY EnumIsSplit
<1>4. IsArr(type) <=> at - 1 < first - 1
  BY DEF IsArr, Ordinal
<1> HIDE DEF at, first
<1>5. CASE IsArr(type)
  <2>1. at \in 1..16
    BY <1>2, <1>3, <1>4, <1>5
  <2> QED
    BY <1>2, <1>5, <2>1, EnumIsSplit
<1>6. CASE ~IsArr(type)
  <2>1. at \in 17..30
    BY <1>2, <1>3, <1>4, <1>6
  <2> QED
    BY <1>2, <1>6, <2>1, EnumIsSplit
<1> QED
  BY <1>5, <1>6

\* Every word of a template stands for a type of the enumeration.
LEMMA WordsHaveTypes ==
  ASSUME NEW word \in Words
  PROVE  TypeOfWord(word) \in ColumnType
<1>1. \A pair \in WordsOfTypes : pair[2] \in {EnumOrder[k] : k \in 1..30}
  BY DEF WordsOfTypes, EnumOrder
<1>2. PICK pair \in WordsOfTypes : pair[1] = word
  BY DEF Words
<1>3. (CHOOSE p \in WordsOfTypes : p[1] = word) \in WordsOfTypes
  BY <1>2
<1> QED
  BY <1>1, <1>3, EnumIsSplit DEF TypeOfWord, ColumnType

\* makeGetter, makeColumn and makeColumnwriter find a case for every word.
LEMMA WordsAreUsable ==
  ASSUME NEW word \in Words
  PROVE  IsUsable(TypeOfWord(word))
BY WordsHaveTypes, ArraysAreBeforeInt8, EnumIsSplit DEF IsUsable
\* A column's class is the type that the table must have, and only an array's has
\* no Nullable around it.
LEMMA TraitsAgree ==
  /\ \A type \in VisitArr : /\ Traits(type).class = Traits(type).name
                            /\ Head(Traits(type).class) = "Array"
  /\ \A type \in VisitNonArr : \E name : /\ Traits(type).class = <<name>>
                                         /\ Traits(type).name = <<name>>
<1> DEFINE Arr == {"UINT8_ARR", "UINT16_ARR", "UINT32_ARR", "UINT64_ARR", "INT8_ARR", "INT16_ARR",
                   "INT32_ARR", "INT64_ARR", "CHAR_ARR"}
           NonArr == {"UINT8", "UINT16", "UINT32", "UINT64", "INT8", "INT16",
                      "INT32", "INT64", "CHAR"}
           OtherArr == {"FLOAT_ARR", "DOUBLE_ARR", "IPADDR_ARR", "MACADDR", "MACADDR_ARR",
                        "TIME_ARR", "BYTES"}
           OtherNonArr == {"FLOAT", "DOUBLE", "IPADDR", "TIME", "STRING"}
<1>1. DOMAIN IntegerTraits = Arr \cup NonArr
  BY DEF IntegerTraits
<1>2. /\ VisitArr = Arr \cup OtherArr /\ OtherArr \cap (Arr \cup NonArr) = {}
      /\ VisitNonArr = NonArr \cup OtherNonArr /\ OtherNonArr \cap (Arr \cup NonArr) = {}
  BY DEF VisitArr, VisitNonArr
<1>3. \A type \in Arr : /\ IntegerTraits[type].class = IntegerTraits[type].name
                        /\ Head(IntegerTraits[type].class) = "Array"
  <2>1. /\ IntegerTraits.UINT8_ARR = [class |-> <<"Array", "UInt8">>, name |-> <<"Array", "UInt8">>]
        /\ IntegerTraits.UINT16_ARR = [class |-> <<"Array", "UInt16">>, name |-> <<"Array", "UInt16">>]
        /\ IntegerTraits.UINT32_ARR = [class |-> <<"Array", "UInt32">>, name |-> <<"Array", "UInt32">>]
        /\ IntegerTraits.UINT64_ARR = [class |-> <<"Array", "UInt64">>, name |-> <<"Array", "UInt64">>]
        /\ IntegerTraits.INT8_ARR = [class |-> <<"Array", "Int8">>, name |-> <<"Array", "Int8">>]
        /\ IntegerTraits.INT16_ARR = [class |-> <<"Array", "Int16">>, name |-> <<"Array", "Int16">>]
        /\ IntegerTraits.INT32_ARR = [class |-> <<"Array", "Int32">>, name |-> <<"Array", "Int32">>]
        /\ IntegerTraits.INT64_ARR = [class |-> <<"Array", "Int64">>, name |-> <<"Array", "Int64">>]
        /\ IntegerTraits.CHAR_ARR = [class |-> <<"Array", "UInt8">>, name |-> <<"Array", "UInt8">>]
    BY DEF IntegerTraits
  <2> QED
    BY <2>1
<1>4. \A type \in NonArr : \E name : /\ IntegerTraits[type].class = <<name>>
                                     /\ IntegerTraits[type].name = <<name>>
  <2>1. /\ IntegerTraits.UINT8 = [class |-> <<"UInt8">>, name |-> <<"UInt8">>]
        /\ IntegerTraits.UINT16 = [class |-> <<"UInt16">>, name |-> <<"UInt16">>]
        /\ IntegerTraits.UINT32 = [class |-> <<"UInt32">>, name |-> <<"UInt32">>]
        /\ IntegerTraits.UINT64 = [class |-> <<"UInt64">>, name |-> <<"UInt64">>]
        /\ IntegerTraits.INT8 = [class |-> <<"Int8">>, name |-> <<"Int8">>]
        /\ IntegerTraits.INT16 = [class |-> <<"Int16">>, name |-> <<"Int16">>]
        /\ IntegerTraits.INT32 = [class |-> <<"Int32">>, name |-> <<"Int32">>]
        /\ IntegerTraits.INT64 = [class |-> <<"Int64">>, name |-> <<"Int64">>]
        /\ IntegerTraits.CHAR = [class |-> <<"UInt8">>, name |-> <<"UInt8">>]
    BY DEF IntegerTraits
  <2> QED
    BY <2>1
<1>5. \A type \in OtherArr : /\ OtherTraits[type].class = OtherTraits[type].name
                             /\ Head(OtherTraits[type].class) = "Array"
  BY DEF OtherTraits
<1>6. \A type \in OtherNonArr : \E name : /\ OtherTraits[type].class = <<name>>
                                          /\ OtherTraits[type].name = <<name>>
  BY DEF OtherTraits
<1> HIDE DEF Arr, NonArr, OtherArr, OtherNonArr
<1> QED
  BY <1>1, <1>2, <1>3, <1>4, <1>5, <1>6 DEF Traits

\* Two sequences of one element joined.
LEMMA SingletonsJoin ==
  ASSUME NEW a, NEW b
  PROVE  <<a>> \o <<b>> = <<a, b>>
<1> DEFINE S == {a, b}
           first == <<a>>
           second == <<b>>
           both == <<a, b>>
<1>1. /\ first \in Seq(S) /\ second \in Seq(S) /\ both \in Seq(S)
      /\ Len(first) = 1 /\ Len(second) = 1 /\ Len(both) = 2
      /\ first[1] = a /\ second[1] = b /\ both[1] = a /\ both[2] = b
  OBVIOUS
<1> HIDE DEF S, first, second, both
<1>2. /\ first \o second \in Seq(S)
      /\ Len(first \o second) = 2
      /\ \A i \in 1..2 : (first \o second)[i] = both[i]
  BY <1>1, ConcatProperties
<1>3. first \o second = both
  BY <1>1, <1>2, SeqEqual
<1> QED
  BY <1>3 DEF first, second, both

\* What ensureSchema compares is the type of the block's column without Nullable.
LEMMA ColumnWithoutNullable ==
  ASSUME NEW type \in ColumnType
  PROVE  StripNullable(MakeColumn(type)) = TypeToClickhouse(type)
<1>1. CASE IsArr(type)
  <2>1. type \in VisitArr
    BY <1>1, ArraysAreBeforeInt8
  <2>2. MakeColumn(type) = Traits(type).class
    BY <1>1 DEF MakeColumn
  <2>3. /\ Traits(type).class = Traits(type).name
        /\ Head(Traits(type).class) = "Array"
    BY <2>1, TraitsAgree
  <2> QED
    BY <2>2, <2>3 DEF StripNullable, TypeToClickhouse
<1>2. CASE ~IsArr(type)
  <2>1. type \in VisitNonArr
    BY <1>2, ArraysAreBeforeInt8
  <2>2. PICK name : Traits(type).class = <<name>> /\ Traits(type).name = <<name>>
    BY <2>1, TraitsAgree
  <2>3. MakeColumn(type) = <<"Nullable">> \o <<name>>
    BY <1>2, <2>2 DEF MakeColumn
  <2>4. <<"Nullable">> \o <<name>> = <<"Nullable", name>>
    BY SingletonsJoin
  <2>5. Head(<<"Nullable", name>>) = "Nullable" /\ Tail(<<"Nullable", name>>) = <<name>>
    OBVIOUS
  <2> QED
    BY <2>2, <2>3, <2>4, <2>5 DEF StripNullable, TypeToClickhouse
<1> QED
  BY <1>1, <1>2

----------------------------------------------------------------------------
(* The columns.                                                            *)

\* the document has been parsed, and its columns prepared
Prepared == pc \in {"loop", "failed"}

ColumnParts == {"name", "type", "fieldID", "hasValue", "value"}

\* column k has the name and the type that the document gives it
ColumnIsConfigured(k) ==
  /\ DOMAIN columns[k] = ColumnParts
  /\ columns[k].name = NameOf(document.columns[k])
  /\ columns[k].type = TypeOfWord(document.columns[k].word)

\* The columns are those of the document; before it is parsed there are none, and
\* nothing has happened.
ColumnInv ==
  /\ document \in Documents
  /\ pc \in {"configure", "loop", "refused", "failed"}
  /\ pc \in {"configure", "refused"} <=> config = NoConfig
  /\ Prepared => /\ ConfigParses(document) /\ config = ParseConfig(document)
                 /\ DOMAIN columns = DOMAIN document.columns
                 /\ Len(columns) = Len(document.columns)
                 /\ \A k \in DOMAIN columns : ColumnIsConfigured(k)
  /\ ~Prepared => columns = <<>>

\* nothing has happened before the document is parsed
StartInv ==
  ~Prepared => /\ template = NoTemplate /\ ipc = "created"
               /\ cells = <<>> /\ rows = 0 /\ holder = "main"
               /\ stored = [e \in Endpoints |-> {}]

\* a function on the indices of a list has the list's length
LEMMA SameLength ==
  ASSUME NEW n \in Nat, NEW f, NEW S, f \in [1..n -> S]
  PROVE  Len(f) = n
OBVIOUS

\* the columns that prepareColumns makes of the document
LEMMA PreparedColumns ==
  ASSUME document \in Documents, ConfigParses(document),
         columns' = PrepareColumns(ParseConfig(document).columns), UNCHANGED document
  PROVE  /\ DOMAIN columns' = DOMAIN document.columns
         /\ Len(columns') = Len(document.columns)
         /\ \A k \in DOMAIN columns' : ColumnIsConfigured(k)'
<1> DEFINE list == document.columns
           Col(k) == [name |-> NameOf(list[k]), type |-> TypeOfWord(list[k].word),
                      fieldID |-> Ordinal(TypeOfWord(list[k].word)),
                      hasValue |-> FALSE, value |-> NoValue]
<1>1. columns' = [k \in DOMAIN list |-> Col(k)]
  BY DEF PrepareColumns, ParseConfig, ParseColumns
<1>2. Len(list) \in Nat /\ DOMAIN list = 1..Len(list)
  BY DocumentsAssumption DEF IsList
<1>3. columns' \in [1..Len(list) -> {Col(k) : k \in 1..Len(list)}]
  BY <1>1, <1>2
<1>4. Len(columns') = Len(list)
  BY <1>2, <1>3, SameLength
<1>5. \A k \in DOMAIN columns' : ColumnIsConfigured(k)'
  BY <1>1 DEF ColumnIsConfigured, ColumnParts
<1> QED
  BY <1>1, <1>4, <1>5

\* A step that changes at most the ids and the values of columns keeps the rest.
LEMMA ColumnsFrame ==
  ASSUME ColumnInv, UNCHANGED <<document, config>>, Prepared, pc' \in {"loop", "failed"},
         DOMAIN columns' = DOMAIN columns, Len(columns') = Len(columns),
         \A k \in DOMAIN columns :
           /\ DOMAIN columns'[k] = DOMAIN columns[k]
           /\ columns'[k].name = columns[k].name
           /\ columns'[k].type = columns[k].type
  PROVE  ColumnInv'
<1>1. \A k \in DOMAIN columns : ColumnIsConfigured(k) => ColumnIsConfigured(k)'
  BY DEF ColumnIsConfigured
<1>2. \A k \in DOMAIN columns' : ColumnIsConfigured(k)'
  BY <1>1 DEF ColumnInv
<1> QED
  BY <1>2 DEF ColumnInv, Prepared

----------------------------------------------------------------------------
(* The block, the thread and the tables.                                   *)

Threshold == config.blockInsertThreshold

\* Where the block is, and how full: only what is sent out may reach the threshold.
BlockInv ==
  /\ received \in 0..MaxRecords
  /\ holder \in {"main", "queue", "inserter"}
  /\ rows \in Nat
  /\ rows > 1 => rows <= Threshold
  /\ holder = "main" /\ rows > 0 => rows < Threshold
  /\ holder # "main" => rows > 0

\* Where the inserter's thread is, and that it has an endpoint.
ThreadInv ==
  /\ ipc \in {"created", "connect", "check", "get", "insert", "reconnect",
              "recheck", "clear", "errored"}
  /\ ipc \in {"insert", "reconnect", "recheck", "clear"} => holder = "inserter"
  /\ endpoint \in 0..NumEndpoints
  /\ ipc \in {"check", "get", "insert", "reconnect", "recheck", "clear"} => endpoint \in Endpoints
  /\ up \in [Endpoints -> BOOLEAN]
  /\ connected \in BOOLEAN

\* Every column has the id of the field with its name, and no two fields have one id.
IdsInv ==
  pc = "loop" /\ template # NoTemplate =>
    /\ \A k \in DOMAIN columns :
         /\ columns[k].name \in DOMAIN template.ids
         /\ columns[k].fieldID = template.ids[columns[k].name]
    /\ \A m, n \in DOMAIN template.ids : template.ids[m] = template.ids[n] => m = n

\* the names and the types that the document gives the columns
Names == [k \in DOMAIN document.columns |-> NameOf(document.columns[k])]
Types == [k \in DOMAIN document.columns |-> TypeOfWord(document.columns[k].word)]

\* what a cell holds: a record and the name of a column
CellValues == (1..MaxRecords) \X {Names[k] : k \in DOMAIN Names}

\* One record made each row of the block.
CellInv ==
  Prepared =>
    /\ DOMAIN cells = DOMAIN Names
    /\ \A k \in DOMAIN Names : cells[k] \in Seq(CellValues) /\ Len(cells[k]) = rows
    /\ \A i \in 1..rows : \E r \in 1..received :
         \A k \in DOMAIN Names : cells[k][i] = <<r, Names[k]>>

\* a row of columns with these names, and the record it was made of
IsRowOf(row, r, names) ==
  /\ DOMAIN row = DOMAIN names
  /\ \A k \in DOMAIN names : row[k] = <<r, names[k]>>

\* what ensureSchema looks for, in terms of the document
TableFits(table, names, types) ==
  /\ table # NoTable
  /\ Len(names) = Len(table)
  /\ \A k \in DOMAIN table :
       /\ names[k] = table[k].name
       /\ TypeToClickhouse(types[k]) = StripNullable(table[k].type)

\* The thread has looked at the table of its endpoint before it takes or inserts a
\* block, and whatever has rows was such a table.
TableInv ==
  /\ tables \in [Endpoints -> TablesFor(Template(document.columns))]
  /\ ipc \in {"get", "insert", "clear"} => TableFits(tables[endpoint], Names, Types)
  /\ DOMAIN stored = Endpoints
  /\ \A e \in Endpoints : stored[e] # {} => TableFits(tables[e], Names, Types)
  /\ \A e \in Endpoints : \A row \in stored[e] :
       \E r \in 1..received : IsRowOf(row, r, Names)

\* The inductive invariant.
RowsInv == ColumnInv /\ StartInv /\ BlockInv /\ ThreadInv /\ IdsInv /\ CellInv /\ TableInv
\* A client goes on with an endpoint of the document, or with none.
LEMMA NextEndpointIsOne ==
  ASSUME document \in Documents, NEW last \in Nat
  PROVE  /\ NextEndpoint(last) \in 0..NumEndpoints
         /\ NextEndpoint(last) # 0 => NextEndpoint(last) \in Endpoints
<1> DEFINE Nth(k) == ((last + k - 1) % NumEndpoints) + 1
           reached == {k \in Endpoints : up[Nth(k)]}
           first == CHOOSE k \in reached : \A l \in reached : k <= l
           R == OpToRel(<, Nat)
<1>1. NumEndpoints \in Nat /\ Endpoints = 1..NumEndpoints
  BY DocumentsAssumption DEF NumEndpoints, Endpoints, IsList
<1>2. NextEndpoint(last) = IF reached = {} THEN 0 ELSE Nth(first)
  BY DEF NextEndpoint
<1>3. reached \subseteq Nat
  BY <1>1
<1>4. IsWellFoundedOn(R, Nat)
  BY NatLessThanWellFounded, Zenon
<1>5. \A m, n \in Nat : m < n => <<m, n>> \in R
  BY DEF OpToRel
<1> HIDE DEF R
<1>6. ASSUME reached # {}
      PROVE  first \in reached
  <2>1. PICK k \in reached : \A l \in reached : ~(<<l, k>> \in R)
    BY <1>3, <1>4, <1>6, WFMin, Zenon
  <2>2. \A l \in reached : k <= l
    <3> SUFFICES ASSUME NEW l \in reached
                 PROVE  k <= l
      OBVIOUS
    <3>1. k \in Nat /\ l \in Nat
      BY <1>3
    <3>2. <<l, k>> \notin R
      BY <2>1
    <3>3. ~(l < k)
      BY <1>5, <3>1, <3>2
    <3> QED
      BY <3>1, <3>3
  <2> QED
    BY <2>2
<1>7. ASSUME reached # {}
      PROVE  Nth(first) \in 1..NumEndpoints
  <2>1. first \in 1..NumEndpoints
    BY <1>1, <1>6, <1>7
  <2> HIDE DEF first, reached
  <2>2. NumEndpoints \in Nat \ {0} /\ last + first - 1 \in Nat
    BY <1>1, <2>1
  <2>3. ((last + first - 1) % NumEndpoints) \in 0..(NumEndpoints - 1)
    BY <2>2
  <2> QED
    BY <2>2, <2>3
<1> HIDE DEF Nth, reached, first
<1> QED
  BY <1>1, <1>2, <1>7

\* ensureSchema compares with the names and the types of the document.
LEMMA EnsureIsFits ==
  ASSUME ColumnInv, Prepared, NEW table, IsList(table)
  PROVE  EnsureSchema(table) <=> TableFits(table, Names, Types)
<1>1. Len(document.columns) \in Nat /\ DOMAIN document.columns = 1..Len(document.columns)
  BY DocumentsAssumption DEF ColumnInv, IsList
<1>2. /\ DOMAIN columns = 1..Len(document.columns) /\ Len(columns) = Len(document.columns)
      /\ \A k \in DOMAIN columns : columns[k].name = Names[k] /\ columns[k].type = Types[k]
  BY <1>1 DEF ColumnInv, ColumnIsConfigured, Names, Types
<1>3. Names \in [1..Len(document.columns) -> {Names[k] : k \in 1..Len(document.columns)}]
  BY <1>1 DEF Names
<1>4. Len(Names) = Len(columns)
  BY <1>1, <1>2, <1>3, SameLength
<1>5. Len(table) = Len(columns) => DOMAIN table = DOMAIN columns
  BY <1>1, <1>2 DEF IsList
<1> QED
  BY <1>2, <1>4, <1>5 DEF EnsureSchema, TableFits

\* What a step changes of the names and the types.
LEMMA NamesKept ==
  ASSUME UNCHANGED document
  PROVE  /\ Names' = Names /\ Types' = Types /\ CellValues' = CellValues
         /\ Endpoints' = Endpoints /\ NumEndpoints' = NumEndpoints
BY DEF Names, Types, CellValues, Endpoints, NumEndpoints

\* A column that takes a value keeps the rest; the id it is read by gives its field.
LEMMA BufferedColumns ==
  ASSUME NEW record, NEW n, \A k \in DOMAIN columns : DOMAIN columns[k] = ColumnParts
  PROVE  /\ DOMAIN Buffered(record, n) = DOMAIN columns
         /\ \A k \in DOMAIN columns :
              /\ DOMAIN Buffered(record, n)[k] = ColumnParts
              /\ Buffered(record, n)[k].name = columns[k].name
              /\ Buffered(record, n)[k].type = columns[k].type
              /\ Buffered(record, n)[k].fieldID = columns[k].fieldID
BY DEF Buffered, ColumnParts

----------------------------------------------------------------------------
(* The steps.                                                              *)

\* parseConfig refuses the document, or the columns are made: none is invalid.
LEMMA ConfigureColumns ==
  ASSUME ColumnInv, Configure
  PROVE  /\ ~Prepared
         /\ \/ /\ pc' = "refused"
               /\ UNCHANGED <<config, columns, cells, ipc>>
            \/ /\ ConfigParses(document) /\ config' = ParseConfig(document)
               /\ columns' = PrepareColumns(ParseConfig(document).columns)
               /\ cells' = [k \in DOMAIN document.columns |-> <<>>]
               /\ pc' = "loop" /\ ipc' = "connect"
<1> DEFINE parsed == ParseConfig(document)
           prepared == PrepareColumns(parsed.columns)
           list == document.columns
<1>1. ~Prepared
  BY DEF Configure, Prepared
<1>2. CASE ~ConfigParses(document)
  BY <1>1, <1>2 DEF Configure
<1>3. CASE ConfigParses(document)
  <2>1. parsed.columns = ParseColumns(list)
    BY DEF ParseConfig
  <2>2. /\ DOMAIN prepared = DOMAIN list
        /\ \A k \in DOMAIN list : prepared[k].type = TypeOfWord(list[k].word)
    BY <2>1 DEF PrepareColumns, ParseColumns
  <2>3. \A k \in DOMAIN list : list[k].word \in Words
    BY <1>3 DEF ConfigParses, ColumnsParse
  <2>4. \A k \in DOMAIN prepared : IsUsable(prepared[k].type)
    BY <2>2, <2>3, WordsAreUsable
  <2>5. /\ config' = parsed
        /\ IF \A k \in DOMAIN prepared : IsUsable(prepared[k].type)
           THEN /\ columns' = prepared
                /\ cells' = [k \in DOMAIN prepared |-> <<>>]
                /\ pc' = "loop"
                /\ ipc' = "connect"
           ELSE /\ pc' = "invalidType"
                /\ UNCHANGED <<columns, cells, ipc>>
    BY <1>3, Zenon DEF Configure
  <2> HIDE DEF prepared, parsed
  <2>6. config' = parsed /\ columns' = prepared /\ pc' = "loop" /\ ipc' = "connect"
        /\ cells' = [k \in DOMAIN prepared |-> <<>>]
    BY <2>4, <2>5
  <2> QED
    BY <1>1, <1>3, <2>2, <2>6 DEF parsed, prepared
<1> QED
  BY <1>2, <1>3

\* Every other step takes place after the document was parsed, or changes nothing.
LEMMA OtherSteps ==
  ASSUME ColumnInv, StartInv, [Next]_vars, ~Configure
  PROVE  \/ UNCHANGED vars
         \/ /\ Prepared /\ Prepared' /\ UNCHANGED <<document, tables, config>>
            /\ \/ HandleFormatChange \/ ProcessRecord \/ GetterThrows \/ InserterStep
               \/ \E e \in Endpoints : Flip(e)
<1>1. CASE UNCHANGED vars
  BY <1>1
<1>2. CASE HandleFormatChange
  BY <1>2 DEF HandleFormatChange, Prepared, environment
<1>3. CASE ProcessRecord
  BY <1>3 DEF ProcessRecord, Prepared, environment
<1>4. CASE GetterThrows
  BY <1>4 DEF GetterThrows, Prepared, environment
<1>5. CASE InserterStep
  <2>1. ipc # "created" /\ UNCHANGED <<document, tables, config, pc>>
    BY <1>5 DEF InserterStep, Connect, Check, Get, Insert, Reconnect, Recheck, Clear,
                environment, mainVars
  <2> QED
    BY <1>5, <2>1 DEF StartInv, Prepared
<1>6. CASE \E e \in Endpoints : Flip(e)
  <2>1. ipc # "created" /\ UNCHANGED <<document, tables, config, pc>>
    BY <1>6 DEF Flip, mainVars
  <2> QED
    BY <1>6, <2>1 DEF StartInv, Prepared
<1> QED
  BY <1>1, <1>2, <1>3, <1>4, <1>5, <1>6 DEF Next, Finished

\* The columns that each step of the main thread leaves.
LEMMA ColumnStep ==
  ASSUME RowsInv, [Next]_vars
  PROVE  ColumnInv'
<1> USE DEF RowsInv
<1>1. CASE UNCHANGED vars
  BY <1>1 DEF vars, environment, mainVars, ColumnInv, Prepared, ColumnIsConfigured
<1>2. CASE Configure
  <2>1. UNCHANGED document
    BY <1>2 DEF Configure, environment
  <2>2. CASE pc' = "refused" /\ UNCHANGED <<config, columns, cells, ipc>>
    <3>1. config = NoConfig /\ columns = <<>>
      BY <1>2, ConfigureColumns DEF ColumnInv, Configure
    <3> QED
      BY <2>1, <2>2, <3>1 DEF ColumnInv, Prepared
  <2>3. CASE /\ ConfigParses(document) /\ config' = ParseConfig(document)
             /\ columns' = PrepareColumns(ParseConfig(document).columns)
             /\ pc' = "loop"
    <3>1. /\ DOMAIN columns' = DOMAIN document.columns
          /\ Len(columns') = Len(document.columns)
          /\ \A k \in DOMAIN columns' : ColumnIsConfigured(k)'
      BY <2>1, <2>3, PreparedColumns DEF ColumnInv
    <3>2. config' # NoConfig
      BY <2>3, DocumentsAssumption DEF ColumnInv
    <3> QED
      BY <2>1, <2>3, <3>1, <3>2 DEF ColumnInv, Prepared
  <2> QED
    BY <1>2, <2>2, <2>3, ConfigureColumns
<1>3. CASE /\ Prepared /\ Prepared' /\ UNCHANGED <<document, config>>
           /\ HandleFormatChange \/ ProcessRecord \/ GetterThrows \/ InserterStep
              \/ \E e \in Endpoints : Flip(e)
  <2>1. /\ Len(document.columns) \in Nat /\ DOMAIN document.columns = 1..Len(document.columns)
        /\ DOMAIN columns = DOMAIN document.columns /\ Len(columns) = Len(document.columns)
        /\ \A k \in DOMAIN columns : DOMAIN columns[k] = ColumnParts
    BY <1>3, DocumentsAssumption DEF ColumnInv, IsList, ColumnIsConfigured
  <2> DEFINE Kept(cols) ==
        /\ DOMAIN cols = DOMAIN columns
        /\ \A k \in DOMAIN columns :
             /\ DOMAIN cols[k] = DOMAIN columns[k]
             /\ cols[k].name = columns[k].name
             /\ cols[k].type = columns[k].type
  <2>2. Kept(columns)
    OBVIOUS
  <2>3. \A fields, ids : Kept(FieldIdsByName(fields, ids))
    BY <2>1 DEF FieldIdsByName, ColumnParts
  <2>4. \A record, n : Kept(Buffered(record, n))
    BY <2>1, BufferedColumns
  <2>5. columns' = columns \/ (\E fields, ids : columns' = FieldIdsByName(fields, ids))
          \/ (\E record, n : columns' = Buffered(record, n))
    <3>1. CASE HandleFormatChange
      BY <3>1 DEF HandleFormatChange
    <3>2. CASE ProcessRecord
      BY <3>2, Zenon DEF ProcessRecord
    <3>3. CASE GetterThrows
      BY <3>3, Zenon DEF GetterThrows
    <3>4. CASE InserterStep
      BY <3>4 DEF InserterStep, Connect, Check, Get, Insert, Reconnect, Recheck, Clear, mainVars
    <3>5. CASE \E e \in Endpoints : Flip(e)
      BY <3>5 DEF Flip, mainVars
    <3> QED
      BY <1>3, <3>1, <3>2, <3>3, <3>4, <3>5
  <2>6. Kept(columns')
    <3> HIDE DEF Kept
    <3> QED
      BY <2>2, <2>3, <2>4, <2>5
  <2>7. columns' = columns \/ columns' = [k \in DOMAIN columns |-> columns'[k]]
    BY <2>5, <2>6 DEF FieldIdsByName, Buffered
  <2>8. Len(columns') = Len(columns)
    <3>1. CASE columns' = [k \in DOMAIN columns |-> columns'[k]]
      <4>1. columns' \in [1..Len(document.columns) -> {columns'[k] : k \in DOMAIN columns}]
        BY <2>1, <3>1
      <4> QED
        BY <2>1, <4>1, SameLength
    <3> QED
      BY <2>7, <3>1
  <2>9. pc' \in {"loop", "failed"}
    BY <1>3 DEF Prepared
  <2> QED
    BY <1>3, <2>6, <2>8, <2>9, ColumnsFrame
<1> QED
  BY <1>1, <1>2, <1>3, OtherSteps

\* Until the document is parsed, nothing happens.
LEMMA StartStep ==
  ASSUME RowsInv, [Next]_vars
  PROVE  StartInv'
<1>1. CASE UNCHANGED vars
  BY <1>1 DEF RowsInv, StartInv, vars, environment, mainVars, blockVars, threadVars,
              Prepared, Endpoints
<1>2. CASE Configure
  <2>1. CASE pc' = "loop"
    BY <2>1 DEF StartInv, Prepared
  <2>2. CASE UNCHANGED <<config, columns, cells, ipc>>
    <3>1. ~Prepared /\ UNCHANGED <<document, template, rows, holder, stored>>
      BY <1>2, ConfigureColumns DEF RowsInv, Configure, environment
    <3> QED
      BY <2>2, <3>1, NamesKept DEF RowsInv, StartInv
  <2> QED
    BY <1>2, <2>1, <2>2, ConfigureColumns DEF RowsInv
<1>3. CASE Prepared'
  BY <1>3 DEF StartInv
<1> QED
  BY <1>1, <1>2, <1>3, OtherSteps DEF RowsInv

\* The threshold of a document that parses is a number.
LEMMA ThresholdIsNat ==
  ASSUME ColumnInv, Prepared
  PROVE  Threshold \in Nat
<1>1. document \in Documents /\ ConfigParses(document) /\ config = ParseConfig(document)
  BY DEF ColumnInv
<1>2. Threshold = Optional(document, "blockInsertThreshold", DefaultBlockInsertThreshold)
  BY <1>1 DEF Threshold, ParseConfig
<1>3. CASE Has(document, "blockInsertThreshold")
  <2>1. document.blockInsertThreshold # Malformed
    BY <1>1, <1>3 DEF ConfigParses, Converts
  <2> QED
    BY <1>1, <1>2, <1>3, <2>1, DocumentsAssumption DEF Optional
<1>4. CASE ~Has(document, "blockInsertThreshold")
  BY <1>2, <1>4 DEF Optional, DefaultBlockInsertThreshold
<1> QED
  BY <1>3, <1>4

\* A block grows in the main thread's hands, below the threshold; a block with rows
\* is empty again when it comes back.
LEMMA BlockStep ==
  ASSUME RowsInv, [Next]_vars
  PROVE  BlockInv'
<1>0. BlockInv /\ ThreadInv /\ MaxRecords \in Nat
  BY RowSizesAssumption DEF RowsInv
<1>1. CASE UNCHANGED <<received, holder, rows, config>>
  BY <1>0, <1>1 DEF BlockInv, Threshold
<1>2. CASE Configure
  <2>1. rows = 0 /\ holder = "main" /\ UNCHANGED <<received, holder, rows>>
    BY <1>2, ConfigureColumns DEF RowsInv, StartInv, Configure
  <2> QED
    BY <1>0, <2>1 DEF BlockInv
<1>3. CASE Prepared /\ UNCHANGED config /\ HandleFormatChange
  <2>1. \/ holder' = holder
        \/ holder = "main" /\ rows > 0 /\ holder' = "queue"
    BY <1>3, Zenon DEF HandleFormatChange
  <2>2. UNCHANGED <<received, rows>> /\ Threshold' = Threshold
    BY <1>3 DEF HandleFormatChange, Threshold
  <2>3. Threshold \in Nat
    BY <1>3, ThresholdIsNat DEF RowsInv
  <2> QED
    BY <1>0, <2>1, <2>2, <2>3 DEF BlockInv
<1>4. CASE Prepared /\ UNCHANGED config /\ ProcessRecord
  <2>1. /\ holder = "main" /\ received < MaxRecords
        /\ received' = received + 1 /\ rows' = rows + 1
        /\ \/ holder' = "queue"
           \/ rows' < config.blockInsertThreshold /\ holder' = "main"
    BY <1>4 DEF ProcessRecord
  <2>2. Threshold \in Nat /\ Threshold' = Threshold
    BY <1>4, ThresholdIsNat DEF RowsInv, Threshold
  <2>3. received \in Nat /\ received' \in 0..MaxRecords
    BY <1>0, <2>1 DEF BlockInv
  <2>4. rows \in Nat /\ rows' \in Nat /\ rows' > 0 /\ (rows > 0 => rows < Threshold)
    BY <1>0, <2>1 DEF BlockInv
  <2>5. rows' > 1 => rows' <= Threshold
    BY <2>1, <2>2, <2>4
  <2>6. holder' = "main" => rows' < Threshold
    BY <2>1 DEF Threshold
  <2>7. holder' \in {"main", "queue", "inserter"}
    BY <2>1
  <2> QED
    BY <2>2, <2>3, <2>4, <2>5, <2>6, <2>7 DEF BlockInv
<1>5. CASE UNCHANGED config /\ GetterThrows
  <2>1. received < MaxRecords /\ received' = received + 1 /\ UNCHANGED <<holder, rows>>
    BY <1>5 DEF GetterThrows, blockVars
  <2> QED
    BY <1>0, <1>5, <2>1 DEF BlockInv, Threshold
<1>6. CASE InserterStep
  <2>1. CASE Connect \/ Check \/ Insert \/ Reconnect \/ Recheck
    BY <1>1, <2>1 DEF Connect, Check, Insert, Reconnect, Recheck, mainVars, blockVars
  <2>2. CASE Get
    BY <1>0, <2>2 DEF Get, BlockInv, Threshold, mainVars
  <2>3. CASE Clear
    BY <1>0, <2>3 DEF Clear, BlockInv, Threshold, mainVars
  <2> QED
    BY <1>6, <2>1, <2>2, <2>3 DEF InserterStep
<1>7. CASE \E e \in Endpoints : Flip(e)
  BY <1>1, <1>7 DEF Flip, mainVars, blockVars
<1>8. CASE UNCHANGED vars
  BY <1>1, <1>8 DEF vars, mainVars, blockVars
<1> QED
  BY <1>2, <1>3, <1>4, <1>5, <1>6, <1>7, <1>8, OtherSteps DEF RowsInv

\* The inserter holds a block while it inserts, and an endpoint once it has connected.
LEMMA ThreadStep ==
  ASSUME RowsInv, [Next]_vars
  PROVE  ThreadInv'
<1>0. /\ ThreadInv /\ UNCHANGED document /\ document \in Documents
      /\ Endpoints' = Endpoints /\ NumEndpoints' = NumEndpoints
      /\ NumEndpoints \in Nat /\ endpoint \in Nat
  <2>1. ThreadInv /\ document \in Documents
    BY DEF RowsInv, ColumnInv
  <2>2. UNCHANGED document
    BY OtherSteps DEF RowsInv, Configure, environment, vars
  <2>3. NumEndpoints \in Nat
    BY <2>1, DocumentsAssumption DEF NumEndpoints, IsList
  <2> QED
    BY <2>1, <2>2, <2>3, NamesKept DEF ThreadInv
<1>1. CASE UNCHANGED <<ipc, holder, endpoint, up, connected>>
  BY <1>0, <1>1 DEF ThreadInv
<1>2. CASE Configure
  <2>1. ipc = "created" /\ ipc' \in {"created", "connect"}
        /\ UNCHANGED <<holder, endpoint, connected, up>>
    BY <1>2, ConfigureColumns DEF RowsInv, StartInv, Configure, environment
  <2> QED
    BY <1>0, <2>1 DEF ThreadInv
<1>3. CASE HandleFormatChange
  <2>1. holder' = holder \/ (holder = "main" /\ holder' = "queue")
    BY <1>3, Zenon DEF HandleFormatChange
  <2>2. UNCHANGED <<ipc, endpoint, up, connected>>
    BY <1>3 DEF HandleFormatChange, threadVars, environment
  <2> QED
    BY <1>0, <2>1, <2>2 DEF ThreadInv
<1>4. CASE ProcessRecord
  <2>1. holder = "main" /\ UNCHANGED <<ipc, endpoint, up, connected>>
    BY <1>4 DEF ProcessRecord, threadVars, environment
  <2> QED
    BY <1>0, <2>1 DEF ThreadInv
<1>5. CASE GetterThrows
  BY <1>1, <1>5 DEF GetterThrows, threadVars, environment, blockVars
<1>6. CASE InserterStep
  <2>0. /\ NextEndpoint(endpoint) \in 0..NumEndpoints
        /\ NextEndpoint(endpoint) # 0 => NextEndpoint(endpoint) \in Endpoints
    BY <1>0, NextEndpointIsOne
  <2>1. CASE Connect
    BY <1>0, <2>0, <2>1, Zenon DEF Connect, ThreadInv, environment, blockVars
  <2>2. CASE Check
    BY <1>0, <2>2 DEF Check, ThreadInv, environment, blockVars
  <2>3. CASE Get
    BY <1>0, <2>3 DEF Get, ThreadInv, environment
  <2>4. CASE Insert
    <3>1. /\ ipc = "insert" /\ ipc' \in {"clear", "reconnect"}
          /\ UNCHANGED <<holder, endpoint, connected, up>>
      BY <2>4 DEF Insert, InsertReturns, InsertThrows, environment, blockVars
    <3> QED
      BY <1>0, <3>1 DEF ThreadInv
  <2>5. CASE Reconnect
    BY <1>0, <2>0, <2>5, Zenon DEF Reconnect, ThreadInv, environment, blockVars
  <2>6. CASE Recheck
    BY <1>0, <2>6 DEF Recheck, ThreadInv, environment, blockVars
  <2>7. CASE Clear
    BY <1>0, <2>7 DEF Clear, ThreadInv, environment
  <2> QED
    BY <1>6, <2>1, <2>2, <2>3, <2>4, <2>5, <2>6, <2>7 DEF InserterStep
<1>7. ASSUME NEW e \in Endpoints, Flip(e)
      PROVE  ThreadInv'
  <2>1. /\ UNCHANGED <<ipc, holder, endpoint>>
        /\ up' = [up EXCEPT ![e] = ~up[e]]
        /\ connected' = (connected /\ endpoint # e)
    BY <1>7 DEF Flip, blockVars
  <2>2. up' \in [Endpoints -> BOOLEAN]
    BY <1>0, <2>1 DEF ThreadInv
  <2>3. connected' \in BOOLEAN
    BY <2>1
  <2> QED
    BY <1>0, <2>1, <2>2, <2>3 DEF ThreadInv
<1>8. CASE UNCHANGED vars
  BY <1>1, <1>8 DEF vars, environment, blockVars, threadVars
<1> QED
  BY <1>2, <1>3, <1>4, <1>5, <1>6, <1>7, <1>8, OtherSteps DEF RowsInv

\* A format change gives every column the id of the field with its name.
LEMMA IdsStep ==
  ASSUME RowsInv, [Next]_vars
  PROVE  IdsInv'
<1>0. ColumnInv /\ IdsInv
  BY DEF RowsInv
<1>1. CASE UNCHANGED <<pc, template, columns>>
  BY <1>0, <1>1 DEF IdsInv
<1>2. CASE Configure
  <2>1. template' = NoTemplate
    BY <1>2, ConfigureColumns DEF RowsInv, StartInv, Configure
  <2> QED
    BY <2>1 DEF IdsInv, NoTemplate
<1>3. CASE Prepared /\ HandleFormatChange
  <2>0. PICK fields \in OtherTemplates \cup {config.template} :
          \E ids \in [{fields[k].name : k \in DOMAIN fields} -> FieldIds] :
            /\ \A m, n \in DOMAIN ids : ids[m] = ids[n] => m = n
            /\ template' = [fields |-> fields, ids |-> ids]
            /\ IF SameTemplate(fields)
               THEN /\ holder' = IF holder = "main" /\ rows > 0 THEN "queue" ELSE holder
                    /\ columns' = FieldIdsByName(fields, ids)
                    /\ UNCHANGED pc
               ELSE /\ pc' = "failed"
                    /\ UNCHANGED <<holder, columns>>
    BY <1>3 DEF HandleFormatChange
  <2>1. PICK ids \in [{fields[k].name : k \in DOMAIN fields} -> FieldIds] :
          /\ \A m, n \in DOMAIN ids : ids[m] = ids[n] => m = n
          /\ template' = [fields |-> fields, ids |-> ids]
          /\ \/ SameTemplate(fields) /\ columns' = FieldIdsByName(fields, ids)
             \/ pc' = "failed"
    BY <2>0
  <2>2. CASE pc' = "failed"
    BY <2>2 DEF IdsInv
  <2>3. CASE SameTemplate(fields) /\ columns' = FieldIdsByName(fields, ids)
    <3>1. fields = Template(document.columns)
      BY <1>0, <1>3, <2>3 DEF SameTemplate, ColumnInv, ParseConfig
    <3>2. DOMAIN ids = {NameOf(document.columns[k]) : k \in DOMAIN document.columns}
      BY <2>1, <3>1 DEF Template
    <3>3. \A k \in DOMAIN columns : columns[k].name \in DOMAIN ids
      BY <1>0, <1>3, <3>2 DEF ColumnInv, ColumnIsConfigured
    <3>4. /\ DOMAIN columns' = DOMAIN columns
          /\ \A k \in DOMAIN columns : /\ columns'[k].name = columns[k].name
                                       /\ columns'[k].fieldID = ids[columns[k].name]
      BY <1>0, <1>3, <2>3 DEF FieldIdsByName, ColumnInv, ColumnIsConfigured, ColumnParts
    <3>5. template'.ids = ids
      BY <2>1
    <3> QED
      BY <2>1, <3>3, <3>4, <3>5 DEF IdsInv
  <2> QED
    BY <2>1, <2>2, <2>3
<1>4. ASSUME Prepared, pc = "loop", template # NoTemplate, UNCHANGED template,
             NEW record, NEW n, columns' = Buffered(record, n)
      PROVE  IdsInv'
  <2>1. \A k \in DOMAIN columns : DOMAIN columns[k] = ColumnParts
    BY <1>0, <1>4 DEF ColumnInv, ColumnIsConfigured
  <2>2. /\ DOMAIN columns' = DOMAIN columns
        /\ \A k \in DOMAIN columns : /\ columns'[k].name = columns[k].name
                                     /\ columns'[k].fieldID = columns[k].fieldID
    BY <1>4, <2>1, BufferedColumns
  <2> QED
    BY <1>0, <1>4, <2>2 DEF IdsInv
<1>5. CASE Prepared /\ ProcessRecord
  <2>1. /\ pc = "loop" /\ template # NoTemplate /\ UNCHANGED template
        /\ columns' = Buffered(received + 1, Len(columns))
    BY <1>5, Zenon DEF ProcessRecord
  <2> QED
    BY <1>4, <1>5, <2>1
<1>6. CASE GetterThrows
  BY <1>6 DEF GetterThrows, IdsInv
<1>7. CASE InserterStep
  BY <1>1, <1>7 DEF InserterStep, Connect, Check, Get, Insert, Reconnect, Recheck, Clear, mainVars
<1>8. CASE \E e \in Endpoints : Flip(e)
  BY <1>1, <1>8 DEF Flip, mainVars
<1>9. CASE UNCHANGED vars
  BY <1>1, <1>9 DEF vars, mainVars
<1> QED
  BY <1>0, <1>2, <1>3, <1>5, <1>6, <1>7, <1>8, <1>9, OtherSteps DEF RowsInv

\* The getters read each column's value from the field with the column's name.
LEMMA FieldIsNamesake ==
  ASSUME RowsInv, pc = "loop", template # NoTemplate, NEW record, NEW k \in DOMAIN columns
  PROVE  ReadField(record, columns[k].fieldID) = <<record, Names[k]>>
<1> DEFINE id == columns[k].fieldID
           named == {n \in DOMAIN template.ids : template.ids[n] = id}
           name == columns[k].name
<1>1. /\ name \in DOMAIN template.ids /\ id = template.ids[name]
      /\ \A m, n \in DOMAIN template.ids : template.ids[m] = template.ids[n] => m = n
  BY DEF RowsInv, IdsInv
<1>2. named = {name}
  BY <1>1
<1>3. name = Names[k]
  BY DEF RowsInv, ColumnInv, Prepared, ColumnIsConfigured, Names
<1> HIDE DEF name
<1>4. named # {} /\ (CHOOSE n \in named : TRUE) = name
  BY <1>2
<1> HIDE DEF named
<1> QED
  BY <1>3, <1>4 DEF ReadField, named

\* The writers append the record's values, one to every column.
LEMMA WrittenCells ==
  ASSUME RowsInv, pc = "loop", template # NoTemplate, NEW record
  PROVE  LET written == Written(Buffered(record, Len(columns)))
         IN  /\ DOMAIN written = DOMAIN Names
             /\ \A k \in DOMAIN Names : written[k] = Append(cells[k], <<record, Names[k]>>)
<1> DEFINE filled == Buffered(record, Len(columns))
<1>1. /\ DOMAIN columns = DOMAIN Names /\ DOMAIN columns = 1..Len(columns)
      /\ Len(columns) \in Nat
      /\ \A k \in DOMAIN columns : DOMAIN columns[k] = ColumnParts
  BY DocumentsAssumption DEF RowsInv, ColumnInv, Prepared, ColumnIsConfigured, Names, IsList
<1>2. ASSUME NEW k \in DOMAIN columns
      PROVE  filled[k].hasValue = TRUE /\ filled[k].value = <<record, Names[k]>>
  <2>1. ~(k > Len(columns))
    BY <1>1
  <2>2. filled[k] = [columns[k] EXCEPT !.value = ReadField(record, columns[k].fieldID),
                                       !.hasValue = TRUE]
    BY <2>1 DEF Buffered
  <2> QED
    BY <1>1, <2>2, FieldIsNamesake DEF ColumnParts
<1> HIDE DEF filled
<1>3. /\ DOMAIN Written(filled) = DOMAIN columns
      /\ \A k \in DOMAIN columns : Written(filled)[k] = Append(cells[k], <<record, Names[k]>>)
  BY <1>2 DEF Written, WriteCell
<1> QED
  BY <1>1, <1>3 DEF filled

\* Every row of a block stays the row of one record.
LEMMA CellStep ==
  ASSUME RowsInv, [Next]_vars
  PROVE  CellInv'
<1>0. ColumnInv /\ StartInv /\ BlockInv /\ CellInv /\ received \in 0..MaxRecords /\ rows \in Nat
      /\ MaxRecords \in Nat
  BY RowSizesAssumption DEF RowsInv, BlockInv
<1>1. CASE UNCHANGED <<cells, rows, received, document>> /\ (Prepared' => Prepared)
  BY <1>0, <1>1, NamesKept DEF CellInv
<1>2. CASE Configure
  <2>1. CASE pc' = "refused"
    BY <2>1 DEF CellInv, Prepared
  <2>2. CASE cells' = [k \in DOMAIN document.columns |-> <<>>]
    <3>1. rows = 0 /\ UNCHANGED <<rows, document>> /\ Names' = Names
      BY <1>0, <1>2, ConfigureColumns, NamesKept DEF StartInv, Configure, environment
    <3>2. DOMAIN Names = DOMAIN document.columns
      BY DEF Names
    <3> QED
      BY <2>2, <3>1, <3>2 DEF CellInv
  <2> QED
    BY <1>0, <1>2, <2>1, <2>2, ConfigureColumns
<1>3. CASE Prepared /\ UNCHANGED document /\ ProcessRecord
  <2> DEFINE record == received + 1
  <2>1. /\ received' = record /\ rows' = rows + 1 /\ received < MaxRecords
        /\ pc = "loop" /\ template # NoTemplate
        /\ cells' = Written(Buffered(record, Len(columns)))
    BY <1>3, Zenon DEF ProcessRecord
  <2>2. /\ DOMAIN cells' = DOMAIN Names
        /\ \A k \in DOMAIN Names : cells'[k] = Append(cells[k], <<record, Names[k]>>)
    BY <2>1, WrittenCells
  <2>3. Names' = Names /\ CellValues' = CellValues
    BY <1>3, NamesKept
  <2>4. record \in 1..MaxRecords /\ 1..received \subseteq 1..record /\ record \in 1..record
    BY <1>0, <2>1
  <2> HIDE DEF record
  <2>5. ASSUME NEW k \in DOMAIN Names
        PROVE  /\ cells'[k] \in Seq(CellValues) /\ Len(cells'[k]) = rows + 1
               /\ \A i \in 1..rows : cells'[k][i] = cells[k][i]
               /\ cells'[k][rows + 1] = <<record, Names[k]>>
    <3>1. cells[k] \in Seq(CellValues) /\ Len(cells[k]) = rows
      BY <1>0, <1>3 DEF CellInv
    <3>2. <<record, Names[k]>> \in CellValues
      BY <2>4 DEF CellValues
    <3>3. cells'[k] = Append(cells[k], <<record, Names[k]>>)
      BY <2>2
    <3> DEFINE value == <<record, Names[k]>>
               before == cells[k]
               after == Append(before, value)
    <3> HIDE DEF value, before
    <3>4. /\ after \in Seq(CellValues) /\ Len(after) = Len(before) + 1
          /\ \A i \in 1..Len(before) : after[i] = before[i]
          /\ after[Len(before) + 1] = value
      BY <3>1, <3>2, AppendProperties DEF value, before
    <3> QED
      BY <3>1, <3>3, <3>4 DEF value, before
  <2>6. ASSUME NEW i \in 1..(rows + 1)
        PROVE  \E r \in 1..record : \A k \in DOMAIN Names : cells'[k][i] = <<r, Names[k]>>
    <3>1. CASE i = rows + 1
      BY <2>4, <2>5, <3>1
    <3>2. CASE i \in 1..rows
      <4>1. PICK r \in 1..received : \A k \in DOMAIN Names : cells[k][i] = <<r, Names[k]>>
        BY <1>0, <1>3, <3>2 DEF CellInv
      <4> QED
        BY <2>4, <2>5, <3>2, <4>1
    <3> QED
      BY <1>0, <3>1, <3>2
  <2> QED
    BY <2>1, <2>2, <2>3, <2>5, <2>6 DEF CellInv
<1>4. CASE Prepared /\ UNCHANGED document /\ GetterThrows
  <2>1. UNCHANGED <<cells, rows>> /\ received' = received + 1
    BY <1>4 DEF GetterThrows, blockVars
  <2>2. 1..received \subseteq 1..received'
    BY <1>0, <2>1
  <2> QED
    BY <1>0, <1>4, <2>1, <2>2, NamesKept DEF CellInv
<1>5. CASE Prepared /\ UNCHANGED document /\ Clear
  <2>1. rows' = 0 /\ cells' = [k \in DOMAIN cells |-> <<>>]
    BY <1>5 DEF Clear
  <2> QED
    BY <1>0, <1>5, <2>1, NamesKept DEF CellInv
<1>6. CASE Prepared /\ UNCHANGED document /\ HandleFormatChange
  BY <1>1, <1>6 DEF HandleFormatChange
<1>7. CASE Prepared /\ UNCHANGED document /\ InserterStep
  BY <1>1, <1>5, <1>7 DEF InserterStep, Connect, Check, Get, Insert, Reconnect, Recheck,
                          mainVars, blockVars
<1>8. CASE Prepared /\ UNCHANGED document /\ \E e \in Endpoints : Flip(e)
  BY <1>1, <1>8 DEF Flip, mainVars, blockVars
<1>9. CASE UNCHANGED vars
  BY <1>1, <1>9 DEF vars, mainVars, blockVars, environment, Prepared
<1> QED
  BY <1>0, <1>2, <1>3, <1>4, <1>6, <1>7, <1>8, <1>9, OtherSteps

\* Only a table that was found to fit is inserted into, and with rows of one record each.
LEMMA TableStep ==
  ASSUME RowsInv, [Next]_vars
  PROVE  TableInv'
<1>0. /\ TableInv /\ document \in Documents
      /\ UNCHANGED <<document, tables>>
      /\ Endpoints' = Endpoints /\ Names' = Names /\ Types' = Types
  <2>1. UNCHANGED <<document, tables>>
    BY OtherSteps DEF RowsInv, Configure, environment, vars
  <2> QED
    BY <2>1, NamesKept DEF RowsInv, ColumnInv
<1>1. 1..received \subseteq 1..received'
  <2>1. received' = received \/ received' = received + 1
    BY OtherSteps DEF RowsInv, Configure, HandleFormatChange, ProcessRecord, GetterThrows,
       InserterStep, Connect, Check, Get, Insert, Reconnect, Recheck, Clear, Flip, mainVars, vars
  <2>2. received \in Nat
    BY RowSizesAssumption DEF RowsInv, BlockInv
  <2> QED
    BY <2>1, <2>2
<1> DEFINE RowsAreMade(rs, n) == \A row \in rs : \E r \in 1..n : IsRowOf(row, r, Names)
<1>2. ASSUME UNCHANGED stored,
             ipc' \in {"get", "insert", "clear"} => TableFits(tables[endpoint'], Names, Types)
      PROVE  TableInv'
  <2>1. \A e \in Endpoints : RowsAreMade(stored[e], received')
    BY <1>0, <1>1 DEF TableInv
  <2> QED
    BY <1>0, <1>2, <2>1 DEF TableInv
<1>3. ASSUME UNCHANGED <<stored, ipc, endpoint>>
      PROVE  TableInv'
  BY <1>0, <1>2, <1>3 DEF TableInv
<1>4. CASE Configure
  <2>1. ipc = "created" /\ ipc' \in {"created", "connect"} /\ UNCHANGED stored
    BY <1>4, ConfigureColumns DEF RowsInv, StartInv, Configure
  <2> QED
    BY <1>2, <2>1
<1>5. CASE HandleFormatChange \/ ProcessRecord \/ GetterThrows
  BY <1>3, <1>5 DEF HandleFormatChange, ProcessRecord, GetterThrows, threadVars
<1>6. CASE Prepared /\ InserterStep
  <2>1. CASE Connect
    BY <1>2, <2>1 DEF Connect
  <2>2. ASSUME ipc \in {"check", "recheck"}, EnsureSchema(tables[endpoint])
        PROVE  TableFits(tables[endpoint], Names, Types)
    <3>1. endpoint \in Endpoints
      BY <2>2 DEF RowsInv, ThreadInv
    <3>2. IsList(tables[endpoint])
      BY <1>0, <3>1, TablesAssumption DEF TableInv
    <3> QED
      BY <1>6, <2>2, <3>2, EnsureIsFits DEF RowsInv
  <2>3. CASE Check
    BY <1>2, <2>2, <2>3 DEF Check
  <2>4. CASE Get
    BY <1>0, <1>2, <2>4 DEF Get, TableInv
  <2>5. CASE Insert
    <3> DEFINE new == {RowOf(i) : i \in 1..rows}
    <3>0. /\ ipc = "insert" /\ ipc' \in {"clear", "reconnect"} /\ UNCHANGED <<endpoint, received>>
          /\ UNCHANGED stored \/ stored' = [stored EXCEPT ![endpoint] = @ \cup new]
      BY <2>5 DEF Insert, InsertReturns, InsertThrows, Store, mainVars
    <3> HIDE DEF new
    <3>1. CASE UNCHANGED stored
      <4>1. TableFits(tables[endpoint'], Names, Types)
        BY <1>0, <3>0 DEF TableInv
      <4> QED
        BY <1>2, <3>1, <4>1
    <3>2. CASE stored' = [stored EXCEPT ![endpoint] = @ \cup new]
      <4>1. /\ stored' = [stored EXCEPT ![endpoint] = @ \cup new]
            /\ ipc = "insert" /\ UNCHANGED <<endpoint, received>>
        BY <3>0, <3>2
      <4>2. endpoint \in Endpoints /\ TableFits(tables[endpoint], Names, Types)
        BY <1>0, <4>1 DEF TableInv, RowsInv, ThreadInv
      <4>3. RowsAreMade(new, received)
        <5> SUFFICES ASSUME NEW i \in 1..rows
                     PROVE  \E r \in 1..received : IsRowOf(RowOf(i), r, Names)
          BY DEF new
        <5>1. /\ DOMAIN cells = DOMAIN Names
              /\ \E r \in 1..received : \A k \in DOMAIN Names : cells[k][i] = <<r, Names[k]>>
          BY <1>6 DEF RowsInv, CellInv
        <5> QED
          BY <5>1 DEF RowOf, IsRowOf
      <4>4. \A e \in Endpoints : stored'[e] = IF e = endpoint THEN stored[e] \cup new ELSE stored[e]
        BY <1>0, <4>1 DEF TableInv
      <4>5. \A e \in Endpoints : stored'[e] # {} => TableFits(tables[e], Names, Types)
        BY <1>0, <4>2, <4>4 DEF TableInv
      <4>6. \A e \in Endpoints : RowsAreMade(stored'[e], received)
        BY <1>0, <4>3, <4>4 DEF TableInv
      <4>7. DOMAIN stored' = Endpoints
        BY <1>0, <4>1 DEF TableInv
      <4> QED
        BY <1>0, <4>1, <4>2, <4>5, <4>6, <4>7 DEF TableInv
    <3> QED
      BY <3>0, <3>1, <3>2
  <2>6. CASE Reconnect
    BY <1>2, <2>6, Zenon DEF Reconnect
  <2>7. CASE Recheck
    BY <1>2, <2>2, <2>7 DEF Recheck
  <2>8. CASE Clear
    BY <1>0, <1>2, <2>8 DEF Clear, TableInv
  <2> QED
    BY <1>6, <2>1, <2>3, <2>4, <2>5, <2>6, <2>7, <2>8 DEF InserterStep
<1>7. CASE \E e \in Endpoints : Flip(e)
  BY <1>3, <1>7 DEF Flip
<1>8. CASE UNCHANGED vars
  BY <1>3, <1>8 DEF vars, threadVars
<1> QED
  BY <1>4, <1>5, <1>6, <1>7, <1>8, OtherSteps DEF RowsInv

----------------------------------------------------------------------------
(* The theorems.                                                           *)

LEMMA RowsInit == Init => RowsInv
<1> SUFFICES ASSUME Init
             PROVE  RowsInv
  OBVIOUS
<1> USE DEF Init
<1>1. ColumnInv
  BY DEF ColumnInv, Prepared
<1>2. StartInv
  BY DEF StartInv
<1>3. BlockInv
  BY RowSizesAssumption DEF BlockInv
<1>4. ThreadInv
  <2>1. NumEndpoints \in Nat
    BY DocumentsAssumption DEF NumEndpoints, IsList
  <2>2. /\ ipc = "created" /\ endpoint = 0 /\ connected \in BOOLEAN
        /\ up \in [Endpoints -> BOOLEAN]
    BY Zenon
  <2> HIDE DEF Init
  <2> QED
    BY <2>1, <2>2 DEF ThreadInv
<1>5. IdsInv
  BY DEF IdsInv
<1>6. CellInv
  BY DEF CellInv, Prepared
<1>7. TableInv
  BY DEF TableInv
<1> QED
  BY <1>1, <1>2, <1>3, <1>4, <1>5, <1>6, <1>7 DEF RowsInv

\* The invariant holds in every reachable state.
LEMMA RowsInvariant == Spec => []RowsInv
<1>1. RowsInv /\ [Next]_vars => RowsInv'
  BY ColumnStep, StartStep, BlockStep, ThreadStep, IdsStep, CellStep, TableStep DEF RowsInv
<1> QED
  BY RowsInit, <1>1, PTL DEF Spec

\* Every variable keeps to its type, and a block of more than one row to the
\* threshold, whatever the document says it is.
THEOREM TypeCorrect == Spec => []TypeOK
<1>1. RowsInv => TypeOK
  <2> SUFFICES ASSUME RowsInv
               PROVE  TypeOK
    OBVIOUS
  <2>1. DOMAIN cells = DOMAIN columns
    <3>1. CASE Prepared
      BY <3>1 DEF RowsInv, ColumnInv, CellInv, Names
    <3>2. CASE ~Prepared
      BY <3>2 DEF RowsInv, ColumnInv, StartInv
    <3> QED
      BY <3>1, <3>2
  <2>2. /\ document \in Documents
        /\ pc \in {"configure", "loop", "refused", "invalidType", "failed"}
        /\ config # NoConfig <=> pc \notin {"configure", "refused"}
    BY DEF RowsInv, ColumnInv
  <2>3. /\ received \in 0..MaxRecords /\ holder \in {"main", "queue", "inserter"}
        /\ rows \in Nat /\ (rows > 1 => rows <= config.blockInsertThreshold)
    BY DEF RowsInv, BlockInv, Threshold
  <2>4. /\ ipc \in {"created", "connect", "check", "get", "insert", "reconnect",
                    "recheck", "clear", "errored"}
        /\ endpoint \in 0..NumEndpoints
        /\ up \in [Endpoints -> BOOLEAN] /\ connected \in BOOLEAN
    BY DEF RowsInv, ThreadInv
  <2> QED
    BY <2>1, <2>2, <2>3, <2>4 DEF TypeOK
<1> QED
  BY RowsInvariant, <1>1, PTL

\* A type that parseColumns accepts has its getter, its column and its writer, for
\* every list of columns and not only those of the run.
THEOREM EveryTypeIsUsable == Spec => []AcceptedTypesAreUsable
<1>1. RowsInv => AcceptedTypesAreUsable
  BY DEF RowsInv, ColumnInv, AcceptedTypesAreUsable
<1> QED
  BY RowsInvariant, <1>1, PTL

\* The columns of a block never differ in length, so RefreshRowCount never ends the
\* thread, and no empty block is sent out.
THEOREM BlocksAreAligned == Spec => []RowsStayAligned
<1>1. RowsInv => RowsStayAligned
  <2> SUFFICES ASSUME RowsInv
               PROVE  RowsStayAligned
    OBVIOUS
  <2>1. \A k \in DOMAIN cells : Len(cells[k]) = rows
    <3>1. CASE Prepared
      BY <3>1 DEF RowsInv, CellInv
    <3>2. CASE ~Prepared
      BY <3>2 DEF RowsInv, StartInv
    <3> QED
      BY <3>1, <3>2
  <2> QED
    BY <2>1 DEF RowsInv, BlockInv, RowsStayAligned
<1> QED
  BY RowsInvariant, <1>1, PTL

\* A stored row has the values of one record, each of the field its column is named
\* for, after any number of format changes, reconnections and reused blocks.
THEOREM RowsAreOfOneRecord == Spec => []RowsAreRecords
<1>1. RowsInv => RowsAreRecords
  <2> SUFFICES ASSUME RowsInv, NEW e \in Endpoints, NEW row \in stored[e]
               PROVE  \E r \in 1..received :
                        \A k \in DOMAIN row : row[k] = <<r, columns[k].name>>
    BY DEF RowsAreRecords
  <2>1. Prepared
    BY DEF RowsInv, StartInv
  <2>2. \A k \in DOMAIN Names : columns[k].name = Names[k]
    BY <2>1 DEF RowsInv, ColumnInv, ColumnIsConfigured, Names
  <2>3. PICK r \in 1..received : IsRowOf(row, r, Names)
    BY DEF RowsInv, TableInv
  <2> QED
    BY <2>2, <2>3 DEF IsRowOf
<1> QED
  BY RowsInvariant, <1>1, PTL

\* Rows are in no table but one whose columns are, up to Nullable, those of the block,
\* also when the connection was lost and the inserter went on with another endpoint.
THEOREM StoredWhereItFits == Spec => []StoredWhereTheTableFits
<1>1. RowsInv => StoredWhereTheTableFits
  <2> SUFFICES ASSUME RowsInv, NEW e \in Endpoints, stored[e] # {}
               PROVE  /\ Len(tables[e]) = Len(columns)
                      /\ \A k \in DOMAIN columns :
                           /\ tables[e][k].name = columns[k].name
                           /\ StripNullable(tables[e][k].type)
                                = StripNullable(MakeColumn(columns[k].type))
    BY DEF StoredWhereTheTableFits
  <2>1. Prepared
    BY DEF RowsInv, StartInv
  <2>2. /\ document \in Documents /\ ConfigParses(document)
        /\ DOMAIN columns = DOMAIN document.columns
        /\ Len(columns) = Len(document.columns)
        /\ \A k \in DOMAIN columns : columns[k].name = Names[k] /\ columns[k].type = Types[k]
    BY <2>1 DEF RowsInv, ColumnInv, ColumnIsConfigured, Names, Types
  <2>3. TableFits(tables[e], Names, Types) /\ IsList(tables[e])
    BY <2>2, TablesAssumption DEF RowsInv, TableInv
  <2>4. EnsureSchema(tables[e])
    BY <2>1, <2>3, EnsureIsFits DEF RowsInv
  <2>5. DOMAIN columns = DOMAIN tables[e] /\ Len(tables[e]) = Len(columns)
    BY <2>2, <2>3, <2>4, DocumentsAssumption DEF EnsureSchema, IsList
  <2>6. \A k \in DOMAIN columns : columns[k].type \in ColumnType
    BY <2>2, WordsHaveTypes DEF ConfigParses, ColumnsParse, Types
  <2>7. \A k \in DOMAIN columns :
          StripNullable(MakeColumn(columns[k].type)) = TypeToClickhouse(columns[k].type)
    BY <2>6, ColumnWithoutNullable
  <2> QED
    BY <2>4, <2>5, <2>7 DEF EnsureSchema
<1> QED
  BY RowsInvariant, <1>1, PTL

=============================================================================
