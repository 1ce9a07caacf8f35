---------------------------- MODULE ColumnTypes ----------------------------
(***************************************************************************)
(* The column types of the clickhouse module: the words of a unirec        *)
(* template, the ColumnType enumeration, the traits of each type and the   *)
(* columns and writers made from them (config.hpp, config.cpp,             *)
(* datatype.cpp).  The code keeps the same facts in five lists (the        *)
(* enumeration's order, the map of words, the traits, the three visitors); *)
(* each list is a definition of its own here.                              *)
(*                                                                         *)
(* A ClickHouse type is the sequence of its constructors from the outside: *)
(* Array(UInt8) is <<"Array", "UInt8">>.                                   *)
(***************************************************************************)
EXTENDS Integers, Sequences

\* enum ColumnType, in its order
EnumOrder ==
  <<"INT8_ARR", "INT16_ARR", "INT32_ARR", "INT64_ARR",
    "UINT8_ARR", "UINT16_ARR", "UINT32_ARR", "UINT64_ARR",
    "CHAR_ARR", "FLOAT_ARR", "DOUBLE_ARR", "IPADDR_ARR", "MACADDR_ARR",
    "TIME_ARR", "BYTES", "MACADDR",
    "INT8", "INT16", "INT32", "INT64", "UINT8", "UINT16", "UINT32", "UINT64",
    "CHAR", "FLOAT", "DOUBLE", "IPADDR", "TIME", "STRING">>

ColumnType == {EnumOrder[k] : k \in DOMAIN EnumOrder}

\* the enumerator's value
Ordinal(type) == (CHOOSE k \in DOMAIN EnumOrder : EnumOrder[k] = type) - 1

\* g_string_to_columntype
WordsOfTypes ==
  {<<"int8", "INT8">>, <<"int8*", "INT8_ARR">>,
   <<"int16", "INT16">>, <<"int16*", "INT16_ARR">>,
   <<"int32", "INT32">>, <<"int32*", "INT32_ARR">>,
   <<"int64", "INT64">>, <<"int64*", "INT64_ARR">>,
   <<"uint8", "UINT8">>, <<"uint8*", "UINT8_ARR">>,
   <<"uint16", "UINT16">>, <<"uint16*", "UINT16_ARR">>,
   <<"uint32", "UINT32">>, <<"uint32*", "UINT32_ARR">>,
   <<"uint64", "UINT64">>, <<"uint64*", "UINT64_ARR">>,
   <<"char", "CHAR">>, <<"char*", "CHAR_ARR">>,
   <<"float", "FLOAT">>, <<"float*", "FLOAT_ARR">>,
   <<"double", "DOUBLE">>, <<"double*", "DOUBLE_ARR">>,
   <<"ipaddr", "IPADDR">>, <<"ipaddr*", "IPADDR_ARR">>,
   <<"macaddr", "MACADDR">>, <<"macaddr*", "MACADDR_ARR">>,
   <<"time", "TIME">>, <<"time*", "TIME_ARR">>,
   <<"string", "STRING">>, <<"bytes", "BYTES">>}

Words == {pair[1] : pair \in WordsOfTypes}

\* g_string_to_columntype.at(word)
TypeOfWord(word) == (CHOOSE pair \in WordsOfTypes : pair[1] = word)[2]

----------------------------------------------------------------------------
(* DataTypeTraits: the class of the column and CLICKHOUSE_TYPE_NAME.       *)

IntegerTraits ==
  [UINT8      |-> [class |-> <<"UInt8">>, name |-> <<"UInt8">>],
   UINT16     |-> [class |-> <<"UInt16">>, name |-> <<"UInt16">>],
   UINT32     |-> [class |-> <<"UInt32">>, name |-> <<"UInt32">>],
   UINT64     |-> [class |-> <<"UInt64">>, name |-> <<"UInt64">>],
   INT8       |-> [class |-> <<"Int8">>, name |-> <<"Int8">>],
   INT16      |-> [class |-> <<"Int16">>, name |-> <<"Int16">>],
   INT32      |-> [class |-> <<"Int32">>, name |-> <<"Int32">>],
   INT64      |-> [class |-> <<"Int64">>, name |-> <<"Int64">>],
   UINT8_ARR  |-> [class |-> <<"Array", "UInt8">>, name |-> <<"Array", "UInt8">>],
   UINT16_ARR |-> [class |-> <<"Array", "UInt16">>, name |-> <<"Array", "UInt16">>],
   UINT32_ARR |-> [class |-> <<"Array", "UInt32">>, name |-> <<"Array", "UInt32">>],
   UINT64_ARR |-> [class |-> <<"Array", "UInt64">>, name |-> <<"Array", "UInt64">>],
   INT8_ARR   |-> [class |-> <<"Array", "Int8">>, name |-> <<"Array", "Int8">>],
   INT16_ARR  |-> [class |-> <<"Array", "Int16">>, name |-> <<"Array", "Int16">>],
   INT32_ARR  |-> [class |-> <<"Array", "Int32">>, name |-> <<"Array", "Int32">>],
   INT64_ARR  |-> [class |-> <<"Array", "Int64">>, name |-> <<"Array", "Int64">>],
   CHAR       |-> [class |-> <<"UInt8">>, name |-> <<"UInt8">>],
   CHAR_ARR   |-> [class |-> <<"Array", "UInt8">>, name |-> <<"Array", "UInt8">>]]

OtherTraits ==
  [FLOAT       |-> [class |-> <<"Float32">>, name |-> <<"Float32">>],
   FLOAT_ARR   |-> [class |-> <<"Array", "Float32">>, name |-> <<"Array", "Float32">>],
   DOUBLE      |-> [class |-> <<"Float64">>, name |-> <<"Float64">>],
   DOUBLE_ARR  |-> [class |-> <<"Array", "Float64">>, name |-> <<"Array", "Float64">>],
   IPADDR      |-> [class |-> <<"IPv6">>, name |-> <<"IPv6">>],
   IPADDR_ARR  |-> [class |-> <<"Array", "IPv6">>, name |-> <<"Array", "IPv6">>],
   MACADDR     |-> [class |-> <<"Array", "UInt8">>, name |-> <<"Array", "UInt8">>],
   MACADDR_ARR |-> [class |-> <<"Array", "Array", "UInt8">>,
                    name |-> <<"Array", "Array", "UInt8">>],
   TIME        |-> [class |-> <<"DateTime64(9)">>, name |-> <<"DateTime64(9)">>],
   TIME_ARR    |-> [class |-> <<"Array", "DateTime64(9)">>,
                    name |-> <<"Array", "DateTime64(9)">>],
   STRING      |-> [class |-> <<"String">>, name |-> <<"String">>],
   BYTES       |-> [class |-> <<"Array", "UInt8">>, name |-> <<"Array", "UInt8">>]]

Traits(type) ==
  IF type \in DOMAIN IntegerTraits THEN IntegerTraits[type] ELSE OtherTraits[type]

\* the cases of visitNonArr, visitArr and visit; any other type throws
VisitNonArr ==
  {"INT8", "INT16", "INT32", "INT64", "UINT8", "UINT16", "UINT32", "UINT64",
   "CHAR", "FLOAT", "DOUBLE", "IPADDR", "TIME", "STRING"}

VisitArr ==
  {"INT8_ARR", "INT16_ARR", "INT32_ARR", "INT64_ARR",
   "UINT8_ARR", "UINT16_ARR", "UINT32_ARR", "UINT64_ARR",
   "CHAR_ARR", "FLOAT_ARR", "DOUBLE_ARR", "IPADDR_ARR",
   "MACADDR", "MACADDR_ARR", "TIME_ARR", "BYTES"}

Visit ==
  {"INT8", "INT16", "INT32", "INT64", "UINT8", "UINT16", "UINT32", "UINT64",
   "CHAR", "FLOAT", "DOUBLE", "IPADDR", "TIME", "STRING",
   "INT8_ARR", "INT16_ARR", "INT32_ARR", "INT64_ARR",
   "UINT8_ARR", "UINT16_ARR", "UINT32_ARR", "UINT64_ARR",
   "CHAR_ARR", "FLOAT_ARR", "DOUBLE_ARR", "IPADDR_ARR",
   "MACADDR", "MACADDR_ARR", "TIME_ARR", "BYTES"}

----------------------------------------------------------------------------
(* Columns and their writers.                                              *)

\* INT8 counts as an array
IsArrUpTo(type) == Ordinal(type) <= Ordinal("INT8")

\* isArr: the array types are those before INT8 in the enumeration
IsArr(type) == Ordinal(type) < Ordinal("INT8")

\* makeGetter, makeColumn and makeColumnwriter all find a case for the type
IsUsable(type) ==
  /\ type \in Visit
  /\ IF IsArr(type) THEN type \in VisitArr ELSE type \in VisitNonArr

\* makeColumn: only columns that are no arrays are Nullable
MakeColumn(type) ==
  IF IsArr(type) THEN Traits(type).class ELSE <<"Nullable">> \o Traits(type).class

\* typeToClickhouse
TypeToClickhouse(type) == Traits(type).name

\* the column writer: a missing value becomes a null, and nothing in an array
\* column
NoValue == <<>>

WriteCell(type, hasValue, value, cells) ==
  IF hasValue THEN Append(cells, value)
  ELSE IF IsArr(type) THEN cells ELSE Append(cells, NoValue)
=============================================================================
