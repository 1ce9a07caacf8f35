---------------------------- MODULE MCListDetector ----------------------------
(***************************************************************************)
(* A list over two address fields, two port fields and a name.             *)
(***************************************************************************)
EXTENDS ListDetector

Types == [SRC_IP |-> "ip", DST_IP |-> "ip",
          SRC_PORT |-> "number", DST_PORT |-> "number", NAME |-> "string"]
Header == <<"SRC_IP", "DST_IP", "SRC_PORT", "DST_PORT", "NAME">>

Empty == [kind |-> "empty"]
Literal(bytes) == [kind |-> "literal", bytes |-> bytes]
Regex(strings) == [kind |-> "regex", strings |-> strings]
Prefix(address, length) == [kind |-> "prefix", prefix |-> IpAddressPrefix(address, length)]

V4(a) == [family |-> "v4", octets |-> <<a, 0>>]
V6(a, b) == [family |-> "v6", octets |-> <<a, b>>]
short == <<7>>
long == <<8, 9>>

Columns(src, dst, ports, name) ==
    [SRC_IP |-> src, DST_IP |-> dst, SRC_PORT |-> ports[1], DST_PORT |-> ports[2], NAME |-> name]
Line(ip, ports, name) == Columns(ip, Empty, ports, name)

One == Literal(<<1>>)
Two == Literal(<<2>>)
NoPorts == <<Empty, Empty>>
AnyName == Regex({short, long})

\* Of the first lists both ports are given or none: rules with different masks
\* have hashes of different lengths.
Ports == {NoPorts, <<One, Two>>, <<Two, One>>}
Names == {AnyName, Regex({short}), Literal(long)}
Lines == {Line(ip, ports, name) : ip \in {Empty, Prefix(V4(1), 1)}, ports \in Ports, name \in Names}
Malformed == Line(Empty, <<Empty, [kind |-> "malformed"]>>, Literal(long))
ShortLine == [SRC_IP |-> Empty, SRC_PORT |-> Literal(<<1>>)]

\* Lists the promise is not made for: one port and a name with the bytes of another
\* row's ports, ports that the last row does not give, a name that is left empty,
\* prefixes of both families in two columns, as many rows as there are numbers.
OddLines ==
    {Line(Empty, ports, name) : ports \in {<<One, Empty>>, <<Empty, One>>, <<One, Two>>, NoPorts},
                                name \in {AnyName, Empty, Literal(<<2>>)}}
AddressLines ==
    {Columns(src, dst, NoPorts, AnyName) : src \in {Empty, Prefix(V6(1, 0), 2)},
                                           dst \in {Empty, Prefix(V4(1), 1)}}

File(header, rows) == [header |-> header, rows |-> rows]

\* No row, one or two, or as many as there are numbers; rows that do not parse or
\* have too few values; a header that is empty or of a wrong form; a file that
\* cannot be read.
MCFiles ==
    {File(Header, rows) : rows \in BoundedSeq(Lines \cup {Malformed, ShortLine}, 2)
                                    \cup BoundedSeq(OddLines, 2) \cup BoundedSeq(AddressLines, 3)}
        \cup {File(<<>>, <<>>), File(<<"SRC_IP", "no type">>, <<ShortLine>>), None}

MCRecords ==
    {[SRC_IP |-> V4(a), DST_IP |-> V4(0),
      SRC_PORT |-> ports[1], DST_PORT |-> ports[2], NAME |-> name] :
        a \in {0, 1}, ports \in {<<<<1>>, <<1>>>>, <<<<1>>, <<2>>>>, <<<<2>>, <<1>>>>},
        name \in {short, long}}

\* Ports only, each of which may be left empty.
PortTypes == [SRC_PORT |-> "number", DST_PORT |-> "number"]
PortHeader == <<"SRC_PORT", "DST_PORT">>
PortLines == [{"SRC_PORT", "DST_PORT"} -> {Empty, Literal(<<1>>), Literal(<<2>>)}]
PortFiles == {File(PortHeader, rows) : rows \in BoundedSeq(PortLines, 2)}
PortRecords == [{"SRC_PORT", "DST_PORT"} -> {<<1>>, <<2>>}]
=============================================================================
