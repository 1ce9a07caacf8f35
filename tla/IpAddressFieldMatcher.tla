------------------------ MODULE IpAddressFieldMatcher ------------------------
(***************************************************************************)
(* The search tree in which listDetector keeps the prefixes that its rules *)
(* give for one address field (ipAddressFieldMatcher.cpp, octetNode.hpp,   *)
(* ipAddressPrefix.cpp).                                                   *)
(*                                                                         *)
(* Level k of the tree is one vector that holds the nodes of all prefixes  *)
(* for octet k.  A node is either inner, and then "index" is the position  *)
(* in level k+1 where the group of its children starts, or the last of its *)
(* prefix, and then "index" is the number of the rule: the two share a     *)
(* union.  The end of a group is not kept, it is the start of the group of *)
(* the next inner node.  Levels and positions count from 0, as in the      *)
(* code.                                                                   *)
(*                                                                         *)
(* An octet of a mask is a run of ones: it is represented by their number. *)
(* An address has V6Octets octets; what an IPv4 address has beyond its     *)
(* V4Octets is whatever lies in memory after them.                         *)
(***************************************************************************)
EXTENDS Integers, Sequences, SequencesExt

CONSTANTS OctetBits,    \* bits of an octet, 8
          V4Octets,     \* octets of an IPv4 address, 4
          V6Octets,     \* octets of an IPv6 address and levels of the tree, 16
          IndexModulus  \* positions and rule numbers are uint16_t: 2^16

ASSUME WidthAssumption ==
    /\ OctetBits \in Nat \ {0}
    /\ V4Octets \in Nat \ {0}
    /\ V6Octets \in Nat
    /\ V4Octets < V6Octets
    /\ IndexModulus \in Nat \ {0}

\* A fact of arithmetic: the provers know nothing of powers.
ASSUME PowerAssumption == \A n \in 0 .. OctetBits : 2 ^ n \in Nat \ {0}

Octet == 0 .. 2 ^ OctetBits - 1
Levels == 0 .. V6Octets - 1
NoIndex == 0
Outside == -1           \* the search has left the array of levels, or its result

\* What a uint16_t keeps of a size or a number.
Index(n) == n % IndexModulus

Length(family) == IF family = "v4" THEN V4Octets ELSE V6Octets

(***************************************************************************)
(* IpAddressPrefix: the masked address and the mask, octet by octet.       *)
(***************************************************************************)
Masked(octet, ones) == octet - (octet % (2 ^ (OctetBits - ones)))

OnesOf(length, k) ==
    LET rest == length - OctetBits * (k - 1)
    IN IF rest < 0 THEN 0 ELSE IF rest > OctetBits THEN OctetBits ELSE rest

IpAddressPrefix(address, length) ==
    [family |-> address.family,
     octets |-> [k \in 1 .. Length(address.family) |->
                   Masked(address.octets[k], OnesOf(length, k))],
     ones   |-> [k \in 1 .. Length(address.family) |-> OnesOf(length, k)]]

\* The prefix of an empty field: a zero address, which is not an IPv4 one, and
\* no bit of it counts.
EmptyPrefix ==
    [family |-> "any",
     octets |-> [k \in 1 .. V6Octets |-> 0],
     ones   |-> [k \in 1 .. V6Octets |-> 0]]

\* What a prefix made of an address looks like.
ShapedPrefix(prefix) ==
    /\ prefix.family \in {"v4", "v6"}
    /\ prefix.octets \in [1 .. Length(prefix.family) -> Octet]
    /\ prefix.ones \in [1 .. Length(prefix.family) -> 0 .. OctetBits]
    /\ \A k \in DOMAIN prefix.ones :
          /\ prefix.octets[k] = Masked(prefix.octets[k], prefix.ones[k])
          /\ prefix.ones[k] > 0 => \A j \in 1 .. k - 1 : prefix.ones[j] = OctetBits

\* The level at which a prefix ends: its first octet that is not all ones, or
\* its last one.
LastLevel(prefix) ==
    CHOOSE k \in 0 .. Len(prefix.ones) - 1 :
        /\ prefix.ones[k + 1] < OctetBits \/ k = Len(prefix.ones) - 1
        /\ \A j \in 1 .. k : prefix.ones[j] = OctetBits

-----------------------------------------------------------------------------
EmptyMatcher == [octets |-> [k \in Levels |-> <<>>], lastInsertIndex |-> 0]

NodeAt(octets, level, pos) == octets[level][pos + 1]

\* Where the group of the node at pos of the level above ends
\* (getNotLastNodeNextNode).
GroupEnd(octets, level, pos) ==
    IF level = 0
    THEN Index(Len(octets[0]))
    ELSE LET inner == {i \in pos + 1 .. Len(octets[level - 1]) - 1 :
                          ~NodeAt(octets, level - 1, i).isLast}
         IN IF inner = {}
            THEN Index(Len(octets[level]))
            ELSE NodeAt(octets, level - 1, CHOOSE i \in inner : \A j \in inner : i <= j).index

GroupStart(octets, level, pos) ==
    IF level = 0 THEN 0 ELSE NodeAt(octets, level - 1, pos).index

\* With this one the group that grew moves too.
ShiftedWithOwn(nodes, pos) ==
    [i \in DOMAIN nodes |->
        IF i >= pos + 1 /\ ~nodes[i].isLast
        THEN [nodes[i] EXCEPT !.index = Index(@ + 1)]
        ELSE nodes[i]]

\* With this one the rule numbers of last nodes are moved as well.
ShiftedNumbers(nodes, pos) ==
    [i \in DOMAIN nodes |->
        IF i > pos + 1 THEN [nodes[i] EXCEPT !.index = Index(@ + 1)] ELSE nodes[i]]

\* The groups after that of pos have moved by the node inserted before them.
Shifted(nodes, pos) ==
    [i \in DOMAIN nodes |->
        IF i > pos + 1 /\ ~nodes[i].isLast
        THEN [nodes[i] EXCEPT !.index = Index(@ + 1)]
        ELSE nodes[i]]

\* A node equal to an inner node of the group is shared with it, any other is
\* put at the front of the group.
Equal(stored, node) ==
    stored.value = node.value /\ stored.ones = node.ones /\ ~stored.isLast

InsertNode(octets, node, level, pos) ==
    LET start == GroupStart(octets, level, pos)
        same  == {i \in start .. GroupEnd(octets, level, pos) - 1 :
                    Equal(NodeAt(octets, level, i), node)}
        grown == [octets EXCEPT ![level] = InsertAt(@, start + 1, node)]
    IN IF same # {}
       THEN [octets |-> octets, pos |-> CHOOSE i \in same : \A j \in same : i <= j]
       ELSE [octets |-> IF level = 0
                        THEN grown
                        ELSE [grown EXCEPT ![level - 1] = Shifted(@, pos)],
             pos    |-> start]

\* With this one an octet that is full never ends a prefix.
AddPrefixLastByMask(matcher, prefix) ==
    LET Node(k) == [value  |-> prefix.octets[k + 1],
                    ones   |-> prefix.ones[k + 1],
                    isLast |-> prefix.ones[k + 1] < OctetBits,
                    index  |-> IF prefix.ones[k + 1] < OctetBits
                               THEN matcher.lastInsertIndex ELSE NoIndex]
        Step(tree, k) == InsertNode(tree.octets, Node(k), k, tree.pos)
    IN [octets |-> FoldLeft(Step, [octets |-> matcher.octets, pos |-> NoIndex],
                            [k \in 1 .. LastLevel(prefix) + 1 |-> k - 1]).octets,
        lastInsertIndex |-> Index(matcher.lastInsertIndex + 1)]

\* One node per octet down to the one at which the prefix ends, which takes the
\* next rule number.
AddPrefix(matcher, prefix) ==
    LET last == LastLevel(prefix)
        Node(k) == [value  |-> prefix.octets[k + 1],
                    ones   |-> prefix.ones[k + 1],
                    isLast |-> k = last,
                    index  |-> IF k = last THEN matcher.lastInsertIndex ELSE NoIndex]
        Step(tree, k) == InsertNode(tree.octets, Node(k), k, tree.pos)
    IN [octets |-> FoldLeft(Step, [octets |-> matcher.octets, pos |-> NoIndex],
                            [k \in 1 .. last + 1 |-> k - 1]).octets,
        lastInsertIndex |-> Index(matcher.lastInsertIndex + 1)]

-----------------------------------------------------------------------------
\* ipMatchesNetworkOctet: nothing in a node tells the family of its prefix.
OctetMatches(address, level, node) ==
    node.value = Masked(address.octets[level + 1], node.ones)

\* The nodes of a group that the address passes.
MatchingNodes(octets, address, level, from, to) ==
    {i \in from .. to - 1 : OctetMatches(address, level, NodeAt(octets, level, i))}

(***************************************************************************)
(* checkOctet: the rules whose prefix the address is in, of those in       *)
(* "previous".  check is what its loop does with one node that the address *)
(* passes.  A last node whose rule is not in "previous" takes the same     *)
(* branch as an inner one.  The result has a bit for each number below     *)
(* lastInsertIndex, so one that is not below it is written outside.        *)
(***************************************************************************)
MatchingRules(matcher, address, previous) ==
    LET octets == matcher.octets
        check[at \in Levels \X Int] ==
            LET level == at[1]
                node  == NodeAt(octets, level, at[2])
                below == MatchingNodes(octets, address, level + 1,
                                       node.index, GroupEnd(octets, level + 1, at[2]))
            IN IF node.isLast /\ node.index \in previous
               THEN {IF node.index < matcher.lastInsertIndex THEN node.index ELSE Outside}
               ELSE IF level = V6Octets - 1 THEN {Outside}
               ELSE UNION {check[<<level + 1, i>>] : i \in below}
    IN UNION {check[<<0, i>>] :
                i \in MatchingNodes(octets, address, 0, 0, GroupEnd(octets, 0, NoIndex))}

\* What a prefix means: the address is of its family and has its octets.
IsIn(address, prefix) ==
    /\ prefix.family \in {"any", address.family}
    /\ \A k \in DOMAIN prefix.ones :
          Masked(address.octets[k], prefix.ones[k]) = prefix.octets[k]

-----------------------------------------------------------------------------
(***************************************************************************)
(* What a list of prefixes may be like.                                    *)
(***************************************************************************)
IsOfOneFamily(list) ==
    \A i, j \in DOMAIN list : {list[i].family, list[j].family} # {"v4", "v6"}

\* Two prefixes pass through the same n inner nodes.
SharePath(p, q, n) ==
    /\ n <= LastLevel(p) /\ n <= LastLevel(q)
    /\ \A k \in 1 .. n : p.octets[k] = q.octets[k]

\* The rules of a network follow one another, as in a sorted file.
IsGrouped(list) ==
    \A i, j, k \in DOMAIN list : i < j /\ j < k =>
        \A n \in 1 .. V6Octets :
            SharePath(list[i], list[k], n) => SharePath(list[i], list[j], n)
=============================================================================
