------------------------------ MODULE IpRuleTree ------------------------------
(***************************************************************************)
(* The prefixes of one address field are added to its matcher one rule     *)
(* after the other, in the order of the CSV file (RuleBuilder::build), and *)
(* then only looked up.                                                    *)
(***************************************************************************)
EXTENDS IpAddressFieldMatcher

CONSTANTS PrefixSet,     \* the prefixes that rules may give
          AddressSet,    \* the addresses that records may have
          MaxRules      \* bound: rules of a list

ASSUME ListAssumption ==
    /\ \A prefix \in PrefixSet : ShapedPrefix(prefix)
    /\ \A address \in AddressSet : address.octets \in [1 .. V6Octets -> Octet]

VARIABLES matcher,      \* the search tree
          listed        \* the prefixes of the rules so far, rule 0 first

vars == <<matcher, listed>>

Rules == 0 .. Len(listed) - 1

Init == matcher = EmptyMatcher /\ listed = <<>>

\* RuleBuilder::createRuleField for an address field: a prefix or nothing.
AddRule(prefix) ==
    /\ Len(listed) < MaxRules
    /\ matcher' = AddPrefix(matcher, prefix)
    /\ listed' = Append(listed, prefix)

Next == \/ \E prefix \in PrefixSet : AddRule(prefix)
        \/ AddRule(EmptyPrefix)

Spec == Init /\ [][Next]_vars

-----------------------------------------------------------------------------
\* The rules, and with them the nodes of a level, can be numbered.
NumbersSuffice == Len(listed) < IndexModulus

\* Type invariant of the tree: an inner node points into the next level, a last
\* one to a rule, and a value has no bits beyond its mask.
TypeOK ==
    /\ listed \in Seq(PrefixSet \cup {EmptyPrefix})
    /\ matcher.lastInsertIndex = Index(Len(listed))
    /\ NumbersSuffice =>
          \A k \in Levels : \A i \in DOMAIN matcher.octets[k] :
             LET node == matcher.octets[k][i]
             IN /\ node \in [value : Octet, ones : 0 .. OctetBits, isLast : BOOLEAN, index : Nat]
                /\ node.value = Masked(node.value, node.ones)
                /\ IF node.isLast
                   THEN node.index \in Rules
                   ELSE k + 1 \in Levels /\ node.index \in 0 .. Len(matcher.octets[k + 1])

OneFamily == IsOfOneFamily(listed)
Grouped == IsGrouped(listed)

InFamily(address) == \A i \in DOMAIN listed : listed[i].family \in {"any", address.family}

\* The rules whose prefix holds the address.
Holding(address) == {r \in Rules : IsIn(address, listed[r + 1])}

Found(address) == MatchingRules(matcher, address, Rules)

IsLastOf(node, r) == node.isLast /\ node.index = r

\* While the prefixes of a list are of one family, every rule has exactly one
\* last node, at the level at which its prefix ends: no rule is taken for an
\* inner node of another one (insertNode, ipAddressFieldMatcher.cpp:48).
OneLastNodePerRule ==
    NumbersSuffice /\ OneFamily =>
        \A r \in Rules :
            LET last == LastLevel(listed[r + 1])
            IN \E i \in DOMAIN matcher.octets[last] :
                 \A k \in Levels : \A j \in DOMAIN matcher.octets[k] :
                     IsLastOf(matcher.octets[k][j], r) <=> (k = last /\ j = i)

\* In a list of one family in which the rules of a network follow one another,
\* the search of an address of that family finds the rules whose prefix holds
\* it and no other (README.md:35 of listDetector), through every insertion that
\* moves the groups of the later nodes.
GroupedListsAreExact ==
    NumbersSuffice /\ OneFamily /\ Grouped =>
        \A address \in AddressSet : InFamily(address) => Found(address) = Holding(address)

\* "If there is no prefix, the address must match exactly" (README.md:37): a
\* list of one family, in any order, is found exactly.
ListsAreExact ==
    NumbersSuffice /\ OneFamily =>
        \A address \in AddressSet : InFamily(address) => Found(address) = Holding(address)

\* "ignoring IP addresses from rules that can not match"
\* (ipAddressFieldMatcher.hpp:39): a search with some rules ruled out finds
\* those of the full search that are not.
RuledOutAreIgnored ==
    \A address \in AddressSet : \A previous \in SUBSET Rules :
        MatchingRules(matcher, address, previous) = Found(address) \cap previous
=============================================================================
