----------------------------- MODULE MCIpRuleTree -----------------------------
(***************************************************************************)
(* Addresses of two (IPv4) and three (IPv6) octets of two bits each, of    *)
(* which the values 2 and 3 are used: they differ in their last bit only,  *)
(* so that a prefix may end within an octet and still hold both.  Of the   *)
(* lengths, 0 is left to the empty prefix, and of two that end within an   *)
(* octet of an IPv6 address the later one, 5, is left out.                 *)
(***************************************************************************)
EXTENDS IpRuleTree

Used == {2, 3}
MCAddressSet == [family : {"v4", "v6"}, octets : [1 .. V6Octets -> Used]]

Lengths(family) == IF family = "v4" THEN 1 .. OctetBits * V4Octets ELSE {1, 2, 3, 4, 6}
MCPrefixSet == UNION {{IpAddressPrefix(a, n) : n \in Lengths(a.family)} : a \in MCAddressSet}
=============================================================================
