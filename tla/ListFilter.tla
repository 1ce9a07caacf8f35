------------------------------ MODULE ListFilter ------------------------------
(***************************************************************************)
(* What listDetector promises (its README.md): every record is compared    *)
(* with a list of rules and is sent on when no rule of a whitelist, or     *)
(* some rule of a blacklist, matches it.  The rule that a match is         *)
(* attributed to, for the telemetry, is one that matches.                  *)
(***************************************************************************)
CONSTANTS Records,
          MatchesRule(_, _),   \* MatchesRule(rule, record)
          NoRule               \* not a rule

VARIABLES listed,              \* the rules of the list; NoRule when it cannot be used
          rules,               \* the set of rules in force
          loaded,              \* they have been loaded
          mode,                \* "blacklist" or "whitelist"
          verdict              \* of the last record: itself, whether it was sent
                               \* on, and the rule it is counted for

vars == <<listed, rules, loaded, mode, verdict>>

Init ==
    /\ rules = {} /\ ~loaded
    /\ mode \in {"blacklist", "whitelist"}
    /\ verdict = NoRule

Load ==
    /\ ~loaded /\ loaded'
    /\ listed # NoRule
    /\ rules' = listed
    /\ UNCHANGED <<listed, mode, verdict>>

Matched(record) ==
    /\ \E rule \in rules :
          /\ MatchesRule(rule, record)
          /\ verdict' = [record |-> record, sent |-> mode = "blacklist", rule |-> rule]
    /\ UNCHANGED <<listed, rules, loaded, mode>>

Unmatched(record) ==
    /\ \A rule \in rules : ~MatchesRule(rule, record)
    /\ verdict' = [record |-> record, sent |-> mode = "whitelist", rule |-> NoRule]
    /\ UNCHANGED <<listed, rules, loaded, mode>>

Next == \/ Load
        \/ /\ loaded
           /\ \E record \in Records : Matched(record) \/ Unmatched(record)

Spec == Init /\ [][Next]_vars
=============================================================================
