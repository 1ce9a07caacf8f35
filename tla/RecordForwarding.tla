-------------------------- MODULE RecordForwarding --------------------------
(***************************************************************************)
(* What the forwarding modules (sampler, telemetry, deduplicator,          *)
(* listDetector) promise of their output: each record of the input is      *)
(* looked at once, in order, and is sent on at most once, in the format it *)
(* came in.  At a rate r every r-th record is sent and no other; at rate 0 *)
(* the module decides.  A module that reads fields says in which format it *)
(* looks their ids up.                                                     *)
(***************************************************************************)
EXTENDS Naturals, Sequences

CONSTANTS Formats, NoFormat, RequiredFormat

VARIABLES
  rate,
  fieldIds,  \* "refreshed" in every format, "kept" from the required one, "none"
  accepted,  \* the formats of the records looked at so far
  sent       \* the records sent on: which one, the format it was sent in, and
             \* the format its fields were looked up in

fvars == <<rate, fieldIds, accepted, sent>>

Init ==
  /\ rate \in Nat /\ fieldIds \in {"refreshed", "kept", "none"}
  /\ accepted = <<>> /\ sent = <<>>

Due(number) == number % rate = 0

\* the format whose ids the fields of a record are read with
LookedUpIn(format) ==
  CASE fieldIds = "refreshed" -> format
    [] fieldIds = "kept"      -> RequiredFormat
    [] fieldIds = "none"      -> NoFormat

Pass(format) ==
  LET number == Len(accepted) + 1
  IN  /\ rate # 0 => Due(number)
      /\ accepted' = Append(accepted, format)
      /\ sent' = Append(sent, [number |-> number, sentAs |-> format,
                               readAs |-> LookedUpIn(format)])
      /\ UNCHANGED <<rate, fieldIds>>

Drop(format) ==
  /\ rate # 0 => ~Due(Len(accepted) + 1)
  /\ accepted' = Append(accepted, format)
  /\ UNCHANGED <<rate, fieldIds, sent>>

Next == \E format \in Formats : Pass(format) \/ Drop(format)

Spec == Init /\ [][Next]_fvars
=============================================================================
