-------------------------- MODULE MCDeduplicator --------------------------
(***************************************************************************)
(* Two buckets of two slots.  The flow f has two hashes (its padding       *)
(* differs from call to call); three hashes meet in bucket 0.              *)
(***************************************************************************)
EXTENDS Deduplicator

CONSTANTS f, g, h

Hashing == [x \in {f, g, h} |->
  CASE x = f -> {2, 4} [] x = g -> {6} [] OTHER -> {3}]
OneFlow == [x \in {f} |-> {2}]

=============================================================================
