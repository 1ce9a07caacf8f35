--------------------------- MODULE MCClickhouse ---------------------------
(***************************************************************************)
(* Values for checking Clickhouse: two inserters share two blocks of two   *)
(* rows.  2^64 stands for any modulus far above the longest delay.         *)
(***************************************************************************)
EXTENDS Clickhouse

ClockBothWays == {1, -1}
ClockForward  == {1}

\* an interface that neither fails nor changes to another template
CleanInputs   == {"record", "nothing", "format", "eof"}
RetriedFaults == {"refused", "ackLost"}
\* no answer of the server is lost
AnsweredFaults == {"startup", "refused"}

=============================================================================
