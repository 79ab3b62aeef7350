----------------------------- MODULE MCUrbPhase -----------------------------
(* Instances of UrbPhase for TLC. *)
EXTENDS UrbPhase

\* An IN endpoint whose transfers may block for ever (EP3 IN, or EP2 IN with no
\* stream running) and an OUT endpoint whose transfers always finish (EP1 OUT).
MCInEps    == {"ep3_in"}
MCOutEps   == {"ep1_out"}
MCReadyEps == {"ep1_out"}
=============================================================================
