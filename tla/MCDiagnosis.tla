----------------------------- MODULE MCDiagnosis -----------------------------
(* Small instances of Diagnosis for TLC.                                    *)
EXTENDS Diagnosis

\* A touchpad, a touchscreen that is a pointer too, a mouse, and a virtual
\* touchpad of another edgepad.
FourKinds ==
  {[mt |-> TRUE, direct |-> FALSE, pointer |-> TRUE, own |-> FALSE],
   [mt |-> TRUE, direct |-> TRUE, pointer |-> TRUE, own |-> FALSE],
   [mt |-> FALSE, direct |-> FALSE, pointer |-> TRUE, own |-> FALSE],
   [mt |-> TRUE, direct |-> FALSE, pointer |-> TRUE, own |-> TRUE]}

AllCommands ==
  {LogAction} \cup [path : {"bare", "absolute", "relative"}, dirs : SUBSET {"bin"}]

=============================================================================
