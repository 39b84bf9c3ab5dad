------------------------------ MODULE MCCapture ------------------------------
(* A small instance of Capture for TLC.                                     *)
EXTENDS Capture

\* Kept by both formats, by raw captures under a name, and as a number.
Motion == EventOf("EV_ABS", "ABS_MT_POSITION_X", 3)
FiveFingers == EventOf("EV_KEY", "BTN_TOOL_QUINTTAP", 1)
Switch == EventOf("EV_5", "SW_LID", 1)

SomeExtras == {Motion, FiveFingers, Switch}
AskedOrNot == {None, 2}

=============================================================================
