------------------------------ MODULE Recognizer ------------------------------
(***************************************************************************)
(* What the session relies on in the recognizer: frame by frame, the tap   *)
(* that is owed changes as TapDeadline says.  EngineOwed shows that the    *)
(* engine implements this.                                                 *)
(***************************************************************************)
EXTENDS TapDeadline

VARIABLES
  owed,  \* the tap that is owed, or NoOwed
  time   \* timestamp of the last frame

RecInit == owed = NoOwed /\ time = 0

TakeFrame(touches) ==
  /\ time' \in Nat /\ time' >= time
  /\ owed' \in OwedAfter(owed, touches, time')

\* The deadline passes without input, or input is lost.
Resolve == owed' = NoOwed /\ UNCHANGED time

RecNext == Resolve \/ \E touches \in SUBSET {"Down", "Up"} : TakeFrame(touches)

RecSpec == RecInit /\ [][RecNext]_<<owed, time>>

-----------------------------------------------------------------------------
(* Properties                                                              *)

\* A tap that is owed is due after the last frame and by one of the two
\* durations from it: whoever keeps the alarm never waits longer.
OwedIsPrompt ==
  owed # NoOwed =>
    /\ time < owed.due
    /\ owed.due <= time + TapTimeout \/ owed.due <= time + TapDuration

=============================================================================
