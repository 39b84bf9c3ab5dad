----------------------------- MODULE TapDeadline -----------------------------
(***************************************************************************)
(* The tap that is owed to the user, as the session sees it: when it falls *)
(* due, and what a frame can make of it (docs/double-tap.md).              *)
(***************************************************************************)
EXTENDS Integers

CONSTANTS
  TapTimeout,   \* double_tap_timeout
  TapDuration   \* tap_max_duration

None == -1

ASSUME TapTimesAssumption == TapTimeout \in Nat \ {0} /\ TapDuration \in Nat \ {0}

\* A tap is [first, due]: when it falls due by itself, and when it does now.  A
\* second tap that is down moves "due" for as long as it can still be one.
NoOwed == [first |-> None, due |-> None]
Owe(t) == [first |-> t + TapTimeout, due |-> t + TapTimeout]
Paired(o, t) == [o EXCEPT !.due = t + TapDuration]
Unpaired(o) == [o EXCEPT !.due = o.first]

\* Engine::expire_pending_tap
Expired(o, t) == IF o.due # None /\ t >= o.due THEN NoOwed ELSE o

\* What a frame of time t with these touches can leave of o.  It can always
\* resolve the tap.  A second tap can turn out to be a palm: the first one
\* keeps its timeout.  A lift can make a tap, and a touch complete the pair.
OwedAfter(o, touches, t) ==
  LET kept == {Expired(o, t), Expired(Unpaired(o), t), NoOwed}
              \cup (IF "Up" \in touches THEN {Owe(t)} ELSE {})
      paired == {Paired(k, t) : k \in {x \in kept : t < x.first}}
  IN kept \cup (IF "Down" \in touches THEN paired ELSE {})

=============================================================================
