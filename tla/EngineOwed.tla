------------------------------ MODULE EngineOwed ------------------------------
(***************************************************************************)
(* The engine implements Recognizer: frame by frame, its pending tap and   *)
(* the contacts marked as second taps are what the session was told.       *)
(***************************************************************************)
EXTENDS EngineHistory

CONSTANTS TapTimeout, TapDuration   \* of every profile

VARIABLE seen  \* the abstract state: it changes where a call returns

ovars == <<hvars, seen>>

ASSUME ProfilesAssumption ==
  \A cfg \in Configs : /\ cfg.double_tap_timeout = TapTimeout
                       /\ cfg.tap_max_duration = TapDuration
ASSUME TimedAssumption == None \notin Stamps

\* The pending tap, as next_deadline tells of it.
OwedBy(en) ==
  IF HasPendingTap(en)
  THEN [first |-> en.pending_tap.released_at + TapTimeout, due |-> NextDeadline(en)]
  ELSE [first |-> None, due |-> None]

OInit == HInit /\ seen = [owed |-> OwedBy(e), time |-> 0]
ONext ==
  /\ HNext
  /\ seen' = IF phase = "finalize" /\ phase' # "finalize"
             THEN [owed |-> OwedBy(e'), time |-> clock] ELSE seen
OSpec == OInit /\ [][ONext]_ovars

Rec == INSTANCE Recognizer WITH owed <- seen.owed, time <- seen.time

\* docs/double-tap.md: what is owed after a frame, and when it falls due, is one
\* of the outcomes that the session's alarm is made for; after each call it is
\* ahead of the input by no more than one of the two durations (OwedIsPrompt of
\* Recognizer).
ImplementsRecognizer == Rec!RecSpec

=============================================================================
