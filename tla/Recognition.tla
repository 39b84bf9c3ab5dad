----------------------------- MODULE Recognition -----------------------------
(***************************************************************************)
(* The vocabulary of the recognizer (src/core/types.rs, contact.rs,        *)
(* slot.rs, taps.rs): events, contacts, pending taps, recognition          *)
(* settings, and the pure rules that classify a position, a displacement   *)
(* and a released contact.                                                 *)
(*                                                                         *)
(* Lengths are whole device units on two axes 0..Span; the code divides    *)
(* them by the span and compares f32 fractions, which changes the scale    *)
(* and not the comparison.  An Option of a number is the number or None.   *)
(***************************************************************************)
EXTENDS Integers, Sequences

CONSTANTS
  SlotMin, SlotMax,   \* Capabilities.slot_min, slot_max
  Span,               \* AxisRange of both axes: 0..Span
  TrackingIds,        \* tracking ids the kernel hands out
  Buttons,            \* physical button codes
  Configs,            \* recognition settings a reload can install
  PalmRejection,      \* EngineOptions.palm_rejection (a restart changes it)
  Buttonpad           \* INPUT_PROP_BUTTONPAD

None == -1

Slots == SlotMin..SlotMax
Zones == {"Left", "Right", "Top", "Bottom"}
Directions == {"Up", "Down", "Left", "Right"}
Phases == {"TapCandidate", "Motion", "ConsumedBySlider"}
Kinds == {"Slot", "TrackingId", "X", "Y", "ToolType", "SynDropped"}

FingerTool == 0
PalmTool == 2         \* MT_TOOL_PALM

-----------------------------------------------------------------------------
(* Records *)

Event == [kind : Kinds, value : Int]
SlotEvent(s) == [kind |-> "Slot", value |-> s]
TrackingIdEvent(id) == [kind |-> "TrackingId", value |-> id]
XEvent(x) == [kind |-> "X", value |-> x]
YEvent(y) == [kind |-> "Y", value |-> y]
ToolTypeEvent(t) == [kind |-> "ToolType", value |-> t]
SynDroppedEvent == [kind |-> "SynDropped", value |-> 0]

\* EdgeWidths, EngineOptions and the slider list, without palm_rejection.
\* sliders[z] is the step of zone z's slider, 0 when the zone has none.
ConfigType ==
  [ left : Nat, right : Nat, top : Nat, bottom : Nat,
    swipe_min_distance : Nat \ {0},
    tap_min_duration : Nat, tap_max_duration : Nat,
    double_tap_timeout : Nat \ {0}, double_tap_max_distance : Nat \ {0},
    double_tap_zones : SUBSET Zones, single_tap_zones : SUBSET Zones,
    sliders : [Zones -> Nat] ]

\* Ownership::Claimed(zone) is the zone itself.
Ownerships == {"Unknown", "Passthrough"} \cup Zones

Contact ==
  [ tracking_id : TrackingIds \cup {None}, ownership : Ownerships,
    contact_phase : Phases,
    start_x : Int, start_y : Int, current_x : Int, current_y : Int,
    gesture_rejected : BOOLEAN, began_in_frame : BOOLEAN, started_at : Int,
    tap_sequence_eligible : BOOLEAN, tap_sequence_match : BOOLEAN,
    slider_anchor : Int ]

NewContact(id, started_at, eligible) ==
  [ tracking_id |-> id, ownership |-> "Unknown",
    contact_phase |-> "TapCandidate",
    start_x |-> None, start_y |-> None,
    current_x |-> None, current_y |-> None,
    gesture_rejected |-> FALSE, began_in_frame |-> TRUE,
    started_at |-> started_at,
    tap_sequence_eligible |-> eligible, tap_sequence_match |-> FALSE,
    slider_anchor |-> None ]

\* SlotState.contact = None.
NoContact == [NewContact(None, None, FALSE) EXCEPT !.began_in_frame = FALSE]

RejectGestures(c) ==
  [c EXCEPT !.gesture_rejected = TRUE, !.tap_sequence_eligible = FALSE,
            !.tap_sequence_match = FALSE, !.slider_anchor = None]

\* Mutant: a slider step leaves the contact able to end as a tap.
StepKeepsTap(c) == c

ConsumeBySlider(c) == [c EXCEPT !.contact_phase = "ConsumedBySlider"]

\* A contact rebuilt from a kernel snapshot after lost events.
RestoredContact(id, x, y, tool) ==
  LET c == [NewContact(id, None, TRUE) EXCEPT
              !.ownership = "Passthrough", !.began_in_frame = FALSE,
              !.start_x = x, !.start_y = y,
              !.current_x = x, !.current_y = y]
  IN IF tool = PalmTool THEN RejectGestures(c) ELSE c

Memory == [x : Int, y : Int, tool_type : Int]
NoMemory == [x |-> None, y |-> None, tool_type |-> None]

Gesture ==
  [ zone : Zones, direction : Directions \cup {"Tap", "DoubleTap"},
    slot : Int, tracking_id : Int ]

SliderStep ==
  [zone : Zones, direction : Directions, slot : Int, tracking_id : Int]

PendingTap ==
  [ gesture : Gesture, released_at : Int, x : Int, y : Int,
    emit_single : BOOLEAN ]

\* Engine.pending_tap = None.
NoTap ==
  [ gesture |-> [zone |-> "Left", direction |-> "Tap",
                 slot |-> SlotMin, tracking_id |-> None],
    released_at |-> None, x |-> None, y |-> None, emit_single |-> FALSE ]

-----------------------------------------------------------------------------
(* Rules *)

Distance(a, b) == IF a <= b THEN b - a ELSE a - b
OrElse(a, b) == IF a # None THEN a ELSE b
IsClaimed(c) == c.ownership \in Zones

\* The order of the tests resolves a corner where two edges overlap.
ZoneForPosition(cfg, x, y) ==
  IF x < cfg.left THEN "Left"
  ELSE IF x > Span - cfg.right THEN "Right"
  ELSE IF y < cfg.top THEN "Top"
  ELSE IF y > Span - cfg.bottom THEN "Bottom"
  ELSE "None"

\* Contact::observe_position: either axis reached the swipe distance.
MovedFarEnough(cfg, c) ==
  \/ /\ c.start_x # None /\ c.current_x # None
     /\ Distance(c.start_x, c.current_x) >= cfg.swipe_min_distance
  \/ /\ c.start_y # None /\ c.current_y # None
     /\ Distance(c.start_y, c.current_y) >= cfg.swipe_min_distance

ObservePosition(cfg, c) ==
  IF /\ ~c.gesture_rejected
     /\ c.contact_phase = "TapCandidate"
     /\ MovedFarEnough(cfg, c)
  THEN [c EXCEPT !.contact_phase = "Motion"]
  ELSE c

DirectionForDisplacement(cfg, dx, dy) ==
  LET horizontal == Distance(0, dx) >= Distance(0, dy)
  IN IF /\ Distance(0, dx) < cfg.swipe_min_distance
        /\ Distance(0, dy) < cfg.swipe_min_distance
     THEN "None"
     ELSE IF horizontal THEN (IF dx >= 0 THEN "Right" ELSE "Left")
                        ELSE (IF dy >= 0 THEN "Down" ELSE "Up")

TapDurationIsValid(cfg, started_at, released_at) ==
  \/ started_at = None
  \/ released_at = None
  \/ /\ started_at <= released_at                     \* checked_sub
     /\ released_at - started_at >= cfg.tap_min_duration
     /\ released_at - started_at < cfg.tap_max_duration

\* The direction classify_gesture reports, "None" where it returns None.
ClassifyGesture(cfg, c, released_at) ==
  LET final == DirectionForDisplacement(cfg,
                 OrElse(c.current_x, c.start_x) - c.start_x,
                 OrElse(c.current_y, c.start_y) - c.start_y)
      tap == IF TapDurationIsValid(cfg, c.started_at, released_at)
             THEN "Tap" ELSE "None"
  IN IF c.gesture_rejected \/ c.start_x = None \/ c.start_y = None
        \/ c.contact_phase = "ConsumedBySlider"
     THEN "None"
     ELSE IF final = "None" /\ c.contact_phase = "TapCandidate"
          THEN tap ELSE final

IsVertical(zone) == zone \in {"Left", "Right"}   \* default_slider_axis

SliderPosition(zone, c) == IF IsVertical(zone) THEN c.current_y ELSE c.current_x

SliderDirection(zone, forward) ==
  IF IsVertical(zone) THEN (IF forward THEN "Down" ELSE "Up")
                      ELSE (IF forward THEN "Right" ELSE "Left")

\* Mutant: a second tap may be anywhere in the zone.
MatchAnywhere(cfg, pending, c, zone) ==
  /\ pending.released_at # None
  /\ c.tap_sequence_eligible
  /\ pending.gesture.zone = zone
  /\ c.started_at # None /\ pending.released_at <= c.started_at
  /\ c.started_at - pending.released_at < cfg.double_tap_timeout

\* Does a contact claimed by zone complete the pair the pending tap opened?
ContactMatchesPendingTap(cfg, pending, c, zone) ==
  /\ pending.released_at # None
  /\ c.tap_sequence_eligible
  /\ pending.gesture.zone = zone
  /\ c.started_at # None /\ c.start_x # None /\ c.start_y # None
  /\ pending.released_at <= c.started_at              \* checked_sub
  /\ c.started_at - pending.released_at < cfg.double_tap_timeout
  /\ LET dx == c.start_x - pending.x
         dy == c.start_y - pending.y
     IN dx * dx + dy * dy <=
          cfg.double_tap_max_distance * cfg.double_tap_max_distance

=============================================================================
