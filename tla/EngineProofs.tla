----------------------------- MODULE EngineProofs -----------------------------
(***************************************************************************)
(* Theorems about Engine for every value of its constants: the types, the  *)
(* pairing of taps, the events that are held back, and that the engine     *)
(* mirrors the kernel.  Most operations only decide, route and report:     *)
(* Kept says what those leave alone; it composes, so a step is the few     *)
(* fields its event sets, followed by an operation that keeps them.        *)
(* The last parts say what the operations do to reports and sliders, for   *)
(* EngineHistoryProofs.                                                    *)
(***************************************************************************)
EXTENDS Engine, FiniteSetTheorems, WellFoundedInduction, TLAPS

LEMMA NoTapType == NoTap \in PendingTap
BY SlotsAssumption DEF NoTap, PendingTap, Gesture, None, Zones, Directions

LEMMA MatchUpdate ==
  ASSUME NEW c \in Contact, NEW b \in BOOLEAN
  PROVE  [c EXCEPT !.tap_sequence_match = b] \in Contact
BY DEF Contact

LEMMA SetContact ==
  ASSUME NEW en \in EngineState, NEW s \in Slots, NEW c \in Contact
  PROVE  [en EXCEPT !.contact[s] = c] \in EngineState
BY DEF EngineState

LEMMA SetHeldEvents ==
  ASSUME NEW en \in EngineState, NEW s \in Slots, NEW events \in Seq(Event)
  PROVE  [en EXCEPT !.held_events[s] = events] \in EngineState
BY DEF EngineState

LEMMA EngineFields ==
  ASSUME NEW en \in EngineState, NEW s \in Slots
  PROVE  /\ en.contact[s] \in Contact
         /\ en.memory[s] \in Memory
         /\ en.held_events[s] \in Seq(Event)
         /\ en.current_slot \in Slots
         /\ en.cfg \in ConfigType
         /\ en.pending_tap \in PendingTap
BY ConfigsAssumption DEF EngineState

LEMMA ContactFields ==
  ASSUME NEW c \in Contact
  PROVE  /\ c.tracking_id \in TrackingIds \cup {None} /\ c.tracking_id \in Int
         /\ c.current_x \in Int /\ c.current_y \in Int
         /\ c.start_x \in Int /\ c.start_y \in Int
         /\ c.slider_anchor \in Int
<1>1. /\ c.tracking_id \in TrackingIds \cup {None}
      /\ c.current_x \in Int /\ c.current_y \in Int
      /\ c.start_x \in Int /\ c.start_y \in Int
      /\ c.slider_anchor \in Int
  BY DEF Contact
<1>2. TrackingIds \cup {None} \subseteq Int
  BY IdsAssumption DEF None
<1> QED
  BY <1>1, <1>2

LEMMA FlushType ==
  ASSUME NEW en \in EngineState
  PROVE  FlushPendingTap(en) \in EngineState
<1>1. \A s \in Slots : [en.contact[s] EXCEPT !.tap_sequence_match = FALSE] \in Contact
  BY MatchUpdate DEF EngineState
<1>2. en.pending_tap.gesture \in Gesture
  BY DEF EngineState, PendingTap
<1>3. Append(en.gestures, en.pending_tap.gesture) \in Seq(Gesture)
  BY <1>2 DEF EngineState
<1> QED
  BY <1>1, <1>3, NoTapType DEF FlushPendingTap, EngineState

LEMMA WithoutPairingType ==
  ASSUME NEW en \in EngineState
  PROVE  WithoutPairing(en) \in EngineState
<1>1. \A c \in Contact :
        [c EXCEPT !.tap_sequence_eligible = FALSE,
                  !.tap_sequence_match = FALSE] \in Contact
  BY DEF Contact
<1> QED
  BY <1>1 DEF WithoutPairing, EngineState

LEMMA InterruptType ==
  ASSUME NEW en \in EngineState
  PROVE  InterruptTapSequence(en) \in EngineState
BY FlushType, WithoutPairingType DEF InterruptTapSequence

LEMMA ExpireType ==
  ASSUME NEW en \in EngineState, NEW t
  PROVE  ExpirePendingTap(en, t) \in EngineState
BY FlushType DEF ExpirePendingTap

LEMMA PushGestureType ==
  ASSUME NEW en \in EngineState, NEW g \in Gesture
  PROVE  PushGesture(en, g) \in EngineState
<1>1. Append(en.gestures, g) \in Seq(Gesture)
  BY DEF EngineState
<1> QED
  BY <1>1 DEF PushGesture, EngineState

LEMMA HandleClassifiedType ==
  ASSUME NEW en \in EngineState, NEW g \in Gesture, NEW c \in Contact,
         NEW t \in Int
  PROVE  HandleClassifiedGesture(en, g, c, t) \in EngineState
<1> DEFINE x == OrElse(c.current_x, c.start_x)
           y == OrElse(c.current_y, c.start_y)
           single == g.zone \in en.cfg.single_tap_zones
           tap == [gesture |-> g, released_at |-> t, x |-> x, y |-> y,
                   emit_single |-> single]
<1>1. x \in Int /\ y \in Int
  BY DEF OrElse, Contact
<1>2. tap \in PendingTap
  BY <1>1 DEF PendingTap
<1>3. [FlushPendingTap(en) EXCEPT !.pending_tap = tap] \in EngineState
  <2> HIDE DEF tap
  <2> QED BY <1>2, FlushType DEF EngineState
<1>4. [g EXCEPT !.direction = "DoubleTap"] \in Gesture
  BY DEF Gesture
<1>5. [en EXCEPT !.pending_tap = NoTap] \in EngineState
  BY NoTapType DEF EngineState
<1> QED
  BY <1>3, <1>4, <1>5, FlushType, PushGestureType DEF HandleClassifiedGesture

LEMMA PushPassthroughType ==
  ASSUME NEW en \in EngineState, NEW s \in Slots, NEW events \in Seq(Event)
  PROVE  PushPassthrough(en, s, events) \in EngineState
<1>1. SlotEvent(s) \in Event
  BY SlotsAssumption DEF SlotEvent, Event, Kinds, Slots
<1>2. en.passthrough \in Seq(Event)
  BY DEF EngineState
<1>3. (en.passthrough \o <<SlotEvent(s)>>) \o events \in Seq(Event)
  BY <1>1, <1>2
<1>4. (en.passthrough \o <<>>) \o events \in Seq(Event)
  BY <1>2
<1> QED
  BY <1>3, <1>4 DEF PushPassthrough, EngineState

LEMMA RouteEventType ==
  ASSUME NEW en \in EngineState, NEW event \in Event
  PROVE  RouteEvent(en, event) \in EngineState
<1>1. en.current_slot \in Slots
  BY DEF EngineState
<1>2. PushPassthrough(en, en.current_slot, <<event>>) \in EngineState
  <2>1. <<event>> \in Seq(Event)
    OBVIOUS
  <2> QED BY <1>1, <2>1, PushPassthroughType
<1>3. [en EXCEPT !.held_events[en.current_slot] = Append(@, event)]
        \in EngineState
  <2>1. Append(en.held_events[en.current_slot], event) \in Seq(Event)
    BY <1>1 DEF EngineState
  <2> QED BY <1>1, <2>1 DEF EngineState
<1> QED
  BY <1>2, <1>3 DEF RouteEvent

LEMMA ToolEventType ==
  ASSUME NEW t \in Int
  PROVE  (IF t = None THEN <<>> ELSE <<ToolTypeEvent(t)>>) \in Seq(Event)
<1>1. ToolTypeEvent(t) \in Event
  BY DEF ToolTypeEvent, Event, Kinds
<1> QED
  BY <1>1

LEMMA PassContactThroughType ==
  ASSUME NEW en \in EngineState, NEW s \in Slots
  PROVE  PassContactThrough(en, s) \in EngineState
<1> DEFINE owned == [en EXCEPT !.contact[s].ownership = "Passthrough",
                               !.held_events[s] = <<>>]
           settled == IF en.contact[s].gesture_rejected
                      THEN owned ELSE FlushPendingTap(owned)
           tool == en.memory[s].tool_type
           replayed == PushPassthrough(settled, s, en.held_events[s])
<1> DEFINE forwarded == [en.contact[s] EXCEPT !.ownership = "Passthrough"]
<1>1. forwarded \in Contact
  <2>1. \A c \in Contact : [c EXCEPT !.ownership = "Passthrough"] \in Contact
    BY DEF Contact, Ownerships
  <2> QED BY <2>1, EngineFields
<1>2. owned \in EngineState
  <2>1. [en EXCEPT !.contact[s] = forwarded] \in EngineState
    BY <1>1, SetContact
  <2>2. <<>> \in Seq(Event)
    OBVIOUS
  <2>3. [[en EXCEPT !.contact[s] = forwarded] EXCEPT !.held_events[s] = <<>>]
           \in EngineState
    BY <2>1, <2>2, SetHeldEvents
  <2> QED BY <2>3
<1>3. settled \in EngineState
  BY <1>2, FlushType
<1>4. replayed \in EngineState
  <2>1. en.held_events[s] \in Seq(Event)
    BY DEF EngineState
  <2> QED BY <1>3, <2>1, PushPassthroughType
<1>5. tool \in Int
  BY DEF EngineState, Memory
<1> QED
  BY <1>4, <1>5, ToolEventType, PushPassthroughType DEF PassContactThrough

LEMMA ConfigInForce ==
  ASSUME NEW en \in EngineState, NEW zone \in Zones
  PROVE  en.cfg \in ConfigType /\ en.cfg.sliders[zone] \in Nat
BY ConfigsAssumption DEF EngineState, ConfigType

LEMMA SliderPositionType ==
  ASSUME NEW c \in Contact, NEW zone
  PROVE  SliderPosition(zone, c) \in Int
BY DEF SliderPosition, Contact

LEMMA ClaimContactType ==
  ASSUME NEW en \in EngineState, NEW s \in Slots, NEW zone \in Zones
  PROVE  ClaimContact(en, s, zone) \in EngineState
<1> DEFINE c == en.contact[s]
           match == /\ ~c.gesture_rejected
                    /\ ContactMatchesPendingTap(en.cfg, en.pending_tap, c, zone)
           settled == IF HasPendingTap(en) /\ ~match /\ ~c.gesture_rejected
                      THEN FlushPendingTap(en) ELSE en
           anchor == IF en.cfg.sliders[zone] > 0
                     THEN SliderPosition(zone, c) ELSE None
<1>1. settled \in EngineState
  BY FlushType
<1>2. anchor \in Int
  BY SliderPositionType DEF EngineState, None
<1>3. match \in BOOLEAN
  BY DEF ContactMatchesPendingTap
<1> DEFINE claimed == [settled.contact[s] EXCEPT !.ownership = zone,
                                              !.slider_anchor = anchor,
                                              !.tap_sequence_match = match]
<1>4. claimed \in Contact
  <2>1. \A d \in Contact, a \in Int, b \in BOOLEAN :
          [d EXCEPT !.ownership = zone, !.slider_anchor = a,
                    !.tap_sequence_match = b] \in Contact
    BY DEF Contact, Ownerships
  <2>2. settled.contact[s] \in Contact
    BY <1>1, EngineFields
  <2> HIDE DEF settled, anchor, match
  <2> QED BY <1>2, <1>3, <2>1, <2>2
<1>5. [[settled EXCEPT !.contact[s] = claimed] EXCEPT !.held_events[s] = <<>>]
        \in EngineState
  <2>1. [settled EXCEPT !.contact[s] = claimed] \in EngineState
    BY <1>1, <1>4, SetContact
  <2>2. <<>> \in Seq(Event)
    OBVIOUS
  <2> QED BY <2>1, <2>2, SetHeldEvents
<1>6. [settled EXCEPT !.contact[s].ownership = zone,
                      !.contact[s].slider_anchor = anchor,
                      !.contact[s].tap_sequence_match = match,
                      !.held_events[s] = <<>>]
      = [[settled EXCEPT !.contact[s] = claimed] EXCEPT !.held_events[s] = <<>>]
  <2> HIDE DEF settled, anchor, match
  <2> QED BY <1>1 DEF EngineState
<1> QED
  BY <1>5, <1>6 DEF ClaimContact

LEMMA ZoneType ==
  ASSUME NEW cfg, NEW x, NEW y
  PROVE  ZoneForPosition(cfg, x, y) \in Zones \cup {"None"}
BY DEF ZoneForPosition, Zones

LEMMA DecideType ==
  ASSUME NEW en \in EngineState, NEW s \in Slots
  PROVE  DecideOwnershipIfReady(en, s) \in EngineState
<1>1. ZoneForContact(en, s) \in Zones \cup {"None"}
  BY ZoneType DEF ZoneForContact
<1> QED
  BY <1>1, ClaimContactType, PassContactThroughType DEF DecideOwnershipIfReady

LEMMA DownEventsType ==
  ASSUME NEW s \in Slots, NEW id \in Int, NEW x \in Int, NEW y \in Int,
         NEW tool \in Int
  PROVE  DownEvents(s, id, x, y, tool) \in Seq(Event)
<1>1. /\ SlotEvent(s) \in Event /\ TrackingIdEvent(id) \in Event
      /\ XEvent(x) \in Event /\ YEvent(y) \in Event
  BY SlotsAssumption
  DEF SlotEvent, TrackingIdEvent, XEvent, YEvent, Event, Kinds, Slots
<1>2. <<SlotEvent(s), TrackingIdEvent(id), XEvent(x), YEvent(y)>> \in Seq(Event)
  BY <1>1
<1> QED
  BY <1>2, ToolEventType DEF DownEvents

LEMMA PromoteType ==
  ASSUME NEW en \in EngineState
  PROVE  PromoteClaimedContacts(en) \in EngineState
<1> DEFINE promoted(s) == [en.contact[s] EXCEPT !.ownership = "Passthrough",
                                                !.slider_anchor = None]
           down(s) == DownEvents(s, en.contact[s].tracking_id,
                                 en.contact[s].current_x, en.contact[s].current_y,
                                 en.memory[s].tool_type)
<1>1. \A s \in Slots : promoted(s) \in Contact
  <2>1. \A c \in Contact, a \in Int :
          [c EXCEPT !.ownership = "Passthrough", !.slider_anchor = a] \in Contact
    BY DEF Contact, Ownerships
  <2>2. None \in Int
    BY DEF None
  <2> QED BY <2>1, <2>2, EngineFields
<1>2. \A s \in Slots : down(s) \in Seq(Event)
  <2> SUFFICES ASSUME NEW s \in Slots PROVE down(s) \in Seq(Event)
    OBVIOUS
  <2>1. en.contact[s] \in Contact /\ en.memory[s] \in Memory
    BY EngineFields
  <2>2. /\ en.contact[s].tracking_id \in Int /\ en.contact[s].current_x \in Int
        /\ en.contact[s].current_y \in Int /\ en.memory[s].tool_type \in Int
    BY <2>1, ContactFields DEF Memory
  <2> QED BY <2>2, DownEventsType
<1> HIDE DEF promoted, down
<1>3. [s \in Slots |-> IF CanPromote(en, s) THEN promoted(s) ELSE en.contact[s]]
        \in [Slots -> Contact]
  BY <1>1, EngineFields
<1>4. [s \in Slots |-> IF CanPromote(en, s) THEN down(s) ELSE en.downs[s]]
        \in [Slots -> Seq(Event)]
  BY <1>2 DEF EngineState
<1>5. PromoteClaimedContacts(en) =
        [en EXCEPT
           !.contact = [s \in Slots |-> IF CanPromote(en, s) THEN promoted(s)
                                                           ELSE en.contact[s]],
           !.downs = [s \in Slots |-> IF CanPromote(en, s) THEN down(s)
                                                         ELSE en.downs[s]]]
  BY DEF PromoteClaimedContacts, promoted, down
<1> QED
  BY <1>3, <1>4, <1>5 DEF EngineState

LEMMA DistanceType ==
  ASSUME NEW a \in Int, NEW b \in Int
  PROVE  Distance(a, b) \in Nat
BY DEF Distance

LEMMA StepCountType ==
  ASSUME NEW distance \in Nat, NEW step \in Nat, step > 0
  PROVE  StepCount(distance, step) \in Nat
BY DEF StepCount

LEMMA SliderDirectionType ==
  ASSUME NEW zone, NEW forward
  PROVE  SliderDirection(zone, forward) \in Directions
BY DEF SliderDirection, Directions

LEMMA TakeStepsType ==
  ASSUME NEW en \in EngineState, NEW s \in Slots, NEW count \in Nat,
         IsClaimed(en.contact[s])
  PROVE  TakeSliderSteps(en, s, count) \in EngineState
<1> DEFINE c == en.contact[s]
           forward == SliderPosition(c.ownership, c) >= c.slider_anchor
           travel == count * en.cfg.sliders[c.ownership]
           anchor == IF forward THEN c.slider_anchor + travel
                                ELSE c.slider_anchor - travel
           one == [zone |-> c.ownership,
                   direction |-> SliderDirection(c.ownership, forward),
                   slot |-> s, tracking_id |-> c.tracking_id]
           stepped == [ConsumeBySlider(c) EXCEPT !.slider_anchor = anchor]
           moved == [en EXCEPT !.contact[s] = stepped]
           steps == en.slider_steps \o [i \in 1..count |-> one]
<1>1. c \in Contact /\ c.ownership \in Zones
  BY EngineFields DEF IsClaimed
<1>2. c.slider_anchor \in Int /\ c.tracking_id \in Int
  BY <1>1, ContactFields
<1>3. travel \in Int
  BY <1>1, ConfigInForce
<1>4. anchor \in Int
  <2> HIDE DEF travel, c
  <2> QED BY <1>2, <1>3
<1>5. one \in SliderStep
  BY <1>1, <1>2, SliderDirectionType, SlotsAssumption DEF SliderStep, Slots
<1>6. steps \in Seq(SliderStep)
  <2>1. en.slider_steps \in Seq(SliderStep)
    BY DEF EngineState
  <2> HIDE DEF one
  <2>2. [i \in 1..count |-> one] \in Seq(SliderStep)
    BY <1>5
  <2> QED BY <2>1, <2>2
<1>7. stepped \in Contact
  <2>1. \A d \in Contact, a \in Int :
          [ConsumeBySlider(d) EXCEPT !.slider_anchor = a] \in Contact
    BY DEF Contact, Phases, ConsumeBySlider
  <2> HIDE DEF c, anchor
  <2> QED BY <1>1, <1>4, <2>1
<1>8. moved \in EngineState
  <2> HIDE DEF stepped
  <2> QED BY <1>7, SetContact
<1>9. [moved EXCEPT !.slider_steps = steps] \in EngineState
  <2>1. \A d \in EngineState, q \in Seq(SliderStep) :
          [d EXCEPT !.slider_steps = q] \in EngineState
    BY DEF EngineState
  <2> HIDE DEF moved, steps
  <2> QED BY <1>6, <1>8, <2>1
<1>10. TakeSliderSteps(en, s, count) = [moved EXCEPT !.slider_steps = steps]
  <2>1. TakeSliderSteps(en, s, count) =
          [en EXCEPT !.contact[s] = stepped,
                     !.slider_steps = @ \o [i \in 1..count |-> one]]
    BY DEF TakeSliderSteps, ConsumeBySlider
  <2> HIDE DEF stepped, one
  <2> QED BY <2>1 DEF EngineState
<1> QED
  BY <1>9, <1>10

LEMMA EmitType ==
  ASSUME NEW en \in EngineState, NEW s \in Slots
  PROVE  EmitSliderStepsIfReady(en, s) \in EngineState
<1> DEFINE c == en.contact[s]
           position == SliderPosition(c.ownership, c)
           count == StepCount(Distance(c.slider_anchor, position),
                              en.cfg.sliders[c.ownership])
           anchored == [c EXCEPT !.slider_anchor = position]
<1> SUFFICES ASSUME IsClaimed(c), en.cfg.sliders[c.ownership] > 0
             PROVE  EmitSliderSteps(en, s) \in EngineState
  BY DEF EmitSliderStepsIfReady
<1>1. c \in Contact /\ c.ownership \in Zones
  BY EngineFields DEF IsClaimed
<1>2. position \in Int
  BY <1>1, SliderPositionType
<1>3. count \in Nat
  BY <1>1, <1>2, ConfigInForce, ContactFields, DistanceType, StepCountType
<1>4. TakeSliderSteps(en, s, count) \in EngineState
  <2> HIDE DEF count
  <2> QED BY <1>3, TakeStepsType
<1>5. [en EXCEPT !.contact[s].slider_anchor = position] \in EngineState
  <2>1. anchored \in Contact
    <3>1. \A d \in Contact, a \in Int : [d EXCEPT !.slider_anchor = a] \in Contact
      BY DEF Contact
    <3> HIDE DEF c, position
    <3> QED BY <1>1, <1>2, <3>1
  <2>2. [en EXCEPT !.contact[s] = anchored] \in EngineState
    BY <2>1, SetContact
  <2> HIDE DEF position
  <2> QED BY <2>2
<1> QED
  BY <1>4, <1>5, FlushType DEF EmitSliderSteps

LEMMA DecideAndSlideType ==
  ASSUME NEW en \in EngineState, NEW s \in Slots
  PROVE  DecideAndSlide(en, s) \in EngineState
BY DecideType, EmitType DEF DecideAndSlide

LEMMA PlacedType ==
  ASSUME NEW en \in EngineState, NEW s \in Slots
  PROVE  LET c == en.contact[s]
             x == OrElse(c.current_x, en.memory[s].x)
             y == OrElse(c.current_y, en.memory[s].y)
             placed == [c EXCEPT !.current_x = x, !.current_y = y,
                                 !.start_x = OrElse(@, x),
                                 !.start_y = OrElse(@, y),
                                 !.began_in_frame = FALSE]
         IN [en EXCEPT !.contact[s] = placed] \in EngineState
<1> DEFINE c == en.contact[s]
           x == OrElse(c.current_x, en.memory[s].x)
           y == OrElse(c.current_y, en.memory[s].y)
           placed == [c EXCEPT !.current_x = x, !.current_y = y,
                               !.start_x = OrElse(@, x),
                               !.start_y = OrElse(@, y),
                               !.began_in_frame = FALSE]
<1>1. c \in Contact /\ en.memory[s] \in Memory
  BY EngineFields
<1>2. x \in Int /\ y \in Int
  BY <1>1, ContactFields DEF OrElse, Memory
<1>3. OrElse(c.start_x, x) \in Int /\ OrElse(c.start_y, y) \in Int
  BY <1>1, <1>2, ContactFields DEF OrElse
<1>4. placed \in Contact
  <2>1. \A d \in Contact, i, j, k, l \in Int :
          [d EXCEPT !.current_x = i, !.current_y = j, !.start_x = k,
                    !.start_y = l, !.began_in_frame = FALSE] \in Contact
    BY DEF Contact
  <2>2. placed = [c EXCEPT !.current_x = x, !.current_y = y,
                           !.start_x = OrElse(c.start_x, x),
                           !.start_y = OrElse(c.start_y, y),
                           !.began_in_frame = FALSE]
    <3> HIDE DEF x, y
    <3> QED BY <1>1 DEF Contact
  <2> HIDE DEF c, x, y, placed
  <2> QED BY <1>1, <1>2, <1>3, <2>1, <2>2
<1> QED
  BY <1>4, SetContact

LEMMA FinalizeContactType ==
  ASSUME NEW en \in EngineState, NEW s \in Slots
  PROVE  FinalizeContact(en, s) \in EngineState
BY PlacedType, DecideAndSlideType DEF FinalizeContact

LEMMA DirectionType ==
  ASSUME NEW cfg, NEW c, NEW t
  PROVE  ClassifyGesture(cfg, c, t) \in Directions \cup {"Tap", "None"}
<1>1. \A dx, dy : DirectionForDisplacement(cfg, dx, dy) \in Directions \cup {"None"}
  BY DEF DirectionForDisplacement, Directions
<1> QED
  BY <1>1 DEF ClassifyGesture

LEMMA ReleaseClaimedType ==
  ASSUME NEW en \in EngineState, NEW s \in Slots, NEW c \in Contact,
         IsClaimed(c), NEW t \in Int
  PROVE  ReleaseClaimed(en, s, c, t) \in EngineState
<1> DEFINE direction == ClassifyGesture(en.cfg, c, t)
           g == [zone |-> c.ownership, direction |-> direction, slot |-> s,
                 tracking_id |-> c.tracking_id]
<1>1. ASSUME direction # "None" PROVE g \in Gesture
  <2>1. direction \in Directions \cup {"Tap", "DoubleTap"}
    BY <1>1, DirectionType
  <2>2. c.ownership \in Zones /\ c.tracking_id \in Int /\ s \in Int
    BY ContactFields, SlotsAssumption DEF IsClaimed, Slots
  <2> HIDE DEF direction
  <2> QED BY <2>1, <2>2 DEF Gesture
<1> QED
  BY <1>1, FlushType, HandleClassifiedType DEF ReleaseClaimed

LEMMA NoContactType == NoContact \in Contact
<1> DEFINE new == NewContact(None, None, FALSE)
<1>1. new \in Contact
  BY DEF NewContact, Contact, None, Ownerships, Phases
<1>2. [new EXCEPT !.began_in_frame = FALSE] \in Contact
  <2> HIDE DEF new
  <2> QED BY <1>1 DEF Contact
<1> QED
  BY <1>2 DEF NoContact

LEMMA RejectType ==
  ASSUME NEW c \in Contact
  PROVE  RejectGestures(c) \in Contact
<1>1. \A a \in Int :
        [c EXCEPT !.gesture_rejected = TRUE, !.tap_sequence_eligible = FALSE,
                  !.tap_sequence_match = FALSE, !.slider_anchor = a] \in Contact
  BY DEF Contact
<1>2. None \in Int
  BY DEF None
<1> QED
  BY <1>1, <1>2 DEF RejectGestures

LEMMA LiftedType ==
  ASSUME NEW en \in EngineState, NEW s \in Slots
  PROVE  [en EXCEPT !.contact[s] = NoContact, !.held_events[s] = <<>>]
           \in EngineState
<1>1. [en EXCEPT !.contact[s] = NoContact] \in EngineState
  BY NoContactType, SetContact
<1>2. <<>> \in Seq(Event)
  OBVIOUS
<1>3. [[en EXCEPT !.contact[s] = NoContact] EXCEPT !.held_events[s] = <<>>]
        \in EngineState
  BY <1>1, <1>2, SetHeldEvents
<1> QED BY <1>3

LEMMA ReleaseCurrentType ==
  ASSUME NEW en \in EngineState, NEW event \in Event, NEW t \in Int
  PROVE  ReleaseCurrentSlot(en, event, t) \in EngineState
<1> DEFINE s == en.current_slot
           c == en.contact[s]
           lifted == [en EXCEPT !.contact[s] = NoContact, !.held_events[s] = <<>>]
<1>1. s \in Slots /\ c \in Contact /\ en.held_events[s] \in Seq(Event)
  <2>1. s \in Slots
    BY DEF EngineState
  <2> QED BY <2>1, EngineFields
<1>2. lifted \in EngineState
  BY <1>1, LiftedType
<1>3. [en EXCEPT !.held_events[s] = Append(@, event)] \in EngineState
  <2>1. Append(en.held_events[s], event) \in Seq(Event)
    BY <1>1
  <2> QED BY <1>1, <2>1, SetHeldEvents
<1>4. PushPassthrough(lifted, s, <<event>>) \in EngineState
  <2>1. <<event>> \in Seq(Event)
    OBVIOUS
  <2> QED BY <1>1, <1>2, <2>1, PushPassthroughType
<1>5. IsClaimed(c) => ReleaseClaimed(lifted, s, c, t) \in EngineState
  BY <1>1, <1>2, ReleaseClaimedType
<1> HIDE DEF lifted
<1> QED
  BY <1>2, <1>3, <1>4, <1>5 DEF ReleaseCurrentSlot, lifted

LEMMA ResetType ==
  ASSUME NEW en \in EngineState
  PROVE  ResetForResync(en) \in EngineState
<1>1. /\ [s \in Slots |-> NoMemory] \in [Slots -> Memory]
      /\ [s \in Slots |-> NoContact] \in [Slots -> Contact]
      /\ SlotMin \in Slots
  BY NoContactType, SlotsAssumption DEF NoMemory, Memory, None, Slots
<1>2. [s \in Slots |-> <<>>] \in [Slots -> Seq(Event)]
  OBVIOUS
<1> QED
  BY <1>1, <1>2, NoTapType DEF ResetForResync, EngineState

LEMMA SeededMemoryType ==
  ASSUME NEW memory \in [Slots -> Memory]
  PROVE  SeededMemory(memory) \in [Slots -> Memory]
<1>1. \A m \in Memory : [m EXCEPT !.tool_type = None] \in Memory
  BY DEF Memory, None
<1> QED
  BY <1>1 DEF SeededMemory

LEMMA NewEngineType ==
  ASSUME NEW cfg \in Configs, NEW memory \in [Slots -> Memory]
  PROVE  NewEngine(cfg, memory) \in EngineState
<1>1. [s \in Slots |-> NoContact] \in [Slots -> Contact] /\ SlotMin \in Slots
  BY NoContactType, SlotsAssumption DEF Slots
<1>2. [s \in Slots |-> <<>>] \in [Slots -> Seq(Event)]
  OBVIOUS
<1> QED
  BY <1>1, <1>2, NoTapType DEF NewEngine, EngineState

LEMMA ClearOutputType ==
  ASSUME NEW en \in EngineState
  PROVE  ClearOutput(en) \in EngineState
<1>1. [s \in Slots |-> <<>>] \in [Slots -> Seq(Event)]
  OBVIOUS
<1>2. /\ <<>> \in Seq(Event) /\ <<>> \in Seq(Gesture)
      /\ <<>> \in Seq(SliderStep)
  OBVIOUS
<1>3. \A d \in EngineState, q \in [Slots -> Seq(Event)] :
        [d EXCEPT !.downs = q] \in EngineState
  BY DEF EngineState
<1>4. \A d \in EngineState, q \in Seq(Event) :
        [d EXCEPT !.passthrough = q] \in EngineState
  BY DEF EngineState
<1>5. \A d \in EngineState, q \in Seq(Gesture) :
        [d EXCEPT !.gestures = q] \in EngineState
  BY DEF EngineState
<1>6. \A d \in EngineState, q \in Seq(SliderStep) :
        [d EXCEPT !.slider_steps = q, !.resync_required = FALSE] \in EngineState
  BY DEF EngineState
<1> DEFINE d1 == [en EXCEPT !.downs = [s \in Slots |-> <<>>]]
           d2 == [d1 EXCEPT !.passthrough = <<>>]
           d3 == [d2 EXCEPT !.gestures = <<>>]
           d4 == [d3 EXCEPT !.slider_steps = <<>>, !.resync_required = FALSE]
<1>7. d1 \in EngineState
  BY <1>1, <1>3
<1>8. d2 \in EngineState
  <2> HIDE DEF d1
  <2> QED BY <1>2, <1>4, <1>7
<1>9. d3 \in EngineState
  <2> HIDE DEF d2
  <2> QED BY <1>2, <1>5, <1>8
<1>10. d4 \in EngineState
  <2> HIDE DEF d3
  <2> QED BY <1>2, <1>6, <1>9
<1> QED
  BY <1>10 DEF ClearOutput

\* A set of slots that is not empty has a last one.
LEMMA LastSlotExists ==
  ASSUME NEW S \in SUBSET Slots, S # {}
  PROVE  \E s \in S : \A r \in S : r <= s
<1>1. S \subseteq Int /\ \A s \in S : SlotMin <= s /\ s <= SlotMax
  BY SlotsAssumption DEF Slots
<1> DEFINE T == {SlotMax - s : s \in S}
<1>2. T \subseteq Nat /\ T # {}
  <2>1. \A s \in S : SlotMax - s \in Nat
    BY <1>1, SlotsAssumption
  <2>2. PICK s \in S : TRUE
    OBVIOUS
  <2>3. SlotMax - s \in T
    BY <2>2
  <2> QED BY <2>1, <2>3
<1>3. PICK x \in T : \A y \in T : ~ (<<y, x>> \in OpToRel(<, Nat))
  <2> HIDE DEF T
  <2> QED BY <1>2, WFMin, NatLessThanWellFounded
<1>4. \A y \in T : x <= y
  <2> HIDE DEF T
  <2> SUFFICES ASSUME NEW y \in T, y < x PROVE FALSE
    BY <1>2
  <2>1. <<y, x>> \in OpToRel(<, Nat)
    BY <1>2 DEF OpToRel
  <2> QED BY <1>3, <2>1
<1>5. PICK s \in S : x = SlotMax - s
  OBVIOUS
<1>6. ASSUME NEW r \in S PROVE r <= s
  <2>1. SlotMax - s <= SlotMax - r
    BY <1>4, <1>5
  <2> QED BY <1>1, <2>1, SlotsAssumption
<1> QED
  BY <1>6

LEMMA RestoredContactType ==
  ASSUME NEW id \in TrackingIds \cup {None}, NEW x \in Int, NEW y \in Int,
         NEW tool
  PROVE  LET c == RestoredContact(id, x, y, tool)
         IN /\ c \in Contact
            /\ c.tracking_id = id /\ c.ownership = "Passthrough"
            /\ c.gesture_rejected => ~c.tap_sequence_eligible
            /\ ~c.tap_sequence_match
<1> DEFINE new == NewContact(id, None, TRUE)
           c == [new EXCEPT !.ownership = "Passthrough",
                            !.began_in_frame = FALSE,
                            !.start_x = x, !.start_y = y,
                            !.current_x = x, !.current_y = y]
           rejected == RejectGestures(c)
<1>1. new \in Contact
  BY DEF NewContact, Contact, None, Ownerships, Phases
<1>2. /\ new.tracking_id = id /\ ~new.gesture_rejected
      /\ ~new.tap_sequence_match
  BY DEF NewContact
<1>3. c \in Contact
  <2> HIDE DEF new
  <2> QED BY <1>1 DEF Contact, Ownerships
<1>4. /\ c.tracking_id = id /\ c.ownership = "Passthrough"
      /\ ~c.gesture_rejected /\ ~c.tap_sequence_match
  <2> HIDE DEF new
  <2> QED BY <1>1, <1>2 DEF Contact
<1> HIDE DEF c
<1>5. rejected \in Contact
  BY <1>3, RejectType
<1>6. /\ rejected.tracking_id = id /\ rejected.ownership = "Passthrough"
      /\ ~rejected.tap_sequence_eligible /\ ~rejected.tap_sequence_match
  BY <1>3, <1>4 DEF RejectGestures, Contact
<1>7. RestoredContact(id, x, y, tool) = IF tool = PalmTool THEN rejected ELSE c
  BY DEF RestoredContact, c
<1> HIDE DEF rejected
<1> QED
  BY <1>3, <1>4, <1>5, <1>6, <1>7

\* The parts of a snapshot that a restored contact is built from.
LEMMA SnapshotParts ==
  ASSUME NEW snapshot \in Snapshot, NEW s \in Slots
  PROVE  /\ snapshot.ids[s] \in TrackingIds \cup {None}
         /\ snapshot.ids[s] \in Int
         /\ LET m == SeededMemory(snapshot.memory)[s]
            IN m.x \in Int /\ m.y \in Int /\ m.tool_type \in Int
<1>1. TrackingIds \cup {None} \subseteq Int
  BY IdsAssumption DEF None
<1>2. SeededMemory(snapshot.memory) \in [Slots -> Memory]
  BY SeededMemoryType DEF Snapshot
<1>3. \A m \in Memory : m.x \in Int /\ m.y \in Int /\ m.tool_type \in Int
  BY DEF Memory
<1>4. SeededMemory(snapshot.memory)[s] \in Memory
  BY <1>2
<1> QED
  BY <1>1, <1>3, <1>4 DEF Snapshot

LEMMA RestoreType ==
  ASSUME NEW en \in EngineState, NEW snapshot \in Snapshot
  PROVE  RestoreSnapshot(en, snapshot) \in EngineState
<1> DEFINE active == SnapshotContacts(snapshot)
           seeded == SeededMemory(snapshot.memory)
           restored(s) == RestoredContact(snapshot.ids[s], seeded[s].x,
                                          seeded[s].y, seeded[s].tool_type)
           down(s) == DownEvents(s, snapshot.ids[s], seeded[s].x, seeded[s].y,
                                 seeded[s].tool_type)
           last == RestoredSlot(active)
<1>1. seeded \in [Slots -> Memory]
  BY SeededMemoryType DEF Snapshot
<1>2. \A s \in Slots : /\ snapshot.ids[s] \in TrackingIds \cup {None}
                       /\ snapshot.ids[s] \in Int
  BY SnapshotParts
<1>3. \A s \in Slots : /\ seeded[s].x \in Int /\ seeded[s].y \in Int
                       /\ seeded[s].tool_type \in Int
  BY SnapshotParts
<1>4. \A s \in Slots : restored(s) \in Contact
  <2> HIDE DEF seeded
  <2> QED BY <1>2, <1>3, RestoredContactType
<1>5. \A s \in Slots : down(s) \in Seq(Event)
  <2> HIDE DEF seeded
  <2> QED BY <1>2, <1>3, DownEventsType
<1>6. last \in Slots
  <2>1. active \subseteq Slots
    BY DEF SnapshotContacts
  <2>2. SlotMin \in Slots
    BY SlotsAssumption DEF Slots
  <2>3. ASSUME active # {}
        PROVE  \E s \in active : \A r \in active : r <= s
    <3> HIDE DEF active
    <3> QED BY <2>1, <2>3, LastSlotExists
  <2> HIDE DEF active
  <2> QED BY <2>1, <2>2, <2>3 DEF RestoredSlot
<1>7. RestoreSnapshot(en, snapshot) =
        [ResetForResync(en) EXCEPT
           !.current_slot = last, !.memory = seeded,
           !.contact = [s \in Slots |-> IF s \in active THEN restored(s)
                                                       ELSE NoContact],
           !.pressed = IF Buttonpad THEN snapshot.pressed ELSE {},
           !.downs = [s \in Slots |-> IF s \in active THEN down(s) ELSE <<>>]]
  BY DEF RestoreSnapshot
<1>8. snapshot.pressed \in SUBSET Buttons
  BY DEF Snapshot
<1> HIDE DEF active, seeded, restored, down, last
<1>9. [s \in Slots |-> IF s \in active THEN restored(s) ELSE NoContact]
        \in [Slots -> Contact]
  BY <1>4, NoContactType
<1>10. [s \in Slots |-> IF s \in active THEN down(s) ELSE <<>>]
        \in [Slots -> Seq(Event)]
  <2>1. <<>> \in Seq(Event)
    OBVIOUS
  <2> QED BY <1>5, <2>1
<1> QED
  <2>1. ResetForResync(en) \in EngineState
    BY ResetType
  <2> QED BY <1>1, <1>6, <1>7, <1>8, <1>9, <1>10, <2>1 DEF EngineState

-----------------------------------------------------------------------------
(* The steps of a frame keep the engine's type.                            *)

LEMMA RejectPalmsType ==
  ASSUME NEW en \in EngineState
  PROVE  RejectPalms(en) \in EngineState
<1> DEFINE next(s) == LET c == en.contact[s]
                      IN IF /\ c.tracking_id # None
                            /\ IsPalm(scan.contacts[s][c.tracking_id])
                         THEN RejectGestures(c) ELSE c
<1>1. \A s \in Slots : next(s) \in Contact
  BY RejectType, EngineFields
<1>2. RejectPalms(en) = [en EXCEPT !.contact = [s \in Slots |-> next(s)]]
  BY DEF RejectPalms
<1> HIDE DEF next
<1> QED
  BY <1>1, <1>2 DEF EngineState

LEMMA PressButtonsType ==
  ASSUME NEW en \in EngineState, NEW codes \in SUBSET Buttons
  PROVE  PressButtons(en, codes) \in EngineState
<1> DEFINE interrupted == InterruptTapSequence(en)
<1>1. interrupted \in EngineState
  BY InterruptType
<1>2. [interrupted EXCEPT !.pressed = @ \cup codes] \in EngineState
  <2>1. interrupted.pressed \cup codes \in SUBSET Buttons
    BY <1>1 DEF EngineState
  <2> HIDE DEF interrupted
  <2> QED BY <1>1, <2>1 DEF EngineState
<1> QED
  BY <1>1, <1>2, PromoteType DEF PressButtons

LEMMA NewContactType ==
  ASSUME NEW id \in TrackingIds, NEW t \in Int, NEW b \in BOOLEAN
  PROVE  NewContact(id, t, b) \in Contact
BY DEF NewContact, Contact, None, Ownerships, Phases

LEMMA BegunType ==
  ASSUME NEW en \in EngineState, NEW s \in Slots, NEW id \in TrackingIds,
         NEW tool \in FrameTool, NEW b \in BOOLEAN, stamp \in Int
  PROVE  LET new == NewContact(id, stamp, b)
             c == IF IsPalm(tool) THEN RejectGestures(new) ELSE new
         IN [en EXCEPT !.contact[s] = c,
                       !.held_events[s] = Append(@, TrackingIdEvent(id)),
                       !.memory[s].tool_type = tool.tool_type] \in EngineState
<1> DEFINE new == NewContact(id, stamp, b)
           c == IF IsPalm(tool) THEN RejectGestures(new) ELSE new
           held == Append(en.held_events[s], TrackingIdEvent(id))
           d1 == [en EXCEPT !.contact[s] = c]
           d2 == [d1 EXCEPT !.held_events[s] = held]
           begun == [d2 EXCEPT !.memory[s].tool_type = tool.tool_type]
<1>1. c \in Contact
  BY NewContactType, RejectType DEF IsPalm
<1>2. held \in Seq(Event)
  <2>1. TrackingIdEvent(id) \in Event
    BY IdsAssumption DEF TrackingIdEvent, Event, Kinds
  <2> QED BY <2>1, EngineFields
<1>3. d1 \in EngineState
  <2> HIDE DEF c
  <2> QED BY <1>1, SetContact
<1>4. d2 \in EngineState
  <2> HIDE DEF d1, held
  <2> QED BY <1>2, <1>3, SetHeldEvents
<1>5. begun \in EngineState
  <2>1. [d2.memory[s] EXCEPT !.tool_type = tool.tool_type] \in Memory
    <3>1. \A m \in Memory, t \in Int : [m EXCEPT !.tool_type = t] \in Memory
      BY DEF Memory
    <3>2. tool.tool_type \in Int /\ d2.memory[s] \in Memory
      BY <1>4, EngineFields DEF FrameTool
    <3> HIDE DEF d2
    <3> QED BY <3>1, <3>2
  <2> HIDE DEF d2
  <2> QED BY <1>4, <2>1 DEF EngineState
<1>6. begun = [en EXCEPT !.contact[s] = c,
                         !.held_events[s] = Append(@, TrackingIdEvent(id)),
                         !.memory[s].tool_type = tool.tool_type]
  <2> HIDE DEF c
  <2> QED BY DEF EngineState
<1> HIDE DEF begun
<1> QED
  BY <1>5, <1>6

LEMMA BeginContactType ==
  ASSUME NEW en \in EngineState, NEW s \in Slots, NEW id \in TrackingIds,
         scan.contacts[s][id] \in FrameTool, stamp \in Int
  PROVE  BeginContact(en, s, id) \in EngineState
<1> DEFINE tool == scan.contacts[s][id]
           another == \E r \in Slots :
                        IsActive(en, r) /\ ~en.contact[r].gesture_rejected
           new == NewContact(id, stamp, ~another /\ ~IsPalm(tool))
           begun == [en EXCEPT
                       !.contact[s] = IF IsPalm(tool) THEN RejectGestures(new)
                                                      ELSE new,
                       !.held_events[s] = Append(@, TrackingIdEvent(id)),
                       !.memory[s].tool_type = tool.tool_type]
<1>1. begun \in EngineState
  <2>1. (~another /\ ~IsPalm(tool)) \in BOOLEAN
    OBVIOUS
  <2> HIDE DEF another
  <2> QED BY <2>1, BegunType
<1> HIDE DEF begun
<1>2. FlushPendingTap(WithoutPairing(begun)) \in EngineState
  BY <1>1, WithoutPairingType, FlushType
<1> QED
  BY <1>1, <1>2 DEF BeginContact, begun

LEMMA ObserveType ==
  ASSUME NEW cfg, NEW c \in Contact
  PROVE  ObservePosition(cfg, c) \in Contact
<1>1. [c EXCEPT !.contact_phase = "Motion"] \in Contact
  BY DEF Contact, Phases
<1> QED
  BY <1>1 DEF ObservePosition

LEMMA MovedType ==
  ASSUME NEW en \in EngineState, NEW s \in Slots, NEW v \in Int
  PROVE  LET c == en.contact[s]
         IN /\ [c EXCEPT !.current_x = v, !.start_x = OrElse(@, v)] \in Contact
            /\ [c EXCEPT !.current_y = v, !.start_y = OrElse(@, v)] \in Contact
<1> DEFINE c == en.contact[s]
<1>1. /\ OrElse(c.start_x, v) \in Int /\ OrElse(c.start_y, v) \in Int
      /\ c \in Contact
  BY EngineFields, ContactFields DEF OrElse
<1>2. \A k \in Contact, i, j \in Int :
        /\ [k EXCEPT !.current_x = i, !.start_x = j] \in Contact
        /\ [k EXCEPT !.current_y = i, !.start_y = j] \in Contact
  BY DEF Contact
<1>3. /\ [c EXCEPT !.current_x = v, !.start_x = OrElse(@, v)]
           = [c EXCEPT !.current_x = v, !.start_x = OrElse(c.start_x, v)]
      /\ [c EXCEPT !.current_y = v, !.start_y = OrElse(@, v)]
           = [c EXCEPT !.current_y = v, !.start_y = OrElse(c.start_y, v)]
  BY <1>1 DEF Contact
<1> HIDE DEF c
<1>4. /\ [c EXCEPT !.current_x = v, !.start_x = OrElse(c.start_x, v)] \in Contact
      /\ [c EXCEPT !.current_y = v, !.start_y = OrElse(c.start_y, v)] \in Contact
  BY <1>1, <1>2
<1> QED
  BY <1>3, <1>4 DEF c

LEMMA PlaceXType ==
  ASSUME NEW en \in EngineState, NEW s \in Slots, NEW x \in Int
  PROVE  PlaceX(en, s, x) \in EngineState
<1> DEFINE c == en.contact[s]
           moved == [c EXCEPT !.current_x = x, !.start_x = OrElse(@, x)]
           next == IF IsActive(en, s) THEN ObservePosition(en.cfg, moved) ELSE c
           d == [en EXCEPT !.memory[s].x = x]
<1>1. moved \in Contact
  BY MovedType
<1>2. next \in Contact
  BY <1>1, ObserveType, EngineFields
<1>3. d \in EngineState
  <2>1. [en.memory[s] EXCEPT !.x = x] \in Memory
    <3>1. \A m \in Memory : [m EXCEPT !.x = x] \in Memory
      BY DEF Memory
    <3> QED BY <3>1, EngineFields
  <2> QED BY <2>1 DEF EngineState
<1>4. [d EXCEPT !.contact[s] = next] \in EngineState
  <2> HIDE DEF d, next
  <2> QED BY <1>2, <1>3, SetContact
<1> HIDE DEF next
<1> QED
  BY <1>4 DEF PlaceX, next

LEMMA PlaceYType ==
  ASSUME NEW en \in EngineState, NEW s \in Slots, NEW y \in Int
  PROVE  PlaceY(en, s, y) \in EngineState
<1> DEFINE c == en.contact[s]
           moved == [c EXCEPT !.current_y = y, !.start_y = OrElse(@, y)]
           next == IF IsActive(en, s) THEN ObservePosition(en.cfg, moved) ELSE c
           d == [en EXCEPT !.memory[s].y = y]
<1>1. moved \in Contact
  BY MovedType
<1>2. next \in Contact
  BY <1>1, ObserveType, EngineFields
<1>3. d \in EngineState
  <2>1. [en.memory[s] EXCEPT !.y = y] \in Memory
    <3>1. \A m \in Memory : [m EXCEPT !.y = y] \in Memory
      BY DEF Memory
    <3> QED BY <3>1, EngineFields
  <2> QED BY <2>1 DEF EngineState
<1>4. [d EXCEPT !.contact[s] = next] \in EngineState
  <2> HIDE DEF d, next
  <2> QED BY <1>2, <1>3, SetContact
<1> HIDE DEF next
<1> QED
  BY <1>4 DEF PlaceY, next

LEMMA SettleType ==
  ASSUME NEW en \in EngineState
  PROVE  Settle(en) \in EngineState
BY EngineFields, DecideAndSlideType DEF Settle, EngineState

-----------------------------------------------------------------------------
(* The type invariant.                                                     *)

\* The frame in hand is one of the input frames, and the loops' index has not
\* left its range on the low side: what makes CurrentEvent an event.
FrameInHand ==
  /\ frame \in Frames \cup OddFrames \cup {NoFrame}
  /\ phase \in {"scan", "events"} => at >= 1
  /\ phase = "finalize" => at >= SlotMin

TypeInv == TypeOK /\ FrameInHand

LEMMA NoFrameType == NoFrame \in Frame
BY DEF NoFrame, Frame

LEMMA EmptyScanType ==
  EmptyScan \in [ slot : Slots, tools : [Slots -> Int],
                 ids : [Slots -> TrackingIds \cup {None}],
                 contacts : [Slots -> [TrackingIds -> FrameTool]] ]
BY SlotsAssumption DEF EmptyScan, Slots, None, NoTool, FrameTool

LEMMA EventsInRange ==
  ASSUME TypeInv, NEW i \in DOMAIN frame.events
  PROVE  frame.events[i] \in Event /\ EventInRange(frame.events[i])
<1>1. CASE frame = NoFrame
  BY <1>1 DEF NoFrame
<1>2. CASE frame \in Frames \cup OddFrames
  BY <1>2, FramesAssumption DEF EventInRange
<1> QED
  BY <1>1, <1>2 DEF TypeInv, FrameInHand

LEMMA InitType == Init => TypeInv
<1> SUFFICES ASSUME Init PROVE TypeInv
  OBVIOUS
<1>1. e \in EngineState
  BY NewEngineType, SeededMemoryType, MemoryAssumption DEF Init
<1>2. kernel \in [slot : Slots, ids : [Slots -> TrackingIds \cup {None}]]
  BY SlotsAssumption DEF Init, Slots
<1> QED
  BY <1>1, <1>2, NoFrameType, EmptyScanType
  DEF Init, TypeInv, TypeOK, FrameInHand, None

LEMMA StartScanType ==
  ASSUME NEW en \in EngineState
  PROVE  StartScan(en) \in
           [ slot : Slots, tools : [Slots -> Int],
             ids : [Slots -> TrackingIds \cup {None}],
             contacts : [Slots -> [TrackingIds -> FrameTool]] ]
<1> DEFINE known(s) == [tool_type |-> en.memory[s].tool_type,
                        palm_reported |-> en.contact[s].gesture_rejected]
<1>1. \A s \in Slots : /\ en.memory[s].tool_type \in Int
                       /\ en.contact[s].tracking_id \in TrackingIds \cup {None}
                       /\ en.contact[s].gesture_rejected \in BOOLEAN
  <2>1. \A m \in Memory : m.tool_type \in Int
    BY DEF Memory
  <2>2. \A c \in Contact : /\ c.tracking_id \in TrackingIds \cup {None}
                           /\ c.gesture_rejected \in BOOLEAN
    BY DEF Contact
  <2> QED BY <2>1, <2>2, EngineFields
<1>2. \A s \in Slots : known(s) \in FrameTool
  BY <1>1 DEF FrameTool
<1>3. NoTool \in FrameTool
  BY DEF NoTool, FrameTool, None
<1>4. en.current_slot \in Slots
  BY DEF EngineState
<1>5. [s \in Slots |-> [id \in TrackingIds |->
         IF en.contact[s].tracking_id = id THEN known(s) ELSE NoTool]]
       \in [Slots -> [TrackingIds -> FrameTool]]
  <2> HIDE DEF known
  <2> QED BY <1>2, <1>3
<1> QED
  BY <1>1, <1>4, <1>5 DEF StartScan

LEMMA StepType == TypeInv /\ [Next]_vars => TypeInv'
<1> SUFFICES ASSUME TypeInv, [Next]_vars PROVE TypeInv'
  OBVIOUS
<1> USE DEF TypeInv
<1>e. e \in EngineState /\ stamp \in Int
  BY DEF TypeOK, None
<1>1. ASSUME NEW f \in Frames \cup OddFrames, NEW t \in Stamps, StartFrame(f, t)
      PROVE  TypeInv'
  <2>1. f \in Frame /\ f.events \in Seq(Event)
    BY FramesAssumption DEF Frame
  <2>2. Codes(f.buttons, TRUE) \in SUBSET Buttons
    <3>1. \A i \in DOMAIN f.buttons : f.buttons[i] \in Button
      BY <2>1 DEF Frame
    <3> QED BY <3>1 DEF Codes, Button
  <2>3. PressButtons(e, Codes(f.buttons, TRUE)) \in EngineState
    BY <1>e, <2>2, PressButtonsType
  <2>4. e' \in EngineState
    BY <1>1, <2>3 DEF StartFrame
  <2>5. scan' \in [ slot : Slots, tools : [Slots -> Int],
                   ids : [Slots -> TrackingIds \cup {None}],
                   contacts : [Slots -> [TrackingIds -> FrameTool]] ]
    BY <1>1, <2>3, StartScanType, EmptyScanType DEF StartFrame
  <2>6. at' \in Int /\ at' >= 1
    BY <1>1, <2>1 DEF StartFrame
  <2>7. stamp' \in Nat \cup {None} /\ clock' \in Nat
    BY <1>1, StampsAssumption DEF StartFrame, TypeOK, None
  <2> QED BY <1>1, <2>1, <2>4, <2>5, <2>6, <2>7 DEF StartFrame, TypeOK, FrameInHand
<1>2. ASSUME Fail PROVE TypeInv'
  BY <1>2 DEF Fail, TypeOK, FrameInHand
<1>3. CASE ScanEvent
  <2> SUFFICES ASSUME ~Fail PROVE TypeInv'
    BY <1>2
  <2> DEFINE ev == frame.events[at]
             s == scan.slot
             id == scan.ids[s]
  <2>1. at \in DOMAIN frame.events
    BY <1>3 DEF ScanEvent, TypeOK, FrameInHand, Frame
  <2>2. EventInRange(ev) /\ ev.value \in Int
    BY <2>1, EventsInRange DEF Event
  <2>3. /\ s \in Slots /\ id \in TrackingIds \cup {None}
        /\ \A i \in TrackingIds : scan.contacts[s][i] \in FrameTool
        /\ scan.tools[s] \in Int
    BY DEF TypeOK
  <2>4. scan' \in [ slot : Slots, tools : [Slots -> Int],
                   ids : [Slots -> TrackingIds \cup {None}],
                   contacts : [Slots -> [TrackingIds -> FrameTool]] ]
    <3> DEFINE ScanType == [ slot : Slots, tools : [Slots -> Int],
                   ids : [Slots -> TrackingIds \cup {None}],
                   contacts : [Slots -> [TrackingIds -> FrameTool]] ]
               fresh == [tool_type |-> scan.tools[s], palm_reported |-> FALSE]
               told == [tool_type |-> ev.value,
                        palm_reported |-> \/ scan.contacts[s][id].palm_reported
                                          \/ ev.value = PalmTool]
    <3>0. scan \in ScanType
      BY DEF TypeOK
    <3>1. CASE ev.kind = "Slot" /\ ev.value \in Slots
      BY <1>3, <3>0, <3>1 DEF ScanEvent
    <3>2. CASE ev.kind = "TrackingId"
      <4>1. fresh \in FrameTool
        BY <2>3 DEF FrameTool
      <4>2. ev.value \in TrackingIds \cup {None}
        BY <2>2, <3>2 DEF EventInRange
      <4>3. [scan EXCEPT !.ids[s] = None] \in ScanType
        BY <2>3, <3>0
      <4>4. ASSUME ev.value # None
            PROVE  [scan EXCEPT !.ids[s] = ev.value,
                                !.contacts[s][ev.value] = fresh] \in ScanType
        <5> HIDE DEF ev, s, fresh
        <5> QED BY <2>3, <3>0, <4>1, <4>2, <4>4
      <4> QED BY <1>3, <3>2, <4>3, <4>4 DEF ScanEvent
    <3>3. CASE ev.kind = "ToolType"
      <4>1. [scan EXCEPT !.tools[s] = ev.value] \in ScanType
        BY <2>2, <2>3, <3>0
      <4>2. ASSUME id # None PROVE told \in FrameTool
        BY <2>2, <2>3, <4>2 DEF FrameTool
      <4>3. ASSUME id # None
            PROVE  [scan EXCEPT !.tools[s] = ev.value,
                                !.contacts[s][id] = told] \in ScanType
        <5> HIDE DEF ev, s, told, id
        <5> QED BY <2>2, <2>3, <3>0, <4>2, <4>3
      <4> QED BY <1>3, <3>3, <4>1, <4>3 DEF ScanEvent
    <3>4. CASE ev.kind \notin {"Slot", "TrackingId", "ToolType"}
      BY <1>3, <3>0, <3>4, EmptyScanType DEF ScanEvent
    <3>5. CASE ev.kind = "Slot" /\ ev.value \notin Slots
      BY <1>3, <3>5 DEF ScanEvent
    <3> QED BY <3>1, <3>2, <3>3, <3>4, <3>5
  <2>5. UNCHANGED <<e, phase, frame, stamp, clock, kernel>> /\ at' = at + 1
    BY <1>3 DEF ScanEvent
  <2> QED BY <1>3, <2>4, <2>5 DEF ScanEvent, TypeOK, FrameInHand
<1>4. CASE BeginEvents
  <2>1. RejectPalms(e) \in EngineState
    BY <1>e, RejectPalmsType
  <2>2. e' \in EngineState
    BY <1>4, <2>1, ExpireType DEF BeginEvents
  <2> QED BY <1>4, <2>2 DEF BeginEvents, TypeOK, FrameInHand
<1>5. ASSUME NEW en \in EngineState, Processed(en), phase = "events",
             kernel' \in [slot : Slots, ids : [Slots -> TrackingIds \cup {None}]]
      PROVE  TypeInv'
  <2>1. e' \in EngineState
    BY <1>5, SettleType DEF Processed
  <2> QED BY <1>5, <2>1 DEF Processed, TypeOK, FrameInHand
<1>6. ASSUME NEW kind, AtEvent(kind)
      PROVE  /\ phase = "events"
             /\ CurrentEvent \in Event /\ CurrentEvent.value \in Int
             /\ CurrentEvent.kind = kind
             /\ CurrentEvent.kind = "TrackingId" =>
                  CurrentEvent.value \in TrackingIds \cup {None}
  <2>1. at \in DOMAIN frame.events
    BY <1>6 DEF AtEvent, TypeOK, FrameInHand, Frame
  <2>2. CurrentEvent \in Event /\ EventInRange(CurrentEvent)
    BY <2>1, EventsInRange DEF CurrentEvent
  <2> QED BY <1>6, <2>2 DEF AtEvent, CurrentEvent, EventInRange, Event
<1>k. kernel \in [slot : Slots, ids : [Slots -> TrackingIds \cup {None}]]
  BY DEF TypeOK
<1>7. CASE SlotSwitch
  <2> SUFFICES ASSUME CurrentEvent.value \in Slots PROVE TypeInv'
    BY <1>2, <1>7 DEF SlotSwitch
  <2>1. [e EXCEPT !.current_slot = CurrentEvent.value] \in EngineState
    BY <1>e DEF EngineState
  <2>2. RouteEvent([e EXCEPT !.current_slot = CurrentEvent.value], CurrentEvent)
          \in EngineState
    BY <1>6, <1>7, <2>1, RouteEventType DEF SlotSwitch
  <2>3. kernel' \in [slot : Slots, ids : [Slots -> TrackingIds \cup {None}]]
    BY <1>7, <1>k DEF SlotSwitch
  <2> QED BY <1>5, <1>6, <1>7, <2>2, <2>3 DEF SlotSwitch
<1>8. CASE ContactDown
  <2> SUFFICES ASSUME ~IsActive(e, e.current_slot) PROVE TypeInv'
    BY <1>2, <1>8 DEF ContactDown
  <2>1. CurrentEvent.value \in TrackingIds
    BY <1>6, <1>8 DEF ContactDown
  <2>2. /\ e.current_slot \in Slots
        /\ scan.contacts[e.current_slot][CurrentEvent.value] \in FrameTool
    BY <2>1, <1>e DEF TypeOK, EngineState
  <2>3. BeginContact(e, e.current_slot, CurrentEvent.value) \in EngineState
    BY <1>e, <2>1, <2>2, BeginContactType
  <2>4. kernel' \in [slot : Slots, ids : [Slots -> TrackingIds \cup {None}]]
    BY <1>8, <1>k, <2>1 DEF ContactDown
  <2> QED BY <1>5, <1>6, <1>8, <2>3, <2>4 DEF ContactDown
<1>9. CASE ContactUp
  <2>1. ReleaseCurrentSlot(e, CurrentEvent, stamp) \in EngineState
    BY <1>e, <1>6, <1>9, ReleaseCurrentType DEF ContactUp
  <2>2. kernel' \in [slot : Slots, ids : [Slots -> TrackingIds \cup {None}]]
    BY <1>9, <1>k DEF ContactUp
  <2> QED BY <1>5, <1>6, <1>9, <2>1, <2>2 DEF ContactUp
<1>10. CASE ToolType
  <2>1. CASE PalmRejection
    <3> DEFINE d == [e EXCEPT !.memory[e.current_slot].tool_type
                                = CurrentEvent.value]
    <3>1. d \in EngineState
      <4>1. \A m \in Memory, t \in Int : [m EXCEPT !.tool_type = t] \in Memory
        BY DEF Memory
      <4>2. e.current_slot \in Slots
        BY <1>e DEF EngineState
      <4>3. [e.memory[e.current_slot] EXCEPT !.tool_type = CurrentEvent.value]
              \in Memory
        BY <1>e, <1>6, <1>10, <4>1, <4>2, EngineFields DEF ToolType
      <4> QED BY <1>e, <4>2, <4>3 DEF EngineState
    <3>2. RouteEvent(d, CurrentEvent) \in EngineState
      BY <1>6, <1>10, <3>1, RouteEventType DEF ToolType
    <3> QED BY <1>5, <1>6, <1>10, <1>k, <2>1, <3>2 DEF ToolType
  <2>2. CASE ~PalmRejection
    BY <1>10, <1>6, <2>2 DEF ToolType, TypeOK, FrameInHand
  <2> QED BY <2>1, <2>2
<1>11. CASE Position
  <2> DEFINE s == e.current_slot
             placed == IF CurrentEvent.kind = "X"
                       THEN PlaceX(e, s, CurrentEvent.value)
                       ELSE PlaceY(e, s, CurrentEvent.value)
  <2>1. CurrentEvent \in Event /\ CurrentEvent.value \in Int /\ phase = "events"
    BY <1>6, <1>11 DEF Position
  <2>2. s \in Slots
    BY <1>e DEF EngineState
  <2>3. placed \in EngineState
    BY <1>e, <2>1, <2>2, PlaceXType, PlaceYType
  <2>4. EndSpoiledPair(placed, s) \in EngineState
    BY <2>3, FlushType DEF EndSpoiledPair
  <2>5. RouteEvent(EndSpoiledPair(placed, s), CurrentEvent) \in EngineState
    BY <2>1, <2>4, RouteEventType
  <2> QED BY <1>5, <1>11, <1>k, <2>1, <2>5 DEF Position
<1>12. CASE SynDropped
  <2>1. [ResetForResync(e) EXCEPT !.resync_required = TRUE] \in EngineState
    <3>1. \A d \in EngineState : [d EXCEPT !.resync_required = TRUE] \in EngineState
      BY DEF EngineState
    <3> QED BY <1>e, <3>1, ResetType
  <2>2. kernel' \in [slot : Slots, ids : [Slots -> TrackingIds \cup {None}]]
    BY <1>12, SlotsAssumption DEF SynDropped, Slots
  <2> QED BY <1>5, <1>6, <1>12, <2>1, <2>2 DEF SynDropped
<1>13. CASE EventsDone
  BY <1>13, SlotsAssumption DEF EventsDone, TypeOK, FrameInHand
<1>14. CASE FinalizeSlot
  <2>1. at \in Slots
    BY <1>14 DEF FinalizeSlot, TypeOK, FrameInHand, Slots
  <2>2. e' \in EngineState
    BY <1>14, <1>e, <2>1, FinalizeContactType DEF FinalizeSlot
  <2> QED BY <1>14, <2>2, SlotsAssumption DEF FinalizeSlot, TypeOK, FrameInHand
<1>15. CASE EndFrame
  <2>1. ClearOutput(e) \in EngineState
    BY <1>e, ClearOutputType
  <2>2. \A d \in EngineState : \A S : [d EXCEPT !.pressed = @ \ S] \in EngineState
    BY DEF EngineState
  <2>3. e' \in EngineState
    BY <1>15, <2>1, <2>2 DEF EndFrame
  <2> QED BY <1>15, <2>3, NoFrameType, EmptyScanType
          DEF EndFrame, TypeOK, FrameInHand, None
<1>16. ASSUME NEW en \in EngineState, Output(en),
              kernel' \in [slot : Slots, ids : [Slots -> TrackingIds \cup {None}]]
       PROVE  TypeInv'
  <2>1. UNCHANGED clock
    BY <1>16 DEF Output
  <2> QED BY <1>16, SlotsAssumption DEF Output, TypeOK, FrameInHand
<1>17. CASE AdvanceTime
  BY <1>17, <1>e, <1>16, <1>k, ExpireType DEF AdvanceTime
<1>18. ASSUME NEW snapshot \in Snapshots, Resync(snapshot) PROVE TypeInv'
  <2>1. snapshot \in Snapshot
    BY SnapshotsAssumption
  <2>2. RestoreSnapshot(e, snapshot) \in EngineState
    BY <1>e, <2>1, RestoreType
  <2>3. kernel' \in [slot : Slots, ids : [Slots -> TrackingIds \cup {None}]]
    BY <1>18, <2>1 DEF Resync, Snapshot
  <2> QED BY <1>16, <1>18, <2>2, <2>3 DEF Resync
<1>19. ASSUME NEW cfg \in Configs, Reload(cfg) PROVE TypeInv'
  <2>1. e' \in EngineState
    BY <1>e, <1>19 DEF Reload, Reconfigure, EngineState
  <2> QED BY <1>19, <2>1 DEF Reload, TypeOK, FrameInHand
<1>20. CASE UNCHANGED vars
  BY <1>20 DEF vars, TypeOK, FrameInHand
<1> QED
  BY <1>1, <1>3, <1>4, <1>7, <1>8, <1>9, <1>10, <1>11, <1>12, <1>13, <1>14,
     <1>15, <1>17, <1>18, <1>19, <1>20 DEF Next, FrameStep

\* The state of the recognizer keeps its type through every frame, deadline,
\* recovery and reload, whatever the settings, slots and frames are.
THEOREM TypeCorrect == Spec => []TypeOK
<1>1. Spec => []TypeInv
  BY InitType, StepType, PTL DEF Spec
<1> QED
  BY <1>1, PTL DEF TypeInv

-----------------------------------------------------------------------------
(* Who may complete a double tap: the inductive invariant behind           *)
(* MatchNeedsPendingTap, EligibleIsAlone and HeldNamesOwnSlot.             *)

\* A palm pairs with nothing, a free slot has neither owner nor part in a
\* pair, and what waits in a slot waits for its undecided contact.
SlotInv(en, s) ==
  LET c == en.contact[s]
  IN /\ c.gesture_rejected => ~c.tap_sequence_eligible
     /\ c.tracking_id = None => c.ownership = "Unknown" /\ ~c.tap_sequence_eligible
     /\ c.ownership # "Unknown" => en.held_events[s] = <<>>
     /\ \A i \in DOMAIN en.held_events[s] :
          en.held_events[s][i].kind = "Slot" => en.held_events[s][i].value = s

\* A marked contact fits the pending tap.
MatchInv(en, s) ==
  LET c == en.contact[s]
  IN c.tap_sequence_match =>
       /\ c.tap_sequence_eligible
       /\ HasPendingTap(en)
       /\ c.ownership = en.pending_tap.gesture.zone
       /\ c.started_at # None

\* An eligible contact that is not forwarded shares the pad with palms only.
AloneInv(en, s, r) ==
  /\ en.contact[s].tap_sequence_eligible
  /\ en.contact[s].ownership # "Passthrough"
  /\ r # s /\ en.contact[r].tracking_id # None
  => en.contact[r].gesture_rejected

PairInv(en) ==
  /\ \A s \in Slots : SlotInv(en, s) /\ MatchInv(en, s)
  /\ \A s, r \in Slots : AloneInv(en, s, r)

NoMatch(en) == \A s \in Slots : ~en.contact[s].tap_sequence_match

USE DEF SlotInv, MatchInv, AloneInv

-----------------------------------------------------------------------------
(* The operations.                                                         *)

LEMMA SameContacts ==
  ASSUME NEW en, NEW out, PairInv(en), out.contact = en.contact,
         out.held_events = en.held_events, out.pending_tap = en.pending_tap
  PROVE  PairInv(out)
BY DEF PairInv, HasPendingTap

LEMMA OneMatch ==
  ASSUME NEW en \in EngineState, PairInv(en), NEW s \in Slots, NEW r \in Slots,
         en.contact[s].tap_sequence_match, en.contact[r].tap_sequence_match
  PROVE  s = r
<1>1. en.contact[s].ownership \in Zones /\ en.contact[r].ownership \in Zones
  <2>1. en.pending_tap.gesture.zone \in Zones
    BY EngineFields DEF PendingTap, Gesture
  <2> QED BY <2>1 DEF PairInv
<1> QED
  BY <1>1 DEF PairInv, Zones

LEMMA FlushView ==
  ASSUME NEW en \in EngineState
  PROVE  LET out == FlushPendingTap(en)
         IN /\ NoMatch(out) /\ out.pending_tap = NoTap
            /\ out.held_events = en.held_events
            /\ out.memory = en.memory /\ out.current_slot = en.current_slot
            /\ out.passthrough = en.passthrough /\ out.cfg = en.cfg
            /\ \A s \in Slots :
                 LET c == en.contact[s]  d == out.contact[s]
                 IN /\ d.tracking_id = c.tracking_id /\ d.ownership = c.ownership
                    /\ d.gesture_rejected = c.gesture_rejected
                    /\ d.tap_sequence_eligible = c.tap_sequence_eligible
                    /\ d.started_at = c.started_at
                    /\ d.began_in_frame = c.began_in_frame
<1>1. \A c \in Contact :
        LET d == [c EXCEPT !.tap_sequence_match = FALSE]
        IN /\ d.tracking_id = c.tracking_id /\ d.ownership = c.ownership
           /\ d.gesture_rejected = c.gesture_rejected
           /\ d.tap_sequence_eligible = c.tap_sequence_eligible
           /\ d.started_at = c.started_at
           /\ d.began_in_frame = c.began_in_frame
           /\ ~d.tap_sequence_match
  BY DEF Contact
<1>2. FlushPendingTap(en).contact =
        [s \in Slots |-> [en.contact[s] EXCEPT !.tap_sequence_match = FALSE]]
  BY DEF FlushPendingTap, EngineState
<1>3. /\ FlushPendingTap(en).pending_tap = NoTap
      /\ FlushPendingTap(en).held_events = en.held_events
      /\ FlushPendingTap(en).memory = en.memory
      /\ FlushPendingTap(en).current_slot = en.current_slot
      /\ FlushPendingTap(en).passthrough = en.passthrough
      /\ FlushPendingTap(en).cfg = en.cfg
  BY DEF FlushPendingTap, EngineState
<1> DEFINE out == FlushPendingTap(en)
<1>4. \A s \in Slots :
        /\ en.contact[s] \in Contact
        /\ out.contact[s] = [en.contact[s] EXCEPT !.tap_sequence_match = FALSE]
  BY <1>2, EngineFields
<1> HIDE DEF out
<1>5. NoMatch(out)
  BY <1>1, <1>4 DEF NoMatch
<1>6. \A s \in Slots :
        LET c == en.contact[s]  d == out.contact[s]
        IN /\ d.tracking_id = c.tracking_id /\ d.ownership = c.ownership
           /\ d.gesture_rejected = c.gesture_rejected
           /\ d.tap_sequence_eligible = c.tap_sequence_eligible
           /\ d.started_at = c.started_at
           /\ d.began_in_frame = c.began_in_frame
  <2> TAKE s \in Slots
  <2> DEFINE c == en.contact[s]
             d == out.contact[s]
  <2>1. c \in Contact /\ d = [c EXCEPT !.tap_sequence_match = FALSE]
    BY <1>4
  <2> HIDE DEF c, d
  <2>2. /\ d.tracking_id = c.tracking_id /\ d.ownership = c.ownership
        /\ d.gesture_rejected = c.gesture_rejected
        /\ d.tap_sequence_eligible = c.tap_sequence_eligible
        /\ d.started_at = c.started_at
        /\ d.began_in_frame = c.began_in_frame
    BY <2>1 DEF Contact
  <2> QED BY <2>2 DEF c, d
<1> QED
  BY <1>3, <1>5, <1>6 DEF out

LEMMA FlushPair ==
  ASSUME NEW en \in EngineState, PairInv(en)
  PROVE  PairInv(FlushPendingTap(en))
<1> DEFINE out == FlushPendingTap(en)
<1>1. /\ NoMatch(out) /\ out.held_events = en.held_events
      /\ \A s \in Slots :
           LET c == en.contact[s]  d == out.contact[s]
           IN /\ d.tracking_id = c.tracking_id /\ d.ownership = c.ownership
              /\ d.gesture_rejected = c.gesture_rejected
              /\ d.tap_sequence_eligible = c.tap_sequence_eligible
  BY FlushView
<1> HIDE DEF out
<1>2. PairInv(out)
  BY <1>1 DEF PairInv, NoMatch
<1> QED BY <1>2 DEF out

LEMMA WithoutPairingView ==
  ASSUME NEW en \in EngineState
  PROVE  LET out == WithoutPairing(en)
         IN /\ NoMatch(out) /\ out.pending_tap = en.pending_tap
            /\ out.held_events = en.held_events
            /\ \A s \in Slots :
                 LET c == en.contact[s]  d == out.contact[s]
                 IN /\ d.tracking_id = c.tracking_id /\ d.ownership = c.ownership
                    /\ d.gesture_rejected = c.gesture_rejected
                    /\ ~d.tap_sequence_eligible
<1>1. \A c \in Contact :
        LET d == [c EXCEPT !.tap_sequence_eligible = FALSE,
                           !.tap_sequence_match = FALSE]
        IN /\ d.tracking_id = c.tracking_id /\ d.ownership = c.ownership
           /\ d.gesture_rejected = c.gesture_rejected
           /\ ~d.tap_sequence_eligible /\ ~d.tap_sequence_match
  BY DEF Contact
<1>2. WithoutPairing(en).contact =
        [s \in Slots |-> [en.contact[s] EXCEPT !.tap_sequence_eligible = FALSE,
                                               !.tap_sequence_match = FALSE]]
  BY DEF WithoutPairing, EngineState
<1>3. /\ WithoutPairing(en).pending_tap = en.pending_tap
      /\ WithoutPairing(en).held_events = en.held_events
  BY DEF WithoutPairing, EngineState
<1> DEFINE out == WithoutPairing(en)
<1>4. \A s \in Slots :
        /\ en.contact[s] \in Contact
        /\ out.contact[s] = [en.contact[s] EXCEPT !.tap_sequence_eligible = FALSE,
                                                 !.tap_sequence_match = FALSE]
  BY <1>2, EngineFields
<1> HIDE DEF out
<1>5. NoMatch(out)
  BY <1>1, <1>4 DEF NoMatch
<1>6. \A s \in Slots :
        LET c == en.contact[s]  d == out.contact[s]
        IN /\ d.tracking_id = c.tracking_id /\ d.ownership = c.ownership
           /\ d.gesture_rejected = c.gesture_rejected
           /\ ~d.tap_sequence_eligible
  BY <1>1, <1>4
<1> QED
  BY <1>3, <1>5, <1>6 DEF out

LEMMA WithoutPairingPair ==
  ASSUME NEW en \in EngineState, \A s \in Slots : SlotInv(en, s)
  PROVE  PairInv(WithoutPairing(en))
<1> DEFINE out == WithoutPairing(en)
<1>1. /\ NoMatch(out) /\ out.held_events = en.held_events
      /\ \A s \in Slots :
           LET c == en.contact[s]  d == out.contact[s]
           IN /\ d.tracking_id = c.tracking_id /\ d.ownership = c.ownership
              /\ d.gesture_rejected = c.gesture_rejected
              /\ ~d.tap_sequence_eligible
  BY WithoutPairingView
<1> HIDE DEF out
<1>2. PairInv(out)
  BY <1>1 DEF PairInv, NoMatch
<1> QED BY <1>2 DEF out

LEMMA InterruptPair ==
  ASSUME NEW en \in EngineState, PairInv(en)
  PROVE  PairInv(InterruptTapSequence(en)) /\ NoMatch(InterruptTapSequence(en))
<1>1. PairInv(WithoutPairing(en))
  BY WithoutPairingPair DEF PairInv
<1> QED
  BY <1>1, WithoutPairingType, FlushPair, FlushView DEF InterruptTapSequence

LEMMA ExpirePair ==
  ASSUME NEW en \in EngineState, PairInv(en), NEW t
  PROVE  PairInv(ExpirePendingTap(en, t))
BY FlushPair DEF ExpirePendingTap

LEMMA PushGesturePair ==
  ASSUME NEW en \in EngineState, PairInv(en), NEW g
  PROVE  PairInv(PushGesture(en, g))
<1>1. /\ PushGesture(en, g).contact = en.contact
      /\ PushGesture(en, g).held_events = en.held_events
      /\ PushGesture(en, g).pending_tap = en.pending_tap
  BY DEF PushGesture, EngineState
<1> QED BY <1>1, SameContacts

LEMMA NewPendingTap ==
  ASSUME NEW en \in EngineState, PairInv(en), NoMatch(en), NEW p
  PROVE  PairInv([en EXCEPT !.pending_tap = p])
<1> DEFINE out == [en EXCEPT !.pending_tap = p]
<1>1. out.contact = en.contact /\ out.held_events = en.held_events
  BY DEF EngineState
<1> HIDE DEF out
<1>2. PairInv(out)
  BY <1>1 DEF PairInv, NoMatch
<1> QED BY <1>2 DEF out

LEMMA HandleClassifiedPair ==
  ASSUME NEW en \in EngineState, PairInv(en), NEW g \in Gesture,
         NEW c \in Contact, c.tap_sequence_match => NoMatch(en), NEW t
  PROVE  PairInv(HandleClassifiedGesture(en, g, c, t))
<1>1. /\ FlushPendingTap(en) \in EngineState /\ PairInv(FlushPendingTap(en))
      /\ NoMatch(FlushPendingTap(en))
  BY FlushType, FlushPair, FlushView
<1>2. \A p : PairInv([FlushPendingTap(en) EXCEPT !.pending_tap = p])
  BY <1>1, NewPendingTap
<1>3. ASSUME c.tap_sequence_match
      PROVE  /\ [en EXCEPT !.pending_tap = NoTap] \in EngineState
             /\ PairInv([en EXCEPT !.pending_tap = NoTap])
  <2>1. [en EXCEPT !.pending_tap = NoTap] \in EngineState
    BY NoTapType DEF EngineState
  <2> QED BY <1>3, <2>1, NewPendingTap
<1> QED
  BY <1>1, <1>2, <1>3, PushGesturePair DEF HandleClassifiedGesture

LEMMA OneSlotPair ==
  ASSUME NEW en, NEW out, PairInv(en), NEW s \in Slots,
         \A r \in Slots \ {s} : /\ out.contact[r] = en.contact[r]
                               /\ out.held_events[r] = en.held_events[r],
         out.pending_tap = en.pending_tap,
         SlotInv(out, s), MatchInv(out, s),
         \A r \in Slots \ {s} : AloneInv(out, s, r) /\ AloneInv(out, r, s)
  PROVE  PairInv(out)
BY DEF PairInv, HasPendingTap

\* What a step may do to contacts without anybody's part in a pair changing.
LEMMA SameViewPair ==
  ASSUME NEW en, NEW out, PairInv(en),
         out.held_events = en.held_events, out.pending_tap = en.pending_tap,
         \A s \in Slots :
           LET c == en.contact[s]  d == out.contact[s]
           IN /\ d.tracking_id = c.tracking_id /\ d.ownership = c.ownership
              /\ d.gesture_rejected = c.gesture_rejected
              /\ d.tap_sequence_eligible = c.tap_sequence_eligible
              /\ d.tap_sequence_match = c.tap_sequence_match
              /\ d.started_at = c.started_at
  PROVE  PairInv(out)
BY DEF PairInv, HasPendingTap

LEMMA PushPassthroughPair ==
  ASSUME NEW en \in EngineState, PairInv(en), NEW s, NEW events
  PROVE  PairInv(PushPassthrough(en, s, events))
<1> DEFINE out == PushPassthrough(en, s, events)
<1>1. /\ out.contact = en.contact /\ out.held_events = en.held_events
      /\ out.pending_tap = en.pending_tap
  BY DEF PushPassthrough, EngineState
<1> QED BY <1>1, SameContacts

LEMMA AppendHeld ==
  ASSUME NEW en \in EngineState, PairInv(en), NEW s \in Slots, NEW event \in Event,
         event.kind = "Slot" => event.value = s,
         en.contact[s].ownership = "Unknown"
  PROVE  PairInv([en EXCEPT !.held_events[s] = Append(@, event)])
<1> DEFINE out == [en EXCEPT !.held_events[s] = Append(@, event)]
           held == en.held_events[s]
<1>1. held \in Seq(Event)
  BY EngineFields
<1>2. /\ out.contact = en.contact /\ out.pending_tap = en.pending_tap
      /\ \A r \in Slots \ {s} : out.held_events[r] = en.held_events[r]
      /\ out.held_events[s] = Append(held, event)
  BY DEF EngineState
<1>3. \A i \in DOMAIN Append(held, event) :
        Append(held, event)[i].kind = "Slot" => Append(held, event)[i].value = s
  <2> TAKE i \in DOMAIN Append(held, event)
  <2>1. CASE i \in DOMAIN held
    <3>1. Append(held, event)[i] = held[i]
      BY <1>1, <2>1
    <3> QED BY <2>1, <3>1 DEF PairInv
  <2>2. CASE i \notin DOMAIN held
    <3>1. Append(held, event)[i] = event
      BY <1>1, <2>2
    <3> QED BY <3>1
  <2> QED BY <2>1, <2>2
<1> HIDE DEF out, held
<1>4. SlotInv(out, s) /\ MatchInv(out, s)
  BY <1>2, <1>3 DEF PairInv, HasPendingTap
<1>5. \A r \in Slots \ {s} : AloneInv(out, s, r) /\ AloneInv(out, r, s)
  BY <1>2 DEF PairInv
<1>6. PairInv(out)
  BY <1>2, <1>4, <1>5, OneSlotPair
<1> QED BY <1>6 DEF out

LEMMA RouteEventPair ==
  ASSUME NEW en \in EngineState, PairInv(en), NEW event \in Event,
         event.kind = "Slot" => event.value = en.current_slot
  PROVE  PairInv(RouteEvent(en, event))
<1>1. en.current_slot \in Slots
  BY DEF EngineState
<1> QED
  BY <1>1, PushPassthroughPair, AppendHeld DEF RouteEvent

\* A contact that was not marked leaves the undecided ones.
LEMMA DecidedPair ==
  ASSUME NEW en \in EngineState, PairInv(en), NEW s \in Slots, NEW c \in Contact,
         c.tracking_id = en.contact[s].tracking_id, c.tracking_id # None,
         c.gesture_rejected = en.contact[s].gesture_rejected,
         c.tap_sequence_eligible = en.contact[s].tap_sequence_eligible,
         en.contact[s].ownership # "Passthrough" \/ c.ownership = "Passthrough",
         c.tap_sequence_match =>
           /\ c.tap_sequence_eligible /\ HasPendingTap(en)
           /\ c.ownership = en.pending_tap.gesture.zone
           /\ c.started_at # None
  PROVE  PairInv([[en EXCEPT !.contact[s] = c] EXCEPT !.held_events[s] = <<>>])
<1> DEFINE out == [[en EXCEPT !.contact[s] = c] EXCEPT !.held_events[s] = <<>>]
<1>1. /\ out.pending_tap = en.pending_tap
      /\ out.contact[s] = c /\ out.held_events[s] = <<>>
      /\ \A r \in Slots \ {s} : /\ out.contact[r] = en.contact[r]
                                /\ out.held_events[r] = en.held_events[r]
  BY DEF EngineState
<1> HIDE DEF out
<1>2. SlotInv(out, s) /\ MatchInv(out, s)
  BY <1>1 DEF PairInv, HasPendingTap
<1>3. \A r \in Slots \ {s} : AloneInv(out, s, r) /\ AloneInv(out, r, s)
  BY <1>1 DEF PairInv
<1>4. PairInv(out)
  BY <1>1, <1>2, <1>3, OneSlotPair
<1> QED BY <1>4 DEF out

LEMMA PassContactThroughPair ==
  ASSUME NEW en \in EngineState, PairInv(en), NEW s \in Slots,
         IsActive(en, s), en.contact[s].ownership = "Unknown"
  PROVE  PairInv(PassContactThrough(en, s))
<1> DEFINE c == [en.contact[s] EXCEPT !.ownership = "Passthrough"]
           owned == [[en EXCEPT !.contact[s] = c] EXCEPT !.held_events[s] = <<>>]
           settled == IF en.contact[s].gesture_rejected
                      THEN owned ELSE FlushPendingTap(owned)
           replayed == PushPassthrough(settled, s, en.held_events[s])
           tool == en.memory[s].tool_type
<1>1. /\ c \in Contact /\ c.tracking_id = en.contact[s].tracking_id
      /\ c.gesture_rejected = en.contact[s].gesture_rejected
      /\ c.tap_sequence_eligible = en.contact[s].tap_sequence_eligible
      /\ c.tap_sequence_match = en.contact[s].tap_sequence_match
      /\ c.ownership = "Passthrough"
  <2>1. \A d \in Contact :
          LET k == [d EXCEPT !.ownership = "Passthrough"]
          IN /\ k \in Contact /\ k.tracking_id = d.tracking_id
             /\ k.gesture_rejected = d.gesture_rejected
             /\ k.tap_sequence_eligible = d.tap_sequence_eligible
             /\ k.tap_sequence_match = d.tap_sequence_match
             /\ k.ownership = "Passthrough"
    BY DEF Contact, Ownerships
  <2> QED BY <2>1, EngineFields
<1>2. owned \in EngineState
  <2> HIDE DEF c
  <2>1. [en EXCEPT !.contact[s] = c] \in EngineState
    BY <1>1, SetContact
  <2>2. <<>> \in Seq(Event)
    OBVIOUS
  <2> QED BY <2>1, <2>2, SetHeldEvents
<1>3. ~c.tap_sequence_match
  <2>1. en.pending_tap.gesture.zone \in Zones
    BY EngineFields DEF PendingTap, Gesture
  <2> QED BY <1>1, <2>1 DEF PairInv, Zones
<1>4. PairInv(owned)
  <2> HIDE DEF c
  <2> QED BY <1>1, <1>3, DecidedPair DEF IsActive
<1> HIDE DEF owned
<1>5. settled \in EngineState /\ PairInv(settled)
  BY <1>2, <1>4, FlushType, FlushPair
<1> HIDE DEF settled
<1>6. replayed \in EngineState /\ PairInv(replayed)
  BY <1>5, PushPassthroughType, PushPassthroughPair, EngineFields
<1> HIDE DEF replayed
<1>7. PairInv(PushPassthrough(replayed, s,
                IF tool = None THEN <<>> ELSE <<ToolTypeEvent(tool)>>))
  BY <1>6, PushPassthroughPair
<1> QED
  BY <1>7 DEF PassContactThrough, replayed, settled, owned

LEMMA ClaimContactPair ==
  ASSUME NEW en \in EngineState, PairInv(en), NEW s \in Slots, NEW zone \in Zones,
         IsActive(en, s), en.contact[s].ownership = "Unknown"
  PROVE  PairInv(ClaimContact(en, s, zone))
<1> DEFINE c == en.contact[s]
           match == /\ ~c.gesture_rejected
                    /\ ContactMatchesPendingTap(en.cfg, en.pending_tap, c, zone)
           settled == IF HasPendingTap(en) /\ ~match /\ ~c.gesture_rejected
                      THEN FlushPendingTap(en) ELSE en
           anchor == IF en.cfg.sliders[zone] > 0
                     THEN SliderPosition(zone, c) ELSE None
           claimed == [settled.contact[s] EXCEPT !.ownership = zone,
                                                 !.slider_anchor = anchor,
                                                 !.tap_sequence_match = match]
<1>1. settled \in EngineState /\ PairInv(settled)
  BY FlushType, FlushPair
<1>2. /\ settled.contact[s].tracking_id = c.tracking_id
      /\ settled.contact[s].ownership = c.ownership
      /\ settled.contact[s].gesture_rejected = c.gesture_rejected
      /\ settled.contact[s].tap_sequence_eligible = c.tap_sequence_eligible
      /\ settled.contact[s].started_at = c.started_at
      /\ match => settled.pending_tap = en.pending_tap
  BY FlushView
<1>3. anchor \in Int /\ match \in BOOLEAN
  BY SliderPositionType, EngineFields DEF None, ContactMatchesPendingTap
<1>4. match => /\ c.tap_sequence_eligible /\ HasPendingTap(en)
               /\ en.pending_tap.gesture.zone = zone /\ c.started_at # None
  BY DEF ContactMatchesPendingTap, HasPendingTap
<1> HIDE DEF settled, anchor, match
<1>5. /\ claimed \in Contact
      /\ claimed.tracking_id = settled.contact[s].tracking_id
      /\ claimed.ownership = zone
      /\ claimed.gesture_rejected = settled.contact[s].gesture_rejected
      /\ claimed.tap_sequence_eligible = settled.contact[s].tap_sequence_eligible
      /\ claimed.started_at = settled.contact[s].started_at
      /\ claimed.tap_sequence_match = match
  <2>1. \A d \in Contact, a \in Int, b \in BOOLEAN :
          [d EXCEPT !.ownership = zone, !.slider_anchor = a,
                    !.tap_sequence_match = b] \in Contact
    BY DEF Contact, Ownerships
  <2>2. \A d \in Contact : \A a, b :
          LET k == [d EXCEPT !.ownership = zone, !.slider_anchor = a,
                             !.tap_sequence_match = b]
          IN /\ k.tracking_id = d.tracking_id
             /\ k.ownership = zone /\ k.gesture_rejected = d.gesture_rejected
             /\ k.tap_sequence_eligible = d.tap_sequence_eligible
             /\ k.started_at = d.started_at /\ k.tap_sequence_match = b
    BY DEF Contact
  <2>3. settled.contact[s] \in Contact
    BY <1>1, EngineFields
  <2>4. claimed \in Contact
    BY <1>3, <2>1, <2>3
  <2>5. /\ claimed.tracking_id = settled.contact[s].tracking_id
        /\ claimed.ownership = zone
        /\ claimed.gesture_rejected = settled.contact[s].gesture_rejected
        /\ claimed.tap_sequence_eligible = settled.contact[s].tap_sequence_eligible
        /\ claimed.started_at = settled.contact[s].started_at
        /\ claimed.tap_sequence_match = match
    BY <2>2, <2>3
  <2> QED BY <2>4, <2>5
<1>6. [settled EXCEPT !.contact[s].ownership = zone,
                      !.contact[s].slider_anchor = anchor,
                      !.contact[s].tap_sequence_match = match,
                      !.held_events[s] = <<>>]
      = [[settled EXCEPT !.contact[s] = claimed] EXCEPT !.held_events[s] = <<>>]
  BY <1>1 DEF EngineState
<1> HIDE DEF claimed
<1>7. PairInv([[settled EXCEPT !.contact[s] = claimed]
                 EXCEPT !.held_events[s] = <<>>])
  BY <1>1, <1>2, <1>4, <1>5, DecidedPair DEF IsActive, HasPendingTap
<1> QED
  BY <1>6, <1>7 DEF ClaimContact, settled, anchor, match

LEMMA DecidePair ==
  ASSUME NEW en \in EngineState, PairInv(en), NEW s \in Slots
  PROVE  PairInv(DecideOwnershipIfReady(en, s))
<1>1. ZoneForContact(en, s) \in Zones \cup {"None"}
  BY ZoneType DEF ZoneForContact
<1> QED
  BY <1>1, ClaimContactPair, PassContactThroughPair DEF DecideOwnershipIfReady

LEMMA PromotePair ==
  ASSUME NEW en \in EngineState, PairInv(en), NoMatch(en)
  PROVE  PairInv(PromoteClaimedContacts(en))
<1> DEFINE out == PromoteClaimedContacts(en)
<1>1. out.held_events = en.held_events /\ out.pending_tap = en.pending_tap
  BY DEF PromoteClaimedContacts, EngineState
<1>2. out.contact = [s \in Slots |->
                       IF CanPromote(en, s)
                       THEN [en.contact[s] EXCEPT !.ownership = "Passthrough",
                                                  !.slider_anchor = None]
                       ELSE en.contact[s]]
  BY DEF PromoteClaimedContacts, EngineState
<1>3. \A c \in Contact :
        LET d == [c EXCEPT !.ownership = "Passthrough", !.slider_anchor = None]
        IN /\ d.tracking_id = c.tracking_id /\ d.ownership = "Passthrough"
           /\ d.gesture_rejected = c.gesture_rejected
           /\ d.tap_sequence_eligible = c.tap_sequence_eligible
           /\ d.tap_sequence_match = c.tap_sequence_match
  BY DEF Contact
<1>4. \A s \in Slots :
        LET c == en.contact[s]  d == out.contact[s]
        IN /\ d.tracking_id = c.tracking_id
           /\ d.gesture_rejected = c.gesture_rejected
           /\ d.tap_sequence_eligible = c.tap_sequence_eligible
           /\ ~d.tap_sequence_match
           /\ \/ d.ownership = c.ownership
              \/ d.ownership = "Passthrough" /\ c.ownership \in Zones
  <2> HIDE DEF out
  <2> TAKE s \in Slots
  <2>1. CASE CanPromote(en, s)
    <3>1. /\ out.contact[s] = [en.contact[s] EXCEPT !.ownership = "Passthrough",
                                                  !.slider_anchor = None]
          /\ en.contact[s] \in Contact
      BY <1>2, <2>1, EngineFields
    <3>2. en.contact[s].ownership \in Zones /\ ~en.contact[s].tap_sequence_match
      BY <2>1 DEF CanPromote, IsClaimed, NoMatch
    <3> QED BY <1>3, <3>1, <3>2
  <2>2. CASE ~CanPromote(en, s)
    BY <1>2, <2>2 DEF NoMatch
  <2> QED BY <2>1, <2>2
<1> HIDE DEF out
<1>5. PairInv(out)
  BY <1>1, <1>4 DEF PairInv, Zones
<1> QED BY <1>5 DEF out

\* A slider moves an anchor and a phase, neither of which a pair looks at.
LEMMA AnchorPair ==
  ASSUME NEW en \in EngineState, PairInv(en), NEW s \in Slots, NEW a, NEW out,
         \/ out.contact[s] = [en.contact[s] EXCEPT !.slider_anchor = a]
         \/ out.contact[s] = [en.contact[s] EXCEPT
                                !.contact_phase = "ConsumedBySlider",
                                !.slider_anchor = a],
         out.held_events = en.held_events, out.pending_tap = en.pending_tap,
         \A r \in Slots \ {s} : out.contact[r] = en.contact[r]
  PROVE  PairInv(out)
<1> DEFINE c == en.contact[s]
           k == out.contact[s]
<1>1. c \in Contact
  BY EngineFields
<1>2. /\ k.tracking_id = c.tracking_id /\ k.ownership = c.ownership
      /\ k.gesture_rejected = c.gesture_rejected
      /\ k.tap_sequence_eligible = c.tap_sequence_eligible
      /\ k.tap_sequence_match = c.tap_sequence_match
      /\ k.started_at = c.started_at
  <2>1. CASE k = [c EXCEPT !.slider_anchor = a]
    <3> HIDE DEF c, k
    <3> QED BY <1>1, <2>1 DEF Contact
  <2>2. CASE k = [c EXCEPT !.contact_phase = "ConsumedBySlider",
                           !.slider_anchor = a]
    <3> HIDE DEF c, k
    <3> QED BY <1>1, <2>2 DEF Contact
  <2> QED BY <2>1, <2>2
<1> QED
  BY <1>2, SameViewPair

LEMMA TakeStepsPair ==
  ASSUME NEW en \in EngineState, PairInv(en), NEW s \in Slots, NEW count
  PROVE  PairInv(TakeSliderSteps(en, s, count))
<1> DEFINE c == en.contact[s]
           forward == SliderPosition(c.ownership, c) >= c.slider_anchor
           travel == count * en.cfg.sliders[c.ownership]
           anchor == IF forward THEN c.slider_anchor + travel
                                ELSE c.slider_anchor - travel
           out == TakeSliderSteps(en, s, count)
           k == [ConsumeBySlider(c) EXCEPT !.slider_anchor = anchor]
<1>1. /\ out.held_events = en.held_events /\ out.pending_tap = en.pending_tap
      /\ out.contact = [en.contact EXCEPT ![s] = k]
  <2> HIDE DEF anchor
  <2> QED BY DEF TakeSliderSteps, EngineState, anchor
<1>2. /\ out.contact[s] = k
      /\ \A r \in Slots \ {s} : out.contact[r] = en.contact[r]
  <2> HIDE DEF k, out
  <2> QED BY <1>1 DEF EngineState
<1>3. out.held_events = en.held_events /\ out.pending_tap = en.pending_tap
  BY <1>1
<1>4. out.contact[s] = [en.contact[s] EXCEPT !.contact_phase = "ConsumedBySlider",
                                             !.slider_anchor = anchor]
  BY <1>2 DEF ConsumeBySlider
<1> HIDE DEF out, anchor, c, k
<1>5. PairInv(out)
  BY <1>2, <1>3, <1>4, AnchorPair
<1> QED BY <1>5 DEF out

LEMMA EmitPair ==
  ASSUME NEW en \in EngineState, PairInv(en), NEW s \in Slots
  PROVE  PairInv(EmitSliderStepsIfReady(en, s))
<1> DEFINE c == en.contact[s]
           position == SliderPosition(c.ownership, c)
           count == StepCount(Distance(c.slider_anchor, position),
                              en.cfg.sliders[c.ownership])
           out == [en EXCEPT !.contact[s].slider_anchor = position]
<1> SUFFICES ASSUME IsClaimed(c), en.cfg.sliders[c.ownership] > 0
             PROVE  PairInv(EmitSliderSteps(en, s))
  BY DEF EmitSliderStepsIfReady
<1>1. c \in Contact /\ c.ownership \in Zones
  BY EngineFields DEF IsClaimed
<1>2. count \in Nat
  BY <1>1, SliderPositionType, ConfigInForce, ContactFields, DistanceType,
     StepCountType
<1>3. PairInv(FlushPendingTap(TakeSliderSteps(en, s, count)))
  <2> HIDE DEF count
  <2> QED BY <1>2, TakeStepsType, TakeStepsPair, FlushPair
<1>4. PairInv(out)
  <2> HIDE DEF position
  <2>1. /\ out.contact[s] = [c EXCEPT !.slider_anchor = position]
        /\ out.held_events = en.held_events /\ out.pending_tap = en.pending_tap
        /\ \A r \in Slots \ {s} : out.contact[r] = en.contact[r]
    BY DEF EngineState
  <2> HIDE DEF out
  <2> QED BY <2>1, AnchorPair
<1> QED
  BY <1>3, <1>4 DEF EmitSliderSteps

LEMMA DecideAndSlidePair ==
  ASSUME NEW en \in EngineState, PairInv(en), NEW s \in Slots
  PROVE  PairInv(DecideAndSlide(en, s))
BY DecidePair, DecideType, EmitPair DEF DecideAndSlide

LEMMA FinalizeContactPair ==
  ASSUME NEW en \in EngineState, PairInv(en), NEW s \in Slots
  PROVE  PairInv(FinalizeContact(en, s))
<1> DEFINE c == en.contact[s]
           x == OrElse(c.current_x, en.memory[s].x)
           y == OrElse(c.current_y, en.memory[s].y)
           placed == [c EXCEPT !.current_x = x, !.current_y = y,
                               !.start_x = OrElse(@, x),
                               !.start_y = OrElse(@, y),
                               !.began_in_frame = FALSE]
           out == [en EXCEPT !.contact[s] = placed]
<1>1. /\ placed.tracking_id = c.tracking_id /\ placed.ownership = c.ownership
      /\ placed.gesture_rejected = c.gesture_rejected
      /\ placed.tap_sequence_eligible = c.tap_sequence_eligible
      /\ placed.tap_sequence_match = c.tap_sequence_match
      /\ placed.started_at = c.started_at
  <2>1. c \in Contact
    BY EngineFields
  <2> HIDE DEF c, x, y
  <2> QED BY <2>1 DEF Contact
<1>2. /\ out.held_events = en.held_events /\ out.pending_tap = en.pending_tap
      /\ out.contact[s] = placed
      /\ \A r \in Slots \ {s} : out.contact[r] = en.contact[r]
  <2> HIDE DEF placed
  <2> QED BY DEF EngineState
<1>3. out \in EngineState
  BY PlacedType
<1> HIDE DEF out, placed
<1>4. PairInv(out)
  BY <1>1, <1>2, SameViewPair
<1>5. PairInv(DecideAndSlide(out, s))
  BY <1>3, <1>4, DecideAndSlidePair
<1> QED
  BY <1>5 DEF FinalizeContact, out, placed

LEMMA ReleaseClaimedPair ==
  ASSUME NEW en \in EngineState, PairInv(en), NEW s \in Slots, NEW c \in Contact,
         IsClaimed(c), c.tap_sequence_match => NoMatch(en), NEW t
  PROVE  PairInv(ReleaseClaimed(en, s, c, t))
<1> DEFINE direction == ClassifyGesture(en.cfg, c, t)
           g == [zone |-> c.ownership, direction |-> direction, slot |-> s,
                 tracking_id |-> c.tracking_id]
<1>1. ASSUME direction # "None" PROVE g \in Gesture
  <2>1. direction \in Directions \cup {"Tap", "DoubleTap"}
    BY <1>1, DirectionType
  <2>2. c.ownership \in Zones /\ c.tracking_id \in Int /\ s \in Int
    BY ContactFields, SlotsAssumption DEF IsClaimed, Slots
  <2> HIDE DEF direction
  <2> QED BY <2>1, <2>2 DEF Gesture
<1>2. direction # "None" => PairInv(HandleClassifiedGesture(en, g, c, t))
  BY <1>1, HandleClassifiedPair
<1> QED
  BY <1>2, FlushPair DEF ReleaseClaimed

LEMMA NoContactFields ==
  /\ NoContact.tracking_id = None /\ NoContact.ownership = "Unknown"
  /\ ~NoContact.gesture_rejected /\ ~NoContact.tap_sequence_eligible
  /\ ~NoContact.tap_sequence_match
BY DEF NoContact, NewContact

LEMMA LiftedPair ==
  ASSUME NEW en \in EngineState, PairInv(en), NEW s \in Slots
  PROVE  LET out == [en EXCEPT !.contact[s] = NoContact, !.held_events[s] = <<>>]
         IN /\ PairInv(out)
            /\ en.contact[s].tap_sequence_match => NoMatch(out)
<1> DEFINE out == [en EXCEPT !.contact[s] = NoContact, !.held_events[s] = <<>>]
<1>1. /\ out.pending_tap = en.pending_tap
      /\ out.contact[s] = NoContact /\ out.held_events[s] = <<>>
      /\ \A r \in Slots \ {s} : /\ out.contact[r] = en.contact[r]
                                /\ out.held_events[r] = en.held_events[r]
  BY DEF EngineState
<1> HIDE DEF out
<1>2. SlotInv(out, s) /\ MatchInv(out, s)
  BY <1>1, NoContactFields
<1>3. \A r \in Slots \ {s} : AloneInv(out, s, r) /\ AloneInv(out, r, s)
  BY <1>1, NoContactFields
<1>4. PairInv(out)
  BY <1>1, <1>2, <1>3, OneSlotPair
<1>5. ASSUME en.contact[s].tap_sequence_match PROVE NoMatch(out)
  BY <1>1, <1>5, NoContactFields, OneMatch DEF NoMatch
<1> QED BY <1>4, <1>5 DEF out

LEMMA ReleaseCurrentPair ==
  ASSUME NEW en \in EngineState, PairInv(en), NEW event \in Event,
         event.kind = "TrackingId", NEW t
  PROVE  PairInv(ReleaseCurrentSlot(en, event, t))
<1> DEFINE s == en.current_slot
           c == en.contact[s]
           lifted == [en EXCEPT !.contact[s] = NoContact, !.held_events[s] = <<>>]
<1>1. s \in Slots
  BY DEF EngineState
<1>2. c \in Contact
  BY <1>1, EngineFields
<1>3. lifted \in EngineState
  BY <1>1, LiftedType
<1>4. PairInv(lifted) /\ (c.tap_sequence_match => NoMatch(lifted))
  BY <1>1, LiftedPair
<1>5. ~IsActive(en, s) =>
        PairInv([en EXCEPT !.held_events[s] = Append(@, event)])
  BY <1>1, AppendHeld DEF IsActive, PairInv
<1> HIDE DEF lifted
<1>6. PairInv(PushPassthrough(lifted, s, <<event>>))
  BY <1>3, <1>4, PushPassthroughPair
<1>7. IsClaimed(c) => PairInv(ReleaseClaimed(lifted, s, c, t))
  BY <1>1, <1>2, <1>3, <1>4, ReleaseClaimedPair
<1> QED
  BY <1>4, <1>5, <1>6, <1>7 DEF ReleaseCurrentSlot, lifted

\* A pad nobody touches.
LEMMA EmptyPad ==
  ASSUME NEW out, out.contact = [s \in Slots |-> NoContact],
         out.held_events = [s \in Slots |-> <<>>]
  PROVE  PairInv(out)
BY NoContactFields DEF PairInv

LEMMA ResetPair ==
  ASSUME NEW en \in EngineState
  PROVE  PairInv([ResetForResync(en) EXCEPT !.resync_required = TRUE])
<1> DEFINE out == [ResetForResync(en) EXCEPT !.resync_required = TRUE]
<1>1. /\ out.contact = [s \in Slots |-> NoContact]
      /\ out.held_events = [s \in Slots |-> <<>>]
  BY DEF ResetForResync, EngineState
<1> QED BY <1>1, EmptyPad

LEMMA NewEnginePair ==
  ASSUME NEW cfg, NEW memory
  PROVE  PairInv(NewEngine(cfg, memory))
BY EmptyPad DEF NewEngine

LEMMA RestorePair ==
  ASSUME NEW en \in EngineState, NEW snapshot \in Snapshot
  PROVE  PairInv(RestoreSnapshot(en, snapshot))
<1> DEFINE out == RestoreSnapshot(en, snapshot)
           seeded == SeededMemory(snapshot.memory)
           restored(s) == RestoredContact(snapshot.ids[s], seeded[s].x,
                                          seeded[s].y, seeded[s].tool_type)
<1>1. /\ out.held_events = [s \in Slots |-> <<>>]
      /\ out.contact = [s \in Slots |-> IF s \in SnapshotContacts(snapshot)
                                       THEN restored(s) ELSE NoContact]
  BY DEF RestoreSnapshot, ResetForResync, EngineState
<1>2. \A s \in Slots :
        /\ restored(s).tracking_id = snapshot.ids[s]
        /\ restored(s).ownership = "Passthrough"
        /\ restored(s).gesture_rejected => ~restored(s).tap_sequence_eligible
        /\ ~restored(s).tap_sequence_match
  <2> TAKE s \in Slots
  <2> DEFINE m == seeded[s]
             id == snapshot.ids[s]
             x == m.x
             y == m.y
             tool == m.tool_type
             d == RestoredContact(id, x, y, tool)
  <2>1. id \in TrackingIds \cup {None} /\ x \in Int /\ y \in Int
    BY SnapshotParts
  <2>2. restored(s) = d
    OBVIOUS
  <2> HIDE DEF id, x, y, tool
  <2>3. /\ d.tracking_id = id /\ d.ownership = "Passthrough"
        /\ d.gesture_rejected => ~d.tap_sequence_eligible
        /\ ~d.tap_sequence_match
    BY <2>1, RestoredContactType
  <2> HIDE DEF d, restored
  <2> QED BY <2>2, <2>3 DEF id
<1>3. \A s \in SnapshotContacts(snapshot) : snapshot.ids[s] # None
  BY DEF SnapshotContacts
<1>4. \A s \in Slots :
        LET d == out.contact[s]
        IN /\ d.gesture_rejected => ~d.tap_sequence_eligible
           /\ ~d.tap_sequence_match
           /\ \/ d.tracking_id # None /\ d.ownership = "Passthrough"
              \/ /\ d.tracking_id = None /\ d.ownership = "Unknown"
                 /\ ~d.tap_sequence_eligible
  <2> HIDE DEF out, restored
  <2> TAKE s \in Slots
  <2>1. CASE s \in SnapshotContacts(snapshot)
    BY <1>1, <1>2, <1>3, <2>1
  <2>2. CASE s \notin SnapshotContacts(snapshot)
    BY <1>1, <2>2, NoContactFields
  <2> QED BY <2>1, <2>2
<1>5. \A s \in Slots : out.held_events[s] = <<>>
  <2> HIDE DEF out
  <2> QED BY <1>1
<1> HIDE DEF out
<1>6. PairInv(out)
  BY <1>4, <1>5 DEF PairInv
<1> QED BY <1>6 DEF out

-----------------------------------------------------------------------------
(* The steps of a frame.                                                   *)

LEMMA RejectPalmsPair ==
  ASSUME NEW en \in EngineState, PairInv(en)
  PROVE  PairInv(RejectPalms(en))
<1> DEFINE out == RejectPalms(en)
           palm(s) == LET c == en.contact[s]
                      IN c.tracking_id # None /\ IsPalm(scan.contacts[s][c.tracking_id])
<1>1. /\ out.held_events = en.held_events /\ out.pending_tap = en.pending_tap
      /\ out.contact = [s \in Slots |-> IF palm(s) THEN RejectGestures(en.contact[s])
                                       ELSE en.contact[s]]
  BY DEF RejectPalms, EngineState
<1>2. \A c \in Contact :
        LET d == RejectGestures(c)
        IN /\ d.tracking_id = c.tracking_id /\ d.ownership = c.ownership
           /\ d.gesture_rejected
           /\ ~d.tap_sequence_eligible /\ ~d.tap_sequence_match
  BY DEF RejectGestures, Contact
<1>3. \A s \in Slots :
        LET c == en.contact[s]  d == out.contact[s]
        IN \/ d = c
           \/ /\ d.tracking_id = c.tracking_id /\ d.ownership = c.ownership
              /\ d.gesture_rejected
              /\ ~d.tap_sequence_eligible /\ ~d.tap_sequence_match
  <2> HIDE DEF out, palm
  <2> TAKE s \in Slots
  <2>1. en.contact[s] \in Contact
    BY EngineFields
  <2> QED BY <1>1, <1>2, <2>1
<1> HIDE DEF out
<1>4. ASSUME NEW s \in Slots PROVE SlotInv(out, s) /\ MatchInv(out, s)
  BY <1>1, <1>3 DEF PairInv, HasPendingTap
<1>5. ASSUME NEW s \in Slots, NEW r \in Slots PROVE AloneInv(out, s, r)
  <2>1. AloneInv(en, s, r)
    BY DEF PairInv
  <2> QED BY <1>3, <2>1
<1>6. PairInv(out)
  BY <1>4, <1>5 DEF PairInv
<1> QED BY <1>6 DEF out

LEMMA PressButtonsPair ==
  ASSUME NEW en \in EngineState, PairInv(en), NEW codes \in SUBSET Buttons
  PROVE  PairInv(PressButtons(en, codes))
<1> DEFINE interrupted == InterruptTapSequence(en)
           pressed == [interrupted EXCEPT !.pressed = @ \cup codes]
<1>1. /\ interrupted \in EngineState /\ PairInv(interrupted)
      /\ NoMatch(interrupted)
  BY InterruptType, InterruptPair
<1> HIDE DEF interrupted
<1>2. /\ pressed.contact = interrupted.contact
      /\ pressed.held_events = interrupted.held_events
      /\ pressed.pending_tap = interrupted.pending_tap
  BY <1>1 DEF EngineState
<1>3. pressed \in EngineState
  <2>1. interrupted.pressed \cup codes \in SUBSET Buttons
    BY <1>1 DEF EngineState
  <2> QED BY <1>1, <2>1 DEF EngineState
<1> HIDE DEF pressed
<1>4. PairInv(pressed) /\ NoMatch(pressed)
  BY <1>1, <1>2, SameContacts DEF NoMatch
<1>5. PairInv(PromoteClaimedContacts(pressed))
  BY <1>3, <1>4, PromotePair
<1> QED
  BY <1>1, <1>5 DEF PressButtons, interrupted, pressed

LEMMA NewContactFields ==
  ASSUME NEW id \in TrackingIds, NEW t \in Int, NEW b \in BOOLEAN, NEW palm
  PROVE  LET c == IF palm THEN RejectGestures(NewContact(id, t, b))
                          ELSE NewContact(id, t, b)
         IN /\ c.tracking_id = id /\ c.tracking_id # None
            /\ c.ownership = "Unknown" /\ ~c.tap_sequence_match
            /\ IF palm THEN c.gesture_rejected /\ ~c.tap_sequence_eligible
                       ELSE /\ ~c.gesture_rejected
                            /\ c.tap_sequence_eligible = b
<1> DEFINE new == NewContact(id, t, b)
<1>1. new \in Contact
  BY NewContactType
<1>2. /\ new.tracking_id = id /\ id # None /\ new.ownership = "Unknown"
      /\ ~new.tap_sequence_match /\ ~new.gesture_rejected
      /\ new.tap_sequence_eligible = b
  BY IdsAssumption DEF NewContact, None
<1> HIDE DEF new
<1>3. LET r == RejectGestures(new)
      IN /\ r.tracking_id = new.tracking_id /\ r.ownership = new.ownership
         /\ r.gesture_rejected /\ ~r.tap_sequence_eligible
         /\ ~r.tap_sequence_match
  BY <1>1 DEF RejectGestures, Contact
<1> QED
  BY <1>2, <1>3 DEF new

LEMMA BeginContactPair ==
  ASSUME NEW en \in EngineState, PairInv(en), NEW s \in Slots,
         NEW id \in TrackingIds, ~IsActive(en, s),
         scan.contacts[s][id] \in FrameTool, stamp \in Int
  PROVE  PairInv(BeginContact(en, s, id))
<1> DEFINE tool == scan.contacts[s][id]
           palm == IsPalm(tool)
           another == \E r \in Slots :
                        IsActive(en, r) /\ ~en.contact[r].gesture_rejected
           lone == ~another /\ ~palm
           new == NewContact(id, stamp, lone)
           c == IF palm THEN RejectGestures(new) ELSE new
           event == TrackingIdEvent(id)
           began == [[en EXCEPT !.contact[s] = c] EXCEPT
                       !.held_events[s] = Append(@, event)]
           begun == [began EXCEPT !.memory[s].tool_type = tool.tool_type]
<1>1. /\ c.tracking_id # None /\ c.ownership = "Unknown"
      /\ ~c.tap_sequence_match
      /\ palm => c.gesture_rejected /\ ~c.tap_sequence_eligible
      /\ ~palm => /\ ~c.gesture_rejected
                  /\ c.tap_sequence_eligible = ~another
  <2>1. lone \in BOOLEAN /\ (~palm => lone = ~another)
    OBVIOUS
  <2> HIDE DEF lone
  <2>2. /\ c.tracking_id # None /\ c.ownership = "Unknown"
        /\ ~c.tap_sequence_match
        /\ IF palm THEN c.gesture_rejected /\ ~c.tap_sequence_eligible
                   ELSE /\ ~c.gesture_rejected
                        /\ c.tap_sequence_eligible = lone
    BY <2>1, NewContactFields
  <2> HIDE DEF palm, another, c
  <2> QED BY <2>1, <2>2
<1>0. begun \in EngineState
  <2>1. lone \in BOOLEAN
    OBVIOUS
  <2> HIDE DEF lone
  <2>2. [en EXCEPT !.contact[s] = c,
                   !.held_events[s] = Append(@, event),
                   !.memory[s].tool_type = tool.tool_type] \in EngineState
    BY <2>1, BegunType
  <2> HIDE DEF c, event, tool
  <2>3. begun = [en EXCEPT !.contact[s] = c,
                           !.held_events[s] = Append(@, event),
                           !.memory[s].tool_type = tool.tool_type]
    BY DEF EngineState
  <2> QED BY <2>2, <2>3
<1>2. /\ event \in Event /\ event.kind # "Slot"
  BY IdsAssumption DEF TrackingIdEvent, Event, Kinds
<1>3. en.held_events[s] \in Seq(Event)
  BY EngineFields
<1> DEFINE held == Append(en.held_events[s], event)
<1>4. \A i \in DOMAIN held : held[i].kind = "Slot" => held[i].value = s
  <2> TAKE i \in DOMAIN held
  <2>1. CASE i \in DOMAIN en.held_events[s]
    <3>1. held[i] = en.held_events[s][i]
      BY <1>3, <2>1
    <3> QED BY <2>1, <3>1 DEF PairInv
  <2>2. CASE i \notin DOMAIN en.held_events[s]
    <3>1. held[i] = event
      BY <1>3, <2>2
    <3> QED BY <1>2, <3>1
  <2> QED BY <2>1, <2>2
<1> HIDE DEF event, c
<1>5. /\ begun.pending_tap = en.pending_tap
      /\ begun.contact[s] = c /\ begun.held_events[s] = held
      /\ \A r \in Slots \ {s} : /\ begun.contact[r] = en.contact[r]
                                /\ begun.held_events[r] = en.held_events[r]
  <2> HIDE DEF tool
  <2> QED BY DEF EngineState
<1>7. begun = [en EXCEPT !.contact[s] = c,
                         !.held_events[s] = Append(@, event),
                         !.memory[s].tool_type = tool.tool_type]
  BY DEF EngineState
<1> HIDE DEF begun, held
<1>8. \A r \in Slots : SlotInv(begun, r)
  <2> TAKE r \in Slots
  <2>1. CASE r = s
    BY <1>1, <1>4, <1>5, <2>1
  <2>2. CASE r # s
    BY <1>5, <2>2 DEF PairInv
  <2> QED BY <2>1, <2>2
<1>9. PairInv(FlushPendingTap(WithoutPairing(begun)))
  BY <1>0, <1>8, WithoutPairingType, WithoutPairingPair, FlushPair
<1>10. ASSUME palm \/ ~another PROVE PairInv(begun)
  <2>1. \A r \in Slots \ {s} :
          /\ ~palm => (en.contact[r].tracking_id # None =>
                         en.contact[r].gesture_rejected)
          /\ en.contact[r].tracking_id = None => ~en.contact[r].tap_sequence_eligible
          /\ en.contact[r].gesture_rejected => ~en.contact[r].tap_sequence_eligible
    BY <1>10 DEF PairInv, IsActive
  <2> HIDE DEF palm, another
  <2>2. SlotInv(begun, s) /\ MatchInv(begun, s)
    BY <1>1, <1>5, <1>8
  <2>3. \A r \in Slots \ {s} : AloneInv(begun, s, r) /\ AloneInv(begun, r, s)
    BY <1>1, <1>5, <2>1
  <2> QED BY <1>5, <2>2, <2>3, OneSlotPair
<1>11. BeginContact(en, s, id) = IF another /\ ~palm
                                 THEN FlushPendingTap(WithoutPairing(begun))
                                 ELSE begun
  BY <1>7 DEF BeginContact, c, event
<1> QED
  BY <1>9, <1>10, <1>11

\* A new coordinate changes where a contact is, not what it is part of.
LEMMA ObserveView ==
  ASSUME NEW cfg, NEW c \in Contact
  PROVE  LET d == ObservePosition(cfg, c)
         IN /\ d.tracking_id = c.tracking_id /\ d.ownership = c.ownership
            /\ d.gesture_rejected = c.gesture_rejected
            /\ d.tap_sequence_eligible = c.tap_sequence_eligible
            /\ d.tap_sequence_match = c.tap_sequence_match
            /\ d.started_at = c.started_at
            /\ d.began_in_frame = c.began_in_frame
BY DEF ObservePosition, Contact

LEMMA PlacePair ==
  ASSUME NEW en \in EngineState, PairInv(en), NEW s \in Slots, NEW v \in Int
  PROVE  PairInv(PlaceX(en, s, v)) /\ PairInv(PlaceY(en, s, v))
<1> DEFINE c == en.contact[s]
           movedX == [c EXCEPT !.current_x = v, !.start_x = OrElse(@, v)]
           movedY == [c EXCEPT !.current_y = v, !.start_y = OrElse(@, v)]
<1>1. c \in Contact
  BY EngineFields
<1>2. movedX \in Contact /\ movedY \in Contact
  BY MovedType
<1>3. ASSUME NEW m \in {movedX, movedY}
      PROVE  LET d == ObservePosition(en.cfg, m)
             IN /\ d.tracking_id = c.tracking_id /\ d.ownership = c.ownership
                /\ d.gesture_rejected = c.gesture_rejected
                /\ d.tap_sequence_eligible = c.tap_sequence_eligible
                /\ d.tap_sequence_match = c.tap_sequence_match
                /\ d.started_at = c.started_at
  <2>1. \A i : LET k == [c EXCEPT !.current_x = v, !.start_x = i]
               IN /\ k.tracking_id = c.tracking_id /\ k.ownership = c.ownership
                  /\ k.gesture_rejected = c.gesture_rejected
                  /\ k.tap_sequence_eligible = c.tap_sequence_eligible
                  /\ k.tap_sequence_match = c.tap_sequence_match
                  /\ k.started_at = c.started_at
    <3> HIDE DEF c
    <3> QED BY <1>1 DEF Contact
  <2>2. \A i : LET k == [c EXCEPT !.current_y = v, !.start_y = i]
               IN /\ k.tracking_id = c.tracking_id /\ k.ownership = c.ownership
                  /\ k.gesture_rejected = c.gesture_rejected
                  /\ k.tap_sequence_eligible = c.tap_sequence_eligible
                  /\ k.tap_sequence_match = c.tap_sequence_match
                  /\ k.started_at = c.started_at
    <3> HIDE DEF c
    <3> QED BY <1>1 DEF Contact
  <2>3. /\ movedX = [c EXCEPT !.current_x = v, !.start_x = OrElse(c.start_x, v)]
        /\ movedY = [c EXCEPT !.current_y = v, !.start_y = OrElse(c.start_y, v)]
    <3> HIDE DEF c
    <3> QED BY <1>1 DEF Contact
  <2>4. /\ m.tracking_id = c.tracking_id /\ m.ownership = c.ownership
        /\ m.gesture_rejected = c.gesture_rejected
        /\ m.tap_sequence_eligible = c.tap_sequence_eligible
        /\ m.tap_sequence_match = c.tap_sequence_match
        /\ m.started_at = c.started_at
    <3> HIDE DEF c, movedX, movedY
    <3> QED BY <1>3, <2>1, <2>2, <2>3
  <2> HIDE DEF c, movedX, movedY
  <2> QED BY <1>2, <2>4, ObserveView
<1>4. ASSUME NEW out, NEW m \in {movedX, movedY},
             out.held_events = en.held_events, out.pending_tap = en.pending_tap,
             out.contact[s] = IF IsActive(en, s) THEN ObservePosition(en.cfg, m)
                                                 ELSE c,
             \A r \in Slots \ {s} : out.contact[r] = en.contact[r]
      PROVE  PairInv(out)
  <2> HIDE DEF movedX, movedY
  <2> QED BY <1>3, <1>4, SameViewPair
<1>5. PairInv(PlaceX(en, s, v))
  <2> DEFINE out == PlaceX(en, s, v)
             next == IF IsActive(en, s) THEN ObservePosition(en.cfg, movedX) ELSE c
  <2>1. out = [en EXCEPT !.memory[s].x = v, !.contact[s] = next]
    BY DEF PlaceX
  <2> HIDE DEF next
  <2>2. /\ out.held_events = en.held_events /\ out.pending_tap = en.pending_tap
        /\ out.contact[s] = next
        /\ \A r \in Slots \ {s} : out.contact[r] = en.contact[r]
    <3> HIDE DEF out
    <3> QED BY <2>1 DEF EngineState
  <2> HIDE DEF out, movedX, movedY
  <2> QED BY <1>4, <2>2 DEF next, out
<1>6. PairInv(PlaceY(en, s, v))
  <2> DEFINE out == PlaceY(en, s, v)
             next == IF IsActive(en, s) THEN ObservePosition(en.cfg, movedY) ELSE c
  <2>1. out = [en EXCEPT !.memory[s].y = v, !.contact[s] = next]
    BY DEF PlaceY
  <2> HIDE DEF next
  <2>2. /\ out.held_events = en.held_events /\ out.pending_tap = en.pending_tap
        /\ out.contact[s] = next
        /\ \A r \in Slots \ {s} : out.contact[r] = en.contact[r]
    <3> HIDE DEF out
    <3> QED BY <2>1 DEF EngineState
  <2> HIDE DEF out, movedX, movedY
  <2> QED BY <1>4, <2>2 DEF next, out
<1> QED BY <1>5, <1>6

LEMMA SettlePair ==
  ASSUME NEW en \in EngineState, PairInv(en)
  PROVE  PairInv(Settle(en))
BY EngineFields, DecideAndSlidePair DEF Settle, EngineState

-----------------------------------------------------------------------------
(* The invariant.                                                          *)

LEMMA InitPair == Init => PairInv(e)
BY NewEnginePair DEF Init

LEMMA StepPair == TypeInv /\ PairInv(e) /\ [Next]_vars => PairInv(e)'
<1> SUFFICES ASSUME TypeInv, PairInv(e), [Next]_vars PROVE PairInv(e')
  OBVIOUS
<1>e. e \in EngineState /\ e.current_slot \in Slots
  BY DEF TypeInv, TypeOK, EngineState
<1>u. e' = e => PairInv(e')
  OBVIOUS
<1>s. stamp \in Int
  BY DEF TypeInv, TypeOK, None
<1>1. ASSUME NEW f \in Frames \cup OddFrames, NEW t \in Stamps, StartFrame(f, t)
      PROVE  PairInv(e')
  <2>1. Codes(f.buttons, TRUE) \in SUBSET Buttons
    <3>1. \A i \in DOMAIN f.buttons : f.buttons[i] \in Button
      BY FramesAssumption DEF Frame
    <3> QED BY <3>1 DEF Codes, Button
  <2> QED BY <1>1, <1>e, <2>1, PressButtonsPair DEF StartFrame
<1>2. CASE ScanEvent
  BY <1>2, <1>u DEF ScanEvent, Fail
<1>3. CASE BeginEvents
  <2>1. RejectPalms(e) \in EngineState /\ PairInv(RejectPalms(e))
    BY <1>e, RejectPalmsType, RejectPalmsPair
  <2> QED BY <1>3, <2>1, ExpirePair DEF BeginEvents
<1>4. ASSUME NEW en \in EngineState, PairInv(en), Processed(en)
      PROVE  PairInv(e')
  BY <1>4, SettlePair DEF Processed
<1>5. ASSUME NEW kind, AtEvent(kind)
      PROVE  /\ CurrentEvent \in Event /\ CurrentEvent.value \in Int
             /\ CurrentEvent.kind = kind
             /\ CurrentEvent.kind = "TrackingId" =>
                  CurrentEvent.value \in TrackingIds \cup {None}
  <2>1. at \in DOMAIN frame.events
    BY <1>5 DEF AtEvent, TypeInv, TypeOK, FrameInHand, Frame
  <2>2. CurrentEvent \in Event /\ EventInRange(CurrentEvent)
    BY <2>1, EventsInRange DEF CurrentEvent
  <2> QED BY <1>5, <2>2 DEF AtEvent, CurrentEvent, EventInRange, Event
<1>6. CASE SlotSwitch
  <2> DEFINE d == [e EXCEPT !.current_slot = CurrentEvent.value]
  <2> SUFFICES ASSUME CurrentEvent.value \in Slots PROVE PairInv(e')
    BY <1>6, <1>u DEF SlotSwitch, Fail
  <2>1. d \in EngineState /\ d.current_slot = CurrentEvent.value
    BY <1>e DEF EngineState
  <2>2. /\ d.contact = e.contact /\ d.held_events = e.held_events
        /\ d.pending_tap = e.pending_tap
    BY <1>e DEF EngineState
  <2>3. CurrentEvent \in Event
    BY <1>5, <1>6 DEF SlotSwitch
  <2> HIDE DEF d
  <2>4. PairInv(d)
    BY <2>2, SameContacts
  <2>5. /\ RouteEvent(d, CurrentEvent) \in EngineState
        /\ PairInv(RouteEvent(d, CurrentEvent))
    BY <2>1, <2>3, <2>4, RouteEventType, RouteEventPair
  <2> QED BY <1>4, <1>6, <2>5 DEF SlotSwitch, d
<1>7. CASE ContactDown
  <2> SUFFICES ASSUME ~IsActive(e, e.current_slot) PROVE PairInv(e')
    BY <1>7, <1>u DEF ContactDown, Fail
  <2>1. CurrentEvent.value \in TrackingIds
    BY <1>5, <1>7 DEF ContactDown
  <2>2. scan.contacts[e.current_slot][CurrentEvent.value] \in FrameTool
    BY <2>1, <1>e DEF TypeInv, TypeOK
  <2>3. /\ BeginContact(e, e.current_slot, CurrentEvent.value) \in EngineState
        /\ PairInv(BeginContact(e, e.current_slot, CurrentEvent.value))
    BY <1>e, <1>s, <2>1, <2>2, BeginContactType, BeginContactPair
  <2> QED BY <1>4, <1>7, <2>3 DEF ContactDown
<1>8. CASE ContactUp
  <2>1. CurrentEvent \in Event /\ CurrentEvent.kind = "TrackingId"
    BY <1>5, <1>8 DEF ContactUp
  <2>2. /\ ReleaseCurrentSlot(e, CurrentEvent, stamp) \in EngineState
        /\ PairInv(ReleaseCurrentSlot(e, CurrentEvent, stamp))
    BY <1>e, <1>s, <2>1, ReleaseCurrentType, ReleaseCurrentPair
  <2> QED BY <1>4, <1>8, <2>2 DEF ContactUp
<1>9. CASE ToolType
  <2> SUFFICES ASSUME PalmRejection PROVE PairInv(e')
    BY <1>9, <1>u DEF ToolType
  <2> DEFINE d == [e EXCEPT !.memory[e.current_slot].tool_type
                              = CurrentEvent.value]
  <2>1. /\ CurrentEvent \in Event /\ CurrentEvent.value \in Int
        /\ CurrentEvent.kind # "Slot"
    BY <1>5, <1>9 DEF ToolType
  <2>2. d \in EngineState
    <3>1. \A m \in Memory, t \in Int : [m EXCEPT !.tool_type = t] \in Memory
      BY DEF Memory
    <3>2. [e.memory[e.current_slot] EXCEPT !.tool_type = CurrentEvent.value]
            \in Memory
      BY <1>e, <2>1, <3>1, EngineFields
    <3> QED BY <1>e, <3>2 DEF EngineState
  <2>3. /\ d.contact = e.contact /\ d.held_events = e.held_events
        /\ d.pending_tap = e.pending_tap
    BY <1>e DEF EngineState
  <2> HIDE DEF d
  <2>4. PairInv(d)
    BY <2>3, SameContacts
  <2>5. /\ RouteEvent(d, CurrentEvent) \in EngineState
        /\ PairInv(RouteEvent(d, CurrentEvent))
    BY <2>1, <2>2, <2>4, RouteEventType, RouteEventPair
  <2> QED BY <1>4, <1>9, <2>5 DEF ToolType, d
<1>10. CASE Position
  <2> DEFINE s == e.current_slot
             placed == IF CurrentEvent.kind = "X"
                       THEN PlaceX(e, s, CurrentEvent.value)
                       ELSE PlaceY(e, s, CurrentEvent.value)
  <2>1. /\ CurrentEvent \in Event /\ CurrentEvent.value \in Int
        /\ CurrentEvent.kind # "Slot"
    BY <1>5, <1>10 DEF Position
  <2>2. placed \in EngineState /\ PairInv(placed)
    BY <1>e, <2>1, PlaceXType, PlaceYType, PlacePair
  <2> HIDE DEF placed
  <2>3. /\ EndSpoiledPair(placed, s) \in EngineState
        /\ PairInv(EndSpoiledPair(placed, s))
    BY <2>2, FlushType, FlushPair DEF EndSpoiledPair
  <2>4. /\ RouteEvent(EndSpoiledPair(placed, s), CurrentEvent) \in EngineState
        /\ PairInv(RouteEvent(EndSpoiledPair(placed, s), CurrentEvent))
    BY <2>1, <2>3, RouteEventType, RouteEventPair
  <2> QED BY <1>4, <1>10, <2>4 DEF Position, placed
<1>11. CASE SynDropped
  <2>1. [ResetForResync(e) EXCEPT !.resync_required = TRUE] \in EngineState
    <3>1. \A d \in EngineState : [d EXCEPT !.resync_required = TRUE] \in EngineState
      BY DEF EngineState
    <3> QED BY <1>e, <3>1, ResetType
  <2> QED BY <1>4, <1>11, <1>e, <2>1, ResetPair DEF SynDropped
<1>12. CASE EventsDone
  BY <1>12, <1>u DEF EventsDone
<1>13. CASE FinalizeSlot
  <2>1. at \in Slots
    BY <1>13 DEF FinalizeSlot, TypeInv, TypeOK, FrameInHand, Slots
  <2> QED BY <1>13, <1>e, <2>1, FinalizeContactPair DEF FinalizeSlot
<1>14. CASE EndFrame
  <2>1. /\ e'.contact = e.contact /\ e'.held_events = e.held_events
        /\ e'.pending_tap = e.pending_tap
    BY <1>14, <1>e DEF EndFrame, ClearOutput, EngineState
  <2> QED BY <2>1, SameContacts
<1>15. CASE AdvanceTime
  BY <1>15, <1>e, ExpirePair DEF AdvanceTime, Output
<1>16. ASSUME NEW snapshot \in Snapshots, Resync(snapshot) PROVE PairInv(e')
  <2>1. snapshot \in Snapshot
    BY SnapshotsAssumption
  <2> QED BY <1>16, <1>e, <2>1, RestorePair DEF Resync, Output
<1>17. ASSUME NEW cfg \in Configs, Reload(cfg) PROVE PairInv(e')
  <2>1. /\ e'.contact = e.contact /\ e'.held_events = e.held_events
        /\ e'.pending_tap = e.pending_tap
    BY <1>17, <1>e DEF Reload, Reconfigure, EngineState
  <2> QED BY <2>1, SameContacts
<1>18. CASE UNCHANGED vars
  BY <1>18, <1>u DEF vars
<1> QED
  BY <1>1, <1>2, <1>3, <1>6, <1>7, <1>8, <1>9, <1>10, <1>11, <1>12, <1>13,
     <1>14, <1>15, <1>16, <1>17, <1>18 DEF Next, FrameStep

THEOREM PairInvariant == Spec => [](TypeInv /\ PairInv(e))
<1>1. Init => TypeInv /\ PairInv(e)
  BY InitType, InitPair
<1>2. (TypeInv /\ PairInv(e)) /\ [Next]_vars => (TypeInv /\ PairInv(e))'
  BY StepType, StepPair
<1> QED
  BY <1>1, <1>2, PTL DEF Spec

\* Whatever the frames, a contact that would complete a double tap fits the
\* pending tap, and there is one at most.
THEOREM MatchIsSound == Spec => []MatchNeedsPendingTap
<1>1. TypeInv /\ PairInv(e) => MatchNeedsPendingTap
  <2> SUFFICES ASSUME TypeInv, PairInv(e) PROVE MatchNeedsPendingTap
    OBVIOUS
  <2>1. e \in EngineState
    BY DEF TypeInv, TypeOK
  <2>2. \A s, r \in Slots : IsMatching(e, s) /\ IsMatching(e, r) => s = r
    BY <2>1, OneMatch DEF IsMatching
  <2> QED BY <2>2 DEF PairInv, MatchNeedsPendingTap, IsMatching
<1> QED
  BY <1>1, PairInvariant, PTL

\* Whatever the frames, only a finger alone with palms can pair.
THEOREM EligibilityIsSound == Spec => []EligibleIsAlone
<1>1. PairInv(e) => EligibleIsAlone
  BY DEF PairInv, EligibleIsAlone, IsActive
<1> QED
  BY <1>1, PairInvariant, PTL

\* Whatever the frames, events wait for their own undecided contact only.
THEOREM HeldEventsAreSound == Spec => []HeldNamesOwnSlot
<1>1. PairInv(e) => HeldNamesOwnSlot
  BY DEF PairInv, HeldNamesOwnSlot
<1> QED
  BY <1>1, PairInvariant, PTL

-----------------------------------------------------------------------------
(* What the operations do to the fingers.                                  *)

HIDE DEF SlotInv, MatchInv, AloneInv

\* The same finger, of which nothing new was observed.
SameFinger(c, d) ==
  /\ d.tracking_id = c.tracking_id /\ d.gesture_rejected = c.gesture_rejected
  /\ d.began_in_frame = c.began_in_frame /\ d.started_at = c.started_at
  /\ d.start_x = c.start_x /\ d.start_y = c.start_y
  /\ d.current_x = c.current_x /\ d.current_y = c.current_y

\* A decision is for good, but for a claimed contact that is promoted.
SameOwner(c, d) ==
  c.ownership # "Unknown" => d.ownership \in {c.ownership, "Passthrough"}

IsPlaced(c) == c.start_x # None /\ c.start_y # None

\* A contact is claimed only where it started, and never on a pressed pad.
ClaimIsSound(en, c, d) ==
  IsClaimed(d) /\ ~IsClaimed(c) =>
    /\ c.ownership = "Unknown" /\ c.tracking_id # None
    /\ IsPlaced(c)
    /\ ~(Buttonpad /\ en.pressed # {})

ContactKept(en, c, d) == SameFinger(c, d) /\ SameOwner(c, d) /\ ClaimIsSound(en, c, d)

SameSettings(en, out) ==
  /\ out.cfg = en.cfg /\ out.pressed = en.pressed
  /\ out.current_slot = en.current_slot /\ out.memory = en.memory
  /\ out.resync_required = en.resync_required

Kept(en, out) ==
  /\ out \in EngineState
  /\ SameSettings(en, out)
  /\ \A s \in Slots : ContactKept(en, en.contact[s], out.contact[s])

-----------------------------------------------------------------------------
(* The operations that keep the fingers.                                   *)

LEMMA ContactKeptItself ==
  ASSUME NEW en, NEW c
  PROVE  ContactKept(en, c, c)
BY DEF ContactKept, SameFinger, SameOwner, ClaimIsSound

LEMMA ContactKeptOn ==
  ASSUME NEW a, NEW b, NEW c, NEW d, NEW f, a.pressed = b.pressed,
         c.ownership \in Ownerships, d.ownership \in Ownerships,
         ContactKept(a, c, d), ContactKept(b, d, f)
  PROVE  ContactKept(a, c, f)
<1>1. SameFinger(c, f) /\ SameOwner(c, f)
  BY DEF ContactKept, SameFinger, SameOwner
<1>2. ClaimIsSound(a, c, f)
  BY DEF ContactKept, ClaimIsSound, SameFinger, SameOwner, IsPlaced, IsClaimed,
         Ownerships, Zones
<1> QED BY <1>1, <1>2 DEF ContactKept

LEMMA OwnershipType ==
  ASSUME NEW en \in EngineState, NEW s \in Slots
  PROVE  en.contact[s].ownership \in Ownerships
BY EngineFields DEF Contact

LEMMA KeptType ==
  ASSUME NEW en, NEW out, Kept(en, out)
  PROVE  out \in EngineState
BY DEF Kept

LEMMA KeptItself ==
  ASSUME NEW en \in EngineState
  PROVE  Kept(en, en)
BY ContactKeptItself DEF Kept, SameSettings

LEMMA KeptOn ==
  ASSUME NEW a \in EngineState, NEW b, NEW c, Kept(a, b), Kept(b, c)
  PROVE  Kept(a, c)
<1>1. SameSettings(a, c) /\ b.pressed = a.pressed
  BY DEF Kept, SameSettings
<1>2. \A s \in Slots : ContactKept(a, a.contact[s], c.contact[s])
  BY <1>1, OwnershipType, ContactKeptOn DEF Kept
<1> QED BY <1>1, <1>2 DEF Kept

LEMMA SameContactsKept ==
  ASSUME NEW en, NEW out \in EngineState, SameSettings(en, out),
         out.contact = en.contact
  PROVE  Kept(en, out)
BY ContactKeptItself DEF Kept

LEMMA OneContactKept ==
  ASSUME NEW en, NEW out \in EngineState, SameSettings(en, out), NEW s \in Slots,
         \A r \in Slots \ {s} : out.contact[r] = en.contact[r],
         ContactKept(en, en.contact[s], out.contact[s])
  PROVE  Kept(en, out)
BY ContactKeptItself DEF Kept

LEMMA FlushKept ==
  ASSUME NEW en \in EngineState
  PROVE  Kept(en, FlushPendingTap(en))
<1> DEFINE out == FlushPendingTap(en)
<1>1. out \in EngineState
  BY FlushType
<1>2. /\ SameSettings(en, out)
      /\ out.contact =
           [s \in Slots |-> [en.contact[s] EXCEPT !.tap_sequence_match = FALSE]]
  BY DEF FlushPendingTap, EngineState, SameSettings
<1>3. \A c \in Contact :
        LET d == [c EXCEPT !.tap_sequence_match = FALSE]
        IN SameFinger(c, d) /\ d.ownership = c.ownership
  BY DEF Contact, SameFinger
<1>4. \A s \in Slots : /\ SameFinger(en.contact[s], out.contact[s])
                       /\ out.contact[s].ownership = en.contact[s].ownership
  <2> TAKE s \in Slots
  <2> DEFINE d == [en.contact[s] EXCEPT !.tap_sequence_match = FALSE]
  <2>1. SameFinger(en.contact[s], d) /\ d.ownership = en.contact[s].ownership
    BY <1>3, EngineFields
  <2>2. out.contact[s] = d
    BY <1>2
  <2> QED BY <2>1, <2>2
<1> HIDE DEF out
<1>5. Kept(en, out)
  BY <1>1, <1>2, <1>4 DEF Kept, ContactKept, SameOwner, ClaimIsSound, IsClaimed
<1> QED BY <1>5 DEF out

LEMMA WithoutPairingKept ==
  ASSUME NEW en \in EngineState
  PROVE  Kept(en, WithoutPairing(en))
<1> DEFINE out == WithoutPairing(en)
<1>1. out \in EngineState
  BY WithoutPairingType
<1>2. /\ SameSettings(en, out)
      /\ out.contact =
           [s \in Slots |-> [en.contact[s] EXCEPT !.tap_sequence_eligible = FALSE,
                                                  !.tap_sequence_match = FALSE]]
  BY DEF WithoutPairing, EngineState, SameSettings
<1>3. \A c \in Contact :
        LET d == [c EXCEPT !.tap_sequence_eligible = FALSE,
                           !.tap_sequence_match = FALSE]
        IN SameFinger(c, d) /\ d.ownership = c.ownership
  BY DEF Contact, SameFinger
<1>4. \A s \in Slots : /\ SameFinger(en.contact[s], out.contact[s])
                       /\ out.contact[s].ownership = en.contact[s].ownership
  <2> TAKE s \in Slots
  <2> DEFINE d == [en.contact[s] EXCEPT !.tap_sequence_eligible = FALSE,
                                        !.tap_sequence_match = FALSE]
  <2>1. SameFinger(en.contact[s], d) /\ d.ownership = en.contact[s].ownership
    BY <1>3, EngineFields
  <2>2. out.contact[s] = d
    BY <1>2
  <2> QED BY <2>1, <2>2
<1> HIDE DEF out
<1>5. Kept(en, out)
  BY <1>1, <1>2, <1>4 DEF Kept, ContactKept, SameOwner, ClaimIsSound, IsClaimed
<1> QED BY <1>5 DEF out

LEMMA InterruptKept ==
  ASSUME NEW en \in EngineState
  PROVE  Kept(en, InterruptTapSequence(en))
BY WithoutPairingKept, WithoutPairingType, FlushKept, KeptOn DEF InterruptTapSequence

LEMMA ExpireKept ==
  ASSUME NEW en \in EngineState, NEW t
  PROVE  Kept(en, ExpirePendingTap(en, t))
BY FlushKept, KeptItself DEF ExpirePendingTap

LEMMA PushGestureKept ==
  ASSUME NEW en \in EngineState, NEW g \in Gesture
  PROVE  Kept(en, PushGesture(en, g))
<1>1. /\ PushGesture(en, g).contact = en.contact
      /\ SameSettings(en, PushGesture(en, g))
  BY DEF PushGesture, EngineState, SameSettings
<1> QED BY <1>1, PushGestureType, SameContactsKept

LEMMA PushPassthroughKept ==
  ASSUME NEW en \in EngineState, NEW s \in Slots, NEW events \in Seq(Event)
  PROVE  Kept(en, PushPassthrough(en, s, events))
<1>1. /\ PushPassthrough(en, s, events).contact = en.contact
      /\ SameSettings(en, PushPassthrough(en, s, events))
  BY DEF PushPassthrough, EngineState, SameSettings
<1> QED BY <1>1, PushPassthroughType, SameContactsKept

LEMMA HoldKept ==
  ASSUME NEW en \in EngineState, NEW s \in Slots, NEW event \in Event
  PROVE  Kept(en, [en EXCEPT !.held_events[s] = Append(@, event)])
<1> DEFINE held == Append(en.held_events[s], event)
           out == [en EXCEPT !.held_events[s] = held]
<1>1. held \in Seq(Event)
  BY EngineFields
<1>2. out \in EngineState
  <2> HIDE DEF held
  <2> QED BY <1>1, SetHeldEvents
<1>3. out.contact = en.contact /\ SameSettings(en, out)
  BY DEF EngineState, SameSettings
<1>4. [en EXCEPT !.held_events[s] = Append(@, event)] = out
  OBVIOUS
<1> HIDE DEF out
<1> QED BY <1>2, <1>3, <1>4, SameContactsKept

LEMMA RouteEventKept ==
  ASSUME NEW en \in EngineState, NEW event \in Event
  PROVE  Kept(en, RouteEvent(en, event))
<1>1. en.current_slot \in Slots /\ <<event>> \in Seq(Event)
  BY DEF EngineState
<1> QED
  BY <1>1, PushPassthroughKept, HoldKept, KeptItself DEF RouteEvent

LEMMA SetContactKept ==
  ASSUME NEW en \in EngineState, NEW s \in Slots, NEW c \in Contact,
         ContactKept(en, en.contact[s], c)
  PROVE  Kept(en, [[en EXCEPT !.contact[s] = c] EXCEPT !.held_events[s] = <<>>])
<1> DEFINE out == [[en EXCEPT !.contact[s] = c] EXCEPT !.held_events[s] = <<>>]
<1>1. out \in EngineState
  <2>1. [en EXCEPT !.contact[s] = c] \in EngineState /\ <<>> \in Seq(Event)
    BY SetContact
  <2> QED BY <2>1, SetHeldEvents
<1>2. /\ SameSettings(en, out) /\ out.contact[s] = c
      /\ \A r \in Slots \ {s} : out.contact[r] = en.contact[r]
  BY DEF EngineState, SameSettings
<1> HIDE DEF out
<1>3. Kept(en, out)
  BY <1>1, <1>2, OneContactKept
<1> QED BY <1>3 DEF out

LEMMA PassContactThroughKept ==
  ASSUME NEW en \in EngineState, NEW s \in Slots,
         en.contact[s].ownership = "Unknown"
  PROVE  LET out == PassContactThrough(en, s)
         IN Kept(en, out) /\ out.contact[s].ownership = "Passthrough"
<1> DEFINE c == [en.contact[s] EXCEPT !.ownership = "Passthrough"]
           owned == [[en EXCEPT !.contact[s] = c] EXCEPT !.held_events[s] = <<>>]
           settled == IF en.contact[s].gesture_rejected
                      THEN owned ELSE FlushPendingTap(owned)
           replayed == PushPassthrough(settled, s, en.held_events[s])
           tool == en.memory[s].tool_type
           tools == IF tool = None THEN <<>> ELSE <<ToolTypeEvent(tool)>>
           out == PushPassthrough(replayed, s, tools)
<1>1. /\ c \in Contact /\ c.ownership = "Passthrough"
      /\ ContactKept(en, en.contact[s], c)
  <2>1. \A d \in Contact :
          LET k == [d EXCEPT !.ownership = "Passthrough"]
          IN k \in Contact /\ SameFinger(d, k) /\ k.ownership = "Passthrough"
    BY DEF Contact, Ownerships, SameFinger
  <2>2. c \in Contact /\ SameFinger(en.contact[s], c) /\ c.ownership = "Passthrough"
    BY <2>1, EngineFields
  <2> HIDE DEF c
  <2> QED BY <2>2 DEF ContactKept, SameOwner, ClaimIsSound, IsClaimed, Zones
<1>2. owned \in EngineState /\ Kept(en, owned) /\ owned.contact[s] = c
  <2> HIDE DEF c
  <2>1. Kept(en, owned)
    BY <1>1, SetContactKept
  <2>2. owned.contact[s] = c
    BY DEF EngineState
  <2> HIDE DEF owned
  <2> QED BY <2>1, <2>2, KeptType
<1> HIDE DEF owned
<1>3. Kept(owned, settled) /\ settled \in EngineState
  BY <1>2, FlushKept, KeptItself, KeptType
<1> HIDE DEF settled
<1>4. Kept(settled, replayed) /\ replayed \in EngineState
  <2>1. en.held_events[s] \in Seq(Event)
    BY EngineFields
  <2> QED BY <1>3, <2>1, PushPassthroughKept, KeptType
<1> HIDE DEF replayed
<1>5. Kept(replayed, out) /\ out \in EngineState
  <2>1. tools \in Seq(Event)
    BY EngineFields, ToolEventType DEF Memory
  <2> HIDE DEF tools
  <2> QED BY <1>4, <2>1, PushPassthroughKept, KeptType
<1>6. Kept(owned, out)
  <2>1. Kept(settled, out)
    BY <1>3, <1>4, <1>5, KeptOn
  <2> QED BY <1>2, <1>3, <2>1, KeptOn
<1>7. PassContactThrough(en, s) = out
  BY DEF PassContactThrough, replayed, settled, owned
<1> HIDE DEF tools, out, c
<1>8. Kept(en, out)
  BY <1>2, <1>6, KeptOn
<1>9. out.contact[s].ownership = "Passthrough"
  BY <1>1, <1>2, <1>6 DEF Kept, ContactKept, SameOwner
<1> QED BY <1>7, <1>8, <1>9

LEMMA ClaimContactKept ==
  ASSUME NEW en \in EngineState, NEW s \in Slots, NEW zone \in Zones,
         en.contact[s].ownership = "Unknown", IsActive(en, s),
         IsPlaced(en.contact[s]), ~(Buttonpad /\ en.pressed # {})
  PROVE  LET out == ClaimContact(en, s, zone)
         IN Kept(en, out) /\ out.contact[s].ownership = zone
<1> DEFINE c == en.contact[s]
           match == /\ ~c.gesture_rejected
                    /\ ContactMatchesPendingTap(en.cfg, en.pending_tap, c, zone)
           settled == IF HasPendingTap(en) /\ ~match /\ ~c.gesture_rejected
                      THEN FlushPendingTap(en) ELSE en
           anchor == IF en.cfg.sliders[zone] > 0
                     THEN SliderPosition(zone, c) ELSE None
           claimed == [settled.contact[s] EXCEPT !.ownership = zone,
                                                 !.slider_anchor = anchor,
                                                 !.tap_sequence_match = match]
           out == [[settled EXCEPT !.contact[s] = claimed]
                     EXCEPT !.held_events[s] = <<>>]
<1>1. settled \in EngineState /\ Kept(en, settled)
  BY FlushKept, KeptItself DEF Kept
<1>2. /\ settled.contact[s].ownership = "Unknown" /\ IsActive(settled, s)
      /\ IsPlaced(settled.contact[s]) /\ settled.pressed = en.pressed
  <2> HIDE DEF settled
  <2>1. /\ SameFinger(en.contact[s], settled.contact[s])
        /\ settled.pressed = en.pressed
    BY <1>1 DEF Kept, SameSettings, ContactKept
  <2>2. settled.contact[s].ownership = "Unknown"
    BY FlushView DEF settled
  <2> QED BY <2>1, <2>2 DEF SameFinger, IsPlaced, IsActive
<1>3. anchor \in Int /\ match \in BOOLEAN
  BY SliderPositionType, EngineFields DEF None, ContactMatchesPendingTap
<1> HIDE DEF settled, anchor, match
<1>4. /\ claimed \in Contact /\ claimed.ownership = zone
      /\ ContactKept(settled, settled.contact[s], claimed)
  <2>1. \A d \in Contact, a \in Int, b \in BOOLEAN :
          LET k == [d EXCEPT !.ownership = zone, !.slider_anchor = a,
                             !.tap_sequence_match = b]
          IN k \in Contact /\ SameFinger(d, k) /\ k.ownership = zone
    <3> TAKE d \in Contact, a \in Int, b \in BOOLEAN
    <3> DEFINE k == [d EXCEPT !.ownership = zone, !.slider_anchor = a,
                              !.tap_sequence_match = b]
    <3>1. k \in Contact
      BY DEF Contact, Ownerships
    <3>2. SameFinger(d, k) /\ k.ownership = zone
      BY DEF Contact, SameFinger
    <3> QED BY <3>1, <3>2
  <2>2. settled.contact[s] \in Contact
    BY <1>1, EngineFields
  <2>3. /\ claimed \in Contact /\ SameFinger(settled.contact[s], claimed)
        /\ claimed.ownership = zone
    BY <1>3, <2>1, <2>2
  <2> HIDE DEF claimed
  <2> QED BY <1>2, <2>3 DEF ContactKept, SameOwner, ClaimIsSound, IsActive
<1>5. [settled EXCEPT !.contact[s].ownership = zone,
                      !.contact[s].slider_anchor = anchor,
                      !.contact[s].tap_sequence_match = match,
                      !.held_events[s] = <<>>] = out
  <2>1. /\ DOMAIN settled.contact = Slots
        /\ DOMAIN settled = DOMAIN [settled EXCEPT !.contact[s] = claimed]
    BY <1>1 DEF EngineState
  <2>2. [settled EXCEPT !.contact[s].ownership = zone,
                        !.contact[s].slider_anchor = anchor,
                        !.contact[s].tap_sequence_match = match]
          = [settled EXCEPT !.contact[s] = claimed]
    BY <1>1 DEF EngineState
  <2> QED BY <2>2
<1>6. ClaimContact(en, s, zone) = out
  BY <1>5 DEF ClaimContact, settled, anchor, match
<1> HIDE DEF claimed
<1>7. Kept(settled, out)
  BY <1>1, <1>4, SetContactKept
<1>8. out.contact[s] = claimed
  BY <1>1 DEF EngineState
<1> HIDE DEF out
<1>9. Kept(en, out)
  BY <1>1, <1>7, KeptOn
<1> QED BY <1>4, <1>6, <1>8, <1>9

\* A contact whose start is known is decided at once.
LEMMA DecideKept ==
  ASSUME NEW en \in EngineState, NEW s \in Slots
  PROVE  LET out == DecideOwnershipIfReady(en, s)
         IN /\ Kept(en, out)
            /\ IsActive(en, s) /\ IsPlaced(en.contact[s]) =>
                 out.contact[s].ownership # "Unknown"
<1> DEFINE zone == ZoneForContact(en, s)
           c == en.contact[s]
<1>1. zone \in Zones \cup {"None"}
  BY ZoneType DEF ZoneForContact
<1>2. zone # "None" => ~(Buttonpad /\ en.pressed # {})
  BY DEF ZoneForContact
<1> HIDE DEF zone
<1>3. CASE ~IsActive(en, s) \/ c.ownership # "Unknown" \/ ~IsPlaced(c)
  BY <1>3, KeptItself DEF DecideOwnershipIfReady, IsPlaced
<1>4. CASE /\ IsActive(en, s) /\ c.ownership = "Unknown" /\ IsPlaced(c)
           /\ zone = "None"
  <2>1. DecideOwnershipIfReady(en, s) = PassContactThrough(en, s)
    BY <1>4 DEF DecideOwnershipIfReady, zone, IsPlaced
  <2> QED BY <1>4, <2>1, PassContactThroughKept
<1>5. CASE /\ IsActive(en, s) /\ c.ownership = "Unknown" /\ IsPlaced(c)
           /\ zone # "None"
  <2>1. DecideOwnershipIfReady(en, s) = ClaimContact(en, s, zone)
    BY <1>5 DEF DecideOwnershipIfReady, zone, IsPlaced
  <2>2. zone \in Zones /\ zone # "Unknown"
    BY <1>1, <1>5 DEF Zones
  <2> QED BY <1>2, <1>5, <2>1, <2>2, ClaimContactKept
<1> QED BY <1>3, <1>4, <1>5

\* A slider moves an anchor and a phase.
LEMMA AnchorKept ==
  ASSUME NEW en \in EngineState, NEW s \in Slots, NEW a, NEW out \in EngineState,
         \/ out.contact[s] = [en.contact[s] EXCEPT !.slider_anchor = a]
         \/ out.contact[s] = [en.contact[s] EXCEPT
                                !.contact_phase = "ConsumedBySlider",
                                !.slider_anchor = a],
         SameSettings(en, out),
         \A r \in Slots \ {s} : out.contact[r] = en.contact[r]
  PROVE  Kept(en, out)
<1> DEFINE c == en.contact[s]
           k == out.contact[s]
<1>1. c \in Contact
  BY EngineFields
<1>2. SameFinger(c, k) /\ k.ownership = c.ownership
  <2>1. CASE k = [c EXCEPT !.slider_anchor = a]
    <3> HIDE DEF c, k
    <3> QED BY <1>1, <2>1 DEF Contact, SameFinger
  <2>2. CASE k = [c EXCEPT !.contact_phase = "ConsumedBySlider",
                           !.slider_anchor = a]
    <3> HIDE DEF c, k
    <3> QED BY <1>1, <2>2 DEF Contact, SameFinger
  <2> QED BY <2>1, <2>2
<1>3. ContactKept(en, c, k)
  BY <1>2 DEF ContactKept, SameOwner, ClaimIsSound, IsClaimed
<1> QED BY <1>3, OneContactKept

LEMMA TakeStepsKept ==
  ASSUME NEW en \in EngineState, NEW s \in Slots, NEW count \in Nat,
         IsClaimed(en.contact[s])
  PROVE  Kept(en, TakeSliderSteps(en, s, count))
<1> DEFINE c == en.contact[s]
           forward == SliderPosition(c.ownership, c) >= c.slider_anchor
           travel == count * en.cfg.sliders[c.ownership]
           anchor == IF forward THEN c.slider_anchor + travel
                                ELSE c.slider_anchor - travel
           out == TakeSliderSteps(en, s, count)
           k == [ConsumeBySlider(c) EXCEPT !.slider_anchor = anchor]
<1>1. SameSettings(en, out) /\ out.contact = [en.contact EXCEPT ![s] = k]
  <2> HIDE DEF anchor
  <2> QED BY DEF TakeSliderSteps, EngineState, anchor, SameSettings
<1>2. /\ out.contact[s] = k
      /\ \A r \in Slots \ {s} : out.contact[r] = en.contact[r]
  <2> HIDE DEF k, out
  <2> QED BY <1>1 DEF EngineState
<1>3. out.contact[s] = [en.contact[s] EXCEPT !.contact_phase = "ConsumedBySlider",
                                             !.slider_anchor = anchor]
  BY <1>2 DEF ConsumeBySlider
<1>4. out \in EngineState
  BY TakeStepsType
<1> HIDE DEF out, anchor, c, k
<1>5. Kept(en, out)
  BY <1>1, <1>2, <1>3, <1>4, AnchorKept
<1> QED BY <1>5 DEF out

LEMMA EmitKept ==
  ASSUME NEW en \in EngineState, NEW s \in Slots
  PROVE  Kept(en, EmitSliderStepsIfReady(en, s))
<1> DEFINE c == en.contact[s]
           position == SliderPosition(c.ownership, c)
           count == StepCount(Distance(c.slider_anchor, position),
                              en.cfg.sliders[c.ownership])
           anchored == [en EXCEPT !.contact[s].slider_anchor = position]
           taken == TakeSliderSteps(en, s, count)
<1> SUFFICES ASSUME EmitSliderStepsIfReady(en, s) # en, IsClaimed(c),
                    en.cfg.sliders[c.ownership] > 0,
                    EmitSliderStepsIfReady(en, s) = EmitSliderSteps(en, s)
             PROVE  Kept(en, EmitSliderSteps(en, s))
  BY KeptItself DEF EmitSliderStepsIfReady
<1>1. c \in Contact /\ c.ownership \in Zones
  BY EngineFields DEF IsClaimed
<1>2. count \in Nat
  BY <1>1, SliderPositionType, ConfigInForce, ContactFields, DistanceType,
     StepCountType
<1>3. Kept(en, FlushPendingTap(taken))
  <2>1. Kept(en, taken)
    <3> HIDE DEF count
    <3> QED BY <1>2, TakeStepsKept
  <2> HIDE DEF taken
  <2> QED BY <2>1, FlushKept, KeptOn DEF Kept
<1>4. Kept(en, anchored)
  <2>1. position \in Int
    BY <1>1, SliderPositionType
  <2> HIDE DEF position
  <2>2. anchored \in EngineState
    <3> DEFINE k == [c EXCEPT !.slider_anchor = position]
    <3>1. \A d \in Contact, a \in Int : [d EXCEPT !.slider_anchor = a] \in Contact
      BY DEF Contact
    <3>2. k \in Contact
      BY <1>1, <2>1, <3>1
    <3>3. anchored = [en EXCEPT !.contact[s] = k]
      BY DEF EngineState
    <3> HIDE DEF k
    <3> QED BY <3>2, <3>3, SetContact
  <2>3. /\ anchored.contact[s] = [c EXCEPT !.slider_anchor = position]
        /\ SameSettings(en, anchored)
        /\ \A r \in Slots \ {s} : anchored.contact[r] = en.contact[r]
    BY DEF EngineState, SameSettings
  <2> HIDE DEF anchored
  <2> QED BY <2>2, <2>3, AnchorKept
<1> HIDE DEF count, position
<1> QED
  BY <1>3, <1>4, KeptItself DEF EmitSliderSteps, position, count

LEMMA DecideAndSlideKept ==
  ASSUME NEW en \in EngineState, NEW s \in Slots
  PROVE  LET out == DecideAndSlide(en, s)
         IN /\ Kept(en, out)
            /\ IsActive(en, s) /\ IsPlaced(en.contact[s]) =>
                 out.contact[s].ownership # "Unknown"
<1> DEFINE decided == DecideOwnershipIfReady(en, s)
           out == DecideAndSlide(en, s)
<1>1. decided \in EngineState /\ Kept(en, decided)
  BY DecideKept DEF Kept
<1>2. Kept(decided, out)
  <2> HIDE DEF decided
  <2> QED BY <1>1, EmitKept DEF DecideAndSlide, decided
<1>3. IsActive(en, s) /\ IsPlaced(en.contact[s]) =>
        decided.contact[s].ownership # "Unknown"
  BY DecideKept
<1> HIDE DEF decided, out
<1>4. /\ Kept(en, out)
      /\ IsActive(en, s) /\ IsPlaced(en.contact[s]) =>
           out.contact[s].ownership # "Unknown"
  BY <1>1, <1>2, <1>3, KeptOn DEF Kept, ContactKept, SameOwner
<1> QED BY <1>4 DEF out

\* The end of the loop body decides the current contact, unless it is new.
LEMMA SettleKept ==
  ASSUME NEW en \in EngineState
  PROVE  LET out == Settle(en)
             c == en.contact[en.current_slot]
         IN /\ Kept(en, out)
            /\ c.tracking_id # None /\ IsPlaced(c) /\ ~c.began_in_frame =>
                 out.contact[en.current_slot].ownership # "Unknown"
<1>1. en.current_slot \in Slots
  BY DEF EngineState
<1> QED
  BY <1>1, KeptItself, DecideAndSlideKept DEF Settle, IsActive

LEMMA EndSpoiledKept ==
  ASSUME NEW en \in EngineState, NEW s \in Slots
  PROVE  Kept(en, EndSpoiledPair(en, s))
BY FlushKept, KeptItself DEF EndSpoiledPair

\* Afterwards no contact that is down at a known place is claimed.
LEMMA PromoteKept ==
  ASSUME NEW en \in EngineState
  PROVE  LET out == PromoteClaimedContacts(en)
         IN /\ Kept(en, out)
            /\ \A s \in Slots : ~CanPromote(out, s)
<1> DEFINE out == PromoteClaimedContacts(en)
           k(c) == [c EXCEPT !.ownership = "Passthrough", !.slider_anchor = None]
<1>1. out \in EngineState
  BY PromoteType
<1>2. /\ SameSettings(en, out)
      /\ out.contact = [s \in Slots |-> IF CanPromote(en, s) THEN k(en.contact[s])
                                                            ELSE en.contact[s]]
  BY DEF PromoteClaimedContacts, EngineState, SameSettings
<1>3. \A c \in Contact : SameFinger(c, k(c)) /\ k(c).ownership = "Passthrough"
  BY DEF Contact, SameFinger
<1> HIDE DEF out, k
<1>4. ASSUME NEW s \in Slots
      PROVE  ContactKept(en, en.contact[s], out.contact[s]) /\ ~CanPromote(out, s)
  <2>1. CASE CanPromote(en, s)
    <3>1. /\ SameFinger(en.contact[s], out.contact[s])
          /\ out.contact[s].ownership = "Passthrough"
      BY <1>2, <1>3, <2>1, EngineFields
    <3> QED BY <3>1 DEF ContactKept, SameOwner, ClaimIsSound, IsClaimed, Zones,
                        CanPromote
  <2>2. CASE ~CanPromote(en, s)
    <3>1. out.contact[s] = en.contact[s]
      BY <1>2, <2>2
    <3> QED BY <2>2, <3>1, ContactKeptItself DEF CanPromote, IsActive
  <2> QED BY <2>1, <2>2
<1>5. Kept(en, out) /\ \A s \in Slots : ~CanPromote(out, s)
  BY <1>1, <1>2, <1>4 DEF Kept
<1> QED BY <1>5 DEF out

LEMMA HandleClassifiedKept ==
  ASSUME NEW en \in EngineState, NEW g \in Gesture, NEW c \in Contact,
         NEW t \in Int
  PROVE  Kept(en, HandleClassifiedGesture(en, g, c, t))
<1> DEFINE flushed == FlushPendingTap(en)
           out == HandleClassifiedGesture(en, g, c, t)
<1>1. flushed \in EngineState /\ Kept(en, flushed)
  BY FlushType, FlushKept
<1>2. out \in EngineState
  BY HandleClassifiedType
<1>3. \A p \in EngineState : \A q : SameSettings(p, [p EXCEPT !.pending_tap = q])
                     /\ [p EXCEPT !.pending_tap = q].contact = p.contact
  BY DEF EngineState, SameSettings
<1>4. [en EXCEPT !.pending_tap = NoTap] \in EngineState
  BY NoTapType DEF EngineState
<1>5. \A p \in EngineState : \A q : [p EXCEPT !.pending_tap = q] \in EngineState =>
                                  Kept(p, [p EXCEPT !.pending_tap = q])
  BY <1>3, SameContactsKept
<1>6. [g EXCEPT !.direction = "DoubleTap"] \in Gesture
  BY DEF Gesture
<1>7. Kept(en, PushGesture([en EXCEPT !.pending_tap = NoTap],
                           [g EXCEPT !.direction = "DoubleTap"]))
  BY <1>4, <1>5, <1>6, PushGestureKept, KeptOn
<1>8. Kept(en, PushGesture(flushed, g))
  <2> HIDE DEF flushed
  <2> QED BY <1>1, PushGestureKept, KeptOn
<1>9. \A q : out = [flushed EXCEPT !.pending_tap = q] => Kept(en, out)
  <2> HIDE DEF flushed, out
  <2> QED BY <1>1, <1>2, <1>5, KeptOn
<1>10. Kept(en, PushGesture(en, g))
  BY PushGestureKept
<1> QED
  BY <1>1, <1>7, <1>8, <1>9, <1>10 DEF HandleClassifiedGesture

LEMMA ReleaseClaimedKept ==
  ASSUME NEW en \in EngineState, NEW s \in Slots, NEW c \in Contact,
         IsClaimed(c), NEW t \in Int
  PROVE  Kept(en, ReleaseClaimed(en, s, c, t))
<1> DEFINE direction == ClassifyGesture(en.cfg, c, t)
           g == [zone |-> c.ownership, direction |-> direction, slot |-> s,
                 tracking_id |-> c.tracking_id]
<1>1. ASSUME direction # "None" PROVE g \in Gesture
  <2>1. direction \in Directions \cup {"Tap", "DoubleTap"}
    BY <1>1, DirectionType
  <2>2. c.ownership \in Zones /\ c.tracking_id \in Int /\ s \in Int
    BY ContactFields, SlotsAssumption DEF IsClaimed, Slots
  <2> HIDE DEF direction
  <2> QED BY <2>1, <2>2 DEF Gesture
<1> QED
  BY <1>1, FlushKept, KeptItself, HandleClassifiedKept DEF ReleaseClaimed
-----------------------------------------------------------------------------
(* What each action does to the fingers.                                   *)

SamePressed(en, out) ==
  /\ out.cfg = en.cfg /\ out.pressed = en.pressed
  /\ out.resync_required = en.resync_required

\* Everything a finger is but whether it is a palm.
SamePlace(c, d) ==
  /\ d.tracking_id = c.tracking_id
  /\ d.began_in_frame = c.began_in_frame /\ d.started_at = c.started_at
  /\ d.start_x = c.start_x /\ d.start_y = c.start_y
  /\ d.current_x = c.current_x /\ d.current_y = c.current_y

LEMMA InHand ==
  ASSUME TypeInv
  PROVE  /\ e \in EngineState /\ e.current_slot \in Slots
         /\ kernel.slot \in Slots /\ stamp \in Int
         /\ \A s \in Slots : kernel.ids[s] \in TrackingIds \cup {None}
         /\ DOMAIN kernel.ids = Slots /\ "slot" \in DOMAIN kernel
         /\ \A s \in Slots, id \in TrackingIds : scan.contacts[s][id] \in FrameTool
BY DEF TypeInv, TypeOK, EngineState, None

LEMMA EventInHand ==
  ASSUME TypeInv, NEW kind, AtEvent(kind)
  PROVE  /\ phase = "events" /\ at \in DOMAIN frame.events
         /\ CurrentEvent = frame.events[at]
         /\ CurrentEvent \in Event /\ CurrentEvent.value \in Int
         /\ CurrentEvent.kind = kind
         /\ CurrentEvent.kind = "TrackingId" =>
              CurrentEvent.value \in TrackingIds \cup {None}
<1>1. at \in DOMAIN frame.events
  BY DEF AtEvent, TypeInv, TypeOK, FrameInHand, Frame
<1>2. CurrentEvent \in Event /\ EventInRange(CurrentEvent)
  BY <1>1, EventsInRange DEF CurrentEvent
<1> QED BY <1>1, <1>2 DEF AtEvent, CurrentEvent, EventInRange, Event

\* A press: on a buttonpad nothing that is down at a known place stays claimed.
LEMMA StartView ==
  ASSUME TypeInv, NEW f \in Frames \cup OddFrames, NEW t \in Stamps,
         StartFrame(f, t)
  PROVE  LET codes == Codes(f.buttons, TRUE)
         IN /\ e' \in EngineState
            /\ e'.cfg = e.cfg /\ e'.resync_required = e.resync_required
            /\ e'.current_slot = e.current_slot /\ e'.memory = e.memory
            /\ e'.pressed = IF Buttonpad THEN e.pressed \cup codes ELSE e.pressed
            /\ \A s \in Slots : /\ SameFinger(e.contact[s], e'.contact[s])
                                /\ SameOwner(e.contact[s], e'.contact[s])
                                /\ ClaimIsSound(e, e.contact[s], e'.contact[s])
            /\ Buttonpad /\ codes # {} => \A s \in Slots : ~CanPromote(e', s)
<1> DEFINE codes == Codes(f.buttons, TRUE)
           interrupted == InterruptTapSequence(e)
           pressed == [interrupted EXCEPT !.pressed = @ \cup codes]
<1>1. e \in EngineState /\ e' = PressButtons(e, codes)
  BY InHand DEF StartFrame
<1>2. codes \in SUBSET Buttons
  <2>1. f \in Frame
    BY FramesAssumption
  <2>2. \A i \in DOMAIN f.buttons : f.buttons[i] \in Button
    BY <2>1 DEF Frame
  <2> QED BY <2>2 DEF Codes, Button
<1>3. interrupted \in EngineState /\ Kept(e, interrupted)
  BY <1>1, InterruptKept, KeptType
<1> HIDE DEF interrupted, codes
<1>4. CASE codes = {}
  <2>1. e' = e
    BY <1>1, <1>4 DEF PressButtons
  <2>2. e.pressed \cup codes = e.pressed
    BY <1>4
  <2>3. \A s \in Slots : ContactKept(e, e.contact[s], e.contact[s])
    BY ContactKeptItself
  <2> QED BY <1>1, <1>4, <2>1, <2>2, <2>3 DEF ContactKept, codes
<1>5. CASE codes # {} /\ ~Buttonpad
  <2>1. e' = interrupted
    BY <1>1, <1>5 DEF PressButtons, interrupted
  <2> QED BY <1>3, <1>5, <2>1 DEF Kept, ContactKept, SameSettings, codes
<1>6. CASE codes # {} /\ Buttonpad
  <2>1. e' = PromoteClaimedContacts(pressed)
    BY <1>1, <1>6 DEF PressButtons, interrupted
  <2>2. /\ pressed \in EngineState
        /\ pressed.contact = interrupted.contact
        /\ pressed.pressed = interrupted.pressed \cup codes
        /\ pressed.cfg = interrupted.cfg
        /\ pressed.current_slot = interrupted.current_slot
        /\ pressed.memory = interrupted.memory
        /\ pressed.resync_required = interrupted.resync_required
    <3>1. interrupted.pressed \cup codes \in SUBSET Buttons
      BY <1>2, <1>3 DEF EngineState
    <3> QED BY <1>3, <3>1 DEF EngineState
  <2> HIDE DEF pressed
  <2>3. Kept(pressed, e') /\ \A s \in Slots : ~CanPromote(e', s)
    BY <2>1, <2>2, PromoteKept
  <2>4. /\ e'.cfg = e.cfg /\ e'.resync_required = e.resync_required
        /\ e'.current_slot = e.current_slot /\ e'.memory = e.memory
        /\ e'.pressed = e.pressed \cup codes /\ e' \in EngineState
    BY <1>3, <2>2, <2>3 DEF Kept, SameSettings
  <2>5. ASSUME NEW s \in Slots
        PROVE  /\ SameFinger(e.contact[s], e'.contact[s])
               /\ SameOwner(e.contact[s], e'.contact[s])
               /\ ClaimIsSound(e, e.contact[s], e'.contact[s])
    <3> DEFINE b == interrupted.contact[s]
    <3>1. ContactKept(e, e.contact[s], b) /\ ContactKept(pressed, b, e'.contact[s])
      BY <1>3, <2>2, <2>3 DEF Kept
    <3>2. /\ e.contact[s].ownership \in Ownerships /\ b.ownership \in Ownerships
      BY <1>1, <1>3, OwnershipType
    <3>3. pressed.pressed # {}
      BY <1>6, <2>2
    <3>4. IsClaimed(e'.contact[s]) => IsClaimed(b)
      BY <1>6, <3>1, <3>3 DEF ContactKept, ClaimIsSound
    <3> HIDE DEF b
    <3>5. SameFinger(e.contact[s], e'.contact[s]) /\ SameOwner(e.contact[s], e'.contact[s])
      BY <3>1 DEF ContactKept, SameFinger, SameOwner
    <3>6. ClaimIsSound(e, e.contact[s], e'.contact[s])
      BY <3>1, <3>4 DEF ContactKept, ClaimIsSound
    <3> QED BY <3>5, <3>6
  <2> QED BY <1>6, <2>3, <2>4, <2>5 DEF codes
<1> QED BY <1>4, <1>5, <1>6

\* The contacts that the frame reports as palms are excluded for good.
LEMMA BeginEventsView ==
  ASSUME TypeInv, BeginEvents
  PROVE  /\ e' \in EngineState /\ SameSettings(e, e')
         /\ \A s \in Slots :
              LET c == e.contact[s]  d == e'.contact[s]
              IN /\ SamePlace(c, d) /\ SameOwner(c, d)
                 /\ ClaimIsSound(e, c, d)
                 /\ d.gesture_rejected <=>
                      \/ c.gesture_rejected
                      \/ /\ c.tracking_id # None
                         /\ IsPalm(scan.contacts[s][c.tracking_id])
<1> DEFINE en == RejectPalms(e)
           palm(s) == LET c == e.contact[s]
                      IN c.tracking_id # None /\ IsPalm(scan.contacts[s][c.tracking_id])
<1>1. e \in EngineState /\ en \in EngineState
  BY InHand, RejectPalmsType
<1>2. /\ SameSettings(e, en)
      /\ en.contact = [s \in Slots |-> IF palm(s) THEN RejectGestures(e.contact[s])
                                                 ELSE e.contact[s]]
  BY <1>1 DEF RejectPalms, EngineState, SameSettings
<1>3. Kept(en, e')
  BY <1>1, ExpireKept, KeptItself DEF BeginEvents
<1>4. \A c \in Contact :
        LET d == RejectGestures(c)
        IN /\ SamePlace(c, d) /\ d.ownership = c.ownership
           /\ d.gesture_rejected
  BY DEF RejectGestures, Contact, SamePlace
<1>5. ASSUME NEW s \in Slots
      PROVE  LET c == e.contact[s]  d == e'.contact[s]
             IN /\ SamePlace(c, d) /\ SameOwner(c, d)
                /\ ClaimIsSound(e, c, d)
                /\ d.gesture_rejected <=> c.gesture_rejected \/ palm(s)
  <2> DEFINE b == en.contact[s]
  <2>1. ContactKept(en, b, e'.contact[s]) /\ en.pressed = e.pressed
    BY <1>2, <1>3 DEF Kept, SameSettings
  <2>2. /\ SamePlace(e.contact[s], b) /\ b.ownership = e.contact[s].ownership
        /\ b.gesture_rejected <=> e.contact[s].gesture_rejected \/ palm(s)
    <3> HIDE DEF en, palm
    <3>1. CASE palm(s)
      <4>1. b = RejectGestures(e.contact[s]) /\ e.contact[s] \in Contact
        BY <1>1, <1>2, <3>1, EngineFields
      <4> QED BY <1>4, <3>1, <4>1
    <3>2. CASE ~palm(s)
      <4>1. b = e.contact[s]
        BY <1>2, <3>2
      <4> QED BY <3>2, <4>1 DEF SamePlace
    <3> QED BY <3>1, <3>2
  <2>3. e.contact[s] \in Contact /\ e'.contact[s] \in Contact
    BY <1>1, <1>3, KeptType, EngineFields
  <2> HIDE DEF b, en, palm
  <2>4. SamePlace(e.contact[s], e'.contact[s]) /\ SameOwner(e.contact[s], e'.contact[s])
    BY <2>1, <2>2 DEF ContactKept, SameFinger, SamePlace, SameOwner
  <2>5. ClaimIsSound(e, e.contact[s], e'.contact[s])
    BY <2>1, <2>2 DEF ContactKept, ClaimIsSound, IsClaimed, IsPlaced, SamePlace
  <2>6. e'.contact[s].gesture_rejected <=> e.contact[s].gesture_rejected \/ palm(s)
    BY <2>1, <2>2 DEF ContactKept, SameFinger
  <2> QED BY <2>4, <2>5, <2>6
<1> HIDE DEF en, palm
<1>6. e' \in EngineState /\ SameSettings(e, e')
  BY <1>2, <1>3 DEF Kept, SameSettings
<1> QED BY <1>5, <1>6 DEF palm

LEMMA SwitchView ==
  ASSUME TypeInv, SlotSwitch, CurrentEvent.value \in Slots
  PROVE  /\ e' \in EngineState /\ SamePressed(e, e') /\ e'.memory = e.memory
         /\ e'.current_slot = CurrentEvent.value
         /\ \A s \in Slots : ContactKept(e, e.contact[s], e'.contact[s])
<1> DEFINE b == [e EXCEPT !.current_slot = CurrentEvent.value]
           routed == RouteEvent(b, CurrentEvent)
<1>1. /\ b \in EngineState /\ b.contact = e.contact /\ b.memory = e.memory
      /\ b.current_slot = CurrentEvent.value /\ SamePressed(e, b)
  BY InHand DEF EngineState, SamePressed
<1>2. Kept(b, routed)
  <2> HIDE DEF b
  <2> QED BY <1>1, EventInHand, RouteEventKept DEF SlotSwitch
<1>3. Kept(routed, e')
  <2>1. e' = Settle(routed)
    BY DEF SlotSwitch, Processed
  <2> HIDE DEF routed
  <2> QED BY <1>2, <2>1, KeptType, SettleKept
<1> HIDE DEF b, routed
<1>4. Kept(b, e')
  BY <1>1, <1>2, <1>3, KeptOn
<1> QED BY <1>1, <1>4 DEF Kept, SamePressed, SameSettings, ContactKept, ClaimIsSound
\* A new contact is undecided until the frame's end.
LEMMA DownView ==
  ASSUME TypeInv, ContactDown, ~IsActive(e, e.current_slot)
  PROVE  LET s == e.current_slot
             id == CurrentEvent.value
             tool == scan.contacts[s][id]
             d == e'.contact[s]
         IN /\ e' \in EngineState /\ SamePressed(e, e')
            /\ e'.current_slot = s /\ id \in TrackingIds
            /\ \A r \in Slots : /\ e'.memory[r].x = e.memory[r].x
                                /\ e'.memory[r].y = e.memory[r].y
                                /\ r # s => e'.memory[r] = e.memory[r]
                                /\ r # s => ContactKept(e, e.contact[r], e'.contact[r])
            /\ e'.memory[s].tool_type = tool.tool_type
            /\ d.tracking_id = id /\ d.ownership = "Unknown" /\ d.began_in_frame
            /\ d.gesture_rejected <=> IsPalm(tool)
            /\ d.start_x = None /\ d.start_y = None
            /\ d.current_x = None /\ d.current_y = None
            /\ d.started_at = stamp
<1> DEFINE s == e.current_slot
           id == CurrentEvent.value
           tool == scan.contacts[s][id]
           palm == IsPalm(tool)
           another == \E r \in Slots :
                        IsActive(e, r) /\ ~e.contact[r].gesture_rejected
           lone == ~another /\ ~palm
           new == NewContact(id, stamp, lone)
           c == IF palm THEN RejectGestures(new) ELSE new
           event == TrackingIdEvent(id)
           begun == [e EXCEPT !.contact[s] = c,
                              !.held_events[s] = Append(@, event),
                              !.memory[s].tool_type = tool.tool_type]
           en == BeginContact(e, s, id)
<1>1. /\ e \in EngineState /\ s \in Slots /\ stamp \in Int
      /\ id \in TrackingIds /\ id # None
      /\ tool \in FrameTool
  <2>1. id \in TrackingIds
    BY EventInHand DEF ContactDown
  <2>2. id # None
    BY DEF ContactDown
  <2> QED BY <2>1, <2>2, InHand
<1>2. lone \in BOOLEAN
  OBVIOUS
<1>3. e' = Settle(en)
  BY DEF ContactDown, Processed
<1>4. en = IF another /\ ~palm THEN FlushPendingTap(WithoutPairing(begun)) ELSE begun
  BY DEF BeginContact
<1> HIDE DEF lone, en, another
<1>5. /\ c.tracking_id = id /\ c.ownership = "Unknown" /\ c.began_in_frame
      /\ c.gesture_rejected <=> palm
      /\ c.start_x = None /\ c.start_y = None
      /\ c.current_x = None /\ c.current_y = None
      /\ c.started_at = stamp
  <2>1. new \in Contact
    BY <1>1, <1>2, NewContactType
  <2>2. /\ new.tracking_id = id /\ new.ownership = "Unknown" /\ new.began_in_frame
        /\ ~new.gesture_rejected
        /\ new.start_x = None /\ new.start_y = None
        /\ new.current_x = None /\ new.current_y = None
        /\ new.started_at = stamp
    BY DEF NewContact
  <2> HIDE DEF new, palm
  <2>3. LET r == RejectGestures(new)
        IN /\ r.tracking_id = new.tracking_id /\ r.ownership = new.ownership
           /\ r.began_in_frame = new.began_in_frame /\ r.gesture_rejected
           /\ r.start_x = new.start_x /\ r.start_y = new.start_y
           /\ r.current_x = new.current_x /\ r.current_y = new.current_y
           /\ r.started_at = new.started_at
    BY <2>1 DEF RejectGestures, Contact
  <2>4. CASE palm
    <3>1. c = RejectGestures(new)
      BY <2>4
    <3> QED BY <2>2, <2>3, <2>4, <3>1
  <2>5. CASE ~palm
    <3>1. c = new
      BY <2>5
    <3> QED BY <2>2, <2>5, <3>1
  <2> QED BY <2>4, <2>5
<1>6. begun \in EngineState
  BY <1>1, <1>2, BegunType
<1>7. /\ SamePressed(e, begun) /\ begun.current_slot = s
      /\ begun.contact[s] = c
      /\ \A r \in Slots \ {s} : begun.contact[r] = e.contact[r]
  <2> HIDE DEF c, event, tool
  <2> QED BY <1>1 DEF EngineState, SamePressed
<1>8. /\ begun.memory[s].tool_type = tool.tool_type
      /\ begun.memory[s].x = e.memory[s].x /\ begun.memory[s].y = e.memory[s].y
      /\ \A r \in Slots \ {s} : begun.memory[r] = e.memory[r]
  <2> HIDE DEF c, event, tool
  <2>1. e.memory[s] \in Memory
    BY <1>1, EngineFields
  <2>2. /\ begun.memory[s] = [e.memory[s] EXCEPT !.tool_type = tool.tool_type]
        /\ \A r \in Slots \ {s} : begun.memory[r] = e.memory[r]
    BY <1>1 DEF EngineState
  <2>3. \A m \in Memory : \A i : LET k == [m EXCEPT !.tool_type = i]
                             IN k.tool_type = i /\ k.x = m.x /\ k.y = m.y
    BY DEF Memory
  <2> HIDE DEF begun
  <2> QED BY <2>1, <2>2, <2>3
<1> HIDE DEF begun, c
<1>9. /\ Kept(begun, en) /\ en.contact[s].ownership = "Unknown"
      /\ en.contact[s].began_in_frame
  <2> DEFINE alone == WithoutPairing(begun)
             out == FlushPendingTap(alone)
  <2>1. /\ alone \in EngineState /\ Kept(begun, alone)
        /\ alone.contact[s].ownership = "Unknown"
    BY <1>1, <1>5, <1>6, <1>7, WithoutPairingType, WithoutPairingKept, WithoutPairingView
  <2> HIDE DEF alone
  <2>2. Kept(alone, out) /\ out.contact[s].ownership = "Unknown"
    BY <1>1, <2>1, FlushKept, FlushView
  <2> HIDE DEF out
  <2>3. Kept(begun, out)
    BY <1>6, <2>1, <2>2, KeptOn
  <2>4. en = out \/ en = begun
    BY <1>4 DEF out, alone
  <2>5. Kept(begun, en) /\ en.contact[s].ownership = "Unknown"
    BY <1>5, <1>6, <1>7, <2>2, <2>3, <2>4, KeptItself
  <2> QED BY <1>1, <1>5, <1>7, <2>5 DEF Kept, ContactKept, SameFinger
<1>10. e' = en
  BY <1>3, <1>7, <1>9 DEF Settle, Kept, SameSettings
<1>11. /\ e' \in EngineState /\ SamePressed(e, e') /\ e'.current_slot = s
       /\ e'.memory = begun.memory
  BY <1>7, <1>9, <1>10 DEF Kept, SamePressed, SameSettings
<1>12. \A r \in Slots : /\ e'.memory[r].x = e.memory[r].x
                        /\ e'.memory[r].y = e.memory[r].y
                        /\ r # s => e'.memory[r] = e.memory[r]
  BY <1>8, <1>11
<1>13. \A r \in Slots \ {s} : ContactKept(e, e.contact[r], e'.contact[r])
  BY <1>7, <1>9, <1>10 DEF Kept, ContactKept, ClaimIsSound, SamePressed
<1>14. SameFinger(c, e'.contact[s]) /\ e'.contact[s].ownership = "Unknown"
  BY <1>1, <1>7, <1>9, <1>10 DEF Kept, ContactKept
<1> HIDE DEF palm, id, tool, s
<1> QED BY <1>1, <1>5, <1>8, <1>11, <1>12, <1>13, <1>14
     DEF SameFinger, palm, id, tool, s

\* The lifted finger leaves its slot free.
LEMMA UpView ==
  ASSUME TypeInv, ContactUp
  PROVE  LET s == e.current_slot
             d == e'.contact[s]
         IN /\ e' \in EngineState /\ SameSettings(e, e')
            /\ \A r \in Slots \ {s} : ContactKept(e, e.contact[r], e'.contact[r])
            /\ ~IsActive(e, s) => ContactKept(e, e.contact[s], d)
            /\ IsActive(e, s) => SameFinger(NoContact, d) /\ ~IsClaimed(d)
<1> DEFINE s == e.current_slot
           c == e.contact[s]
           lifted == [e EXCEPT !.contact[s] = NoContact, !.held_events[s] = <<>>]
           held == [e EXCEPT !.held_events[s] = Append(@, CurrentEvent)]
           en == ReleaseCurrentSlot(e, CurrentEvent, stamp)
<1>1. /\ e \in EngineState /\ s \in Slots /\ stamp \in Int
      /\ CurrentEvent \in Event /\ c \in Contact
  <2>1. CurrentEvent \in Event
    BY EventInHand DEF ContactUp
  <2> QED BY <2>1, InHand, EngineFields
<1>2. lifted \in EngineState
  BY <1>1, LiftedType
<1>3. /\ SameSettings(e, lifted) /\ lifted.contact[s] = NoContact
      /\ \A r \in Slots \ {s} : lifted.contact[r] = e.contact[r]
  BY <1>1 DEF EngineState, SameSettings
<1>4. en \in EngineState /\ e' = Settle(en)
  BY <1>1, ReleaseCurrentType DEF ContactUp, Processed
<1>5. Kept(en, e')
  <2> HIDE DEF en
  <2> QED BY <1>4, SettleKept
<1>6. CASE ~IsActive(e, s)
  <2>1. en = held
    BY <1>6 DEF ReleaseCurrentSlot
  <2>2. Kept(e, held)
    BY <1>1, HoldKept
  <2> HIDE DEF held, en
  <2>3. Kept(e, e')
    BY <1>1, <1>5, <2>1, <2>2, KeptOn
  <2>4. /\ e' \in EngineState /\ SameSettings(e, e')
        /\ \A r \in Slots : ContactKept(e, e.contact[r], e'.contact[r])
    BY <2>3 DEF Kept
  <2> QED BY <1>1, <1>6, <2>4
<1>7. CASE IsActive(e, s)
  <2>1. Kept(lifted, en)
    <3>1. Kept(lifted, PushPassthrough(lifted, s, <<CurrentEvent>>))
      <4>1. <<CurrentEvent>> \in Seq(Event)
        BY <1>1
      <4> HIDE DEF lifted
      <4> QED BY <1>1, <1>2, <4>1, PushPassthroughKept
    <3>2. IsClaimed(c) => Kept(lifted, ReleaseClaimed(lifted, s, c, stamp))
      <4> HIDE DEF lifted
      <4> QED BY <1>1, <1>2, ReleaseClaimedKept
    <3>3. Kept(lifted, lifted)
      <4> HIDE DEF lifted
      <4> QED BY <1>2, KeptItself
    <3>4. \/ en = PushPassthrough(lifted, s, <<CurrentEvent>>)
          \/ IsClaimed(c) /\ en = ReleaseClaimed(lifted, s, c, stamp)
          \/ en = lifted
      <4> HIDE DEF lifted
      <4> QED BY <1>7 DEF ReleaseCurrentSlot, lifted
    <3> HIDE DEF lifted, en
    <3> QED BY <3>1, <3>2, <3>3, <3>4
  <2> HIDE DEF lifted, en
  <2>2. Kept(lifted, e')
    BY <1>2, <1>5, <2>1, KeptOn
  <2>3. /\ e' \in EngineState /\ SameSettings(e, e')
        /\ \A r \in Slots \ {s} : ContactKept(e, e.contact[r], e'.contact[r])
    BY <1>3, <2>2 DEF Kept, SameSettings, ContactKept, ClaimIsSound
  <2>4. ContactKept(lifted, NoContact, e'.contact[s])
    BY <1>1, <1>3, <2>2 DEF Kept
  <2>5. SameFinger(NoContact, e'.contact[s]) /\ ~IsClaimed(e'.contact[s])
    BY <2>4, NoContactFields DEF ContactKept, ClaimIsSound, IsClaimed, Zones
  <2> QED BY <1>7, <2>3, <2>5
<1> QED BY <1>6, <1>7

\* Without palm rejection the event is passed over.
LEMMA ToolView ==
  ASSUME TypeInv, ToolType
  PROVE  LET s == e.current_slot
         IN /\ e' \in EngineState /\ SamePressed(e, e') /\ e'.current_slot = s
            /\ \A r \in Slots : /\ e'.memory[r].x = e.memory[r].x
                                /\ e'.memory[r].y = e.memory[r].y
                                /\ r # s => e'.memory[r] = e.memory[r]
                                /\ ContactKept(e, e.contact[r], e'.contact[r])
            /\ e'.memory[s].tool_type = IF PalmRejection THEN CurrentEvent.value
                                                    ELSE e.memory[s].tool_type
<1> DEFINE s == e.current_slot
           b == [e EXCEPT !.memory[s].tool_type = CurrentEvent.value]
           routed == RouteEvent(b, CurrentEvent)
<1>1. /\ e \in EngineState /\ s \in Slots
      /\ CurrentEvent \in Event /\ CurrentEvent.value \in Int
  <2>1. CurrentEvent \in Event /\ CurrentEvent.value \in Int
    BY EventInHand DEF ToolType
  <2> QED BY <2>1, InHand
<1>2. CASE ~PalmRejection
  <2>1. e' = e
    BY <1>2 DEF ToolType
  <2> QED BY <1>1, <1>2, <2>1, ContactKeptItself DEF SamePressed
<1>3. CASE PalmRejection
  <2>1. /\ \A m \in Memory, i \in Int : [m EXCEPT !.tool_type = i] \in Memory
        /\ \A m \in Memory : \A i : LET k == [m EXCEPT !.tool_type = i]
                                IN k.tool_type = i /\ k.x = m.x /\ k.y = m.y
    BY DEF Memory
  <2>2. e.memory[s] \in Memory
    BY <1>1, EngineFields
  <2>3. /\ b.memory[s] = [e.memory[s] EXCEPT !.tool_type = CurrentEvent.value]
        /\ \A r \in Slots \ {s} : b.memory[r] = e.memory[r]
        /\ SamePressed(e, b) /\ b.current_slot = s /\ b.contact = e.contact
    BY <1>1 DEF EngineState, SamePressed
  <2>4. b \in EngineState
    <3>1. [e.memory[s] EXCEPT !.tool_type = CurrentEvent.value] \in Memory
      BY <1>1, <2>1, <2>2
    <3> QED BY <1>1, <3>1 DEF EngineState
  <2>5. /\ b.memory[s].tool_type = CurrentEvent.value
        /\ b.memory[s].x = e.memory[s].x /\ b.memory[s].y = e.memory[s].y
    <3> HIDE DEF b
    <3> QED BY <2>1, <2>2, <2>3
  <2>6. Kept(b, routed)
    <3> HIDE DEF b
    <3> QED BY <1>1, <2>4, RouteEventKept
  <2>7. Kept(routed, e')
    <3>1. e' = Settle(routed)
      BY <1>3 DEF ToolType, Processed
    <3> HIDE DEF routed
    <3> QED BY <2>6, <3>1, KeptType, SettleKept
  <2> HIDE DEF b, routed
  <2>8. Kept(b, e')
    BY <2>4, <2>6, <2>7, KeptOn
  <2>9. /\ e' \in EngineState /\ SamePressed(e, e') /\ e'.current_slot = s
        /\ e'.memory = b.memory
        /\ \A r \in Slots : ContactKept(e, e.contact[r], e'.contact[r])
    BY <2>3, <2>8 DEF Kept, SamePressed, SameSettings, ContactKept, ClaimIsSound
  <2> HIDE DEF s
  <2> QED BY <1>3, <2>3, <2>5, <2>9 DEF s
<1> QED BY <1>2, <1>3
\* A finger that moved: where it is, and where it started if that was unknown.
MovedTo(c, d, isX, v) ==
  /\ d.tracking_id = c.tracking_id /\ d.gesture_rejected = c.gesture_rejected
  /\ d.began_in_frame = c.began_in_frame /\ d.started_at = c.started_at
  /\ d.start_x = IF isX THEN OrElse(c.start_x, v) ELSE c.start_x
  /\ d.current_x = IF isX THEN v ELSE c.current_x
  /\ d.start_y = IF isX THEN c.start_y ELSE OrElse(c.start_y, v)
  /\ d.current_y = IF isX THEN c.current_y ELSE v

LEMMA ObservedTo ==
  ASSUME NEW cfg, NEW c \in Contact, NEW m \in Contact, NEW isX, NEW v,
         MovedTo(c, m, isX, v), m.ownership = c.ownership
  PROVE  LET d == ObservePosition(cfg, m)
         IN MovedTo(c, d, isX, v) /\ d.ownership = c.ownership
<1> DEFINE d == ObservePosition(cfg, m)
<1>1. /\ d.tracking_id = m.tracking_id /\ d.gesture_rejected = m.gesture_rejected
      /\ d.began_in_frame = m.began_in_frame /\ d.started_at = m.started_at
      /\ d.start_x = m.start_x /\ d.current_x = m.current_x
      /\ d.start_y = m.start_y /\ d.current_y = m.current_y
      /\ d.ownership = m.ownership
  BY DEF ObservePosition, Contact
<1> HIDE DEF d
<1>2. MovedTo(c, d, isX, v) /\ d.ownership = c.ownership
  BY <1>1 DEF MovedTo
<1> QED BY <1>2 DEF d

LEMMA PlaceView ==
  ASSUME NEW en \in EngineState, NEW s \in Slots, NEW v \in Int, NEW isX \in BOOLEAN
  PROVE  LET out == IF isX THEN PlaceX(en, s, v) ELSE PlaceY(en, s, v)
             c == en.contact[s]
             d == out.contact[s]
         IN /\ out \in EngineState /\ SamePressed(en, out)
            /\ out.current_slot = en.current_slot
            /\ \A r \in Slots \ {s} : /\ out.memory[r] = en.memory[r]
                                      /\ out.contact[r] = en.contact[r]
            /\ out.memory[s].tool_type = en.memory[s].tool_type
            /\ out.memory[s].x = IF isX THEN v ELSE en.memory[s].x
            /\ out.memory[s].y = IF isX THEN en.memory[s].y ELSE v
            /\ ~IsActive(en, s) => d = c
            /\ IsActive(en, s) => MovedTo(c, d, isX, v) /\ d.ownership = c.ownership
<1> DEFINE c == en.contact[s]
           movedX == [c EXCEPT !.current_x = v, !.start_x = OrElse(@, v)]
           movedY == [c EXCEPT !.current_y = v, !.start_y = OrElse(@, v)]
<1>1. c \in Contact /\ en.memory[s] \in Memory
  BY EngineFields
<1>2. movedX \in Contact /\ movedY \in Contact
  BY MovedType
<1>3. /\ MovedTo(c, movedX, TRUE, v) /\ movedX.ownership = c.ownership
      /\ MovedTo(c, movedY, FALSE, v) /\ movedY.ownership = c.ownership
  <2>1. /\ movedX = [c EXCEPT !.current_x = v, !.start_x = OrElse(c.start_x, v)]
        /\ movedY = [c EXCEPT !.current_y = v, !.start_y = OrElse(c.start_y, v)]
    <3> HIDE DEF c
    <3> QED BY <1>1 DEF Contact
  <2>2. \A i : LET k == [c EXCEPT !.current_x = v, !.start_x = i]
               IN /\ k.tracking_id = c.tracking_id /\ k.ownership = c.ownership
                  /\ k.gesture_rejected = c.gesture_rejected
                  /\ k.began_in_frame = c.began_in_frame
                  /\ k.started_at = c.started_at
                  /\ k.start_x = i /\ k.current_x = v
                  /\ k.start_y = c.start_y /\ k.current_y = c.current_y
    <3> HIDE DEF c
    <3> QED BY <1>1 DEF Contact
  <2>3. \A i : LET k == [c EXCEPT !.current_y = v, !.start_y = i]
               IN /\ k.tracking_id = c.tracking_id /\ k.ownership = c.ownership
                  /\ k.gesture_rejected = c.gesture_rejected
                  /\ k.began_in_frame = c.began_in_frame
                  /\ k.started_at = c.started_at
                  /\ k.start_x = c.start_x /\ k.current_x = c.current_x
                  /\ k.start_y = i /\ k.current_y = v
    <3> HIDE DEF c
    <3> QED BY <1>1 DEF Contact
  <2> HIDE DEF c, movedX, movedY
  <2>4. MovedTo(c, movedX, TRUE, v) /\ movedX.ownership = c.ownership
    BY <2>1, <2>2 DEF MovedTo
  <2>5. MovedTo(c, movedY, FALSE, v) /\ movedY.ownership = c.ownership
    BY <2>1, <2>3 DEF MovedTo
  <2> QED BY <2>4, <2>5
<1>4. \A m \in Memory :
        /\ LET k == [m EXCEPT !.x = v]
           IN k.x = v /\ k.y = m.y /\ k.tool_type = m.tool_type
        /\ LET k == [m EXCEPT !.y = v]
           IN k.x = m.x /\ k.y = v /\ k.tool_type = m.tool_type
  BY DEF Memory
<1>5. CASE isX
  <2> DEFINE out == PlaceX(en, s, v)
             next == IF IsActive(en, s) THEN ObservePosition(en.cfg, movedX) ELSE c
             m == [en.memory[s] EXCEPT !.x = v]
  <2>1. out = [en EXCEPT !.memory[s].x = v, !.contact[s] = next]
    BY DEF PlaceX
  <2>2. ~IsActive(en, s) => next = c
    OBVIOUS
  <2>3. IsActive(en, s) => MovedTo(c, next, TRUE, v) /\ next.ownership = c.ownership
    <3> HIDE DEF c, movedX
    <3> QED BY <1>1, <1>2, <1>3, ObservedTo
  <2>4. out \in EngineState
    BY PlaceXType
  <2> HIDE DEF next, out
  <2>5. /\ SamePressed(en, out) /\ out.current_slot = en.current_slot
        /\ out.contact[s] = next /\ out.memory[s] = m
        /\ \A r \in Slots \ {s} : /\ out.memory[r] = en.memory[r]
                                  /\ out.contact[r] = en.contact[r]
    BY <2>1 DEF EngineState, SamePressed
  <2>6. m.x = v /\ m.y = en.memory[s].y /\ m.tool_type = en.memory[s].tool_type
    BY <1>1, <1>4
  <2> HIDE DEF m, c
  <2> QED BY <1>5, <2>2, <2>3, <2>4, <2>5, <2>6 DEF out, c
<1>6. CASE ~isX
  <2> DEFINE out == PlaceY(en, s, v)
             next == IF IsActive(en, s) THEN ObservePosition(en.cfg, movedY) ELSE c
             m == [en.memory[s] EXCEPT !.y = v]
  <2>1. out = [en EXCEPT !.memory[s].y = v, !.contact[s] = next]
    BY DEF PlaceY
  <2>2. ~IsActive(en, s) => next = c
    OBVIOUS
  <2>3. IsActive(en, s) => MovedTo(c, next, FALSE, v) /\ next.ownership = c.ownership
    <3> HIDE DEF c, movedY
    <3> QED BY <1>1, <1>2, <1>3, ObservedTo
  <2>4. out \in EngineState
    BY PlaceYType
  <2> HIDE DEF next, out
  <2>5. /\ SamePressed(en, out) /\ out.current_slot = en.current_slot
        /\ out.contact[s] = next /\ out.memory[s] = m
        /\ \A r \in Slots \ {s} : /\ out.memory[r] = en.memory[r]
                                  /\ out.contact[r] = en.contact[r]
    BY <2>1 DEF EngineState, SamePressed
  <2>6. m.x = en.memory[s].x /\ m.y = v /\ m.tool_type = en.memory[s].tool_type
    BY <1>1, <1>4
  <2> HIDE DEF m, c
  <2>7. isX = FALSE
    BY <1>6
  <2>8. MovedTo(c, next, FALSE, v) = MovedTo(c, next, isX, v)
    BY <2>7
  <2> QED BY <1>6, <2>2, <2>3, <2>4, <2>5, <2>6, <2>8 DEF out, c
<1> QED BY <1>5, <1>6

LEMMA PositionView ==
  ASSUME TypeInv, Position
  PROVE  LET s == e.current_slot
             v == CurrentEvent.value
             isX == CurrentEvent.kind = "X"
             d == e'.contact[s]
         IN /\ e' \in EngineState /\ SamePressed(e, e') /\ e'.current_slot = s
            /\ \A r \in Slots \ {s} : /\ e'.memory[r] = e.memory[r]
                                      /\ ContactKept(e, e.contact[r], e'.contact[r])
            /\ e'.memory[s].tool_type = e.memory[s].tool_type
            /\ e'.memory[s].x = IF isX THEN v ELSE e.memory[s].x
            /\ e'.memory[s].y = IF isX THEN e.memory[s].y ELSE v
            /\ ~IsActive(e, s) => ContactKept(e, e.contact[s], d)
            /\ IsActive(e, s) =>
                 \E m \in Contact : /\ MovedTo(e.contact[s], m, isX, v)
                                    /\ m.ownership = e.contact[s].ownership
                                    /\ ContactKept(e, m, d)
<1> DEFINE s == e.current_slot
           v == CurrentEvent.value
           isX == CurrentEvent.kind = "X"
           b == IF isX THEN PlaceX(e, s, v) ELSE PlaceY(e, s, v)
           ended == EndSpoiledPair(b, s)
           routed == RouteEvent(ended, CurrentEvent)
<1>1. /\ e \in EngineState /\ s \in Slots
      /\ CurrentEvent \in Event /\ v \in Int /\ isX \in BOOLEAN
  <2>1. CurrentEvent \in Event /\ CurrentEvent.value \in Int
    BY EventInHand DEF Position
  <2> QED BY <2>1, InHand
<1>2. e' = Settle(routed)
  BY DEF Position, Processed
<1> HIDE DEF v, isX
<1>3. /\ b \in EngineState /\ SamePressed(e, b)
      /\ b.current_slot = e.current_slot
      /\ \A r \in Slots \ {s} : /\ b.memory[r] = e.memory[r]
                                /\ b.contact[r] = e.contact[r]
      /\ b.memory[s].tool_type = e.memory[s].tool_type
      /\ b.memory[s].x = IF isX THEN v ELSE e.memory[s].x
      /\ b.memory[s].y = IF isX THEN e.memory[s].y ELSE v
      /\ ~IsActive(e, s) => b.contact[s] = e.contact[s]
      /\ IsActive(e, s) => /\ MovedTo(e.contact[s], b.contact[s], isX, v)
                           /\ b.contact[s].ownership = e.contact[s].ownership
  BY <1>1, PlaceView
<1> HIDE DEF b
<1>4. Kept(b, ended)
  BY <1>1, <1>3, EndSpoiledKept
<1> HIDE DEF ended
<1>5. Kept(ended, routed)
  BY <1>1, <1>4, KeptType, RouteEventKept
<1> HIDE DEF routed
<1>6. Kept(routed, e')
  BY <1>2, <1>5, KeptType, SettleKept
<1>7. Kept(b, e')
  <2>1. Kept(b, routed)
    BY <1>3, <1>4, <1>5, KeptOn
  <2> QED BY <1>3, <1>6, <2>1, KeptOn
<1>8. /\ e' \in EngineState /\ SamePressed(e, e') /\ e'.current_slot = s
      /\ e'.memory = b.memory
  BY <1>3, <1>7 DEF Kept, SameSettings, SamePressed
<1>9. \A r \in Slots : ContactKept(e, b.contact[r], e'.contact[r])
  BY <1>3, <1>7 DEF Kept, ContactKept, ClaimIsSound, SamePressed
<1>10. b.contact[s] \in Contact
  BY <1>1, <1>3, EngineFields
<1>11. IsActive(e, s) =>
         \E m \in Contact : /\ MovedTo(e.contact[s], m, isX, v)
                            /\ m.ownership = e.contact[s].ownership
                            /\ ContactKept(e, m, e'.contact[s])
  BY <1>1, <1>3, <1>9, <1>10
<1>12. /\ \A r \in Slots \ {s} : /\ e'.memory[r] = e.memory[r]
                                 /\ ContactKept(e, e.contact[r], e'.contact[r])
       /\ ~IsActive(e, s) => ContactKept(e, e.contact[s], e'.contact[s])
  BY <1>1, <1>3, <1>8, <1>9
<1>13. /\ e'.memory[s].tool_type = e.memory[s].tool_type
       /\ e'.memory[s].x = IF isX THEN v ELSE e.memory[s].x
       /\ e'.memory[s].y = IF isX THEN e.memory[s].y ELSE v
  BY <1>3, <1>8
<1> HIDE DEF s
<1> QED BY <1>8, <1>11, <1>12, <1>13 DEF s, v, isX
LEMMA NoContactPlace ==
  /\ ~NoContact.began_in_frame /\ NoContact.started_at = None
  /\ NoContact.start_x = None /\ NoContact.start_y = None
  /\ NoContact.current_x = None /\ NoContact.current_y = None
BY DEF NoContact, NewContact

\* SYN_DROPPED: every contact, axis and button is forgotten.
LEMMA DroppedView ==
  ASSUME TypeInv, SynDropped
  PROVE  /\ e' \in EngineState /\ e'.cfg = e.cfg /\ e'.pressed = {}
         /\ e'.current_slot = SlotMin /\ e'.resync_required
         /\ e'.memory = [s \in Slots |-> NoMemory]
         /\ \A s \in Slots : /\ SameFinger(NoContact, e'.contact[s])
                             /\ ~IsClaimed(e'.contact[s])
<1> DEFINE b == [ResetForResync(e) EXCEPT !.resync_required = TRUE]
<1>1. e \in EngineState
  BY InHand
<1>2. b \in EngineState
  <2>1. \A d \in EngineState : [d EXCEPT !.resync_required = TRUE] \in EngineState
    BY DEF EngineState
  <2> QED BY <1>1, <2>1, ResetType
<1>3. /\ b.cfg = e.cfg /\ b.pressed = {} /\ b.current_slot = SlotMin
      /\ b.resync_required = TRUE /\ b.memory = [s \in Slots |-> NoMemory]
      /\ b.contact = [s \in Slots |-> NoContact]
  BY <1>1 DEF ResetForResync, EngineState
<1>4. e' = Settle(b)
  BY DEF SynDropped, Processed
<1> HIDE DEF b
<1>5. Kept(b, e')
  BY <1>2, <1>4, SettleKept
<1>6. /\ e' \in EngineState /\ e'.cfg = e.cfg /\ e'.pressed = {}
      /\ e'.current_slot = SlotMin /\ e'.resync_required
      /\ e'.memory = [s \in Slots |-> NoMemory]
  BY <1>3, <1>5 DEF Kept, SameSettings
<1>7. \A s \in Slots : ContactKept(b, NoContact, e'.contact[s])
  BY <1>3, <1>5 DEF Kept
<1>8. \A s \in Slots : /\ SameFinger(NoContact, e'.contact[s])
                       /\ ~IsClaimed(e'.contact[s])
  BY <1>7, NoContactFields DEF ContactKept, ClaimIsSound, IsClaimed, Zones
<1> QED BY <1>6, <1>8

\* Memory stands in for the coordinates a new contact did not report.
PlacedFrom(c, d, m) ==
  /\ d.tracking_id = c.tracking_id /\ d.gesture_rejected = c.gesture_rejected
  /\ d.started_at = c.started_at /\ ~d.began_in_frame
  /\ d.current_x = OrElse(c.current_x, m.x)
  /\ d.current_y = OrElse(c.current_y, m.y)
  /\ d.start_x = OrElse(c.start_x, OrElse(c.current_x, m.x))
  /\ d.start_y = OrElse(c.start_y, OrElse(c.current_y, m.y))

LEMMA FinalizeView ==
  ASSUME TypeInv, FinalizeSlot
  PROVE  LET c == e.contact[at]  d == e'.contact[at]
         IN /\ at \in Slots
            /\ e' \in EngineState /\ SameSettings(e, e')
            /\ \A r \in Slots \ {at} : ContactKept(e, e.contact[r], e'.contact[r])
            /\ ~c.began_in_frame => e' = e
            /\ c.began_in_frame =>
                 \E k \in Contact :
                   /\ PlacedFrom(c, k, e.memory[at])
                   /\ k.ownership = c.ownership /\ ContactKept(e, k, d)
                   /\ IsActive(e, at) /\ IsPlaced(k) => d.ownership # "Unknown"
<1> DEFINE c == e.contact[at]
           m == e.memory[at]
           x == OrElse(c.current_x, m.x)
           y == OrElse(c.current_y, m.y)
           placed == [c EXCEPT !.current_x = x, !.current_y = y,
                               !.start_x = OrElse(@, x),
                               !.start_y = OrElse(@, y),
                               !.began_in_frame = FALSE]
           b == [e EXCEPT !.contact[at] = placed]
<1>1. /\ at \in Slots /\ e \in EngineState /\ c \in Contact
      /\ e' = FinalizeContact(e, at)
  <2>1. at \in Slots
    BY DEF FinalizeSlot, TypeInv, TypeOK, FrameInHand, Slots
  <2> QED BY <2>1, InHand, EngineFields DEF FinalizeSlot
<1>2. CASE ~c.began_in_frame
  <2>1. e' = e
    BY <1>1, <1>2 DEF FinalizeContact
  <2> QED BY <1>1, <1>2, <2>1, ContactKeptItself DEF SameSettings
<1>3. CASE c.began_in_frame
  <2>1. e' = DecideAndSlide(b, at)
    BY <1>1, <1>3 DEF FinalizeContact
  <2>2. b \in EngineState
    BY <1>1, PlacedType
  <2>3. PlacedFrom(c, placed, m) /\ placed.ownership = c.ownership
    <3> HIDE DEF c, m
    <3>1. /\ placed.tracking_id = c.tracking_id /\ placed.ownership = c.ownership
          /\ placed.gesture_rejected = c.gesture_rejected
          /\ placed.started_at = c.started_at /\ ~placed.began_in_frame
          /\ placed.current_x = x /\ placed.current_y = y
          /\ placed.start_x = OrElse(c.start_x, x)
          /\ placed.start_y = OrElse(c.start_y, y)
      <4> HIDE DEF x, y
      <4> QED BY <1>1 DEF Contact
    <3> HIDE DEF placed
    <3> QED BY <3>1 DEF PlacedFrom
  <2>4. /\ SameSettings(e, b) /\ b.contact[at] = placed
        /\ \A r \in Slots \ {at} : b.contact[r] = e.contact[r]
    <3> HIDE DEF placed
    <3> QED BY <1>1 DEF EngineState, SameSettings
  <2> HIDE DEF placed, b
  <2>5. /\ Kept(b, e')
        /\ IsActive(b, at) /\ IsPlaced(placed) => e'.contact[at].ownership # "Unknown"
    BY <1>1, <2>1, <2>2, <2>4, DecideAndSlideKept
  <2>6. placed \in Contact
    BY <1>1, <2>2, <2>4, EngineFields
  <2>7. IsActive(e, at) => IsActive(b, at)
    BY <2>3, <2>4 DEF IsActive, PlacedFrom
  <2>8. e' \in EngineState /\ SameSettings(e, e')
    BY <2>4, <2>5 DEF Kept, SameSettings
  <2>9. \A r \in Slots : ContactKept(e, b.contact[r], e'.contact[r])
    BY <2>4, <2>5 DEF Kept, ContactKept, ClaimIsSound, SameSettings
  <2>10. \A r \in Slots \ {at} : ContactKept(e, e.contact[r], e'.contact[r])
    BY <2>4, <2>9
  <2>11. /\ PlacedFrom(c, placed, m) /\ placed.ownership = c.ownership
         /\ ContactKept(e, placed, e'.contact[at])
         /\ IsActive(e, at) /\ IsPlaced(placed) => e'.contact[at].ownership # "Unknown"
    BY <1>1, <2>3, <2>4, <2>5, <2>7, <2>9
  <2> HIDE DEF c, m
  <2>12. \E k \in Contact :
           /\ PlacedFrom(c, k, m)
           /\ k.ownership = c.ownership /\ ContactKept(e, k, e'.contact[at])
           /\ IsActive(e, at) /\ IsPlaced(k) => e'.contact[at].ownership # "Unknown"
    BY <2>6, <2>11
  <2> QED BY <1>1, <1>3, <2>8, <2>10, <2>12 DEF c, m
<1> QED BY <1>2, <1>3

LEMMA EndView ==
  ASSUME TypeInv, EndFrame
  PROVE  /\ e' \in EngineState
         /\ e'.cfg = e.cfg /\ e'.memory = e.memory /\ e'.contact = e.contact
         /\ e'.current_slot = e.current_slot /\ e'.pending_tap = e.pending_tap
         /\ e'.pressed = e.pressed \ Codes(frame.buttons, FALSE)
         /\ ~e'.resync_required
<1> DEFINE cleared == ClearOutput(e)
<1>1. e \in EngineState /\ cleared \in EngineState
  BY InHand, ClearOutputType
<1>2. /\ cleared.cfg = e.cfg /\ cleared.memory = e.memory
      /\ cleared.contact = e.contact /\ cleared.current_slot = e.current_slot
      /\ cleared.pending_tap = e.pending_tap
      /\ cleared.pressed = e.pressed /\ ~cleared.resync_required
  BY <1>1 DEF ClearOutput, EngineState
<1> HIDE DEF cleared
<1>3. e' = [cleared EXCEPT !.pressed = @ \ Codes(frame.buttons, FALSE)]
  BY DEF EndFrame, cleared
<1> QED BY <1>1, <1>2, <1>3 DEF EngineState

LEMMA AdvanceView ==
  ASSUME TypeInv, AdvanceTime
  PROVE  Kept(e, e')
BY InHand, ExpireKept DEF AdvanceTime, Output

LEMMA RestoredPlace ==
  ASSUME NEW id \in TrackingIds \cup {None}, NEW x \in Int, NEW y \in Int, NEW tool
  PROVE  LET c == RestoredContact(id, x, y, tool)
         IN /\ c.tracking_id = id /\ c.ownership = "Passthrough"
            /\ ~c.began_in_frame /\ c.started_at = None
            /\ c.start_x = x /\ c.current_x = x
            /\ c.start_y = y /\ c.current_y = y
            /\ c.gesture_rejected <=> tool = PalmTool
<1> DEFINE new == NewContact(id, None, TRUE)
           c == [new EXCEPT !.ownership = "Passthrough",
                            !.began_in_frame = FALSE,
                            !.start_x = x, !.start_y = y,
                            !.current_x = x, !.current_y = y]
           rejected == RejectGestures(c)
<1>1. new \in Contact /\ ~new.gesture_rejected /\ new.started_at = None
      /\ new.tracking_id = id
  BY DEF NewContact, Contact, None, Ownerships, Phases
<1>2. c \in Contact
  <2> HIDE DEF new
  <2> QED BY <1>1 DEF Contact, Ownerships
<1>3. /\ c.tracking_id = id /\ c.ownership = "Passthrough"
      /\ ~c.began_in_frame /\ c.started_at = None
      /\ c.start_x = x /\ c.current_x = x /\ c.start_y = y /\ c.current_y = y
      /\ ~c.gesture_rejected
  <2> HIDE DEF new
  <2> QED BY <1>1 DEF Contact
<1> HIDE DEF c
<1>4. /\ rejected.tracking_id = c.tracking_id /\ rejected.ownership = c.ownership
      /\ rejected.began_in_frame = c.began_in_frame
      /\ rejected.started_at = c.started_at
      /\ rejected.start_x = c.start_x /\ rejected.current_x = c.current_x
      /\ rejected.start_y = c.start_y /\ rejected.current_y = c.current_y
      /\ rejected.gesture_rejected
  BY <1>2 DEF RejectGestures, Contact
<1>5. RestoredContact(id, x, y, tool) = IF tool = PalmTool THEN rejected ELSE c
  BY DEF RestoredContact, c
<1> HIDE DEF rejected
<1> QED BY <1>3, <1>4, <1>5

\* After a recovery every contact the kernel has is forwarded.
LEMMA ResyncView ==
  ASSUME TypeInv, NEW snapshot \in Snapshots, Resync(snapshot)
  PROVE  LET seeded == SeededMemory(snapshot.memory)
         IN /\ e' \in EngineState /\ e'.cfg = e.cfg
            /\ e'.resync_required = e.resync_required
            /\ e'.current_slot = RestoredSlot(SnapshotContacts(snapshot))
            /\ e'.memory = seeded /\ seeded \in [Slots -> Memory]
            /\ e'.pending_tap = NoTap
            /\ \A s \in Slots :
                 LET d == e'.contact[s]
                 IN /\ d.tracking_id = snapshot.ids[s] /\ ~d.began_in_frame
                    /\ ~IsClaimed(d)
                    /\ d.tracking_id # None => /\ d.ownership = "Passthrough"
                                               /\ d.gesture_rejected <=>
                                                    seeded[s].tool_type = PalmTool
                    /\ d.start_x = d.current_x /\ d.start_y = d.current_y
                    /\ d.start_x \in {None, seeded[s].x}
                    /\ d.start_y \in {None, seeded[s].y}
<1> DEFINE active == SnapshotContacts(snapshot)
           seeded == SeededMemory(snapshot.memory)
           restored(s) == RestoredContact(snapshot.ids[s], seeded[s].x,
                                          seeded[s].y, seeded[s].tool_type)
<1>1. e \in EngineState /\ snapshot \in Snapshot /\ e' = RestoreSnapshot(e, snapshot)
  BY InHand, SnapshotsAssumption DEF Resync, Output
<1>2. e' \in EngineState /\ seeded \in [Slots -> Memory]
  BY <1>1, RestoreType, SeededMemoryType DEF Snapshot
<1>3. \A s \in Slots : LET c == restored(s)
                       IN /\ c.tracking_id = snapshot.ids[s]
                          /\ c.ownership = "Passthrough" /\ ~c.began_in_frame
                          /\ c.start_x = c.current_x /\ c.start_y = c.current_y
                          /\ c.start_x = seeded[s].x /\ c.start_y = seeded[s].y
                          /\ c.gesture_rejected <=> seeded[s].tool_type = PalmTool
  <2> TAKE s \in Slots
  <2> DEFINE id == snapshot.ids[s]
             x == seeded[s].x
             y == seeded[s].y
             tool == seeded[s].tool_type
             d == RestoredContact(id, x, y, tool)
  <2>1. id \in TrackingIds \cup {None} /\ x \in Int /\ y \in Int
    BY <1>1, SnapshotParts
  <2>2. restored(s) = d
    OBVIOUS
  <2> HIDE DEF id, x, y, tool
  <2>3. /\ d.tracking_id = id /\ d.ownership = "Passthrough"
        /\ ~d.began_in_frame /\ d.started_at = None
        /\ d.start_x = x /\ d.current_x = x
        /\ d.start_y = y /\ d.current_y = y
        /\ d.gesture_rejected <=> tool = PalmTool
    BY <2>1, RestoredPlace
  <2> HIDE DEF d, restored, seeded
  <2>4. d.start_x = d.current_x /\ d.start_y = d.current_y
    BY <2>3
  <2> QED BY <2>2, <2>3, <2>4 DEF id, x, y, tool
<1>4. /\ e'.cfg = e.cfg /\ e'.resync_required = e.resync_required
      /\ e'.current_slot = RestoredSlot(active) /\ e'.memory = seeded
      /\ e'.pending_tap = NoTap
      /\ e'.contact = [s \in Slots |-> IF s \in active THEN restored(s)
                                                      ELSE NoContact]
  BY <1>1 DEF RestoreSnapshot, ResetForResync, EngineState
<1>5. \A s \in Slots : s \in active <=> snapshot.ids[s] # None
  BY DEF SnapshotContacts
<1> HIDE DEF active, seeded, restored
<1>6. ASSUME NEW s \in Slots
      PROVE  LET d == e'.contact[s]
             IN /\ d.tracking_id = snapshot.ids[s] /\ ~d.began_in_frame
                /\ ~IsClaimed(d)
                /\ d.tracking_id # None => /\ d.ownership = "Passthrough"
                                           /\ d.gesture_rejected <=>
                                                seeded[s].tool_type = PalmTool
                /\ d.start_x = d.current_x /\ d.start_y = d.current_y
                /\ d.start_x \in {None, seeded[s].x}
                /\ d.start_y \in {None, seeded[s].y}
  <2>1. CASE s \in active
    <3>1. e'.contact[s] = restored(s)
      BY <1>4, <2>1
    <3> QED BY <1>3, <3>1 DEF IsClaimed, Zones
  <2>2. CASE s \notin active
    <3>1. e'.contact[s] = NoContact /\ snapshot.ids[s] = None
      BY <1>4, <1>5, <2>2
    <3> QED BY <3>1, NoContactFields, NoContactPlace DEF IsClaimed, Zones
  <2> QED BY <2>1, <2>2
<1> QED BY <1>2, <1>4, <1>6 DEF active, seeded

LEMMA ReloadView ==
  ASSUME TypeInv, NEW cfg \in Configs, Reload(cfg)
  PROVE  /\ e' \in EngineState /\ e'.contact = e.contact /\ e'.memory = e.memory
         /\ e'.pressed = e.pressed /\ e'.current_slot = e.current_slot
         /\ e'.resync_required = e.resync_required
         /\ ~HasPendingTap(e) /\ e'.pending_tap = e.pending_tap
         /\ \A s \in Slots : ~IsActive(e, s)
BY InHand DEF Reload, Reconfigure, IsRecognitionIdle, EngineState
-----------------------------------------------------------------------------
(* The engine mirrors the kernel.                                          *)

\* A snapshot is taken while the kernel addresses its last contact: the slot
\* the code assumes after a recovery, for want of asking.
SnapshotsAtLastContact ==
  \A snapshot \in Snapshots : snapshot.slot = RestoredSlot(SnapshotContacts(snapshot))

\* In the middle of a frame too.
Mirror ==
  /\ e.current_slot = kernel.slot
  /\ \A s \in Slots : e.contact[s].tracking_id = kernel.ids[s]

LEMMA SameIds ==
  ASSUME Mirror, e'.current_slot = e.current_slot, kernel' = kernel,
         \A s \in Slots : e'.contact[s].tracking_id = e.contact[s].tracking_id
  PROVE  Mirror'
BY DEF Mirror

LEMMA InitMirror == Init => Mirror
<1> SUFFICES ASSUME Init PROVE Mirror
  OBVIOUS
<1>1. /\ e.current_slot = SlotMin
      /\ \A s \in Slots : e.contact[s].tracking_id = None
  BY NoContactFields DEF Init, NewEngine
<1>2. kernel.slot = SlotMin /\ \A s \in Slots : kernel.ids[s] = None
  BY DEF Init
<1> QED BY <1>1, <1>2 DEF Mirror

\* The step is no recovery in another slot than the kernel's.
RecoversInPlace ==
  \A snapshot \in Snapshots :
    Resync(snapshot) => snapshot.slot = RestoredSlot(SnapshotContacts(snapshot))

LEMMA StepMirrorInPlace ==
  ASSUME TypeInv, Mirror, [Next]_vars, RecoversInPlace
  PROVE  Mirror'
<1>f. ASSUME Fail PROVE Mirror'
  BY <1>f, SameIds DEF Fail
<1>e. ASSUME e' = e, kernel' = kernel PROVE Mirror'
  BY <1>e, SameIds
<1>k. /\ e.current_slot \in Slots /\ kernel.slot = e.current_slot
      /\ \A s \in Slots : kernel.ids[s] = e.contact[s].tracking_id
      /\ DOMAIN kernel.ids = Slots
      /\ kernel \in [slot : Slots, ids : [Slots -> TrackingIds \cup {None}]]
  BY InHand DEF Mirror, TypeInv, TypeOK
<1>1. ASSUME NEW f \in Frames \cup OddFrames, NEW t \in Stamps, StartFrame(f, t)
      PROVE  Mirror'
  <2>1. kernel' = kernel
    BY <1>1 DEF StartFrame
  <2> QED BY <1>1, <2>1, StartView, SameIds DEF SameFinger
<1>2. CASE ScanEvent
  BY <1>2, <1>e, <1>f DEF ScanEvent
<1>3. CASE BeginEvents
  <2>1. kernel' = kernel
    BY <1>3 DEF BeginEvents
  <2> QED BY <1>3, <2>1, BeginEventsView, SameIds DEF SamePlace, SameSettings
<1>4. CASE SlotSwitch
  <2> SUFFICES ASSUME CurrentEvent.value \in Slots PROVE Mirror'
    BY <1>4, <1>f DEF SlotSwitch
  <2>1. kernel' = [kernel EXCEPT !.slot = CurrentEvent.value]
    BY <1>4 DEF SlotSwitch
  <2>2. kernel'.slot = CurrentEvent.value /\ kernel'.ids = kernel.ids
    BY <1>k, <2>1
  <2>3. /\ e'.current_slot = CurrentEvent.value
        /\ \A s \in Slots : e'.contact[s].tracking_id = e.contact[s].tracking_id
    BY <1>4, SwitchView DEF ContactKept, SameFinger
  <2> QED BY <1>k, <2>2, <2>3 DEF Mirror
<1>5. CASE ContactDown
  <2> SUFFICES ASSUME ~IsActive(e, e.current_slot) PROVE Mirror'
    BY <1>5, <1>f DEF ContactDown
  <2> DEFINE s == e.current_slot
             id == CurrentEvent.value
  <2>1. kernel' = [kernel EXCEPT !.ids[kernel.slot] = id]
    BY <1>5 DEF ContactDown
  <2>2. /\ kernel'.slot = s /\ kernel'.ids[s] = id
        /\ \A r \in Slots \ {s} : kernel'.ids[r] = kernel.ids[r]
    <3> HIDE DEF id, s
    <3> QED BY <1>k, <2>1 DEF s
  <2>3. /\ e'.current_slot = s /\ e'.contact[s].tracking_id = id
        /\ \A r \in Slots \ {s} : e'.contact[r].tracking_id = e.contact[r].tracking_id
    BY <1>5, DownView DEF ContactKept, SameFinger
  <2> HIDE DEF id, s
  <2> QED BY <1>k, <2>2, <2>3 DEF Mirror
<1>6. CASE ContactUp
  <2> DEFINE s == e.current_slot
  <2>1. kernel' = [kernel EXCEPT !.ids[kernel.slot] = None]
    BY <1>6 DEF ContactUp
  <2>2. /\ kernel'.slot = s /\ kernel'.ids[s] = None
        /\ \A r \in Slots \ {s} : kernel'.ids[r] = kernel.ids[r]
    BY <1>k, <2>1
  <2>3. /\ e'.current_slot = s
        /\ \A r \in Slots \ {s} : e'.contact[r].tracking_id = e.contact[r].tracking_id
        /\ e'.contact[s].tracking_id = None
    <3>1. /\ e'.current_slot = s
          /\ \A r \in Slots \ {s} : e'.contact[r].tracking_id = e.contact[r].tracking_id
      BY <1>6, UpView DEF ContactKept, SameFinger, SameSettings
    <3>2. ASSUME IsActive(e, s) PROVE e'.contact[s].tracking_id = None
      <4>1. SameFinger(NoContact, e'.contact[s])
        BY <1>6, <3>2, UpView
      <4> QED BY <4>1, NoContactFields DEF SameFinger
    <3>3. ASSUME ~IsActive(e, s) PROVE e'.contact[s].tracking_id = None
      <4>1. ContactKept(e, e.contact[s], e'.contact[s])
        BY <1>6, <3>3, UpView
      <4> QED BY <3>3, <4>1 DEF ContactKept, SameFinger, IsActive
    <3> QED BY <3>1, <3>2, <3>3
  <2> HIDE DEF s
  <2> QED BY <1>k, <2>2, <2>3 DEF Mirror
<1>7. CASE ToolType
  <2>1. kernel' = kernel
    BY <1>7 DEF ToolType
  <2> QED BY <1>7, <2>1, ToolView, SameIds DEF ContactKept, SameFinger
<1>8. CASE Position
  <2>1. kernel' = kernel
    BY <1>8 DEF Position
  <2> DEFINE s == e.current_slot
  <2>2. /\ e'.current_slot = s
        /\ \A r \in Slots \ {s} : e'.contact[r].tracking_id = e.contact[r].tracking_id
    BY <1>8, PositionView DEF ContactKept, SameFinger
  <2>3. e'.contact[s].tracking_id = e.contact[s].tracking_id
    <3>1. CASE IsActive(e, s)
      BY <1>8, <3>1, PositionView DEF ContactKept, SameFinger, MovedTo
    <3>2. CASE ~IsActive(e, s)
      BY <1>8, <3>2, PositionView DEF ContactKept, SameFinger
    <3> QED BY <3>1, <3>2
  <2> HIDE DEF s
  <2> QED BY <2>1, <2>2, <2>3, SameIds DEF s
<1>9. CASE SynDropped
  <2>1. kernel'.slot = SlotMin /\ \A s \in Slots : kernel'.ids[s] = None
    BY <1>9 DEF SynDropped
  <2>2. /\ e'.current_slot = SlotMin
        /\ \A s \in Slots : e'.contact[s].tracking_id = None
    BY <1>9, DroppedView, NoContactFields DEF SameFinger
  <2> QED BY <2>1, <2>2 DEF Mirror
<1>10. CASE EventsDone
  BY <1>10, <1>e DEF EventsDone
<1>11. CASE FinalizeSlot
  <2>1. kernel' = kernel
    BY <1>11 DEF FinalizeSlot
  <2>2. /\ e'.current_slot = e.current_slot
        /\ \A r \in Slots \ {at} : e'.contact[r].tracking_id = e.contact[r].tracking_id
    BY <1>11, FinalizeView DEF ContactKept, SameFinger, SameSettings
  <2>3. e'.contact[at].tracking_id = e.contact[at].tracking_id
    <3>1. CASE e.contact[at].began_in_frame
      BY <1>11, <3>1, FinalizeView DEF ContactKept, SameFinger, PlacedFrom
    <3>2. CASE ~e.contact[at].began_in_frame
      BY <1>11, <3>2, FinalizeView
    <3> QED BY <3>1, <3>2
  <2> QED BY <2>1, <2>2, <2>3, SameIds
<1>12. CASE EndFrame
  <2>1. kernel' = kernel
    BY <1>12 DEF EndFrame
  <2> QED BY <1>12, <2>1, EndView, SameIds
<1>13. CASE AdvanceTime
  <2>1. kernel' = kernel
    BY <1>13 DEF AdvanceTime
  <2> QED BY <1>13, <2>1, AdvanceView, SameIds
          DEF Kept, ContactKept, SameFinger, SameSettings
<1>14. ASSUME NEW snapshot \in Snapshots, Resync(snapshot) PROVE Mirror'
  <2>1. kernel'.slot = snapshot.slot /\ kernel'.ids = snapshot.ids
    BY <1>14 DEF Resync
  <2>2. /\ e'.current_slot = RestoredSlot(SnapshotContacts(snapshot))
        /\ \A s \in Slots : e'.contact[s].tracking_id = snapshot.ids[s]
    BY <1>14, ResyncView
  <2> QED BY <1>14, <2>1, <2>2 DEF Mirror, RecoversInPlace
<1>15. ASSUME NEW cfg \in Configs, Reload(cfg) PROVE Mirror'
  <2>1. kernel' = kernel
    BY <1>15 DEF Reload
  <2> QED BY <1>15, <2>1, ReloadView, SameIds
<1>16. CASE UNCHANGED vars
  BY <1>16, <1>e DEF vars
<1> QED
  BY <1>1, <1>2, <1>3, <1>4, <1>5, <1>6, <1>7, <1>8, <1>9, <1>10, <1>11, <1>12,
     <1>13, <1>14, <1>15, <1>16 DEF Next, FrameStep

LEMMA StepMirror ==
  ASSUME SnapshotsAtLastContact, TypeInv, Mirror, [Next]_vars
  PROVE  Mirror'
BY StepMirrorInPlace DEF SnapshotsAtLastContact, RecoversInPlace

\* Whatever a frame holds, and also in the middle of it, the engine addresses
\* the slot the kernel does and has the kernel's contacts in their slots, as
\* long as snapshots are taken at the slot the recovery assumes.
THEOREM KernelIsMirrored ==
  ASSUME SnapshotsAtLastContact
  PROVE  Spec => []MirrorsKernel
<1>1. Mirror => MirrorsKernel
  BY DEF Mirror, MirrorsKernel
<1>2. TypeInv /\ Mirror /\ [Next]_vars => Mirror'
  BY StepMirror
<1> QED
  BY <1>1, <1>2, InitType, StepType, InitMirror, PTL DEF Spec

-----------------------------------------------------------------------------
(* What a frame's events make of the kernel's state, event by event.       *)

\* The last of some indices.
LEMMA LastIndex ==
  ASSUME NEW n \in Nat, NEW S \in SUBSET (1..n), S # {}
  PROVE  Max(S) \in S /\ \A i \in S : i <= Max(S)
<1> DEFINE T == {n - i : i \in S}
<1>1. T \subseteq Nat /\ T # {}
  <2>1. \A i \in S : n - i \in Nat
    OBVIOUS
  <2>2. PICK i \in S : TRUE
    OBVIOUS
  <2>3. n - i \in T
    BY <2>2
  <2> QED BY <2>1, <2>3
<1>2. PICK x \in T : \A y \in T : ~ (<<y, x>> \in OpToRel(<, Nat))
  <2> HIDE DEF T
  <2> QED BY <1>1, WFMin, NatLessThanWellFounded
<1>3. \A y \in T : x <= y
  <2> HIDE DEF T
  <2> SUFFICES ASSUME NEW y \in T, y < x PROVE FALSE
    BY <1>1
  <2>1. <<y, x>> \in OpToRel(<, Nat)
    BY <1>1 DEF OpToRel
  <2> QED BY <1>2, <2>1
<1>4. PICK i \in S : x = n - i
  OBVIOUS
<1>5. \A j \in S : i >= j
  <2> TAKE j \in S
  <2>1. n - i <= n - j
    BY <1>3, <1>4
  <2> QED BY <2>1
<1>6. Max(S) \in S /\ \A j \in S : Max(S) >= j
  BY <1>5 DEF Max
<1> QED BY <1>6

\* The slot addressed, slot s's contact and its tool type after the first i
\* events of a frame that began with the kernel in state k and the slots with
\* the tool types t.
SlotFrom(k, evs, i) ==
  LET switches == {j \in 1..i : evs[j].kind = "Slot"}
  IN IF switches = {} THEN k.slot ELSE evs[Max(switches)].value

IdFrom(k, evs, i, s) ==
  LET ids == {j \in 1..i : /\ evs[j].kind = "TrackingId"
                           /\ SlotFrom(k, evs, j) = s}
  IN IF ids = {} THEN k.ids[s] ELSE evs[Max(ids)].value

ToolFrom(k, t, evs, i, s) ==
  LET tools == {j \in 1..i : evs[j].kind = "ToolType" /\ SlotFrom(k, evs, j) = s}
  IN IF tools = {} THEN t[s] ELSE evs[Max(tools)].value

\* Event i is a tool type for slot s, labels the contact id there, takes it
\* down there.
ToolTypeAt(k, evs, i, s) == evs[i].kind = "ToolType" /\ SlotFrom(k, evs, i) = s
LabelAt(k, evs, i, s, id) == ToolTypeAt(k, evs, i, s) /\ IdFrom(k, evs, i, s) = id
BeginsAt(k, evs, i, s, id) ==
  /\ evs[i].kind = "TrackingId" /\ evs[i].value = id
  /\ SlotFrom(k, evs, i) = s

LEMMA SlotAsFrom ==
  ASSUME NEW evs, NEW i, NEW s
  PROVE  /\ SlotAt(evs, i) = SlotFrom(kernel, evs, i)
         /\ IdAfter(evs, i, s) = IdFrom(kernel, evs, i, s)
<1>1. \A j : SlotAt(evs, j) = SlotFrom(kernel, evs, j)
  BY DEF SlotAt, SlotFrom
<1>2. IdAfter(evs, i, s) = IdFrom(kernel, evs, i, s)
  BY <1>1 DEF IdAfter, IdFrom
<1> QED BY <1>1, <1>2

\* The last of the first i indices of a kind is i itself if it is of the kind.
LEMMA LastAtEnd ==
  ASSUME NEW i \in Nat \ {0}, NEW A \in SUBSET (1..i), i \in A
  PROVE  Max(A) = i
<1> DEFINE m == Max(A)
<1>1. m \in A /\ \A j \in A : j <= m
  BY LastIndex
<1> HIDE DEF m
<1>2. m \in 1..i /\ i <= m
  BY <1>1
<1>3. m = i
  BY <1>2
<1> QED BY <1>3 DEF m

LEMMA SlotNext ==
  ASSUME NEW k, NEW evs, NEW i \in Nat \ {0}
  PROVE  SlotFrom(k, evs, i) = IF evs[i].kind = "Slot" THEN evs[i].value
                               ELSE SlotFrom(k, evs, i - 1)
<1> DEFINE A(n) == {j \in 1..n : evs[j].kind = "Slot"}
<1>1. CASE evs[i].kind = "Slot"
  <2>1. i \in A(i) /\ A(i) \in SUBSET (1..i)
    BY <1>1
  <2> HIDE DEF A
  <2>2. Max(A(i)) = i /\ A(i) # {}
    BY <2>1, LastAtEnd
  <2> QED BY <1>1, <2>2 DEF SlotFrom, A
<1>2. CASE evs[i].kind # "Slot"
  <2>1. A(i) = A(i - 1)
    BY <1>2
  <2> QED BY <1>2, <2>1 DEF SlotFrom
<1> QED BY <1>1, <1>2

LEMMA IdNext ==
  ASSUME NEW k, NEW evs, NEW i \in Nat \ {0}, NEW s
  PROVE  IdFrom(k, evs, i, s) =
           IF evs[i].kind = "TrackingId" /\ SlotFrom(k, evs, i) = s
           THEN evs[i].value ELSE IdFrom(k, evs, i - 1, s)
<1> DEFINE P(j) == evs[j].kind = "TrackingId" /\ SlotFrom(k, evs, j) = s
           A(n) == {j \in 1..n : P(j)}
<1>1. CASE P(i)
  <2>1. i \in A(i) /\ A(i) \in SUBSET (1..i)
    BY <1>1
  <2> HIDE DEF A
  <2>2. Max(A(i)) = i /\ A(i) # {}
    BY <2>1, LastAtEnd
  <2> QED BY <1>1, <2>2 DEF IdFrom, A
<1>2. CASE ~P(i)
  <2>1. A(i) = A(i - 1)
    <3> HIDE DEF P
    <3> QED BY <1>2
  <2> QED BY <1>2, <2>1 DEF IdFrom
<1> QED BY <1>1, <1>2

LEMMA ToolNext ==
  ASSUME NEW k, NEW t, NEW evs, NEW i \in Nat \ {0}, NEW s
  PROVE  ToolFrom(k, t, evs, i, s) =
           IF ToolTypeAt(k, evs, i, s)
           THEN evs[i].value ELSE ToolFrom(k, t, evs, i - 1, s)
<1> DEFINE P(j) == evs[j].kind = "ToolType" /\ SlotFrom(k, evs, j) = s
           A(n) == {j \in 1..n : P(j)}
<1>1. CASE P(i)
  <2>1. i \in A(i) /\ A(i) \in SUBSET (1..i)
    BY <1>1
  <2> HIDE DEF A
  <2>2. Max(A(i)) = i /\ A(i) # {}
    BY <2>1, LastAtEnd
  <2> QED BY <1>1, <2>2 DEF ToolFrom, ToolTypeAt, A
<1>2. CASE ~P(i)
  <2>1. A(i) = A(i - 1)
    <3> HIDE DEF P
    <3> QED BY <1>2
  <2> QED BY <1>2, <2>1 DEF ToolFrom, ToolTypeAt
<1> QED BY <1>1, <1>2

LEMMA NoneYet ==
  ASSUME NEW k, NEW t, NEW evs, NEW s
  PROVE  /\ SlotFrom(k, evs, 0) = k.slot
         /\ IdFrom(k, evs, 0, s) = k.ids[s]
         /\ ToolFrom(k, t, evs, 0, s) = t[s]
<1>1. 1..0 = {}
  OBVIOUS
<1> QED BY <1>1 DEF SlotFrom, IdFrom, ToolFrom

\* The tool type a slot ends with is its last one's, if the frame has one.
LEMMA LastTool ==
  ASSUME NEW k, NEW t, NEW evs, NEW n \in Nat, NEW s,
         NEW i \in 1..n, ToolTypeAt(k, evs, i, s),
         \A j \in 1..n : j > i => ~ToolTypeAt(k, evs, j, s)
  PROVE  ToolFrom(k, t, evs, n, s) = evs[i].value
<1> DEFINE A == {j \in 1..n : evs[j].kind = "ToolType" /\ SlotFrom(k, evs, j) = s}
<1>1. \A j \in 1..n : j \in A <=> ToolTypeAt(k, evs, j, s)
  BY DEF ToolTypeAt
<1>2. ToolFrom(k, t, evs, n, s) = IF A = {} THEN t[s] ELSE evs[Max(A)].value
  BY DEF ToolFrom
<1>3. A \in SUBSET (1..n)
  OBVIOUS
<1> HIDE DEF A
<1>4. i \in A /\ A # {}
  BY <1>1
<1> DEFINE m == Max(A)
<1>5. m \in A /\ \A j \in A : j <= m
  BY <1>3, <1>4, LastIndex
<1> HIDE DEF m
<1>6. m \in 1..n /\ i <= m /\ ~(m > i)
  BY <1>1, <1>3, <1>4, <1>5
<1>7. m = i
  BY <1>6
<1> QED BY <1>2, <1>4, <1>7 DEF m

LEMMA NoTools ==
  ASSUME NEW k, NEW t, NEW evs, NEW n \in Nat, NEW s,
         \A j \in 1..n : ~ToolTypeAt(k, evs, j, s)
  PROVE  ToolFrom(k, t, evs, n, s) = t[s]
<1> DEFINE A == {j \in 1..n : evs[j].kind = "ToolType" /\ SlotFrom(k, evs, j) = s}
<1>1. A = {}
  BY DEF ToolTypeAt
<1> QED BY <1>1 DEF ToolFrom

\* A frame gives no id twice, and none that was in use before it.
FreshIds(k, evs) ==
  \A i \in DOMAIN evs : evs[i].kind = "TrackingId" /\ evs[i].value # None =>
    /\ \A s \in Slots : k.ids[s] # evs[i].value
    /\ \A j \in DOMAIN evs :
         evs[j].kind = "TrackingId" /\ evs[j].value = evs[i].value => j = i

DropIsAlone(evs) == \A i \in DOMAIN evs : evs[i].kind = "SynDropped" => Len(evs) = 1

\* So an id that is in a slot does not come again.
LEMMA InUse ==
  ASSUME NEW k, NEW evs \in Seq(Event), FreshIds(k, evs),
         NEW i \in 1..Len(evs), NEW s \in Slots, NEW id, id # None,
         IdFrom(k, evs, i - 1, s) = id,
         NEW j \in DOMAIN evs, j >= i
  PROVE  ~(evs[j].kind = "TrackingId" /\ evs[j].value = id)
<1> SUFFICES ASSUME evs[j].kind = "TrackingId", evs[j].value = id PROVE FALSE
  OBVIOUS
<1> DEFINE A == {m \in 1..(i - 1) : /\ evs[m].kind = "TrackingId"
                                    /\ SlotFrom(k, evs, m) = s}
<1>1. id = IF A = {} THEN k.ids[s] ELSE evs[Max(A)].value
  BY DEF IdFrom
<1>2. k.ids[s] # id
  BY DEF FreshIds
<1>3. A # {} /\ A \in SUBSET (1..(i - 1)) /\ i - 1 \in Nat
  BY <1>1, <1>2
<1>4. Max(A) \in A
  <2> HIDE DEF A
  <2> QED BY <1>3, LastIndex
<1> DEFINE m == Max(A)
<1>5. m \in 1..(i - 1) /\ evs[m].kind = "TrackingId" /\ evs[m].value = id
  BY <1>1, <1>3, <1>4
<1> HIDE DEF m
<1>6. m \in DOMAIN evs /\ m # j
  BY <1>5
<1> QED BY <1>5, <1>6 DEF FreshIds

Rest(evs, i) == {j \in DOMAIN evs : j >= i}

LEMMA RestNext ==
  ASSUME NEW evs \in Seq(Event), NEW i \in DOMAIN evs
  PROVE  Rest(evs, i) = {i} \cup Rest(evs, i + 1)
<1>1. \A j \in DOMAIN evs : j \in Int /\ (j >= i <=> j = i \/ j >= i + 1)
  BY Z3
<1> QED BY <1>1 DEF Rest

-----------------------------------------------------------------------------
(* The operations that forward nothing, hold nothing and decide nothing.    *)

SameOwned(c, k) == k.tracking_id = c.tracking_id /\ k.ownership = c.ownership

Still(a, b) ==
  /\ b \in EngineState
  /\ b.passthrough = a.passthrough /\ b.downs = a.downs /\ b.held_events = a.held_events
  /\ b.current_slot = a.current_slot
  /\ \A s \in Slots : /\ b.memory[s].tool_type = a.memory[s].tool_type
                      /\ SameOwned(a.contact[s], b.contact[s])

SameOutputs(a, b) ==
  /\ b.passthrough = a.passthrough /\ b.downs = a.downs /\ b.held_events = a.held_events
  /\ b.current_slot = a.current_slot /\ b.memory = a.memory

LEMMA StillItself ==
  ASSUME NEW en \in EngineState
  PROVE  Still(en, en)
BY DEF Still, SameOwned

LEMMA StillOn ==
  ASSUME NEW a, NEW b, NEW c, Still(a, b), Still(b, c)
  PROVE  Still(a, c)
BY DEF Still, SameOwned

LEMMA StillContacts ==
  ASSUME NEW a, NEW b \in EngineState, SameOutputs(a, b),
         \A s \in Slots : SameOwned(a.contact[s], b.contact[s])
  PROVE  Still(a, b)
BY DEF Still, SameOutputs

LEMMA StillOne ==
  ASSUME NEW a, NEW b \in EngineState, SameOutputs(a, b), NEW s \in Slots,
         \A r \in Slots \ {s} : b.contact[r] = a.contact[r],
         SameOwned(a.contact[s], b.contact[s])
  PROVE  Still(a, b)
BY DEF Still, SameOutputs, SameOwned

LEMMA FlushStill ==
  ASSUME NEW en \in EngineState
  PROVE  Still(en, FlushPendingTap(en))
<1> DEFINE out == FlushPendingTap(en)
<1>1. out \in EngineState
  BY FlushType
<1>2. SameOutputs(en, out)
  BY DEF FlushPendingTap, EngineState, SameOutputs
<1>3. \A s \in Slots : SameOwned(en.contact[s], out.contact[s])
  BY FlushView DEF SameOwned
<1> HIDE DEF out
<1> QED BY <1>1, <1>2, <1>3, StillContacts DEF out

LEMMA WithoutPairingStill ==
  ASSUME NEW en \in EngineState
  PROVE  Still(en, WithoutPairing(en))
<1> DEFINE out == WithoutPairing(en)
<1>1. out \in EngineState
  BY WithoutPairingType
<1>2. SameOutputs(en, out)
  BY DEF WithoutPairing, EngineState, SameOutputs
<1>3. \A s \in Slots : SameOwned(en.contact[s], out.contact[s])
  BY WithoutPairingView DEF SameOwned
<1> HIDE DEF out
<1> QED BY <1>1, <1>2, <1>3, StillContacts DEF out

LEMMA InterruptStill ==
  ASSUME NEW en \in EngineState
  PROVE  Still(en, InterruptTapSequence(en))
BY WithoutPairingType, WithoutPairingStill, FlushStill, StillOn DEF InterruptTapSequence

LEMMA ExpireStill ==
  ASSUME NEW en \in EngineState, NEW t
  PROVE  Still(en, ExpirePendingTap(en, t))
BY FlushStill, StillItself DEF ExpirePendingTap

LEMMA PushGestureStill ==
  ASSUME NEW en \in EngineState, NEW g \in Gesture
  PROVE  Still(en, PushGesture(en, g))
<1> DEFINE out == PushGesture(en, g)
<1>1. SameOutputs(en, out) /\ out.contact = en.contact
  BY DEF PushGesture, EngineState, SameOutputs
<1>2. out \in EngineState
  BY PushGestureType
<1> HIDE DEF out
<1> QED BY <1>1, <1>2, StillContacts DEF out, SameOwned

\* A slider moves an anchor and a phase.
LEMMA AnchorStill ==
  ASSUME NEW en \in EngineState, NEW s \in Slots, NEW a, NEW out \in EngineState,
         \/ out.contact[s] = [en.contact[s] EXCEPT !.slider_anchor = a]
         \/ out.contact[s] = [en.contact[s] EXCEPT
                                !.contact_phase = "ConsumedBySlider",
                                !.slider_anchor = a],
         SameOutputs(en, out),
         \A r \in Slots \ {s} : out.contact[r] = en.contact[r]
  PROVE  Still(en, out)
<1> DEFINE c == en.contact[s]
           k == out.contact[s]
<1>1. c \in Contact
  BY EngineFields
<1>2. SameOwned(c, k)
  <2>1. CASE k = [c EXCEPT !.slider_anchor = a]
    <3> HIDE DEF c, k
    <3> QED BY <1>1, <2>1 DEF Contact, SameOwned
  <2>2. CASE k = [c EXCEPT !.contact_phase = "ConsumedBySlider",
                           !.slider_anchor = a]
    <3> HIDE DEF c, k
    <3> QED BY <1>1, <2>2 DEF Contact, SameOwned
  <2> QED BY <2>1, <2>2
<1> QED BY <1>2, StillOne

LEMMA TakeStepsStill ==
  ASSUME NEW en \in EngineState, NEW s \in Slots, NEW count \in Nat,
         IsClaimed(en.contact[s])
  PROVE  Still(en, TakeSliderSteps(en, s, count))
<1> DEFINE c == en.contact[s]
           forward == SliderPosition(c.ownership, c) >= c.slider_anchor
           travel == count * en.cfg.sliders[c.ownership]
           anchor == IF forward THEN c.slider_anchor + travel
                                ELSE c.slider_anchor - travel
           out == TakeSliderSteps(en, s, count)
           k == [ConsumeBySlider(c) EXCEPT !.slider_anchor = anchor]
<1>1. SameOutputs(en, out) /\ out.contact = [en.contact EXCEPT ![s] = k]
  <2> HIDE DEF anchor
  <2> QED BY DEF TakeSliderSteps, EngineState, anchor, SameOutputs
<1>2. /\ out.contact[s] = k
      /\ \A r \in Slots \ {s} : out.contact[r] = en.contact[r]
  <2> HIDE DEF k, out
  <2> QED BY <1>1 DEF EngineState
<1>3. out.contact[s] = [en.contact[s] EXCEPT !.contact_phase = "ConsumedBySlider",
                                             !.slider_anchor = anchor]
  BY <1>2 DEF ConsumeBySlider
<1>4. out \in EngineState
  BY TakeStepsType
<1> HIDE DEF out, anchor, c, k
<1>5. Still(en, out)
  BY <1>1, <1>2, <1>3, <1>4, AnchorStill
<1> QED BY <1>5 DEF out

LEMMA EmitStill ==
  ASSUME NEW en \in EngineState, NEW s \in Slots
  PROVE  Still(en, EmitSliderStepsIfReady(en, s))
<1> DEFINE c == en.contact[s]
           position == SliderPosition(c.ownership, c)
           count == StepCount(Distance(c.slider_anchor, position),
                              en.cfg.sliders[c.ownership])
           anchored == [en EXCEPT !.contact[s].slider_anchor = position]
           taken == TakeSliderSteps(en, s, count)
<1> SUFFICES ASSUME EmitSliderStepsIfReady(en, s) # en, IsClaimed(c),
                    en.cfg.sliders[c.ownership] > 0,
                    EmitSliderStepsIfReady(en, s) = EmitSliderSteps(en, s)
             PROVE  Still(en, EmitSliderSteps(en, s))
  BY StillItself DEF EmitSliderStepsIfReady
<1>1. c \in Contact /\ c.ownership \in Zones
  BY EngineFields DEF IsClaimed
<1>2. count \in Nat
  BY <1>1, SliderPositionType, ConfigInForce, ContactFields, DistanceType,
     StepCountType
<1>3. Still(en, FlushPendingTap(taken))
  <2>1. Still(en, taken)
    <3> HIDE DEF count
    <3> QED BY <1>2, TakeStepsStill
  <2>2. taken \in EngineState
    BY <2>1 DEF Still
  <2> HIDE DEF taken
  <2> QED BY <2>1, <2>2, FlushStill, StillOn
<1>4. Still(en, anchored)
  <2>1. position \in Int
    BY <1>1, SliderPositionType
  <2> HIDE DEF position
  <2>2. anchored \in EngineState
    <3> DEFINE k == [c EXCEPT !.slider_anchor = position]
    <3>1. \A d \in Contact, a \in Int : [d EXCEPT !.slider_anchor = a] \in Contact
      BY DEF Contact
    <3>2. k \in Contact
      BY <1>1, <2>1, <3>1
    <3>3. anchored = [en EXCEPT !.contact[s] = k]
      BY DEF EngineState
    <3> HIDE DEF k
    <3> QED BY <3>2, <3>3, SetContact
  <2>3. /\ anchored.contact[s] = [c EXCEPT !.slider_anchor = position]
        /\ SameOutputs(en, anchored)
        /\ \A r \in Slots \ {s} : anchored.contact[r] = en.contact[r]
    BY DEF EngineState, SameOutputs
  <2> HIDE DEF anchored
  <2> QED BY <2>2, <2>3, AnchorStill
<1> HIDE DEF count, position
<1> QED
  BY <1>3, <1>4, StillItself DEF EmitSliderSteps, position, count

LEMMA EndSpoiledStill ==
  ASSUME NEW en \in EngineState, NEW s \in Slots
  PROVE  Still(en, EndSpoiledPair(en, s))
BY FlushStill, StillItself DEF EndSpoiledPair

LEMMA HandleClassifiedStill ==
  ASSUME NEW en \in EngineState, NEW g \in Gesture, NEW c \in Contact,
         NEW t \in Int
  PROVE  Still(en, HandleClassifiedGesture(en, g, c, t))
<1> DEFINE flushed == FlushPendingTap(en)
           out == HandleClassifiedGesture(en, g, c, t)
<1>1. flushed \in EngineState /\ Still(en, flushed)
  BY FlushType, FlushStill
<1>2. out \in EngineState
  BY HandleClassifiedType
<1>3. \A p \in EngineState : \A q : SameOutputs(p, [p EXCEPT !.pending_tap = q])
                     /\ [p EXCEPT !.pending_tap = q].contact = p.contact
  BY DEF EngineState, SameOutputs
<1>4. [en EXCEPT !.pending_tap = NoTap] \in EngineState
  BY NoTapType DEF EngineState
<1>5. \A p \in EngineState : \A q : [p EXCEPT !.pending_tap = q] \in EngineState =>
                                  Still(p, [p EXCEPT !.pending_tap = q])
  BY <1>3, StillContacts DEF SameOwned
<1>6. [g EXCEPT !.direction = "DoubleTap"] \in Gesture
  BY DEF Gesture
<1>7. Still(en, PushGesture([en EXCEPT !.pending_tap = NoTap],
                            [g EXCEPT !.direction = "DoubleTap"]))
  BY <1>4, <1>5, <1>6, PushGestureStill, StillOn
<1>8. Still(en, PushGesture(flushed, g))
  <2> HIDE DEF flushed
  <2> QED BY <1>1, PushGestureStill, StillOn
<1>9. \A q : out = [flushed EXCEPT !.pending_tap = q] => Still(en, out)
  <2> HIDE DEF flushed, out
  <2> QED BY <1>1, <1>2, <1>5, StillOn
<1>10. Still(en, PushGesture(en, g))
  BY PushGestureStill
<1> QED
  BY <1>1, <1>7, <1>8, <1>9, <1>10 DEF HandleClassifiedGesture

LEMMA ReleaseClaimedStill ==
  ASSUME NEW en \in EngineState, NEW s \in Slots, NEW c \in Contact,
         IsClaimed(c), NEW t \in Int
  PROVE  Still(en, ReleaseClaimed(en, s, c, t))
<1> DEFINE direction == ClassifyGesture(en.cfg, c, t)
           g == [zone |-> c.ownership, direction |-> direction, slot |-> s,
                 tracking_id |-> c.tracking_id]
<1>1. ASSUME direction # "None" PROVE g \in Gesture
  <2>1. direction \in Directions \cup {"Tap", "DoubleTap"}
    BY <1>1, DirectionType
  <2>2. c.ownership \in Zones /\ c.tracking_id \in Int /\ s \in Int
    BY ContactFields, SlotsAssumption DEF IsClaimed, Slots
  <2> HIDE DEF direction
  <2> QED BY <2>1, <2>2 DEF Gesture
<1> QED
  BY <1>1, FlushStill, StillItself, HandleClassifiedStill DEF ReleaseClaimed

LEMMA PlaceStill ==
  ASSUME NEW en \in EngineState, NEW s \in Slots, NEW v \in Int, NEW isX \in BOOLEAN
  PROVE  Still(en, IF isX THEN PlaceX(en, s, v) ELSE PlaceY(en, s, v))
<1> DEFINE out == IF isX THEN PlaceX(en, s, v) ELSE PlaceY(en, s, v)
<1>1. /\ out \in EngineState /\ out.current_slot = en.current_slot
      /\ \A r \in Slots \ {s} : /\ out.memory[r] = en.memory[r]
                                /\ out.contact[r] = en.contact[r]
      /\ out.memory[s].tool_type = en.memory[s].tool_type
      /\ SameOwned(en.contact[s], out.contact[s])
  BY PlaceView DEF MovedTo, SameOwned
<1>2. /\ out.passthrough = en.passthrough /\ out.downs = en.downs
      /\ out.held_events = en.held_events
  BY DEF PlaceX, PlaceY, EngineState
<1> HIDE DEF out
<1> QED BY <1>1, <1>2 DEF out, Still, SameOwned

LEMMA RejectPalmsStill ==
  ASSUME NEW en \in EngineState
  PROVE  Still(en, RejectPalms(en))
<1> DEFINE out == RejectPalms(en)
<1>1. out \in EngineState
  BY RejectPalmsType
<1>2. SameOutputs(en, out)
  BY DEF RejectPalms, EngineState, SameOutputs
<1>3. ASSUME NEW c \in Contact PROVE SameOwned(c, RejectGestures(c))
  BY DEF RejectGestures, Contact, SameOwned
<1>4. ASSUME NEW s \in Slots PROVE SameOwned(en.contact[s], out.contact[s])
  <2>1. out.contact[s] \in {en.contact[s], RejectGestures(en.contact[s])}
    BY DEF RejectPalms, EngineState
  <2>2. en.contact[s] \in Contact
    BY EngineFields
  <2> QED BY <1>3, <2>1, <2>2 DEF SameOwned
<1> HIDE DEF out
<1> QED BY <1>1, <1>2, <1>4, StillContacts DEF out

-----------------------------------------------------------------------------
(* Where in a frame the engine is.                                         *)

\* An event names a slot the touchpad does not have: the frame fails there.
Odd(i) == frame.events[i].kind = "Slot" /\ frame.events[i].value \notin Slots
Bad == \E i \in DOMAIN frame.events : Odd(i)

\* The frame can still be routed: it has not failed, will not, and no events
\* were lost.
Live == phase \in {"idle", "scan", "events", "finalize"} /\ ~e.resync_required /\ ~Bad

FlagsInv ==
  /\ phase \in {"idle", "resync"} =>
       /\ frame = NoFrame /\ ~e.resync_required /\ e.passthrough = <<>>
       /\ \A s \in Slots : e.downs[s] = <<>>
  /\ phase = "events" => \A i \in DOMAIN frame.events : i < at => ~Odd(i)
  /\ phase = "finalize" => ~Bad

LEMMA NoFrameIsGood == frame = NoFrame => ~Bad
BY DEF NoFrame, Bad

LEMMA InitFlags == Init => FlagsInv
<1> SUFFICES ASSUME Init PROVE FlagsInv
  OBVIOUS
<1>1. PICK cfg \in Configs : e = NewEngine(cfg, SeededMemory(StartMemory))
  BY DEF Init
<1>2. ~e.resync_required /\ e.passthrough = <<>> /\ \A s \in Slots : e.downs[s] = <<>>
  BY <1>1 DEF NewEngine
<1> QED BY <1>2 DEF Init, FlagsInv

LEMMA StepFlags ==
  ASSUME TypeInv, FlagsInv, [Next]_vars
  PROVE  FlagsInv'
<1>0. at \in Int /\ e \in EngineState /\ frame.events \in Seq(Event)
  BY DEF TypeInv, TypeOK, Frame
<1>1. ASSUME UNCHANGED <<e, phase, frame, at>> PROVE FlagsInv'
  BY <1>1 DEF FlagsInv, Bad, Odd
<1>2. ASSUME phase' \in {"scan", "error"} PROVE FlagsInv'
  BY <1>2 DEF FlagsInv
<1>3. ASSUME Fail PROVE FlagsInv'
  BY <1>2, <1>3 DEF Fail
<1>4. CASE ScanEvent
  BY <1>2, <1>4 DEF ScanEvent, Fail
<1>5. CASE BeginEvents
  <2>1. phase' = "events" /\ at' = 1 /\ frame' = frame
    BY <1>5 DEF BeginEvents
  <2>2. DOMAIN frame'.events = 1..Len(frame'.events)
    BY <1>0, <2>1
  <2> QED BY <2>1, <2>2 DEF FlagsInv
<1>6. ASSUME NEW kind, AtEvent(kind), CurrentEvent.kind = "Slot" => CurrentEvent.value \in Slots,
             at' = at + 1, frame' = frame, phase' = phase
      PROVE  FlagsInv'
  <2>1. phase = "events" /\ ~Odd(at)
    BY <1>6 DEF AtEvent, CurrentEvent, Odd
  <2>2. ASSUME NEW i \in DOMAIN frame'.events, i < at' PROVE ~Odd(i)'
    <3>1. i < at \/ i = at
      BY <1>0, <1>6, <2>2
    <3>2. ~Odd(i)
      BY <1>6, <2>1, <2>2, <3>1 DEF FlagsInv
    <3> QED BY <1>6, <3>2 DEF Odd
  <2> QED BY <1>6, <2>1, <2>2 DEF FlagsInv
<1>7. CASE SlotSwitch
  BY <1>3, <1>6, <1>7 DEF SlotSwitch, Processed
<1>8. ASSUME NEW kind, AtEvent(kind), kind # "Slot",
             at' = at + 1, frame' = frame, phase' = phase
      PROVE  FlagsInv'
  BY <1>6, <1>8 DEF AtEvent, CurrentEvent
<1>9. CASE ContactDown
  BY <1>3, <1>8, <1>9 DEF ContactDown, Processed
<1>10. CASE ContactUp
  BY <1>8, <1>10 DEF ContactUp, Processed
<1>11. CASE ToolType
  BY <1>8, <1>11 DEF ToolType, Processed
<1>12. CASE Position
  BY <1>8, <1>12 DEF Position, Processed
<1>13. CASE SynDropped
  BY <1>8, <1>13 DEF SynDropped, Processed
<1>14. CASE EventsDone
  <2>1. phase = "events" /\ phase' = "finalize" /\ frame' = frame /\ at > Len(frame.events)
    BY <1>14 DEF EventsDone
  <2>2. \A i \in DOMAIN frame.events : i < at
    BY <1>0, <2>1
  <2>3. ~Bad
    BY <2>1, <2>2 DEF FlagsInv, Bad
  <2> QED BY <2>1, <2>3 DEF FlagsInv, Bad, Odd
<1>15. CASE FinalizeSlot
  <2>1. phase = "finalize" /\ phase' = "finalize" /\ frame' = frame
    BY <1>15 DEF FinalizeSlot
  <2> QED BY <2>1 DEF FlagsInv, Bad, Odd
<1>16. CASE EndFrame
  <2>1. /\ e'.passthrough = <<>> /\ ~e'.resync_required
        /\ \A s \in Slots : e'.downs[s] = <<>>
    BY <1>0, <1>16 DEF EndFrame, ClearOutput, EngineState
  <2>2. phase' \in {"idle", "resync"} /\ frame' = NoFrame
    BY <1>16 DEF EndFrame
  <2> QED BY <2>1, <2>2 DEF FlagsInv
<1>17. ASSUME phase \in {"idle", "resync"}, phase' = "finalize", frame' = frame
       PROVE  FlagsInv'
  <2>1. frame' = NoFrame
    BY <1>17 DEF FlagsInv
  <2> QED BY <1>17, <2>1 DEF FlagsInv, NoFrame, Bad
<1>18. CASE AdvanceTime
  BY <1>17, <1>18 DEF AdvanceTime, Output
<1>19. ASSUME NEW snapshot \in Snapshots, Resync(snapshot) PROVE FlagsInv'
  BY <1>17, <1>19 DEF Resync, Output
<1>20. ASSUME NEW cfg \in Configs, Reload(cfg) PROVE FlagsInv'
  <2>1. phase = "idle" /\ phase' = "idle" /\ frame' = frame /\ e' = Reconfigure(e, cfg)
    BY <1>20 DEF Reload
  <2>2. /\ e'.passthrough = e.passthrough /\ e'.downs = e.downs
        /\ e'.resync_required = e.resync_required
    BY <1>0, <2>1 DEF Reconfigure, EngineState
  <2> QED BY <2>1, <2>2 DEF FlagsInv
<1>21. ASSUME NEW f \in Frames \cup OddFrames, NEW t \in Stamps, StartFrame(f, t)
       PROVE  FlagsInv'
  BY <1>2, <1>21 DEF StartFrame
<1> QED
  BY <1>1, <1>4, <1>5, <1>7, <1>9, <1>10, <1>11, <1>12, <1>13, <1>14, <1>15, <1>16,
     <1>18, <1>19, <1>20, <1>21 DEF Next, FrameStep, vars

LEMMA IdleIsLive ==
  ASSUME FlagsInv, phase = "idle"
  PROVE  Live
BY NoFrameIsGood DEF FlagsInv, Live

\* Nothing but a snapshot makes the engine live again.
LEMMA LiveBack ==
  ASSUME TypeInv, FlagsInv, FrameStep, Live'
  PROVE  Live
<1>0. phase \in {"scan", "events", "finalize"} /\ frame' = frame
  BY DEF FrameStep, ScanEvent, BeginEvents, SlotSwitch, ContactDown, ContactUp, ToolType,
     Position, SynDropped, EventsDone, FinalizeSlot, AtEvent, Processed, Fail
<1>1. ~Bad
  BY <1>0 DEF Live, Bad, Odd
<1> SUFFICES ~e.resync_required
  BY <1>0, <1>1 DEF Live
<1>2. ASSUME e' = e PROVE ~e.resync_required
  BY <1>2 DEF Live
<1>3. CASE BeginEvents
  BY <1>3, BeginEventsView DEF SameSettings, Live
<1>4. CASE SlotSwitch
  <2>1. CASE CurrentEvent.value \in Slots
    BY <1>4, <2>1, SwitchView DEF SamePressed, Live
  <2>2. CASE CurrentEvent.value \notin Slots
    BY <1>2, <1>4, <2>2 DEF SlotSwitch, Fail
  <2> QED BY <2>1, <2>2
<1>5. CASE ContactDown
  <2>1. CASE ~IsActive(e, e.current_slot)
    BY <1>5, <2>1, DownView DEF SamePressed, Live
  <2>2. CASE IsActive(e, e.current_slot)
    BY <1>2, <1>5, <2>2 DEF ContactDown, Fail
  <2> QED BY <2>1, <2>2
<1>6. CASE ContactUp
  BY <1>6, UpView DEF SameSettings, Live
<1>7. CASE ToolType
  BY <1>7, ToolView DEF SamePressed, Live
<1>8. CASE Position
  BY <1>8, PositionView DEF SamePressed, Live
<1>9. CASE SynDropped
  BY <1>9, DroppedView DEF Live
<1>10. CASE FinalizeSlot
  BY <1>10, FinalizeView DEF SameSettings, Live
<1>11. CASE ScanEvent \/ EventsDone
  BY <1>2, <1>11 DEF ScanEvent, EventsDone, Fail
<1> QED
  BY <1>3, <1>4, <1>5, <1>6, <1>7, <1>8, <1>9, <1>10, <1>11 DEF FrameStep

-----------------------------------------------------------------------------
(* No tap is lost: what the operations do to reports, sliders and fingers. *)

\* The gestures that out reports and en did not.
Reported(en, out) ==
  {out.gestures[i] : i \in (Len(en.gestures) + 1)..Len(out.gestures)}

GoesOn(en, out) ==
  /\ Len(en.gestures) <= Len(out.gestures)
  /\ \A i \in 1..Len(en.gestures) : out.gestures[i] = en.gestures[i]

\* A pending tap that is to be reported is not forgotten.
IsTold(en, out) ==
  HasPendingTap(en) /\ en.pending_tap.emit_single =>
    en.pending_tap.gesture \in Reported(en, out)

\* The pending tap is left alone, or it is over and told.
TellsTap(en, out) ==
  /\ GoesOn(en, out)
  /\ out.pending_tap = en.pending_tap \/ (out.pending_tap = NoTap /\ IsTold(en, out))

SamePhases(en, out) ==
  \A s \in Slots : out.contact[s].contact_phase = en.contact[s].contact_phase

\* No slider moves and no finger is observed to.
Quiet(en, out) ==
  /\ TellsTap(en, out) /\ out.slider_steps = en.slider_steps /\ SamePhases(en, out)

LEMMA NoPending == ~(NoTap.released_at # None)
BY DEF NoTap

LEMMA GesturesType ==
  ASSUME NEW en \in EngineState
  PROVE  en.gestures \in Seq(Gesture) /\ Len(en.gestures) \in Nat
BY DEF EngineState

LEMMA ReportedMore ==
  ASSUME NEW a \in EngineState, NEW b \in EngineState, NEW c \in EngineState,
         GoesOn(a, b), GoesOn(b, c)
  PROVE  /\ GoesOn(a, c)
         /\ Reported(a, b) \subseteq Reported(a, c)
         /\ Reported(b, c) \subseteq Reported(a, c)
<1>1. /\ Len(a.gestures) \in Nat /\ Len(b.gestures) \in Nat /\ Len(c.gestures) \in Nat
  BY GesturesType
<1>2. GoesOn(a, c)
  BY <1>1 DEF GoesOn
<1>3. Reported(b, c) \subseteq Reported(a, c)
  BY <1>1 DEF GoesOn, Reported
<1>4. ASSUME NEW i \in (Len(a.gestures) + 1)..Len(b.gestures)
      PROVE  b.gestures[i] \in Reported(a, c)
  <2>1. i \in 1..Len(b.gestures) /\ i \in (Len(a.gestures) + 1)..Len(c.gestures)
    BY <1>1 DEF GoesOn
  <2>2. c.gestures[i] = b.gestures[i]
    BY <2>1 DEF GoesOn
  <2> QED BY <2>1, <2>2 DEF Reported
<1>5. Reported(a, b) \subseteq Reported(a, c)
  BY <1>4 DEF Reported
<1> QED BY <1>2, <1>3, <1>5

LEMMA TellsOn ==
  ASSUME NEW a \in EngineState, NEW b \in EngineState, NEW c \in EngineState,
         TellsTap(a, b), TellsTap(b, c)
  PROVE  TellsTap(a, c)
<1>1. /\ GoesOn(a, c)
      /\ Reported(a, b) \subseteq Reported(a, c)
      /\ Reported(b, c) \subseteq Reported(a, c)
  BY ReportedMore DEF TellsTap
<1>2. CASE b.pending_tap = a.pending_tap
  BY <1>1, <1>2 DEF TellsTap, IsTold, HasPendingTap
<1>3. CASE b.pending_tap = NoTap /\ IsTold(a, b)
  BY <1>1, <1>3 DEF TellsTap, IsTold
<1> QED BY <1>2, <1>3 DEF TellsTap

LEMMA QuietOn ==
  ASSUME NEW a \in EngineState, NEW b \in EngineState, NEW c \in EngineState,
         Quiet(a, b), Quiet(b, c)
  PROVE  Quiet(a, c)
<1>1. TellsTap(a, c)
  BY TellsOn DEF Quiet
<1> QED BY <1>1 DEF Quiet, SamePhases

\* What leaves reports and fingers alone is quiet.
LEMMA SameReports ==
  ASSUME NEW en \in EngineState, NEW out, out.gestures = en.gestures,
         out.pending_tap = en.pending_tap, out.slider_steps = en.slider_steps,
         SamePhases(en, out)
  PROVE  Quiet(en, out)
<1>1. Len(en.gestures) \in Nat
  BY DEF EngineState
<1> QED BY <1>1 DEF Quiet, TellsTap, GoesOn

LEMMA QuietItself ==
  ASSUME NEW en \in EngineState
  PROVE  Quiet(en, en)
BY SameReports DEF SamePhases

\* One more gesture.
LEMMA AppendReported ==
  ASSUME NEW en \in EngineState, NEW out, NEW g, g \in Gesture,
         out.gestures = Append(en.gestures, g)
  PROVE  GoesOn(en, out) /\ g \in Reported(en, out)
<1>1. en.gestures \in Seq(Gesture) /\ Len(en.gestures) \in Nat
  BY DEF EngineState
<1>2. /\ Len(out.gestures) = Len(en.gestures) + 1
      /\ out.gestures[Len(en.gestures) + 1] = g
      /\ \A i \in 1..Len(en.gestures) : out.gestures[i] = en.gestures[i]
  BY <1>1
<1> QED BY <1>1, <1>2 DEF GoesOn, Reported

LEMMA FlushQuiet ==
  ASSUME NEW en \in EngineState
  PROVE  LET out == FlushPendingTap(en)
         IN Quiet(en, out) /\ out.pending_tap = NoTap /\ IsTold(en, out)
<1> DEFINE out == FlushPendingTap(en)
<1>1. /\ out.pending_tap = NoTap /\ out.slider_steps = en.slider_steps
      /\ out.gestures = IF HasPendingTap(en) /\ en.pending_tap.emit_single
                        THEN Append(en.gestures, en.pending_tap.gesture)
                        ELSE en.gestures
      /\ out.contact =
           [s \in Slots |-> [en.contact[s] EXCEPT !.tap_sequence_match = FALSE]]
  BY DEF FlushPendingTap, EngineState
<1>2. SamePhases(en, out)
  <2>1. \A c \in Contact :
          [c EXCEPT !.tap_sequence_match = FALSE].contact_phase = c.contact_phase
    BY DEF Contact
  <2> HIDE DEF out
  <2> QED BY <1>1, <2>1, EngineFields DEF SamePhases
<1>3. en.pending_tap.gesture \in Gesture /\ Len(en.gestures) \in Nat
  BY DEF EngineState, PendingTap
<1> HIDE DEF out
<1>4. ASSUME HasPendingTap(en) /\ en.pending_tap.emit_single
      PROVE  GoesOn(en, out) /\ IsTold(en, out)
  BY <1>1, <1>3, <1>4, AppendReported DEF IsTold
<1>5. ASSUME ~(HasPendingTap(en) /\ en.pending_tap.emit_single)
      PROVE  GoesOn(en, out) /\ IsTold(en, out)
  BY <1>1, <1>3, <1>5 DEF IsTold, GoesOn
<1>6. Quiet(en, out) /\ IsTold(en, out)
  BY <1>1, <1>2, <1>4, <1>5 DEF Quiet, TellsTap
<1> QED BY <1>1, <1>6 DEF out

LEMMA WithoutPairingQuiet ==
  ASSUME NEW en \in EngineState
  PROVE  Quiet(en, WithoutPairing(en))
<1> DEFINE out == WithoutPairing(en)
<1>1. /\ out.pending_tap = en.pending_tap /\ out.slider_steps = en.slider_steps
      /\ out.gestures = en.gestures
      /\ out.contact =
           [s \in Slots |-> [en.contact[s] EXCEPT !.tap_sequence_eligible = FALSE,
                                                  !.tap_sequence_match = FALSE]]
  BY DEF WithoutPairing, EngineState
<1>2. \A c \in Contact :
        [c EXCEPT !.tap_sequence_eligible = FALSE,
                  !.tap_sequence_match = FALSE].contact_phase = c.contact_phase
  BY DEF Contact
<1> HIDE DEF out
<1>3. SamePhases(en, out)
  BY <1>1, <1>2, EngineFields DEF SamePhases
<1>4. Quiet(en, out)
  BY <1>1, <1>3, SameReports
<1> QED BY <1>4 DEF out

LEMMA InterruptQuiet ==
  ASSUME NEW en \in EngineState
  PROVE  Quiet(en, InterruptTapSequence(en))
<1>1. WithoutPairing(en) \in EngineState /\ Quiet(en, WithoutPairing(en))
  BY WithoutPairingType, WithoutPairingQuiet
<1> QED BY <1>1, FlushType, FlushQuiet, QuietOn DEF InterruptTapSequence

LEMMA ExpireQuiet ==
  ASSUME NEW en \in EngineState, NEW t
  PROVE  Quiet(en, ExpirePendingTap(en, t))
BY FlushQuiet, QuietItself DEF ExpirePendingTap

LEMMA SamePhasesOf ==
  ASSUME NEW en, NEW out, out.contact = en.contact
  PROVE  SamePhases(en, out)
BY DEF SamePhases

LEMMA PushPassthroughQuiet ==
  ASSUME NEW en \in EngineState, NEW s \in Slots, NEW events \in Seq(Event)
  PROVE  Quiet(en, PushPassthrough(en, s, events))
<1>1. LET out == PushPassthrough(en, s, events)
      IN /\ out.contact = en.contact /\ out.gestures = en.gestures
         /\ out.pending_tap = en.pending_tap
         /\ out.slider_steps = en.slider_steps
  BY DEF PushPassthrough, EngineState
<1> QED BY <1>1, SamePhasesOf, SameReports

LEMMA HoldQuiet ==
  ASSUME NEW en \in EngineState, NEW s \in Slots, NEW events
  PROVE  Quiet(en, [en EXCEPT !.held_events[s] = events])
<1> DEFINE out == [en EXCEPT !.held_events[s] = events]
<1>1. /\ out.contact = en.contact /\ out.gestures = en.gestures
      /\ out.pending_tap = en.pending_tap
      /\ out.slider_steps = en.slider_steps
  BY DEF EngineState
<1> HIDE DEF out
<1>2. Quiet(en, out)
  BY <1>1, SamePhasesOf, SameReports
<1> QED BY <1>2 DEF out

LEMMA RouteEventQuiet ==
  ASSUME NEW en \in EngineState, NEW event \in Event
  PROVE  Quiet(en, RouteEvent(en, event))
<1>1. en.current_slot \in Slots /\ <<event>> \in Seq(Event)
  BY DEF EngineState
<1>2. [en EXCEPT !.held_events[en.current_slot] = Append(@, event)]
        = [en EXCEPT !.held_events[en.current_slot]
                       = Append(en.held_events[en.current_slot], event)]
  OBVIOUS
<1> QED
  BY <1>1, <1>2, PushPassthroughQuiet, HoldQuiet, QuietItself DEF RouteEvent

\* One contact changes, but not in its phase.
LEMMA OneContactQuiet ==
  ASSUME NEW en \in EngineState, NEW s \in Slots, NEW c,
         c.contact_phase = en.contact[s].contact_phase
  PROVE  Quiet(en, [en EXCEPT !.contact[s] = c])
<1> DEFINE out == [en EXCEPT !.contact[s] = c]
<1>1. /\ out.contact[s] = c /\ out.gestures = en.gestures
      /\ \A r \in Slots \ {s} : out.contact[r] = en.contact[r]
      /\ out.pending_tap = en.pending_tap
      /\ out.slider_steps = en.slider_steps
  BY DEF EngineState
<1> HIDE DEF out
<1>2. SamePhases(en, out)
  BY <1>1 DEF SamePhases
<1>3. Quiet(en, out)
  BY <1>1, <1>2, SameReports
<1> QED BY <1>3 DEF out

LEMMA SetContactQuiet ==
  ASSUME NEW en \in EngineState, NEW s \in Slots, NEW c \in Contact,
         c.contact_phase = en.contact[s].contact_phase
  PROVE  Quiet(en, [[en EXCEPT !.contact[s] = c] EXCEPT !.held_events[s] = <<>>])
<1> DEFINE set == [en EXCEPT !.contact[s] = c]
           out == [set EXCEPT !.held_events[s] = <<>>]
<1>1. set \in EngineState /\ Quiet(en, set)
  BY SetContact, OneContactQuiet
<1>2. out \in EngineState /\ Quiet(set, out)
  <2> HIDE DEF set
  <2>1. <<>> \in Seq(Event)
    OBVIOUS
  <2> QED BY <1>1, <2>1, HoldQuiet, SetHeldEvents
<1> HIDE DEF set, out
<1>3. Quiet(en, out)
  BY <1>1, <1>2, QuietOn
<1> QED BY <1>3 DEF set, out

LEMMA PassContactThroughQuiet ==
  ASSUME NEW en \in EngineState, NEW s \in Slots
  PROVE  Quiet(en, PassContactThrough(en, s))
<1> DEFINE c == [en.contact[s] EXCEPT !.ownership = "Passthrough"]
           owned == [[en EXCEPT !.contact[s] = c] EXCEPT !.held_events[s] = <<>>]
           settled == IF en.contact[s].gesture_rejected
                      THEN owned ELSE FlushPendingTap(owned)
           replayed == PushPassthrough(settled, s, en.held_events[s])
           tool == en.memory[s].tool_type
           tools == IF tool = None THEN <<>> ELSE <<ToolTypeEvent(tool)>>
           out == PushPassthrough(replayed, s, tools)
<1>1. c \in Contact /\ c.contact_phase = en.contact[s].contact_phase
  <2>1. \A d \in Contact :
          LET k == [d EXCEPT !.ownership = "Passthrough"]
          IN k \in Contact /\ k.contact_phase = d.contact_phase
    BY DEF Contact, Ownerships
  <2> QED BY <2>1, EngineFields
<1> HIDE DEF c
<1>2. owned \in EngineState /\ Quiet(en, owned)
  <2>1. [en EXCEPT !.contact[s] = c] \in EngineState /\ <<>> \in Seq(Event)
    BY <1>1, SetContact
  <2> QED BY <1>1, <2>1, SetContactQuiet, SetHeldEvents
<1> HIDE DEF owned
<1>3. settled \in EngineState /\ Quiet(owned, settled)
  BY <1>2, FlushType, FlushQuiet, QuietItself
<1> HIDE DEF settled
<1>4. replayed \in EngineState /\ Quiet(settled, replayed)
  BY <1>3, EngineFields, PushPassthroughQuiet, PushPassthroughType
<1> HIDE DEF replayed
<1>5. out \in EngineState /\ Quiet(replayed, out)
  <2>1. tools \in Seq(Event)
    BY EngineFields, ToolEventType DEF Memory
  <2> HIDE DEF tools
  <2> QED BY <1>4, <2>1, PushPassthroughQuiet, PushPassthroughType
<1>6. PassContactThrough(en, s) = out
  BY DEF PassContactThrough, replayed, settled, owned, c
<1> HIDE DEF tools, out
<1>7. Quiet(en, settled)
  BY <1>2, <1>3, QuietOn
<1>8. Quiet(en, replayed)
  BY <1>3, <1>4, <1>7, QuietOn
<1>9. Quiet(en, out)
  BY <1>4, <1>5, <1>8, QuietOn
<1> QED BY <1>6, <1>9

LEMMA ClaimContactQuiet ==
  ASSUME NEW en \in EngineState, NEW s \in Slots, NEW zone \in Zones
  PROVE  Quiet(en, ClaimContact(en, s, zone))
<1> DEFINE c == en.contact[s]
           match == /\ ~c.gesture_rejected
                    /\ ContactMatchesPendingTap(en.cfg, en.pending_tap, c, zone)
           settled == IF HasPendingTap(en) /\ ~match /\ ~c.gesture_rejected
                      THEN FlushPendingTap(en) ELSE en
           anchor == IF en.cfg.sliders[zone] > 0
                     THEN SliderPosition(zone, c) ELSE None
           claimed == [settled.contact[s] EXCEPT !.ownership = zone,
                                                 !.slider_anchor = anchor,
                                                 !.tap_sequence_match = match]
           out == [[settled EXCEPT !.contact[s] = claimed]
                     EXCEPT !.held_events[s] = <<>>]
<1>1. settled \in EngineState /\ Quiet(en, settled)
  BY FlushType, FlushQuiet, QuietItself
<1>2. anchor \in Int /\ match \in BOOLEAN
  BY SliderPositionType, EngineFields DEF None, ContactMatchesPendingTap
<1> HIDE DEF settled, anchor, match
<1>3. claimed \in Contact /\ claimed.contact_phase = settled.contact[s].contact_phase
  <2>1. \A d \in Contact, a \in Int, b \in BOOLEAN :
          LET k == [d EXCEPT !.ownership = zone, !.slider_anchor = a,
                             !.tap_sequence_match = b]
          IN k \in Contact /\ k.contact_phase = d.contact_phase
    BY DEF Contact, Ownerships
  <2>2. settled.contact[s] \in Contact
    BY <1>1, EngineFields
  <2> QED BY <1>2, <2>1, <2>2
<1>4. [settled EXCEPT !.contact[s].ownership = zone,
                      !.contact[s].slider_anchor = anchor,
                      !.contact[s].tap_sequence_match = match,
                      !.held_events[s] = <<>>] = out
  <2>1. /\ DOMAIN settled.contact = Slots
        /\ DOMAIN settled = DOMAIN [settled EXCEPT !.contact[s] = claimed]
    BY <1>1 DEF EngineState
  <2>2. [settled EXCEPT !.contact[s].ownership = zone,
                        !.contact[s].slider_anchor = anchor,
                        !.contact[s].tap_sequence_match = match]
          = [settled EXCEPT !.contact[s] = claimed]
    BY <1>1 DEF EngineState
  <2> QED BY <2>2
<1>5. ClaimContact(en, s, zone) = out
  BY <1>4 DEF ClaimContact, settled, anchor, match
<1> HIDE DEF claimed
<1>6. out \in EngineState /\ Quiet(settled, out)
  <2>1. [settled EXCEPT !.contact[s] = claimed] \in EngineState
        /\ <<>> \in Seq(Event)
    BY <1>1, <1>3, SetContact
  <2> QED BY <1>1, <1>3, <2>1, SetContactQuiet, SetHeldEvents
<1> HIDE DEF out
<1>7. Quiet(en, out)
  BY <1>1, <1>6, QuietOn
<1> QED BY <1>5, <1>7

LEMMA DecideQuiet ==
  ASSUME NEW en \in EngineState, NEW s \in Slots
  PROVE  Quiet(en, DecideOwnershipIfReady(en, s))
<1> DEFINE zone == ZoneForContact(en, s)
<1>1. zone = "None" \/ zone \in Zones
  BY ZoneType DEF ZoneForContact
<1> HIDE DEF zone
<1>2. \/ DecideOwnershipIfReady(en, s) = en
      \/ DecideOwnershipIfReady(en, s) = PassContactThrough(en, s)
      \/ zone \in Zones /\ DecideOwnershipIfReady(en, s) = ClaimContact(en, s, zone)
  BY <1>1 DEF DecideOwnershipIfReady, zone
<1> QED BY <1>2, QuietItself, PassContactThroughQuiet, ClaimContactQuiet

LEMMA EndSpoiledQuiet ==
  ASSUME NEW en \in EngineState, NEW s \in Slots
  PROVE  Quiet(en, EndSpoiledPair(en, s))
BY FlushQuiet, QuietItself DEF EndSpoiledPair

LEMMA PromoteQuiet ==
  ASSUME NEW en \in EngineState
  PROVE  Quiet(en, PromoteClaimedContacts(en))
<1> DEFINE out == PromoteClaimedContacts(en)
<1>1. /\ out.pending_tap = en.pending_tap /\ out.slider_steps = en.slider_steps
      /\ out.gestures = en.gestures
      /\ out.contact =
           [s \in Slots |->
              IF CanPromote(en, s)
              THEN [en.contact[s] EXCEPT !.ownership = "Passthrough",
                                         !.slider_anchor = None]
              ELSE en.contact[s]]
  BY DEF PromoteClaimedContacts, EngineState
<1>2. \A c \in Contact :
        [c EXCEPT !.ownership = "Passthrough",
                  !.slider_anchor = None].contact_phase = c.contact_phase
  BY DEF Contact
<1> HIDE DEF out
<1>3. SamePhases(en, out)
  BY <1>1, <1>2, EngineFields DEF SamePhases
<1>4. Quiet(en, out)
  BY <1>1, <1>3, SameReports
<1> QED BY <1>4 DEF out

LEMMA PressButtonsQuiet ==
  ASSUME NEW en \in EngineState, NEW codes \in SUBSET Buttons
  PROVE  Quiet(en, PressButtons(en, codes))
<1> DEFINE interrupted == InterruptTapSequence(en)
           held == interrupted.pressed \cup codes
           pressed == [interrupted EXCEPT !.pressed = held]
<1>1. interrupted \in EngineState /\ Quiet(en, interrupted)
  BY InterruptType, InterruptQuiet
<1> HIDE DEF interrupted
<1>2. pressed \in EngineState /\ Quiet(interrupted, pressed)
  <2>1. /\ pressed.pending_tap = interrupted.pending_tap
        /\ pressed.slider_steps = interrupted.slider_steps
        /\ pressed.gestures = interrupted.gestures
        /\ pressed.contact = interrupted.contact
    BY <1>1 DEF EngineState
  <2>2. held \in SUBSET Buttons
    BY <1>1 DEF EngineState
  <2>3. pressed \in EngineState
    <3> HIDE DEF held
    <3> QED BY <1>1, <2>2 DEF EngineState
  <2> HIDE DEF pressed
  <2> QED BY <1>1, <2>1, <2>3, SamePhasesOf, SameReports
<1>3. Quiet(en, pressed)
  BY <1>1, <1>2, QuietOn
<1>4. Quiet(en, PromoteClaimedContacts(pressed))
  <2> HIDE DEF pressed
  <2> QED BY <1>2, <1>3, PromoteQuiet, PromoteType, QuietOn
<1>5. \/ PressButtons(en, codes) = en
      \/ PressButtons(en, codes) = interrupted
      \/ PressButtons(en, codes) = PromoteClaimedContacts(pressed)
  BY DEF PressButtons, interrupted
<1> QED BY <1>1, <1>4, <1>5, QuietItself

LEMMA RejectPalmsQuiet ==
  ASSUME NEW en \in EngineState
  PROVE  Quiet(en, RejectPalms(en))
<1> DEFINE out == RejectPalms(en)
<1>1. /\ out.pending_tap = en.pending_tap /\ out.slider_steps = en.slider_steps
      /\ out.gestures = en.gestures
      /\ \A s \in Slots : \/ out.contact[s] = en.contact[s]
                          \/ out.contact[s] = RejectGestures(en.contact[s])
  BY DEF RejectPalms, EngineState
<1>2. \A c \in Contact : RejectGestures(c).contact_phase = c.contact_phase
  BY DEF Contact, RejectGestures
<1> HIDE DEF out
<1>3. SamePhases(en, out)
  BY <1>1, <1>2, EngineFields DEF SamePhases
<1>4. Quiet(en, out)
  BY <1>1, <1>3, SameReports
<1> QED BY <1>4 DEF out

\* The new steps of slot s in some directions, and the steps it gained by them.
StepsOf(en, out, s, directions) ==
  {i \in (Len(en.slider_steps) + 1)..Len(out.slider_steps) :
     /\ out.slider_steps[i].slot = s
     /\ out.slider_steps[i].direction \in directions}

NetOf(en, out, s) ==
  Cardinality(StepsOf(en, out, s, {"Right", "Down"}))
    - Cardinality(StepsOf(en, out, s, {"Left", "Up"}))

\* A finger's phase changes only with the slider it moves.
Slides(en, out) ==
  /\ TellsTap(en, out)
  /\ \A s \in Slots :
       \/ out.contact[s].contact_phase = en.contact[s].contact_phase
       \/ NetOf(en, out, s) # 0

LEMMA QuietSlides ==
  ASSUME NEW en, NEW out, Quiet(en, out)
  PROVE  Slides(en, out)
BY DEF Quiet, Slides, SamePhases

LEMMA QuietThenSlides ==
  ASSUME NEW a \in EngineState, NEW b \in EngineState, NEW c \in EngineState,
         Quiet(a, b), Slides(b, c)
  PROVE  Slides(a, c)
<1>1. TellsTap(a, c)
  BY TellsOn DEF Quiet, Slides
<1>2. \A s \in Slots : NetOf(a, c, s) = NetOf(b, c, s)
  BY DEF Quiet, NetOf, StepsOf
<1> QED BY <1>1, <1>2 DEF Quiet, Slides, SamePhases

LEMMA SlidesThenQuiet ==
  ASSUME NEW a \in EngineState, NEW b \in EngineState, NEW c \in EngineState,
         Slides(a, b), Quiet(b, c)
  PROVE  Slides(a, c)
<1>1. TellsTap(a, c)
  BY TellsOn DEF Quiet, Slides
<1>2. \A s \in Slots : NetOf(a, c, s) = NetOf(a, b, s)
  BY DEF Quiet, NetOf, StepsOf
<1> QED BY <1>1, <1>2 DEF Quiet, Slides, SamePhases

LEMMA StepsInRange ==
  ASSUME NEW n \in Nat, NEW count \in Nat, count > 0
  PROVE  Cardinality((n + 1)..(n + count)) = count
<1>1. /\ n + 1 \in Int /\ n + count \in Int /\ ~(n + 1 > n + count)
      /\ (n + count) - (n + 1) + 1 = count
  OBVIOUS
<1> QED BY <1>1, FS_Interval

\* Some steps in one direction are a movement.
LEMMA StepsMove ==
  ASSUME NEW en \in EngineState, NEW out, NEW s, NEW count \in Nat, count > 0,
         NEW one, one.slot = s, one.direction \in Directions,
         out.slider_steps = en.slider_steps \o [i \in 1..count |-> one]
  PROVE  NetOf(en, out, s) # 0
<1> DEFINE n == Len(en.slider_steps)
           new == (n + 1)..(n + count)
<1>1. en.slider_steps \in Seq(SliderStep) /\ n \in Nat
  BY DEF EngineState
<1>2. Len(out.slider_steps) = n + count
  <2>1. [i \in 1..count |-> one] \in Seq({one}) /\ Len([i \in 1..count |-> one]) = count
    OBVIOUS
  <2> QED BY <1>1, <2>1
<1>3. \A i \in new : out.slider_steps[i] = one
  BY <1>1
<1>4. Cardinality(new) = count /\ Cardinality({}) = 0
  BY <1>1, StepsInRange, FS_EmptySet
<1>5. \A directions :
        StepsOf(en, out, s, directions) = {i \in new : one.direction \in directions}
  BY <1>2, <1>3 DEF StepsOf
<1> HIDE DEF new
<1>6. /\ \A directions : one.direction \in directions =>
             Cardinality(StepsOf(en, out, s, directions)) = count
      /\ \A directions : one.direction \notin directions =>
             Cardinality(StepsOf(en, out, s, directions)) = 0
  <2>1. ASSUME NEW directions, one.direction \in directions
        PROVE  StepsOf(en, out, s, directions) = new
    BY <1>5, <2>1
  <2>2. ASSUME NEW directions, one.direction \notin directions
        PROVE  StepsOf(en, out, s, directions) = {}
    BY <1>5, <2>2
  <2> QED BY <1>4, <2>1, <2>2
<1>7. \/ /\ one.direction \in {"Right", "Down"}
         /\ one.direction \notin {"Left", "Up"}
      \/ /\ one.direction \notin {"Right", "Down"}
         /\ one.direction \in {"Left", "Up"}
  BY DEF Directions
<1>8. /\ count - 0 # 0 /\ 0 - count # 0
  OBVIOUS
<1> QED BY <1>6, <1>7, <1>8 DEF NetOf

LEMMA TakeStepsSlides ==
  ASSUME NEW en \in EngineState, NEW s \in Slots, NEW count \in Nat, count > 0
  PROVE  Slides(en, TakeSliderSteps(en, s, count))
<1> DEFINE c == en.contact[s]
           forward == SliderPosition(c.ownership, c) >= c.slider_anchor
           travel == count * en.cfg.sliders[c.ownership]
           anchor == IF forward THEN c.slider_anchor + travel
                                ELSE c.slider_anchor - travel
           one == [zone |-> c.ownership,
                   direction |-> SliderDirection(c.ownership, forward),
                   slot |-> s, tracking_id |-> c.tracking_id]
           k == [ConsumeBySlider(c) EXCEPT !.slider_anchor = anchor]
           out == TakeSliderSteps(en, s, count)
<1>1. one.slot = s /\ one.direction \in Directions
  BY SliderDirectionType
<1>2. /\ out.contact = [en.contact EXCEPT ![s] = k]
      /\ out.gestures = en.gestures /\ out.pending_tap = en.pending_tap
      /\ out.slider_steps = en.slider_steps \o [i \in 1..count |-> one]
  <2> HIDE DEF anchor
  <2> QED BY DEF TakeSliderSteps, EngineState, anchor
<1> HIDE DEF one, out, k
<1>3. NetOf(en, out, s) # 0
  BY <1>1, <1>2, StepsMove
<1>4. \A r \in Slots \ {s} : out.contact[r] = en.contact[r]
  BY <1>2 DEF EngineState
<1>5. TellsTap(en, out)
  BY <1>2, GesturesType DEF TellsTap, GoesOn
<1>6. Slides(en, out)
  BY <1>3, <1>4, <1>5 DEF Slides
<1> QED BY <1>6 DEF out

LEMMA EmitSlides ==
  ASSUME NEW en \in EngineState, NEW s \in Slots
  PROVE  Slides(en, EmitSliderStepsIfReady(en, s))
<1> DEFINE c == en.contact[s]
           position == SliderPosition(c.ownership, c)
           count == StepCount(Distance(c.slider_anchor, position),
                              en.cfg.sliders[c.ownership])
           anchored == [en EXCEPT !.contact[s].slider_anchor = position]
           taken == TakeSliderSteps(en, s, count)
<1> SUFFICES ASSUME IsClaimed(c), en.cfg.sliders[c.ownership] > 0
             PROVE  Slides(en, EmitSliderSteps(en, s))
  BY QuietItself, QuietSlides DEF EmitSliderStepsIfReady
<1>1. c \in Contact /\ c.ownership \in Zones
  BY EngineFields DEF IsClaimed
<1>2. count \in Nat
  BY <1>1, SliderPositionType, ConfigInForce, ContactFields, DistanceType,
     StepCountType
<1>3. ASSUME count # 0 PROVE Slides(en, FlushPendingTap(taken))
  <2> HIDE DEF count
  <2>1. Slides(en, taken) /\ taken \in EngineState
    BY <1>2, <1>3, TakeStepsSlides, TakeStepsType
  <2> HIDE DEF taken
  <2> QED BY <2>1, FlushQuiet, FlushType, SlidesThenQuiet
<1>4. Slides(en, anchored)
  <2> DEFINE k == [c EXCEPT !.slider_anchor = position]
  <2>1. \A d \in Contact : \A a : [d EXCEPT !.slider_anchor = a].contact_phase
                                = d.contact_phase
    BY DEF Contact
  <2>2. k.contact_phase = c.contact_phase
    BY <1>1, <2>1
  <2>3. anchored = [en EXCEPT !.contact[s] = k]
    BY DEF EngineState
  <2> HIDE DEF k, anchored
  <2> QED BY <2>2, <2>3, OneContactQuiet, QuietSlides
<1> HIDE DEF count, position
<1> QED
  BY <1>3, <1>4, QuietItself, QuietSlides DEF EmitSliderSteps, position, count

LEMMA DecideAndSlideSlides ==
  ASSUME NEW en \in EngineState, NEW s \in Slots
  PROVE  Slides(en, DecideAndSlide(en, s))
<1> DEFINE decided == DecideOwnershipIfReady(en, s)
<1>1. decided \in EngineState /\ Quiet(en, decided)
  BY DecideType, DecideQuiet
<1>2. DecideAndSlide(en, s) = EmitSliderStepsIfReady(decided, s)
  BY DEF DecideAndSlide
<1> HIDE DEF decided
<1> QED BY <1>1, <1>2, EmitSlides, EmitType, QuietThenSlides

LEMMA SettleSlides ==
  ASSUME NEW en \in EngineState
  PROVE  Slides(en, Settle(en))
<1>1. en.current_slot \in Slots
  BY DEF EngineState
<1> QED BY <1>1, QuietItself, QuietSlides, DecideAndSlideSlides DEF Settle

LEMMA FinalizeContactSlides ==
  ASSUME NEW en \in EngineState, NEW s \in Slots
  PROVE  Slides(en, FinalizeContact(en, s))
<1> DEFINE c == en.contact[s]
           x == OrElse(c.current_x, en.memory[s].x)
           y == OrElse(c.current_y, en.memory[s].y)
           placed == [c EXCEPT !.current_x = x, !.current_y = y,
                               !.start_x = OrElse(@, x), !.start_y = OrElse(@, y),
                               !.began_in_frame = FALSE]
           set == [en EXCEPT !.contact[s] = placed]
<1>1. set \in EngineState
  BY PlacedType
<1>2. placed.contact_phase = c.contact_phase
  BY EngineFields DEF Contact
<1>3. Quiet(en, set)
  <2> HIDE DEF placed
  <2> QED BY <1>2, OneContactQuiet
<1>4. FinalizeContact(en, s) = en \/ FinalizeContact(en, s) = DecideAndSlide(set, s)
  BY DEF FinalizeContact
<1> HIDE DEF set
<1> QED
  BY <1>1, <1>3, <1>4, QuietItself, QuietSlides, DecideAndSlideSlides,
     DecideAndSlideType, QuietThenSlides

\* What an event may do to fingers and reports, a lift apart.
Watches(en, out) ==
  /\ TellsTap(en, out)
  /\ \A s \in Slots :
       \/ out.contact[s].contact_phase \in {en.contact[s].contact_phase, "TapCandidate"}
       \/ NetOf(en, out, s) # 0
       \/ MovedFarEnough(en.cfg, out.contact[s])

LEMMA SlidesWatches ==
  ASSUME NEW en, NEW out, Slides(en, out)
  PROVE  Watches(en, out)
BY DEF Slides, Watches

\* An event places or begins a finger; what follows decides about it.
LEMMA SettledWatches ==
  ASSUME NEW a \in EngineState, NEW b \in EngineState, NEW c,
         Watches(a, b), b.slider_steps = a.slider_steps, b.cfg = a.cfg,
         \A s \in Slots : NetOf(a, b, s) = 0,
         Kept(b, c), Slides(b, c)
  PROVE  Watches(a, c)
<1>1. TellsTap(a, c) /\ c \in EngineState
  BY TellsOn, KeptType DEF Watches, Slides
<1>2. ASSUME NEW s \in Slots
      PROVE  \/ c.contact[s].contact_phase \in {a.contact[s].contact_phase, "TapCandidate"}
             \/ NetOf(a, c, s) # 0
             \/ MovedFarEnough(a.cfg, c.contact[s])
  <2>1. NetOf(a, c, s) = NetOf(b, c, s)
    BY DEF NetOf, StepsOf
  <2>2. SameFinger(b.contact[s], c.contact[s])
    BY DEF Kept, ContactKept
  <2>3. MovedFarEnough(a.cfg, b.contact[s]) => MovedFarEnough(a.cfg, c.contact[s])
    BY <2>2 DEF SameFinger, MovedFarEnough
  <2> QED BY <2>1, <2>3 DEF Watches, Slides
<1> QED BY <1>1, <1>2 DEF Watches

LEMMA NoSteps ==
  ASSUME NEW en \in EngineState, NEW out, out.slider_steps = en.slider_steps
  PROVE  \A s \in Slots : NetOf(en, out, s) = 0
<1>1. Len(en.slider_steps) \in Nat
  BY DEF EngineState
<1>2. \A s, directions : StepsOf(en, out, s, directions) = {}
  BY <1>1 DEF StepsOf
<1>3. Cardinality({}) = 0
  BY FS_EmptySet
<1> QED BY <1>2, <1>3 DEF NetOf

\* A contact of a slot is replaced, the reports stay.
LEMMA OneContactWatches ==
  ASSUME NEW en \in EngineState, NEW s \in Slots, NEW out,
         \A r \in Slots \ {s} : out.contact[r] = en.contact[r],
         out.gestures = en.gestures, out.pending_tap = en.pending_tap,
         \/ out.contact[s].contact_phase \in {en.contact[s].contact_phase, "TapCandidate"}
         \/ MovedFarEnough(en.cfg, out.contact[s])
  PROVE  Watches(en, out)
<1>1. TellsTap(en, out)
  BY GesturesType DEF TellsTap, GoesOn
<1> QED BY <1>1 DEF Watches

LEMMA PlaceWatches ==
  ASSUME NEW en \in EngineState, NEW s \in Slots, NEW v \in Int, NEW isX \in BOOLEAN
  PROVE  LET out == IF isX THEN PlaceX(en, s, v) ELSE PlaceY(en, s, v)
         IN Watches(en, out) /\ out.slider_steps = en.slider_steps
<1> DEFINE c == en.contact[s]
           m == IF isX THEN [c EXCEPT !.current_x = v, !.start_x = OrElse(@, v)]
                       ELSE [c EXCEPT !.current_y = v, !.start_y = OrElse(@, v)]
           out == IF isX THEN PlaceX(en, s, v) ELSE PlaceY(en, s, v)
           d == IF IsActive(en, s) THEN ObservePosition(en.cfg, m) ELSE c
<1>1. m \in Contact /\ m.contact_phase = c.contact_phase
  <2>1. m \in Contact
    BY MovedType
  <2>2. \A k \in Contact : \A p, q :
          /\ [k EXCEPT !.current_x = p, !.start_x = q].contact_phase = k.contact_phase
          /\ [k EXCEPT !.current_y = p, !.start_y = q].contact_phase = k.contact_phase
    BY DEF Contact
  <2>3. m = IF isX THEN [c EXCEPT !.current_x = v, !.start_x = OrElse(c.start_x, v)]
                   ELSE [c EXCEPT !.current_y = v, !.start_y = OrElse(c.start_y, v)]
    OBVIOUS
  <2> QED BY <2>1, <2>2, <2>3, EngineFields
<1>2. /\ out.contact[s] = d /\ \A r \in Slots \ {s} : out.contact[r] = en.contact[r]
      /\ out.gestures = en.gestures /\ out.pending_tap = en.pending_tap
      /\ out.slider_steps = en.slider_steps
  <2>1. CASE isX
    <3> HIDE DEF d
    <3>1. out = [en EXCEPT !.memory[s].x = v, !.contact[s] = d]
      BY <2>1 DEF PlaceX, d
    <3>2. out.contact = [en.contact EXCEPT ![s] = d]
      BY <3>1 DEF EngineState
    <3>3. /\ out.gestures = en.gestures /\ out.pending_tap = en.pending_tap
          /\ out.slider_steps = en.slider_steps
      BY <3>1 DEF EngineState
    <3>4. en.contact \in [Slots -> Contact]
      BY DEF EngineState
    <3> HIDE DEF out
    <3> QED BY <3>2, <3>3, <3>4
  <2>2. CASE ~isX
    <3> HIDE DEF d
    <3>1. out = [en EXCEPT !.memory[s].y = v, !.contact[s] = d]
      BY <2>2 DEF PlaceY, d
    <3>2. out.contact = [en.contact EXCEPT ![s] = d]
      BY <3>1 DEF EngineState
    <3>3. /\ out.gestures = en.gestures /\ out.pending_tap = en.pending_tap
          /\ out.slider_steps = en.slider_steps
      BY <3>1 DEF EngineState
    <3>4. en.contact \in [Slots -> Contact]
      BY DEF EngineState
    <3> HIDE DEF out
    <3> QED BY <3>2, <3>3, <3>4
  <2> QED BY <2>1, <2>2
<1>3. d.contact_phase = c.contact_phase \/ MovedFarEnough(en.cfg, d)
  <2>1. ASSUME NEW k \in Contact
        PROVE  LET o == ObservePosition(en.cfg, k)
               IN o.contact_phase = k.contact_phase \/ MovedFarEnough(en.cfg, o)
    <3>1. LET o == [k EXCEPT !.contact_phase = "Motion"]
          IN /\ o.start_x = k.start_x /\ o.start_y = k.start_y
             /\ o.current_x = k.current_x /\ o.current_y = k.current_y
      BY DEF Contact
    <3> QED BY <3>1 DEF ObservePosition, MovedFarEnough
  <2> HIDE DEF m
  <2> QED BY <1>1, <2>1
<1> HIDE DEF d, out
<1>4. Watches(en, out) /\ out.slider_steps = en.slider_steps
  BY <1>2, <1>3, OneContactWatches
<1> QED BY <1>4 DEF out

LEMMA BeginWatches ==
  ASSUME NEW en \in EngineState, NEW s \in Slots, NEW id \in TrackingIds,
         scan.contacts[s][id] \in FrameTool, stamp \in Int
  PROVE  LET out == BeginContact(en, s, id)
         IN /\ Watches(en, out) /\ out.slider_steps = en.slider_steps
            /\ out.contact[s].contact_phase = "TapCandidate"
<1> DEFINE tool == scan.contacts[s][id]
           another == \E r \in Slots :
                        IsActive(en, r) /\ ~en.contact[r].gesture_rejected
           new == NewContact(id, stamp, ~another /\ ~IsPalm(tool))
           c == IF IsPalm(tool) THEN RejectGestures(new) ELSE new
           begun == [en EXCEPT
                       !.contact[s] = c,
                       !.held_events[s] = Append(@, TrackingIdEvent(id)),
                       !.memory[s].tool_type = tool.tool_type]
           out == BeginContact(en, s, id)
<1>1. begun \in EngineState
  <2> HIDE DEF another
  <2> QED BY BegunType
<1>2. c.contact_phase = "TapCandidate"
  BY DEF NewContact, RejectGestures
<1> HIDE DEF c
<1>3. /\ begun.contact[s] = c
      /\ \A r \in Slots \ {s} : begun.contact[r] = en.contact[r]
      /\ begun.gestures = en.gestures /\ begun.pending_tap = en.pending_tap
      /\ begun.slider_steps = en.slider_steps
  BY DEF EngineState
<1>4. out = begun \/ out = InterruptTapSequence(begun)
  BY DEF BeginContact, c, InterruptTapSequence
<1> HIDE DEF begun, out
<1>5. Watches(en, begun)
  BY <1>2, <1>3, OneContactWatches
<1>6. Quiet(begun, out) /\ out \in EngineState
  BY <1>1, <1>4, InterruptQuiet, InterruptType, QuietItself
<1>7. Watches(en, out)
  <2>1. TellsTap(en, out)
    BY <1>1, <1>5, <1>6, TellsOn DEF Watches, Quiet
  <2>2. ASSUME NEW r \in Slots
        PROVE  out.contact[r].contact_phase
                 \in {en.contact[r].contact_phase, "TapCandidate"}
    BY <1>2, <1>3, <1>6 DEF Quiet, SamePhases
  <2> QED BY <2>1, <2>2 DEF Watches
<1>8. /\ Watches(en, out) /\ out.slider_steps = en.slider_steps
      /\ out.contact[s].contact_phase = "TapCandidate"
  BY <1>2, <1>3, <1>6, <1>7 DEF Quiet, SamePhases
<1> QED BY <1>8 DEF out

-----------------------------------------------------------------------------
(* A lift.                                                                 *)

LEMMA PushGestureQuiet ==
  ASSUME NEW en \in EngineState, NEW g \in Gesture
  PROVE  LET out == PushGesture(en, g)
         IN Quiet(en, out) /\ g \in Reported(en, out)
<1> DEFINE out == PushGesture(en, g)
<1>1. /\ out.gestures = Append(en.gestures, g) /\ out.contact = en.contact
      /\ out.pending_tap = en.pending_tap
      /\ out.slider_steps = en.slider_steps
  BY DEF PushGesture, EngineState
<1> HIDE DEF out
<1>2. GoesOn(en, out) /\ g \in Reported(en, out)
  BY <1>1, AppendReported
<1>3. Quiet(en, out) /\ g \in Reported(en, out)
  BY <1>1, <1>2, SamePhasesOf DEF Quiet, TellsTap
<1> QED BY <1>3 DEF out

LEMMA FlushPushQuiet ==
  ASSUME NEW en \in EngineState, NEW g \in Gesture
  PROVE  LET out == PushGesture(FlushPendingTap(en), g)
         IN Quiet(en, out) /\ g \in Reported(en, out)
<1> DEFINE flushed == FlushPendingTap(en)
           out == PushGesture(flushed, g)
<1>1. flushed \in EngineState /\ Quiet(en, flushed)
  BY FlushType, FlushQuiet
<1> HIDE DEF flushed
<1>2. out \in EngineState /\ Quiet(flushed, out) /\ g \in Reported(flushed, out)
  BY <1>1, PushGestureType, PushGestureQuiet
<1> HIDE DEF out
<1>3. Quiet(en, out) /\ Reported(flushed, out) \subseteq Reported(en, out)
  BY <1>1, <1>2, QuietOn, ReportedMore DEF Quiet, TellsTap
<1> QED BY <1>2, <1>3 DEF out, flushed

\* What a lift may make of tap g: it completes a double tap, it is reported (or
\* of no interest) with the pending tap told, or it is the new pending tap.
Hears(en, out, g, tap) ==
  \/ /\ out.pending_tap = NoTap
     /\ \E d \in Reported(en, out) : d.direction = "DoubleTap"
  \/ /\ TellsTap(en, out)
     /\ tap => g \in Reported(en, out) \/ g.zone \notin en.cfg.single_tap_zones
  \/ /\ IsTold(en, out)
     /\ HasPendingTap(out) /\ out.pending_tap.gesture = g
     /\ out.pending_tap.emit_single <=> g.zone \in en.cfg.single_tap_zones

SameRest(en, out) ==
  out.slider_steps = en.slider_steps /\ SamePhases(en, out)

LEMMA QuietHears ==
  ASSUME NEW en, NEW out, Quiet(en, out), NEW g, NEW tap,
         tap => g \in Reported(en, out) \/ g.zone \notin en.cfg.single_tap_zones
  PROVE  SameRest(en, out) /\ Hears(en, out, g, tap)
BY DEF Quiet, SameRest, Hears

LEMMA HandleClassifiedHears ==
  ASSUME NEW en \in EngineState, NEW g \in Gesture, NEW c \in Contact,
         NEW t \in Int
  PROVE  LET out == HandleClassifiedGesture(en, g, c, t)
         IN SameRest(en, out) /\ Hears(en, out, g, g.direction = "Tap")
<1> DEFINE out == HandleClassifiedGesture(en, g, c, t)
           flushed == FlushPendingTap(en)
           ended == [en EXCEPT !.pending_tap = NoTap]
           double == [g EXCEPT !.direction = "DoubleTap"]
           goal(o) == SameRest(en, o) /\ Hears(en, o, g, g.direction = "Tap")
           x == OrElse(c.current_x, c.start_x)
           y == OrElse(c.current_y, c.start_y)
           single == g.zone \in en.cfg.single_tap_zones
           p == [gesture |-> g, released_at |-> t, x |-> x, y |-> y,
                 emit_single |-> single]
           waiting == [flushed EXCEPT !.pending_tap = p]
<1>1. goal(PushGesture(flushed, g))
  BY FlushPushQuiet, QuietHears
<1>2. goal(PushGesture(en, g))
  BY PushGestureQuiet, QuietHears
<1>3. ASSUME ~single PROVE goal(flushed)
  BY <1>3, FlushQuiet, QuietHears
<1>4. goal(PushGesture(ended, double))
  <2> DEFINE o == PushGesture(ended, double)
  <2>1. double \in Gesture /\ double.direction = "DoubleTap"
    BY DEF Gesture
  <2>2. /\ o.gestures = Append(en.gestures, double) /\ o.contact = en.contact
        /\ o.pending_tap = NoTap /\ o.slider_steps = en.slider_steps
    <3> HIDE DEF double
    <3> QED BY DEF PushGesture, EngineState
  <2> HIDE DEF o, double
  <2>3. double \in Reported(en, o)
    BY <2>1, <2>2, AppendReported
  <2>4. goal(o)
    BY <2>1, <2>2, <2>3, SamePhasesOf DEF SameRest, Hears
  <2> QED BY <2>4 DEF o
<1>5. ASSUME t # None PROVE goal(waiting)
  <2>1. /\ flushed \in EngineState /\ Quiet(en, flushed) /\ IsTold(en, flushed)
    BY FlushType, FlushQuiet
  <2> HIDE DEF flushed
  <2>2. /\ waiting.gestures = flushed.gestures /\ waiting.contact = flushed.contact
        /\ waiting.pending_tap = p /\ waiting.slider_steps = flushed.slider_steps
    <3> HIDE DEF p
    <3> QED BY <2>1 DEF EngineState
  <2>3. /\ p.gesture = g /\ p.released_at # None
        /\ p.emit_single <=> g.zone \in en.cfg.single_tap_zones
    BY <1>5
  <2> HIDE DEF waiting, p
  <2>4. IsTold(en, waiting)
    BY <2>1, <2>2 DEF IsTold, Reported
  <2>5. SameRest(en, waiting)
    BY <2>1, <2>2 DEF Quiet, SamePhases, SameRest
  <2> QED BY <2>2, <2>3, <2>4, <2>5 DEF Hears, HasPendingTap
<1>6. \/ out = PushGesture(flushed, g) \/ out = PushGesture(en, g)
      \/ out = PushGesture(ended, double)
      \/ ~single /\ out = flushed
      \/ t # None /\ out = waiting
  BY DEF HandleClassifiedGesture
<1> HIDE DEF out, flushed, ended, double, waiting, goal, single
<1>7. goal(out)
  BY <1>1, <1>2, <1>3, <1>4, <1>5, <1>6
<1> QED BY <1>7 DEF goal, out

LEMMA ReleaseClaimedHears ==
  ASSUME NEW en \in EngineState, NEW s \in Slots, NEW c \in Contact,
         IsClaimed(c), NEW t \in Int
  PROVE  LET out == ReleaseClaimed(en, s, c, t)
             g == [zone |-> c.ownership, direction |-> "Tap", slot |-> s,
                   tracking_id |-> c.tracking_id]
         IN /\ SameRest(en, out)
            /\ Hears(en, out, g, ClassifyGesture(en.cfg, c, t) = "Tap")
<1> DEFINE direction == ClassifyGesture(en.cfg, c, t)
           g == [zone |-> c.ownership, direction |-> direction, slot |-> s,
                 tracking_id |-> c.tracking_id]
           tap == [zone |-> c.ownership, direction |-> "Tap", slot |-> s,
                   tracking_id |-> c.tracking_id]
           out == ReleaseClaimed(en, s, c, t)
           handled == HandleClassifiedGesture(en, g, c, t)
<1>1. ASSUME direction # "Tap", out = en \/ out = FlushPendingTap(en)
      PROVE  SameRest(en, out) /\ Hears(en, out, tap, direction = "Tap")
  BY <1>1, QuietItself, FlushQuiet, QuietHears
<1>2. ASSUME direction # "None", out = handled
      PROVE  SameRest(en, out) /\ Hears(en, out, tap, direction = "Tap")
  <2>1. direction \in Directions \cup {"Tap", "DoubleTap"}
    BY <1>2, DirectionType
  <2>2. c.ownership \in Zones /\ c.tracking_id \in Int /\ s \in Int
    BY ContactFields, SlotsAssumption DEF IsClaimed, Slots
  <2>3. /\ g.direction = direction /\ g.zone = tap.zone
        /\ direction = "Tap" => g = tap
    OBVIOUS
  <2>4. g \in Gesture
    <3> HIDE DEF direction
    <3> QED BY <2>1, <2>2 DEF Gesture
  <2> HIDE DEF direction, g, tap, out
  <2>5. SameRest(en, out) /\ Hears(en, out, g, g.direction = "Tap")
    BY <1>2, <2>4, HandleClassifiedHears
  <2>6. CASE direction = "Tap"
    BY <2>3, <2>5, <2>6
  <2>7. CASE direction # "Tap"
    <3>1. out = PushGesture(FlushPendingTap(en), g)
      BY <1>2, <2>3, <2>7 DEF HandleClassifiedGesture
    <3> QED BY <2>4, <2>7, <3>1, FlushPushQuiet, QuietHears
  <2> QED BY <2>6, <2>7
<1>3. \/ direction # "Tap" /\ (out = en \/ out = FlushPendingTap(en))
      \/ direction # "None" /\ out = handled
  BY DEF ReleaseClaimed
<1> HIDE DEF direction, handled, out, tap
<1>4. SameRest(en, out) /\ Hears(en, out, tap, direction = "Tap")
  BY <1>1, <1>2, <1>3
<1> QED BY <1>4 DEF direction, tap, out

LEMMA ReleaseHears ==
  ASSUME NEW en \in EngineState, NEW event \in Event, NEW t \in Int
  PROVE  LET out == ReleaseCurrentSlot(en, event, t)
             s == en.current_slot
             c == en.contact[s]
             g == [zone |-> c.ownership, direction |-> "Tap", slot |-> s,
                   tracking_id |-> c.tracking_id]
             tap == /\ IsActive(en, s) /\ IsClaimed(c) /\ ~c.gesture_rejected
                    /\ ClassifyGesture(en.cfg, c, t) = "Tap"
         IN /\ out.slider_steps = en.slider_steps
            /\ \A r \in Slots : out.contact[r].contact_phase
                                  \in {en.contact[r].contact_phase, "TapCandidate"}
            /\ Hears(en, out, g, tap)
<1> DEFINE out == ReleaseCurrentSlot(en, event, t)
           s == en.current_slot
           c == en.contact[s]
           g == [zone |-> c.ownership, direction |-> "Tap", slot |-> s,
                 tracking_id |-> c.tracking_id]
           isTap == ClassifyGesture(en.cfg, c, t) = "Tap"
           tap == IsActive(en, s) /\ IsClaimed(c) /\ ~c.gesture_rejected /\ isTap
           lifted == [en EXCEPT !.contact[s] = NoContact, !.held_events[s] = <<>>]
           goal(o) == /\ o.slider_steps = en.slider_steps
                      /\ \A r \in Slots :
                           o.contact[r].contact_phase
                             \in {en.contact[r].contact_phase, "TapCandidate"}
                      /\ Hears(en, o, g, tap)
<1>1. s \in Slots /\ c \in Contact /\ <<event>> \in Seq(Event)
  <2>1. s \in Slots
    BY DEF EngineState
  <2> QED BY <2>1, EngineFields
<1>2. CASE ~IsActive(en, s)
  <2>1. out = [en EXCEPT !.held_events[s] = Append(en.held_events[s], event)]
    BY <1>2 DEF ReleaseCurrentSlot
  <2>2. Quiet(en, out)
    <3> HIDE DEF out, s
    <3> QED BY <1>1, <2>1, HoldQuiet
  <2>3. ~tap
    BY <1>2
  <2> HIDE DEF out, tap, g
  <2>4. goal(out)
    BY <2>2, <2>3, QuietHears DEF SameRest, SamePhases
  <2> QED BY <2>4 DEF out, tap, g
<1>3. /\ lifted \in EngineState /\ lifted.cfg = en.cfg
      /\ lifted.gestures = en.gestures
      /\ lifted.pending_tap = en.pending_tap
      /\ lifted.slider_steps = en.slider_steps
      /\ \A r \in Slots : lifted.contact[r].contact_phase
                            \in {en.contact[r].contact_phase, "TapCandidate"}
  <2>1. lifted \in EngineState
    BY <1>1, LiftedType
  <2>2. NoContact.contact_phase = "TapCandidate"
    BY DEF NoContact, NewContact
  <2>3. /\ lifted.gestures = en.gestures /\ lifted.cfg = en.cfg
        /\ lifted.pending_tap = en.pending_tap
        /\ lifted.slider_steps = en.slider_steps
        /\ lifted.contact[s] = NoContact
        /\ \A r \in Slots \ {s} : lifted.contact[r] = en.contact[r]
    BY DEF EngineState
  <2> HIDE DEF lifted
  <2> QED BY <2>1, <2>2, <2>3
<1> HIDE DEF lifted
\* The engine without the contact tells what the engine with it does.
<1>4. ASSUME NEW o, NEW k, NEW j, Hears(lifted, o, k, j)
      PROVE  Hears(en, o, k, j)
  BY <1>3, <1>4 DEF Hears, TellsTap, GoesOn, IsTold, Reported, HasPendingTap
<1>5. ASSUME NEW o, SameRest(lifted, o), Hears(lifted, o, g, tap)
      PROVE  goal(o)
  <2> HIDE DEF g, tap
  <2>1. Hears(en, o, g, tap)
    BY <1>4, <1>5
  <2> QED BY <1>3, <1>5, <2>1 DEF SameRest, SamePhases
<1>6. CASE IsActive(en, s) /\ c.ownership = "Passthrough"
  <2>1. out = PushPassthrough(lifted, s, <<event>>)
    BY <1>6 DEF ReleaseCurrentSlot, lifted
  <2>2. Quiet(lifted, out)
    <3> HIDE DEF out, s
    <3> QED BY <1>1, <1>3, <2>1, PushPassthroughQuiet
  <2>3. ~tap
    BY <1>6 DEF IsClaimed, Zones
  <2> HIDE DEF out, tap, g, goal
  <2>4. goal(out)
    BY <1>5, <2>2, <2>3, QuietHears
  <2> QED BY <2>4 DEF out, tap, g, goal
<1>7. CASE IsActive(en, s) /\ c.ownership # "Passthrough"
           /\ ~(IsClaimed(c) /\ ~c.gesture_rejected)
  <2>1. out = lifted
    BY <1>7 DEF ReleaseCurrentSlot, lifted
  <2>2. ~tap
    BY <1>7
  <2> HIDE DEF out, tap, g, goal
  <2>3. goal(out)
    BY <1>3, <1>5, <2>1, <2>2, QuietItself, QuietHears
  <2> QED BY <2>3 DEF out, tap, g, goal
<1>8. CASE IsActive(en, s) /\ IsClaimed(c) /\ ~c.gesture_rejected
  <2>1. c.ownership # "Passthrough"
    BY <1>8 DEF IsClaimed, Zones
  <2>2. out = ReleaseClaimed(lifted, s, c, t)
    BY <1>8, <2>1 DEF ReleaseCurrentSlot, lifted
  <2>3. tap <=> ClassifyGesture(lifted.cfg, c, t) = "Tap"
    BY <1>3, <1>8
  <2>4. SameRest(lifted, out) /\ Hears(lifted, out, g, ClassifyGesture(lifted.cfg, c, t) = "Tap")
    BY <1>1, <1>3, <1>8, <2>2, ReleaseClaimedHears
  <2> HIDE DEF out, tap, g, goal
  <2>5. Hears(lifted, out, g, tap)
    BY <2>3, <2>4 DEF Hears
  <2>6. goal(out)
    BY <1>5, <2>4, <2>5
  <2> QED BY <2>6 DEF out, tap, g, goal
<1> QED BY <1>2, <1>6, <1>7, <1>8

\* A free slot has nothing to decide.
LEMMA FreeSlotSettles ==
  ASSUME NEW en, ~IsActive(en, en.current_slot)
  PROVE  Settle(en) = en
BY DEF Settle, DecideAndSlide, DecideOwnershipIfReady, EmitSliderStepsIfReady

\* A finger that neither moved nor slid is classified by its time alone.
LEMMA TapIsClassified ==
  ASSUME NEW cfg \in ConfigType, NEW c \in Contact, NEW t \in Int,
         IsPlaced(c), ~c.gesture_rejected, c.contact_phase = "TapCandidate",
         ~MovedFarEnough(cfg, c), TapDurationIsValid(cfg, c.started_at, t)
  PROVE  ClassifyGesture(cfg, c, t) = "Tap"
<1> DEFINE dx == OrElse(c.current_x, c.start_x) - c.start_x
           dy == OrElse(c.current_y, c.start_y) - c.start_y
           far == cfg.swipe_min_distance
<1>1. /\ c.start_x \in Int /\ c.start_y \in Int
      /\ c.current_x \in Int /\ c.current_y \in Int
      /\ far \in Nat /\ far > 0
  BY ContactFields DEF ConfigType
<1>2. Distance(0, dx) < far
  BY <1>1 DEF MovedFarEnough, IsPlaced, Distance, OrElse
<1>3. Distance(0, dy) < far
  BY <1>1 DEF MovedFarEnough, IsPlaced, Distance, OrElse
<1>4. DirectionForDisplacement(cfg, dx, dy) = "None"
  BY <1>2, <1>3 DEF DirectionForDisplacement
<1> HIDE DEF dx, dy
<1> QED BY <1>4 DEF ClassifyGesture, IsPlaced, dx, dy

-----------------------------------------------------------------------------
(* A slider keeps what is less than a step.                                *)

\* A contact is undecided only within the frame it began in.
IsDecided(c) ==
  c.tracking_id # None /\ ~c.began_in_frame => c.ownership # "Unknown"

\* The anchor of a claimed finger is the reported steps away from its start.
Counted(cfg, c, n) ==
  LET start == IF IsVertical(c.ownership) THEN c.start_y ELSE c.start_x
  IN IsClaimed(c) /\ ~c.gesture_rejected /\ cfg.sliders[c.ownership] > 0 =>
       /\ c.slider_anchor >= 0
       /\ c.slider_anchor = start + n * cfg.sliders[c.ownership]

\* The finger is less than a step away from the anchor.
Near(cfg, c) ==
  IsClaimed(c) /\ ~c.gesture_rejected /\ cfg.sliders[c.ownership] > 0 =>
    Distance(c.slider_anchor, SliderPosition(c.ownership, c))
      < cfg.sliders[c.ownership]

\* A finger that began in this frame is decided at its end.
Undecided(c) == c.began_in_frame => c.ownership = "Unknown"

\* Nothing became of a slider: its owner and its anchor are what they were.
Anchored(c, d) ==
  /\ IsClaimed(d) /\ ~d.gesture_rejected =>
       /\ ~c.gesture_rejected /\ d.tracking_id = c.tracking_id
       /\ d.ownership = c.ownership /\ d.slider_anchor = c.slider_anchor
  /\ (Undecided(c) => Undecided(d)) /\ (IsDecided(c) => IsDecided(d))

Rests(en, out) ==
  /\ out.slider_steps = en.slider_steps
  /\ \A s \in Slots : Anchored(en.contact[s], out.contact[s])

LEMMA RestsItself ==
  ASSUME NEW en
  PROVE  Rests(en, en)
BY DEF Rests, Anchored, Undecided, IsDecided

LEMMA RestsOn ==
  ASSUME NEW a, NEW b, NEW c, Rests(a, b), Rests(b, c)
  PROVE  Rests(a, c)
BY DEF Rests, Anchored, IsClaimed, Undecided, IsDecided

\* A finger at rest goes on as before, wherever it is.
LEMMA AnchoredCounts ==
  ASSUME NEW cfg, NEW c, NEW d, NEW n, Anchored(c, d), Counted(cfg, c, n),
         d.start_x = c.start_x, d.start_y = c.start_y
  PROVE  Counted(cfg, d, n)
BY DEF Anchored, Undecided, IsDecided, Counted, IsClaimed

LEMMA AnchoredIsNear ==
  ASSUME NEW cfg, NEW c, NEW d, Anchored(c, d), Near(cfg, c),
         d.current_x = c.current_x, d.current_y = c.current_y
  PROVE  Near(cfg, d)
BY DEF Anchored, Undecided, IsDecided, Near, IsClaimed, SliderPosition

LEMMA SameContactsRest ==
  ASSUME NEW en, NEW out, out.slider_steps = en.slider_steps,
         out.contact = en.contact
  PROVE  Rests(en, out)
BY DEF Rests, Anchored, Undecided, IsDecided

\* One contact changes.
LEMMA OneContactRests ==
  ASSUME NEW en \in EngineState, NEW s \in Slots, NEW c, Anchored(en.contact[s], c),
         NEW out, out.slider_steps = en.slider_steps,
         out.contact = [en.contact EXCEPT ![s] = c]
  PROVE  Rests(en, out)
<1>1. \A r \in Slots : out.contact[r] = IF r = s THEN c ELSE en.contact[r]
  BY DEF EngineState
<1>2. ASSUME NEW r \in Slots PROVE Anchored(en.contact[r], out.contact[r])
  <2>1. CASE r = s
    BY <1>1, <2>1
  <2>2. CASE r # s
    BY <1>1, <2>2 DEF Anchored, Undecided, IsDecided
  <2> QED BY <2>1, <2>2
<1> QED BY <1>2 DEF Rests

LEMMA FlushRests ==
  ASSUME NEW en \in EngineState
  PROVE  Rests(en, FlushPendingTap(en))
<1> DEFINE out == FlushPendingTap(en)
           k(c) == [c EXCEPT !.tap_sequence_match = FALSE]
<1>1. /\ out.slider_steps = en.slider_steps
      /\ out.contact = [s \in Slots |-> k(en.contact[s])]
  BY DEF FlushPendingTap, EngineState
<1>2. \A c \in Contact : Anchored(c, k(c))
  BY DEF Contact, Anchored, Undecided, IsDecided
<1> HIDE DEF out, k
<1>3. \A s \in Slots : Anchored(en.contact[s], out.contact[s])
  BY <1>1, <1>2, EngineFields
<1>4. Rests(en, out)
  BY <1>1, <1>3 DEF Rests
<1> QED BY <1>4 DEF out

LEMMA WithoutPairingRests ==
  ASSUME NEW en \in EngineState
  PROVE  Rests(en, WithoutPairing(en))
<1> DEFINE out == WithoutPairing(en)
           k(c) == [c EXCEPT !.tap_sequence_eligible = FALSE,
                             !.tap_sequence_match = FALSE]
<1>1. /\ out.slider_steps = en.slider_steps
      /\ out.contact = [s \in Slots |-> k(en.contact[s])]
  BY DEF WithoutPairing, EngineState
<1>2. \A c \in Contact : Anchored(c, k(c))
  BY DEF Contact, Anchored, Undecided, IsDecided
<1> HIDE DEF out, k
<1>3. \A s \in Slots : Anchored(en.contact[s], out.contact[s])
  BY <1>1, <1>2, EngineFields
<1>4. Rests(en, out)
  BY <1>1, <1>3 DEF Rests
<1> QED BY <1>4 DEF out

LEMMA PromoteRests ==
  ASSUME NEW en \in EngineState
  PROVE  Rests(en, PromoteClaimedContacts(en))
<1> DEFINE out == PromoteClaimedContacts(en)
           k(c) == [c EXCEPT !.ownership = "Passthrough", !.slider_anchor = None]
<1>1. /\ out.slider_steps = en.slider_steps
      /\ out.contact = [s \in Slots |-> IF CanPromote(en, s) THEN k(en.contact[s])
                                                            ELSE en.contact[s]]
  BY DEF PromoteClaimedContacts, EngineState
<1>2. \A c \in Contact : (IsClaimed(c) => Anchored(c, k(c))) /\ Anchored(c, c)
  <2>1. \A c \in Contact : /\ k(c).ownership = "Passthrough"
                           /\ k(c).began_in_frame = c.began_in_frame
    BY DEF Contact
  <2> QED BY <2>1 DEF Anchored, IsClaimed, Undecided, IsDecided, Zones
<1> HIDE DEF out, k
<1>3. \A s \in Slots : Anchored(en.contact[s], out.contact[s])
  BY <1>1, <1>2, EngineFields DEF CanPromote
<1>4. Rests(en, out)
  BY <1>1, <1>3 DEF Rests
<1> QED BY <1>4 DEF out

LEMMA RejectPalmsRests ==
  ASSUME NEW en \in EngineState
  PROVE  Rests(en, RejectPalms(en))
<1> DEFINE out == RejectPalms(en)
<1>1. /\ out.slider_steps = en.slider_steps
      /\ \A s \in Slots : \/ out.contact[s] = en.contact[s]
                          \/ out.contact[s] = RejectGestures(en.contact[s])
  BY DEF RejectPalms, EngineState
<1>2. \A c \in Contact : Anchored(c, RejectGestures(c)) /\ Anchored(c, c)
  BY DEF Contact, RejectGestures, Anchored, Undecided, IsDecided
<1> HIDE DEF out
<1>3. \A s \in Slots : Anchored(en.contact[s], out.contact[s])
  BY <1>1, <1>2, EngineFields
<1>4. Rests(en, out)
  BY <1>1, <1>3 DEF Rests
<1> QED BY <1>4 DEF out

LEMMA InterruptRests ==
  ASSUME NEW en \in EngineState
  PROVE  Rests(en, InterruptTapSequence(en))
BY WithoutPairingRests, WithoutPairingType, FlushRests, RestsOn DEF InterruptTapSequence

LEMMA ExpireRests ==
  ASSUME NEW en \in EngineState, NEW t
  PROVE  Rests(en, ExpirePendingTap(en, t))
BY FlushRests, RestsItself DEF ExpirePendingTap

LEMMA EndSpoiledRests ==
  ASSUME NEW en \in EngineState, NEW s \in Slots
  PROVE  Rests(en, EndSpoiledPair(en, s))
BY FlushRests, RestsItself DEF EndSpoiledPair

LEMMA PushPassthroughRests ==
  ASSUME NEW en \in EngineState, NEW s \in Slots, NEW events \in Seq(Event)
  PROVE  Rests(en, PushPassthrough(en, s, events))
<1>1. PushPassthrough(en, s, events).contact = en.contact
      /\ PushPassthrough(en, s, events).slider_steps = en.slider_steps
  BY DEF PushPassthrough, EngineState
<1> QED BY <1>1, SameContactsRest

LEMMA RouteEventRests ==
  ASSUME NEW en \in EngineState, NEW event \in Event
  PROVE  Rests(en, RouteEvent(en, event))
<1>1. en.current_slot \in Slots /\ <<event>> \in Seq(Event)
  BY DEF EngineState
<1>2. \A s \in Slots : \A x : LET out == [en EXCEPT !.held_events[s] = x]
                          IN out.contact = en.contact /\ out.slider_steps = en.slider_steps
  BY DEF EngineState
<1>3. \A s \in Slots : \A x : Rests(en, [en EXCEPT !.held_events[s] = x])
  <2> TAKE s \in Slots
  <2> TAKE x
  <2> DEFINE out == [en EXCEPT !.held_events[s] = x]
  <2>1. out.contact = en.contact /\ out.slider_steps = en.slider_steps
    BY <1>2
  <2> HIDE DEF out
  <2>2. Rests(en, out)
    BY <2>1, SameContactsRest
  <2> QED BY <2>2 DEF out
<1>4. Rests(en, [en EXCEPT !.held_events[en.current_slot] = Append(@, event)])
  BY <1>1, <1>3
<1> QED BY <1>1, <1>4, PushPassthroughRests, RestsItself DEF RouteEvent

LEMMA PushGestureRests ==
  ASSUME NEW en \in EngineState, NEW g
  PROVE  Rests(en, PushGesture(en, g))
<1>1. PushGesture(en, g).contact = en.contact
      /\ PushGesture(en, g).slider_steps = en.slider_steps
  BY DEF PushGesture, EngineState
<1> QED BY <1>1, SameContactsRest

LEMMA PressButtonsRests ==
  ASSUME NEW en \in EngineState, NEW codes \in SUBSET Buttons
  PROVE  Rests(en, PressButtons(en, codes))
<1> DEFINE interrupted == InterruptTapSequence(en)
           held == interrupted.pressed \cup codes
           pressed == [interrupted EXCEPT !.pressed = held]
<1>1. interrupted \in EngineState /\ Rests(en, interrupted)
  BY InterruptType, InterruptRests
<1> HIDE DEF interrupted
<1>2. pressed \in EngineState /\ Rests(interrupted, pressed)
  <2>1. /\ pressed.slider_steps = interrupted.slider_steps
        /\ pressed.contact = interrupted.contact
    BY <1>1 DEF EngineState
  <2>2. held \in SUBSET Buttons
    BY <1>1 DEF EngineState
  <2>3. pressed \in EngineState
    <3> HIDE DEF held
    <3> QED BY <1>1, <2>2 DEF EngineState
  <2> HIDE DEF pressed
  <2> QED BY <2>1, <2>3, SameContactsRest
<1>3. Rests(en, PromoteClaimedContacts(pressed))
  <2> HIDE DEF pressed
  <2> QED BY <1>1, <1>2, PromoteRests, RestsOn
<1>4. \/ PressButtons(en, codes) = en
      \/ PressButtons(en, codes) = interrupted
      \/ PressButtons(en, codes) = PromoteClaimedContacts(pressed)
  BY DEF PressButtons, interrupted
<1> QED BY <1>1, <1>3, <1>4, RestsItself

LEMMA HandleClassifiedRests ==
  ASSUME NEW en \in EngineState, NEW g, NEW c, NEW t
  PROVE  Rests(en, HandleClassifiedGesture(en, g, c, t))
<1> DEFINE flushed == FlushPendingTap(en)
           out == HandleClassifiedGesture(en, g, c, t)
<1>1. flushed \in EngineState /\ Rests(en, flushed)
  BY FlushType, FlushRests
<1>2. \A p \in EngineState : \A q : Rests(p, [p EXCEPT !.pending_tap = q])
  <2> TAKE p \in EngineState
  <2> TAKE q
  <2> DEFINE o == [p EXCEPT !.pending_tap = q]
  <2>1. o.slider_steps = p.slider_steps /\ o.contact = p.contact
    BY DEF EngineState
  <2> HIDE DEF o
  <2>2. Rests(p, o)
    BY <2>1, SameContactsRest
  <2> QED BY <2>2 DEF o
<1>3. [en EXCEPT !.pending_tap = NoTap] \in EngineState
  BY NoTapType DEF EngineState
<1>4. \A d : Rests(en, PushGesture([en EXCEPT !.pending_tap = NoTap], d))
  <2> DEFINE ended == [en EXCEPT !.pending_tap = NoTap]
  <2>1. ended \in EngineState /\ Rests(en, ended)
    BY <1>2, <1>3
  <2> HIDE DEF ended
  <2>2. \A d : Rests(en, PushGesture(ended, d))
    BY <2>1, PushGestureRests, RestsOn
  <2> QED BY <2>2 DEF ended
<1>5. Rests(en, PushGesture(flushed, g))
  <2> HIDE DEF flushed
  <2> QED BY <1>1, PushGestureRests, RestsOn
<1>6. \A q : Rests(en, [flushed EXCEPT !.pending_tap = q])
  <2> HIDE DEF flushed
  <2> QED BY <1>1, <1>2, RestsOn
<1>7. Rests(en, PushGesture(en, g))
  BY PushGestureRests
<1> QED BY <1>1, <1>4, <1>5, <1>6, <1>7 DEF HandleClassifiedGesture

LEMMA ReleaseClaimedRests ==
  ASSUME NEW en \in EngineState, NEW s, NEW c, NEW t
  PROVE  Rests(en, ReleaseClaimed(en, s, c, t))
BY FlushRests, RestsItself, HandleClassifiedRests DEF ReleaseClaimed

LEMMA ReleaseRests ==
  ASSUME NEW en \in EngineState, NEW event \in Event, NEW t
  PROVE  Rests(en, ReleaseCurrentSlot(en, event, t))
<1> DEFINE s == en.current_slot
           c == en.contact[s]
           out == ReleaseCurrentSlot(en, event, t)
           lifted == [en EXCEPT !.contact[s] = NoContact, !.held_events[s] = <<>>]
           held == [en EXCEPT !.held_events[s] = Append(@, event)]
<1>1. s \in Slots /\ <<event>> \in Seq(Event)
  BY DEF EngineState
<1>2. lifted \in EngineState /\ Rests(en, lifted)
  <2>1. lifted \in EngineState
    BY <1>1, LiftedType
  <2>2. /\ lifted.slider_steps = en.slider_steps
        /\ lifted.contact = [en.contact EXCEPT ![s] = NoContact]
    BY DEF EngineState
  <2>3. Anchored(c, NoContact)
    BY DEF Anchored, IsClaimed, Undecided, IsDecided, Zones, NoContact, NewContact
  <2> HIDE DEF lifted
  <2> QED BY <1>1, <2>1, <2>2, <2>3, OneContactRests
<1>3. Rests(en, held)
  <2>1. held.contact = en.contact /\ held.slider_steps = en.slider_steps
    BY DEF EngineState
  <2> HIDE DEF held
  <2> QED BY <2>1, SameContactsRest
<1>4. \/ out = held
      \/ out = PushPassthrough(lifted, s, <<event>>)
      \/ out = ReleaseClaimed(lifted, s, c, t)
      \/ out = lifted
  BY DEF ReleaseCurrentSlot
<1> HIDE DEF held, lifted
<1>5. Rests(en, PushPassthrough(lifted, s, <<event>>))
  BY <1>1, <1>2, PushPassthroughRests, RestsOn
<1>6. Rests(en, ReleaseClaimed(lifted, s, c, t))
  BY <1>2, ReleaseClaimedRests, RestsOn
<1> QED BY <1>2, <1>3, <1>4, <1>5, <1>6

LEMMA PlaceRests ==
  ASSUME NEW en \in EngineState, NEW s \in Slots, NEW v \in Int, NEW isX \in BOOLEAN
  PROVE  Rests(en, IF isX THEN PlaceX(en, s, v) ELSE PlaceY(en, s, v))
<1> DEFINE c == en.contact[s]
           m == IF isX THEN [c EXCEPT !.current_x = v, !.start_x = OrElse(@, v)]
                       ELSE [c EXCEPT !.current_y = v, !.start_y = OrElse(@, v)]
           d == IF IsActive(en, s) THEN ObservePosition(en.cfg, m) ELSE c
           out == IF isX THEN PlaceX(en, s, v) ELSE PlaceY(en, s, v)
<1>1. c \in Contact
  BY EngineFields
<1>2. /\ out.slider_steps = en.slider_steps
      /\ out.contact = [en.contact EXCEPT ![s] = d]
  BY DEF PlaceX, PlaceY, EngineState
<1>3. m \in Contact /\ Anchored(c, m)
  <2>1. m \in Contact
    BY <1>1 DEF Contact, OrElse
  <2>2. /\ m.ownership = c.ownership /\ m.slider_anchor = c.slider_anchor
        /\ m.gesture_rejected = c.gesture_rejected
    BY <1>1 DEF Contact
  <2> QED BY <2>1, <2>2 DEF Anchored, Undecided, IsDecided
<1>4. Anchored(m, ObservePosition(en.cfg, m))
  <2> HIDE DEF m
  <2>1. \A k \in Contact : Anchored(k, ObservePosition(en.cfg, k))
    BY DEF Contact, ObservePosition, Anchored, Undecided, IsDecided
  <2> QED BY <1>3, <2>1
<1>5. Anchored(c, d)
  <2> HIDE DEF m
  <2> QED BY <1>3, <1>4 DEF Anchored, IsClaimed, Undecided, IsDecided
<1> HIDE DEF out, d
<1>6. Rests(en, out)
  BY <1>2, <1>5, OneContactRests
<1> QED BY <1>6 DEF out

LEMMA BeginRests ==
  ASSUME NEW en \in EngineState, NEW s \in Slots, NEW id \in TrackingIds,
         scan.contacts[s][id] \in FrameTool, stamp \in Int
  PROVE  Rests(en, BeginContact(en, s, id))
<1> DEFINE tool == scan.contacts[s][id]
           another == \E r \in Slots :
                        IsActive(en, r) /\ ~en.contact[r].gesture_rejected
           new == NewContact(id, stamp, ~another /\ ~IsPalm(tool))
           c == IF IsPalm(tool) THEN RejectGestures(new) ELSE new
           begun == [en EXCEPT
                       !.contact[s] = c,
                       !.held_events[s] = Append(@, TrackingIdEvent(id)),
                       !.memory[s].tool_type = tool.tool_type]
           out == BeginContact(en, s, id)
<1>1. begun \in EngineState
  <2> HIDE DEF another
  <2> QED BY BegunType
<1>2. Anchored(en.contact[s], c)
  <2>1. c.ownership = "Unknown" /\ c.began_in_frame
    BY DEF NewContact, RejectGestures
  <2> QED BY <2>1 DEF Anchored, IsClaimed, Undecided, IsDecided, Zones
<1> HIDE DEF c
<1>3. /\ begun.contact = [en.contact EXCEPT ![s] = c]
      /\ begun.slider_steps = en.slider_steps
  BY DEF EngineState
<1>4. out = begun \/ out = InterruptTapSequence(begun)
  BY DEF BeginContact, c, InterruptTapSequence
<1> HIDE DEF begun, out
<1>5. Rests(en, begun)
  BY <1>2, <1>3, OneContactRests
<1>6. Rests(en, out)
  BY <1>1, <1>4, <1>5, InterruptRests, RestsOn
<1> QED BY <1>6 DEF out

-----------------------------------------------------------------------------
(* What the slider reports of a movement, and what it keeps.               *)

LEMMA WholeSteps ==
  ASSUME NEW d \in Nat, NEW step \in Nat, step > 0
  PROVE  LET q == d \div step
         IN /\ q \in Nat /\ q * step \in Nat
            /\ q * step <= d /\ d < q * step + step
OBVIOUS

LEMMA MoreSteps ==
  ASSUME NEW n \in Int, NEW m \in Int, NEW step \in Nat
  PROVE  (n + m) * step = n * step + m * step
OBVIOUS

\* Steps of one slot in one direction count for that slot alone.
LEMMA StepsCount ==
  ASSUME NEW en \in EngineState, NEW out, NEW s, NEW count \in Nat, count > 0,
         NEW one, one.slot = s,
         out.slider_steps = en.slider_steps \o [i \in 1..count |-> one]
  PROVE  /\ one.direction \in {"Right", "Down"} => NetOf(en, out, s) = count
         /\ one.direction \in {"Left", "Up"} => NetOf(en, out, s) = 0 - count
<1> DEFINE n == Len(en.slider_steps)
           new == (n + 1)..(n + count)
<1>1. en.slider_steps \in Seq(SliderStep) /\ n \in Nat
  BY DEF EngineState
<1>2. Len(out.slider_steps) = n + count
  <2>1. [i \in 1..count |-> one] \in Seq({one}) /\ Len([i \in 1..count |-> one]) = count
    OBVIOUS
  <2> QED BY <1>1, <2>1
<1>3. \A i \in new : out.slider_steps[i] = one
  BY <1>1
<1>4. Cardinality(new) = count /\ Cardinality({}) = 0
  BY <1>1, StepsInRange, FS_EmptySet
<1>5. \A directions :
        StepsOf(en, out, s, directions) = {i \in new : one.direction \in directions}
  BY <1>2, <1>3 DEF StepsOf
<1> HIDE DEF new
<1>6. /\ \A directions : one.direction \in directions =>
             Cardinality(StepsOf(en, out, s, directions)) = count
      /\ \A directions : one.direction \notin directions =>
             Cardinality(StepsOf(en, out, s, directions)) = 0
  <2>1. ASSUME NEW directions, one.direction \in directions
        PROVE  StepsOf(en, out, s, directions) = new
    BY <1>5, <2>1
  <2>2. ASSUME NEW directions, one.direction \notin directions
        PROVE  StepsOf(en, out, s, directions) = {}
    BY <1>5, <2>2
  <2> QED BY <1>4, <2>1, <2>2
<1>7. /\ one.direction \in {"Right", "Down"} => one.direction \notin {"Left", "Up"}
      /\ one.direction \in {"Left", "Up"} => one.direction \notin {"Right", "Down"}
  OBVIOUS
<1>8. /\ one.direction \in {"Right", "Down"} => NetOf(en, out, s) = count
      /\ one.direction \in {"Left", "Up"} => NetOf(en, out, s) = 0 - count
  <2>1. count - 0 = count
    OBVIOUS
  <2> QED BY <1>6, <1>7, <2>1 DEF NetOf
<1> QED BY <1>8

LEMMA StepsElsewhere ==
  ASSUME NEW en \in EngineState, NEW out, NEW s, NEW count \in Nat,
         NEW one, one.slot = s,
         out.slider_steps = en.slider_steps \o [i \in 1..count |-> one],
         NEW r, r # s
  PROVE  NetOf(en, out, r) = 0
<1> DEFINE n == Len(en.slider_steps)
<1>1. en.slider_steps \in Seq(SliderStep) /\ n \in Nat
  BY DEF EngineState
<1>2. Len(out.slider_steps) = n + count
  <2>1. [i \in 1..count |-> one] \in Seq({one}) /\ Len([i \in 1..count |-> one]) = count
    OBVIOUS
  <2> QED BY <1>1, <2>1
<1>3. \A i \in (n + 1)..(n + count) : out.slider_steps[i] = one
  BY <1>1
<1>4. \A directions : StepsOf(en, out, r, directions) = {}
  BY <1>2, <1>3 DEF StepsOf
<1>5. Cardinality({}) = 0 /\ 0 - 0 = 0
  BY FS_EmptySet
<1> QED BY <1>4, <1>5 DEF NetOf

\* What one step less leaves of the way from the anchor to the finger.
LEMMA StepsLeave ==
  ASSUME NEW anchor \in Nat, NEW position \in Nat, NEW step \in Nat, step > 0
  PROVE  LET count == StepCount(Distance(anchor, position), step)
             forward == position >= anchor
             moved == IF forward THEN anchor + count * step
                                 ELSE anchor - count * step
         IN /\ count \in Nat /\ moved \in Nat
            /\ Distance(moved, position) < step
            /\ count = 0 => Distance(anchor, position) < step
<1> DEFINE d == Distance(anchor, position)
           count == StepCount(d, step)
           travel == count * step
           moved == IF position >= anchor THEN anchor + travel ELSE anchor - travel
<1>1. d \in Nat /\ d = IF position >= anchor THEN position - anchor ELSE anchor - position
  BY DEF Distance
<1>2. /\ count \in Nat /\ travel \in Nat /\ travel <= d /\ d < travel + step
      /\ count = 0 => travel = 0
  <2> HIDE DEF d
  <2>1. /\ count \in Nat /\ travel \in Nat /\ travel <= d /\ d < travel + step
    BY <1>1, WholeSteps DEF StepCount
  <2>2. 0 * step = 0
    OBVIOUS
  <2> HIDE DEF count
  <2> QED BY <2>1, <2>2
<1> HIDE DEF count, travel
<1>3. moved \in Nat /\ Distance(moved, position) < step
  <2> HIDE DEF d
  <2> QED BY <1>1, <1>2 DEF Distance
<1>4. count = 0 => d < step
  <2> HIDE DEF d
  <2> QED BY <1>1, <1>2
<1> QED BY <1>2, <1>3, <1>4 DEF count, travel

\* A coordinate the slider can follow.
OnPad(c) == /\ c.start_x \in Nat \cup {None} /\ c.current_x \in Nat \cup {None}
            /\ c.start_y \in Nat \cup {None} /\ c.current_y \in Nat \cup {None}

\* An edge's finger is down and has started, and what has started is somewhere.
InPlace(c) ==
  /\ IsClaimed(c) /\ ~c.gesture_rejected => c.tracking_id # None /\ IsPlaced(c)
  /\ c.start_x # None => c.current_x # None
  /\ c.start_y # None => c.current_y # None

LEMMA KeptInPlace ==
  ASSUME NEW en, NEW c, NEW d, ContactKept(en, c, d), InPlace(c)
  PROVE  InPlace(d)
BY DEF InPlace, ContactKept, SameFinger, ClaimIsSound, IsPlaced

LEMMA TakenView ==
  ASSUME NEW en \in EngineState, NEW s \in Slots, NEW count \in Nat, count > 0,
         NEW out, out = TakeSliderSteps(en, s, count),
         NEW travel, travel = count * en.cfg.sliders[en.contact[s].ownership]
  PROVE  LET c == en.contact[s]
             d == out.contact[s]
             forward == SliderPosition(c.ownership, c) >= c.slider_anchor
         IN /\ \A r \in Slots \ {s} : out.contact[r] = en.contact[r]
            /\ d.slider_anchor = IF forward THEN c.slider_anchor + travel
                                            ELSE c.slider_anchor - travel
            /\ d.ownership = c.ownership
            /\ d.gesture_rejected = c.gesture_rejected
            /\ d.start_x = c.start_x /\ d.start_y = c.start_y
            /\ d.current_x = c.current_x /\ d.current_y = c.current_y
            /\ NetOf(en, out, s) = IF forward THEN count ELSE 0 - count
            /\ \A r : r # s => NetOf(en, out, r) = 0
<1> DEFINE c == en.contact[s]
           forward == SliderPosition(c.ownership, c) >= c.slider_anchor
           anchor == IF forward THEN c.slider_anchor + travel
                                ELSE c.slider_anchor - travel
           one == [zone |-> c.ownership,
                   direction |-> SliderDirection(c.ownership, forward),
                   slot |-> s, tracking_id |-> c.tracking_id]
           k == [ConsumeBySlider(c) EXCEPT !.slider_anchor = anchor]
           d == out.contact[s]
<1>1. /\ one.slot = s
      /\ forward => one.direction \in {"Right", "Down"}
      /\ ~forward => one.direction \in {"Left", "Up"}
  BY DEF SliderDirection
<1>2. /\ out.contact = [en.contact EXCEPT ![s] = k]
      /\ out.slider_steps = en.slider_steps \o [i \in 1..count |-> one]
  <2> HIDE DEF anchor
  <2> QED BY DEF TakeSliderSteps, EngineState, anchor
<1>3. c \in Contact
  BY EngineFields
<1>4. \A f \in Contact : \A a :
        LET g == [ConsumeBySlider(f) EXCEPT !.slider_anchor = a]
        IN /\ g.slider_anchor = a /\ g.ownership = f.ownership
           /\ g.gesture_rejected = f.gesture_rejected
           /\ g.start_x = f.start_x /\ g.start_y = f.start_y
           /\ g.current_x = f.current_x /\ g.current_y = f.current_y
  BY DEF ConsumeBySlider, Contact
<1>5. /\ k.slider_anchor = anchor /\ k.ownership = c.ownership
      /\ k.gesture_rejected = c.gesture_rejected
      /\ k.start_x = c.start_x /\ k.start_y = c.start_y
      /\ k.current_x = c.current_x /\ k.current_y = c.current_y
  <2> HIDE DEF c, anchor
  <2> QED BY <1>3, <1>4
<1> HIDE DEF one, k, anchor
<1>6. /\ NetOf(en, out, s) = IF forward THEN count ELSE 0 - count
      /\ \A r : r # s => NetOf(en, out, r) = 0
  <2> HIDE DEF forward, c
  <2>1. one.slot = s
    BY <1>1
  <2>2. out.slider_steps = en.slider_steps \o [i \in 1..count |-> one]
    BY <1>2
  <2>3. one.direction \in {"Right", "Down"} => NetOf(en, out, s) = count
    BY <2>1, <2>2, StepsCount
  <2>4. one.direction \in {"Left", "Up"} => NetOf(en, out, s) = 0 - count
    BY <2>1, <2>2, StepsCount
  <2>5. ASSUME NEW r, r # s PROVE NetOf(en, out, r) = 0
    BY <2>1, <2>2, <2>5, StepsElsewhere
  <2> QED BY <1>1, <2>3, <2>4, <2>5
<1>7. d = k /\ \A r \in Slots \ {s} : out.contact[r] = en.contact[r]
  BY <1>2 DEF EngineState
<1> QED BY <1>5, <1>6, <1>7 DEF anchor

\* The reported steps and the anchor's move are the same thing.
LEMMA EmitFollows ==
  ASSUME NEW en \in EngineState, NEW s \in Slots, NEW n \in Int,
         OnPad(en.contact[s]), InPlace(en.contact[s]),
         Counted(en.cfg, en.contact[s], n)
  PROVE  LET out == EmitSliderStepsIfReady(en, s)
             net == NetOf(en, out, s)
         IN /\ net \in Int
            /\ Counted(en.cfg, out.contact[s], n + net)
            /\ Near(en.cfg, out.contact[s])
            /\ ~IsClaimed(en.contact[s]) => net = 0
            /\ \A r \in Slots \ {s} : /\ NetOf(en, out, r) = 0
                                      /\ Anchored(en.contact[r], out.contact[r])
<1> DEFINE c == en.contact[s]
           out == EmitSliderStepsIfReady(en, s)
           net == NetOf(en, out, s)
           d == out.contact[s]
           step == en.cfg.sliders[c.ownership]
           position == SliderPosition(c.ownership, c)
           start == IF IsVertical(c.ownership) THEN c.start_y ELSE c.start_x
           count == StepCount(Distance(c.slider_anchor, position), step)
           ready == IsClaimed(c) /\ ~c.gesture_rejected /\ step > 0
           taken == TakeSliderSteps(en, s, count)
           goal == /\ net \in Int
                   /\ Counted(en.cfg, d, n + net) /\ Near(en.cfg, d)
                   /\ ~IsClaimed(c) => net = 0
                   /\ \A r \in Slots \ {s} :
                        /\ NetOf(en, out, r) = 0
                        /\ Anchored(en.contact[r], out.contact[r])
<1>1. c \in Contact /\ en.cfg \in ConfigType
  BY EngineFields, ConfigInForce
<1>2. ASSUME out = en, ready => Distance(c.slider_anchor, position) < step
      PROVE  goal
  <2>1. out.slider_steps = en.slider_steps /\ d = c
        /\ \A r \in Slots : out.contact[r] = en.contact[r]
    BY <1>2
  <2> HIDE DEF out
  <2>2. \A r \in Slots : NetOf(en, out, r) = 0
    BY <2>1, NoSteps
  <2>3. n + net = n /\ net = 0 /\ net \in Int
    BY <2>2
  <2>4. Counted(en.cfg, d, n + net)
    BY <2>1, <2>3
  <2>5. Near(en.cfg, d)
    BY <1>2, <2>1 DEF Near
  <2> QED BY <2>1, <2>2, <2>3, <2>4, <2>5 DEF Anchored, Undecided, IsDecided
<1>3. ASSUME ~ready PROVE out = en
  BY <1>3 DEF EmitSliderStepsIfReady
<1>4. ASSUME ready
      PROVE  /\ step \in Nat /\ step > 0
             /\ c.slider_anchor \in Nat /\ position \in Nat
             /\ start \in Int /\ c.slider_anchor = start + n * step
             /\ out = EmitSliderSteps(en, s)
  <2>1. step \in Nat /\ step > 0
    BY <1>1, <1>4 DEF ConfigType, IsClaimed
  <2>2. position \in Nat /\ start \in Int
    BY <1>4 DEF OnPad, InPlace, IsPlaced, SliderPosition, None
  <2>3. c.slider_anchor \in Int /\ c.slider_anchor >= 0
        /\ c.slider_anchor = start + n * step
    BY <1>1, <1>4, ContactFields DEF Counted
  <2>4. IsActive(en, s) /\ position # None
    BY <1>4, <2>2 DEF InPlace, IsActive, None
  <2>5. out = EmitSliderSteps(en, s)
    BY <1>4, <2>4 DEF EmitSliderStepsIfReady
  <2> QED BY <2>1, <2>2, <2>3, <2>5
<1>5. ASSUME ready, count = 0
      PROVE  out = en /\ Distance(c.slider_anchor, position) < step
  <2>1. c.slider_anchor # None
    BY <1>4, <1>5 DEF None
  <2>2. out = en
    BY <1>4, <1>5, <2>1 DEF EmitSliderSteps
  <2>3. Distance(c.slider_anchor, position) < step
    <3> HIDE DEF position, step
    <3> QED BY <1>4, <1>5, StepsLeave
  <2> QED BY <2>2, <2>3
<1>6. ASSUME ready, count # 0 PROVE goal
  <2>1. c.slider_anchor # None
    BY <1>4, <1>6 DEF None
  <2>2. out = FlushPendingTap(taken)
    BY <1>4, <1>6, <2>1 DEF EmitSliderSteps
  <2> DEFINE forward == position >= c.slider_anchor
             moved == IF forward THEN c.slider_anchor + count * step
                                 ELSE c.slider_anchor - count * step
             t == taken.contact[s]
  <2>3. /\ count \in Nat /\ moved \in Nat /\ Distance(moved, position) < step
    <3> HIDE DEF position, step
    <3> QED BY <1>4, <1>6, StepsLeave
  <2>4. count > 0
    <3> HIDE DEF count
    <3> QED BY <1>6, <2>3
  <2>5. /\ \A r \in Slots \ {s} : taken.contact[r] = en.contact[r]
        /\ t.slider_anchor = moved /\ t.ownership = c.ownership
        /\ t.gesture_rejected = c.gesture_rejected
        /\ t.start_x = c.start_x /\ t.start_y = c.start_y
        /\ t.current_x = c.current_x /\ t.current_y = c.current_y
        /\ NetOf(en, taken, s) = IF forward THEN count ELSE 0 - count
        /\ \A r : r # s => NetOf(en, taken, r) = 0
    <3> DEFINE travel == count * step
    <3>1. taken = TakeSliderSteps(en, s, count) /\ travel = count * step
      OBVIOUS
    <3>0. count \in Nat /\ count > 0
      BY <2>3, <2>4
    <3> HIDE DEF count, taken, travel, start, ready, goal, moved, net, d, out
    <3>2. /\ \A r \in Slots \ {s} : taken.contact[r] = en.contact[r]
          /\ t.slider_anchor = IF forward THEN c.slider_anchor + travel
                                          ELSE c.slider_anchor - travel
          /\ t.ownership = c.ownership /\ t.gesture_rejected = c.gesture_rejected
          /\ t.start_x = c.start_x /\ t.start_y = c.start_y
          /\ t.current_x = c.current_x /\ t.current_y = c.current_y
          /\ NetOf(en, taken, s) = IF forward THEN count ELSE 0 - count
          /\ \A r : r # s => NetOf(en, taken, r) = 0
      BY <3>0, <3>1, TakenView
    <3> QED BY <3>2 DEF travel, moved
  <2>6. taken \in EngineState
    <3>1. IsClaimed(en.contact[s])
      BY <1>6
    <3> HIDE DEF count, goal, out, net, d, step, position, start, ready, forward, moved, t
    <3> QED BY <2>3, <3>1, TakeStepsType
  <2> HIDE DEF taken, out
  <2>7. Rests(taken, out) /\ Kept(taken, out)
    BY <2>2, <2>6, FlushRests, FlushKept
  <2>8. \A r : NetOf(en, out, r) = NetOf(en, taken, r)
    BY <2>7 DEF Rests, NetOf, StepsOf
  <2>9. net = IF forward THEN count ELSE 0 - count
    BY <2>5, <2>8
  <2>10. (n + net) * step = n * step + net * step /\ net \in Int
         /\ net * step = IF forward THEN count * step ELSE 0 - count * step
    <3> HIDE DEF net, count, forward, step
    <3>1. net \in Int
      BY <2>3, <2>9
    <3>2. (0 - count) * step = 0 - count * step
      BY <1>4, <1>6, <2>3
    <3> QED BY <1>4, <1>6, <2>9, <3>1, <3>2, MoreSteps
  <2>11. moved = start + (n + net) * step
    <3>1. n * step \in Int /\ count * step \in Int
      <4> HIDE DEF count, step
      <4> QED BY <1>4, <1>6, <2>3
    <3> DEFINE anchor == c.slider_anchor
               ns == n * step
               cs == count * step
               ms == net * step
               sum == (n + net) * step
    <3>2. anchor = start + ns /\ anchor \in Nat /\ start \in Int
      BY <1>4, <1>6
    <3>3. sum = ns + ms /\ ms = IF forward THEN cs ELSE 0 - cs
      BY <2>10
    <3>4. moved = IF forward THEN anchor + cs ELSE anchor - cs
      OBVIOUS
    <3>5. ns \in Int /\ cs \in Int
      BY <3>1
    <3> HIDE DEF anchor, ns, cs, ms, sum, moved, forward, start
    <3>6. moved = start + sum
      <4>1. CASE forward
        BY <3>2, <3>3, <3>4, <3>5, <4>1
      <4>2. CASE ~forward
        BY <3>2, <3>3, <3>4, <3>5, <4>2
      <4> QED BY <4>1, <4>2
    <3> QED BY <3>6 DEF sum
  <2>12. Counted(en.cfg, t, n + net)
    <3> HIDE DEF net, count, position, forward, moved
    <3> QED BY <2>3, <2>5, <2>11 DEF Counted
  <2>13. Near(en.cfg, t)
    <3>1. SliderPosition(t.ownership, t) = position
      BY <2>5 DEF SliderPosition
    <3> HIDE DEF count, position, forward, moved
    <3> QED BY <2>3, <2>5, <3>1 DEF Near
  <2>14. /\ Anchored(t, d) /\ SameFinger(t, d)
         /\ \A r \in Slots : Anchored(taken.contact[r], out.contact[r])
    BY <2>7 DEF Rests, Kept, ContactKept
  <2> HIDE DEF net, t, d, forward, count, moved, step, start, position
  <2>15. Counted(en.cfg, d, n + net) /\ Near(en.cfg, d)
    BY <2>12, <2>13, <2>14, AnchoredCounts, AnchoredIsNear DEF SameFinger
  <2> QED BY <1>6, <2>5, <2>8, <2>10, <2>14, <2>15
<1> HIDE DEF goal
<1>7. goal
  <2>1. CASE ~ready
    BY <1>2, <1>3, <2>1
  <2>2. CASE ready /\ count = 0
    BY <1>2, <1>5, <2>2
  <2>3. CASE ready /\ count # 0
    BY <1>6, <2>3
  <2> QED BY <2>1, <2>2, <2>3
<1> QED BY <1>7 DEF goal

LEMMA PassContactThroughRests ==
  ASSUME NEW en \in EngineState, NEW s \in Slots, ~en.contact[s].began_in_frame
  PROVE  Rests(en, PassContactThrough(en, s))
<1> DEFINE c == [en.contact[s] EXCEPT !.ownership = "Passthrough"]
           owned == [[en EXCEPT !.contact[s] = c] EXCEPT !.held_events[s] = <<>>]
           settled == IF en.contact[s].gesture_rejected
                      THEN owned ELSE FlushPendingTap(owned)
           replayed == PushPassthrough(settled, s, en.held_events[s])
           tool == en.memory[s].tool_type
           tools == IF tool = None THEN <<>> ELSE <<ToolTypeEvent(tool)>>
           out == PushPassthrough(replayed, s, tools)
<1>1. c \in Contact /\ c.ownership = "Passthrough" /\ ~c.began_in_frame
  <2>1. \A d \in Contact :
          LET k == [d EXCEPT !.ownership = "Passthrough"]
          IN /\ k \in Contact /\ k.ownership = "Passthrough"
             /\ k.began_in_frame = d.began_in_frame
    BY DEF Contact, Ownerships
  <2> QED BY <2>1, EngineFields
<1> HIDE DEF c
<1>2. owned \in EngineState /\ Rests(en, owned)
  <2>1. [en EXCEPT !.contact[s] = c] \in EngineState /\ <<>> \in Seq(Event)
    BY <1>1, SetContact
  <2>2. /\ owned.slider_steps = en.slider_steps
        /\ owned.contact = [en.contact EXCEPT ![s] = c]
    BY DEF EngineState
  <2>3. Anchored(en.contact[s], c)
    BY <1>1 DEF Anchored, IsClaimed, Undecided, IsDecided, Zones
  <2>4. owned \in EngineState
    BY <2>1, SetHeldEvents
  <2> HIDE DEF owned
  <2> QED BY <2>2, <2>3, <2>4, OneContactRests
<1> HIDE DEF owned
<1>3. settled \in EngineState /\ Rests(owned, settled)
  BY <1>2, FlushType, FlushRests, RestsItself
<1> HIDE DEF settled
<1>4. replayed \in EngineState /\ Rests(settled, replayed)
  BY <1>3, EngineFields, PushPassthroughRests, PushPassthroughType
<1> HIDE DEF replayed
<1>5. Rests(replayed, out)
  <2>1. tools \in Seq(Event)
    BY EngineFields, ToolEventType DEF Memory
  <2> HIDE DEF tools
  <2> QED BY <1>4, <2>1, PushPassthroughRests
<1>6. PassContactThrough(en, s) = out
  BY DEF PassContactThrough, replayed, settled, owned, c
<1> HIDE DEF tools, out
<1> QED BY <1>2, <1>3, <1>4, <1>5, <1>6, RestsOn

\* A zone with a slider takes the finger's position as its first anchor.
LEMMA ClaimAnchors ==
  ASSUME NEW en \in EngineState, NEW s \in Slots, NEW zone \in Zones
  PROVE  LET out == ClaimContact(en, s, zone)
             d == out.contact[s]
         IN /\ out.slider_steps = en.slider_steps
            /\ d.ownership = zone
            /\ d.slider_anchor = IF en.cfg.sliders[zone] > 0
                                 THEN SliderPosition(zone, en.contact[s]) ELSE None
            /\ \A r \in Slots \ {s} : Anchored(en.contact[r], out.contact[r])
<1> DEFINE c == en.contact[s]
           match == /\ ~c.gesture_rejected
                    /\ ContactMatchesPendingTap(en.cfg, en.pending_tap, c, zone)
           settled == IF HasPendingTap(en) /\ ~match /\ ~c.gesture_rejected
                      THEN FlushPendingTap(en) ELSE en
           anchor == IF en.cfg.sliders[zone] > 0
                     THEN SliderPosition(zone, c) ELSE None
           claimed == [settled.contact[s] EXCEPT !.ownership = zone,
                                                 !.slider_anchor = anchor,
                                                 !.tap_sequence_match = match]
           out == ClaimContact(en, s, zone)
<1>1. settled \in EngineState /\ Rests(en, settled)
  BY FlushType, FlushRests, RestsItself
<1> HIDE DEF settled, anchor, match
<1>2. claimed.ownership = zone /\ claimed.slider_anchor = anchor
  <2>1. \A d \in Contact : \A a, b :
          LET k == [d EXCEPT !.ownership = zone, !.slider_anchor = a,
                             !.tap_sequence_match = b]
          IN k.ownership = zone /\ k.slider_anchor = a
    BY DEF Contact
  <2>2. settled.contact[s] \in Contact
    BY <1>1, EngineFields
  <2> QED BY <2>1, <2>2
<1>3. out = [settled EXCEPT !.contact[s].ownership = zone,
                            !.contact[s].slider_anchor = anchor,
                            !.contact[s].tap_sequence_match = match,
                            !.held_events[s] = <<>>]
  BY DEF ClaimContact, settled, anchor, match
<1>4. /\ out.slider_steps = settled.slider_steps
      /\ out.contact = [settled.contact EXCEPT ![s] = claimed]
  <2> DEFINE set == [settled EXCEPT !.contact[s] = claimed]
  <2>1. [settled EXCEPT !.contact[s].ownership = zone,
                        !.contact[s].slider_anchor = anchor,
                        !.contact[s].tap_sequence_match = match] = set
    BY <1>1 DEF EngineState
  <2>2. out = [set EXCEPT !.held_events[s] = <<>>]
    BY <1>3, <2>1
  <2>3. /\ set.slider_steps = settled.slider_steps
        /\ set.contact = [settled.contact EXCEPT ![s] = claimed]
        /\ DOMAIN set = DOMAIN settled
    BY <1>1 DEF EngineState
  <2>4. \A p : LET o == [p EXCEPT !.held_events[s] = <<>>]
              IN /\ "slider_steps" \in DOMAIN p => o.slider_steps = p.slider_steps
                 /\ "contact" \in DOMAIN p => o.contact = p.contact
    OBVIOUS
  <2>5. {"slider_steps", "contact"} \subseteq DOMAIN settled
    BY <1>1 DEF EngineState
  <2> HIDE DEF set, out, claimed
  <2> QED BY <2>2, <2>3, <2>4, <2>5
<1> HIDE DEF claimed, out
<1>5. /\ out.contact[s] = claimed
      /\ \A r \in Slots \ {s} : out.contact[r] = settled.contact[r]
  BY <1>1, <1>4 DEF EngineState
<1>6. /\ out.slider_steps = en.slider_steps
      /\ \A r \in Slots \ {s} : Anchored(en.contact[r], out.contact[r])
  BY <1>1, <1>4, <1>5 DEF Rests
<1> QED BY <1>2, <1>5, <1>6 DEF out, anchor

\* A finger that has not moved since its start starts its slider there.
LEMMA DecideCounts ==
  ASSUME NEW en \in EngineState, NEW s \in Slots,
         OnPad(en.contact[s]), en.contact[s].ownership = "Unknown",
         ~en.contact[s].began_in_frame,
         en.contact[s].start_x = en.contact[s].current_x,
         en.contact[s].start_y = en.contact[s].current_y
  PROVE  LET out == DecideOwnershipIfReady(en, s)
             d == out.contact[s]
         IN /\ out.slider_steps = en.slider_steps
            /\ \A r \in Slots \ {s} : Anchored(en.contact[r], out.contact[r])
            /\ OnPad(d) /\ InPlace(d) /\ Counted(en.cfg, d, 0)
<1> DEFINE zone == ZoneForContact(en, s)
           c == en.contact[s]
           out == DecideOwnershipIfReady(en, s)
           d == out.contact[s]
           goal == /\ out.slider_steps = en.slider_steps
                   /\ \A r \in Slots \ {s} : Anchored(en.contact[r], out.contact[r])
                   /\ OnPad(d) /\ InPlace(d) /\ Counted(en.cfg, d, 0)
<1>1. zone \in Zones \cup {"None"} /\ ~IsClaimed(c)
  BY ZoneType DEF ZoneForContact, IsClaimed, Zones
<1> HIDE DEF zone
<1>2. SameFinger(c, d) /\ OnPad(d) /\ InPlace(d)
  <2>1. ContactKept(en, c, d)
    BY DecideKept DEF Kept
  <2>2. InPlace(c)
    BY <1>1 DEF InPlace
  <2> HIDE DEF d
  <2> QED BY <2>1, <2>2, KeptInPlace DEF ContactKept, SameFinger, OnPad
<1>3. ASSUME Rests(en, out) PROVE goal
  <2> HIDE DEF out, d
  <2>1. out.slider_steps = en.slider_steps
        /\ \A r \in Slots : Anchored(en.contact[r], out.contact[r])
    BY <1>3 DEF Rests
  <2>2. IsClaimed(d) /\ ~d.gesture_rejected => FALSE
    BY <1>1, <2>1 DEF d, Anchored, IsClaimed, Undecided, IsDecided
  <2> QED BY <1>2, <2>1, <2>2 DEF Counted
<1>4. ASSUME ~IsActive(en, s) \/ ~IsPlaced(c) PROVE goal
  <2>1. out = en
    BY <1>4 DEF DecideOwnershipIfReady, IsPlaced
  <2> HIDE DEF out, goal, d
  <2> QED BY <1>3, <2>1, RestsItself
<1>5. ASSUME IsActive(en, s) /\ IsPlaced(c) /\ zone = "None" PROVE goal
  <2>1. out = PassContactThrough(en, s)
    BY <1>5 DEF DecideOwnershipIfReady, zone, IsPlaced
  <2> HIDE DEF out, goal, d
  <2> QED BY <1>3, <2>1, PassContactThroughRests
<1>6. ASSUME IsActive(en, s) /\ IsPlaced(c) /\ zone # "None" PROVE goal
  <2>1. out = ClaimContact(en, s, zone)
    BY <1>6 DEF DecideOwnershipIfReady, zone, IsPlaced
  <2>2. zone \in Zones
    BY <1>1, <1>6
  <2>3. /\ out.slider_steps = en.slider_steps
        /\ d.ownership = zone
        /\ d.slider_anchor = IF en.cfg.sliders[zone] > 0
                             THEN SliderPosition(zone, c) ELSE None
        /\ \A r \in Slots \ {s} : Anchored(en.contact[r], out.contact[r])
    BY <2>1, <2>2, ClaimAnchors
  <2>4. /\ c.tracking_id # None /\ c.current_x \in Nat /\ c.current_y \in Nat
    BY <1>6 DEF IsActive, IsPlaced, OnPad
  <2> HIDE DEF d, out
  <2>5. Counted(en.cfg, d, 0)
    <3>1. \A step \in Nat : 0 * step = 0
      OBVIOUS
    <3>2. en.cfg.sliders[zone] \in Nat
      BY <2>2, ConfigInForce DEF ConfigType
    <3>3. en.cfg.sliders[zone] > 0 =>
            /\ d.slider_anchor \in Nat
            /\ d.slider_anchor = IF IsVertical(zone) THEN d.start_y ELSE d.start_x
      BY <1>2, <2>3, <2>4 DEF SliderPosition, SameFinger
    <3> QED BY <2>3, <2>4, <3>1, <3>2, <3>3, <1>2 DEF Counted, SameFinger
  <2> QED BY <1>2, <2>3, <2>5
<1> HIDE DEF goal
<1>7. goal
  BY <1>4, <1>5, <1>6
<1> QED BY <1>7 DEF goal

\* A slot's finger where its slider expects it after n steps.
OnSlider(cfg, c, n) == n \in Int /\ OnPad(c) /\ InPlace(c) /\ Counted(cfg, c, n)

LEMMA OnSliderOn ==
  ASSUME NEW en, NEW cfg, NEW c, NEW d, NEW n, OnSlider(cfg, c, n), Anchored(c, d),
         ContactKept(en, c, d)
  PROVE  OnSlider(cfg, d, n)
<1>1. Counted(cfg, d, n)
  BY AnchoredCounts DEF OnSlider, ContactKept, SameFinger
<1>2. OnPad(d) /\ InPlace(d)
  BY KeptInPlace DEF OnSlider, OnPad, ContactKept, SameFinger
<1> QED BY <1>1, <1>2 DEF OnSlider

LEMMA EmitOnSlider ==
  ASSUME NEW en \in EngineState, NEW s \in Slots, NEW n,
         \A r \in Slots : OnSlider(en.cfg, en.contact[r], n[r]),
         \A r \in Slots \ {s} : Near(en.cfg, en.contact[r])
  PROVE  LET out == EmitSliderStepsIfReady(en, s)
         IN \A r \in Slots :
              /\ OnSlider(en.cfg, out.contact[r], n[r] + NetOf(en, out, r))
              /\ Near(en.cfg, out.contact[r])
              /\ ~IsClaimed(en.contact[r]) => NetOf(en, out, r) = 0
              /\ en.contact[r].ownership # "Unknown" =>
                   out.contact[r].ownership # "Unknown"
              /\ r # s => Anchored(en.contact[r], out.contact[r])
<1> DEFINE out == EmitSliderStepsIfReady(en, s)
<1>1. /\ NetOf(en, out, s) \in Int
      /\ Counted(en.cfg, out.contact[s], n[s] + NetOf(en, out, s))
      /\ Near(en.cfg, out.contact[s])
      /\ ~IsClaimed(en.contact[s]) => NetOf(en, out, s) = 0
      /\ \A r \in Slots \ {s} : /\ NetOf(en, out, r) = 0
                                /\ Anchored(en.contact[r], out.contact[r])
  BY EmitFollows DEF OnSlider
<1>2. Kept(en, out)
  BY EmitKept
<1> HIDE DEF out
<1>3. ASSUME NEW r \in Slots
      PROVE  /\ ContactKept(en, en.contact[r], out.contact[r])
             /\ SameFinger(en.contact[r], out.contact[r])
             /\ en.contact[r].ownership # "Unknown" =>
                  out.contact[r].ownership # "Unknown"
  <2>1. ContactKept(en, en.contact[r], out.contact[r])
    BY <1>2 DEF Kept
  <2> QED BY <2>1 DEF ContactKept, SameOwner
<1>4. ASSUME NEW r \in Slots, r # s
      PROVE  /\ OnSlider(en.cfg, out.contact[r], n[r] + NetOf(en, out, r))
             /\ Near(en.cfg, out.contact[r]) /\ NetOf(en, out, r) = 0
  <2>1. n[r] + NetOf(en, out, r) = n[r] /\ NetOf(en, out, r) = 0
        /\ Anchored(en.contact[r], out.contact[r])
    BY <1>1, <1>4 DEF OnSlider
  <2>2. Near(en.cfg, out.contact[r])
    BY <1>3, <1>4, <2>1, AnchoredIsNear DEF SameFinger
  <2>3. OnSlider(en.cfg, out.contact[r], n[r])
    BY <1>3, <2>1, OnSliderOn
  <2> QED BY <2>1, <2>2, <2>3
<1>5. OnSlider(en.cfg, out.contact[s], n[s] + NetOf(en, out, s))
  <2>1. OnPad(out.contact[s]) /\ InPlace(out.contact[s])
    BY <1>3, KeptInPlace DEF OnSlider, OnPad, SameFinger
  <2> QED BY <1>1, <2>1 DEF OnSlider
<1>6. \A r \in Slots :
        /\ OnSlider(en.cfg, out.contact[r], n[r] + NetOf(en, out, r))
        /\ Near(en.cfg, out.contact[r])
        /\ ~IsClaimed(en.contact[r]) => NetOf(en, out, r) = 0
        /\ en.contact[r].ownership # "Unknown" => out.contact[r].ownership # "Unknown"
        /\ r # s => Anchored(en.contact[r], out.contact[r])
  BY <1>1, <1>3, <1>4, <1>5
<1> QED BY <1>6 DEF out

\* The end of the loop body: the current finger's slider moves.
LEMMA SettleOnSlider ==
  ASSUME NEW en \in EngineState, NEW n,
         \A r \in Slots : OnSlider(en.cfg, en.contact[r], n[r]),
         \A r \in Slots : r # en.current_slot => Near(en.cfg, en.contact[r]),
         LET c == en.contact[en.current_slot]
         IN IsDecided(c) /\ (c.began_in_frame => c.ownership = "Unknown")
  PROVE  LET out == Settle(en)
         IN \A r \in Slots :
              /\ OnSlider(en.cfg, out.contact[r], n[r] + NetOf(en, out, r))
              /\ Near(en.cfg, out.contact[r])
              /\ ~IsClaimed(en.contact[r]) => NetOf(en, out, r) = 0
              /\ en.contact[r].ownership # "Unknown" =>
                   out.contact[r].ownership # "Unknown"
              /\ Undecided(en.contact[r]) => Undecided(out.contact[r])
<1> DEFINE s == en.current_slot
           c == en.contact[s]
           out == Settle(en)
           goal == \A r \in Slots :
                     /\ OnSlider(en.cfg, out.contact[r], n[r] + NetOf(en, out, r))
                     /\ Near(en.cfg, out.contact[r])
                     /\ ~IsClaimed(en.contact[r]) => NetOf(en, out, r) = 0
                     /\ en.contact[r].ownership # "Unknown" =>
                          out.contact[r].ownership # "Unknown"
                     /\ Undecided(en.contact[r]) => Undecided(out.contact[r])
<1>1. s \in Slots
  BY DEF EngineState
<1>2. ASSUME c.began_in_frame PROVE goal
  <2>1. out = en
    BY <1>2 DEF Settle
  <2>2. \A r \in Slots : Near(en.cfg, en.contact[r])
    BY <1>2 DEF Near, IsClaimed, Zones
  <2>3. \A r \in Slots : NetOf(en, en, r) = 0
    BY NoSteps
  <2>4. \A r \in Slots : n[r] + 0 = n[r]
    BY DEF OnSlider
  <2> QED BY <2>1, <2>2, <2>3, <2>4
<1>3. ASSUME ~c.began_in_frame PROVE goal
  <2>1. DecideOwnershipIfReady(en, s) = en
    BY <1>3 DEF DecideOwnershipIfReady, IsDecided, IsActive
  <2>2. out = EmitSliderStepsIfReady(en, s)
    BY <1>3, <2>1 DEF Settle, DecideAndSlide
  <2> HIDE DEF out
  <2>3. Undecided(out.contact[s])
    <3>1. ContactKept(en, c, out.contact[s])
      BY <1>1, <2>2, EmitKept DEF Kept
    <3> QED BY <1>3, <3>1 DEF Undecided, IsDecided, ContactKept, SameFinger
  <2>4. \A r \in Slots : r # s => Anchored(en.contact[r], out.contact[r])
    BY <1>1, <2>2, EmitOnSlider
  <2>5. \A r \in Slots : Undecided(en.contact[r]) => Undecided(out.contact[r])
    BY <2>3, <2>4 DEF Anchored
  <2> QED BY <1>1, <2>2, <2>5, EmitOnSlider
<1> HIDE DEF goal
<1>4. goal
  BY <1>2, <1>3
<1> QED BY <1>4 DEF goal

\* The end of the frame: a new finger is decided where it is.
LEMMA FinalizeOnSlider ==
  ASSUME NEW en \in EngineState, NEW s \in Slots, NEW n,
         \A r \in Slots : /\ OnSlider(en.cfg, en.contact[r], n[r])
                          /\ Near(en.cfg, en.contact[r]),
         en.memory[s].x \in Nat, en.memory[s].y \in Nat,
         LET c == en.contact[s]
         IN c.began_in_frame => /\ c.ownership = "Unknown" /\ n[s] = 0
                                /\ c.start_x = c.current_x /\ c.start_y = c.current_y
  PROVE  LET out == FinalizeContact(en, s)
         IN \A r \in Slots :
              /\ OnSlider(en.cfg, out.contact[r], n[r] + NetOf(en, out, r))
              /\ Near(en.cfg, out.contact[r])
              /\ ~IsClaimed(en.contact[r]) /\ out.contact[r].ownership = "Unknown"
                   => NetOf(en, out, r) = 0
              /\ Undecided(en.contact[r]) => Undecided(out.contact[r])
<1> DEFINE c == en.contact[s]
           x == OrElse(c.current_x, en.memory[s].x)
           y == OrElse(c.current_y, en.memory[s].y)
           placed == [c EXCEPT !.current_x = x, !.current_y = y,
                               !.start_x = OrElse(@, x), !.start_y = OrElse(@, y),
                               !.began_in_frame = FALSE]
           set == [en EXCEPT !.contact[s] = placed]
           decided == DecideOwnershipIfReady(set, s)
           out == FinalizeContact(en, s)
           goal == \A r \in Slots :
                     /\ OnSlider(en.cfg, out.contact[r], n[r] + NetOf(en, out, r))
                     /\ Near(en.cfg, out.contact[r])
                     /\ ~IsClaimed(en.contact[r]) /\ out.contact[r].ownership = "Unknown"
                          => NetOf(en, out, r) = 0
                     /\ Undecided(en.contact[r]) => Undecided(out.contact[r])
<1>1. ASSUME ~c.began_in_frame PROVE goal
  <2>1. out = en
    BY <1>1 DEF FinalizeContact
  <2>2. \A r \in Slots : NetOf(en, en, r) = 0
    BY NoSteps
  <2>3. \A r \in Slots : n[r] + 0 = n[r]
    BY DEF OnSlider
  <2> QED BY <2>1, <2>2, <2>3
<1>2. ASSUME c.began_in_frame PROVE goal
  <2>1. c \in Contact /\ OnPad(c)
    BY EngineFields DEF OnSlider
  <2>2. x \in Nat /\ y \in Nat /\ x # None /\ y # None
    BY <2>1 DEF OnPad, OrElse, None
  <2>3. /\ placed.ownership = "Unknown"
        /\ placed.current_x = x /\ placed.start_x = x
        /\ placed.current_y = y /\ placed.start_y = y
        /\ ~placed.began_in_frame
    <3>1. OrElse(c.start_x, x) = x /\ OrElse(c.start_y, y) = y
      BY <1>2 DEF OrElse
    <3>2. \A d \in Contact : \A a, b, f, g :
            LET k == [d EXCEPT !.current_x = a, !.current_y = b, !.start_x = f,
                               !.start_y = g, !.began_in_frame = FALSE]
            IN /\ k.ownership = d.ownership /\ k.current_x = a /\ k.current_y = b
               /\ k.start_x = f /\ k.start_y = g /\ ~k.began_in_frame
      BY DEF Contact
    <3> HIDE DEF x, y
    <3> QED BY <1>2, <2>1, <3>1, <3>2
  <2>4. set \in EngineState
    BY PlacedType
  <2>5. out = EmitSliderStepsIfReady(decided, s)
    BY <1>2 DEF FinalizeContact, DecideAndSlide
  <2> HIDE DEF x, y, placed
  <2>6. /\ set.cfg = en.cfg /\ set.slider_steps = en.slider_steps
        /\ set.contact[s] = placed
        /\ \A r \in Slots \ {s} : set.contact[r] = en.contact[r]
    BY DEF EngineState
  <2> HIDE DEF set
  <2>7. OnPad(placed)
    BY <2>2, <2>3 DEF OnPad
  <2>8. /\ decided.slider_steps = set.slider_steps
        /\ \A r \in Slots \ {s} : Anchored(set.contact[r], decided.contact[r])
        /\ OnPad(decided.contact[s]) /\ InPlace(decided.contact[s])
        /\ Counted(set.cfg, decided.contact[s], 0)
    BY <2>3, <2>4, <2>6, <2>7, DecideCounts
  <2>9. Kept(set, decided)
    BY <2>4, DecideKept
  <2> HIDE DEF decided, out
  <2>10. /\ decided \in EngineState /\ decided.cfg = en.cfg
         /\ \A r \in Slots : ContactKept(set, set.contact[r], decided.contact[r])
    BY <2>6, <2>9 DEF Kept, SameSettings
  <2>11. OnSlider(en.cfg, decided.contact[s], n[s])
    BY <1>2, <2>6, <2>8 DEF OnSlider
  <2>12. ASSUME NEW r \in Slots, r # s
         PROVE  /\ OnSlider(en.cfg, decided.contact[r], n[r])
                /\ Near(en.cfg, decided.contact[r])
                /\ Anchored(en.contact[r], decided.contact[r])
    <3>1. /\ set.contact[r] = en.contact[r]
          /\ ContactKept(set, set.contact[r], decided.contact[r])
          /\ Anchored(set.contact[r], decided.contact[r])
      BY <2>6, <2>8, <2>10, <2>12
    <3>2. OnSlider(en.cfg, decided.contact[r], n[r])
      BY <3>1, OnSliderOn
    <3>3. Near(en.cfg, decided.contact[r])
      BY <3>1, AnchoredIsNear DEF ContactKept, SameFinger
    <3> QED BY <3>1, <3>2, <3>3
  <2>13. \A r \in Slots :
           /\ OnSlider(en.cfg, out.contact[r], n[r] + NetOf(decided, out, r))
           /\ Near(en.cfg, out.contact[r])
           /\ ~IsClaimed(decided.contact[r]) => NetOf(decided, out, r) = 0
           /\ decided.contact[r].ownership # "Unknown" =>
                out.contact[r].ownership # "Unknown"
           /\ r # s => Anchored(decided.contact[r], out.contact[r])
    BY <2>5, <2>10, <2>11, <2>12, EmitOnSlider
  <2>14. \A r : NetOf(en, out, r) = NetOf(decided, out, r)
    BY <2>6, <2>8 DEF NetOf, StepsOf
  <2>15. \A r \in Slots : out.contact[r].ownership = "Unknown" =>
                             ~IsClaimed(decided.contact[r])
    BY <2>13 DEF IsClaimed, Zones
  <2>16. Undecided(out.contact[s])
    <3>1. ContactKept(decided, decided.contact[s], out.contact[s])
      BY <2>5, <2>10, EmitKept DEF Kept
    <3>2. ContactKept(set, placed, decided.contact[s])
      BY <2>6, <2>10
    <3> QED BY <2>3, <3>1, <3>2 DEF Undecided, IsDecided, ContactKept, SameFinger
  <2>17. \A r \in Slots : Undecided(en.contact[r]) => Undecided(out.contact[r])
    BY <2>12, <2>13, <2>16 DEF Anchored
  <2> QED BY <2>13, <2>14, <2>15, <2>17
<1> HIDE DEF goal
<1>3. goal
  BY <1>1, <1>2
<1> QED BY <1>3 DEF goal

=============================================================================
