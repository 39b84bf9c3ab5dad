------------------------------ MODULE EngineOps ------------------------------
(***************************************************************************)
(* The recognizer's operations as functions on its state (src/core.rs and  *)
(* src/core/): one operator per method.  An engine state is one record, so *)
(* a handler that calls several methods is the composition of their        *)
(* operators.  The record also carries the FrameOutput under construction; *)
(* downs[s] holds the complete down the engine synthesises for slot s, by  *)
(* promotion or from a snapshot: these precede the frame's own passthrough *)
(* in the routed output, in the order of the slots.                        *)
(***************************************************************************)
EXTENDS Recognition

EngineState ==
  [ cfg : Configs, pressed : SUBSET Buttons, current_slot : Slots,
    memory : [Slots -> Memory], contact : [Slots -> Contact],
    held_events : [Slots -> Seq(Event)], pending_tap : PendingTap,
    downs : [Slots -> Seq(Event)], passthrough : Seq(Event),
    gestures : Seq(Gesture), slider_steps : Seq(SliderStep),
    resync_required : BOOLEAN ]

NewEngine(cfg, memory) ==
  [ cfg |-> cfg, pressed |-> {}, current_slot |-> SlotMin,
    memory |-> memory, contact |-> [s \in Slots |-> NoContact],
    held_events |-> [s \in Slots |-> <<>>], pending_tap |-> NoTap,
    downs |-> [s \in Slots |-> <<>>], passthrough |-> <<>>, gestures |-> <<>>,
    slider_steps |-> <<>>, resync_required |-> FALSE ]

IsActive(e, s) == e.contact[s].tracking_id # None
HasPendingTap(e) == e.pending_tap.released_at # None
IsMatching(e, s) == e.contact[s].tap_sequence_match

\* FrameOutput::empty for the next call.
ClearOutput(e) ==
  [e EXCEPT !.downs = [s \in Slots |-> <<>>], !.passthrough = <<>>, !.gestures = <<>>,
            !.slider_steps = <<>>, !.resync_required = FALSE]

-----------------------------------------------------------------------------
(* taps.rs *)

\* Mutant: the contact that would have completed the pair stays marked.
FlushKeepsMatch(e) ==
  [e EXCEPT !.pending_tap = NoTap,
            !.gestures = IF HasPendingTap(e) /\ e.pending_tap.emit_single
                         THEN Append(@, e.pending_tap.gesture) ELSE @]

\* Mutant: a deferred tap that finds no second one is dropped.
FlushSilently(e) ==
  [e EXCEPT
     !.contact = [s \in Slots |->
                    [e.contact[s] EXCEPT !.tap_sequence_match = FALSE]],
     !.pending_tap = NoTap]

FlushPendingTap(e) ==
  [e EXCEPT
     !.contact = [s \in Slots |->
                    [e.contact[s] EXCEPT !.tap_sequence_match = FALSE]],
     !.pending_tap = NoTap,
     !.gestures = IF HasPendingTap(e) /\ e.pending_tap.emit_single
                  THEN Append(@, e.pending_tap.gesture) ELSE @]

\* Mutant: only the match is withdrawn.
WithoutMatches(e) ==
  [e EXCEPT !.contact =
     [s \in Slots |-> [e.contact[s] EXCEPT !.tap_sequence_match = FALSE]]]

\* No contact may take part in a pair any more.
WithoutPairing(e) ==
  [e EXCEPT !.contact =
     [s \in Slots |-> [e.contact[s] EXCEPT !.tap_sequence_eligible = FALSE,
                                           !.tap_sequence_match = FALSE]]]

InterruptTapSequence(e) == FlushPendingTap(WithoutPairing(e))

\* Mutant: the second tap's window is added to the timeout.
NextDeadlineAdded(e) ==
  e.pending_tap.released_at + e.cfg.double_tap_timeout
    + (IF \E s \in Slots : IsMatching(e, s) THEN e.cfg.tap_max_duration ELSE 0)

\* next_deadline of an engine that has a pending tap: a second tap that is
\* already down extends the wait by its own duration window.
NextDeadline(e) ==
  IF \E s \in Slots : IsMatching(e, s)
  THEN e.contact[CHOOSE s \in Slots :
                   /\ IsMatching(e, s)
                   /\ \A r \in Slots : IsMatching(e, r) => s <= r].started_at
         + e.cfg.tap_max_duration
  ELSE e.pending_tap.released_at + e.cfg.double_tap_timeout

ExpirePendingTap(e, timestamp) ==
  IF HasPendingTap(e) /\ timestamp >= NextDeadline(e)
  THEN FlushPendingTap(e) ELSE e

PushGesture(e, g) == [e EXCEPT !.gestures = Append(@, g)]

\* handle_classified_gesture for the contact c released at released_at.
HandleClassifiedGesture(e, g, c, released_at) ==
  LET x == OrElse(c.current_x, c.start_x)
      y == OrElse(c.current_y, c.start_y)
      single == g.zone \in e.cfg.single_tap_zones
      canStartSequence == /\ g.zone \in e.cfg.double_tap_zones
                          /\ released_at # None /\ x # None /\ y # None
  IN IF g.direction # "Tap" THEN PushGesture(FlushPendingTap(e), g)
     ELSE IF c.tap_sequence_match /\ HasPendingTap(e)
          THEN PushGesture([e EXCEPT !.pending_tap = NoTap],
                           [g EXCEPT !.direction = "DoubleTap"])
     ELSE IF ~c.tap_sequence_eligible
          THEN IF single THEN PushGesture(FlushPendingTap(e), g)
                         ELSE FlushPendingTap(e)
     ELSE IF ~canStartSequence THEN PushGesture(e, g)
     ELSE [FlushPendingTap(e) EXCEPT !.pending_tap =
             [gesture |-> g, released_at |-> released_at, x |-> x, y |-> y,
              emit_single |-> single]]

-----------------------------------------------------------------------------
(* routing.rs *)

\* last_passthrough_slot(events) # Some(s).
LeadsElsewhere(events, s) ==
  \A i \in DOMAIN events :
    events[i].kind = "Slot" =>
      \/ events[i].value # s
      \/ \E j \in DOMAIN events :
           j > i /\ events[j].kind = "Slot" /\ events[j].value # s

\* push_passthrough_event_for_slot for each event in turn: a switch to slot s
\* precedes them unless the output is already there or they start with one.
\* The Slot events among them all name s (invariant HeldNamesOwnSlot).
PushPassthrough(e, s, events) ==
  LET switch == /\ Head(events).kind # "Slot"
                /\ LeadsElsewhere(e.passthrough, s)
  IN IF events = <<>> THEN e
     ELSE [e EXCEPT !.passthrough =
             @ \o (IF switch THEN <<SlotEvent(s)>> ELSE <<>>) \o events]

RouteEvent(e, event) ==
  LET s == e.current_slot
      c == e.contact[s]
  IN CASE c.ownership = "Passthrough" -> PushPassthrough(e, s, <<event>>)
       [] c.ownership = "Unknown" ->
            [e EXCEPT !.held_events[s] = Append(@, event)]
       [] OTHER -> e

PassContactThrough(e, s) ==
  LET owned == [e EXCEPT !.contact[s].ownership = "Passthrough",
                         !.held_events[s] = <<>>]
      settled == IF e.contact[s].gesture_rejected
                 THEN owned ELSE FlushPendingTap(owned)
      tool == e.memory[s].tool_type
  IN PushPassthrough(
       PushPassthrough(settled, s, e.held_events[s]), s,
       IF tool = None THEN <<>> ELSE <<ToolTypeEvent(tool)>>)

ClaimContact(e, s, zone) ==
  LET c == e.contact[s]
      match == /\ ~c.gesture_rejected
               /\ ContactMatchesPendingTap(e.cfg, e.pending_tap, c, zone)
      settled == IF HasPendingTap(e) /\ ~match /\ ~c.gesture_rejected
                 THEN FlushPendingTap(e) ELSE e
      anchor == IF e.cfg.sliders[zone] > 0
                THEN SliderPosition(zone, c) ELSE None
  IN [settled EXCEPT !.contact[s].ownership = zone,
                     !.contact[s].slider_anchor = anchor,
                     !.contact[s].tap_sequence_match = match,
                     !.held_events[s] = <<>>]

\* Mutant: edges stay edges while the pad is pressed.
ZoneAlways(e, s) ==
  ZoneForPosition(e.cfg, e.contact[s].start_x, e.contact[s].start_y)

\* A buttonpad that is pressed has no edges.
ZoneForContact(e, s) ==
  IF Buttonpad /\ e.pressed # {} THEN "None"
  ELSE ZoneForPosition(e.cfg, e.contact[s].start_x, e.contact[s].start_y)

DecideOwnershipIfReady(e, s) ==
  LET zone == ZoneForContact(e, s)
  IN IF \/ ~IsActive(e, s)
        \/ e.contact[s].ownership # "Unknown"
        \/ e.contact[s].start_x = None \/ e.contact[s].start_y = None
     THEN e
     ELSE IF zone = "None" THEN PassContactThrough(e, s)
                           ELSE ClaimContact(e, s, zone)

\* Mutant: the down goes to whatever slot the output is at.
DownInPlace(s, id, x, y, tool) ==
  <<TrackingIdEvent(id), XEvent(x), YEvent(y)>>
  \o (IF tool = None THEN <<>> ELSE <<ToolTypeEvent(tool)>>)

\* A complete down: the contact was hidden from the virtual device so far.
DownEvents(s, id, x, y, tool) ==
  <<SlotEvent(s), TrackingIdEvent(id), XEvent(x), YEvent(y)>>
  \o (IF tool = None THEN <<>> ELSE <<ToolTypeEvent(tool)>>)

CanPromote(e, s) ==
  /\ IsActive(e, s) /\ IsClaimed(e.contact[s])
  /\ e.contact[s].current_x # None /\ e.contact[s].current_y # None

PromoteClaimedContacts(e) ==
  [e EXCEPT
     !.contact = [s \in Slots |->
                    IF CanPromote(e, s)
                    THEN [e.contact[s] EXCEPT !.ownership = "Passthrough",
                                              !.slider_anchor = None]
                    ELSE e.contact[s]],
     !.downs = [s \in Slots |->
                  IF CanPromote(e, s)
                  THEN DownEvents(s, e.contact[s].tracking_id,
                                  e.contact[s].current_x,
                                  e.contact[s].current_y,
                                  e.memory[s].tool_type)
                  ELSE @[s]]]

-----------------------------------------------------------------------------
(* sliders.rs *)

\* Mutant: a jump of several steps counts as one.
OneStep(distance, step) == IF distance >= step THEN 1 ELSE 0

StepCount(distance, step) == distance \div step

\* Whole steps from the anchor towards the finger; the anchor keeps the rest.
TakeSliderSteps(e, s, count) ==
  LET c == e.contact[s]
      forward == SliderPosition(c.ownership, c) >= c.slider_anchor
      travel == count * e.cfg.sliders[c.ownership]
      one == [zone |-> c.ownership,
              direction |-> SliderDirection(c.ownership, forward),
              slot |-> s, tracking_id |-> c.tracking_id]
      anchor == IF forward THEN c.slider_anchor + travel
                           ELSE c.slider_anchor - travel
  IN [e EXCEPT !.contact[s] = [ConsumeBySlider(c) EXCEPT !.slider_anchor = anchor],
               !.slider_steps = @ \o [i \in 1..count |-> one]]

EmitSliderSteps(e, s) ==
  LET c == e.contact[s]
      position == SliderPosition(c.ownership, c)
      count == StepCount(Distance(c.slider_anchor, position),
                         e.cfg.sliders[c.ownership])
  IN IF c.slider_anchor = None
     THEN [e EXCEPT !.contact[s].slider_anchor = position]
     ELSE IF count = 0 THEN e
     ELSE FlushPendingTap(TakeSliderSteps(e, s, count))

EmitSliderStepsIfReady(e, s) ==
  LET c == e.contact[s]
  IN IF /\ IsActive(e, s)
        /\ ~c.gesture_rejected
        /\ IsClaimed(c)
        /\ e.cfg.sliders[c.ownership] > 0
        /\ SliderPosition(c.ownership, c) # None
     THEN EmitSliderSteps(e, s) ELSE e

-----------------------------------------------------------------------------
(* contact.rs, slot.rs *)

DecideAndSlide(e, s) ==
  EmitSliderStepsIfReady(DecideOwnershipIfReady(e, s), s)

\* One iteration of finalize_contacts_started_in_frame: memory stands in for
\* the coordinates the frame did not repeat.
FinalizeContact(e, s) ==
  LET c == e.contact[s]
      x == OrElse(c.current_x, e.memory[s].x)
      y == OrElse(c.current_y, e.memory[s].y)
      placed == [c EXCEPT !.current_x = x, !.current_y = y,
                          !.start_x = OrElse(@, x), !.start_y = OrElse(@, y),
                          !.began_in_frame = FALSE]
  IN IF c.began_in_frame
     THEN DecideAndSlide([e EXCEPT !.contact[s] = placed], s)
     ELSE e

\* Mutant: a release that was no gesture is reported all the same.
ReportAnyRelease(e, s, c, released_at) ==
  HandleClassifiedGesture(e,
    [zone |-> c.ownership, direction |-> ClassifyGesture(e.cfg, c, released_at),
     slot |-> s, tracking_id |-> c.tracking_id], c, released_at)

\* The end of a claimed contact.  A zone with a slider keeps its taps only.
ReleaseClaimed(e, s, c, released_at) ==
  LET zone == c.ownership
      direction == ClassifyGesture(e.cfg, c, released_at)
      g == [zone |-> zone, direction |-> direction, slot |-> s,
            tracking_id |-> c.tracking_id]
  IN IF direction = "None"
     THEN IF HasPendingTap(e) THEN FlushPendingTap(e) ELSE e
     ELSE IF e.cfg.sliders[zone] > 0 /\ direction # "Tap"
     THEN FlushPendingTap(e)
     ELSE HandleClassifiedGesture(e, g, c, released_at)

ReleaseCurrentSlot(e, event, released_at) ==
  LET s == e.current_slot
      c == e.contact[s]
      lifted == [e EXCEPT !.contact[s] = NoContact, !.held_events[s] = <<>>]
  IN CASE ~IsActive(e, s) ->
            [e EXCEPT !.held_events[s] = Append(@, event)]
       [] IsActive(e, s) /\ c.ownership = "Passthrough" ->
            PushPassthrough(lifted, s, <<event>>)
       [] IsActive(e, s) /\ c.ownership # "Passthrough" ->
            IF IsClaimed(c) /\ ~c.gesture_rejected
            THEN ReleaseClaimed(lifted, s, c, released_at)
            ELSE lifted

-----------------------------------------------------------------------------
(* core.rs *)

ResetForResync(e) ==
  [e EXCEPT !.memory = [s \in Slots |-> NoMemory],
            !.contact = [s \in Slots |-> NoContact],
            !.held_events = [s \in Slots |-> <<>>],
            !.pressed = {},
            !.current_slot = SlotMin,
            !.pending_tap = NoTap]

\* A kernel snapshot: snapshot.ids[s] is the contact in slot s or None,
\* snapshot.memory[s] the slot's axes, snapshot.pressed the buttons down.
SnapshotContacts(snapshot) == {s \in Slots : snapshot.ids[s] # None}

SeededMemory(memory) ==
  IF PalmRejection THEN memory
  ELSE [s \in Slots |-> [memory[s] EXCEPT !.tool_type = None]]

\* Mutant: the slot stays the one a reset leaves.
FirstSlot(active) == SlotMin

\* The slot the engine addresses after a recovery: the last restored contact's.
RestoredSlot(active) ==
  IF active = {} THEN SlotMin ELSE CHOOSE s \in active : \A r \in active : r <= s

\* restore_passthrough_contacts, restore_pressed_physical_buttons and
\* seed_slot_snapshots, as process_proxy_resync_contacts and
\* restore_snapshot call them.
RestoreSnapshot(e, snapshot) ==
  LET active == SnapshotContacts(snapshot)
      seeded == SeededMemory(snapshot.memory)
  IN [ResetForResync(e) EXCEPT
        !.current_slot = RestoredSlot(active),
        !.memory = seeded,
        !.contact = [s \in Slots |->
           IF s \in active
           THEN RestoredContact(snapshot.ids[s], seeded[s].x, seeded[s].y,
                                seeded[s].tool_type)
           ELSE NoContact],
        !.pressed = IF Buttonpad THEN snapshot.pressed ELSE {},
        !.downs = [s \in Slots |->
           IF s \in active
           THEN DownEvents(s, snapshot.ids[s], seeded[s].x, seeded[s].y,
                           seeded[s].tool_type)
           ELSE <<>>]]

\* reconfigure_recognition; its assertion is IsRecognitionIdle.
IsRecognitionIdle(e) ==
  ~HasPendingTap(e) /\ \A s \in Slots : ~IsActive(e, s)

Reconfigure(e, cfg) == [e EXCEPT !.cfg = cfg]

=============================================================================
