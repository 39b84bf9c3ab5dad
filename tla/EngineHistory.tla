---------------------------- MODULE EngineHistory ----------------------------
(***************************************************************************)
(* Engine with a history of what the input meant, kept from the frames and *)
(* never from the engine's own flags: which contacts the touchpad called a *)
(* palm, which ones moved, stepped a slider or shared the pad, which tap   *)
(* is still owed to the user.  The properties compare the engine's         *)
(* answers with it (docs/double-tap.md, docs/passthrough-uinput.md).       *)
(***************************************************************************)
EXTENDS Engine

VARIABLE h

hvars == <<vars, h>>

NoFirst == [zone |-> "None", released |-> None, x |-> None, y |-> None,
            second |-> None]

HInit ==
  /\ Init
  /\ h = [ labels |-> {},                          \* palms this frame reports
           tool |-> [s \in Slots |-> IF PalmRejection
                                     THEN StartMemory[s].tool_type ELSE None],
           palm |-> [s \in Slots |-> FALSE],       \* the slot's contact is one
           moved |-> [s \in Slots |-> FALSE],      \* ... ever left the tap slop
           stepped |-> [s \in Slots |-> FALSE],    \* ... moved a slider
           crowded |-> [s \in Slots |-> FALSE],    \* ... shared the pad
           net |-> [s \in Slots |-> 0],            \* ... by so many steps
           buttons |-> {},                         \* buttons physically down
           owed |-> {},                            \* taps not yet reported
           first |-> NoFirst ]                     \* the last lone tap

-----------------------------------------------------------------------------
(* Palm labels of a whole frame, whatever the order of its events.         *)

\* Events of kind "ToolType" that reach slot s while id is in it.
Labels(evs, s, id) ==
  {i \in DOMAIN evs : /\ evs[i].kind = "ToolType" /\ SlotAt(evs, i) = s
                      /\ IdAfter(evs, i, s) = id}

\* The tool type slot s holds after the first i events.
ToolAfter(evs, i, s) ==
  LET set == {j \in 1..i : evs[j].kind = "ToolType" /\ SlotAt(evs, j) = s}
  IN IF set = {} THEN h.tool[s] ELSE evs[Max(set)].value

\* id goes down in slot s and inherits the palm the slot was left with.
InheritsPalm(evs, s, id) ==
  /\ Labels(evs, s, id) = {}
  /\ \E i \in DOMAIN evs : /\ evs[i] = TrackingIdEvent(id)
                           /\ SlotAt(evs, i) = s
                           /\ ToolAfter(evs, i, s) = PalmTool

\* With palm rejection off nothing counts as a palm.
PalmLabels(evs) ==
  {contact \in Slots \X TrackingIds :
     /\ PalmRejection
     /\ LET s == contact[1]  id == contact[2]
        IN \/ \E i \in Labels(evs, s, id) : evs[i].value = PalmTool
           \/ InheritsPalm(evs, s, id)}

-----------------------------------------------------------------------------
(* What a step did.                                                        *)

Pressed == phase = "idle" /\ phase' = "scan" /\ Codes(frame'.buttons, TRUE) # {}
Dropped == phase = "events" /\ AtEvent("SynDropped")
Restored == phase = "resync"
Scanned == phase = "scan" /\ phase' = "events"
Began(s) == phase = "events" /\ ~IsActive(e, s) /\ IsActive(e', s)
Ended(s) == phase = "events" /\ ~Dropped /\ IsActive(e, s) /\ ~IsActive(e', s)
BeganAsPalm(s) == <<s, e'.contact[s].tracking_id>> \in h.labels

\* Gestures this step reports.
NewGestures ==
  {e'.gestures[i] : i \in (Len(e.gestures) + 1)..Len(e'.gestures)}
NewDoubleTaps == {g \in NewGestures : g.direction = "DoubleTap"}

\* Slider steps this step reports for slot s: forward less backward.
NetSteps(s) ==
  LET new == (Len(e.slider_steps) + 1)..Len(e'.slider_steps)
      of(directions) ==
        Cardinality({i \in new : /\ e'.slider_steps[i].slot = s
                                 /\ e'.slider_steps[i].direction \in directions})
  IN of({"Right", "Down"}) - of({"Left", "Up"})

\* The finger lifted from slot s made a tap of an edge.
IsTap(s) ==
  LET c == e.contact[s]
  IN /\ IsClaimed(c) /\ ~h.palm[s] /\ ~h.moved[s] /\ ~h.stepped[s]
     /\ TapDurationIsValid(e.cfg, c.started_at, stamp)

TapGesture(s) ==
  [zone |-> e.contact[s].ownership, direction |-> "Tap", slot |-> s,
   tracking_id |-> e.contact[s].tracking_id]

NewTaps == {TapGesture(s) : s \in {r \in Slots : Ended(r) /\ IsTap(r)}}

\* Buttons down once the presses and releases of a frame have happened.
HeldAfter(buttons) ==
  {c \in Buttons :
     LET uses == {i \in DOMAIN buttons : buttons[i].code = c}
     IN IF uses = {} THEN c \in h.buttons ELSE buttons[Max(uses)].pressed}

FirstAfter ==
  LET lone == {s \in Slots : Ended(s) /\ IsTap(s) /\ ~h.crowded[s]}
      fingers == {s \in Slots : Began(s) /\ ~BeganAsPalm(s)}
      becamePalm == \E s \in Slots :
        /\ Scanned /\ IsActive(e, s)
        /\ h.first.second = e.contact[s].tracking_id
        /\ <<s, e.contact[s].tracking_id>> \in PalmLabels(frame.events)
  IN IF Pressed \/ Dropped \/ NewDoubleTaps # {} THEN NoFirst
     ELSE IF lone # {}
          THEN LET c == e.contact[CHOOSE s \in lone : TRUE]
               IN [zone |-> c.ownership, released |-> stamp,
                   x |-> c.current_x, y |-> c.current_y, second |-> None]
     ELSE IF h.first = NoFirst THEN NoFirst
     ELSE IF becamePalm THEN [h.first EXCEPT !.second = None]
     ELSE IF fingers = {} THEN h.first
     ELSE IF h.first.second # None THEN NoFirst
     ELSE [h.first EXCEPT !.second =
             e'.contact[CHOOSE s \in fingers : TRUE].tracking_id]

HUpdate ==
  h' = [ labels |-> IF Scanned THEN PalmLabels(frame.events) ELSE h.labels,
         tool |-> [s \in Slots |->
           IF Scanned THEN ToolAfter(frame.events, Len(frame.events), s)
           ELSE IF Restored THEN e'.memory[s].tool_type ELSE h.tool[s]],
         palm |-> [s \in Slots |->
           CASE Began(s) -> BeganAsPalm(s)
             [] Scanned /\ IsActive(e, s) ->
                  \/ h.palm[s]
                  \/ <<s, e.contact[s].tracking_id>> \in PalmLabels(frame.events)
             [] Restored -> IsActive(e', s) /\ e'.memory[s].tool_type = PalmTool
             [] ~Began(s) /\ ~(Scanned /\ IsActive(e, s)) /\ ~Restored ->
                  h.palm[s] /\ IsActive(e', s)],
         moved |-> [s \in Slots |->
           ~Began(s) /\ IsActive(e', s)
           /\ (h.moved[s] \/ MovedFarEnough(e'.cfg, e'.contact[s]))],
         stepped |-> [s \in Slots |->
           IsActive(e', s) /\ ((~Began(s) /\ h.stepped[s]) \/ NetSteps(s) # 0)],
         net |-> [s \in Slots |->
           IF Began(s) \/ ~IsActive(e', s) THEN 0 ELSE h.net[s] + NetSteps(s)],
         crowded |-> [s \in Slots |->
           /\ IsActive(e', s)
           /\ \/ h.crowded[s] /\ ~Began(s)
              \/ Pressed
              \/ /\ Began(s)
                 /\ \E r \in Slots \ {s} : IsActive(e, r) /\ ~h.palm[r]
              \/ \E r \in Slots \ {s} : Began(r) /\ ~BeganAsPalm(r)],
         buttons |->
           IF Dropped THEN {} ELSE IF Restored THEN e'.pressed
           ELSE IF phase = "idle" /\ phase' = "scan"
                THEN HeldAfter(frame'.buttons) ELSE h.buttons,
         owed |-> IF Dropped \/ NewDoubleTaps # {} THEN {}
                  ELSE {g \in h.owed \cup NewTaps :
                          /\ g.zone \in e.cfg.single_tap_zones
                          /\ g \notin NewGestures},
         first |-> FirstAfter ]

HNext == Next /\ HUpdate

HSpec == HInit /\ [][HNext]_hvars

-----------------------------------------------------------------------------
(* Properties                                                              *)

\* A contact is excluded from recognition exactly when the touchpad has called
\* it a palm, in whatever order a frame's events put the label, the id and the
\* coordinates, and although a slot keeps its tool type across contacts
\* (frame_contact_tools and the rejections it leads to).
PalmsAreRejected ==
  phase \in {"events", "finalize", "idle"} =>
    \A s \in Slots : IsActive(e, s) =>
      (e.contact[s].gesture_rejected <=> h.palm[s])

\* No valid tap is lost: until it is reported, paired into a double tap or
\* cancelled by SYN_DROPPED it is the engine's pending tap.
OwedTapIsPending ==
  \A g \in h.owed : HasPendingTap(e) /\ e.pending_tap.gesture = g

\* On a buttonpad whose button is down every finger is forwarded, the ones
\* that were edge-owned before the press and the ones that came after it.
PressedPadHasNoEdges ==
  phase = "idle" /\ Buttonpad /\ h.buttons # {} =>
    \A s \in Slots : IsActive(e, s) => e.contact[s].ownership = "Passthrough"

\* A slider follows the finger without losing what is less than a step: at the
\* end of a frame the reported steps and the finger differ by less than one.
SliderKeepsRemainder ==
  phase = "idle" => \A s \in Slots :
    LET c == e.contact[s]
        step == IF IsClaimed(c) THEN e.cfg.sliders[c.ownership] ELSE 0
        start == IF IsVertical(c.ownership) THEN c.start_y ELSE c.start_x
    IN ~c.gesture_rejected /\ step > 0 =>
         Distance(start + h.net[s] * step, SliderPosition(c.ownership, c)) < step

\* A double tap is two lone taps of one edge, close in time and place, with no
\* other finger, press or lost event in between, the first one not reported.
DoubleTapIsTwoTaps ==
  [][\A g \in NewDoubleTaps :
       LET c == e.contact[g.slot]
       IN /\ Ended(g.slot) /\ IsTap(g.slot) /\ ~h.crowded[g.slot]
          /\ h.first # NoFirst
          /\ h.first.second = c.tracking_id
          /\ h.first.zone = g.zone /\ c.ownership = g.zone
          /\ c.started_at >= h.first.released
          /\ c.started_at - h.first.released < e.cfg.double_tap_timeout
          /\ (c.start_x - h.first.x) * (c.start_x - h.first.x)
              + (c.start_y - h.first.y) * (c.start_y - h.first.y)
             <= e.cfg.double_tap_max_distance * e.cfg.double_tap_max_distance]_hvars

\* What a lifted finger meant is decided once: a contact that was a palm, was
\* forwarded or stepped a slider leaves no gesture, and a tap never left the
\* slop even if it came back to its start.
OneMeaningPerContact ==
  [][\A s \in Slots : Ended(s) =>
       LET own == {g \in NewGestures :
                     g.slot = s /\ g.tracking_id = e.contact[s].tracking_id}
           deferred == /\ HasPendingTap(e') /\ e'.pending_tap # e.pending_tap
           taps == {g \in own : g.direction \in {"Tap", "DoubleTap"}}
       IN /\ own # {} \/ deferred =>
               ~h.palm[s] /\ ~h.stepped[s] /\ IsClaimed(e.contact[s])
          /\ taps # {} \/ deferred => ~h.moved[s]
          /\ ~(own # {} /\ deferred)
          /\ Len(e'.gestures) <= Len(e.gestures) + 2]_hvars

=============================================================================
