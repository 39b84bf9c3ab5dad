------------------------------- MODULE MCEngine -------------------------------
(* A small instance of EngineHistory for TLC: two fingers, clicks, a slider *)
(* on the left edge, swipes on the top one, lost events; untimed frames, as *)
(* in a replay.                                                             *)
EXTENDS EngineHistory

\* One of the two forms is what the kernel sends: a switch only if needed.
To(s) == {<<>>, <<SlotEvent(s)>>}

Plain(events) == [events |-> events, buttons |-> <<>>]
AllPlain(S) == {Plain(evs) : evs \in S}

After(heads, tails) == {a \o b : a \in heads, b \in tails}

Downs(s, ids, xs, y) ==
  After(To(s), {<<TrackingIdEvent(id), XEvent(x), YEvent(y)>> :
                  id \in ids, x \in xs})
Lifts(s) == After(To(s), {<<TrackingIdEvent(None)>>})

Profile ==
  [ left |-> 3, right |-> 0, top |-> 0, bottom |-> 0,
    swipe_min_distance |-> 2, tap_min_duration |-> 1, tap_max_duration |-> 2,
    double_tap_timeout |-> 2, double_tap_max_distance |-> 1,
    double_tap_zones |-> {"Left"}, single_tap_zones |-> {"Left"},
    sliders |-> [z \in Zones |-> 0] ]

Axes(x, y, tool) == [x |-> x, y |-> y, tool_type |-> tool]

Slides(s, ys) == After(To(s), {<<YEvent(y)>> : y \in ys})
Click(code, pressed) == [code |-> code, pressed |-> pressed]

PadContacts ==
  Downs(0, {0}, {0}, 5) \cup Lifts(0) \cup Slides(0, {1, 8})
  \cup Downs(1, {1}, {5}, 1) \cup Lifts(1)
\* Both fingers in one frame: down, the first one without its X, and moving.
PadPairs ==
  { <<TrackingIdEvent(0), YEvent(5), SlotEvent(1), TrackingIdEvent(1), XEvent(5)>>,
    <<SlotEvent(1), YEvent(6), ToolTypeEvent(PalmTool), SlotEvent(0), YEvent(1)>> }
PadFrames ==
  AllPlain(PadContacts \cup PadPairs \cup {<<SynDroppedEvent>>})
  \cup [events : {<<>>} \cup Downs(1, {1}, {5}, 1),
        buttons : {<<Click("left", TRUE)>>, <<Click("left", FALSE)>>}]
PadOddFrames == AllPlain({<<TrackingIdEvent(3)>>, <<SlotEvent(9), XEvent(5)>>})
PadStamps == {None}
PadMemory == [s \in Slots |-> Axes(5, 5, None)]

SliderProfile ==
  [Profile EXCEPT !.top = 2, !.swipe_min_distance = 5, !.sliders["Left"] = 3, !.double_tap_zones = {}]
PadConfigs == {SliderProfile}

\* The kernel's own slot is the one the engine assumes after a recovery.
PadSnapshots ==
  LET snapshot(ids, pressed, slot) ==
        [ids |-> ids, memory |-> PadMemory, pressed |-> pressed, slot |-> slot]
  IN { snapshot([s \in Slots |-> s], {}, 1),
       snapshot([s \in Slots |-> IF s = 0 THEN 0 ELSE None], {"left"}, 0) }

=============================================================================
