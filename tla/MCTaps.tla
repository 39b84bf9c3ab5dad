-------------------------------- MODULE MCTaps --------------------------------
(* A small instance of EngineOwed for TLC: taps of one or two fingers on    *)
(* the left edge, palm labels, clicks, lost events and time.               *)
EXTENDS EngineOwed

\* One of the two forms is what the kernel sends: a switch only if needed.
To(s) == {<<>>, <<SlotEvent(s)>>}

Plain(events) == [events |-> events, buttons |-> <<>>]
AllPlain(S) == {Plain(evs) : evs \in S}

After(heads, tails) == {a \o b : a \in heads, b \in tails}

\* A contact's first frame with, and without, its coordinates.
Downs(s, ids, xs, y) ==
  After(To(s), {<<TrackingIdEvent(id), XEvent(x), YEvent(y)>> :
                  id \in ids, x \in xs})
SilentDowns(s, ids) == After(To(s), {<<TrackingIdEvent(id)>> : id \in ids})
Lifts(s) == After(To(s), {<<TrackingIdEvent(None)>>})
Moves(s, xs) == After(To(s), {<<XEvent(x)>> : x \in xs})
Relabels(s, tools) == After(To(s), {<<ToolTypeEvent(t)>> : t \in tools})

\* A palm label before, between and after the rest of a contact's first frame,
\* and a label that a later one in the frame corrects.
LabelledDowns(s, x, id) ==
  After(To(s),
    { <<TrackingIdEvent(id), ToolTypeEvent(PalmTool), XEvent(x)>>,
      <<TrackingIdEvent(id), XEvent(x), ToolTypeEvent(PalmTool),
        ToolTypeEvent(FingerTool)>>,
      <<XEvent(x), ToolTypeEvent(FingerTool), TrackingIdEvent(id)>>,
      <<TrackingIdEvent(id), XEvent(x), ToolTypeEvent(FingerTool)>> })

\* A contact lifted and replaced within one frame, and one lifted as another
\* comes down.
Replaced(s, ids, x) ==
  After(To(s), {<<TrackingIdEvent(None), TrackingIdEvent(id), XEvent(x)>> :
                  id \in ids})
Exchanged == {<<TrackingIdEvent(None), SlotEvent(1), TrackingIdEvent(2), XEvent(0)>>}

Clicks ==
  [events : {<<>>} \cup Lifts(0), buttons : {<<[code |-> "left", pressed |-> TRUE]>>}]

TapFrames ==
  AllPlain(
    Downs(0, {0}, {0, 5}, 5) \cup Downs(0, {1}, {2}, 5) \cup SilentDowns(0, {0})
    \cup Lifts(0) \cup Moves(0, {0, 2}) \cup Relabels(0, {PalmTool})
    \cup LabelledDowns(0, 0, 0) \cup Replaced(0, {0, 1}, 1) \cup Exchanged
    \cup Downs(1, {2}, {0}, 5) \cup Lifts(1) \cup {<<SynDroppedEvent>>})
  \cup Clicks
TapOddFrames == AllPlain({<<SlotEvent(7)>>})
TapStamps == 1..5
TapMemory == [s \in Slots |-> [x |-> 0, y |-> 5, tool_type |-> FingerTool]]
TapSnapshots ==
  {[ids |-> [s \in Slots |-> None], memory |-> TapMemory, pressed |-> {}, slot |-> SlotMin]}

\* The profiles to reload between differ in what they bind, not in durations.
Profile ==
  [ left |-> 3, right |-> 0, top |-> 0, bottom |-> 0,
    swipe_min_distance |-> 2, tap_min_duration |-> 1, tap_max_duration |-> 2,
    double_tap_timeout |-> 2, double_tap_max_distance |-> 1,
    double_tap_zones |-> {"Left"}, single_tap_zones |-> {"Left"},
    sliders |-> [z \in Zones |-> 0] ]
TapConfigs ==
  {Profile, [Profile EXCEPT !.single_tap_zones = {}]}

=============================================================================
