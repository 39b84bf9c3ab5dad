------------------------------ MODULE MCPipeline ------------------------------
(* A small instance of Pipeline for TLC.                                    *)
EXTENDS Pipeline

To(s) == {<<>>, <<SlotEvent(s)>>}
After(heads, tails) == {a \o b : a \in heads, b \in tails}
Plain(events) == [events |-> events, buttons |-> <<>>]
AllPlain(S) == {Plain(evs) : evs \in S}

Down(id, x, y) == <<TrackingIdEvent(id), XEvent(x), YEvent(y)>>
Lifts(s) == After(To(s), {<<TrackingIdEvent(None)>>})

Axes(x, y, tool) == [x |-> x, y |-> y, tool_type |-> tool]

Profile ==
  [ left |-> 3, right |-> 0, top |-> 0, bottom |-> 0,
    swipe_min_distance |-> 5, tap_min_duration |-> 0, tap_max_duration |-> 2,
    double_tap_timeout |-> 2, double_tap_max_distance |-> 1,
    double_tap_zones |-> {}, single_tap_zones |-> {"Left"},
    sliders |-> [z \in Zones |-> 0] ]

\* The left edge takes double taps in the other profile; all frames have one
\* time, at which a tap can be over and be pending.
TapProfile == [Profile EXCEPT !.double_tap_zones = {"Left"}]
TwoProfiles == {Profile, TapProfile}
OneStamp == {1}

Press == [code |-> "left", pressed |-> TRUE]
Release == [code |-> "left", pressed |-> FALSE]

\* An edge finger or palm, a centre finger without a label of its own, a button
\* that is pressed or released as a finger comes down.
LabelledDowns(s, id, x, y) ==
  {<<SlotEvent(s), ToolTypeEvent(PalmTool)>> \o Down(id, x, y),
   Down(id, x, y) \o <<ToolTypeEvent(FingerTool)>>}
ClickFrames ==
  AllPlain({Down(0, 6, 5)} \cup LabelledDowns(0, 0, 0, 5) \cup Lifts(0)
           \cup {<<XEvent(6), YEvent(5)>>, <<ToolTypeEvent(PalmTool)>>, <<SynDroppedEvent>>}
           \cup {<<SlotEvent(1)>> \o Down(1, 6, 7)} \cup Lifts(1))
  \cup {[events |-> <<>>, buttons |-> <<Press>>]}
  \cup [events : {<<SlotEvent(1)>> \o Down(1, 0, 7)}, buttons : {<<Press>>, <<Release>>}]
PipeOddFrames == AllPlain({<<SlotEvent(9), XEvent(5)>>})
PipeMemory == [s \in Slots |-> Axes(5, 5, FingerTool)]

\* The engine assumes the slot of the last contact after a recovery: the
\* kernel is there in the first two snapshots, and elsewhere in the third.
PipeSnapshots ==
  LET snapshot(slots, tool, down, slot) ==
        [ids |-> [s \in Slots |-> IF s \in slots THEN s ELSE None],
         memory |-> [s \in Slots |-> Axes(0, 5, tool)],
         pressed |-> down, slot |-> slot]
  IN {snapshot({0, 1}, FingerTool, {"left"}, 1), snapshot({0}, PalmTool, {}, 0),
      snapshot({0, 1}, PalmTool, {}, 0)}

=============================================================================
