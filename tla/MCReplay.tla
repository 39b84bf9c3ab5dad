------------------------------- MODULE MCReplay -------------------------------
(* Small instances of Replay for TLC.                                       *)
EXTENDS Replay

Plain(evs) == [events |-> evs, buttons |-> <<>>]
Down(s, id, more) == Plain(<<SlotEvent(s), TrackingIdEvent(id)>> \o more)
Up(s) == Plain(<<SlotEvent(s), TrackingIdEvent(None)>>)
SwitchFree(f) == Plain(Tail(f.events))
Click(pressed) ==
  [events |-> <<>>, buttons |-> <<[code |-> "left", pressed |-> pressed]>>]

\* What a contact's frame brings: a coordinate that the slot has already is
\* left out.  The second finger is on the edge as the first, or beside it.
FirstFinger == {<<XEvent(0), YEvent(5)>>, <<YEvent(5)>>, <<>>}
SecondFinger == {<<ToolTypeEvent(FingerTool), XEvent(5), YEvent(5)>>,
                 <<ToolTypeEvent(FingerTool)>>, <<XEvent(5), YEvent(5)>>}

\* Two fingers, the first on the left edge, where a slider runs too in one of
\* the settings; a palm label.  A click is in raw recordings only.
RecordedFrames ==
  {Down(0, 0, more) : more \in FirstFinger}
  \cup {Down(1, 1, more) : more \in SecondFinger}
  \cup UNION {{Up(s), SwitchFree(Up(s))} : s \in {0, 1}}
  \cup {SwitchFree(Down(0, 0, <<XEvent(0), YEvent(5)>>))}
  \cup {Plain(<<XEvent(2)>>), Plain(<<YEvent(9)>>), Plain(<<ToolTypeEvent(PalmTool)>>)}
  \cup {Click(TRUE), Click(FALSE)}

RecordedStamps == 1..6
\* A palm was the last contact in slot 1.
KnownAxes ==
  [s \in Slots |-> [x |-> 0, y |-> 3,
                   tool_type |-> IF s = 1 THEN PalmTool ELSE FingerTool]]

Recording ==
  [ left |-> 3, right |-> 0, top |-> 0, bottom |-> 0,
    swipe_min_distance |-> 4, tap_min_duration |-> 1, tap_max_duration |-> 2,
    double_tap_timeout |-> 2, double_tap_max_distance |-> 1,
    double_tap_zones |-> {"Left"}, single_tap_zones |-> {"Left"},
    sliders |-> [z \in Zones |-> 0] ]
RecordedConfigs ==
  {Recording, [Recording EXCEPT !.sliders["Left"] = 3, !.single_tap_zones = {}]}

NoFrames == {}

=============================================================================
