------------------------------ MODULE RawOutput ------------------------------
(***************************************************************************)
(* What becomes of a routed frame (src/raw/output.rs): the composer turns  *)
(* the forwarded events and buttons into one frame for the virtual         *)
(* touchpad, adding the pointer-emulation state of the contacts it has let *)
(* through, and takes all of it back when events are lost or the proxy     *)
(* stops.  The virtual touchpad is the kernel's uinput device: it keeps    *)
(* the last value of every axis and key.                                   *)
(***************************************************************************)
EXTENDS EngineOps, SequencesExt, FiniteSetsExt

CONSTANTS
  Keys,         \* the keys of the physical touchpad, with and without Buttons
  HasToolType   \* it labels its contacts

ASSUME TouchpadAssumption == HasToolType \in BOOLEAN /\ IsFiniteSet(Keys)

OutputEvent(kind, value) == [kind |-> kind, value |-> value]

NoPosition == <<None, None>>
FreeOutputSlot == [active |-> FALSE, x |-> None, y |-> None]
NoOutputSlots == [s \in Slots |-> FreeOutputSlot]

NewComposer ==
  [ current_slot |-> SlotMin, slots |-> NoOutputSlots, contact_count |-> 0,
    position |-> NoPosition, pressed |-> {} ]

-----------------------------------------------------------------------------
(* RawOutputComposer                                                       *)

\* A new contact, or the end of one, voids what the slot knew.
ApplyPassthrough(c, ev) ==
  LET s == c.current_slot
  IN CASE ev.kind = "Slot" -> [c EXCEPT !.current_slot = ev.value]
       [] ev.kind = "TrackingId" ->
            [c EXCEPT !.slots[s] =
               [FreeOutputSlot EXCEPT !.active = (ev.value # None)]]
       [] ev.kind = "X" -> [c EXCEPT !.slots[s].x = ev.value]
       [] ev.kind = "Y" -> [c EXCEPT !.slots[s].y = ev.value]
       [] OTHER -> c

ActiveOutputSlots(c) == {s \in Slots : c.slots[s].active}

RepresentativePosition(c) ==
  LET known == {s \in ActiveOutputSlots(c) :
                  c.slots[s].x # None /\ c.slots[s].y # None}
  IN IF known = {} THEN NoPosition
     ELSE <<c.slots[Min(known)].x, c.slots[Min(known)].y>>

\* BTN_TOOL_FINGER .. BTN_TOOL_QUINTTAP: the last stands for five and more.
ToolFor(count) == Min({count, 5})

ToolChanges(before, count) ==
  IF before = count THEN <<>>
  ELSE (IF before > 0 THEN <<OutputEvent("ToolUp", ToolFor(before))>> ELSE <<>>)
       \o (IF count > 0 THEN <<OutputEvent("ToolDown", ToolFor(count))>> ELSE <<>>)

\* Mutant: the representative's axes are sent as soon as either changed, and
\* the contact that takes over keeps its predecessor's other axis.
BothOrNothing(before, position) ==
  IF position = NoPosition \/ position[1] = before[1] THEN <<>>
  ELSE <<OutputEvent("AbsX", position[1]), OutputEvent("AbsY", position[2])>>

PositionChanges(before, position) ==
  IF position = NoPosition THEN <<>>
  ELSE (IF position[1] = before[1] THEN <<>>
        ELSE <<OutputEvent("AbsX", position[1])>>)
       \o (IF position[2] = before[2] THEN <<>>
           ELSE <<OutputEvent("AbsY", position[2])>>)

\* append_legacy_state_events: what changed in the pointer emulation.
LegacyEvents(c) ==
  LET count == Cardinality(ActiveOutputSlots(c))
      touch == IF (c.contact_count > 0) = (count > 0) THEN <<>>
               ELSE <<OutputEvent("Touch", count > 0)>>
  IN touch \o ToolChanges(c.contact_count, count)
     \o PositionChanges(c.position, RepresentativePosition(c))

RememberLegacy(c) ==
  [c EXCEPT !.contact_count = Cardinality(ActiveOutputSlots(c)),
            !.position = RepresentativePosition(c)]

ApplyButton(c, button) ==
  [c EXCEPT !.pressed = IF button.pressed THEN @ \cup {button.code}
                                          ELSE @ \ {button.code}]

ButtonEvent(button) ==
  OutputEvent(IF button.pressed THEN "Press" ELSE "Release", button.code)

\* Both compose_frame and finish answer with the composer's next state and
\* the frame to write.
Composed(c, events) == [composer |-> c, events |-> events]

AllSlots == [i \in 1..(SlotMax - SlotMin + 1) |-> SlotMin + i - 1]

\* A contact is lifted after a switch to its slot, if one is needed.
LiftSlot(out, s) ==
  LET c == out.composer
      switch == IF s = c.current_slot THEN <<>> ELSE <<SlotEvent(s)>>
  IN IF ~c.slots[s].active THEN out
     ELSE Composed([c EXCEPT !.current_slot = s, !.slots[s] = FreeOutputSlot],
                   out.events \o switch \o <<TrackingIdEvent(None)>>)

Lifted(c) == FoldLeft(LiftSlot, Composed(c, <<>>), AllSlots)

Finish(c) ==
  LET released == SetToSeq(c.pressed)
  IN Composed(NewComposer,
       Lifted(c).events \o LegacyEvents(Lifted(c).composer)
       \o [i \in DOMAIN released |-> OutputEvent("Release", released[i])])

\* A RoutedRawFrame: [passthrough, buttons : Seq, resync_required : BOOLEAN].
ComposeFrame(c, routed) ==
  LET passed == FoldLeft(ApplyPassthrough, c, routed.passthrough)
      keys == FoldLeft(ApplyButton, RememberLegacy(passed), routed.buttons)
  IN IF routed.resync_required THEN Finish(c)
     ELSE Composed(keys,
            routed.passthrough \o LegacyEvents(passed)
            \o [i \in DOMAIN routed.buttons |-> ButtonEvent(routed.buttons[i])])

-----------------------------------------------------------------------------
(* The virtual touchpad                                                    *)

NewPad ==
  [ slot |-> SlotMin, ids |-> [s \in Slots |-> None],
    x |-> [s \in Slots |-> 0], y |-> [s \in Slots |-> 0],
    tool |-> [s \in Slots |-> FingerTool],
    touch |-> FALSE, tools |-> {}, abs_x |-> 0, abs_y |-> 0, keys |-> {},
    legal |-> TRUE ]      \* no contact replaced or lifted that was not there

\* VirtualTouchpadSpec, as far as devices differ: the axes of contacts and
\* pointer emulation and the keys for them are always declared.
VirtualTouchpadSpec ==
  [tool_type |-> HasToolType /\ PalmRejection, keys |-> Keys \cap Buttons]

\* The kernel drops an event that the device did not declare.
Declared(ev) ==
  /\ ev.kind = "ToolType" => VirtualTouchpadSpec.tool_type
  /\ ev.kind \in {"Press", "Release"} => ev.value \in VirtualTouchpadSpec.keys

PadStep(d, ev) ==
  LET s == d.slot
  IN CASE ev.kind = "Slot" -> [d EXCEPT !.slot = ev.value]
       [] ev.kind = "TrackingId" ->
            [d EXCEPT !.ids[s] = ev.value,
                      !.legal = @ /\ (ev.value = None) # (d.ids[s] = None)]
       [] ev.kind = "X" -> [d EXCEPT !.x[s] = ev.value]
       [] ev.kind = "Y" -> [d EXCEPT !.y[s] = ev.value]
       [] ev.kind = "ToolType" -> [d EXCEPT !.tool[s] = ev.value]
       [] ev.kind = "Touch" -> [d EXCEPT !.touch = ev.value]
       [] ev.kind = "ToolDown" -> [d EXCEPT !.tools = @ \cup {ev.value}]
       [] ev.kind = "ToolUp" -> [d EXCEPT !.tools = @ \ {ev.value}]
       [] ev.kind = "AbsX" -> [d EXCEPT !.abs_x = ev.value]
       [] ev.kind = "AbsY" -> [d EXCEPT !.abs_y = ev.value]
       [] ev.kind = "Press" -> [d EXCEPT !.keys = @ \cup {ev.value}]
       [] ev.kind = "Release" -> [d EXCEPT !.keys = @ \ {ev.value}]
       [] OTHER -> d

PadTakes(d, ev) == IF Declared(ev) THEN PadStep(d, ev) ELSE d

PadAfter(d, events) == FoldLeft(PadTakes, d, events)

\* Mutant: the settle frame lifts the slots and leaves the keys.
SettleSlots(d) == [d EXCEPT !.slot = SlotMax, !.ids = [s \in Slots |-> None]]

\* The settle frame of a session's end: every slot lifted, every touch and
\* tool key up.  Lifting a free slot changes nothing.
Settled(d) ==
  [d EXCEPT !.slot = SlotMax, !.ids = [s \in Slots |-> None],
            !.touch = FALSE, !.tools = {}]

=============================================================================
