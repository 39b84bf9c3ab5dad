------------------------------- MODULE Pipeline -------------------------------
(***************************************************************************)
(* The whole way of a frame through a proxy session: Engine, the composer  *)
(* and the virtual touchpad (process_proxy_frame_with_handler and its      *)
(* neighbours in src/proxy/session/output.rs), to the end of the session   *)
(* (finish_proxy_output, settle_after_uinput_proxy_run).  The engine's     *)
(* output is composed and written where EndFrame hands it over.            *)
(***************************************************************************)
EXTENDS Engine, RawOutput

\* The touchpad presses only keys it has, and labels all of its slots or none.
ASSUME SentKeysAssumption ==
  /\ \A f \in Frames \cup OddFrames : Codes(f.buttons, TRUE) \cup Codes(f.buttons, FALSE) \subseteq Keys
  /\ \A snapshot \in Snapshots : snapshot.pressed \subseteq Keys

ASSUME SentLabelsAssumption ==
  /\ \A s \in Slots : HasToolType <=> StartMemory[s].tool_type # None
  /\ \A snapshot \in Snapshots, s \in Slots :
       HasToolType <=> snapshot.memory[s].tool_type # None
  /\ \A f \in Frames \cup OddFrames : \A i \in DOMAIN f.events :
       f.events[i].kind = "ToolType" => HasToolType /\ f.events[i].value # None

\* What is odd about a frame is that it names a slot the touchpad does not have.
ASSUME OddFramesAssumption ==
  \A f \in OddFrames : \E i \in DOMAIN f.events :
    f.events[i].kind = "Slot" /\ f.events[i].value \notin Slots

VARIABLES
  composer,   \* ProxySession.composer
  pad,        \* the virtual touchpad
  buttons,    \* RoutedRawFrame.physical_buttons of the call under way
  physical,   \* the buttons that are down on the physical touchpad
  labels,     \* the tool type of each of its slots, None if it has none
  session,    \* "running"; then "stopped" or "failed"
  astray      \* history: a recovery took the kernel to be at another slot

pvars == <<vars, composer, pad, buttons, physical, labels, session, astray>>

PInit ==
  /\ Init
  /\ composer = NewComposer
  /\ pad = NewPad
  /\ buttons = <<>>
  /\ physical = {}
  /\ labels = [s \in Slots |-> StartMemory[s].tool_type]
  /\ session = "running"
  /\ astray = FALSE

\* Buttons down after the events of a frame; a button changes as it can.
ButtonMoves(down, b) == IF b.pressed THEN down \cup {b.code} ELSE down \ {b.code}

ButtonsAfter(down, events) == FoldLeft(ButtonMoves, down, events)

\* The labels after the events of a frame.
LabelsAfter(events) ==
  [s \in Slots |->
    LET given == {i \in DOMAIN events : events[i].kind = "ToolType" /\ SlotAt(events, i) = s}
    IN IF given = {} THEN labels[s] ELSE events[Max(given)].value]

Alternates(down, events) ==
  \A i \in DOMAIN events :
    events[i].pressed =
      (events[i].code \notin ButtonsAfter(down, SubSeq(events, 1, i - 1)))

TakeFrame(f, t) ==
  /\ StartFrame(f, t)
  /\ Alternates(physical, f.buttons)
  /\ buttons' = f.buttons
  /\ physical' = ButtonsAfter(physical, f.buttons)
  /\ labels' = LabelsAfter(f.events)
  /\ UNCHANGED <<composer, pad, astray>>

EngineStep ==
  /\ FrameStep
  /\ UNCHANGED <<composer, pad, buttons, physical, labels, astray>>

\* The buttons of a snapshot are pressed again on the virtual touchpad.
Recover(snapshot) ==
  /\ Resync(snapshot)
  /\ LET down == SetToSeq(snapshot.pressed)
     IN buttons' = [i \in DOMAIN down |-> [code |-> down[i], pressed |-> TRUE]]
  /\ physical' = snapshot.pressed
  /\ labels' = [s \in Slots |-> snapshot.memory[s].tool_type]
  /\ astray' = (astray \/ snapshot.slot # RestoredSlot(SnapshotContacts(snapshot)))
  /\ UNCHANGED <<composer, pad>>

QuietStep ==
  /\ AdvanceTime \/ \E cfg \in Configs : Reload(cfg)
  /\ UNCHANGED <<composer, pad, buttons, physical, labels, astray>>

Joined(events, more) == events \o more

\* RoutedRawFrame: promoted and restored contacts first.
Routed ==
  [ passthrough |->
      FoldLeft(Joined, <<>>, [i \in DOMAIN AllSlots |-> e.downs[AllSlots[i]]])
      \o e.passthrough,
    buttons |-> buttons,
    resync_required |-> e.resync_required ]

WriteFrame ==
  /\ EndFrame
  /\ LET out == ComposeFrame(composer, Routed)
     IN composer' = out.composer /\ pad' = PadAfter(pad, out.events)
  /\ buttons' = <<>>
  /\ UNCHANGED <<physical, labels, astray>>

\* The session ends cleanly between frames, also before a snapshot was read.
Stop ==
  /\ phase \in {"idle", "resync"}
  /\ composer' = Finish(composer).composer
  /\ pad' = Settled(PadAfter(pad, Finish(composer).events))
  /\ session' = "stopped"
  /\ UNCHANGED <<vars, buttons, physical, labels, astray>>

\* An input, a snapshot or an output error, or a frame the engine refused: only
\* the settle frame is written, after what the sink had buffered is dropped.
SessionFails ==
  /\ \/ phase \in {"idle", "resync", "error"}
     \/ phase = "finalize" /\ at > SlotMax
  /\ pad' = Settled(pad)
  /\ session' = "failed"
  /\ UNCHANGED <<vars, composer, buttons, physical, labels, astray>>

PNext ==
  /\ session = "running"
  /\ \/ /\ \/ \E f \in Frames \cup OddFrames, t \in Stamps : TakeFrame(f, t)
           \/ EngineStep
           \/ WriteFrame
           \/ \E snapshot \in Snapshots : Recover(snapshot)
           \/ QuietStep
        /\ UNCHANGED session
     \/ Stop
     \/ SessionFails

PSpec == PInit /\ [][PNext]_pvars

-----------------------------------------------------------------------------
(* Properties                                                              *)

Forwarded(s) == e.contact[s].ownership = "Passthrough"
ForwardedSlots == {s \in Slots : Forwarded(s)}
BetweenFrames == session = "running" /\ phase = "idle"

\* The contacts the engine forwards, in their slots.
ContactsFollow ==
  \A s \in Slots : pad.ids[s] = IF Forwarded(s) THEN e.contact[s].tracking_id ELSE None

\* BTN_TOUCH and the one tool key that is down.
KeysFollowCount ==
  LET count == Cardinality(ForwardedSlots)
  IN /\ pad.touch <=> count > 0
     /\ pad.tools = IF count = 0 THEN {} ELSE {ToolFor(count)}

\* A palm that is let through is a palm there, where libinput rejects it, and
\* the finger after it in the slot is not one.
LabelsFollow ==
  \A s \in ForwardedSlots :
    pad.tool[s] = IF PalmRejection /\ labels[s] # None THEN labels[s] ELSE FingerTool

\* No frame puts a contact into a slot that has one, or lifts one that is not
\* there: libinput would see one finger jump where two touched.
OutputIsLegal == pad.legal

\* Between frames the virtual touchpad has exactly the contacts the engine
\* forwards, with their number and the physical buttons, whatever was held
\* back, promoted, lost or restored on the way.  It has their labels too, and no
\* frame made an illegal step to get there, unless a recovery took the kernel to
\* be at another slot than it was (core.rs: the last restored contact's): from
\* then on events can be taken for a slot they are not about.
PadMirrorsForwarded ==
  /\ BetweenFrames => ContactsFollow /\ KeysFollowCount /\ pad.keys = physical
  /\ ~astray => OutputIsLegal /\ (BetweenFrames => LabelsFollow)

\* A forwarded contact is where the finger is: in its own slot, and for the
\* first one in the pointer emulation (append_legacy_state_events).
ForwardedAtItsPosition ==
  BetweenFrames =>
    /\ \A s \in ForwardedSlots : /\ pad.x[s] = e.contact[s].current_x
                                 /\ pad.y[s] = e.contact[s].current_y
    /\ ForwardedSlots # {} =>
         LET c == e.contact[Min(ForwardedSlots)]
         IN pad.abs_x = c.current_x /\ pad.abs_y = c.current_y

\* However a session ends nothing stays down on the virtual touchpad; only
\* after an error can a button, which goes with the device.
EndedIsNeutral ==
  session # "running" =>
    /\ \A s \in Slots : pad.ids[s] = None
    /\ ~pad.touch /\ pad.tools = {}
    /\ session = "stopped" => pad.keys = {}

=============================================================================
