-------------------------------- MODULE Engine --------------------------------
(***************************************************************************)
(* The recognizer driven by the live proxy: route_raw_frame around         *)
(* process_frame_with_time (src/raw/routing.rs, src/core/frame.rs), the    *)
(* recognition deadline, recovery from lost events and reload.             *)
(*                                                                         *)
(* One frame is a run of actions: StartFrame takes it (button presses come *)
(* first), ScanEvent is the palm prepass, BeginEvents rejects and expires, *)
(* then one action per event, FinalizeSlot per slot, and EndFrame (button  *)
(* releases come last).  Nothing interleaves with the run: phase "idle" is *)
(* the only one in which anything else can happen, as in the proxy loop.   *)
(***************************************************************************)
EXTENDS EngineOps, FiniteSetsExt

CONSTANTS
  Frames,        \* input frames: [events : Seq(Event), buttons : Seq(...)]
  OddFrames,     \* those of them a well-behaved kernel would not send
  Stamps,        \* frame timestamps; None is a frame without one
  Snapshots,     \* kernel states that can be read after lost events
  StartMemory,   \* slot axes the kernel holds when the engine is seeded
  MinGap,        \* least time between two timestamped frames
  MaxTime        \* bound: frames stop when the clock reaches it

Button == [code : Buttons, pressed : BOOLEAN]
Frame == [events : Seq(Event), buttons : Seq(Button)]
FrameTool == [tool_type : Int, palm_reported : BOOLEAN]
NoTool == [tool_type |-> None, palm_reported |-> FALSE]
Snapshot == [ids : [Slots -> TrackingIds \cup {None}],
             memory : [Slots -> Memory], pressed : SUBSET Buttons,
             slot : Slots]

EventInRange(ev) ==
  /\ ev \in Event
  /\ ev.kind = "TrackingId" => ev.value \in TrackingIds \cup {None}

ASSUME SlotsAssumption == SlotMin \in Int /\ SlotMax \in Int /\ SlotMin <= SlotMax
ASSUME SpanAssumption == Span \in Nat \ {0}
ASSUME IdsAssumption == TrackingIds \subseteq Nat
ASSUME ConfigsAssumption == Configs \subseteq ConfigType
ASSUME SwitchesAssumption == PalmRejection \in BOOLEAN /\ Buttonpad \in BOOLEAN
ASSUME FramesAssumption ==
  /\ Frames \cup OddFrames \subseteq Frame
  /\ \A f \in Frames \cup OddFrames :
       \A i \in DOMAIN f.events : EventInRange(f.events[i])
ASSUME StampsAssumption == Stamps \subseteq Nat \cup {None}
ASSUME TimeAssumption == MinGap \in Nat /\ MaxTime \in Nat
ASSUME SnapshotsAssumption == Snapshots \subseteq Snapshot
ASSUME MemoryAssumption == StartMemory \in [Slots -> Memory]

VARIABLES
  e,        \* the engine
  phase,    \* where in a frame the engine is
  frame,    \* the frame being processed
  stamp,    \* its timestamp
  at,       \* index of the next event, or the next slot to finalize
  scan,     \* the prepass of frame_contact_tools
  clock,    \* the last timestamp seen
  kernel    \* the kernel's multitouch state as the events so far give it

vars == <<e, phase, frame, stamp, at, scan, clock, kernel>>

NoFrame == [events |-> <<>>, buttons |-> <<>>]
EmptyScan == [slot |-> SlotMin, tools |-> [s \in Slots |-> None],
              ids |-> [s \in Slots |-> None],
              contacts |-> [s \in Slots |-> [id \in TrackingIds |-> NoTool]]]

Codes(buttons, pressed) ==
  {buttons[i].code : i \in {j \in DOMAIN buttons : buttons[j].pressed = pressed}}

-----------------------------------------------------------------------------
(* What the kernel can send (type-B protocol): a switch only to another    *)
(* slot, a new id only in a free slot, a lift only of a contact, axes only *)
(* for a slot in use.                                                      *)

SlotAt(evs, i) ==
  LET switches == {j \in 1..i : evs[j].kind = "Slot"}
  IN IF switches = {} THEN kernel.slot ELSE evs[Max(switches)].value

IdAfter(evs, i, s) ==
  LET ids == {j \in 1..i : evs[j].kind = "TrackingId" /\ SlotAt(evs, j) = s}
  IN IF ids = {} THEN kernel.ids[s] ELSE evs[Max(ids)].value

IsFreshId(evs, i) ==
  /\ \A s \in Slots : kernel.ids[s] # evs[i].value
  /\ \A j \in 1..(i - 1) :
       evs[j].kind = "TrackingId" => evs[j].value # evs[i].value

Conforms(evs) ==
  \A i \in DOMAIN evs :
    LET before == IF i = 1 THEN kernel.slot ELSE SlotAt(evs, i - 1)
        s == SlotAt(evs, i)
        id == IdAfter(evs, i - 1, s)
    IN CASE evs[i].kind = "Slot" -> evs[i].value \in Slots \ {before}
         [] evs[i].kind = "TrackingId" ->
              IF evs[i].value = None THEN id # None
              ELSE id = None /\ IsFreshId(evs, i)
         [] evs[i].kind \in {"X", "Y", "ToolType"} ->
              id # None \/ IdAfter(evs, Len(evs), s) # None
         [] OTHER -> Len(evs) = 1        \* SYN_DROPPED stands alone

-----------------------------------------------------------------------------
Init ==
  /\ \E cfg \in Configs : e = NewEngine(cfg, SeededMemory(StartMemory))
  /\ phase = "idle"
  /\ frame = NoFrame
  /\ stamp = None
  /\ at = 1
  /\ scan = EmptyScan
  /\ clock = 0
  /\ kernel = [slot |-> SlotMin, ids |-> [s \in Slots |-> None]]

\* The map and the two vectors frame_contact_tools starts from.
StartScan(en) ==
  [ slot |-> en.current_slot,
    tools |-> [s \in Slots |-> en.memory[s].tool_type],
    ids |-> [s \in Slots |-> en.contact[s].tracking_id],
    contacts |->
      [s \in Slots |-> [id \in TrackingIds |->
         IF en.contact[s].tracking_id = id
         THEN [tool_type |-> en.memory[s].tool_type,
               palm_reported |-> en.contact[s].gesture_rejected]
         ELSE NoTool]] ]

\* A press ends temporal pairing and, on a buttonpad, promotes the claimed
\* contacts, before any event of the frame.
PressButtons(en, codes) ==
  LET interrupted == InterruptTapSequence(en)
  IN IF codes = {} THEN en
     ELSE IF ~Buttonpad THEN interrupted
     ELSE PromoteClaimedContacts(
            [interrupted EXCEPT !.pressed = @ \cup codes])

StartFrame(f, t) ==
  /\ phase = "idle"
  /\ clock < MaxTime
  /\ t # None => t >= clock + MinGap
  /\ f \in OddFrames \/ Conforms(f.events)
  /\ LET en == PressButtons(e, Codes(f.buttons, TRUE))
     IN /\ e' = en
        /\ scan' = IF PalmRejection THEN StartScan(en) ELSE EmptyScan
  /\ frame' = f
  /\ stamp' = t
  /\ at' = IF PalmRejection THEN 1 ELSE Len(f.events) + 1
  /\ clock' = IF t = None THEN clock ELSE t
  /\ phase' = "scan"
  /\ UNCHANGED kernel

\* Err(SlotOutOfRange) or Err(SlotAlreadyActive): the session ends.
Fail ==
  /\ phase' = "error"
  /\ UNCHANGED <<e, frame, stamp, at, scan, clock, kernel>>

\* One iteration of the loop in frame_contact_tools.
ScanEvent ==
  /\ phase = "scan" /\ at <= Len(frame.events)
  /\ LET ev == frame.events[at]
         s == scan.slot
         id == scan.ids[s]
     IN CASE ev.kind = "Slot" /\ ev.value \notin Slots -> Fail
          [] OTHER ->
               /\ at' = at + 1
               /\ scan' =
                   CASE ev.kind = "Slot" -> [scan EXCEPT !.slot = ev.value]
                     [] ev.kind = "TrackingId" ->
                          IF ev.value = None
                          THEN [scan EXCEPT !.ids[s] = None]
                          ELSE [scan EXCEPT !.ids[s] = ev.value,
                                  !.contacts[s][ev.value] =
                                    [tool_type |-> scan.tools[s],
                                     palm_reported |-> FALSE]]
                     [] ev.kind = "ToolType" ->
                          IF id = None
                          THEN [scan EXCEPT !.tools[s] = ev.value]
                          ELSE [scan EXCEPT !.tools[s] = ev.value,
                                  !.contacts[s][id] =
                                    [tool_type |-> ev.value,
                                     palm_reported |->
                                       \/ scan.contacts[s][id].palm_reported
                                       \/ ev.value = PalmTool]]
                     [] ev.kind = "SynDropped" -> EmptyScan
                     [] OTHER -> scan
               /\ UNCHANGED <<e, phase, frame, stamp, clock, kernel>>

\* Mutant: a later label takes a palm report back.
LastLabelIsPalm(tool) == tool.tool_type = PalmTool

IsPalm(tool) == tool.palm_reported \/ tool.tool_type = PalmTool

\* Contacts down before the frame that it reports as palms.
RejectPalms(en) ==
  [en EXCEPT !.contact =
     [s \in Slots |->
        LET c == en.contact[s]
        IN IF /\ c.tracking_id # None
              /\ IsPalm(scan.contacts[s][c.tracking_id])
           THEN RejectGestures(c) ELSE c]]

BeginEvents ==
  /\ phase = "scan" /\ at > Len(frame.events)
  /\ LET en == RejectPalms(e)
     IN e' = IF stamp = None THEN en ELSE ExpirePendingTap(en, stamp)
  /\ at' = 1
  /\ phase' = "events"
  /\ UNCHANGED <<frame, stamp, scan, clock, kernel>>

-----------------------------------------------------------------------------
(* One action per kind of event in process_frame_with_time's loop.         *)

AtEvent(kind) ==
  /\ phase = "events" /\ at <= Len(frame.events)
  /\ frame.events[at].kind = kind

CurrentEvent == frame.events[at]

\* The end of the loop body: a contact that did not begin in this frame is
\* decided, and its slider moves, as soon as the event allows.
Settle(en) ==
  IF en.contact[en.current_slot].began_in_frame THEN en
  ELSE DecideAndSlide(en, en.current_slot)

Processed(en) ==
  /\ e' = Settle(en)
  /\ at' = at + 1
  /\ UNCHANGED <<phase, frame, stamp, scan, clock>>

\* Mutant: the event is routed before the slot changes.
SwitchAfterRouting ==
  /\ AtEvent("Slot") /\ CurrentEvent.value \in Slots
  /\ Processed([RouteEvent(e, CurrentEvent) EXCEPT
                  !.current_slot = CurrentEvent.value])
  /\ kernel' = [kernel EXCEPT !.slot = CurrentEvent.value]

SlotSwitch ==
  /\ AtEvent("Slot")
  /\ IF CurrentEvent.value \notin Slots THEN Fail
     ELSE /\ Processed(RouteEvent(
                [e EXCEPT !.current_slot = CurrentEvent.value], CurrentEvent))
          /\ kernel' = [kernel EXCEPT !.slot = CurrentEvent.value]

\* A contact goes down in slot s.
BeginContact(en, s, id) ==
  LET tool == scan.contacts[s][id]
      another == \E r \in Slots :
                   IsActive(en, r) /\ ~en.contact[r].gesture_rejected
      new == NewContact(id, stamp, ~another /\ ~IsPalm(tool))
      begun == [en EXCEPT
                  !.contact[s] = IF IsPalm(tool) THEN RejectGestures(new)
                                                 ELSE new,
                  !.held_events[s] = Append(@, TrackingIdEvent(id)),
                  !.memory[s].tool_type = tool.tool_type]
  IN IF another /\ ~IsPalm(tool)
     THEN FlushPendingTap(WithoutPairing(begun)) ELSE begun

ContactDown ==
  /\ AtEvent("TrackingId") /\ CurrentEvent.value # None
  /\ LET s == e.current_slot
     IN IF IsActive(e, s) THEN Fail
        ELSE /\ Processed(BeginContact(e, s, CurrentEvent.value))
             /\ kernel' = [kernel EXCEPT !.ids[kernel.slot] = CurrentEvent.value]

ContactUp ==
  /\ AtEvent("TrackingId") /\ CurrentEvent.value = None
  /\ Processed(ReleaseCurrentSlot(e, CurrentEvent, stamp))
  /\ kernel' = [kernel EXCEPT !.ids[kernel.slot] = None]

\* Without palm rejection the loop body ends at once ("continue").
ToolType ==
  /\ AtEvent("ToolType")
  /\ IF PalmRejection
     THEN Processed(RouteEvent(
            [e EXCEPT !.memory[e.current_slot].tool_type = CurrentEvent.value],
            CurrentEvent))
     ELSE /\ at' = at + 1
          /\ UNCHANGED <<e, phase, frame, stamp, scan, clock>>
  /\ UNCHANGED kernel

\* A slot's contact and memory take a new coordinate.
PlaceX(en, s, x) ==
  LET c == en.contact[s]
      moved == [c EXCEPT !.current_x = x, !.start_x = OrElse(@, x)]
  IN [en EXCEPT !.memory[s].x = x,
                !.contact[s] = IF IsActive(en, s)
                               THEN ObservePosition(en.cfg, moved) ELSE c]

PlaceY(en, s, y) ==
  LET c == en.contact[s]
      moved == [c EXCEPT !.current_y = y, !.start_y = OrElse(@, y)]
  IN [en EXCEPT !.memory[s].y = y,
                !.contact[s] = IF IsActive(en, s)
                               THEN ObservePosition(en.cfg, moved) ELSE c]

\* A second tap that moves too far gives its pair up.
EndSpoiledPair(en, s) ==
  IF IsMatching(en, s) /\ en.contact[s].contact_phase # "TapCandidate"
  THEN FlushPendingTap(en) ELSE en

Position ==
  /\ AtEvent("X") \/ AtEvent("Y")
  /\ LET s == e.current_slot
         placed == IF CurrentEvent.kind = "X"
                   THEN PlaceX(e, s, CurrentEvent.value)
                   ELSE PlaceY(e, s, CurrentEvent.value)
     IN Processed(RouteEvent(EndSpoiledPair(placed, s), CurrentEvent))
  /\ UNCHANGED kernel

\* What the kernel holds is unknown until the snapshot.
SynDropped ==
  /\ AtEvent("SynDropped")
  /\ Processed([ResetForResync(e) EXCEPT !.resync_required = TRUE])
  /\ kernel' = [slot |-> SlotMin, ids |-> [s \in Slots |-> None]]

EventsDone ==
  /\ phase = "events" /\ at > Len(frame.events)
  /\ phase' = "finalize" /\ at' = SlotMin
  /\ UNCHANGED <<e, frame, stamp, scan, clock, kernel>>

FinalizeSlot ==
  /\ phase = "finalize" /\ at <= SlotMax
  /\ e' = FinalizeContact(e, at)
  /\ at' = at + 1
  /\ UNCHANGED <<phase, frame, stamp, scan, clock, kernel>>

\* The routed output goes to the caller.  Button releases apply only now that
\* the frame's contacts have been decided.
EndFrame ==
  /\ phase = "finalize" /\ at > SlotMax
  /\ e' = [ClearOutput(e) EXCEPT !.pressed = @ \ Codes(frame.buttons, FALSE)]
  /\ phase' = IF e.resync_required THEN "resync" ELSE "idle"
  /\ at' = 1
  /\ frame' = NoFrame
  /\ stamp' = None
  /\ scan' = EmptyScan
  /\ UNCHANGED <<clock, kernel>>

-----------------------------------------------------------------------------
\* Output of a call that is not a frame: EndFrame hands it over.
Output(en) ==
  /\ e' = en
  /\ phase' = "finalize" /\ at' = SlotMax + 1
  /\ UNCHANGED <<frame, stamp, scan, clock>>

\* The recognition deadline fell due without input (route_recognition_deadline
\* with the deadline itself).  Frames read later can carry earlier stamps.
AdvanceTime ==
  /\ phase = "idle" /\ HasPendingTap(e)
  /\ Output(ExpirePendingTap(e, NextDeadline(e)))
  /\ UNCHANGED kernel

Resync(snapshot) ==
  /\ phase = "resync"
  /\ Output(RestoreSnapshot(e, snapshot))
  /\ kernel' = [slot |-> snapshot.slot, ids |-> snapshot.ids]

\* apply_pending_recognition_reload with a new profile waiting.
Reload(cfg) ==
  /\ phase = "idle" /\ cfg # e.cfg
  /\ IsRecognitionIdle(e)
  /\ e' = Reconfigure(e, cfg)
  /\ UNCHANGED <<phase, frame, stamp, at, scan, clock, kernel>>

FrameStep ==
  \/ ScanEvent \/ BeginEvents
  \/ SlotSwitch \/ ContactDown \/ ContactUp \/ ToolType \/ Position \/ SynDropped
  \/ EventsDone \/ FinalizeSlot

Next ==
  \/ \E f \in Frames \cup OddFrames, t \in Stamps : StartFrame(f, t)
  \/ FrameStep
  \/ EndFrame
  \/ AdvanceTime
  \/ \E snapshot \in Snapshots : Resync(snapshot)
  \/ \E cfg \in Configs : Reload(cfg)

Spec == Init /\ [][Next]_vars

-----------------------------------------------------------------------------
(* Properties                                                              *)

\* The state has its type throughout a frame.
TypeOK ==
  /\ e \in EngineState
  /\ phase \in {"idle", "scan", "events", "finalize", "resync", "error"}
  /\ frame \in Frame
  /\ stamp \in Nat \cup {None}
  /\ at \in Int
  /\ scan \in [ slot : Slots, tools : [Slots -> Int],
               ids : [Slots -> TrackingIds \cup {None}],
               contacts : [Slots -> [TrackingIds -> FrameTool]] ]
  /\ clock \in Nat
  /\ kernel \in [slot : Slots, ids : [Slots -> TrackingIds \cup {None}]]

\* A contact marked as the second tap is a lone, timed, edge-owned finger of
\* the very zone whose tap is pending, and there is at most one (next_deadline
\* takes the first it finds; flush_pending_tap must have cleared the others).
MatchNeedsPendingTap ==
  /\ \A s \in Slots : IsMatching(e, s) =>
       LET c == e.contact[s]
       IN /\ HasPendingTap(e)
          /\ c.ownership = e.pending_tap.gesture.zone
          /\ c.tap_sequence_eligible /\ ~c.gesture_rejected
          /\ c.started_at # None
  /\ \A s, r \in Slots : IsMatching(e, s) /\ IsMatching(e, r) => s = r

\* Only a finger that is alone with palms can still pair, apart from the
\* contacts a snapshot restored, which are forwarded whatever they do.
EligibleIsAlone ==
  \A s, r \in Slots :
    /\ e.contact[s].tap_sequence_eligible
    /\ e.contact[s].ownership # "Passthrough"
    /\ r # s /\ IsActive(e, r)
    => e.contact[r].gesture_rejected

\* Events wait in a slot only while its contact is undecided, and wait for
\* that slot alone: what PushPassthrough relies on.
HeldNamesOwnSlot ==
  \A s \in Slots :
    /\ e.contact[s].ownership # "Unknown" => e.held_events[s] = <<>>
    /\ \A i \in DOMAIN e.held_events[s] :
         e.held_events[s][i].kind = "Slot" => e.held_events[s][i].value = s

\* Between frames the engine knows exactly the contacts the kernel has, each
\* in its slot.  After lost events that takes a snapshot whose last contact is
\* in the slot the kernel goes on with (RestoredSlot).
MirrorsKernel ==
  phase = "idle" => \A s \in Slots : e.contact[s].tracking_id = kernel.ids[s]

=============================================================================
