------------------------- MODULE EngineHistoryProofs -------------------------
(***************************************************************************)
(* Theorems about what the engine makes of a whole history of input:       *)
(* which contacts it holds, which of them are palms, which are forwarded.  *)
(*                                                                         *)
(* EngineProofs says what the steps do to the fingers.  The last part      *)
(* shows that the engine implements Recognizer; only there do EngineOwed's *)
(* assumptions about the profiles and the timestamps count.                *)
(***************************************************************************)
EXTENDS EngineOwed, EngineProofs, FiniteSetTheorems

HIDE DEF SlotInv, MatchInv, AloneInv

-----------------------------------------------------------------------------
(* A pressed buttonpad has no edges.                                       *)

\* The kernel says where a finger is, and after lost events where it is now:
\* an axis is unknown to the engine only until then.
KnownAxes ==
  /\ \A f \in Frames \cup OddFrames : \A i \in DOMAIN f.events :
       f.events[i].kind \in {"X", "Y"} => f.events[i].value # None
  /\ \A s \in Slots : StartMemory[s].x # None /\ StartMemory[s].y # None
  /\ \A snapshot \in Snapshots, s \in Slots :
       snapshot.memory[s].x # None /\ snapshot.memory[s].y # None

\* No frame presses a button it has already released: the engine takes a
\* frame's presses before its events and its releases after them.
ReleaseIsLast ==
  \A f \in Frames \cup OddFrames : \A i, j \in DOMAIN f.buttons :
    i < j /\ f.buttons[i].code = f.buttons[j].code /\ ~f.buttons[i].pressed
      => ~f.buttons[j].pressed

\* A claimed contact has started, what has started is somewhere, and no
\* contact is claimed while the buttons in pressed are down.
Sound(pressed, c) ==
  /\ IsClaimed(c) => IsPlaced(c)
  /\ c.start_x # None => c.current_x # None
  /\ c.start_y # None => c.current_y # None
  /\ Buttonpad /\ pressed # {} /\ c.tracking_id # None => ~IsClaimed(c)

Known(m) == m.x # None /\ m.y # None

\* The engine knows what the kernel holds.
InSync == phase # "resync" /\ ~e.resync_required

ContactInv(s) ==
  /\ Sound(e.pressed, e.contact[s])
  /\ InSync => Known(e.memory[s]) /\ IsDecided(e.contact[s])
  /\ phase \in {"idle", "scan", "resync"} => ~e.contact[s].began_in_frame
  /\ phase = "finalize" /\ s < at => ~e.contact[s].began_in_frame

BetweenFrames == phase \in {"idle", "resync"} => frame = NoFrame /\ ~e.resync_required

\* The engine keeps the buttons that are down and, until the frame's end, the
\* ones the frame releases.
ButtonsInv ==
  ReleaseIsLast /\ Buttonpad => h.buttons = e.pressed \ Codes(frame.buttons, FALSE)

PadInv ==
  /\ ButtonsInv
  /\ BetweenFrames
  /\ \A s \in Slots : ContactInv(s)

LEMMA NoCodes == \A pressed : Codes(NoFrame.buttons, pressed) = {}
BY DEF Codes, NoFrame

LEMMA KeptSound ==
  ASSUME NEW en, NEW c, NEW d, ContactKept(en, c, d), Sound(en.pressed, c)
  PROVE  Sound(en.pressed, d)
BY DEF ContactKept, SameFinger, SameOwner, ClaimIsSound, Sound, IsPlaced

LEMMA KeptDecided ==
  ASSUME NEW en, NEW c, NEW d, ContactKept(en, c, d), IsDecided(c)
  PROVE  IsDecided(d)
BY DEF ContactKept, SameFinger, SameOwner, IsDecided

LEMMA NoContactSound ==
  ASSUME NEW pressed, NEW d, SameFinger(NoContact, d), ~IsClaimed(d)
  PROVE  Sound(pressed, d) /\ IsDecided(d) /\ ~d.began_in_frame
BY NoContactPlace, NoContactFields DEF Sound, IsDecided, SameFinger

\* The buttons that are down after a frame's presses and releases.
LEMMA HeldButtons ==
  ASSUME ReleaseIsLast, NEW f \in Frames \cup OddFrames, h.buttons \subseteq Buttons
  PROVE  HeldAfter(f.buttons)
           = (h.buttons \cup Codes(f.buttons, TRUE)) \ Codes(f.buttons, FALSE)
<1> DEFINE buttons == f.buttons
           down == (h.buttons \cup Codes(buttons, TRUE)) \ Codes(buttons, FALSE)
<1>1. buttons \in Seq(Button)
  BY FramesAssumption DEF Frame
<1>2. \A i \in DOMAIN buttons : /\ buttons[i].code \in Buttons
                                /\ buttons[i].pressed \in BOOLEAN
  <2>1. \A i \in DOMAIN buttons : buttons[i] \in Button
    BY <1>1
  <2> HIDE DEF buttons
  <2> QED BY <2>1 DEF Button
<1>3. /\ \A c : c \in Codes(buttons, TRUE) <=>
           \E i \in DOMAIN buttons : buttons[i].code = c /\ buttons[i].pressed
      /\ \A c : c \in Codes(buttons, FALSE) <=>
           \E i \in DOMAIN buttons : buttons[i].code = c /\ ~buttons[i].pressed
  <2> HIDE DEF buttons
  <2> QED BY <1>2 DEF Codes
<1>4. \A i, j \in DOMAIN buttons :
        i < j /\ buttons[i].code = buttons[j].code /\ ~buttons[i].pressed
          => ~buttons[j].pressed
  BY DEF ReleaseIsLast
<1>5. ASSUME NEW c \in Buttons
      PROVE  LET uses == {i \in DOMAIN buttons : buttons[i].code = c}
             IN (IF uses = {} THEN c \in h.buttons ELSE buttons[Max(uses)].pressed)
                  <=> c \in down
  <2> DEFINE uses == {i \in DOMAIN buttons : buttons[i].code = c}
             last == Max(uses)
  <2>1. CASE uses = {}
    <3>1. c \notin Codes(buttons, TRUE) /\ c \notin Codes(buttons, FALSE)
      BY <1>3, <2>1
    <3> QED BY <2>1, <3>1
  <2>2. CASE uses # {}
    <3>1. last \in uses /\ \A i \in uses : i <= last
      <4>1. Len(buttons) \in Nat /\ uses \in SUBSET (1..Len(buttons))
        BY <1>1
      <4> HIDE DEF uses
      <4> QED BY <2>2, <4>1, LastIndex
    <3> HIDE DEF last
    <3>2. last \in DOMAIN buttons /\ buttons[last].code = c
      BY <3>1
    <3>3. CASE buttons[last].pressed
      <4>1. c \in Codes(buttons, TRUE)
        BY <1>2, <1>3, <3>2, <3>3
      <4>2. c \notin Codes(buttons, FALSE)
        <5> SUFFICES ASSUME NEW i \in DOMAIN buttons, buttons[i].code = c,
                            ~buttons[i].pressed
                     PROVE  FALSE
          BY <1>3
        <5>1. i <= last /\ i # last
          BY <3>1, <3>3
        <5>2. i \in Int /\ last \in Int
          BY <1>1, <3>2
        <5> QED BY <1>4, <3>2, <3>3, <5>1, <5>2
      <4> QED BY <2>2, <3>3, <4>1, <4>2 DEF last
    <3>4. CASE ~buttons[last].pressed
      <4>1. c \in Codes(buttons, FALSE)
        BY <1>3, <3>2, <3>4
      <4> QED BY <2>2, <3>4, <4>1 DEF last
    <3> QED BY <3>3, <3>4
  <2> QED BY <2>1, <2>2
<1>6. down \subseteq Buttons
  <2>1. Codes(buttons, TRUE) \subseteq Buttons
    <3> SUFFICES ASSUME NEW c \in Codes(buttons, TRUE) PROVE c \in Buttons
      OBVIOUS
    <3> HIDE DEF buttons
    <3>1. PICK i \in DOMAIN buttons : buttons[i].code = c /\ buttons[i].pressed
      BY <1>3
    <3> QED BY <1>2, <3>1
  <2> HIDE DEF buttons
  <2> QED BY <2>1
<1> HIDE DEF down
<1>7. HeldAfter(buttons) = down
  BY <1>5, <1>6 DEF HeldAfter
<1> QED BY <1>7 DEF down
LEMMA ButtonsAfter ==
  ASSUME HUpdate
  PROVE  h'.buttons = IF Dropped THEN {} ELSE IF Restored THEN e'.pressed
                      ELSE IF phase = "idle" /\ phase' = "scan"
                           THEN HeldAfter(frame'.buttons) ELSE h.buttons
BY DEF HUpdate

LEMMA SameButtons ==
  ASSUME ButtonsInv, HUpdate, ~Dropped, ~Restored, phase # "idle" \/ phase' # "scan",
         frame' = frame, e'.pressed = e.pressed
  PROVE  ButtonsInv'
BY ButtonsAfter DEF ButtonsInv

\* A step within the events of a frame that keeps the contact.
LEMMA KeptContact ==
  ASSUME NEW s \in Slots, ContactInv(s), phase = "events", phase' = "events",
         ContactKept(e, e.contact[s], e'.contact[s]), SamePressed(e, e'),
         e'.memory[s].x = e.memory[s].x, e'.memory[s].y = e.memory[s].y
  PROVE  ContactInv(s)'
<1>1. Sound(e.pressed, e'.contact[s])
  BY KeptSound DEF ContactInv
<1>2. IsDecided(e.contact[s]) => IsDecided(e'.contact[s])
  BY KeptDecided
<1> QED BY <1>1, <1>2 DEF ContactInv, InSync, Known, SamePressed

\* A step that only moves on to another phase of the frame.
LEMMA SameContact ==
  ASSUME NEW s \in Slots, ContactInv(s), e' = e, InSync' => InSync,
         phase' \in {"idle", "scan", "resync"} => phase \in {"idle", "scan", "resync"},
         phase' # "finalize"
  PROVE  ContactInv(s)'
BY DEF ContactInv, InSync

LEMMA InitPad == KnownAxes /\ HInit => PadInv
<1> SUFFICES ASSUME KnownAxes, HInit PROVE PadInv
  OBVIOUS
<1>1. PICK cfg \in Configs : e = NewEngine(cfg, SeededMemory(StartMemory))
  BY DEF HInit, Init
<1>2. /\ e.pressed = {} /\ ~e.resync_required
      /\ e.contact = [s \in Slots |-> NoContact]
      /\ e.memory = SeededMemory(StartMemory)
  BY <1>1 DEF NewEngine
<1>3. phase = "idle" /\ frame = NoFrame /\ h.buttons = {}
  BY DEF HInit, Init
<1>4. \A s \in Slots : Known(e.memory[s])
  <2> TAKE s \in Slots
  <2>1. StartMemory[s] \in Memory /\ Known(StartMemory[s])
    BY MemoryAssumption DEF KnownAxes, Known
  <2>2. \A m \in Memory : Known(m) => Known([m EXCEPT !.tool_type = None])
    BY DEF Memory, Known
  <2> QED BY <1>2, <2>1, <2>2 DEF SeededMemory
<1>5. ASSUME NEW s \in Slots PROVE ContactInv(s)
  <2>1. /\ e.contact[s] = NoContact
        /\ Sound(e.pressed, NoContact) /\ IsDecided(NoContact)
        /\ ~NoContact.began_in_frame
    <3>1. SameFinger(NoContact, NoContact) /\ ~IsClaimed(NoContact)
      BY NoContactFields DEF SameFinger, IsClaimed, Zones
    <3> QED BY <1>2, <3>1, NoContactSound
  <2> QED BY <1>2, <1>3, <1>4, <2>1 DEF ContactInv
<1>6. ButtonsInv /\ BetweenFrames
  BY <1>2, <1>3 DEF ButtonsInv, BetweenFrames
<1> QED BY <1>5, <1>6 DEF PadInv

\* The frame's presses: on a buttonpad they leave nothing claimed.
LEMMA StartPad ==
  ASSUME TypeInv, PadInv, HUpdate,
         NEW f \in Frames \cup OddFrames, NEW t \in Stamps, StartFrame(f, t)
  PROVE  PadInv'
<1> DEFINE codes == Codes(f.buttons, TRUE)
<1>1. /\ phase = "idle" /\ phase' = "scan" /\ frame' = f
      /\ frame = NoFrame /\ ~e.resync_required
  BY DEF StartFrame, PadInv, BetweenFrames
<1>2. /\ e'.resync_required = e.resync_required /\ e'.memory = e.memory
      /\ e'.pressed = IF Buttonpad THEN e.pressed \cup codes ELSE e.pressed
      /\ Buttonpad /\ codes # {} => \A s \in Slots : ~CanPromote(e', s)
  BY StartView
<1>3. ButtonsInv'
  <2> SUFFICES ASSUME ReleaseIsLast, Buttonpad
               PROVE  h'.buttons = e'.pressed \ Codes(f.buttons, FALSE)
    BY <1>1 DEF ButtonsInv
  <2>1. h.buttons = e.pressed
    BY <1>1, NoCodes DEF PadInv, ButtonsInv
  <2>2. h.buttons \subseteq Buttons
    BY <2>1, InHand DEF EngineState
  <2>3. h'.buttons = HeldAfter(f.buttons)
    BY <1>1, ButtonsAfter DEF Dropped, Restored
  <2> QED BY <1>2, <2>1, <2>2, <2>3, HeldButtons
<1>4. BetweenFrames'
  BY <1>1 DEF BetweenFrames
<1>5. ASSUME NEW s \in Slots PROVE ContactInv(s)'
  <2> DEFINE c == e.contact[s]
             d == e'.contact[s]
  <2>1. /\ Sound(e.pressed, c) /\ Known(e.memory[s]) /\ IsDecided(c)
        /\ ~c.began_in_frame
    BY <1>1 DEF PadInv, ContactInv, InSync
  <2>2. ContactKept(e, c, d)
    BY StartView DEF ContactKept
  <2> HIDE DEF codes, c, d
  <2>3. Sound(e.pressed, d) /\ IsDecided(d)
    BY <2>1, <2>2, KeptSound, KeptDecided
  <2>4. ASSUME Buttonpad, e'.pressed # {}, d.tracking_id # None PROVE ~IsClaimed(d)
    <3>1. CASE codes = {}
      BY <1>2, <2>3, <2>4, <3>1 DEF Sound
    <3>2. CASE codes # {}
      BY <1>2, <2>3, <2>4, <3>2 DEF CanPromote, IsActive, IsPlaced, Sound, d
    <3> QED BY <3>1, <3>2
  <2>5. Sound(e'.pressed, d)
    BY <2>3, <2>4 DEF Sound
  <2>6. ~d.began_in_frame
    BY <2>1, <2>2 DEF ContactKept, SameFinger
  <2> QED BY <1>1, <1>2, <2>1, <2>3, <2>5, <2>6 DEF ContactInv, c, d
<1> QED BY <1>3, <1>4, <1>5 DEF PadInv

\* Coordinates: the contact goes on being where the kernel says.
LEMMA PositionPad ==
  ASSUME KnownAxes, TypeInv, PadInv, HUpdate, Position
  PROVE  PadInv'
<1> DEFINE s == e.current_slot
           v == CurrentEvent.value
           isX == CurrentEvent.kind = "X"
           c == e.contact[s]
           d == e'.contact[s]
<1>1. /\ phase = "events" /\ phase' = "events" /\ frame' = frame
      /\ e \in EngineState /\ s \in Slots /\ v # None /\ ~Dropped
  <2>1. /\ at \in DOMAIN frame.events /\ CurrentEvent = frame.events[at]
        /\ phase = "events" /\ CurrentEvent.kind \in {"X", "Y"}
    BY EventInHand DEF Position
  <2>2. v # None
    <3>1. frame \in Frames \cup OddFrames
      BY <2>1 DEF TypeInv, FrameInHand, NoFrame
    <3> QED BY <2>1, <3>1 DEF KnownAxes
  <2> QED BY <2>1, <2>2, InHand DEF Position, Processed, Dropped, AtEvent, CurrentEvent
<1>2. /\ e' \in EngineState /\ SamePressed(e, e') /\ e'.current_slot = s
      /\ \A r \in Slots \ {s} : /\ e'.memory[r] = e.memory[r]
                                /\ ContactKept(e, e.contact[r], e'.contact[r])
      /\ e'.memory[s].x = IF isX THEN v ELSE e.memory[s].x
      /\ e'.memory[s].y = IF isX THEN e.memory[s].y ELSE v
      /\ ~IsActive(e, s) => ContactKept(e, c, d)
      /\ IsActive(e, s) =>
           \E m \in Contact : /\ MovedTo(c, m, isX, v)
                              /\ m.ownership = c.ownership
                              /\ ContactKept(e, m, d)
  BY PositionView
<1> HIDE DEF v, isX, s
<1>3. ButtonsInv' /\ BetweenFrames'
  BY <1>1, <1>2, SameButtons DEF PadInv, BetweenFrames, Restored, SamePressed
<1>4. \A r \in Slots \ {s} : ContactInv(r)'
  BY <1>1, <1>2, KeptContact DEF PadInv
<1>5. PICK m \in Contact : /\ Sound(e.pressed, m) /\ (IsDecided(c) => IsDecided(m))
                           /\ ContactKept(e, m, d)
  <2>1. Sound(e.pressed, c) /\ c \in Contact
    BY <1>1, EngineFields DEF PadInv, ContactInv
  <2>2. CASE ~IsActive(e, s)
    BY <1>2, <2>1, <2>2
  <2>3. CASE IsActive(e, s)
    <3>1. PICK m \in Contact : /\ MovedTo(c, m, isX, v)
                               /\ m.ownership = c.ownership
                               /\ ContactKept(e, m, d)
      BY <1>2, <2>3
    <3> HIDE DEF c, d
    <3>2. Sound(e.pressed, m)
      BY <1>1, <2>1, <3>1 DEF Sound, MovedTo, OrElse, IsClaimed, IsPlaced
    <3>3. IsDecided(c) => IsDecided(m)
      BY <3>1 DEF IsDecided, MovedTo
    <3> QED BY <3>1, <3>2, <3>3
  <2> QED BY <2>2, <2>3
<1>6. ASSUME NEW r \in Slots, r = s PROVE ContactInv(r)'
  <2>1. Sound(e.pressed, d) /\ (IsDecided(m) => IsDecided(d))
    BY <1>5, KeptSound, KeptDecided
  <2>2. Known(e.memory[s]) => Known(e'.memory[s])
    BY <1>1, <1>2 DEF Known
  <2>3. InSync => Known(e.memory[s]) /\ IsDecided(c)
    BY <1>1 DEF PadInv, ContactInv
  <2> QED BY <1>1, <1>2, <1>5, <1>6, <2>1, <2>2, <2>3
          DEF ContactInv, InSync, SamePressed, d
<1> QED BY <1>3, <1>4, <1>6 DEF PadInv

\* The end of the frame for one slot: a contact at a known place is decided.
LEMMA FinalizePad ==
  ASSUME TypeInv, PadInv, HUpdate, FinalizeSlot
  PROVE  PadInv'
<1> DEFINE c == e.contact[at]
           d == e'.contact[at]
           m == e.memory[at]
<1>1. /\ phase = "finalize" /\ phase' = "finalize" /\ frame' = frame
      /\ at' = at + 1 /\ at \in Int
  BY DEF FinalizeSlot, TypeInv, TypeOK
<1>2. /\ at \in Slots /\ e' \in EngineState /\ SameSettings(e, e')
      /\ \A r \in Slots \ {at} : ContactKept(e, e.contact[r], e'.contact[r])
      /\ ~c.began_in_frame => e' = e
      /\ c.began_in_frame =>
           \E k \in Contact :
             /\ PlacedFrom(c, k, m)
             /\ k.ownership = c.ownership /\ ContactKept(e, k, d)
             /\ IsActive(e, at) /\ IsPlaced(k) => d.ownership # "Unknown"
  BY FinalizeView
<1>3. ButtonsInv' /\ BetweenFrames'
  BY <1>1, <1>2, SameButtons
  DEF PadInv, BetweenFrames, Dropped, Restored, SameSettings
<1>4. ASSUME NEW r \in Slots, Sound(e.pressed, e'.contact[r]),
             InSync => IsDecided(e'.contact[r]),
             r <= at => ~e'.contact[r].began_in_frame
      PROVE  ContactInv(r)'
  <2>1. InSync' => InSync /\ Known(e'.memory[r])
    BY <1>1, <1>2 DEF PadInv, ContactInv, InSync, SameSettings
  <2>2. r < at' => r <= at
    BY <1>1, <1>2 DEF Slots
  <2> QED BY <1>1, <1>2, <1>4, <2>1, <2>2 DEF ContactInv, SameSettings
<1>5. ASSUME NEW r \in Slots \ {at} PROVE ContactInv(r)'
  <2>1. ContactKept(e, e.contact[r], e'.contact[r]) /\ ContactInv(r)
    BY <1>2, <1>5 DEF PadInv
  <2>2. Sound(e.pressed, e'.contact[r]) /\ (InSync => IsDecided(e'.contact[r]))
    BY <2>1, KeptSound, KeptDecided DEF ContactInv
  <2>3. r < at => ~e'.contact[r].began_in_frame
    BY <1>1, <2>1 DEF ContactInv, ContactKept, SameFinger
  <2>4. r <= at => r < at
    BY <1>1, <1>2, <1>5 DEF Slots
  <2> QED BY <1>4, <2>2, <2>3, <2>4
<1>6. ASSUME NEW r \in Slots, r = at PROVE ContactInv(r)'
  <2>1. Sound(e.pressed, c) /\ (InSync => Known(m) /\ IsDecided(c))
    BY <1>2 DEF PadInv, ContactInv
  <2>2. CASE ~c.began_in_frame
    <3>1. d = c
      BY <1>2, <2>2
    <3> QED BY <1>4, <1>6, <2>1, <2>2, <3>1
  <2>3. CASE c.began_in_frame
    <3>1. PICK k \in Contact :
             /\ PlacedFrom(c, k, m)
             /\ k.ownership = c.ownership /\ ContactKept(e, k, d)
             /\ IsActive(e, at) /\ IsPlaced(k) => d.ownership # "Unknown"
      BY <1>2, <2>3
    <3>2. IsActive(e, at) <=> c.tracking_id # None
      BY DEF IsActive
    <3> HIDE DEF c, d, m
    <3>3. Sound(e.pressed, k) /\ ~k.began_in_frame
      BY <2>1, <3>1 DEF Sound, PlacedFrom, OrElse, IsClaimed, IsPlaced
    <3>4. Sound(e.pressed, d) /\ ~d.began_in_frame
      BY <3>1, <3>3, KeptSound DEF ContactKept, SameFinger
    <3>5. InSync => IsDecided(d)
      <4> SUFFICES ASSUME Known(m), d.tracking_id # None PROVE d.ownership # "Unknown"
        BY <2>1 DEF IsDecided
      <4>1. IsPlaced(k) /\ c.tracking_id # None
        BY <3>1 DEF PlacedFrom, OrElse, Known, IsPlaced, ContactKept, SameFinger
      <4> QED BY <3>1, <3>2, <4>1
    <3> QED BY <1>4, <1>6, <3>4, <3>5 DEF d
  <2> QED BY <2>2, <2>3
<1> QED BY <1>3, <1>5, <1>6 DEF PadInv
\* An event that keeps all contacts but one, which it leaves undecided or free.
LEMMA OneContactPad ==
  ASSUME PadInv, HUpdate, phase = "events", phase' = "events", frame' = frame,
         ~Dropped, SamePressed(e, e'), NEW s \in Slots,
         \A r \in Slots : /\ e'.memory[r].x = e.memory[r].x
                          /\ e'.memory[r].y = e.memory[r].y
                          /\ r # s => ContactKept(e, e.contact[r], e'.contact[r]),
         \/ ContactKept(e, e.contact[s], e'.contact[s])
         \/ Sound(e.pressed, e'.contact[s]) /\ IsDecided(e'.contact[s])
  PROVE  PadInv'
<1>1. ButtonsInv' /\ BetweenFrames'
  BY SameButtons DEF PadInv, BetweenFrames, Restored, SamePressed
<1>2. ASSUME NEW r \in Slots PROVE ContactInv(r)'
  <2>1. CASE ContactKept(e, e.contact[r], e'.contact[r])
    BY <2>1, KeptContact DEF PadInv
  <2>2. CASE Sound(e.pressed, e'.contact[r]) /\ IsDecided(e'.contact[r])
    <3>1. InSync' => InSync /\ Known(e.memory[r])
      BY DEF PadInv, ContactInv, InSync, SamePressed
    <3> QED BY <2>2, <3>1 DEF ContactInv, InSync, Known, SamePressed
  <2> QED BY <2>1, <2>2
<1> QED BY <1>1, <1>2 DEF PadInv

LEMMA NotDropped ==
  ASSUME NEW kind, AtEvent(kind), kind # "SynDropped"
  PROVE  ~Dropped
BY DEF AtEvent, Dropped

LEMMA StepPad ==
  ASSUME KnownAxes, TypeInv, PadInv, [HNext]_hvars
  PROVE  PadInv'
<1>u. CASE UNCHANGED hvars
  BY <1>u DEF hvars, vars, PadInv, ButtonsInv, BetweenFrames, ContactInv, InSync
<1> SUFFICES ASSUME Next, HUpdate PROVE PadInv'
  BY <1>u DEF HNext
<1>s. \A s \in Slots : ContactInv(s)
  BY DEF PadInv
<1>f. ASSUME Fail, ~Dropped, phase \in {"scan", "events"} PROVE PadInv'
  <2>1. ButtonsInv' /\ BetweenFrames'
    BY <1>f, SameButtons DEF Fail, PadInv, BetweenFrames, Restored
  <2>2. \A s \in Slots : ContactInv(s)'
    BY <1>f, <1>s, SameContact DEF Fail, InSync
  <2> QED BY <2>1, <2>2 DEF PadInv
<1>1. ASSUME NEW f \in Frames \cup OddFrames, NEW t \in Stamps, StartFrame(f, t)
      PROVE  PadInv'
  BY <1>1, StartPad
<1>2. CASE ScanEvent
  <2> SUFFICES ASSUME ~Fail PROVE PadInv'
    BY <1>2, <1>f DEF ScanEvent, Dropped, AtEvent
  <2>1. e' = e /\ frame' = frame /\ phase = "scan" /\ phase' = "scan"
    BY <1>2 DEF ScanEvent
  <2>2. ButtonsInv' /\ BetweenFrames'
    BY <2>1, SameButtons DEF PadInv, BetweenFrames, Dropped, Restored
  <2>3. \A s \in Slots : ContactInv(s)'
    BY <1>s, <2>1, SameContact DEF InSync
  <2> QED BY <2>2, <2>3 DEF PadInv
<1>3. CASE BeginEvents
  <2>1. /\ phase = "scan" /\ phase' = "events" /\ frame' = frame
        /\ SameSettings(e, e')
        /\ \A s \in Slots : /\ SamePlace(e.contact[s], e'.contact[s])
                            /\ SameOwner(e.contact[s], e'.contact[s])
                            /\ ClaimIsSound(e, e.contact[s], e'.contact[s])
    BY <1>3, BeginEventsView DEF BeginEvents
  <2>2. ButtonsInv' /\ BetweenFrames'
    BY <2>1, SameButtons
    DEF PadInv, BetweenFrames, Dropped, Restored, SameSettings
  <2>3. ASSUME NEW s \in Slots PROVE ContactInv(s)'
    <3> DEFINE c == e.contact[s]
               d == e'.contact[s]
    <3>1. Sound(e.pressed, c) /\ (InSync => Known(e.memory[s]) /\ IsDecided(c))
      BY DEF PadInv, ContactInv
    <3>2. SamePlace(c, d) /\ SameOwner(c, d) /\ ClaimIsSound(e, c, d)
      BY <2>1
    <3> HIDE DEF c, d
    <3>3. Sound(e.pressed, d) /\ (IsDecided(c) => IsDecided(d))
      BY <3>1, <3>2 DEF Sound, IsDecided, SamePlace, SameOwner, ClaimIsSound, IsPlaced
    <3> QED BY <2>1, <3>1, <3>3 DEF ContactInv, InSync, SameSettings, d
  <2> QED BY <2>2, <2>3 DEF PadInv
<1>4. CASE SlotSwitch
  <2>1. phase = "events" /\ ~Dropped
    BY <1>4, NotDropped DEF SlotSwitch, AtEvent
  <2> SUFFICES ASSUME CurrentEvent.value \in Slots PROVE PadInv'
    BY <1>4, <1>f, <2>1 DEF SlotSwitch
  <2>2. phase' = "events" /\ frame' = frame
    BY <1>4, <2>1 DEF SlotSwitch, Processed
  <2>3. /\ SamePressed(e, e') /\ e'.memory = e.memory
        /\ \A s \in Slots : ContactKept(e, e.contact[s], e'.contact[s])
    BY <1>4, SwitchView
  <2>4. e.current_slot \in Slots
    BY InHand
  <2> QED BY <2>1, <2>2, <2>3, <2>4, OneContactPad
<1>5. CASE ContactDown
  <2>1. phase = "events" /\ ~Dropped
    BY <1>5, NotDropped DEF ContactDown, AtEvent
  <2> SUFFICES ASSUME ~IsActive(e, e.current_slot) PROVE PadInv'
    BY <1>5, <1>f, <2>1 DEF ContactDown
  <2> DEFINE s == e.current_slot
             d == e'.contact[s]
  <2>2. phase' = "events" /\ frame' = frame /\ s \in Slots
    BY <1>5, <2>1, InHand DEF ContactDown, Processed
  <2>3. /\ SamePressed(e, e')
        /\ \A r \in Slots : /\ e'.memory[r].x = e.memory[r].x
                            /\ e'.memory[r].y = e.memory[r].y
                            /\ r # s => ContactKept(e, e.contact[r], e'.contact[r])
        /\ d.ownership = "Unknown" /\ d.began_in_frame
        /\ d.start_x = None /\ d.start_y = None
    BY <1>5, DownView
  <2> HIDE DEF s, d
  <2>4. Sound(e.pressed, d) /\ IsDecided(d)
    BY <2>3 DEF Sound, IsDecided, IsClaimed, Zones
  <2> QED BY <2>1, <2>2, <2>3, <2>4, OneContactPad DEF d
<1>6. CASE ContactUp
  <2>1. phase = "events" /\ ~Dropped
    BY <1>6, NotDropped DEF ContactUp, AtEvent
  <2> DEFINE s == e.current_slot
             d == e'.contact[s]
  <2>2. phase' = "events" /\ frame' = frame /\ s \in Slots
    BY <1>6, <2>1, InHand DEF ContactUp, Processed
  <2>3. /\ SameSettings(e, e')
        /\ \A r \in Slots \ {s} : ContactKept(e, e.contact[r], e'.contact[r])
        /\ ~IsActive(e, s) => ContactKept(e, e.contact[s], d)
        /\ IsActive(e, s) => SameFinger(NoContact, d) /\ ~IsClaimed(d)
    BY <1>6, UpView
  <2> HIDE DEF s, d
  <2>4. /\ \/ ContactKept(e, e.contact[s], d)
           \/ Sound(e.pressed, d) /\ IsDecided(d)
        /\ SamePressed(e, e') /\ e'.memory = e.memory
    BY <2>3, NoContactSound DEF SameSettings, SamePressed
  <2> QED BY <2>1, <2>2, <2>3, <2>4, OneContactPad DEF d
<1>7. CASE ToolType
  <2>1. phase = "events" /\ ~Dropped
    BY <1>7, NotDropped DEF ToolType, AtEvent
  <2>2. phase' = "events" /\ frame' = frame /\ e.current_slot \in Slots
    BY <1>7, <2>1, InHand DEF ToolType, Processed
  <2>3. /\ SamePressed(e, e')
        /\ \A r \in Slots : /\ e'.memory[r].x = e.memory[r].x
                            /\ e'.memory[r].y = e.memory[r].y
                            /\ ContactKept(e, e.contact[r], e'.contact[r])
    BY <1>7, ToolView
  <2> QED BY <2>1, <2>2, <2>3, OneContactPad
<1>8. CASE Position
  BY <1>8, PositionPad
<1>9. CASE SynDropped
  <2>1. /\ phase = "events" /\ phase' = "events" /\ Dropped
    BY <1>9 DEF SynDropped, Processed, AtEvent, Dropped
  <2>2. /\ e'.pressed = {} /\ e'.resync_required
        /\ \A s \in Slots : /\ SameFinger(NoContact, e'.contact[s])
                            /\ ~IsClaimed(e'.contact[s])
    BY <1>9, DroppedView
  <2>3. ButtonsInv' /\ BetweenFrames'
    BY <2>1, <2>2, ButtonsAfter DEF ButtonsInv, BetweenFrames
  <2>4. \A s \in Slots : ContactInv(s)'
    BY <2>1, <2>2, NoContactSound DEF ContactInv, InSync
  <2> QED BY <2>3, <2>4 DEF PadInv
<1>10. CASE EventsDone
  <2>1. /\ e' = e /\ frame' = frame /\ phase = "events" /\ phase' = "finalize"
        /\ at' = SlotMin /\ at > Len(frame.events)
    BY <1>10 DEF EventsDone
  <2>2. ~Dropped
    BY <2>1 DEF Dropped, AtEvent, TypeInv, TypeOK, Frame
  <2>3. ButtonsInv' /\ BetweenFrames'
    BY <2>1, <2>2, SameButtons DEF PadInv, BetweenFrames, Restored
  <2>4. \A s \in Slots : ~(s < SlotMin)
    BY SlotsAssumption DEF Slots
  <2>5. \A s \in Slots : ContactInv(s)'
    BY <1>s, <2>1, <2>4 DEF ContactInv, InSync
  <2> QED BY <2>3, <2>5 DEF PadInv
<1>11. CASE FinalizeSlot
  BY <1>11, FinalizePad
<1>12. CASE EndFrame
  <2>1. /\ phase = "finalize" /\ at > SlotMax /\ frame' = NoFrame
        /\ phase' = IF e.resync_required THEN "resync" ELSE "idle"
    BY <1>12 DEF EndFrame
  <2>2. /\ e'.memory = e.memory /\ e'.contact = e.contact
        /\ e'.pressed = e.pressed \ Codes(frame.buttons, FALSE)
        /\ ~e'.resync_required
    BY <1>12, EndView
  <2>3. ButtonsInv'
    BY <2>1, <2>2, ButtonsAfter, NoCodes DEF PadInv, ButtonsInv, Dropped, Restored
  <2>4. BetweenFrames'
    BY <2>1, <2>2 DEF BetweenFrames
  <2>5. \A s \in Slots : s < at
    BY <2>1, SlotsAssumption DEF Slots, TypeInv, TypeOK
  <2>6. \A s \in Slots : ContactInv(s)'
    BY <1>s, <2>1, <2>2, <2>5 DEF ContactInv, InSync, Sound
  <2> QED BY <2>3, <2>4, <2>6 DEF PadInv
<1>13. CASE AdvanceTime
  <2>1. phase = "idle" /\ phase' = "finalize" /\ frame' = frame /\ Kept(e, e')
    BY <1>13, AdvanceView DEF AdvanceTime, Output
  <2>2. /\ SameSettings(e, e')
        /\ \A s \in Slots : ContactKept(e, e.contact[s], e'.contact[s])
    BY <2>1 DEF Kept
  <2>3. ButtonsInv' /\ BetweenFrames'
    BY <2>1, <2>2, SameButtons
    DEF PadInv, BetweenFrames, Dropped, Restored, SameSettings
  <2>4. ASSUME NEW s \in Slots PROVE ContactInv(s)'
    <3>1. ContactKept(e, e.contact[s], e'.contact[s]) /\ ContactInv(s)
      BY <1>s, <2>2
    <3>2. /\ Sound(e.pressed, e'.contact[s])
          /\ InSync => Known(e.memory[s]) /\ IsDecided(e'.contact[s])
      BY <3>1, KeptSound, KeptDecided DEF ContactInv
    <3>3. ~e'.contact[s].began_in_frame
      BY <2>1, <3>1 DEF ContactInv, ContactKept, SameFinger
    <3> QED BY <2>1, <2>2, <3>2, <3>3 DEF ContactInv, InSync, SameSettings
  <2> QED BY <2>3, <2>4 DEF PadInv
<1>14. ASSUME NEW snapshot \in Snapshots, Resync(snapshot) PROVE PadInv'
  <2> DEFINE seeded == SeededMemory(snapshot.memory)
  <2>1. /\ phase = "resync" /\ phase' = "finalize" /\ frame' = NoFrame
        /\ ~e.resync_required
    BY <1>14 DEF Resync, Output, PadInv, BetweenFrames
  <2>2. /\ e'.resync_required = e.resync_required
        /\ e'.memory = seeded
        /\ \A s \in Slots :
             LET d == e'.contact[s]
             IN /\ ~d.began_in_frame /\ ~IsClaimed(d)
                /\ d.tracking_id # None => d.ownership = "Passthrough"
                /\ d.start_x = d.current_x /\ d.start_y = d.current_y
    BY <1>14, ResyncView
  <2>3. ButtonsInv'
    BY <2>1, ButtonsAfter, NoCodes DEF ButtonsInv, Dropped, Restored
  <2>4. BetweenFrames'
    BY <2>1 DEF BetweenFrames
  <2>5. ASSUME NEW s \in Slots PROVE Known(seeded[s])
    <3>1. snapshot.memory[s] \in Memory /\ Known(snapshot.memory[s])
      BY SnapshotsAssumption DEF Snapshot, KnownAxes, Known
    <3>2. \A m \in Memory : Known(m) => Known([m EXCEPT !.tool_type = None])
      BY DEF Memory, Known
    <3> QED BY <3>1, <3>2 DEF SeededMemory
  <2> HIDE DEF seeded
  <2>6. ASSUME NEW s \in Slots PROVE ContactInv(s)'
    <3>1. Sound(e'.pressed, e'.contact[s]) /\ IsDecided(e'.contact[s])
      BY <2>2 DEF Sound, IsDecided
    <3> QED BY <2>1, <2>2, <2>5, <3>1 DEF ContactInv
  <2> QED BY <2>3, <2>4, <2>6 DEF PadInv
<1>15. ASSUME NEW cfg \in Configs, Reload(cfg) PROVE PadInv'
  <2>1. phase = "idle" /\ phase' = "idle" /\ frame' = frame /\ at' = at
    BY <1>15 DEF Reload
  <2>2. /\ e'.contact = e.contact /\ e'.memory = e.memory
        /\ e'.pressed = e.pressed /\ e'.resync_required = e.resync_required
    BY <1>15, ReloadView
  <2>3. ButtonsInv' /\ BetweenFrames'
    BY <2>1, <2>2, SameButtons DEF PadInv, BetweenFrames, Dropped, Restored
  <2>4. \A s \in Slots : ContactInv(s)'
    BY <1>s, <2>1, <2>2 DEF ContactInv, InSync
  <2> QED BY <2>3, <2>4 DEF PadInv
<1> QED
  BY <1>1, <1>2, <1>3, <1>4, <1>5, <1>6, <1>7, <1>8, <1>9, <1>10, <1>11, <1>12,
     <1>13, <1>14, <1>15 DEF Next, FrameStep

\* The history only watches the engine.
LEMMA HistoryType == HSpec => []TypeInv
<1>1. HInit => TypeInv
  BY InitType DEF HInit
<1>2. TypeInv /\ [HNext]_hvars => TypeInv'
  BY StepType DEF HNext, hvars
<1> QED BY <1>1, <1>2, PTL DEF HSpec

\* On a buttonpad whose button is down no contact is an edge's, whether it was
\* claimed before the press or began after it, as long as the kernel names
\* every contact's place and presses no button it released in the same frame.
THEOREM PressedPadForwards ==
  ASSUME KnownAxes, ReleaseIsLast
  PROVE  HSpec => []PressedPadHasNoEdges
<1>1. TypeInv /\ PadInv => PressedPadHasNoEdges
  <2> SUFFICES ASSUME TypeInv, PadInv, phase = "idle", Buttonpad, h.buttons # {},
                      NEW s \in Slots, IsActive(e, s)
               PROVE  e.contact[s].ownership = "Passthrough"
    BY DEF PressedPadHasNoEdges
  <2>1. e.pressed # {} /\ InSync
    BY DEF PadInv, ButtonsInv, BetweenFrames, InSync
  <2>2. ~IsClaimed(e.contact[s]) /\ e.contact[s].ownership # "Unknown"
    BY <2>1 DEF PadInv, ContactInv, Sound, IsDecided, IsActive
  <2>3. e.contact[s].ownership \in Ownerships
    BY InHand, OwnershipType
  <2> QED BY <2>2, <2>3 DEF IsClaimed, Ownerships
<1>2. HInit => PadInv
  BY InitPad
<1>3. TypeInv /\ PadInv /\ [HNext]_hvars => PadInv'
  BY StepPad
<1> QED BY <1>1, <1>2, <1>3, HistoryType, PTL DEF HSpec
-----------------------------------------------------------------------------
(* The prepass and the labels of a frame.                                  *)

LEMMA AsFrom ==
  ASSUME NEW evs, NEW i, NEW s
  PROVE  /\ SlotAt(evs, i) = SlotFrom(kernel, evs, i)
         /\ IdAfter(evs, i, s) = IdFrom(kernel, evs, i, s)
         /\ ToolAfter(evs, i, s) = ToolFrom(kernel, h.tool, evs, i, s)
<1>1. \A j : SlotAt(evs, j) = SlotFrom(kernel, evs, j)
  BY SlotAsFrom
<1>2. ToolAfter(evs, i, s) = ToolFrom(kernel, h.tool, evs, i, s)
  BY <1>1 DEF ToolAfter, ToolFrom
<1> QED BY <1>2, SlotAsFrom

Labelled(k, evs, i, s, id) == \E j \in Rest(evs, i) : LabelAt(k, evs, j, s, id)
PalmLabelled(k, evs, i, s, id) ==
  \E j \in Rest(evs, i) : LabelAt(k, evs, j, s, id) /\ evs[j].value = PalmTool
Begins(k, evs, i, s, id) == \E j \in Rest(evs, i) : BeginsAt(k, evs, j, s, id)
Inherits(k, t, evs, i, s, id) ==
  \E j \in Rest(evs, i) : /\ BeginsAt(k, evs, j, s, id)
                          /\ ToolFrom(k, t, evs, j, s) = PalmTool

\* The verdict on contact id of slot s that the events from i on lead to, when
\* the prepass has recorded r for it.
Verdict(k, t, r, evs, i, s, id) ==
  \/ PalmLabelled(k, evs, i, s, id)
  \/ ~Labelled(k, evs, i, s, id) /\ Inherits(k, t, evs, i, s, id)
  \/ ~Begins(k, evs, i, s, id) /\ r.palm_reported
  \/ /\ ~Labelled(k, evs, i, s, id) /\ ~Begins(k, evs, i, s, id)
     /\ r.tool_type = PalmTool

LEMMA VerdictNext ==
  ASSUME NEW k, NEW t, NEW evs \in Seq(Event), NEW i \in DOMAIN evs, NEW s, NEW id
  PROVE  /\ Labelled(k, evs, i, s, id) <=>
              LabelAt(k, evs, i, s, id) \/ Labelled(k, evs, i + 1, s, id)
         /\ PalmLabelled(k, evs, i, s, id) <=>
              \/ LabelAt(k, evs, i, s, id) /\ evs[i].value = PalmTool
              \/ PalmLabelled(k, evs, i + 1, s, id)
         /\ Begins(k, evs, i, s, id) <=>
              BeginsAt(k, evs, i, s, id) \/ Begins(k, evs, i + 1, s, id)
         /\ Inherits(k, t, evs, i, s, id) <=>
              \/ /\ BeginsAt(k, evs, i, s, id)
                 /\ ToolFrom(k, t, evs, i, s) = PalmTool
              \/ Inherits(k, t, evs, i + 1, s, id)
BY RestNext DEF Labelled, PalmLabelled, Begins, Inherits

\* An event that is neither a label of the contact nor its beginning.
LEMMA VerdictSame ==
  ASSUME NEW k, NEW t, NEW evs \in Seq(Event), NEW i \in DOMAIN evs, NEW s, NEW id,
         NEW r, ~LabelAt(k, evs, i, s, id), ~BeginsAt(k, evs, i, s, id)
  PROVE  Verdict(k, t, r, evs, i + 1, s, id) <=> Verdict(k, t, r, evs, i, s, id)
BY VerdictNext DEF Verdict

\* The beginning: the contact takes the slot's tool type.
LEMMA VerdictBegins ==
  ASSUME NEW k, NEW t, NEW evs \in Seq(Event), FreshIds(k, evs),
         NEW i \in DOMAIN evs, NEW s, NEW id, id # None,
         BeginsAt(k, evs, i, s, id), NEW r, NEW q,
         q.tool_type = ToolFrom(k, t, evs, i, s), ~q.palm_reported
  PROVE  Verdict(k, t, q, evs, i + 1, s, id) <=> Verdict(k, t, r, evs, i, s, id)
<1>1. ~LabelAt(k, evs, i, s, id)
  BY DEF LabelAt, ToolTypeAt, BeginsAt
<1>2. ~Begins(k, evs, i + 1, s, id)
  <2> SUFFICES ASSUME NEW j \in Rest(evs, i + 1), BeginsAt(k, evs, j, s, id)
               PROVE  FALSE
    BY DEF Begins
  <2>1. j \in DOMAIN evs /\ j # i
    BY DEF Rest
  <2> QED BY <2>1 DEF FreshIds, BeginsAt
<1>3. ~Inherits(k, t, evs, i + 1, s, id)
  BY <1>2 DEF Inherits, Begins
<1> QED BY <1>1, <1>2, <1>3, VerdictNext DEF Verdict

\* A label: a palm is reported for good, any other label ends an inheritance.
LEMMA VerdictLabelled ==
  ASSUME NEW k, NEW t, NEW evs \in Seq(Event), FreshIds(k, evs),
         NEW i \in DOMAIN evs, NEW s \in Slots, NEW id, id # None,
         LabelAt(k, evs, i, s, id), NEW r, NEW q,
         q.tool_type = evs[i].value,
         q.palm_reported <=> r.palm_reported \/ evs[i].value = PalmTool
  PROVE  Verdict(k, t, q, evs, i + 1, s, id) <=> Verdict(k, t, r, evs, i, s, id)
<1>1. IdFrom(k, evs, i - 1, s) = id /\ i \in 1..Len(evs)
  <2>1. i \in Nat \ {0} /\ i \in 1..Len(evs)
    OBVIOUS
  <2> QED BY <2>1, IdNext DEF LabelAt, ToolTypeAt
<1>2. ~Begins(k, evs, i, s, id)
  <2> SUFFICES ASSUME NEW j \in Rest(evs, i), BeginsAt(k, evs, j, s, id)
               PROVE  FALSE
    BY DEF Begins
  <2>1. j \in DOMAIN evs /\ j >= i
    BY DEF Rest
  <2> QED BY <1>1, <2>1, InUse DEF BeginsAt
<1>3. ~Inherits(k, t, evs, i, s, id)
  BY <1>2 DEF Inherits, Begins
<1> QED BY <1>2, <1>3, VerdictNext DEF Verdict

\* After the last event the record is the verdict.
LEMMA VerdictEnd ==
  ASSUME NEW k, NEW t, NEW r, NEW evs \in Seq(Event), NEW i \in Int, i > Len(evs),
         NEW s, NEW id
  PROVE  Verdict(k, t, r, evs, i, s, id) <=> IsPalm(r)
<1>1. Rest(evs, i) = {}
  <2>1. \A j \in DOMAIN evs : ~(j >= i)
    BY Z3
  <2> QED BY <2>1 DEF Rest
<1> QED
  BY <1>1 DEF Verdict, Labelled, PalmLabelled, Begins, Inherits, IsPalm

\* The frame calls contact id of slot s a palm.
IsLabelled(k, t, evs, s, id) ==
  \/ PalmLabelled(k, evs, 1, s, id)
  \/ ~Labelled(k, evs, 1, s, id) /\ Inherits(k, t, evs, 1, s, id)

LEMMA LabelsAre ==
  ASSUME PalmRejection, NEW evs \in Seq(Event), NEW s \in Slots,
         NEW id \in TrackingIds
  PROVE  <<s, id>> \in PalmLabels(evs) <=> IsLabelled(kernel, h.tool, evs, s, id)
<1>1. Rest(evs, 1) = DOMAIN evs
  <2>1. \A j \in DOMAIN evs : j >= 1
    BY Z3
  <2> QED BY <2>1 DEF Rest
<1>2. Labels(evs, s, id) = {i \in DOMAIN evs : LabelAt(kernel, evs, i, s, id)}
  BY AsFrom DEF Labels, LabelAt, ToolTypeAt
<1>3. \A i \in DOMAIN evs :
        evs[i] = TrackingIdEvent(id) /\ SlotAt(evs, i) = s
          <=> BeginsAt(kernel, evs, i, s, id)
  <2>1. \A ev \in Event :
          ev = TrackingIdEvent(id) <=> ev.kind = "TrackingId" /\ ev.value = id
    BY DEF Event, TrackingIdEvent
  <2>2. \A i \in DOMAIN evs : evs[i] \in Event
    OBVIOUS
  <2> QED BY <2>1, <2>2, AsFrom DEF BeginsAt
<1>4. InheritsPalm(evs, s, id) <=>
        /\ ~Labelled(kernel, evs, 1, s, id)
        /\ Inherits(kernel, h.tool, evs, 1, s, id)
  BY <1>1, <1>2, <1>3, AsFrom DEF InheritsPalm, Labelled, Inherits
<1>5. (\E i \in Labels(evs, s, id) : evs[i].value = PalmTool)
        <=> PalmLabelled(kernel, evs, 1, s, id)
  BY <1>1, <1>2 DEF PalmLabelled
<1>6. <<s, id>> \in Slots \X TrackingIds
  OBVIOUS
<1> HIDE DEF PalmLabelled
<1>7. <<s, id>> \in PalmLabels(evs) <=>
        \/ \E i \in Labels(evs, s, id) : evs[i].value = PalmTool
        \/ InheritsPalm(evs, s, id)
  BY <1>6 DEF PalmLabels
<1> QED BY <1>4, <1>5, <1>7 DEF IsLabelled
-----------------------------------------------------------------------------
(* The invariant of palm rejection.                                        *)

\* The frames that no well-behaved kernel sends begin no contact, and lose no
\* events in the middle of others.
OddFramesBeginNothing ==
  \A f \in OddFrames : \A i \in DOMAIN f.events :
    /\ f.events[i].kind = "TrackingId" => f.events[i].value = None
    /\ f.events[i].kind = "SynDropped" => Len(f.events) = 1

IsDrop(evs) == \E i \in DOMAIN evs : evs[i].kind = "SynDropped"

\* No event from the i-th on is a tool type for slot s.
NoToolFrom(k, evs, i, s) == \A j \in Rest(evs, i) : ~ToolTypeAt(k, evs, j, s)

\* Contact id is down in slot s and rejected already.
Rejected(s, id) == kernel.ids[s] = id /\ e.contact[s].gesture_rejected

\* What the prepass has recorded, and the verdicts that lead from there.
ScanInv ==
  LET evs == frame.events
      after(s) == ToolFrom(kernel, h.tool, evs, Len(evs), s)
  IN /\ FreshIds(kernel, evs)
     /\ \A s \in Slots, id \in TrackingIds :
          Verdict(kernel, h.tool, scan.contacts[s][id], evs, at, s, id)
            \/ Rejected(s, id)
          <=> IsLabelled(kernel, h.tool, evs, s, id) \/ Rejected(s, id)
     /\ ~IsDrop(evs) =>
          /\ scan.slot = SlotFrom(kernel, evs, at - 1)
          /\ \A s \in Slots :
               /\ scan.ids[s] = IdFrom(kernel, evs, at - 1, s)
               /\ scan.tools[s] = ToolFrom(kernel, h.tool, evs, at - 1, s)
          /\ \A i \in DOMAIN evs, s \in Slots, id \in TrackingIds :
               i < at /\ BeginsAt(kernel, evs, i, s, id)
                      /\ NoToolFrom(kernel, evs, i, s)
                 => scan.contacts[s][id].tool_type = after(s)

\* The frame that began with the kernel in state k is processed up to event i:
\* the kernel's state, what the history knows of the frame, and the slots'
\* tool types where no later event sets them.
EventsFrom(k, i) ==
  LET evs == frame.events
  IN /\ kernel.slot = SlotFrom(k, evs, i - 1)
     /\ \A s \in Slots : kernel.ids[s] = IdFrom(k, evs, i - 1, s)
     /\ \A j \in DOMAIN evs, s \in Slots, id \in TrackingIds :
          LabelAt(k, evs, j, s, id) /\ evs[j].value = PalmTool
            => <<s, id>> \in h.labels
     /\ \A j \in DOMAIN evs, s \in Slots, id \in TrackingIds :
          BeginsAt(k, evs, j, s, id) /\ NoToolFrom(k, evs, j, s)
            => scan.contacts[s][id].tool_type = h.tool[s]
     /\ \A j \in DOMAIN evs, s \in Slots :
          ToolTypeAt(k, evs, j, s) /\ NoToolFrom(k, evs, j + 1, s)
            => evs[j].value = h.tool[s]
     /\ \A s \in Slots :
          NoToolFrom(k, evs, i, s) => e.memory[s].tool_type = h.tool[s]

\* The prepass judges the contacts the frame begins as the history does, and a
\* contact the frame labels is rejected.
ContactsJudged ==
  /\ \A i \in DOMAIN frame.events, s \in Slots, id \in TrackingIds :
       frame.events[i].kind = "TrackingId" /\ frame.events[i].value = id
         => (IsPalm(scan.contacts[s][id]) <=> <<s, id>> \in h.labels)
  /\ \A s \in Slots :
       IsActive(e, s) /\ <<s, e.contact[s].tracking_id>> \in h.labels
         => e.contact[s].gesture_rejected

KernelStates == [slot : Slots, ids : [Slots -> TrackingIds \cup {None}]]

EventsInv == ContactsJudged /\ \E k \in KernelStates : EventsFrom(k, at)

JudgedAlike ==
  \A s \in Slots : IsActive(e, s) =>
    /\ e.contact[s].gesture_rejected <=> h.palm[s]
    /\ e.memory[s].tool_type = PalmTool => e.contact[s].gesture_rejected

ToolsAgree ==
  phase \in {"idle", "scan", "finalize"} /\ ~e.resync_required =>
    \A s \in Slots : e.memory[s].tool_type = h.tool[s]

\* With palm rejection off the engine and the history look at no tool type.
NoPalms ==
  /\ scan.contacts = EmptyScan.contacts /\ h.labels = {}
  /\ phase = "scan" => at > Len(frame.events)
  /\ \A s \in Slots : e.memory[s].tool_type = None

\* After lost events the engine has no contact until the snapshot.
LostInv ==
  /\ e.resync_required \/ phase = "resync" => \A s \in Slots : ~IsActive(e, s)
  /\ phase \in {"scan", "events"} => DropIsAlone(frame.events)
  /\ phase = "events" /\ e.resync_required => at > Len(frame.events)
  /\ phase = "scan" => ~e.resync_required

PalmInv ==
  /\ BetweenFrames /\ LostInv /\ JudgedAlike
  /\ h.tool = [s \in Slots |-> h.tool[s]]
  /\ PalmRejection => /\ ToolsAgree
                      /\ phase = "scan" => ScanInv
                      /\ phase = "events" /\ ~e.resync_required => EventsInv
  /\ ~PalmRejection => NoPalms

\* What the history does in a step.
LEMMA PalmAfter ==
  ASSUME HUpdate
  PROVE  /\ h'.labels = IF Scanned THEN PalmLabels(frame.events) ELSE h.labels
         /\ h'.tool = [s \in Slots |->
              IF Scanned THEN ToolAfter(frame.events, Len(frame.events), s)
              ELSE IF Restored THEN e'.memory[s].tool_type ELSE h.tool[s]]
         /\ \A s \in Slots :
              /\ Began(s) => h'.palm[s] = BeganAsPalm(s)
              /\ Scanned /\ IsActive(e, s) =>
                   (h'.palm[s] <=>
                      \/ h.palm[s]
                      \/ <<s, e.contact[s].tracking_id>> \in PalmLabels(frame.events))
              /\ Restored =>
                   (h'.palm[s] <=> /\ IsActive(e', s)
                                   /\ e'.memory[s].tool_type = PalmTool)
              /\ ~Began(s) /\ ~Scanned /\ ~Restored =>
                   (h'.palm[s] <=> h.palm[s] /\ IsActive(e', s))
<1>1. /\ h'.labels = IF Scanned THEN PalmLabels(frame.events) ELSE h.labels
      /\ h'.tool = [s \in Slots |->
              IF Scanned THEN ToolAfter(frame.events, Len(frame.events), s)
              ELSE IF Restored THEN e'.memory[s].tool_type ELSE h.tool[s]]
  BY DEF HUpdate
<1>2. \A s \in Slots :
        h'.palm[s] =
           CASE Began(s) -> BeganAsPalm(s)
             [] Scanned /\ IsActive(e, s) ->
                  \/ h.palm[s]
                  \/ <<s, e.contact[s].tracking_id>> \in PalmLabels(frame.events)
             [] Restored -> IsActive(e', s) /\ e'.memory[s].tool_type = PalmTool
             [] ~Began(s) /\ ~(Scanned /\ IsActive(e, s)) /\ ~Restored ->
                  h.palm[s] /\ IsActive(e', s)
  BY DEF HUpdate
<1>3. \A s \in Slots : /\ Began(s) => ~Scanned /\ ~Restored
                       /\ Scanned => ~Restored
  BY DEF Began, Scanned, Restored
<1>4. ASSUME NEW s \in Slots
      PROVE  /\ Began(s) => h'.palm[s] = BeganAsPalm(s)
             /\ Scanned /\ IsActive(e, s) =>
                  (h'.palm[s] <=>
                     \/ h.palm[s]
                     \/ <<s, e.contact[s].tracking_id>> \in PalmLabels(frame.events))
             /\ Restored =>
                  (h'.palm[s] <=> /\ IsActive(e', s)
                                  /\ e'.memory[s].tool_type = PalmTool)
             /\ ~Began(s) /\ ~Scanned /\ ~Restored =>
                  (h'.palm[s] <=> h.palm[s] /\ IsActive(e', s))
  BY <1>2, <1>3
<1> QED BY <1>1, <1>4

\* Slots that go on as they are, but for what is decided about them.
LEMMA StillJudged ==
  ASSUME HUpdate, NEW s \in Slots, ~Scanned, ~Restored,
         IsActive(e', s) => IsActive(e, s),
         IsActive(e, s) => (e.contact[s].gesture_rejected <=> h.palm[s])
  PROVE  IsActive(e', s) => (e.contact[s].gesture_rejected <=> h'.palm[s])
BY PalmAfter DEF Began
\* The frames the engine is given are fresh.
LEMMA FrameIsFresh ==
  ASSUME OddFramesBeginNothing, TypeInv, NEW f \in Frames \cup OddFrames,
         f \in OddFrames \/ Conforms(f.events)
  PROVE  /\ f.events \in Seq(Event)
         /\ FreshIds(kernel, f.events) /\ DropIsAlone(f.events)
<1> DEFINE evs == f.events
<1>1. evs \in Seq(Event)
  BY FramesAssumption DEF Frame
<1>2. CASE f \in OddFrames
  BY <1>1, <1>2 DEF OddFramesBeginNothing, FreshIds, DropIsAlone
<1>3. CASE Conforms(evs)
  <2> HIDE DEF evs
  <2>1. ASSUME NEW i \in DOMAIN evs, evs[i].kind = "TrackingId", evs[i].value # None
        PROVE  IsFreshId(evs, i)
    BY <1>3, <2>1 DEF Conforms
  <2>2. DropIsAlone(evs)
    <3> SUFFICES ASSUME NEW i \in DOMAIN evs, evs[i].kind = "SynDropped"
                 PROVE  Len(evs) = 1
      BY DEF DropIsAlone
    <3> QED BY <1>3 DEF Conforms
  <2>3. FreshIds(kernel, evs)
    <3> SUFFICES ASSUME NEW i \in DOMAIN evs, evs[i].kind = "TrackingId",
                        evs[i].value # None
                 PROVE  /\ \A s \in Slots : kernel.ids[s] # evs[i].value
                        /\ \A j \in DOMAIN evs :
                             evs[j].kind = "TrackingId" /\ evs[j].value = evs[i].value
                               => j = i
      BY DEF FreshIds
    <3>1. IsFreshId(evs, i)
      BY <2>1
    <3>2. ASSUME NEW j \in DOMAIN evs, evs[j].kind = "TrackingId",
                 evs[j].value = evs[i].value
          PROVE  j = i
      <4>1. IsFreshId(evs, j)
        BY <2>1, <3>2
      <4>2. ~(j \in 1..(i - 1)) /\ ~(i \in 1..(j - 1))
        BY <3>1, <3>2, <4>1 DEF IsFreshId
      <4>3. i \in 1..Len(evs) /\ j \in 1..Len(evs)
        BY <1>1
      <4> QED BY <4>2, <4>3
    <3> QED BY <3>1, <3>2 DEF IsFreshId
  <2> QED BY <1>1, <2>2, <2>3 DEF evs
<1> QED BY <1>2, <1>3

\* The verdict the prepass starts from.
LEMMA VerdictStart ==
  ASSUME NEW k, NEW t, NEW evs \in Seq(Event), FreshIds(k, evs),
         NEW s \in Slots, NEW id \in TrackingIds, NEW r, NEW rejected \in BOOLEAN,
         rejected => k.ids[s] = id,
         r.palm_reported <=> rejected,
         r.tool_type = PalmTool => rejected
  PROVE  Verdict(k, t, r, evs, 1, s, id) \/ rejected
           <=> IsLabelled(k, t, evs, s, id) \/ rejected
<1>1. Inherits(k, t, evs, 1, s, id) => Begins(k, evs, 1, s, id)
  BY DEF Inherits, Begins
<1>2. CASE ~rejected
  BY <1>1, <1>2 DEF Verdict, IsLabelled
<1> QED BY <1>2

\* One iteration of frame_contact_tools, in a frame that loses no events.
LEMMA ScanView ==
  ASSUME TypeInv, ScanEvent, ~Fail, CurrentEvent.kind # "SynDropped",
         NEW k, NEW t, scan.slot = SlotFrom(k, frame.events, at - 1),
         \A s \in Slots :
           /\ scan.ids[s] = IdFrom(k, frame.events, at - 1, s)
           /\ scan.tools[s] = ToolFrom(k, t, frame.events, at - 1, s)
  PROVE  LET evs == frame.events
         IN /\ scan'.slot = SlotFrom(k, evs, at)
            /\ \A s \in Slots : /\ scan'.ids[s] = IdFrom(k, evs, at, s)
                                /\ scan'.tools[s] = ToolFrom(k, t, evs, at, s)
            /\ \A s \in Slots, id \in TrackingIds :
                 LET r == scan.contacts[s][id]  q == scan'.contacts[s][id]
                 IN /\ BeginsAt(k, evs, at, s, id) =>
                         q.tool_type = scan.tools[s] /\ ~q.palm_reported
                    /\ LabelAt(k, evs, at, s, id) =>
                         /\ q.tool_type = evs[at].value
                         /\ q.palm_reported <=>
                              r.palm_reported \/ evs[at].value = PalmTool
                    /\ ~BeginsAt(k, evs, at, s, id) /\ ~LabelAt(k, evs, at, s, id)
                         => q = r
<1> DEFINE evs == frame.events
           ev == evs[at]
           c == scan.slot
<1>1. /\ evs \in Seq(Event) /\ at \in DOMAIN evs /\ at \in Nat \ {0}
      /\ phase = "scan"
  BY DEF ScanEvent, TypeInv, TypeOK, FrameInHand, Frame
<1>2. /\ ev \in Event /\ ev.kind \in Kinds /\ ev.kind # "SynDropped"
      /\ ev.kind = "TrackingId" => ev.value \in TrackingIds \cup {None}
  BY <1>1, EventsInRange DEF EventInRange, Event, CurrentEvent
<1>3. /\ scan \in [ slot : Slots, tools : [Slots -> Int],
                   ids : [Slots -> TrackingIds \cup {None}],
                   contacts : [Slots -> [TrackingIds -> FrameTool]] ]
      /\ c \in Slots
  BY DEF TypeInv, TypeOK
<1>4. /\ SlotFrom(k, evs, at) = IF ev.kind = "Slot" THEN ev.value ELSE c
      /\ \A s \in Slots :
           /\ IdFrom(k, evs, at, s) =
                IF ev.kind = "TrackingId" /\ c = s THEN ev.value ELSE scan.ids[s]
           /\ ToolFrom(k, t, evs, at, s) =
                IF ev.kind = "ToolType" /\ c = s THEN ev.value ELSE scan.tools[s]
  BY <1>1, SlotNext, IdNext, ToolNext DEF ToolTypeAt
<1>5. /\ \A s, id : BeginsAt(k, evs, at, s, id) <=>
            ev.kind = "TrackingId" /\ ev.value = id /\ c = s
      /\ \A s \in Slots : \A id : LabelAt(k, evs, at, s, id) <=>
            ev.kind = "ToolType" /\ c = s /\ scan.ids[s] = id
  BY <1>4 DEF BeginsAt, LabelAt, ToolTypeAt
<1>6. TrackingIds \subseteq Nat /\ None \notin TrackingIds
  BY IdsAssumption DEF None
<1> DEFINE next ==
             CASE ev.kind = "Slot" -> [scan EXCEPT !.slot = ev.value]
               [] ev.kind = "TrackingId" ->
                    IF ev.value = None
                    THEN [scan EXCEPT !.ids[c] = None]
                    ELSE [scan EXCEPT !.ids[c] = ev.value,
                            !.contacts[c][ev.value] =
                              [tool_type |-> scan.tools[c],
                               palm_reported |-> FALSE]]
               [] ev.kind = "ToolType" ->
                    IF scan.ids[c] = None
                    THEN [scan EXCEPT !.tools[c] = ev.value]
                    ELSE [scan EXCEPT !.tools[c] = ev.value,
                            !.contacts[c][scan.ids[c]] =
                              [tool_type |-> ev.value,
                               palm_reported |->
                                 \/ scan.contacts[c][scan.ids[c]].palm_reported
                                 \/ ev.value = PalmTool]]
               [] ev.kind = "SynDropped" -> EmptyScan
               [] OTHER -> scan
<1>7. scan' = next
  BY <1>1 DEF ScanEvent
<1> HIDE DEF next
<1>8. CASE ev.kind = "Slot"
  <2>1. scan' = [scan EXCEPT !.slot = ev.value]
    BY <1>7, <1>8 DEF next
  <2>2. /\ scan'.slot = ev.value /\ scan'.ids = scan.ids
        /\ scan'.tools = scan.tools /\ scan'.contacts = scan.contacts
    BY <1>3, <2>1
  <2> HIDE DEF ev, c, evs
  <2> QED BY <1>4, <1>5, <1>8, <2>2 DEF evs, ev
<1>9. CASE ev.kind = "TrackingId" /\ ev.value = None
  <2>1. scan' = [scan EXCEPT !.ids[c] = None]
    BY <1>7, <1>9 DEF next
  <2>2. /\ scan'.slot = c /\ scan'.ids = [scan.ids EXCEPT ![c] = None]
        /\ scan'.tools = scan.tools /\ scan'.contacts = scan.contacts
    BY <1>3, <2>1
  <2>3. \A s \in Slots : scan'.ids[s] = IF c = s THEN None ELSE scan.ids[s]
    BY <1>3, <2>2
  <2> HIDE DEF ev, c, evs
  <2> QED BY <1>4, <1>5, <1>6, <1>9, <2>2, <2>3 DEF evs, ev
<1>10. CASE ev.kind = "TrackingId" /\ ev.value # None
  <2> DEFINE q == [tool_type |-> scan.tools[c], palm_reported |-> FALSE]
  <2>1. scan' = [scan EXCEPT !.ids[c] = ev.value, !.contacts[c][ev.value] = q]
    BY <1>7, <1>10 DEF next
  <2>2. q.tool_type = scan.tools[c] /\ ~q.palm_reported
    OBVIOUS
  <2> HIDE DEF q
  <2>3. /\ scan'.slot = c /\ scan'.ids = [scan.ids EXCEPT ![c] = ev.value]
        /\ scan'.tools = scan.tools
        /\ scan'.contacts = [scan.contacts EXCEPT ![c][ev.value] = q]
    BY <1>3, <2>1
  <2>4. /\ \A s \in Slots : scan'.ids[s] = IF c = s THEN ev.value ELSE scan.ids[s]
        /\ \A s \in Slots, id \in TrackingIds :
             scan'.contacts[s][id] = IF s = c /\ id = ev.value THEN q
                                     ELSE scan.contacts[s][id]
    BY <1>2, <1>3, <1>10, <2>3
  <2> HIDE DEF ev, c, evs
  <2> QED BY <1>4, <1>5, <1>10, <2>2, <2>3, <2>4 DEF evs, ev
<1>11. CASE ev.kind = "ToolType" /\ scan.ids[c] = None
  <2>1. scan' = [scan EXCEPT !.tools[c] = ev.value]
    BY <1>7, <1>11 DEF next
  <2>2. /\ scan'.slot = c /\ scan'.tools = [scan.tools EXCEPT ![c] = ev.value]
        /\ scan'.ids = scan.ids /\ scan'.contacts = scan.contacts
    BY <1>3, <2>1
  <2>3. \A s \in Slots : scan'.tools[s] = IF c = s THEN ev.value ELSE scan.tools[s]
    BY <1>3, <2>2
  <2> HIDE DEF ev, c, evs
  <2> QED BY <1>4, <1>5, <1>6, <1>11, <2>2, <2>3 DEF evs, ev
<1>12. CASE ev.kind = "ToolType" /\ scan.ids[c] # None
  <2> DEFINE r == scan.contacts[c][scan.ids[c]]
             q == [tool_type |-> ev.value,
                   palm_reported |-> r.palm_reported \/ ev.value = PalmTool]
  <2>1. scan' = [scan EXCEPT !.tools[c] = ev.value, !.contacts[c][scan.ids[c]] = q]
    BY <1>7, <1>12 DEF next
  <2>2. /\ q.tool_type = ev.value
        /\ q.palm_reported <=> r.palm_reported \/ ev.value = PalmTool
    OBVIOUS
  <2> HIDE DEF q
  <2>3. /\ scan'.slot = c /\ scan'.tools = [scan.tools EXCEPT ![c] = ev.value]
        /\ scan'.ids = scan.ids
        /\ scan'.contacts = [scan.contacts EXCEPT ![c][scan.ids[c]] = q]
    BY <1>3, <2>1
  <2>4. /\ \A s \in Slots : scan'.tools[s] = IF c = s THEN ev.value ELSE scan.tools[s]
        /\ \A s \in Slots, id \in TrackingIds :
             scan'.contacts[s][id] = IF s = c /\ id = scan.ids[c] THEN q
                                     ELSE scan.contacts[s][id]
    BY <1>3, <1>12, <2>3
  <2> HIDE DEF ev, c, evs
  <2> QED BY <1>4, <1>5, <1>12, <2>2, <2>3, <2>4 DEF evs, ev
<1>13. CASE ev.kind \in {"X", "Y"}
  <2>1. scan' = scan
    BY <1>7, <1>13 DEF next
  <2> HIDE DEF ev, c, evs
  <2> QED BY <1>4, <1>5, <1>13, <2>1 DEF evs, ev, c
<1> QED BY <1>2, <1>8, <1>9, <1>10, <1>11, <1>12, <1>13 DEF Kinds

\* Where no later event of the frame sets it, a slot's tool type stays.
LEMMA ToolStays ==
  ASSUME NEW k, NEW t, NEW evs \in Seq(Event), NEW i \in Nat \ {0}, i <= Len(evs) + 1,
         NEW s, NoToolFrom(k, evs, i, s)
  PROVE  ToolFrom(k, t, evs, Len(evs), s) = ToolFrom(k, t, evs, i - 1, s)
<1> DEFINE A(n) == {j \in 1..n : evs[j].kind = "ToolType" /\ SlotFrom(k, evs, j) = s}
<1>1. \A j \in DOMAIN evs : j >= i => ~ToolTypeAt(k, evs, j, s)
  BY DEF NoToolFrom, Rest
<1>2. /\ Len(evs) \in Nat /\ DOMAIN evs = 1..Len(evs)
  OBVIOUS
<1>3. \A j \in 1..Len(evs) : j \in 1..(i - 1) \/ j >= i
  BY <1>2
<1>4. \A j \in 1..(i - 1) : j \in 1..Len(evs)
  BY <1>2
<1>5. A(Len(evs)) = A(i - 1)
  BY <1>1, <1>2, <1>3, <1>4 DEF ToolTypeAt
<1> HIDE DEF A
<1> QED BY <1>5 DEF ToolFrom, A

LEMMA InitPalm == HInit => PalmInv
<1> SUFFICES ASSUME HInit PROVE PalmInv
  OBVIOUS
<1>1. PICK cfg \in Configs : e = NewEngine(cfg, SeededMemory(StartMemory))
  BY DEF HInit, Init
<1>2. /\ ~e.resync_required /\ e.memory = SeededMemory(StartMemory)
      /\ e.contact = [s \in Slots |-> NoContact]
  BY <1>1 DEF NewEngine
<1>3. phase = "idle" /\ frame = NoFrame /\ scan = EmptyScan
  BY DEF HInit, Init
<1>4. /\ h.labels = {}
      /\ h.tool = [s \in Slots |-> IF PalmRejection THEN StartMemory[s].tool_type
                                   ELSE None]
  BY DEF HInit
<1>5. \A s \in Slots : ~IsActive(e, s)
  BY <1>2, NoContactFields DEF IsActive
<1>6. ASSUME NEW s \in Slots
      PROVE  /\ e.memory[s].tool_type = h.tool[s]
             /\ ~PalmRejection => e.memory[s].tool_type = None
  <2>1. StartMemory[s] \in Memory
    BY MemoryAssumption
  <2>2. \A m \in Memory : [m EXCEPT !.tool_type = None].tool_type = None
    BY DEF Memory
  <2>3. CASE PalmRejection
    BY <1>2, <1>4, <2>3 DEF SeededMemory
  <2>4. CASE ~PalmRejection
    <3>1. e.memory[s] = [StartMemory[s] EXCEPT !.tool_type = None]
      BY <1>2, <2>4 DEF SeededMemory
    <3> QED BY <1>4, <2>1, <2>2, <2>4, <3>1
  <2> QED BY <2>3, <2>4
<1>7. JudgedAlike
  BY <1>5 DEF JudgedAlike
<1>8. BetweenFrames /\ LostInv
  BY <1>2, <1>3, <1>5 DEF BetweenFrames, LostInv
<1>9. ToolsAgree
  BY <1>6 DEF ToolsAgree
<1>10. ~PalmRejection => NoPalms
  BY <1>3, <1>4, <1>6 DEF NoPalms
<1> QED BY <1>3, <1>4, <1>7, <1>8, <1>9, <1>10 DEF PalmInv

\* A frame begins: the prepass starts from what the engine holds.
LEMMA StartPalm ==
  ASSUME OddFramesBeginNothing, TypeInv, Mirror, PalmInv, HUpdate,
         NEW f \in Frames \cup OddFrames, NEW t \in Stamps, StartFrame(f, t)
  PROVE  PalmInv'
<1> DEFINE evs == f.events
<1>1. /\ phase = "idle" /\ phase' = "scan" /\ frame' = f /\ kernel' = kernel
      /\ ~Scanned /\ ~Restored /\ \A s \in Slots : ~Began(s)
      /\ PalmRejection => at' = 1 /\ scan' = StartScan(e')
      /\ ~PalmRejection => at' = Len(evs) + 1 /\ scan' = EmptyScan
  BY DEF StartFrame, Scanned, Restored, Began
<1>2. /\ e'.resync_required = e.resync_required /\ e'.current_slot = e.current_slot
      /\ e'.memory = e.memory /\ e' \in EngineState
      /\ \A s \in Slots :
           /\ e'.contact[s].tracking_id = e.contact[s].tracking_id
           /\ e'.contact[s].gesture_rejected = e.contact[s].gesture_rejected
  BY StartView DEF SameFinger
<1>3. ~e.resync_required
  BY <1>1 DEF PalmInv, BetweenFrames
<1>4. /\ evs \in Seq(Event) /\ FreshIds(kernel, evs) /\ DropIsAlone(evs)
  <2>1. f \in OddFrames \/ Conforms(f.events)
    BY DEF StartFrame
  <2> QED BY <2>1, FrameIsFresh
<1> HIDE DEF evs
<1>5. /\ h'.labels = h.labels /\ h'.tool = h.tool
      /\ \A s \in Slots : h'.palm[s] <=> h.palm[s] /\ IsActive(e', s)
  <2>1. h.tool = [s \in Slots |-> h.tool[s]]
    BY DEF PalmInv
  <2>2. h'.tool = [s \in Slots |-> h.tool[s]]
    BY <1>1, PalmAfter
  <2> QED BY <1>1, <2>1, <2>2, PalmAfter
<1>6. BetweenFrames' /\ LostInv'
  BY <1>1, <1>2, <1>3, <1>4 DEF BetweenFrames, LostInv, evs
<1>7. JudgedAlike'
  BY <1>2, <1>5 DEF PalmInv, JudgedAlike, IsActive
<1>8. ASSUME PalmRejection PROVE ToolsAgree' /\ ScanInv'
  <2>1. \A s \in Slots : e.memory[s].tool_type = h.tool[s]
    BY <1>1, <1>3, <1>8 DEF PalmInv, ToolsAgree
  <2>2. ToolsAgree'
    BY <1>2, <1>5, <2>1 DEF ToolsAgree
  <2>3. scan' = StartScan(e') /\ at' = 1
    BY <1>1, <1>8
  <2>4. ASSUME NEW s \in Slots, NEW id \in TrackingIds
        PROVE  LET rejected == kernel.ids[s] = id /\ e'.contact[s].gesture_rejected
               IN Verdict(kernel, h.tool, scan'.contacts[s][id], evs, 1, s, id)
                    \/ rejected
                  <=> IsLabelled(kernel, h.tool, evs, s, id) \/ rejected
    <3> DEFINE r == scan'.contacts[s][id]
               c == e'.contact[s]
               rejected == kernel.ids[s] = id /\ c.gesture_rejected
    <3>1. r = IF c.tracking_id = id
              THEN [tool_type |-> e'.memory[s].tool_type,
                    palm_reported |-> c.gesture_rejected]
              ELSE NoTool
      BY <2>3 DEF StartScan
    <3>2. /\ c.tracking_id = kernel.ids[s] /\ c.gesture_rejected \in BOOLEAN
          /\ id # None
      <4>1. c \in Contact
        BY <1>2, EngineFields
      <4> QED BY <1>2, <4>1, IdsAssumption DEF Mirror, Contact, None
    <3>3. e'.memory[s].tool_type = PalmTool /\ c.tracking_id = id => c.gesture_rejected
      BY <1>2, <3>2 DEF PalmInv, JudgedAlike, IsActive
    <3> HIDE DEF r, c
    <3>4. /\ r.palm_reported <=> rejected
          /\ r.tool_type = PalmTool => rejected
      BY <3>1, <3>2, <3>3 DEF NoTool, PalmTool, None
    <3>5. rejected \in BOOLEAN /\ (rejected => kernel.ids[s] = id)
      OBVIOUS
    <3> HIDE DEF rejected
    <3>6. Verdict(kernel, h.tool, r, evs, 1, s, id) \/ rejected
            <=> IsLabelled(kernel, h.tool, evs, s, id) \/ rejected
      BY <1>4, <3>4, <3>5, VerdictStart
    <3> QED BY <3>6 DEF rejected, r, c
  <2>5. /\ scan'.slot = e'.current_slot
        /\ \A s \in Slots : /\ scan'.ids[s] = e'.contact[s].tracking_id
                            /\ scan'.tools[s] = e'.memory[s].tool_type
    BY <2>3 DEF StartScan
  <2>6. /\ scan'.slot = SlotFrom(kernel, evs, 0)
        /\ \A s \in Slots : /\ scan'.ids[s] = IdFrom(kernel, evs, 0, s)
                            /\ scan'.tools[s] = ToolFrom(kernel, h.tool, evs, 0, s)
    BY <1>2, <2>1, <2>5, NoneYet DEF Mirror
  <2>7. \A i \in DOMAIN evs : ~(i < 1)
    BY <1>4
  <2>8. ScanInv'
    BY <1>1, <1>4, <1>5, <2>3, <2>4, <2>6, <2>7 DEF ScanInv, Rejected, evs
  <2> QED BY <2>2, <2>8
<1>9. ASSUME ~PalmRejection PROVE NoPalms'
  BY <1>1, <1>2, <1>4, <1>5, <1>9 DEF PalmInv, NoPalms, evs
<1>10. h'.tool = [s \in Slots |-> h'.tool[s]]
  BY <1>5 DEF PalmInv
<1> QED BY <1>1, <1>6, <1>7, <1>8, <1>9, <1>10 DEF PalmInv

\* A step that leaves the engine alone, and is not the start of its events.
LEMMA SameJudged ==
  ASSUME PalmInv, HUpdate, e' = e, ~Scanned, ~Restored
  PROVE  /\ h'.labels = h.labels /\ h'.tool = h.tool
         /\ h'.tool = [s \in Slots |-> h'.tool[s]]
         /\ JudgedAlike'
<1>1. h.tool = [s \in Slots |-> h.tool[s]]
  BY DEF PalmInv
<1>2. \A s \in Slots : ~Began(s)
  BY DEF Began
<1>3. h'.labels = h.labels /\ h'.tool = [s \in Slots |-> h.tool[s]]
  BY PalmAfter
<1>4. \A s \in Slots : h'.palm[s] <=> h.palm[s] /\ IsActive(e, s)
  BY <1>2, PalmAfter
<1>5. JudgedAlike'
  BY <1>4 DEF PalmInv, JudgedAlike
<1> QED BY <1>1, <1>3, <1>5

LEMMA FailPalm ==
  ASSUME PalmInv, HUpdate, Fail, phase \in {"scan", "events"}
  PROVE  PalmInv'
<1>1. /\ e' = e /\ phase' = "error" /\ scan' = scan /\ ~Scanned /\ ~Restored
  BY DEF Fail, Scanned, Restored
<1>2. h'.labels = h.labels /\ h'.tool = [s \in Slots |-> h'.tool[s]] /\ JudgedAlike'
  BY <1>1, SameJudged
<1>3. BetweenFrames' /\ LostInv' /\ ToolsAgree'
  BY <1>1 DEF PalmInv, BetweenFrames, LostInv, ToolsAgree
<1>4. ASSUME ~PalmRejection PROVE NoPalms'
  BY <1>1, <1>2, <1>4 DEF PalmInv, NoPalms
<1> QED BY <1>1, <1>2, <1>3, <1>4 DEF PalmInv

LEMMA NothingLabelled ==
  ASSUME NEW k, NEW t, NEW evs \in Seq(Event), DropIsAlone(evs),
         NEW i \in DOMAIN evs, evs[i].kind = "SynDropped", NEW s, NEW id
  PROVE  ~IsLabelled(k, t, evs, s, id)
<1>1. \A j \in DOMAIN evs : evs[j].kind = "SynDropped"
  <2>1. Len(evs) = 1
    BY DEF DropIsAlone
  <2>2. \A j \in DOMAIN evs : j = i
    BY <2>1
  <2> QED BY <2>2
<1> QED
  BY <1>1 DEF IsLabelled, PalmLabelled, Inherits, LabelAt, ToolTypeAt, BeginsAt, Rest

\* One more event of the prepass.
LEMMA ScanOne ==
  ASSUME TypeInv, ScanEvent, ~Fail, ScanInv, DropIsAlone(frame.events),
         CurrentEvent.kind # "SynDropped", h'.tool = h.tool
  PROVE  ScanInv'
<1> DEFINE evs == frame.events
           verdict(r, i, s, id) == Verdict(kernel, h.tool, r, evs, i, s, id)
<1>1. /\ evs \in Seq(Event) /\ at \in DOMAIN evs /\ at \in Nat \ {0}
      /\ e' = e /\ frame' = frame /\ kernel' = kernel /\ at' = at + 1
  BY DEF ScanEvent, TypeInv, TypeOK, FrameInHand, Frame
<1>2. FreshIds(kernel, evs)
  BY DEF ScanInv
<1>3. ~IsDrop(evs)
  <2> SUFFICES ASSUME NEW i \in DOMAIN evs, evs[i].kind = "SynDropped" PROVE FALSE
    BY DEF IsDrop
  <2>1. Len(evs) = 1
    BY DEF DropIsAlone
  <2>2. i = at
    BY <1>1, <2>1
  <2> QED BY <2>2 DEF CurrentEvent
<1>4. /\ scan.slot = SlotFrom(kernel, evs, at - 1)
      /\ \A s \in Slots :
           /\ scan.ids[s] = IdFrom(kernel, evs, at - 1, s)
           /\ scan.tools[s] = ToolFrom(kernel, h.tool, evs, at - 1, s)
  BY <1>3 DEF ScanInv
<1>5. /\ scan'.slot = SlotFrom(kernel, evs, at)
      /\ \A s \in Slots :
           /\ scan'.ids[s] = IdFrom(kernel, evs, at, s)
           /\ scan'.tools[s] = ToolFrom(kernel, h.tool, evs, at, s)
      /\ \A s \in Slots, id \in TrackingIds :
           LET r == scan.contacts[s][id]  q == scan'.contacts[s][id]
           IN /\ BeginsAt(kernel, evs, at, s, id) =>
                   q.tool_type = scan.tools[s] /\ ~q.palm_reported
              /\ LabelAt(kernel, evs, at, s, id) =>
                   /\ q.tool_type = evs[at].value
                   /\ q.palm_reported <=>
                        r.palm_reported \/ evs[at].value = PalmTool
              /\ ~BeginsAt(kernel, evs, at, s, id) /\ ~LabelAt(kernel, evs, at, s, id)
                   => q = r
  BY <1>4, ScanView
<1> HIDE DEF evs
<1>6. ASSUME NEW s \in Slots, NEW id \in TrackingIds
      PROVE  verdict(scan'.contacts[s][id], at + 1, s, id)
               <=> verdict(scan.contacts[s][id], at, s, id)
  <2> DEFINE r == scan.contacts[s][id]
             q == scan'.contacts[s][id]
  <2>1. id # None
    BY IdsAssumption DEF None
  <2>2. CASE BeginsAt(kernel, evs, at, s, id)
    <3>1. ToolFrom(kernel, h.tool, evs, at, s) = scan.tools[s]
      BY <1>1, <1>4, <2>2, ToolNext DEF ToolTypeAt, BeginsAt
    <3>2. q.tool_type = ToolFrom(kernel, h.tool, evs, at, s) /\ ~q.palm_reported
      BY <1>5, <2>2, <3>1
    <3> HIDE DEF q, r
    <3> QED BY <1>1, <1>2, <2>1, <2>2, <3>2, VerdictBegins DEF q, r
  <2>3. CASE LabelAt(kernel, evs, at, s, id)
    <3>1. /\ q.tool_type = evs[at].value
          /\ q.palm_reported <=> r.palm_reported \/ evs[at].value = PalmTool
      BY <1>5, <2>3
    <3> HIDE DEF q, r
    <3> QED BY <1>1, <1>2, <2>1, <2>3, <3>1, VerdictLabelled DEF q, r
  <2>4. CASE ~BeginsAt(kernel, evs, at, s, id) /\ ~LabelAt(kernel, evs, at, s, id)
    <3>1. q = r
      BY <1>5, <2>4
    <3>2. verdict(r, at + 1, s, id) <=> verdict(r, at, s, id)
      <4> HIDE DEF r
      <4> QED BY <1>1, <2>4, VerdictSame
    <3> QED BY <3>1, <3>2
  <2> QED BY <2>2, <2>3, <2>4
<1>7. ASSUME NEW i \in DOMAIN evs, NEW s \in Slots, NEW id \in TrackingIds,
             i < at + 1, BeginsAt(kernel, evs, i, s, id), NoToolFrom(kernel, evs, i, s)
      PROVE  scan'.contacts[s][id].tool_type
               = ToolFrom(kernel, h.tool, evs, Len(evs), s)
  <2>1. CASE i = at
    <3>1. scan'.contacts[s][id].tool_type = scan.tools[s]
      BY <1>5, <1>7, <2>1
    <3>2. at <= Len(evs) + 1
      BY <1>1
    <3>3. ToolFrom(kernel, h.tool, evs, Len(evs), s) = scan.tools[s]
      BY <1>1, <1>4, <1>7, <2>1, <3>2, ToolStays
    <3> QED BY <3>1, <3>3
  <2>2. CASE i # at
    <3>1. i \in Nat /\ i < at
      BY <1>1, <1>7, <2>2
    <3>2. ~BeginsAt(kernel, evs, at, s, id)
      <4>1. id # None
        BY IdsAssumption DEF None
      <4> QED BY <1>1, <1>2, <1>7, <2>2, <4>1 DEF FreshIds, BeginsAt
    <3>3. ~LabelAt(kernel, evs, at, s, id)
      BY <1>1, <1>7, <3>1 DEF NoToolFrom, Rest, LabelAt
    <3>4. scan'.contacts[s][id] = scan.contacts[s][id]
      BY <1>5, <3>2, <3>3
    <3>5. scan.contacts[s][id].tool_type
            = ToolFrom(kernel, h.tool, evs, Len(evs), s)
      BY <1>3, <1>7, <3>1 DEF ScanInv, evs
    <3> QED BY <3>4, <3>5
  <2> QED BY <2>1, <2>2
<1>8. at' - 1 = at
  BY <1>1
<1>9. \A s \in Slots, id \in TrackingIds :
        verdict(scan.contacts[s][id], at, s, id) \/ Rejected(s, id)
          <=> IsLabelled(kernel, h.tool, evs, s, id) \/ Rejected(s, id)
  BY DEF ScanInv, evs
<1>10. \A s \in Slots, id \in TrackingIds :
        verdict(scan'.contacts[s][id], at', s, id) \/ Rejected(s, id)
          <=> IsLabelled(kernel, h.tool, evs, s, id) \/ Rejected(s, id)
  <2> HIDE DEF verdict
  <2> QED BY <1>1, <1>6, <1>9
<1> QED BY <1>1, <1>2, <1>5, <1>7, <1>8, <1>10 DEF ScanInv, Rejected, evs

\* The prepass stops at lost events, with nothing recorded.
LEMMA ScanLost ==
  ASSUME TypeInv, ScanEvent, ~Fail, ScanInv, DropIsAlone(frame.events),
         CurrentEvent.kind = "SynDropped", h'.tool = h.tool
  PROVE  ScanInv'
<1> DEFINE evs == frame.events
<1>1. /\ evs \in Seq(Event) /\ at \in DOMAIN evs /\ at \in Nat \ {0}
      /\ e' = e /\ frame' = frame /\ kernel' = kernel /\ at' = at + 1
      /\ scan' = EmptyScan
  BY DEF ScanEvent, TypeInv, TypeOK, FrameInHand, Frame, CurrentEvent
<1>2. FreshIds(kernel, evs)
  BY DEF ScanInv
<1>3. evs[at].kind = "SynDropped" /\ IsDrop(evs)
  BY <1>1 DEF CurrentEvent, IsDrop
<1>4. Len(evs) = 1 /\ at' > Len(evs) /\ at' \in Int
  <2>1. Len(evs) = 1
    BY <1>1, <1>3 DEF DropIsAlone
  <2> HIDE DEF evs
  <2> QED BY <1>1, <2>1
<1>5. ASSUME NEW s \in Slots, NEW id \in TrackingIds
      PROVE  /\ ~Verdict(kernel, h.tool, scan'.contacts[s][id], evs, at', s, id)
             /\ ~IsLabelled(kernel, h.tool, evs, s, id)
  <2>1. scan'.contacts[s][id] = NoTool
    BY <1>1 DEF EmptyScan
  <2>2. ~IsPalm(NoTool)
    BY DEF IsPalm, NoTool, PalmTool, None
  <2>3. ~IsLabelled(kernel, h.tool, evs, s, id)
    BY <1>1, <1>3, NothingLabelled
  <2> HIDE DEF evs
  <2> QED BY <1>1, <1>4, <2>1, <2>2, <2>3, VerdictEnd
<1> QED BY <1>1, <1>2, <1>3, <1>5 DEF ScanInv, Rejected

LEMMA ScanPalm ==
  ASSUME TypeInv, PalmInv, HUpdate, ScanEvent
  PROVE  PalmInv'
<1>1. phase = "scan" /\ ~(at > Len(frame.events)) /\ PalmRejection
  BY DEF ScanEvent, PalmInv, NoPalms, TypeInv, TypeOK, Frame
<1> SUFFICES ASSUME ~Fail PROVE PalmInv'
  BY <1>1, FailPalm
<1>2. /\ e' = e /\ phase' = "scan" /\ frame' = frame /\ ~Scanned /\ ~Restored
  BY DEF ScanEvent, Scanned, Restored
<1>3. /\ h'.tool = h.tool /\ JudgedAlike'
      /\ h'.tool = [s \in Slots |-> h'.tool[s]]
  BY <1>2, SameJudged
<1>4. BetweenFrames' /\ LostInv' /\ ToolsAgree'
  BY <1>1, <1>2, <1>3 DEF PalmInv, BetweenFrames, LostInv, ToolsAgree
<1>5. ScanInv /\ DropIsAlone(frame.events)
  BY <1>1 DEF PalmInv, LostInv
<1>6. ScanInv'
  BY <1>3, <1>5, ScanOne, ScanLost
<1> QED BY <1>1, <1>2, <1>3, <1>4, <1>6 DEF PalmInv

\* The prepass is over: its records are the frame's labels.
LEMMA Prejudged ==
  ASSUME TypeInv, Mirror, PalmRejection, ScanInv, HUpdate, BeginEvents
  PROVE  /\ \A s \in Slots, id \in TrackingIds :
              IsPalm(scan.contacts[s][id]) \/ Rejected(s, id)
                <=> <<s, id>> \in h'.labels \/ Rejected(s, id)
         /\ \A s \in Slots, id \in TrackingIds :
              <<s, id>> \in h'.labels <=> IsLabelled(kernel, h.tool, frame.events, s, id)
         /\ \A s \in Slots :
              h'.tool[s] = ToolFrom(kernel, h.tool, frame.events, Len(frame.events), s)
<1> DEFINE evs == frame.events
<1>1. /\ evs \in Seq(Event) /\ at \in Int /\ at > Len(evs) /\ Scanned
  BY DEF BeginEvents, Scanned, TypeInv, TypeOK, Frame
<1>2. h'.labels = PalmLabels(evs)
  BY <1>1, PalmAfter
<1>3. \A s \in Slots : h'.tool[s] = ToolAfter(evs, Len(evs), s)
  BY <1>1, PalmAfter
<1> HIDE DEF evs
<1>4. \A s \in Slots, id \in TrackingIds :
        <<s, id>> \in h'.labels <=> IsLabelled(kernel, h.tool, evs, s, id)
  BY <1>1, <1>2, LabelsAre
<1>5. \A s \in Slots, id \in TrackingIds :
        Verdict(kernel, h.tool, scan.contacts[s][id], evs, at, s, id)
          <=> IsPalm(scan.contacts[s][id])
  BY <1>1, VerdictEnd
<1>6. \A s \in Slots, id \in TrackingIds :
        Verdict(kernel, h.tool, scan.contacts[s][id], evs, at, s, id)
          \/ Rejected(s, id)
        <=> IsLabelled(kernel, h.tool, evs, s, id) \/ Rejected(s, id)
  BY DEF ScanInv, evs
<1>7. \A s \in Slots : h'.tool[s] = ToolFrom(kernel, h.tool, evs, Len(evs), s)
  BY <1>3, AsFrom
<1> QED BY <1>4, <1>5, <1>6, <1>7 DEF evs

\* What the history learns of the frame, as its events will find it.
LEMMA EventsBegin ==
  ASSUME TypeInv, Mirror, PalmRejection, ToolsAgree, LostInv, ScanInv, HUpdate,
         BeginEvents, e'.memory = e.memory, NEW k, k = kernel
  PROVE  EventsFrom(k, 1)'
<1> DEFINE evs == frame.events
           after(s) == ToolFrom(k, h.tool, evs, Len(evs), s)
<1>1. /\ evs \in Seq(Event) /\ at \in Int /\ at > Len(evs) /\ phase = "scan"
      /\ kernel' = kernel /\ frame' = frame /\ scan' = scan
  BY DEF BeginEvents, TypeInv, TypeOK, Frame
<1>2. Len(evs) \in Nat /\ DOMAIN evs = 1..Len(evs)
  BY <1>1
<1> HIDE DEF evs
<1>3. \A s \in Slots, id \in TrackingIds :
        <<s, id>> \in h'.labels <=> IsLabelled(k, h.tool, evs, s, id)
  BY Prejudged DEF evs
<1>4. \A s \in Slots : h'.tool[s] = after(s)
  BY Prejudged DEF evs
<1>5. /\ kernel'.slot = SlotFrom(k, evs, 0)
      /\ \A s \in Slots : kernel'.ids[s] = IdFrom(k, evs, 0, s)
  <2>1. \A s : /\ SlotFrom(k, evs, 0) = k.slot
               /\ IdFrom(k, evs, 0, s) = k.ids[s]
               /\ ToolFrom(k, h.tool, evs, 0, s) = h.tool[s]
    BY NoneYet
  <2>2. kernel' = k
    BY <1>1
  <2> QED BY <2>1, <2>2
<1>6. ASSUME NEW j \in DOMAIN evs, NEW s \in Slots, NEW id \in TrackingIds,
             LabelAt(k, evs, j, s, id), evs[j].value = PalmTool
      PROVE  <<s, id>> \in h'.labels
  <2>1. j \in Rest(evs, 1)
    BY <1>2 DEF Rest
  <2> QED BY <1>3, <1>6, <2>1 DEF IsLabelled, PalmLabelled
<1>7. ASSUME NEW j \in DOMAIN evs, NEW s \in Slots, NEW id \in TrackingIds,
             BeginsAt(k, evs, j, s, id), NoToolFrom(k, evs, j, s)
      PROVE  scan.contacts[s][id].tool_type = h'.tool[s]
  <2>1. ~IsDrop(evs)
    <3> SUFFICES ASSUME NEW i \in DOMAIN evs, evs[i].kind = "SynDropped" PROVE FALSE
      BY DEF IsDrop
    <3>1. Len(evs) = 1
      BY <1>1 DEF LostInv, DropIsAlone, evs
    <3>2. i = j
      BY <1>2, <3>1
    <3> QED BY <1>7, <3>2 DEF BeginsAt
  <2>2. j < at
    BY <1>1, <1>2
  <2>3. scan.contacts[s][id].tool_type = after(s)
    BY <1>7, <2>1, <2>2 DEF ScanInv, evs
  <2> QED BY <1>4, <2>3
<1>8. ASSUME NEW j \in DOMAIN evs, NEW s \in Slots,
             ToolTypeAt(k, evs, j, s), NoToolFrom(k, evs, j + 1, s)
      PROVE  evs[j].value = h'.tool[s]
  <2>1. j \in 1..Len(evs) /\ \A i \in 1..Len(evs) : i > j => ~ToolTypeAt(k, evs, i, s)
    <3>1. \A i \in DOMAIN evs : i >= j + 1 => ~ToolTypeAt(k, evs, i, s)
      BY <1>8 DEF NoToolFrom, Rest
    <3> QED BY <1>2, <3>1
  <2>2. after(s) = evs[j].value
    BY <1>2, <1>8, <2>1, LastTool
  <2> QED BY <1>4, <2>2
<1>9. ASSUME NEW s \in Slots, NoToolFrom(k, evs, 1, s)
      PROVE  e'.memory[s].tool_type = h'.tool[s]
  <2>1. e.memory[s].tool_type = h.tool[s]
    BY <1>1 DEF ToolsAgree, LostInv
  <2>2. after(s) = ToolFrom(k, h.tool, evs, 1 - 1, s)
    <3>1. 1 <= Len(evs) + 1 /\ 1 \in Nat \ {0}
      BY <1>2
    <3> QED BY <1>1, <1>9, <3>1, ToolStays
  <2>3. ToolFrom(k, h.tool, evs, 0, s) = h.tool[s]
    BY NoneYet
  <2> QED BY <1>4, <2>1, <2>2, <2>3
<1>10. 1 - 1 = 0
  OBVIOUS
<1> QED BY <1>1, <1>5, <1>6, <1>7, <1>8, <1>9, <1>10 DEF EventsFrom, evs

LEMMA BeginPalm ==
  ASSUME TypeInv, Mirror, PalmInv, HUpdate, BeginEvents
  PROVE  PalmInv'
<1>1. /\ phase = "scan" /\ phase' = "events" /\ Scanned /\ ~Restored
      /\ frame' = frame /\ scan' = scan /\ at' = 1
  BY DEF BeginEvents, Scanned, Restored
<1>2. /\ e'.resync_required = e.resync_required /\ e'.memory = e.memory
      /\ \A s \in Slots :
           LET c == e.contact[s]  d == e'.contact[s]
           IN /\ d.tracking_id = c.tracking_id
              /\ d.gesture_rejected <=>
                   \/ c.gesture_rejected
                   \/ /\ c.tracking_id # None
                      /\ IsPalm(scan.contacts[s][c.tracking_id])
  BY BeginEventsView DEF SameSettings, SamePlace
<1>3. ~e.resync_required /\ DropIsAlone(frame.events)
  BY <1>1 DEF PalmInv, LostInv
<1>4. BetweenFrames' /\ LostInv' /\ ToolsAgree'
  BY <1>1, <1>2, <1>3 DEF BetweenFrames, LostInv, ToolsAgree
<1>5. h'.tool = [s \in Slots |-> h'.tool[s]]
  <2>1. h'.tool = [s \in Slots |-> ToolAfter(frame.events, Len(frame.events), s)]
    BY <1>1, PalmAfter
  <2> HIDE DEF ToolAfter
  <2> QED BY <2>1
<1>6. \A s \in Slots : IsActive(e, s) =>
        (h'.palm[s] <=>
           h.palm[s] \/ <<s, e.contact[s].tracking_id>> \in h'.labels)
  BY <1>1, PalmAfter
<1>7. \A s \in Slots :
        LET c == e.contact[s]
        IN /\ c.tracking_id = kernel.ids[s]
           /\ c.tracking_id # None => c.tracking_id \in TrackingIds
           /\ IsActive(e, s) <=> c.tracking_id # None
           /\ IsActive(e', s) <=> IsActive(e, s)
  BY <1>2, InHand DEF Mirror, IsActive
<1>8. ASSUME PalmRejection PROVE JudgedAlike' /\ EventsInv'
  <2>1. ScanInv /\ ToolsAgree /\ LostInv /\ JudgedAlike
    BY <1>1, <1>8 DEF PalmInv
  <2>2. \A s \in Slots, id \in TrackingIds :
          IsPalm(scan.contacts[s][id]) \/ Rejected(s, id)
            <=> <<s, id>> \in h'.labels \/ Rejected(s, id)
    BY <1>8, <2>1, Prejudged
  <2>3. ASSUME NEW s \in Slots, IsActive(e, s)
        PROVE  /\ e'.contact[s].gesture_rejected <=> h'.palm[s]
               /\ e'.memory[s].tool_type = PalmTool => e'.contact[s].gesture_rejected
               /\ <<s, e'.contact[s].tracking_id>> \in h'.labels
                    => e'.contact[s].gesture_rejected
    <3> DEFINE id == e.contact[s].tracking_id
    <3>1. id \in TrackingIds /\ id # None /\ kernel.ids[s] = id
      BY <1>7, <2>3
    <3>2. Rejected(s, id) <=> e.contact[s].gesture_rejected
      BY <3>1 DEF Rejected
    <3>3. /\ e.contact[s].gesture_rejected <=> h.palm[s]
          /\ e.memory[s].tool_type = PalmTool => e.contact[s].gesture_rejected
      BY <2>1, <2>3 DEF JudgedAlike
    <3>4. e'.contact[s].gesture_rejected
            <=> e.contact[s].gesture_rejected \/ IsPalm(scan.contacts[s][id])
      BY <1>2, <3>1
    <3>5. h'.palm[s] <=> h.palm[s] \/ <<s, id>> \in h'.labels
      BY <1>6, <2>3
    <3>6. e'.contact[s].tracking_id = id /\ e'.memory = e.memory
      BY <1>2
    <3> HIDE DEF id
    <3>7. IsPalm(scan.contacts[s][id]) \/ Rejected(s, id)
            <=> <<s, id>> \in h'.labels \/ Rejected(s, id)
      BY <2>2, <3>1
    <3> QED BY <3>2, <3>3, <3>4, <3>5, <3>6, <3>7
  <2>4. JudgedAlike'
    BY <1>7, <2>3 DEF JudgedAlike
  <2>5. ASSUME NEW i \in DOMAIN frame.events, NEW s \in Slots, NEW id \in TrackingIds,
               frame.events[i].kind = "TrackingId", frame.events[i].value = id
        PROVE  IsPalm(scan.contacts[s][id]) <=> <<s, id>> \in h'.labels
    <3>1. kernel.ids[s] # id
      <4>1. id # None
        BY IdsAssumption DEF None
      <4> QED BY <2>1, <2>5, <4>1 DEF ScanInv, FreshIds
    <3> QED BY <2>2, <3>1 DEF Rejected
  <2>6. ContactsJudged'
    BY <1>1, <1>7, <2>3, <2>5 DEF ContactsJudged, IsPalm
  <2>7. kernel \in KernelStates
    BY DEF TypeInv, TypeOK, KernelStates
  <2>8. PICK k \in KernelStates : k = kernel
    BY <2>7
  <2>9. EventsFrom(k, 1)'
    BY <1>2, <1>8, <2>1, <2>8, EventsBegin
  <2>10. EventsFrom(k, at)'
    BY <1>1, <2>9
  <2> QED BY <2>4, <2>6, <2>10 DEF EventsInv
<1>9. ASSUME ~PalmRejection PROVE JudgedAlike' /\ NoPalms'
  <2>1. NoPalms /\ JudgedAlike
    BY <1>9 DEF PalmInv
  <2>2. h'.labels = {}
    <3>1. h'.labels = PalmLabels(frame.events)
      BY <1>1, PalmAfter
    <3> QED BY <1>9, <3>1 DEF PalmLabels
  <2>3. NoPalms'
    BY <1>1, <1>2, <2>1, <2>2 DEF NoPalms
  <2>4. \A s \in Slots, id \in TrackingIds : ~IsPalm(scan.contacts[s][id])
    BY <2>1 DEF NoPalms, EmptyScan, IsPalm, NoTool, PalmTool, None
  <2>5. JudgedAlike'
    BY <1>2, <1>6, <1>7, <2>1, <2>2, <2>4 DEF JudgedAlike
  <2> QED BY <2>3, <2>5
<1> QED BY <1>1, <1>4, <1>5, <1>8, <1>9 DEF PalmInv

-----------------------------------------------------------------------------
(* One event of the frame.                                                 *)

\* What the event makes of the kernel and of the slots' tool types.
KernelMoves ==
  /\ kernel'.slot = IF CurrentEvent.kind = "Slot" THEN CurrentEvent.value
                    ELSE kernel.slot
  /\ \A s \in Slots :
       kernel'.ids[s] = IF CurrentEvent.kind = "TrackingId" /\ s = kernel.slot
                        THEN CurrentEvent.value ELSE kernel.ids[s]

ToolsMove ==
  \A s \in Slots :
    e'.memory[s].tool_type =
      IF s # kernel.slot THEN e.memory[s].tool_type
      ELSE IF CurrentEvent.kind = "ToolType" THEN CurrentEvent.value
      ELSE IF CurrentEvent.kind = "TrackingId" /\ CurrentEvent.value # None
      THEN scan.contacts[s][CurrentEvent.value].tool_type
      ELSE e.memory[s].tool_type

\* The contact in slot s is judged alike after the step.
FingerJudged(s) ==
  IsActive(e', s) =>
    /\ e'.contact[s].gesture_rejected <=> h'.palm[s]
    /\ e'.memory[s].tool_type = PalmTool => e'.contact[s].gesture_rejected
    /\ <<s, e'.contact[s].tracking_id>> \in h.labels => e'.contact[s].gesture_rejected

LEMMA EventsGoOn ==
  ASSUME TypeInv, phase = "events", at <= Len(frame.events), NEW k, EventsFrom(k, at),
         frame' = frame, scan' = scan, at' = at + 1,
         h'.labels = h.labels, h'.tool = h.tool, KernelMoves, ToolsMove
  PROVE  EventsFrom(k, at)'
<1> DEFINE evs == frame.events
           ev == evs[at]
<1>1. /\ evs \in Seq(Event) /\ at \in DOMAIN evs /\ at \in Nat \ {0}
      /\ at' - 1 = at /\ CurrentEvent = ev
  BY DEF TypeInv, TypeOK, FrameInHand, Frame, CurrentEvent
<1>2. /\ ev \in Event
      /\ ev.kind = "TrackingId" => ev.value \in TrackingIds \cup {None}
      /\ kernel.slot \in Slots
  BY <1>1, EventsInRange, InHand DEF EventInRange, Event
<1> HIDE DEF ev
<1>3. SlotFrom(k, evs, at) = kernel'.slot
  BY <1>1, SlotNext DEF EventsFrom, KernelMoves, ev
<1> HIDE DEF evs
<1>4. \A s \in Slots : IdFrom(k, evs, at, s) = kernel'.ids[s]
  <2>1. \A s \in Slots : IdFrom(k, evs, at - 1, s) = kernel.ids[s]
    BY DEF EventsFrom, evs
  <2>2. \A s : IdFrom(k, evs, at, s) =
                 IF ev.kind = "TrackingId" /\ kernel'.slot = s
                 THEN ev.value ELSE IdFrom(k, evs, at - 1, s)
    BY <1>1, <1>3, IdNext DEF ev
  <2>3. ev.kind = "TrackingId" => kernel'.slot = kernel.slot
    BY <1>1 DEF KernelMoves
  <2> QED BY <1>1, <2>1, <2>2, <2>3 DEF KernelMoves
<1>5. ASSUME NEW s \in Slots, NoToolFrom(k, evs, at + 1, s)
      PROVE  e'.memory[s].tool_type = h.tool[s]
  <2>1. Rest(evs, at) = {at} \cup Rest(evs, at + 1)
    BY <1>1, RestNext
  <2>2. ToolTypeAt(k, evs, at, s) <=> ev.kind = "ToolType" /\ kernel'.slot = s
    BY <1>3 DEF ToolTypeAt, ev
  <2>3. ~ToolTypeAt(k, evs, at, s) => NoToolFrom(k, evs, at, s)
    BY <1>5, <2>1 DEF NoToolFrom
  <2>4. CASE ToolTypeAt(k, evs, at, s)
    <3>1. ev.value = h.tool[s]
      BY <1>1, <1>5, <2>4 DEF EventsFrom, evs, ev
    <3>2. s = kernel.slot /\ ev.kind = "ToolType"
      BY <1>1, <2>2, <2>4 DEF KernelMoves
    <3> QED BY <1>1, <3>1, <3>2 DEF ToolsMove
  <2>5. CASE /\ s = kernel.slot
             /\ ev.kind = "TrackingId" /\ ev.value # None
    <3>1. BeginsAt(k, evs, at, s, ev.value) /\ ~ToolTypeAt(k, evs, at, s)
      BY <1>1, <1>3, <2>5 DEF BeginsAt, ToolTypeAt, KernelMoves, ev
    <3>2. ev.value \in TrackingIds
      BY <1>2, <2>5
    <3>3. scan.contacts[s][ev.value].tool_type = h.tool[s]
      BY <1>1, <2>3, <3>1, <3>2 DEF EventsFrom, evs
    <3> QED BY <1>1, <2>5, <3>3 DEF ToolsMove
  <2>6. CASE /\ ~ToolTypeAt(k, evs, at, s)
             /\ ~(s = kernel.slot /\ ev.kind = "TrackingId" /\ ev.value # None)
    <3>1. e.memory[s].tool_type = h.tool[s]
      BY <2>3, <2>6 DEF EventsFrom, evs
    <3>2. ~(s = kernel.slot /\ ev.kind = "ToolType")
      BY <1>1, <2>2, <2>6 DEF KernelMoves
    <3> QED BY <1>1, <2>6, <3>1, <3>2 DEF ToolsMove
  <2> QED BY <2>4, <2>5, <2>6
<1>6. /\ kernel'.slot = SlotFrom(k, evs, at' - 1)
      /\ \A s \in Slots : kernel'.ids[s] = IdFrom(k, evs, at' - 1, s)
  BY <1>1, <1>3, <1>4
<1>7. \A s \in Slots :
        NoToolFrom(k, evs, at', s) => e'.memory[s].tool_type = h'.tool[s]
  BY <1>5
<1> QED BY <1>6, <1>7 DEF EventsFrom, evs

\* A contact that goes on as it is.
LEMMA KeptJudged ==
  ASSUME PalmInv, HUpdate, phase = "events", ~e.resync_required, NEW s \in Slots,
         e'.contact[s].tracking_id = e.contact[s].tracking_id,
         e'.contact[s].gesture_rejected = e.contact[s].gesture_rejected,
         e'.memory[s].tool_type = e.memory[s].tool_type
  PROVE  FingerJudged(s)
<1>1. ~Scanned /\ ~Restored /\ ~Began(s)
  BY DEF Scanned, Restored, Began, IsActive
<1>2. h'.palm[s] <=> h.palm[s] /\ IsActive(e', s)
  BY <1>1, PalmAfter
<1>3. JudgedAlike
  BY DEF PalmInv
<1>4. IsActive(e, s) /\ <<s, e.contact[s].tracking_id>> \in h.labels
        => e.contact[s].gesture_rejected
  BY DEF PalmInv, EventsInv, ContactsJudged, NoPalms
<1> QED BY <1>2, <1>3, <1>4 DEF JudgedAlike, FingerJudged, IsActive

\* An event that judges every contact alike leaves everything in order.
LEMMA EventPalm ==
  ASSUME TypeInv, PalmInv, HUpdate, phase = "events", at <= Len(frame.events),
         phase' = "events", frame' = frame, scan' = scan, at' = at + 1,
         e'.resync_required = e.resync_required,
         KernelMoves, PalmRejection => ToolsMove,
         ~PalmRejection => \A s \in Slots : e'.memory[s].tool_type = None,
         \A s \in Slots : FingerJudged(s)
  PROVE  PalmInv'
<1>1. ~e.resync_required
  BY DEF PalmInv, LostInv, TypeInv, TypeOK, Frame
<1>2. ~Scanned /\ ~Restored
  BY DEF Scanned, Restored
<1>3. /\ h'.labels = h.labels /\ h'.tool = h.tool
      /\ h'.tool = [s \in Slots |-> h'.tool[s]]
  <2>1. h'.tool = [s \in Slots |-> h.tool[s]] /\ h'.labels = h.labels
    BY <1>2, PalmAfter
  <2> QED BY <2>1 DEF PalmInv
<1>4. BetweenFrames' /\ LostInv' /\ ToolsAgree'
  BY <1>1 DEF PalmInv, BetweenFrames, LostInv, ToolsAgree
<1>5. JudgedAlike'
  BY DEF FingerJudged, JudgedAlike
<1>6. ASSUME PalmRejection PROVE EventsInv'
  <2>1. EventsInv
    BY <1>1, <1>6 DEF PalmInv
  <2>2. PICK k \in KernelStates : EventsFrom(k, at)
    BY <2>1 DEF EventsInv
  <2>3. EventsFrom(k, at)'
    BY <1>3, <1>6, <2>2, EventsGoOn
  <2>4. ContactsJudged'
    BY <1>3, <2>1 DEF EventsInv, ContactsJudged, FingerJudged, IsPalm
  <2> QED BY <2>3, <2>4 DEF EventsInv
<1>7. ASSUME ~PalmRejection PROVE NoPalms'
  BY <1>3, <1>7 DEF PalmInv, NoPalms
<1> QED BY <1>3, <1>4, <1>5, <1>6, <1>7 DEF PalmInv

\* What the events of a frame have in common while they are processed.
LEMMA InEvents ==
  ASSUME TypeInv, Mirror, PalmInv, NEW kind, AtEvent(kind)
  PROVE  /\ phase = "events" /\ at <= Len(frame.events) /\ ~e.resync_required
         /\ kernel.slot = e.current_slot /\ e.current_slot \in Slots
         /\ DOMAIN kernel.ids = Slots
         /\ kernel \in [slot : Slots, ids : [Slots -> TrackingIds \cup {None}]]
         /\ CurrentEvent.kind = kind /\ CurrentEvent = frame.events[at]
         /\ at \in DOMAIN frame.events
         /\ CurrentEvent.kind = "TrackingId" =>
              CurrentEvent.value \in TrackingIds \cup {None}
<1>1. at <= Len(frame.events) /\ phase = "events"
  BY DEF AtEvent
<1>2. ~e.resync_required
  BY <1>1 DEF PalmInv, LostInv, TypeInv, TypeOK, Frame
<1>3. kernel \in [slot : Slots, ids : [Slots -> TrackingIds \cup {None}]]
  BY DEF TypeInv, TypeOK
<1> QED BY <1>1, <1>2, <1>3, InHand, EventInHand DEF Mirror

LEMMA SwitchPalm ==
  ASSUME TypeInv, Mirror, PalmInv, HUpdate, SlotSwitch
  PROVE  PalmInv'
<1>1. /\ phase = "events" /\ at <= Len(frame.events) /\ ~e.resync_required
      /\ CurrentEvent.kind = "Slot"
      /\ kernel \in [slot : Slots, ids : [Slots -> TrackingIds \cup {None}]]
  BY InEvents DEF SlotSwitch
<1> SUFFICES ASSUME CurrentEvent.value \in Slots PROVE PalmInv'
  BY <1>1, FailPalm DEF SlotSwitch
<1>2. /\ phase' = "events" /\ frame' = frame /\ scan' = scan /\ at' = at + 1
      /\ kernel' = [kernel EXCEPT !.slot = CurrentEvent.value]
  BY <1>1 DEF SlotSwitch, Processed
<1>3. /\ e'.resync_required = e.resync_required /\ e'.memory = e.memory
      /\ \A s \in Slots :
           /\ e'.contact[s].tracking_id = e.contact[s].tracking_id
           /\ e'.contact[s].gesture_rejected = e.contact[s].gesture_rejected
  BY SwitchView DEF SamePressed, ContactKept, SameFinger
<1>4. kernel'.slot = CurrentEvent.value /\ kernel'.ids = kernel.ids
  BY <1>1, <1>2
<1>5. KernelMoves /\ ToolsMove
  BY <1>1, <1>3, <1>4 DEF KernelMoves, ToolsMove
<1>6. \A s \in Slots : FingerJudged(s)
  BY <1>1, <1>3, KeptJudged
<1>7. ~PalmRejection => \A s \in Slots : e'.memory[s].tool_type = None
  BY <1>3 DEF PalmInv, NoPalms
<1> QED BY <1>1, <1>2, <1>3, <1>5, <1>6, <1>7, EventPalm

\* A contact goes down with the verdict of the prepass.
LEMMA DownPalm ==
  ASSUME TypeInv, Mirror, PalmInv, HUpdate, ContactDown
  PROVE  PalmInv'
<1> DEFINE s == e.current_slot
           id == CurrentEvent.value
           tool == scan.contacts[s][id]
           d == e'.contact[s]
<1>1. /\ phase = "events" /\ at <= Len(frame.events) /\ ~e.resync_required
      /\ CurrentEvent.kind = "TrackingId" /\ s = kernel.slot /\ s \in Slots
      /\ CurrentEvent = frame.events[at] /\ at \in DOMAIN frame.events
      /\ kernel \in [slot : Slots, ids : [Slots -> TrackingIds \cup {None}]]
      /\ id \in TrackingIds \cup {None}
  BY InEvents DEF ContactDown
<1> SUFFICES ASSUME ~IsActive(e, s) PROVE PalmInv'
  BY <1>1, FailPalm DEF ContactDown
<1>2. /\ phase' = "events" /\ frame' = frame /\ scan' = scan /\ at' = at + 1
      /\ kernel' = [kernel EXCEPT !.ids[kernel.slot] = id] /\ id # None
  BY <1>1 DEF ContactDown, Processed
<1>3. /\ e'.resync_required = e.resync_required
      /\ \A r \in Slots \ {s} :
           /\ e'.memory[r] = e.memory[r]
           /\ e'.contact[r].tracking_id = e.contact[r].tracking_id
           /\ e'.contact[r].gesture_rejected = e.contact[r].gesture_rejected
      /\ e'.memory[s].tool_type = tool.tool_type
      /\ d.tracking_id = id /\ (d.gesture_rejected <=> IsPalm(tool))
  BY DownView DEF SamePressed, ContactKept, SameFinger
<1> HIDE DEF id, tool, d
<1>4. /\ kernel'.slot = kernel.slot
      /\ \A r \in Slots : kernel'.ids[r] = IF r = kernel.slot THEN id
                                           ELSE kernel.ids[r]
  <2> HIDE DEF s
  <2> QED BY <1>1, <1>2
<1>5. KernelMoves /\ ToolsMove
  <2>1. KernelMoves
    BY <1>1, <1>4 DEF KernelMoves, id
  <2>2. tool = scan.contacts[s][CurrentEvent.value] /\ CurrentEvent.value # None
    BY <1>2 DEF tool, id
  <2> HIDE DEF s
  <2>3. ToolsMove
    BY <1>1, <1>3, <2>2 DEF ToolsMove
  <2> QED BY <2>1, <2>3
<1>6. ASSUME NEW r \in Slots \ {s} PROVE FingerJudged(r)
  BY <1>1, <1>3, KeptJudged
<1>7. IsPalm(tool) <=> <<s, id>> \in h.labels
  <2>1. CASE PalmRejection
    <3>1. ContactsJudged
      BY <1>1, <2>1 DEF PalmInv, EventsInv
    <3>2. frame.events[at].kind = "TrackingId" /\ frame.events[at].value = id
      BY <1>1 DEF id
    <3>3. id \in TrackingIds
      BY <1>1, <1>2
    <3> QED BY <1>1, <3>1, <3>2, <3>3 DEF ContactsJudged, tool
  <2>2. CASE ~PalmRejection
    BY <1>1, <1>2, <2>2
    DEF PalmInv, NoPalms, EmptyScan, tool, IsPalm, NoTool, PalmTool, None
  <2> QED BY <2>1, <2>2
<1>8. ASSUME NEW r \in Slots, r = s PROVE FingerJudged(r)
  <2>1. Began(r)
    BY <1>1, <1>2, <1>3, <1>8 DEF Began, IsActive, d
  <2>2. h'.palm[r] = BeganAsPalm(r)
    BY <2>1, PalmAfter
  <2>3. BeganAsPalm(r) <=> <<s, id>> \in h.labels
    BY <1>3, <1>8 DEF BeganAsPalm, d
  <2>4. /\ e'.contact[r] = d /\ d.tracking_id = id
        /\ d.gesture_rejected <=> <<s, id>> \in h.labels
        /\ e'.memory[r].tool_type = PalmTool => d.gesture_rejected
    BY <1>3, <1>7, <1>8 DEF d, IsPalm
  <2> HIDE DEF s
  <2> QED BY <1>8, <2>2, <2>3, <2>4 DEF FingerJudged
<1>9. \A r \in Slots : FingerJudged(r)
  <2> HIDE DEF s
  <2> QED BY <1>6, <1>8
<1>10. ASSUME ~PalmRejection, NEW r \in Slots PROVE e'.memory[r].tool_type = None
  <2>1. NoPalms
    BY <1>10 DEF PalmInv
  <2>2. tool.tool_type = None
    BY <1>1, <1>2, <2>1 DEF NoPalms, EmptyScan, tool, NoTool
  <2> QED BY <1>3, <2>1, <2>2 DEF NoPalms
<1> QED BY <1>1, <1>2, <1>3, <1>5, <1>9, <1>10, EventPalm

LEMMA UpPalm ==
  ASSUME TypeInv, Mirror, PalmInv, HUpdate, ContactUp
  PROVE  PalmInv'
<1> DEFINE s == e.current_slot
<1>1. /\ phase = "events" /\ at <= Len(frame.events) /\ ~e.resync_required
      /\ CurrentEvent.kind = "TrackingId" /\ s = kernel.slot /\ s \in Slots
      /\ kernel \in [slot : Slots, ids : [Slots -> TrackingIds \cup {None}]]
  BY InEvents DEF ContactUp
<1>2. /\ phase' = "events" /\ frame' = frame /\ scan' = scan /\ at' = at + 1
      /\ kernel' = [kernel EXCEPT !.ids[kernel.slot] = None]
      /\ CurrentEvent.value = None
  BY <1>1 DEF ContactUp, Processed
<1>3. /\ e'.resync_required = e.resync_required /\ e'.memory = e.memory
      /\ \A r \in Slots \ {s} :
           /\ e'.contact[r].tracking_id = e.contact[r].tracking_id
           /\ e'.contact[r].gesture_rejected = e.contact[r].gesture_rejected
  BY UpView DEF SameSettings, ContactKept, SameFinger
<1>4. ~IsActive(e', s)
  <2>1. ASSUME IsActive(e, s) PROVE e'.contact[s].tracking_id = None
    <3>1. SameFinger(NoContact, e'.contact[s])
      BY <2>1, UpView
    <3> QED BY <3>1, NoContactFields DEF SameFinger
  <2>2. ASSUME ~IsActive(e, s) PROVE e'.contact[s].tracking_id = None
    <3>1. ContactKept(e, e.contact[s], e'.contact[s])
      BY <2>2, UpView
    <3> QED BY <2>2, <3>1 DEF ContactKept, SameFinger, IsActive
  <2> QED BY <2>1, <2>2 DEF IsActive
<1> HIDE DEF s
<1>5. /\ kernel'.slot = kernel.slot
      /\ \A r \in Slots : kernel'.ids[r] = IF r = kernel.slot THEN None
                                           ELSE kernel.ids[r]
  BY <1>1, <1>2
<1>6. KernelMoves /\ ToolsMove
  BY <1>1, <1>2, <1>3, <1>5 DEF KernelMoves, ToolsMove
<1>7. ASSUME NEW r \in Slots \ {s} PROVE FingerJudged(r)
  BY <1>1, <1>3, KeptJudged
<1>8. ASSUME NEW r \in Slots, r = s PROVE FingerJudged(r)
  BY <1>4, <1>8 DEF FingerJudged
<1>9. \A r \in Slots : FingerJudged(r)
  BY <1>7, <1>8
<1>10. ~PalmRejection => \A r \in Slots : e'.memory[r].tool_type = None
  BY <1>3 DEF PalmInv, NoPalms
<1> QED BY <1>1, <1>2, <1>3, <1>6, <1>9, <1>10, EventPalm

\* A tool type, a palm's among them: the contact was rejected before.
LEMMA ToolPalm ==
  ASSUME TypeInv, Mirror, PalmInv, HUpdate, ToolType
  PROVE  PalmInv'
<1> DEFINE s == e.current_slot
<1>1. /\ phase = "events" /\ at <= Len(frame.events) /\ ~e.resync_required
      /\ CurrentEvent.kind = "ToolType" /\ s = kernel.slot /\ s \in Slots
      /\ CurrentEvent = frame.events[at] /\ at \in DOMAIN frame.events
  BY InEvents DEF ToolType
<1>2. /\ phase' = "events" /\ frame' = frame /\ scan' = scan /\ at' = at + 1
      /\ kernel' = kernel
  BY <1>1 DEF ToolType, Processed
<1>3. /\ e'.resync_required = e.resync_required
      /\ \A r \in Slots :
           /\ r # s => e'.memory[r] = e.memory[r]
           /\ e'.contact[r].tracking_id = e.contact[r].tracking_id
           /\ e'.contact[r].gesture_rejected = e.contact[r].gesture_rejected
      /\ e'.memory[s].tool_type = IF PalmRejection THEN CurrentEvent.value
                                                   ELSE e.memory[s].tool_type
  BY ToolView DEF SamePressed, ContactKept, SameFinger
<1> HIDE DEF s
<1>4. KernelMoves /\ (PalmRejection => ToolsMove)
  BY <1>1, <1>2, <1>3 DEF KernelMoves, ToolsMove
<1>5. ASSUME NEW r \in Slots \ {s} PROVE FingerJudged(r)
  BY <1>1, <1>3, KeptJudged
<1>6. ~PalmRejection => \A r \in Slots : e'.memory[r].tool_type = None
  BY <1>3 DEF PalmInv, NoPalms
<1>7. ASSUME NEW r \in Slots, r = s PROVE FingerJudged(r)
  <2>1. CASE ~PalmRejection
    <3>1. e'.memory[r].tool_type = e.memory[r].tool_type
      BY <1>3, <1>7, <2>1
    <3> QED BY <1>1, <1>3, <3>1, KeptJudged
  <2>2. CASE PalmRejection
    <3> DEFINE c == e.contact[r]
               id == c.tracking_id
    <3>1. ~Scanned /\ ~Restored /\ ~Began(r)
      BY <1>1, <1>3 DEF Scanned, Restored, Began, IsActive
    <3>2. h'.palm[r] <=> h.palm[r] /\ IsActive(e', r)
      BY <3>1, PalmAfter
    <3>3. JudgedAlike /\ ContactsJudged
      BY <1>1, <2>2 DEF PalmInv, EventsInv
    <3>4. ASSUME IsActive(e, r), CurrentEvent.value = PalmTool
          PROVE  <<r, id>> \in h.labels
      <4>1. PICK k \in KernelStates : EventsFrom(k, at)
        BY <1>1, <2>2 DEF PalmInv, EventsInv
      <4>2. at \in Nat \ {0} /\ id \in TrackingIds /\ id = kernel.ids[r]
        BY <3>4, InHand DEF Mirror, IsActive, TypeInv, TypeOK, FrameInHand, Frame,
                            AtEvent, ToolType
      <4> HIDE DEF id
      <4>3. SlotFrom(k, frame.events, at) = r
        BY <1>1, <1>7, <4>1, <4>2, SlotNext DEF EventsFrom
      <4>4. IdFrom(k, frame.events, at, r) = id
        <5>1. IdFrom(k, frame.events, at - 1, r) = id
          BY <4>1, <4>2 DEF EventsFrom
        <5>2. frame.events[at].kind # "TrackingId"
          BY <1>1
        <5>3. IdFrom(k, frame.events, at, r) = IdFrom(k, frame.events, at - 1, r)
          <6> DEFINE evs == frame.events
          <6>1. evs[at].kind # "TrackingId"
            BY <5>2
          <6> HIDE DEF evs
          <6>2. IdFrom(k, evs, at, r) = IdFrom(k, evs, at - 1, r)
            BY <4>2, <6>1, IdNext
          <6> QED BY <6>2 DEF evs
        <5> QED BY <5>1, <5>3
      <4>5. LabelAt(k, frame.events, at, r, id) /\ frame.events[at].value = PalmTool
        BY <1>1, <3>4, <4>3, <4>4 DEF LabelAt, ToolTypeAt
      <4> QED BY <1>1, <4>1, <4>2, <4>5 DEF EventsFrom
    <3>5. e'.memory[r].tool_type = CurrentEvent.value
      BY <1>3, <1>7, <2>2
    <3> QED BY <1>3, <3>2, <3>3, <3>4, <3>5
            DEF JudgedAlike, ContactsJudged, FingerJudged, IsActive
  <2> QED BY <2>1, <2>2
<1>8. \A r \in Slots : FingerJudged(r)
  BY <1>5, <1>7
<1> QED BY <1>1, <1>2, <1>3, <1>4, <1>6, <1>8, EventPalm

LEMMA PositionPalm ==
  ASSUME TypeInv, Mirror, PalmInv, HUpdate, Position
  PROVE  PalmInv'
<1> DEFINE s == e.current_slot
<1>1. /\ phase = "events" /\ at <= Len(frame.events) /\ ~e.resync_required
      /\ CurrentEvent.kind \in {"X", "Y"} /\ s \in Slots
  BY InEvents DEF Position
<1>2. /\ phase' = "events" /\ frame' = frame /\ scan' = scan /\ at' = at + 1
      /\ kernel' = kernel
  BY <1>1 DEF Position, Processed
<1>3. /\ e'.resync_required = e.resync_required
      /\ \A r \in Slots \ {s} :
           /\ e'.memory[r] = e.memory[r]
           /\ e'.contact[r].tracking_id = e.contact[r].tracking_id
           /\ e'.contact[r].gesture_rejected = e.contact[r].gesture_rejected
      /\ e'.memory[s].tool_type = e.memory[s].tool_type
  BY PositionView DEF SamePressed, ContactKept, SameFinger
<1>4. /\ e'.contact[s].tracking_id = e.contact[s].tracking_id
      /\ e'.contact[s].gesture_rejected = e.contact[s].gesture_rejected
  <2>1. CASE IsActive(e, s)
    BY <2>1, PositionView DEF ContactKept, SameFinger, MovedTo
  <2>2. CASE ~IsActive(e, s)
    BY <2>2, PositionView DEF ContactKept, SameFinger
  <2> QED BY <2>1, <2>2
<1> HIDE DEF s
<1>5. \A r \in Slots :
        /\ e'.memory[r].tool_type = e.memory[r].tool_type
        /\ e'.contact[r].tracking_id = e.contact[r].tracking_id
        /\ e'.contact[r].gesture_rejected = e.contact[r].gesture_rejected
  BY <1>3, <1>4
<1>6. KernelMoves /\ ToolsMove
  BY <1>1, <1>2, <1>5 DEF KernelMoves, ToolsMove
<1>7. \A r \in Slots : FingerJudged(r)
  BY <1>1, <1>5, KeptJudged
<1>8. ~PalmRejection => \A r \in Slots : e'.memory[r].tool_type = None
  BY <1>5 DEF PalmInv, NoPalms
<1> QED BY <1>1, <1>2, <1>3, <1>6, <1>7, <1>8, EventPalm

-----------------------------------------------------------------------------
(* The steps between the events of two frames.                             *)

\* A step that neither starts a frame's events nor recovers, and keeps every
\* slot's contact, verdict and tool type.
LEMMA QuietJudged ==
  ASSUME PalmInv, HUpdate, ~Scanned, ~Restored,
         \A s \in Slots :
           /\ e'.contact[s].tracking_id = e.contact[s].tracking_id
           /\ e'.contact[s].gesture_rejected = e.contact[s].gesture_rejected
           /\ e'.memory[s].tool_type = e.memory[s].tool_type
  PROVE  /\ h'.labels = h.labels /\ h'.tool = h.tool
         /\ h'.tool = [s \in Slots |-> h'.tool[s]]
         /\ JudgedAlike'
         /\ (\A s \in Slots : e.memory[s].tool_type = None)
              => \A s \in Slots : e'.memory[s].tool_type = None
<1>1. h.tool = [s \in Slots |-> h.tool[s]]
  BY DEF PalmInv
<1>2. \A s \in Slots : ~Began(s)
  BY DEF Began, IsActive
<1>3. h'.labels = h.labels /\ h'.tool = [s \in Slots |-> h.tool[s]]
  BY PalmAfter
<1>4. \A s \in Slots : h'.palm[s] <=> h.palm[s] /\ IsActive(e', s)
  BY <1>2, PalmAfter
<1>5. JudgedAlike'
  BY <1>4 DEF PalmInv, JudgedAlike, IsActive
<1> QED BY <1>1, <1>3, <1>5

\* Lost events: the engine forgets its contacts.
LEMMA DroppedPalm ==
  ASSUME TypeInv, Mirror, PalmInv, HUpdate, SynDropped
  PROVE  PalmInv'
<1>1. /\ phase = "events" /\ at <= Len(frame.events)
      /\ CurrentEvent.kind = "SynDropped" /\ CurrentEvent = frame.events[at]
      /\ at \in DOMAIN frame.events
  BY InEvents DEF SynDropped
<1>2. /\ phase' = "events" /\ frame' = frame /\ scan' = scan /\ at' = at + 1
  BY <1>1 DEF SynDropped, Processed
<1>3. e'.resync_required /\ \A s \in Slots : ~IsActive(e', s)
  <2>1. \A s \in Slots : SameFinger(NoContact, e'.contact[s])
    BY DroppedView
  <2> QED BY <2>1, DroppedView, NoContactFields DEF SameFinger, IsActive
<1>4. \A s \in Slots : e'.memory[s].tool_type = None
  BY DroppedView DEF NoMemory
<1>5. at' > Len(frame.events)
  <2>1. DropIsAlone(frame.events)
    BY <1>1 DEF PalmInv, LostInv
  <2>2. Len(frame.events) = 1 /\ at \in Nat \ {0}
    BY <1>1, <2>1 DEF DropIsAlone, TypeInv, TypeOK, FrameInHand
  <2> QED BY <1>2, <2>2
<1>6. ~Scanned /\ ~Restored
  BY <1>1 DEF Scanned, Restored
<1>7. h'.tool = [s \in Slots |-> h'.tool[s]] /\ h'.labels = h.labels
  <2>1. h'.tool = [s \in Slots |-> h.tool[s]] /\ h'.labels = h.labels
    BY <1>6, PalmAfter
  <2> QED BY <2>1
<1>8. BetweenFrames' /\ LostInv' /\ JudgedAlike' /\ ToolsAgree'
  BY <1>1, <1>2, <1>3, <1>5
  DEF PalmInv, BetweenFrames, LostInv, JudgedAlike, ToolsAgree
<1>9. ~PalmRejection => NoPalms'
  BY <1>2, <1>4, <1>7 DEF PalmInv, NoPalms
<1> QED BY <1>2, <1>3, <1>7, <1>8, <1>9 DEF PalmInv

\* The last event is behind: every slot has the tool type the frame left it.
LEMMA DonePalm ==
  ASSUME TypeInv, PalmInv, HUpdate, EventsDone
  PROVE  PalmInv'
<1>1. /\ phase = "events" /\ phase' = "finalize" /\ at > Len(frame.events)
      /\ e' = e /\ scan' = scan /\ frame' = frame /\ ~Scanned /\ ~Restored
  BY DEF EventsDone, Scanned, Restored
<1>2. /\ h'.labels = h.labels /\ h'.tool = h.tool /\ JudgedAlike'
      /\ h'.tool = [s \in Slots |-> h'.tool[s]]
  BY <1>1, SameJudged
<1>3. BetweenFrames' /\ LostInv'
  BY <1>1 DEF PalmInv, BetweenFrames, LostInv
<1>4. ASSUME PalmRejection, ~e.resync_required, NEW s \in Slots
      PROVE  e.memory[s].tool_type = h.tool[s]
  <2>1. PICK k \in KernelStates : EventsFrom(k, at)
    BY <1>1, <1>4 DEF PalmInv, EventsInv
  <2>2. NoToolFrom(k, frame.events, at, s)
    <3>1. \A j \in DOMAIN frame.events : ~(j >= at)
      BY <1>1 DEF TypeInv, TypeOK, Frame
    <3> QED BY <3>1 DEF NoToolFrom, Rest
  <2> QED BY <2>1, <2>2 DEF EventsFrom
<1>5. PalmRejection => ToolsAgree'
  BY <1>1, <1>2, <1>4 DEF ToolsAgree
<1>6. ~PalmRejection => NoPalms'
  BY <1>1, <1>2 DEF PalmInv, NoPalms
<1> QED BY <1>1, <1>2, <1>3, <1>5, <1>6 DEF PalmInv

\* A slot is finalized, the frame ends, the clock advances, a profile is
\* applied: no finger is judged.
LEMMA LaterPalm ==
  ASSUME TypeInv, PalmInv, HUpdate,
         \/ FinalizeSlot \/ EndFrame \/ AdvanceTime
         \/ \E cfg \in Configs : Reload(cfg)
  PROVE  PalmInv'
<1>1. ASSUME NEW s \in Slots
      PROVE  /\ e'.contact[s].tracking_id = e.contact[s].tracking_id
             /\ e'.contact[s].gesture_rejected = e.contact[s].gesture_rejected
             /\ e'.memory[s].tool_type = e.memory[s].tool_type
  <2>1. CASE FinalizeSlot
    <3>1. /\ e'.memory = e.memory
          /\ \A r \in Slots \ {at} :
               /\ e'.contact[r].tracking_id = e.contact[r].tracking_id
               /\ e'.contact[r].gesture_rejected = e.contact[r].gesture_rejected
      BY <2>1, FinalizeView DEF ContactKept, SameFinger, SameSettings
    <3>2. /\ e'.contact[at].tracking_id = e.contact[at].tracking_id
          /\ e'.contact[at].gesture_rejected = e.contact[at].gesture_rejected
      <4>1. CASE e.contact[at].began_in_frame
        BY <2>1, <4>1, FinalizeView DEF ContactKept, SameFinger, PlacedFrom
      <4>2. CASE ~e.contact[at].began_in_frame
        BY <2>1, <4>2, FinalizeView
      <4> QED BY <4>1, <4>2
    <3> QED BY <3>1, <3>2
  <2>2. CASE EndFrame
    BY <2>2, EndView
  <2>3. CASE AdvanceTime
    BY <2>3, AdvanceView DEF Kept, ContactKept, SameFinger, SameSettings
  <2>4. ASSUME NEW cfg \in Configs, Reload(cfg)
        PROVE  e'.contact = e.contact /\ e'.memory = e.memory
    BY <2>4, ReloadView
  <2> QED BY <2>1, <2>2, <2>3, <2>4
<1>2. /\ phase \in {"idle", "finalize"} /\ phase' \in {"idle", "finalize", "resync"}
      /\ scan' = scan \/ scan' = EmptyScan
      /\ frame' = frame \/ frame' = NoFrame
  BY DEF FinalizeSlot, EndFrame, AdvanceTime, Output, Reload
<1>3. /\ h'.labels = h.labels /\ h'.tool = h.tool /\ JudgedAlike'
      /\ h'.tool = [s \in Slots |-> h'.tool[s]]
      /\ (\A s \in Slots : e.memory[s].tool_type = None)
           => \A s \in Slots : e'.memory[s].tool_type = None
  <2>1. ~Scanned /\ ~Restored
    BY <1>2 DEF Scanned, Restored
  <2> QED BY <1>1, <2>1, QuietJudged
<1>4. \/ phase' = "resync" /\ e.resync_required /\ ~e'.resync_required
         /\ frame' = NoFrame
      \/ phase' = "idle" /\ ~e.resync_required /\ ~e'.resync_required
         /\ frame' = NoFrame
      \/ phase' = "finalize" /\ e'.resync_required = e.resync_required
  <2>1. CASE FinalizeSlot
    BY <2>1, FinalizeView DEF FinalizeSlot, SameSettings
  <2>2. CASE EndFrame
    BY <2>2, EndView DEF EndFrame
  <2>3. CASE AdvanceTime
    BY <2>3, AdvanceView DEF AdvanceTime, Output, Kept, SameSettings
  <2>4. ASSUME NEW cfg \in Configs, Reload(cfg)
        PROVE  phase' = "idle" /\ ~e.resync_required /\ ~e'.resync_required
               /\ frame' = NoFrame
    <3>1. phase = "idle" /\ phase' = "idle" /\ frame' = frame
      BY <2>4 DEF Reload
    <3> QED BY <2>4, <3>1, ReloadView DEF PalmInv, BetweenFrames
  <2> QED BY <2>1, <2>2, <2>3, <2>4
<1>5. BetweenFrames' /\ LostInv'
  BY <1>1, <1>4 DEF PalmInv, BetweenFrames, LostInv, IsActive
<1>6. PalmRejection => ToolsAgree'
  BY <1>1, <1>2, <1>3, <1>4 DEF PalmInv, ToolsAgree
<1>7. ~PalmRejection => NoPalms'
  <2>1. ~PalmRejection => scan'.contacts = EmptyScan.contacts
    BY <1>2 DEF PalmInv, NoPalms
  <2> QED BY <1>2, <1>3, <2>1 DEF PalmInv, NoPalms
<1> QED BY <1>2, <1>3, <1>5, <1>6, <1>7 DEF PalmInv

\* The recovery takes the tool types of the snapshot.
LEMMA ResyncPalm ==
  ASSUME TypeInv, PalmInv, HUpdate, NEW snapshot \in Snapshots, Resync(snapshot)
  PROVE  PalmInv'
<1> DEFINE seeded == SeededMemory(snapshot.memory)
<1>1. /\ phase = "resync" /\ phase' = "finalize" /\ scan' = scan
      /\ ~Scanned /\ Restored /\ \A s \in Slots : ~Began(s)
  BY DEF Resync, Output, Scanned, Restored, Began
<1>2. ~e.resync_required
  BY <1>1 DEF PalmInv, BetweenFrames
<1>3. /\ e'.resync_required = e.resync_required /\ e'.memory = seeded
      /\ \A s \in Slots :
           IsActive(e', s) => (e'.contact[s].gesture_rejected <=>
                                 seeded[s].tool_type = PalmTool)
  BY ResyncView DEF IsActive
<1> HIDE DEF seeded
<1>4. /\ h'.labels = h.labels
      /\ h'.tool = [s \in Slots |-> e'.memory[s].tool_type]
      /\ \A s \in Slots : h'.palm[s] <=> /\ IsActive(e', s)
                                         /\ e'.memory[s].tool_type = PalmTool
  <2>1. h'.tool = [s \in Slots |-> IF Scanned
                                   THEN ToolAfter(frame.events, Len(frame.events), s)
                                   ELSE IF Restored THEN e'.memory[s].tool_type
                                   ELSE h.tool[s]]
    BY PalmAfter
  <2> HIDE DEF ToolAfter
  <2>2. h'.tool = [s \in Slots |-> e'.memory[s].tool_type]
    BY <1>1, <2>1
  <2> QED BY <1>1, <2>2, PalmAfter
<1>5. h'.tool = [s \in Slots |-> h'.tool[s]]
  BY <1>4
<1>6. BetweenFrames' /\ LostInv' /\ JudgedAlike' /\ ToolsAgree'
  BY <1>1, <1>2, <1>3, <1>4 DEF BetweenFrames, LostInv, JudgedAlike, ToolsAgree
<1>7. ASSUME ~PalmRejection PROVE NoPalms'
  <2>1. \A s \in Slots : seeded[s].tool_type = None
    <3> TAKE s \in Slots
    <3>1. snapshot.memory[s] \in Memory
      BY SnapshotsAssumption DEF Snapshot
    <3>2. \A m \in Memory : [m EXCEPT !.tool_type = None].tool_type = None
      BY DEF Memory
    <3> QED BY <1>7, <3>1, <3>2 DEF SeededMemory, seeded
  <2> QED BY <1>1, <1>3, <1>4, <1>7, <2>1 DEF PalmInv, NoPalms
<1> QED BY <1>1, <1>5, <1>6, <1>7 DEF PalmInv

LEMMA StepPalm ==
  ASSUME OddFramesBeginNothing, TypeInv, Mirror, PalmInv, [HNext]_hvars
  PROVE  PalmInv'
<1>u. CASE UNCHANGED hvars
  <2>1. UNCHANGED <<e, phase, frame, at, scan, kernel, h>>
    BY <1>u DEF hvars, vars
  <2>2. /\ BetweenFrames' = BetweenFrames /\ LostInv' = LostInv
        /\ JudgedAlike' = JudgedAlike /\ ToolsAgree' = ToolsAgree
        /\ NoPalms' = NoPalms /\ ScanInv' = ScanInv /\ ContactsJudged' = ContactsJudged
    BY <2>1 DEF BetweenFrames, LostInv, JudgedAlike, ToolsAgree, NoPalms, ScanInv,
                ContactsJudged, Rejected, IsPalm
  <2>3. \A k : EventsFrom(k, at)' = EventsFrom(k, at)
    BY <2>1 DEF EventsFrom
  <2>4. EventsInv => EventsInv'
    BY <2>2, <2>3 DEF EventsInv
  <2> QED BY <2>1, <2>2, <2>4 DEF PalmInv
<1> SUFFICES ASSUME Next, HUpdate PROVE PalmInv'
  BY <1>u DEF HNext
<1>1. ASSUME NEW f \in Frames \cup OddFrames, NEW t \in Stamps, StartFrame(f, t)
      PROVE  PalmInv'
  BY <1>1, StartPalm
<1>2. ASSUME NEW snapshot \in Snapshots, Resync(snapshot) PROVE PalmInv'
  BY <1>2, ResyncPalm
<1> QED
  BY <1>1, <1>2, ScanPalm, BeginPalm, SwitchPalm, DownPalm, UpPalm, ToolPalm,
     PositionPalm, DroppedPalm, DonePalm, LaterPalm DEF Next, FrameStep

\* A contact is excluded from recognition exactly when the touchpad called it a
\* palm, in whatever order the frame's events put its label, its id and its
\* place, and although a slot keeps its tool type for the next contact.
THEOREM PalmsAreExcluded ==
  ASSUME SnapshotsAtLastContact, OddFramesBeginNothing
  PROVE  HSpec => []PalmsAreRejected
<1>1. PalmInv => PalmsAreRejected
  BY DEF PalmInv, JudgedAlike, PalmsAreRejected
<1>2. HInit => Mirror /\ PalmInv
  BY InitMirror, InitPalm DEF HInit
<1>3. TypeInv /\ Mirror /\ [HNext]_hvars => Mirror'
  BY StepMirror DEF HNext, hvars
<1>4. TypeInv /\ Mirror /\ PalmInv /\ [HNext]_hvars => PalmInv'
  BY StepPalm
<1> QED BY <1>1, <1>2, <1>3, <1>4, HistoryType, PTL DEF HSpec

-----------------------------------------------------------------------------
(* The invariant of owed taps.                                             *)

\* The history saw what the engine's phase says, and all of the movement.
FingerWatched(s) ==
  /\ IsClaimed(e.contact[s]) => IsPlaced(e.contact[s])
  /\ IsActive(e, s) =>
       /\ e.contact[s].contact_phase # "TapCandidate" => h.moved[s] \/ h.stepped[s]
       /\ MovedFarEnough(e.cfg, e.contact[s]) => h.moved[s]

FingersWatched == \A s \in Slots : FingerWatched(s)

\* What is owed is pending, will be reported alone, and is of interest.
TapInv ==
  /\ \A g \in h.owed : /\ HasPendingTap(e) /\ e.pending_tap.gesture = g
                       /\ g.zone \in e.cfg.single_tap_zones
  /\ HasPendingTap(e) /\ e.pending_tap.gesture.zone \in e.cfg.single_tap_zones
       => e.pending_tap.emit_single
  /\ e.resync_required \/ phase = "resync" => ~HasPendingTap(e)

OwedInv == FingersWatched /\ TapInv

\* What the history does in a step.
LEMMA FingersAfter ==
  ASSUME HUpdate, NEW s \in Slots
  PROVE  /\ h'.moved[s] <=>
              /\ ~Began(s) /\ IsActive(e', s)
              /\ h.moved[s] \/ MovedFarEnough(e'.cfg, e'.contact[s])
         /\ h'.stepped[s] <=>
              /\ IsActive(e', s)
              /\ (~Began(s) /\ h.stepped[s]) \/ NetOf(e, e', s) # 0
<1>1. NetSteps(s) = NetOf(e, e', s)
  BY DEF NetSteps, NetOf, StepsOf
<1>2. /\ h'.moved = [r \in Slots |->
           ~Began(r) /\ IsActive(e', r)
           /\ (h.moved[r] \/ MovedFarEnough(e'.cfg, e'.contact[r]))]
      /\ h'.stepped = [r \in Slots |->
           IsActive(e', r) /\ ((~Began(r) /\ h.stepped[r]) \/ NetSteps(r) # 0)]
  BY DEF HUpdate
<1> QED BY <1>1, <1>2, Zenon

LEMMA OwedAfter ==
  ASSUME HUpdate, NEW g \in h'.owed
  PROVE  /\ g \in h.owed \cup NewTaps /\ g.zone \in e.cfg.single_tap_zones
         /\ g \notin Reported(e, e')
         /\ \A d \in Reported(e, e') : d.direction # "DoubleTap"
         /\ ~Dropped
<1>1. NewGestures = Reported(e, e')
  BY DEF NewGestures, Reported
<1>2. h'.owed = IF Dropped \/ NewDoubleTaps # {} THEN {}
                ELSE {k \in h.owed \cup NewTaps :
                        /\ k.zone \in e.cfg.single_tap_zones
                        /\ k \notin NewGestures}
  BY DEF HUpdate
<1> QED BY <1>1, <1>2 DEF NewDoubleTaps

LEMMA NoTaps ==
  ASSUME phase # "events" \/ \A s \in Slots : IsActive(e, s) => IsActive(e', s)
  PROVE  NewTaps = {}
BY DEF NewTaps, Ended

\* A step in which no finger lifts.
LEMMA TapTold ==
  ASSUME TapInv, HUpdate, NewTaps = {},
         TellsTap(e, e') \/ e'.pending_tap = e.pending_tap,
         e'.cfg = e.cfg, e'.resync_required => e.resync_required,
         phase' = "resync" => e.resync_required \/ phase = "resync"
  PROVE  TapInv'
<1>1. \/ e'.pending_tap = e.pending_tap
      \/ e'.pending_tap = NoTap /\ IsTold(e, e')
  BY DEF TellsTap
<1>2. HasPendingTap(e') => HasPendingTap(e) /\ e'.pending_tap = e.pending_tap
  BY <1>1, NoPending DEF HasPendingTap
<1>3. ASSUME NEW g \in h'.owed
      PROVE  /\ HasPendingTap(e') /\ e'.pending_tap.gesture = g
             /\ g.zone \in e'.cfg.single_tap_zones
  <2>1. g \in h.owed /\ g \notin Reported(e, e')
    BY OwedAfter
  <2>2. /\ HasPendingTap(e) /\ e.pending_tap.gesture = g
        /\ g.zone \in e.cfg.single_tap_zones /\ e.pending_tap.emit_single
    BY <2>1 DEF TapInv
  <2>3. e'.pending_tap = e.pending_tap
    BY <1>1, <2>1, <2>2 DEF IsTold
  <2> QED BY <2>2, <2>3 DEF HasPendingTap
<1>4. /\ HasPendingTap(e') /\ e'.pending_tap.gesture.zone \in e'.cfg.single_tap_zones
           => e'.pending_tap.emit_single
      /\ e'.resync_required \/ phase' = "resync" => ~HasPendingTap(e')
  BY <1>2 DEF TapInv
<1> QED BY <1>3, <1>4 DEF TapInv

\* A contact that is claimed has a place, and keeps it.
LEMMA KeptPlaced ==
  ASSUME NEW en, NEW c, NEW d, ContactKept(en, c, d), IsClaimed(c) => IsPlaced(c)
  PROVE  IsClaimed(d) => IsPlaced(d)
BY DEF ContactKept, ClaimIsSound, SameFinger, IsPlaced

\* A finger that the step does not begin.
LEMMA FingerGoesOn ==
  ASSUME HUpdate, NEW s \in Slots, FingerWatched(s), e'.cfg = e.cfg,
         IsActive(e', s) => IsActive(e, s),
         \/ e'.contact[s].contact_phase \in {e.contact[s].contact_phase, "TapCandidate"}
         \/ NetOf(e, e', s) # 0
         \/ MovedFarEnough(e.cfg, e'.contact[s]),
         IsClaimed(e'.contact[s]) => IsPlaced(e'.contact[s])
  PROVE  /\ IsClaimed(e'.contact[s]) => IsPlaced(e'.contact[s])
         /\ IsActive(e', s) =>
              /\ e'.contact[s].contact_phase # "TapCandidate" =>
                   h'.moved[s] \/ h'.stepped[s]
              /\ MovedFarEnough(e'.cfg, e'.contact[s]) => h'.moved[s]
BY FingersAfter DEF FingerWatched, Began

\* A step that begins no finger and ends none but by SYN_DROPPED.
LEMMA WatchedStep ==
  ASSUME OwedInv, HUpdate, NewTaps = {}, Watches(e, e'), e'.cfg = e.cfg,
         e'.resync_required => e.resync_required,
         phase' = "resync" => e.resync_required \/ phase = "resync",
         \A s \in Slots :
           /\ IsActive(e', s) => IsActive(e, s)
           /\ IsClaimed(e'.contact[s]) => IsPlaced(e'.contact[s])
  PROVE  OwedInv'
<1>1. TapInv'
  BY TapTold DEF OwedInv, Watches
<1>2. ASSUME NEW s \in Slots
      PROVE  /\ IsClaimed(e'.contact[s]) => IsPlaced(e'.contact[s])
             /\ IsActive(e', s) =>
                  /\ e'.contact[s].contact_phase # "TapCandidate" =>
                       h'.moved[s] \/ h'.stepped[s]
                  /\ MovedFarEnough(e'.cfg, e'.contact[s]) => h'.moved[s]
  <2>1. FingerWatched(s)
    BY DEF OwedInv, FingersWatched
  <2> QED BY <2>1, FingerGoesOn DEF Watches
<1> QED BY <1>1, <1>2 DEF OwedInv, FingersWatched, FingerWatched

\* The same for a step that keeps the fingers.
LEMMA KeptStep ==
  ASSUME OwedInv, HUpdate, Watches(e, e'), Kept(e, e'),
         phase' = "resync" => e.resync_required \/ phase = "resync"
  PROVE  OwedInv'
<1>1. \A s \in Slots :
        /\ IsActive(e', s) <=> IsActive(e, s)
        /\ IsClaimed(e'.contact[s]) => IsPlaced(e'.contact[s])
  <2> TAKE s \in Slots
  <2>1. ContactKept(e, e.contact[s], e'.contact[s]) /\ FingerWatched(s)
    BY DEF Kept, OwedInv, FingersWatched
  <2>2. IsClaimed(e'.contact[s]) => IsPlaced(e'.contact[s])
    BY <2>1, KeptPlaced DEF FingerWatched
  <2> QED BY <2>1, <2>2 DEF ContactKept, SameFinger, IsActive
<1>2. NewTaps = {} /\ e'.cfg = e.cfg /\ e'.resync_required = e.resync_required
  BY <1>1, NoTaps DEF Kept, SameSettings
<1> QED BY <1>1, <1>2, WatchedStep

LEMMA InitOwed == HInit => OwedInv
<1> SUFFICES ASSUME HInit PROVE OwedInv
  OBVIOUS
<1>1. /\ \A s \in Slots : e.contact[s] = NoContact
      /\ e.pending_tap = NoTap /\ ~e.resync_required
      /\ h.owed = {} /\ phase = "idle"
  BY DEF HInit, Init, NewEngine
<1>2. /\ NoContact.tracking_id = None /\ ~IsClaimed(NoContact)
  BY NoContactFields DEF IsClaimed, Zones
<1>3. FingersWatched
  BY <1>1, <1>2 DEF FingersWatched, FingerWatched, IsActive
<1>4. TapInv
  BY <1>1, NoPending DEF TapInv, HasPendingTap
<1> QED BY <1>3, <1>4 DEF OwedInv

\* A step that does not touch the engine.
LEMMA SameEngineOwed ==
  ASSUME TypeInv, OwedInv, HUpdate, e' = e,
         phase' = "resync" => e.resync_required \/ phase = "resync"
  PROVE  OwedInv'
<1>1. e \in EngineState
  BY InHand
<1>2. Kept(e, e') /\ Watches(e, e')
  BY <1>1, KeptItself, QuietItself, QuietSlides, SlidesWatches
<1> QED BY <1>2, KeptStep

LEMMA StartOwed ==
  ASSUME TypeInv, OwedInv, HUpdate, NEW f \in Frames \cup OddFrames, NEW t \in Stamps,
         StartFrame(f, t)
  PROVE  OwedInv'
<1> DEFINE codes == Codes(f.buttons, TRUE)
<1>1. e \in EngineState /\ e' = PressButtons(e, codes)
  BY InHand DEF StartFrame
<1>2. codes \in SUBSET Buttons
  <2>1. f \in Frame
    BY FramesAssumption
  <2>2. \A i \in DOMAIN f.buttons : f.buttons[i] \in Button
    BY <2>1 DEF Frame
  <2> QED BY <2>2 DEF Codes, Button
<1> HIDE DEF codes
<1>3. Watches(e, e')
  BY <1>1, <1>2, PressButtonsQuiet, QuietSlides, SlidesWatches
<1>4. /\ e'.cfg = e.cfg /\ e'.resync_required = e.resync_required
      /\ \A s \in Slots : /\ SameFinger(e.contact[s], e'.contact[s])
                          /\ SameOwner(e.contact[s], e'.contact[s])
                          /\ ClaimIsSound(e, e.contact[s], e'.contact[s])
  BY StartView
<1>5. \A s \in Slots : ContactKept(e, e.contact[s], e'.contact[s])
  BY <1>4 DEF ContactKept
<1>6. ASSUME NEW s \in Slots
      PROVE  /\ IsActive(e', s) => IsActive(e, s)
             /\ IsClaimed(e'.contact[s]) => IsPlaced(e'.contact[s])
  <2>1. IsClaimed(e.contact[s]) => IsPlaced(e.contact[s])
    BY DEF OwedInv, FingersWatched, FingerWatched
  <2> QED BY <1>4, <1>5, <2>1, KeptPlaced DEF SameFinger, IsActive
<1>7. phase # "events" /\ phase' # "resync"
  BY DEF StartFrame
<1>8. NewTaps = {}
  BY <1>7, NoTaps
<1> QED BY <1>3, <1>4, <1>6, <1>7, <1>8, WatchedStep

LEMMA BeginOwed ==
  ASSUME TypeInv, OwedInv, HUpdate, BeginEvents
  PROVE  OwedInv'
<1> DEFINE rejected == RejectPalms(e)
<1>1. e \in EngineState /\ rejected \in EngineState /\ Quiet(e, rejected)
  BY InHand, RejectPalmsType, RejectPalmsQuiet
<1>2. e' = rejected \/ e' = ExpirePendingTap(rejected, stamp)
  BY DEF BeginEvents
<1> HIDE DEF rejected
<1>3. e' \in EngineState /\ Quiet(rejected, e')
  BY <1>1, <1>2, ExpireType, ExpireQuiet, QuietItself
<1>4. Watches(e, e')
  BY <1>1, <1>3, QuietOn, QuietSlides, SlidesWatches
<1>5. /\ SameSettings(e, e')
      /\ \A s \in Slots : /\ SamePlace(e.contact[s], e'.contact[s])
                          /\ ClaimIsSound(e, e.contact[s], e'.contact[s])
  BY BeginEventsView
<1>6. ASSUME NEW s \in Slots
      PROVE  /\ IsActive(e', s) => IsActive(e, s)
             /\ IsClaimed(e'.contact[s]) => IsPlaced(e'.contact[s])
  <2>1. IsClaimed(e.contact[s]) => IsPlaced(e.contact[s])
    BY DEF OwedInv, FingersWatched, FingerWatched
  <2> QED BY <1>5, <2>1 DEF SamePlace, IsActive, ClaimIsSound, IsPlaced
<1>7. phase # "events" /\ phase' # "resync"
  BY DEF BeginEvents
<1>8. NewTaps = {}
  BY <1>7, NoTaps
<1> QED BY <1>4, <1>5, <1>6, <1>7, <1>8, WatchedStep DEF SameSettings

\* An event that is routed and then decides its slot's contact.
LEMMA RoutedOwed ==
  ASSUME TypeInv, NEW b \in EngineState, NEW event \in Event,
         e' = Settle(RouteEvent(b, event))
  PROVE  Kept(b, e') /\ Slides(b, e') /\ e' \in EngineState
<1> DEFINE routed == RouteEvent(b, event)
<1>1. routed \in EngineState /\ Quiet(b, routed) /\ Kept(b, routed)
  BY RouteEventType, RouteEventQuiet, RouteEventKept
<1> HIDE DEF routed
<1>2. Kept(routed, e') /\ Slides(routed, e') /\ e' \in EngineState
  BY <1>1, SettleKept, SettleSlides, SettleType DEF routed
<1> QED BY <1>1, <1>2, KeptOn, QuietThenSlides

LEMMA SwitchOwed ==
  ASSUME TypeInv, OwedInv, HUpdate, SlotSwitch
  PROVE  OwedInv'
<1>0. CASE CurrentEvent.value \notin Slots
  BY <1>0, SameEngineOwed DEF SlotSwitch, Fail
<1> SUFFICES ASSUME CurrentEvent.value \in Slots PROVE OwedInv'
  BY <1>0
<1> DEFINE b == [e EXCEPT !.current_slot = CurrentEvent.value]
<1>1. /\ e \in EngineState /\ CurrentEvent \in Event
      /\ e' = Settle(RouteEvent(b, CurrentEvent))
      /\ phase = "events" /\ phase' = "events"
  BY InHand, EventInHand DEF SlotSwitch, Processed
<1>2. /\ b \in EngineState /\ b.contact = e.contact /\ b.gestures = e.gestures
      /\ b.pending_tap = e.pending_tap /\ b.slider_steps = e.slider_steps
  BY <1>1 DEF EngineState
<1> HIDE DEF b
<1>3. Quiet(e, b)
  BY <1>1, <1>2, SamePhasesOf, SameReports
<1>4. Slides(b, e') /\ e' \in EngineState
  BY <1>1, <1>2, RoutedOwed
<1>5. Watches(e, e')
  BY <1>1, <1>2, <1>3, <1>4, QuietThenSlides, SlidesWatches
<1>6. /\ SamePressed(e, e')
      /\ \A s \in Slots : ContactKept(e, e.contact[s], e'.contact[s])
  BY SwitchView
<1>7. ASSUME NEW s \in Slots
      PROVE  /\ IsActive(e', s) <=> IsActive(e, s)
             /\ IsClaimed(e'.contact[s]) => IsPlaced(e'.contact[s])
  <2>1. IsClaimed(e.contact[s]) => IsPlaced(e.contact[s])
    BY DEF OwedInv, FingersWatched, FingerWatched
  <2> QED BY <1>6, <2>1, KeptPlaced DEF ContactKept, SameFinger, IsActive
<1>8. NewTaps = {}
  BY <1>7, NoTaps
<1> QED BY <1>1, <1>5, <1>6, <1>7, <1>8, WatchedStep DEF SamePressed

LEMMA ToolOwed ==
  ASSUME TypeInv, OwedInv, HUpdate, ToolType
  PROVE  OwedInv'
<1>0. phase = "events" /\ phase' = "events" /\ CurrentEvent \in Event
  <2>1. CurrentEvent \in Event /\ phase = "events"
    BY EventInHand DEF ToolType
  <2> QED BY <2>1 DEF ToolType, Processed
<1>1. CASE ~PalmRejection
  BY <1>0, <1>1, SameEngineOwed DEF ToolType
<1> SUFFICES ASSUME PalmRejection PROVE OwedInv'
  BY <1>1
<1> DEFINE m == [e.memory[e.current_slot] EXCEPT !.tool_type = CurrentEvent.value]
           b == [e EXCEPT !.memory[e.current_slot] = m]
<1>2. e \in EngineState /\ e' = Settle(RouteEvent(b, CurrentEvent))
  BY InHand DEF ToolType, Processed
<1>3. b \in EngineState
  <2>1. CurrentEvent.value \in Int
    BY EventInHand DEF ToolType
  <2>2. \A k \in Memory, i \in Int : [k EXCEPT !.tool_type = i] \in Memory
    BY DEF Memory
  <2>3. m \in Memory
    BY <2>1, <2>2, InHand, EngineFields
  <2> HIDE DEF m
  <2> QED BY <1>2, <2>3 DEF EngineState
<1>4. /\ b.contact = e.contact /\ b.gestures = e.gestures
      /\ b.pending_tap = e.pending_tap /\ b.slider_steps = e.slider_steps
  <2> HIDE DEF m
  <2> QED BY <1>2 DEF EngineState
<1> HIDE DEF b
<1>5. Quiet(e, b)
  BY <1>2, <1>4, SamePhasesOf, SameReports
<1>6. Slides(b, e') /\ e' \in EngineState
  BY <1>0, <1>2, <1>3, RoutedOwed
<1>7. Watches(e, e')
  BY <1>2, <1>3, <1>5, <1>6, QuietThenSlides, SlidesWatches
<1>8. /\ SamePressed(e, e')
      /\ \A s \in Slots : ContactKept(e, e.contact[s], e'.contact[s])
  BY ToolView
<1>9. ASSUME NEW s \in Slots
      PROVE  /\ IsActive(e', s) <=> IsActive(e, s)
             /\ IsClaimed(e'.contact[s]) => IsPlaced(e'.contact[s])
  <2>1. IsClaimed(e.contact[s]) => IsPlaced(e.contact[s])
    BY DEF OwedInv, FingersWatched, FingerWatched
  <2> QED BY <1>8, <2>1, KeptPlaced DEF ContactKept, SameFinger, IsActive
<1>10. NewTaps = {}
  BY <1>9, NoTaps
<1> QED BY <1>0, <1>7, <1>8, <1>9, <1>10, WatchedStep DEF SamePressed

LEMMA PositionOwed ==
  ASSUME TypeInv, OwedInv, HUpdate, Position
  PROVE  OwedInv'
<1> DEFINE s == e.current_slot
           v == CurrentEvent.value
           isX == CurrentEvent.kind = "X"
           b == IF isX THEN PlaceX(e, s, v) ELSE PlaceY(e, s, v)
           ended == EndSpoiledPair(b, s)
<1>1. /\ e \in EngineState /\ s \in Slots /\ CurrentEvent \in Event
      /\ v \in Int /\ isX \in BOOLEAN
      /\ phase = "events" /\ phase' = "events"
  <2>1. CurrentEvent \in Event /\ CurrentEvent.value \in Int /\ phase = "events"
    BY EventInHand DEF Position
  <2> QED BY <2>1, InHand DEF Position, Processed
<1>2. e' = Settle(RouteEvent(ended, CurrentEvent))
  BY DEF Position, Processed
<1> HIDE DEF v, isX
<1>3. b \in EngineState /\ SamePressed(e, b)
  BY <1>1, PlaceView
<1>4. Watches(e, b) /\ b.slider_steps = e.slider_steps
  BY <1>1, PlaceWatches
<1> HIDE DEF b
<1>5. ended \in EngineState /\ Kept(b, ended) /\ Quiet(b, ended)
  BY <1>1, <1>3, EndSpoiledKept, EndSpoiledQuiet, KeptType
<1> HIDE DEF ended
<1>6. Kept(ended, e') /\ Slides(ended, e') /\ e' \in EngineState
  BY <1>1, <1>2, <1>5, RoutedOwed
<1>7. Kept(b, e') /\ Slides(b, e')
  BY <1>3, <1>5, <1>6, KeptOn, QuietThenSlides
<1>8. Watches(e, e')
  <2>1. \A r \in Slots : NetOf(e, b, r) = 0
    BY <1>1, <1>4, NoSteps
  <2> QED BY <1>1, <1>3, <1>4, <1>7, <2>1, SettledWatches DEF SamePressed
<1>9. /\ SamePressed(e, e')
      /\ \A r \in Slots \ {s} : ContactKept(e, e.contact[r], e'.contact[r])
      /\ ~IsActive(e, s) => ContactKept(e, e.contact[s], e'.contact[s])
      /\ IsActive(e, s) =>
           \E m \in Contact : /\ MovedTo(e.contact[s], m, isX, v)
                              /\ m.ownership = e.contact[s].ownership
                              /\ ContactKept(e, m, e'.contact[s])
  BY PositionView DEF v, isX
<1>10. ASSUME NEW r \in Slots
       PROVE  /\ IsActive(e', r) <=> IsActive(e, r)
              /\ IsClaimed(e'.contact[r]) => IsPlaced(e'.contact[r])
  <2>1. IsClaimed(e.contact[r]) => IsPlaced(e.contact[r])
    BY DEF OwedInv, FingersWatched, FingerWatched
  <2>2. CASE ContactKept(e, e.contact[r], e'.contact[r])
    BY <2>1, <2>2, KeptPlaced DEF ContactKept, SameFinger, IsActive
  <2>3. ASSUME r = s, NEW m \in Contact,
               MovedTo(e.contact[s], m, isX, v),
               m.ownership = e.contact[s].ownership,
               ContactKept(e, m, e'.contact[s])
        PROVE  /\ IsActive(e', r) <=> IsActive(e, r)
               /\ IsClaimed(e'.contact[r]) => IsPlaced(e'.contact[r])
    <3>1. IsClaimed(m) => IsPlaced(m)
      BY <2>1, <2>3 DEF MovedTo, IsClaimed, IsPlaced, OrElse
    <3>2. m.tracking_id = e.contact[r].tracking_id
      BY <2>3 DEF MovedTo
    <3> QED BY <2>3, <3>1, <3>2, KeptPlaced DEF ContactKept, SameFinger, IsActive
  <2> QED BY <1>9, <2>2, <2>3
<1>11. NewTaps = {}
  BY <1>10, NoTaps
<1> QED BY <1>1, <1>8, <1>9, <1>10, <1>11, WatchedStep DEF SamePressed

LEMMA DownOwed ==
  ASSUME TypeInv, OwedInv, HUpdate, ContactDown
  PROVE  OwedInv'
<1>0. CASE IsActive(e, e.current_slot)
  BY <1>0, SameEngineOwed DEF ContactDown, Fail
<1> SUFFICES ASSUME ~IsActive(e, e.current_slot) PROVE OwedInv'
  BY <1>0
<1> DEFINE s == e.current_slot
           id == CurrentEvent.value
           b == BeginContact(e, s, id)
<1>1. /\ e \in EngineState /\ s \in Slots /\ stamp \in Int
      /\ e' = Settle(b) /\ phase = "events" /\ phase' = "events"
  BY InHand, EventInHand DEF ContactDown, Processed
<1>2. /\ SamePressed(e, e') /\ id \in TrackingIds
      /\ \A r \in Slots \ {s} : ContactKept(e, e.contact[r], e'.contact[r])
      /\ e'.contact[s].tracking_id = id /\ e'.contact[s].ownership = "Unknown"
      /\ e'.contact[s].start_x = None /\ e'.contact[s].start_y = None
  BY DownView
<1>3. scan.contacts[s][id] \in FrameTool
  BY <1>1, <1>2, InHand
<1>4. b \in EngineState
  BY <1>1, <1>2, <1>3, BeginContactType
<1>5. /\ Watches(e, b) /\ b.slider_steps = e.slider_steps
      /\ b.contact[s].contact_phase = "TapCandidate"
  BY <1>1, <1>2, <1>3, BeginWatches
<1>6. b.cfg = e.cfg
  <2>1. Kept(b, e')
    <3> HIDE DEF b
    <3> QED BY <1>1, <1>4, SettleKept
  <2> QED BY <1>2, <2>1 DEF Kept, SameSettings, SamePressed
<1> HIDE DEF b
<1>7. Kept(b, e') /\ Slides(b, e')
  BY <1>1, <1>4, SettleKept, SettleSlides
<1>8. /\ Watches(e, e')
      /\ \/ e'.contact[s].contact_phase = "TapCandidate"
         \/ NetOf(e, e', s) # 0
  <2>1. \A r \in Slots : NetOf(e, b, r) = 0
    BY <1>1, <1>5, NoSteps
  <2>2. Watches(e, e')
    BY <1>1, <1>4, <1>5, <1>6, <1>7, <2>1, SettledWatches
  <2>3. NetOf(e, e', s) = NetOf(b, e', s)
    BY <1>5 DEF NetOf, StepsOf
  <2> QED BY <1>1, <1>5, <1>7, <2>2, <2>3 DEF Slides
<1>9. \A r \in Slots \ {s} : IsActive(e', r) <=> IsActive(e, r)
  BY <1>2 DEF ContactKept, SameFinger, IsActive
<1>10. TapInv'
  <2>1. NewTaps = {}
    BY <1>1, <1>9, NoTaps
  <2> QED BY <1>1, <1>2, <1>8, <2>1, TapTold DEF OwedInv, SamePressed, Watches
<1>11. ASSUME NEW r \in Slots
       PROVE  /\ IsClaimed(e'.contact[r]) => IsPlaced(e'.contact[r])
              /\ IsActive(e', r) =>
                   /\ e'.contact[r].contact_phase # "TapCandidate" =>
                        h'.moved[r] \/ h'.stepped[r]
                   /\ MovedFarEnough(e'.cfg, e'.contact[r]) => h'.moved[r]
  <2>1. CASE r = s
    <3>1. ~IsClaimed(e'.contact[r]) /\ ~MovedFarEnough(e'.cfg, e'.contact[r])
      BY <1>2, <2>1 DEF IsClaimed, Zones, MovedFarEnough
    <3> QED BY <1>8, <2>1, <3>1, FingersAfter
  <2>2. CASE r # s
    <3>1. FingerWatched(r) /\ ContactKept(e, e.contact[r], e'.contact[r])
      BY <1>2, <2>2 DEF OwedInv, FingersWatched
    <3>2. IsClaimed(e'.contact[r]) => IsPlaced(e'.contact[r])
      BY <3>1, KeptPlaced DEF FingerWatched
    <3>3. e'.cfg = e.cfg
      BY <1>2 DEF SamePressed
    <3> QED BY <1>8, <1>9, <2>2, <3>1, <3>2, <3>3, FingerGoesOn DEF Watches
  <2> QED BY <2>1, <2>2
<1> QED BY <1>10, <1>11 DEF OwedInv, FingersWatched, FingerWatched

LEMMA UpOwed ==
  ASSUME TypeInv, PalmInv, OwedInv, HUpdate, ContactUp
  PROVE  OwedInv'
<1> DEFINE s == e.current_slot
           c == e.contact[s]
           g == [zone |-> c.ownership, direction |-> "Tap", slot |-> s,
                 tracking_id |-> c.tracking_id]
           tap == /\ IsActive(e, s) /\ IsClaimed(c) /\ ~c.gesture_rejected
                  /\ ClassifyGesture(e.cfg, c, stamp) = "Tap"
           lifted == ReleaseCurrentSlot(e, CurrentEvent, stamp)
<1>1. /\ e \in EngineState /\ s \in Slots /\ stamp \in Int
      /\ CurrentEvent \in Event /\ e' = Settle(lifted)
      /\ phase = "events" /\ phase' = "events" /\ at \in DOMAIN frame.events
  <2>1. /\ CurrentEvent \in Event /\ phase = "events"
        /\ at \in DOMAIN frame.events
    BY EventInHand DEF ContactUp
  <2> QED BY <2>1, InHand DEF ContactUp, Processed
<1>2. /\ SameSettings(e, e')
      /\ \A r \in Slots \ {s} : ContactKept(e, e.contact[r], e'.contact[r])
      /\ ~IsActive(e, s) => ContactKept(e, e.contact[s], e'.contact[s])
      /\ IsActive(e, s) => SameFinger(NoContact, e'.contact[s])
                           /\ ~IsClaimed(e'.contact[s])
  BY UpView
<1>3. ~IsActive(e', s)
  BY <1>2, NoContactFields DEF ContactKept, SameFinger, IsActive
<1>4. e' = lifted
  <2>1. lifted \in EngineState
    BY <1>1, ReleaseCurrentType
  <2> HIDE DEF lifted
  <2>2. Kept(lifted, e')
    BY <1>1, <2>1, SettleKept
  <2>3. lifted.current_slot = s /\ ~IsActive(lifted, s)
    BY <1>1, <1>2, <1>3, <2>2
       DEF Kept, SameSettings, ContactKept, SameFinger, IsActive
  <2> QED BY <1>1, <2>3, FreeSlotSettles
<1>5. /\ e'.slider_steps = e.slider_steps
      /\ \A r \in Slots : e'.contact[r].contact_phase
                            \in {e.contact[r].contact_phase, "TapCandidate"}
      /\ Hears(e, e', g, tap)
  <2>1. /\ lifted.slider_steps = e.slider_steps
        /\ \A r \in Slots : lifted.contact[r].contact_phase
                              \in {e.contact[r].contact_phase, "TapCandidate"}
        /\ Hears(e, lifted, g, tap)
    BY <1>1, ReleaseHears
  <2> HIDE DEF lifted, g, tap
  <2> QED BY <1>4, <2>1
<1> HIDE DEF lifted
<1>6. ~e.resync_required
  <2>1. frame.events \in Seq(Event)
    BY DEF TypeInv, TypeOK, Frame
  <2>2. at <= Len(frame.events)
    BY <1>1, <2>1
  <2> QED BY <1>1, <2>2 DEF PalmInv, LostInv, TypeInv, TypeOK
<1>7. ASSUME NEW r \in Slots
      PROVE  /\ IsActive(e', r) => IsActive(e, r)
             /\ IsClaimed(e'.contact[r]) => IsPlaced(e'.contact[r])
             /\ Ended(r) => r = s
  <2>1. IsClaimed(e.contact[r]) => IsPlaced(e.contact[r])
    BY DEF OwedInv, FingersWatched, FingerWatched
  <2>2. CASE ContactKept(e, e.contact[r], e'.contact[r])
    BY <2>1, <2>2, KeptPlaced DEF ContactKept, SameFinger, IsActive, Ended
  <2>3. CASE r = s /\ IsActive(e, s)
    BY <1>2, <1>3, <2>3
  <2> QED BY <1>2, <2>2, <2>3
<1>8. FingersWatched'
  <2>1. ASSUME NEW r \in Slots
        PROVE  /\ IsClaimed(e'.contact[r]) => IsPlaced(e'.contact[r])
               /\ IsActive(e', r) =>
                    /\ e'.contact[r].contact_phase # "TapCandidate" =>
                         h'.moved[r] \/ h'.stepped[r]
                    /\ MovedFarEnough(e'.cfg, e'.contact[r]) => h'.moved[r]
    <3>1. FingerWatched(r) /\ e'.cfg = e.cfg
      BY <1>2 DEF OwedInv, FingersWatched, SameSettings
    <3> QED BY <1>5, <1>7, <3>1, FingerGoesOn
  <2> QED BY <2>1 DEF FingersWatched, FingerWatched
\* What the history calls a tap the engine classifies as one.
<1>9. ASSUME Ended(s), IsTap(s) PROVE tap
  <2>1. /\ IsActive(e, s) /\ IsClaimed(c) /\ ~h.palm[s]
        /\ ~h.moved[s] /\ ~h.stepped[s]
        /\ TapDurationIsValid(e.cfg, c.started_at, stamp)
    BY <1>9 DEF Ended, IsTap
  <2>2. ~c.gesture_rejected
    BY <1>1, <2>1 DEF PalmInv, JudgedAlike
  <2>3. /\ IsPlaced(c) /\ c.contact_phase = "TapCandidate"
        /\ ~MovedFarEnough(e.cfg, c)
    BY <1>1, <2>1 DEF OwedInv, FingersWatched, FingerWatched
  <2>4. ClassifyGesture(e.cfg, c, stamp) = "Tap"
    BY <1>1, <2>1, <2>2, <2>3, EngineFields, TapIsClassified
  <2> QED BY <2>1, <2>2, <2>4
<1>10. ASSUME NEW k \in NewTaps PROVE k = g /\ tap
  BY <1>7, <1>9 DEF NewTaps, TapGesture
<1>11. /\ e'.cfg = e.cfg /\ ~e'.resync_required
  BY <1>2, <1>6 DEF SameSettings
<1> HIDE DEF g, tap
<1>12. TapInv'
  <2>1. CASE /\ e'.pending_tap = NoTap
             /\ \E d \in Reported(e, e') : d.direction = "DoubleTap"
    <3>1. h'.owed = {}
      BY <2>1, OwedAfter
    <3> QED BY <1>1, <1>11, <2>1, <3>1, NoPending DEF TapInv, HasPendingTap
  <2>2. CASE /\ TellsTap(e, e')
             /\ tap => g \in Reported(e, e') \/ g.zone \notin e.cfg.single_tap_zones
    <3>1. h'.owed \subseteq h.owed
      BY <1>10, <2>2, OwedAfter
    <3>2. \/ e'.pending_tap = e.pending_tap
          \/ e'.pending_tap = NoTap /\ IsTold(e, e')
      BY <2>2 DEF TellsTap
    <3>3. HasPendingTap(e') => HasPendingTap(e) /\ e'.pending_tap = e.pending_tap
      BY <3>2, NoPending DEF HasPendingTap
    <3>4. ASSUME NEW k \in h'.owed
          PROVE  /\ HasPendingTap(e') /\ e'.pending_tap.gesture = k
                 /\ k.zone \in e'.cfg.single_tap_zones
      <4>1. k \in h.owed /\ k \notin Reported(e, e')
        BY <3>1, OwedAfter
      <4>2. /\ HasPendingTap(e) /\ e.pending_tap.gesture = k
            /\ k.zone \in e.cfg.single_tap_zones /\ e.pending_tap.emit_single
        BY <4>1 DEF TapInv, OwedInv
      <4> QED BY <1>11, <3>2, <4>1, <4>2 DEF IsTold, HasPendingTap
    <3> QED BY <1>1, <1>11, <3>3, <3>4 DEF TapInv, OwedInv
  <2>3. CASE /\ IsTold(e, e')
             /\ HasPendingTap(e') /\ e'.pending_tap.gesture = g
             /\ e'.pending_tap.emit_single <=> g.zone \in e.cfg.single_tap_zones
    <3>1. ASSUME NEW k \in h'.owed
          PROVE  k = g /\ k.zone \in e'.cfg.single_tap_zones
      <4>1. k \in h.owed => k \in Reported(e, e')
        BY <2>3 DEF TapInv, OwedInv, IsTold
      <4> QED BY <1>10, <1>11, <4>1, OwedAfter
    <3> QED BY <1>1, <1>11, <2>3, <3>1 DEF TapInv
  <2> QED BY <1>5, <2>1, <2>2, <2>3 DEF Hears
<1> QED BY <1>8, <1>12 DEF OwedInv

\* SYN_DROPPED forgets the fingers, and the tap with the debt.
LEMMA DroppedOwed ==
  ASSUME TypeInv, OwedInv, HUpdate, SynDropped
  PROVE  OwedInv'
<1> DEFINE b == [ResetForResync(e) EXCEPT !.resync_required = TRUE]
<1>1. /\ e \in EngineState /\ e' = Settle(b) /\ Dropped
  BY InHand DEF SynDropped, Processed, Dropped, AtEvent
<1>2. /\ b.current_slot = SlotMin /\ b.pending_tap = NoTap
      /\ b.contact = [s \in Slots |-> NoContact]
  BY <1>1 DEF ResetForResync, EngineState
<1> HIDE DEF b
<1>3. ~IsActive(b, b.current_slot)
  <2>1. SlotMin \in Slots
    BY InHand, SlotsAssumption DEF Slots
  <2> QED BY <1>2, <2>1, NoContactFields DEF IsActive
<1>4. ~HasPendingTap(e')
  BY <1>1, <1>2, <1>3, FreeSlotSettles, NoPending DEF HasPendingTap
<1>5. h'.owed = {}
  BY <1>1, OwedAfter
<1>6. \A s \in Slots : ~IsActive(e', s) /\ ~IsClaimed(e'.contact[s])
  BY DroppedView, NoContactFields DEF SameFinger, IsActive
<1> QED
  BY <1>4, <1>5, <1>6 DEF OwedInv, FingersWatched, FingerWatched, TapInv

\* The coordinates a new finger did not report come from memory.
LEMMA FinalizeOwed ==
  ASSUME TypeInv, OwedInv, HUpdate, FinalizeSlot
  PROVE  OwedInv'
<1> DEFINE c == e.contact[at]
           d == e'.contact[at]
<1>1. /\ at \in Slots /\ e \in EngineState /\ c \in Contact
      /\ phase = "finalize" /\ phase' = "finalize" /\ e' = FinalizeContact(e, at)
  BY FinalizeView, InHand, EngineFields DEF FinalizeSlot
<1>2. Watches(e, e')
  BY <1>1, FinalizeContactSlides, SlidesWatches
<1>3. /\ e'.cfg = e.cfg /\ e'.resync_required = e.resync_required
      /\ \A r \in Slots \ {at} : ContactKept(e, e.contact[r], e'.contact[r])
  BY FinalizeView DEF SameSettings
<1>4. d.tracking_id = c.tracking_id /\ (IsClaimed(d) => IsPlaced(d))
  <2>1. IsClaimed(c) => IsPlaced(c)
    BY <1>1 DEF OwedInv, FingersWatched, FingerWatched
  <2>2. CASE ~c.began_in_frame
    BY <2>1, <2>2, FinalizeView
  <2>3. ASSUME NEW k \in Contact, PlacedFrom(c, k, e.memory[at]),
               k.ownership = c.ownership, ContactKept(e, k, d)
        PROVE  d.tracking_id = c.tracking_id /\ (IsClaimed(d) => IsPlaced(d))
    <3>1. IsClaimed(k) => IsPlaced(k)
      BY <2>1, <2>3 DEF IsClaimed, IsPlaced, PlacedFrom, OrElse
    <3>2. IsClaimed(d) => IsPlaced(d)
      BY <2>3, <3>1, KeptPlaced
    <3> QED BY <2>3, <3>2 DEF ContactKept, SameFinger, PlacedFrom
  <2> QED BY <2>2, <2>3, FinalizeView
<1> HIDE DEF c, d
<1>5. ASSUME NEW s \in Slots
      PROVE  /\ IsActive(e', s) => IsActive(e, s)
             /\ IsClaimed(e'.contact[s]) => IsPlaced(e'.contact[s])
  <2>1. CASE s = at
    BY <1>4, <2>1 DEF IsActive, c, d
  <2>2. CASE s # at
    <3>1. /\ ContactKept(e, e.contact[s], e'.contact[s])
          /\ IsClaimed(e.contact[s]) => IsPlaced(e.contact[s])
      BY <1>3, <2>2 DEF OwedInv, FingersWatched, FingerWatched
    <3> QED BY <3>1, KeptPlaced DEF ContactKept, SameFinger, IsActive
  <2> QED BY <2>1, <2>2
<1>6. NewTaps = {}
  BY <1>1, NoTaps
<1> QED BY <1>1, <1>2, <1>3, <1>5, <1>6, WatchedStep

\* The caller takes the frame's gestures and leaves the tap pending.
LEMMA EndOwed ==
  ASSUME TypeInv, OwedInv, HUpdate, EndFrame
  PROVE  OwedInv'
<1>1. /\ e'.cfg = e.cfg /\ e'.contact = e.contact
      /\ e'.pending_tap = e.pending_tap /\ ~e'.resync_required
  BY EndView
<1>2. phase = "finalize" /\ (phase' = "resync" => e.resync_required)
  BY DEF EndFrame
<1>3. TapInv'
  BY <1>1, <1>2, NoTaps, TapTold DEF OwedInv
<1>4. ASSUME NEW s \in Slots
      PROVE  /\ IsClaimed(e'.contact[s]) => IsPlaced(e'.contact[s])
             /\ IsActive(e', s) =>
                  /\ e'.contact[s].contact_phase # "TapCandidate" =>
                       h'.moved[s] \/ h'.stepped[s]
                  /\ MovedFarEnough(e'.cfg, e'.contact[s]) => h'.moved[s]
  <2>1. FingerWatched(s)
    BY DEF OwedInv, FingersWatched
  <2>2. IsClaimed(e'.contact[s]) => IsPlaced(e'.contact[s])
    BY <1>1, <2>1 DEF FingerWatched
  <2> QED BY <1>1, <2>1, <2>2, FingerGoesOn DEF IsActive
<1> QED BY <1>3, <1>4 DEF OwedInv, FingersWatched, FingerWatched

\* A deadline reports the tap that is due.
LEMMA AdvanceOwed ==
  ASSUME TypeInv, OwedInv, HUpdate, AdvanceTime
  PROVE  OwedInv'
<1> DEFINE t == NextDeadline(e)
<1>1. /\ e \in EngineState /\ e' = ExpirePendingTap(e, t) /\ phase' = "finalize"
  BY InHand DEF AdvanceTime, Output
<1> HIDE DEF t
<1>2. Watches(e, e')
  BY <1>1, ExpireQuiet, QuietSlides, SlidesWatches
<1> QED BY <1>1, <1>2, AdvanceView, KeptStep

\* What a recovery restores is a tap candidate.
LEMMA RestoredPhase ==
  ASSUME NEW id, NEW x, NEW y, NEW tool
  PROVE  /\ RestoredContact(id, x, y, tool).contact_phase = "TapCandidate"
         /\ NoContact.contact_phase = "TapCandidate"
BY DEF RestoredContact, RejectGestures, NoContact, NewContact

\* The recovery: no tap was pending, and every finger starts anew.
LEMMA ResyncOwed ==
  ASSUME TypeInv, OwedInv, HUpdate, NEW snapshot \in Snapshots, Resync(snapshot)
  PROVE  OwedInv'
<1>1. /\ phase = "resync" /\ phase' = "finalize" /\ e \in EngineState
      /\ e' = RestoreSnapshot(e, snapshot) /\ \A s \in Slots : ~Began(s)
  BY InHand DEF Resync, Output, Began
<1>2. /\ e'.pending_tap = NoTap /\ \A s \in Slots : ~IsClaimed(e'.contact[s])
  BY ResyncView
<1>3. \A s \in Slots : e'.contact[s].contact_phase = "TapCandidate"
  <2> DEFINE seeded == SeededMemory(snapshot.memory)
             restored(s) == RestoredContact(snapshot.ids[s], seeded[s].x,
                                            seeded[s].y, seeded[s].tool_type)
             active == SnapshotContacts(snapshot)
  <2>1. e'.contact = [s \in Slots |-> IF s \in active THEN restored(s) ELSE NoContact]
    BY <1>1 DEF RestoreSnapshot, ResetForResync, EngineState
  <2>2. \A s \in Slots : restored(s).contact_phase = "TapCandidate"
    BY RestoredPhase
  <2> HIDE DEF seeded, restored, active
  <2> QED BY <2>1, <2>2, RestoredPhase
<1>4. ~HasPendingTap(e) /\ ~HasPendingTap(e')
  BY <1>1, <1>2, NoPending DEF OwedInv, TapInv, HasPendingTap
<1>5. h'.owed = {}
  <2>1. h.owed = {} /\ NewTaps = {}
    BY <1>1, <1>4, NoTaps DEF OwedInv, TapInv
  <2> QED BY <2>1, OwedAfter
<1>6. TapInv'
  BY <1>4, <1>5 DEF TapInv
<1>7. FingersWatched'
  BY <1>1, <1>2, <1>3, FingersAfter DEF FingersWatched, FingerWatched
<1> QED BY <1>6, <1>7 DEF OwedInv

\* Another profile: nothing is pending and no finger is down.
LEMMA ReloadOwed ==
  ASSUME TypeInv, OwedInv, HUpdate, NEW cfg \in Configs, Reload(cfg)
  PROVE  OwedInv'
<1>1. /\ e'.contact = e.contact /\ ~HasPendingTap(e) /\ ~HasPendingTap(e')
      /\ \A s \in Slots : ~IsActive(e, s) /\ ~IsActive(e', s)
  BY ReloadView DEF HasPendingTap, IsActive
<1>2. h'.owed = {}
  <2>1. h.owed = {} /\ NewTaps = {}
    BY <1>1, NoTaps DEF Reload, OwedInv, TapInv
  <2> QED BY <2>1, OwedAfter
<1>3. TapInv'
  BY <1>1, <1>2 DEF TapInv
<1>4. FingersWatched'
  BY <1>1 DEF OwedInv, FingersWatched, FingerWatched
<1> QED BY <1>3, <1>4 DEF OwedInv

LEMMA StepOwed ==
  ASSUME TypeInv, PalmInv, OwedInv, [HNext]_hvars
  PROVE  OwedInv'
<1>u. CASE UNCHANGED hvars
  <2>1. UNCHANGED <<e, phase, h>>
    BY <1>u DEF hvars, vars
  <2> QED
    BY <2>1 DEF OwedInv, FingersWatched, FingerWatched, TapInv, HasPendingTap, IsActive
<1> SUFFICES ASSUME Next, HUpdate PROVE OwedInv'
  BY <1>u DEF HNext
<1>1. ASSUME NEW f \in Frames \cup OddFrames, NEW t \in Stamps, StartFrame(f, t)
      PROVE  OwedInv'
  BY <1>1, StartOwed
<1>2. CASE ScanEvent \/ EventsDone
  <2>1. e' = e /\ phase' # "resync"
    BY <1>2 DEF ScanEvent, EventsDone, Fail
  <2> QED BY <2>1, SameEngineOwed
<1>3. ASSUME NEW snapshot \in Snapshots, Resync(snapshot) PROVE OwedInv'
  BY <1>3, ResyncOwed
<1>4. ASSUME NEW cfg \in Configs, Reload(cfg) PROVE OwedInv'
  BY <1>4, ReloadOwed
<1> QED
  BY <1>1, <1>2, <1>3, <1>4, BeginOwed, SwitchOwed, DownOwed, UpOwed, ToolOwed,
     PositionOwed, DroppedOwed, FinalizeOwed, EndOwed, AdvanceOwed DEF Next, FrameStep

\* No valid tap is lost, whatever came between: until it is reported, paired
\* into a double tap or cancelled by SYN_DROPPED or by the profile, it is the
\* engine's pending tap.  A tap is what the history calls one: a claimed finger,
\* no palm, that never left the slop, moved no slider and was lifted in time.
THEOREM TapsAreKept ==
  ASSUME SnapshotsAtLastContact, OddFramesBeginNothing
  PROVE  HSpec => []OwedTapIsPending
<1>1. OwedInv => OwedTapIsPending
  BY DEF OwedInv, TapInv, OwedTapIsPending
<1>2. HInit => Mirror /\ PalmInv /\ OwedInv
  BY InitMirror, InitPalm, InitOwed DEF HInit
<1>3. TypeInv /\ Mirror /\ [HNext]_hvars => Mirror'
  BY StepMirror DEF HNext, hvars
<1>4. TypeInv /\ Mirror /\ PalmInv /\ [HNext]_hvars => PalmInv'
  BY StepPalm
<1>5. TypeInv /\ PalmInv /\ OwedInv /\ [HNext]_hvars => OwedInv'
  BY StepOwed
<1> QED BY <1>1, <1>2, <1>3, <1>4, <1>5, HistoryType, PTL DEF HSpec

-----------------------------------------------------------------------------
(* The tap that is owed, as the session sees it: what the operations do to *)
(* it.                                                                     *)

\* The pending tap is over, or it waits on with the same second tap.
Waits(en, out) ==
  \/ out.pending_tap = NoTap
  \/ /\ out.pending_tap = en.pending_tap
     /\ \A s \in Slots :
          /\ IsMatching(out, s) <=> IsMatching(en, s)
          /\ IsMatching(en, s) => out.contact[s].started_at = en.contact[s].started_at

\* A contact that went down at t becomes the second tap in time.
Completes(en, out, t) ==
  /\ HasPendingTap(en) /\ out.pending_tap = en.pending_tap
  /\ t - en.pending_tap.released_at < TapTimeout
  /\ \E s \in Slots : IsMatching(out, s) /\ out.contact[s].started_at = t

\* A tap lifted at t waits for a second one.
Opens(out, t) ==
  out.pending_tap.released_at = t /\ t # None /\ NoMatch(out)

LEMMA WaitsItself ==
  ASSUME NEW en, NEW out, out.pending_tap = en.pending_tap, out.contact = en.contact
  PROVE  Waits(en, out)
BY DEF Waits, IsMatching

LEMMA WaitsOn ==
  ASSUME NEW a, NEW b, NEW c, Waits(a, b), Waits(b, c)
  PROVE  Waits(a, c)
BY DEF Waits

\* One contact changes, but not in what makes it a second tap.
LEMMA OneContactWaits ==
  ASSUME NEW en, NEW out, NEW s \in Slots, out.pending_tap = en.pending_tap,
         \A r \in Slots \ {s} : out.contact[r] = en.contact[r],
         out.contact[s].tap_sequence_match <=> en.contact[s].tap_sequence_match,
         out.contact[s].tap_sequence_match =>
           out.contact[s].started_at = en.contact[s].started_at
  PROVE  Waits(en, out)
BY DEF Waits, IsMatching

LEMMA FlushWaits ==
  ASSUME NEW a, NEW en \in EngineState
  PROVE  Waits(a, FlushPendingTap(en))
BY FlushView DEF Waits

LEMMA ExpireWaits ==
  ASSUME NEW en \in EngineState, NEW t
  PROVE  Waits(en, ExpirePendingTap(en, t))
BY FlushWaits, WaitsItself DEF ExpirePendingTap

LEMMA PushGestureWaits ==
  ASSUME NEW en \in EngineState, NEW g
  PROVE  Waits(en, PushGesture(en, g))
<1>1. /\ PushGesture(en, g).contact = en.contact
      /\ PushGesture(en, g).pending_tap = en.pending_tap
  BY DEF PushGesture, EngineState
<1> QED BY <1>1, WaitsItself

LEMMA PushPassthroughWaits ==
  ASSUME NEW en \in EngineState, NEW s, NEW events
  PROVE  Waits(en, PushPassthrough(en, s, events))
<1>1. LET out == PushPassthrough(en, s, events)
      IN out.contact = en.contact /\ out.pending_tap = en.pending_tap
  BY DEF PushPassthrough, EngineState
<1> QED BY <1>1, WaitsItself

LEMMA HoldWaits ==
  ASSUME NEW en \in EngineState, NEW s \in Slots, NEW events
  PROVE  Waits(en, [en EXCEPT !.held_events[s] = events])
<1> DEFINE out == [en EXCEPT !.held_events[s] = events]
<1>1. out.contact = en.contact /\ out.pending_tap = en.pending_tap
  BY DEF EngineState
<1> HIDE DEF out
<1>2. Waits(en, out)
  BY <1>1, WaitsItself
<1> QED BY <1>2 DEF out

LEMMA RouteEventWaits ==
  ASSUME NEW en \in EngineState, NEW event \in Event
  PROVE  Waits(en, RouteEvent(en, event))
<1>1. en.current_slot \in Slots
  BY DEF EngineState
<1>2. [en EXCEPT !.held_events[en.current_slot] = Append(@, event)]
        = [en EXCEPT !.held_events[en.current_slot]
                       = Append(en.held_events[en.current_slot], event)]
  OBVIOUS
<1> QED
  BY <1>1, <1>2, PushPassthroughWaits, HoldWaits, WaitsItself DEF RouteEvent

LEMMA PassContactThroughWaits ==
  ASSUME NEW en \in EngineState, NEW s \in Slots
  PROVE  Waits(en, PassContactThrough(en, s))
<1> DEFINE c == [en.contact[s] EXCEPT !.ownership = "Passthrough"]
           owned == [[en EXCEPT !.contact[s] = c] EXCEPT !.held_events[s] = <<>>]
           settled == IF en.contact[s].gesture_rejected
                      THEN owned ELSE FlushPendingTap(owned)
           replayed == PushPassthrough(settled, s, en.held_events[s])
           tool == en.memory[s].tool_type
           tools == IF tool = None THEN <<>> ELSE <<ToolTypeEvent(tool)>>
           out == PushPassthrough(replayed, s, tools)
<1>1. /\ c \in Contact /\ c.started_at = en.contact[s].started_at
      /\ c.tap_sequence_match <=> en.contact[s].tap_sequence_match
  <2>1. \A d \in Contact :
          LET k == [d EXCEPT !.ownership = "Passthrough"]
          IN /\ k \in Contact /\ k.started_at = d.started_at
             /\ k.tap_sequence_match = d.tap_sequence_match
    BY DEF Contact, Ownerships
  <2> QED BY <2>1, EngineFields
<1> HIDE DEF c
<1>2. owned \in EngineState /\ Waits(en, owned)
  <2>1. [en EXCEPT !.contact[s] = c] \in EngineState /\ <<>> \in Seq(Event)
    BY <1>1, SetContact
  <2>2. owned \in EngineState
    BY <2>1, SetHeldEvents
  <2>3. /\ owned.pending_tap = en.pending_tap /\ owned.contact[s] = c
        /\ \A r \in Slots \ {s} : owned.contact[r] = en.contact[r]
    BY DEF EngineState
  <2> HIDE DEF owned
  <2> QED BY <1>1, <2>2, <2>3, OneContactWaits
<1> HIDE DEF owned
<1>3. settled \in EngineState /\ Waits(owned, settled)
  BY <1>2, FlushType, FlushWaits, WaitsItself
<1> HIDE DEF settled
<1>4. replayed \in EngineState /\ Waits(settled, replayed)
  BY <1>3, EngineFields, PushPassthroughWaits, PushPassthroughType
<1> HIDE DEF replayed
<1>5. Waits(replayed, out)
  <2> HIDE DEF tools
  <2> QED BY <1>4, PushPassthroughWaits
<1>6. PassContactThrough(en, s) = out
  BY DEF PassContactThrough, replayed, settled, owned, c
<1> HIDE DEF tools, out
<1>7. Waits(en, settled)
  BY <1>2, <1>3, WaitsOn
<1>8. Waits(en, replayed)
  BY <1>4, <1>7, WaitsOn
<1>9. Waits(en, out)
  BY <1>5, <1>8, WaitsOn
<1> QED BY <1>6, <1>9

\* A contact that is claimed ends the pending tap, or is its second one.
LEMMA ClaimContactWaits ==
  ASSUME NEW en \in EngineState, NEW s \in Slots, NEW zone \in Zones,
         ~IsMatching(en, s)
  PROVE  LET out == ClaimContact(en, s, zone)
         IN \/ Waits(en, out)
            \/ Completes(en, out, en.contact[s].started_at)
<1> DEFINE c == en.contact[s]
           match == /\ ~c.gesture_rejected
                    /\ ContactMatchesPendingTap(en.cfg, en.pending_tap, c, zone)
           settled == IF HasPendingTap(en) /\ ~match /\ ~c.gesture_rejected
                      THEN FlushPendingTap(en) ELSE en
           anchor == IF en.cfg.sliders[zone] > 0
                     THEN SliderPosition(zone, c) ELSE None
           claimed == [settled.contact[s] EXCEPT !.ownership = zone,
                                                 !.slider_anchor = anchor,
                                                 !.tap_sequence_match = match]
           out == ClaimContact(en, s, zone)
<1>1. settled \in EngineState /\ (settled = en \/ settled = FlushPendingTap(en))
  BY FlushType
<1>2. match \in BOOLEAN
  BY DEF ContactMatchesPendingTap
<1>3. match => /\ settled = en /\ HasPendingTap(en)
               /\ c.started_at - en.pending_tap.released_at < TapTimeout
  <2>1. en.cfg.double_tap_timeout = TapTimeout
    BY ProfilesAssumption DEF EngineState
  <2> QED BY <2>1 DEF ContactMatchesPendingTap, HasPendingTap
<1> HIDE DEF settled, match
<1>4. /\ claimed.started_at = settled.contact[s].started_at
      /\ claimed.tap_sequence_match <=> match
  <2>1. \A d \in Contact : \A a : \A b \in BOOLEAN :
          LET k == [d EXCEPT !.ownership = zone, !.slider_anchor = a,
                             !.tap_sequence_match = b]
          IN k.started_at = d.started_at /\ k.tap_sequence_match = b
    BY DEF Contact
  <2>2. settled.contact[s] \in Contact
    BY <1>1, EngineFields
  <2> QED BY <1>2, <2>1, <2>2
<1>5. /\ out.pending_tap = settled.pending_tap /\ out.contact[s] = claimed
      /\ \A r \in Slots \ {s} : out.contact[r] = settled.contact[r]
  <2>1. out = [settled EXCEPT !.contact[s].ownership = zone,
                              !.contact[s].slider_anchor = anchor,
                              !.contact[s].tap_sequence_match = match,
                              !.held_events[s] = <<>>]
    BY DEF ClaimContact, settled, match
  <2> HIDE DEF out, anchor
  <2> QED BY <1>1, <2>1 DEF EngineState
<1> HIDE DEF out, claimed
<1>6. CASE match
  <2>1. out.contact[s].started_at = c.started_at /\ IsMatching(out, s)
    BY <1>3, <1>4, <1>5, <1>6 DEF IsMatching
  <2> QED BY <1>3, <1>5, <1>6, <2>1 DEF Completes, out
<1>7. CASE ~match
  <2>1. CASE settled = en
    <3>1. Waits(en, out)
      BY <1>4, <1>5, <1>7, <2>1, OneContactWaits DEF IsMatching
    <3> QED BY <3>1 DEF out
  <2>2. CASE settled = FlushPendingTap(en)
    <3>1. out.pending_tap = NoTap
      BY <1>5, <2>2, FlushView
    <3> QED BY <3>1 DEF Waits, out
  <2> QED BY <1>1, <2>1, <2>2
<1> QED BY <1>6, <1>7

LEMMA CompletesOn ==
  ASSUME NEW a, NEW b, NEW c, NEW t, Completes(a, b, t), Waits(b, c)
  PROVE  Waits(a, c) \/ Completes(a, c, t)
BY DEF Waits, Completes

LEMMA ThenCompletes ==
  ASSUME NEW a, NEW b, NEW c, NEW t, Waits(a, b), Completes(b, c, t)
  PROVE  Completes(a, c, t)
BY NoPending DEF Waits, Completes, HasPendingTap

LEMMA DecideWaits ==
  ASSUME NEW en \in EngineState, NEW s \in Slots,
         en.contact[s].ownership = "Unknown" => ~IsMatching(en, s)
  PROVE  LET out == DecideOwnershipIfReady(en, s)
         IN \/ Waits(en, out)
            \/ Completes(en, out, en.contact[s].started_at)
<1> DEFINE zone == ZoneForContact(en, s)
           out == DecideOwnershipIfReady(en, s)
<1>1. zone = "None" \/ zone \in Zones
  BY ZoneType DEF ZoneForContact
<1> HIDE DEF zone
<1>2. \/ out = en
      \/ out = PassContactThrough(en, s)
      \/ /\ zone \in Zones /\ out = ClaimContact(en, s, zone)
         /\ en.contact[s].ownership = "Unknown"
  BY <1>1 DEF DecideOwnershipIfReady, zone
<1> HIDE DEF out
<1>3. Waits(en, out) \/ Completes(en, out, en.contact[s].started_at)
  BY <1>2, WaitsItself, PassContactThroughWaits, ClaimContactWaits
<1> QED BY <1>3 DEF out

\* A slider that steps ends the pending tap.
LEMMA EmitWaits ==
  ASSUME NEW en \in EngineState, NEW s \in Slots
  PROVE  Waits(en, EmitSliderStepsIfReady(en, s))
<1> DEFINE c == en.contact[s]
           position == SliderPosition(c.ownership, c)
           count == StepCount(Distance(c.slider_anchor, position),
                              en.cfg.sliders[c.ownership])
           anchored == [en EXCEPT !.contact[s].slider_anchor = position]
           taken == TakeSliderSteps(en, s, count)
<1> SUFFICES ASSUME IsClaimed(c), en.cfg.sliders[c.ownership] > 0
             PROVE  Waits(en, EmitSliderSteps(en, s))
  BY WaitsItself DEF EmitSliderStepsIfReady
<1>1. c \in Contact /\ c.ownership \in Zones
  BY EngineFields DEF IsClaimed
<1>2. count \in Nat
  BY <1>1, SliderPositionType, ConfigInForce, ContactFields, DistanceType,
     StepCountType
<1>3. ASSUME count # 0 PROVE Waits(en, FlushPendingTap(taken))
  <2> HIDE DEF count
  <2>1. taken \in EngineState
    BY <1>2, <1>3, TakeStepsType
  <2> HIDE DEF taken
  <2> QED BY <2>1, FlushWaits
<1>4. Waits(en, anchored)
  <2> DEFINE k == [c EXCEPT !.slider_anchor = position]
  <2>1. \A d \in Contact : \A a : LET m == [d EXCEPT !.slider_anchor = a]
                                  IN /\ m.started_at = d.started_at
                                     /\ m.tap_sequence_match = d.tap_sequence_match
    BY DEF Contact
  <2>2. k.started_at = c.started_at /\ k.tap_sequence_match = c.tap_sequence_match
    BY <1>1, <2>1
  <2>3. /\ anchored.contact[s] = k /\ anchored.pending_tap = en.pending_tap
        /\ \A r \in Slots \ {s} : anchored.contact[r] = en.contact[r]
    BY DEF EngineState
  <2> HIDE DEF k, anchored
  <2> QED BY <2>2, <2>3, OneContactWaits
<1> HIDE DEF count, position
<1> QED BY <1>3, <1>4, WaitsItself DEF EmitSliderSteps, position, count

LEMMA DecideAndSlideWaits ==
  ASSUME NEW en \in EngineState, NEW s \in Slots,
         en.contact[s].ownership = "Unknown" => ~IsMatching(en, s)
  PROVE  LET out == DecideAndSlide(en, s)
         IN \/ Waits(en, out)
            \/ Completes(en, out, en.contact[s].started_at)
<1> DEFINE decided == DecideOwnershipIfReady(en, s)
           out == DecideAndSlide(en, s)
<1>1. /\ decided \in EngineState
      /\ Waits(en, decided) \/ Completes(en, decided, en.contact[s].started_at)
  BY DecideType, DecideWaits
<1>2. out = EmitSliderStepsIfReady(decided, s)
  BY DEF DecideAndSlide
<1> HIDE DEF decided, out
<1>3. Waits(decided, out)
  BY <1>1, <1>2, EmitWaits
<1>4. Waits(en, out) \/ Completes(en, out, en.contact[s].started_at)
  BY <1>1, <1>3, WaitsOn, CompletesOn
<1> QED BY <1>4 DEF out

\* The contact of the current slot is decided already, or only at the frame's end.
LEMMA SettleWaits ==
  ASSUME NEW en \in EngineState, IsDecided(en.contact[en.current_slot])
  PROVE  Waits(en, Settle(en))
<1> DEFINE s == en.current_slot
<1>1. s \in Slots
  BY DEF EngineState
<1>2. CASE en.contact[s].began_in_frame
  BY <1>2, WaitsItself DEF Settle
<1>3. CASE ~en.contact[s].began_in_frame
  <2>1. ~IsActive(en, s) \/ en.contact[s].ownership # "Unknown"
    BY <1>3 DEF IsDecided, IsActive
  <2>2. Settle(en) = EmitSliderStepsIfReady(en, s)
    BY <1>3, <2>1 DEF Settle, DecideAndSlide, DecideOwnershipIfReady
  <2> QED BY <1>1, <2>2, EmitWaits
<1> QED BY <1>2, <1>3

LEMMA FinalizeContactWaits ==
  ASSUME NEW en \in EngineState, PairInv(en), NEW s \in Slots
  PROVE  LET out == FinalizeContact(en, s)
         IN \/ Waits(en, out)
            \/ /\ en.contact[s].began_in_frame
               /\ Completes(en, out, en.contact[s].started_at)
<1> DEFINE c == en.contact[s]
           x == OrElse(c.current_x, en.memory[s].x)
           y == OrElse(c.current_y, en.memory[s].y)
           placed == [c EXCEPT !.current_x = x, !.current_y = y,
                               !.start_x = OrElse(@, x),
                               !.start_y = OrElse(@, y),
                               !.began_in_frame = FALSE]
           b == [en EXCEPT !.contact[s] = placed]
           out == FinalizeContact(en, s)
<1>1. CASE ~c.began_in_frame
  BY <1>1, WaitsItself DEF FinalizeContact
<1>2. CASE c.began_in_frame
  <2>1. out = DecideAndSlide(b, s)
    BY <1>2 DEF FinalizeContact
  <2>2. b \in EngineState /\ c \in Contact
    BY PlacedType, EngineFields
  <2>3. /\ placed.started_at = c.started_at /\ placed.ownership = c.ownership
        /\ placed.tap_sequence_match = c.tap_sequence_match
    <3> HIDE DEF c, x, y
    <3> QED BY <2>2 DEF Contact
  <2>4. /\ b.pending_tap = en.pending_tap /\ b.contact[s] = placed
        /\ \A r \in Slots \ {s} : b.contact[r] = en.contact[r]
    <3> HIDE DEF placed
    <3> QED BY DEF EngineState
  <2>5. c.ownership = "Unknown" => ~c.tap_sequence_match
    <3>1. en.pending_tap.gesture.zone \in Zones
      BY EngineFields DEF PendingTap, Gesture
    <3>2. MatchInv(en, s)
      BY DEF PairInv
    <3> QED BY <3>1, <3>2 DEF MatchInv, Zones
  <2> HIDE DEF placed, b, out
  <2>6. Waits(en, b)
    BY <2>3, <2>4, OneContactWaits
  <2>7. b.contact[s].ownership = "Unknown" => ~IsMatching(b, s)
    BY <2>3, <2>4, <2>5 DEF IsMatching
  <2>8. Waits(b, out) \/ Completes(b, out, c.started_at)
    <3>1. Waits(b, out) \/ Completes(b, out, b.contact[s].started_at)
      BY <2>1, <2>2, <2>7, DecideAndSlideWaits
    <3> QED BY <2>3, <2>4, <3>1
  <2>9. Waits(en, out) \/ Completes(en, out, c.started_at)
    BY <2>6, <2>8, WaitsOn, ThenCompletes
  <2> QED BY <1>2, <2>9 DEF out
<1> QED BY <1>1, <1>2

LEMMA EndSpoiledWaits ==
  ASSUME NEW en \in EngineState, NEW s \in Slots
  PROVE  Waits(en, EndSpoiledPair(en, s))
BY FlushWaits, WaitsItself DEF EndSpoiledPair

LEMMA PressButtonsWaits ==
  ASSUME NEW en \in EngineState, NEW codes \in SUBSET Buttons
  PROVE  Waits(en, PressButtons(en, codes))
<1> DEFINE interrupted == InterruptTapSequence(en)
           pressed == [interrupted EXCEPT !.pressed = @ \cup codes]
<1>1. interrupted \in EngineState /\ interrupted.pending_tap = NoTap
  BY InterruptType, WithoutPairingType, FlushView DEF InterruptTapSequence
<1> HIDE DEF interrupted
<1>2. PromoteClaimedContacts(pressed).pending_tap = NoTap
  BY <1>1 DEF PromoteClaimedContacts, EngineState
<1>3. \/ PressButtons(en, codes) = en
      \/ PressButtons(en, codes) = interrupted
      \/ PressButtons(en, codes) = PromoteClaimedContacts(pressed)
  BY DEF PressButtons, interrupted
<1> QED BY <1>1, <1>2, <1>3, WaitsItself DEF Waits

LEMMA PlaceWaits ==
  ASSUME NEW en \in EngineState, NEW s \in Slots, NEW v \in Int, NEW isX \in BOOLEAN
  PROVE  Waits(en, IF isX THEN PlaceX(en, s, v) ELSE PlaceY(en, s, v))
<1> DEFINE c == en.contact[s]
           m == IF isX THEN [c EXCEPT !.current_x = v, !.start_x = OrElse(c.start_x, v)]
                       ELSE [c EXCEPT !.current_y = v, !.start_y = OrElse(c.start_y, v)]
           out == IF isX THEN PlaceX(en, s, v) ELSE PlaceY(en, s, v)
           d == IF IsActive(en, s) THEN ObservePosition(en.cfg, m) ELSE c
<1>1. /\ m \in Contact /\ m.started_at = c.started_at
      /\ m.tap_sequence_match = c.tap_sequence_match
  <2>1. m \in Contact
    BY MovedType
  <2>2. \A k \in Contact : \A p, q :
          /\ LET j == [k EXCEPT !.current_x = p, !.start_x = q]
             IN j.started_at = k.started_at /\ j.tap_sequence_match = k.tap_sequence_match
          /\ LET j == [k EXCEPT !.current_y = p, !.start_y = q]
             IN j.started_at = k.started_at /\ j.tap_sequence_match = k.tap_sequence_match
    BY DEF Contact
  <2> QED BY <2>1, <2>2, EngineFields
<1>2. /\ out.contact[s] = d /\ \A r \in Slots \ {s} : out.contact[r] = en.contact[r]
      /\ out.pending_tap = en.pending_tap
  <2>0. en.contact \in [Slots -> Contact]
    BY DEF EngineState
  <2>1. CASE isX
    <3>1. out = [en EXCEPT !.memory[s].x = v, !.contact[s] = d]
      BY <2>1 DEF PlaceX
    <3> HIDE DEF d, out
    <3>2. out.contact = [en.contact EXCEPT ![s] = d] /\ out.pending_tap = en.pending_tap
      BY <3>1 DEF EngineState
    <3> QED BY <2>0, <3>2
  <2>2. CASE ~isX
    <3>1. out = [en EXCEPT !.memory[s].y = v, !.contact[s] = d]
      BY <2>2 DEF PlaceY
    <3> HIDE DEF d, out
    <3>2. out.contact = [en.contact EXCEPT ![s] = d] /\ out.pending_tap = en.pending_tap
      BY <3>1 DEF EngineState
    <3> QED BY <2>0, <3>2
  <2> QED BY <2>1, <2>2
<1>3. d.started_at = c.started_at /\ d.tap_sequence_match = c.tap_sequence_match
  <2>1. ASSUME NEW k \in Contact
        PROVE  LET o == ObservePosition(en.cfg, k)
               IN o.started_at = k.started_at /\ o.tap_sequence_match = k.tap_sequence_match
    BY DEF ObservePosition, Contact
  <2> HIDE DEF m
  <2> QED BY <1>1, <2>1
<1> HIDE DEF d, out
<1>4. Waits(en, out)
  BY <1>2, <1>3, OneContactWaits
<1> QED BY <1>4 DEF out

LEMMA BeginContactWaits ==
  ASSUME NEW en \in EngineState, PairInv(en), NEW s \in Slots, ~IsActive(en, s),
         NEW id \in TrackingIds, scan.contacts[s][id] \in FrameTool, stamp \in Int
  PROVE  Waits(en, BeginContact(en, s, id))
<1> DEFINE tool == scan.contacts[s][id]
           another == \E r \in Slots :
                        IsActive(en, r) /\ ~en.contact[r].gesture_rejected
           new == NewContact(id, stamp, ~another /\ ~IsPalm(tool))
           c == IF IsPalm(tool) THEN RejectGestures(new) ELSE new
           begun == [en EXCEPT
                       !.contact[s] = c,
                       !.held_events[s] = Append(@, TrackingIdEvent(id)),
                       !.memory[s].tool_type = tool.tool_type]
           out == BeginContact(en, s, id)
<1>1. begun \in EngineState
  <2> HIDE DEF another
  <2> QED BY BegunType
<1>2. ~c.tap_sequence_match
  BY DEF NewContact, RejectGestures
<1>3. ~en.contact[s].tap_sequence_match
  BY DEF PairInv, SlotInv, MatchInv, IsActive
<1> HIDE DEF c
<1>4. /\ begun.contact[s] = c /\ begun.pending_tap = en.pending_tap
      /\ \A r \in Slots \ {s} : begun.contact[r] = en.contact[r]
  BY DEF EngineState
<1>5. out = begun \/ out = FlushPendingTap(WithoutPairing(begun))
  BY DEF BeginContact, c
<1> HIDE DEF begun, out
<1>6. Waits(en, begun)
  BY <1>2, <1>3, <1>4, OneContactWaits
<1>7. Waits(en, out)
  BY <1>1, <1>5, <1>6, WithoutPairingType, FlushWaits
<1> QED BY <1>7 DEF out

\* A tap that starts a pair replaces the one that was owed.
LEMMA HandleClassifiedWaits ==
  ASSUME NEW en \in EngineState, NEW g \in Gesture, NEW c \in Contact, NEW t \in Int
  PROVE  LET out == HandleClassifiedGesture(en, g, c, t)
         IN /\ Waits(en, out) \/ Opens(out, t)
            /\ c.tap_sequence_match /\ HasPendingTap(en) => out.pending_tap = NoTap
<1> DEFINE x == OrElse(c.current_x, c.start_x)
           y == OrElse(c.current_y, c.start_y)
           flushed == FlushPendingTap(en)
           tap == [gesture |-> g, released_at |-> t, x |-> x, y |-> y,
                   emit_single |-> g.zone \in en.cfg.single_tap_zones]
           opened == [flushed EXCEPT !.pending_tap = tap]
           paired == [en EXCEPT !.pending_tap = NoTap]
           out == HandleClassifiedGesture(en, g, c, t)
<1>1. /\ flushed \in EngineState /\ flushed.pending_tap = NoTap /\ NoMatch(flushed)
  BY FlushType, FlushView
<1>2. paired.pending_tap = NoTap /\ paired.contact = en.contact
  BY DEF EngineState
<1>3. /\ opened.pending_tap = tap /\ opened.contact = flushed.contact
      /\ tap.released_at = t
  <2> HIDE DEF flushed
  <2> QED BY <1>1 DEF EngineState
<1>4. \A b \in EngineState : \A k :
        PushGesture(b, k).pending_tap = b.pending_tap
  BY DEF PushGesture, EngineState
<1>5. PushGesture(paired, [g EXCEPT !.direction = "DoubleTap"]).pending_tap = NoTap
  <2>1. "pending_tap" \in DOMAIN paired /\ paired.pending_tap = NoTap
    BY DEF EngineState
  <2> HIDE DEF paired
  <2> QED BY <2>1 DEF PushGesture
<1>6. \/ out = PushGesture(flushed, g)
      \/ out = PushGesture(paired, [g EXCEPT !.direction = "DoubleTap"])
      \/ out = flushed
      \/ out = PushGesture(en, g) /\ ~(c.tap_sequence_match /\ HasPendingTap(en))
      \/ /\ out = opened /\ t # None
         /\ ~(c.tap_sequence_match /\ HasPendingTap(en))
  BY DEF HandleClassifiedGesture
<1> HIDE DEF flushed, paired, opened, tap, out
<1>7. Waits(en, PushGesture(en, g))
  BY PushGestureWaits
<1>8. t # None => Opens(opened, t)
  BY <1>1, <1>3 DEF Opens, NoMatch
<1>9. /\ Waits(en, out) \/ Opens(out, t)
      /\ c.tap_sequence_match /\ HasPendingTap(en) => out.pending_tap = NoTap
  BY <1>1, <1>4, <1>5, <1>6, <1>7, <1>8 DEF Waits
<1> QED BY <1>9 DEF out

LEMMA ReleaseClaimedWaits ==
  ASSUME NEW en \in EngineState, NEW s \in Slots, NEW c \in Contact,
         IsClaimed(c), NEW t \in Int
  PROVE  LET out == ReleaseClaimed(en, s, c, t)
         IN /\ Waits(en, out) \/ Opens(out, t)
            /\ c.tap_sequence_match /\ HasPendingTap(en) => out.pending_tap = NoTap
<1> DEFINE direction == ClassifyGesture(en.cfg, c, t)
           g == [zone |-> c.ownership, direction |-> direction, slot |-> s,
                 tracking_id |-> c.tracking_id]
           flushed == FlushPendingTap(en)
           handled == HandleClassifiedGesture(en, g, c, t)
           out == ReleaseClaimed(en, s, c, t)
<1>1. direction # "None" => g \in Gesture
  <2>1. direction # "None" => direction \in Directions \cup {"Tap", "DoubleTap"}
    BY DirectionType
  <2>2. c.ownership \in Zones /\ c.tracking_id \in Int /\ s \in Int
    BY ContactFields, SlotsAssumption DEF IsClaimed, Slots
  <2> HIDE DEF direction
  <2> QED BY <2>1, <2>2 DEF Gesture
<1> HIDE DEF g
<1>2. direction # "None" =>
        /\ Waits(en, handled) \/ Opens(handled, t)
        /\ c.tap_sequence_match /\ HasPendingTap(en) => handled.pending_tap = NoTap
  BY <1>1, HandleClassifiedWaits
<1>3. Waits(en, flushed) /\ flushed.pending_tap = NoTap /\ Waits(en, en)
  BY FlushWaits, FlushView, WaitsItself
<1>4. \/ out = flushed
      \/ out = en /\ ~HasPendingTap(en)
      \/ out = handled /\ direction # "None"
  BY DEF ReleaseClaimed, g
<1> HIDE DEF flushed, handled, out, direction
<1>5. /\ Waits(en, out) \/ Opens(out, t)
      /\ c.tap_sequence_match /\ HasPendingTap(en) => out.pending_tap = NoTap
  BY <1>2, <1>3, <1>4
<1> QED BY <1>5 DEF out

\* A lift ends the pair, or leaves the pending tap as it is, or makes a new one.
LEMMA ReleaseWaits ==
  ASSUME NEW en \in EngineState, PairInv(en), NEW event \in Event, NEW t \in Int
  PROVE  LET out == ReleaseCurrentSlot(en, event, t)
         IN Waits(en, out) \/ Opens(out, t)
<1> DEFINE out == ReleaseCurrentSlot(en, event, t)
           s == en.current_slot
           c == en.contact[s]
           lifted == [en EXCEPT !.contact[s] = NoContact, !.held_events[s] = <<>>]
<1>1. s \in Slots /\ c \in Contact /\ <<event>> \in Seq(Event)
  <2>1. s \in Slots
    BY DEF EngineState
  <2> QED BY <2>1, EngineFields
<1>2. /\ lifted \in EngineState /\ lifted.pending_tap = en.pending_tap
      /\ ~c.tap_sequence_match => Waits(en, lifted)
  <2>1. lifted \in EngineState
    BY <1>1, LiftedType
  <2>2. /\ lifted.pending_tap = en.pending_tap /\ lifted.contact[s] = NoContact
        /\ \A r \in Slots \ {s} : lifted.contact[r] = en.contact[r]
    BY DEF EngineState
  <2> HIDE DEF lifted
  <2>3. ~c.tap_sequence_match => Waits(en, lifted)
    BY <1>1, <2>2, NoContactFields, OneContactWaits
  <2> QED BY <2>1, <2>2, <2>3
<1>3. c.tap_sequence_match => /\ HasPendingTap(en) /\ IsClaimed(c)
                              /\ ~c.gesture_rejected
  <2>1. en.pending_tap.gesture.zone \in Zones
    BY <1>1, EngineFields DEF PendingTap, Gesture
  <2> QED BY <1>1, <2>1 DEF PairInv, SlotInv, MatchInv, IsClaimed
<1>4. \/ /\ ~IsActive(en, s)
         /\ out = [en EXCEPT !.held_events[s] = Append(en.held_events[s], event)]
      \/ c.ownership = "Passthrough" /\ out = PushPassthrough(lifted, s, <<event>>)
      \/ IsClaimed(c) /\ ~c.gesture_rejected /\ out = ReleaseClaimed(lifted, s, c, t)
      \/ ~(IsClaimed(c) /\ ~c.gesture_rejected) /\ out = lifted
  BY DEF ReleaseCurrentSlot
<1> HIDE DEF lifted, out
<1>5. CASE out = [en EXCEPT !.held_events[s] = Append(en.held_events[s], event)]
  <2>1. Waits(en, out)
    <3> HIDE DEF s
    <3> QED BY <1>1, <1>5, HoldWaits
  <2> QED BY <2>1 DEF out
<1>6. CASE c.ownership = "Passthrough" /\ out = PushPassthrough(lifted, s, <<event>>)
  <2>1. ~c.tap_sequence_match
    BY <1>3, <1>6 DEF IsClaimed, Zones
  <2>2. Waits(lifted, out)
    BY <1>1, <1>2, <1>6, PushPassthroughWaits
  <2>3. Waits(en, out)
    BY <1>2, <2>1, <2>2, WaitsOn
  <2> QED BY <2>3 DEF out
<1>7. CASE /\ IsClaimed(c) /\ ~c.gesture_rejected
           /\ out = ReleaseClaimed(lifted, s, c, t)
  <2>1. /\ Waits(lifted, out) \/ Opens(out, t)
        /\ c.tap_sequence_match /\ HasPendingTap(lifted) => out.pending_tap = NoTap
    <3> HIDE DEF c
    <3> QED BY <1>1, <1>2, <1>7, ReleaseClaimedWaits
  <2>2. CASE c.tap_sequence_match
    <3>1. Waits(en, out)
      BY <1>2, <1>3, <2>1, <2>2 DEF HasPendingTap, Waits
    <3> QED BY <3>1 DEF out
  <2>3. CASE ~c.tap_sequence_match
    <3>1. Waits(en, out) \/ Opens(out, t)
      BY <1>2, <2>1, <2>3, WaitsOn
    <3> QED BY <3>1 DEF out
  <2> QED BY <2>2, <2>3
<1>8. CASE ~(IsClaimed(c) /\ ~c.gesture_rejected) /\ out = lifted
  <2>1. Waits(en, out)
    BY <1>2, <1>3, <1>8
  <2> QED BY <2>1 DEF out
<1> QED BY <1>4, <1>5, <1>6, <1>7, <1>8

\* What a frame of time t can make of what is owed, if it can touch and lift.
Outcomes(o, t) == Rec!OwedAfter(o, {"Down", "Up"}, t)

LEMMA TimeoutType ==
  ASSUME NEW en \in EngineState
  PROVE  TapTimeout \in Int
<1>1. en.cfg \in Configs /\ en.cfg.double_tap_timeout = TapTimeout
  BY ProfilesAssumption DEF EngineState
<1>2. en.cfg \in ConfigType
  BY <1>1, ConfigsAssumption
<1> QED BY <1>1, <1>2 DEF ConfigType

LEMMA NothingOwed ==
  ASSUME NEW en, ~HasPendingTap(en)
  PROVE  OwedBy(en) = Rec!NoOwed
BY DEF OwedBy, Rec!NoOwed, Rec!None, None

\* A tap that waits alone is due at its timeout.
LEMMA OwedAlone ==
  ASSUME NEW en \in EngineState, HasPendingTap(en), NoMatch(en)
  PROVE  LET first == en.pending_tap.released_at + TapTimeout
         IN OwedBy(en) = [first |-> first, due |-> first]
<1>1. en.cfg.double_tap_timeout = TapTimeout
  BY ProfilesAssumption DEF EngineState
<1>2. ~\E s \in Slots : IsMatching(en, s)
  BY DEF NoMatch, IsMatching
<1> QED BY <1>1, <1>2 DEF OwedBy, NextDeadline

\* One with a second tap waits for that to end.
LEMMA OwedPaired ==
  ASSUME NEW en \in EngineState, PairInv(en), NEW s \in Slots, IsMatching(en, s)
  PROVE  /\ HasPendingTap(en)
         /\ OwedBy(en) = [first |-> en.pending_tap.released_at + TapTimeout,
                          due |-> en.contact[s].started_at + TapDuration]
<1> DEFINE chosen == CHOOSE r \in Slots :
                       /\ IsMatching(en, r)
                       /\ \A q \in Slots : IsMatching(en, q) => r <= q
<1>1. HasPendingTap(en) /\ en.cfg.tap_max_duration = TapDuration
  BY ProfilesAssumption DEF PairInv, MatchInv, IsMatching, EngineState
<1>2. \A r \in Slots : IsMatching(en, r) => r = s
  BY OneMatch DEF IsMatching
<1>3. s <= s
  BY SlotsAssumption DEF Slots
<1>4. chosen \in Slots /\ IsMatching(en, chosen)
  BY <1>2, <1>3
<1>5. chosen = s
  BY <1>2, <1>4
<1>6. NextDeadline(en) = en.contact[chosen].started_at + en.cfg.tap_max_duration
  BY DEF NextDeadline
<1> HIDE DEF chosen
<1> QED BY <1>1, <1>5, <1>6 DEF OwedBy

\* Waiting on changes nothing of what is owed.
LEMMA WaitsOwed ==
  ASSUME NEW en \in EngineState, PairInv(en), NEW out \in EngineState, PairInv(out),
         Waits(en, out)
  PROVE  OwedBy(out) \in {OwedBy(en), Rec!NoOwed}
<1>1. CASE ~HasPendingTap(out)
  BY <1>1, NothingOwed
<1>2. CASE HasPendingTap(out)
  <2>1. out.pending_tap = en.pending_tap /\ HasPendingTap(en)
    BY <1>2, NoPending DEF Waits, HasPendingTap
  <2>2. \A s \in Slots : /\ IsMatching(out, s) <=> IsMatching(en, s)
                         /\ IsMatching(en, s) =>
                              out.contact[s].started_at = en.contact[s].started_at
    BY <1>2, NoPending DEF Waits, HasPendingTap
  <2>3. CASE \E s \in Slots : IsMatching(en, s)
    BY <2>1, <2>2, <2>3, OwedPaired
  <2>4. CASE ~\E s \in Slots : IsMatching(en, s)
    <3>1. NoMatch(en) /\ NoMatch(out)
      BY <2>2, <2>4 DEF NoMatch, IsMatching
    <3> QED BY <1>2, <2>1, <3>1, OwedAlone
  <2> QED BY <2>3, <2>4
<1> QED BY <1>1, <1>2

\* A second tap in time moves the date, not the deadline of the first.
LEMMA CompletesOwed ==
  ASSUME NEW en \in EngineState, PairInv(en), NEW out \in EngineState, PairInv(out),
         NEW t \in Int, Completes(en, out, t)
  PROVE  /\ OwedBy(out) = Rec!Paired(OwedBy(en), t)
         /\ t < OwedBy(en).first
<1> DEFINE first == en.pending_tap.released_at + TapTimeout
<1>1. OwedBy(out) = [first |-> first, due |-> t + TapDuration]
  BY OwedPaired DEF Completes
<1>2. OwedBy(en) = [first |-> first, due |-> NextDeadline(en)]
  BY DEF OwedBy, Completes
<1>3. t < first
  <2>1. en.pending_tap.released_at \in Int
    BY EngineFields DEF PendingTap, EngineState
  <2> QED BY <2>1, TimeoutType DEF Completes
<1> HIDE DEF first
<1> QED BY <1>1, <1>2, <1>3 DEF Rec!Paired

LEMMA OpensOwed ==
  ASSUME NEW out \in EngineState, NEW t, Opens(out, t)
  PROVE  OwedBy(out) = Rec!Owe(t)
BY OwedAlone DEF Opens, HasPendingTap, Rec!Owe

-----------------------------------------------------------------------------
(* The outcomes of a frame.                                                *)

LEMMA OwedStays ==
  ASSUME NEW o, NEW t, NEW x \in Outcomes(o, t)
  PROVE  /\ Rec!NoOwed \in Outcomes(o, t)
         /\ Rec!Owe(t) \in Outcomes(o, t)
BY DEF Outcomes, Rec!OwedAfter

LEMMA OwedCanPair ==
  ASSUME NEW o, NEW t, NEW x \in Outcomes(o, t), t < x.first
  PROVE  Rec!Paired(x, t) \in Outcomes(o, t)
<1> DEFINE kept == {Rec!Expired(o, t), Rec!Expired(Rec!Unpaired(o), t), Rec!NoOwed, Rec!Owe(t)}
<1>1. Outcomes(o, t) = kept \cup {Rec!Paired(k, t) : k \in {z \in kept : t < z.first}}
  BY DEF Outcomes, Rec!OwedAfter
<1> HIDE DEF kept
<1>2. CASE x \in kept
  BY <1>1, <1>2
<1>3. ASSUME NEW k \in kept, x = Rec!Paired(k, t), t < k.first
      PROVE  Rec!Paired(x, t) \in Outcomes(o, t)
  <2>1. Rec!Paired(x, t) = x
    BY <1>3 DEF Rec!Paired
  <2> QED BY <2>1
<1> QED BY <1>1, <1>2, <1>3

\* One step of a frame stays among its outcomes.
LEMMA OutcomesOn ==
  ASSUME NEW en \in EngineState, PairInv(en), NEW out \in EngineState, PairInv(out),
         NEW o, NEW t \in Nat, OwedBy(en) \in Outcomes(o, t),
         Waits(en, out) \/ Completes(en, out, t) \/ Opens(out, t)
  PROVE  OwedBy(out) \in Outcomes(o, t)
<1>1. CASE Waits(en, out)
  BY <1>1, WaitsOwed, OwedStays
<1>2. CASE Completes(en, out, t)
  BY <1>2, CompletesOwed, OwedCanPair
<1>3. CASE Opens(out, t)
  BY <1>3, OpensOwed, OwedStays
<1> QED BY <1>1, <1>2, <1>3

\* A palm is no second tap.
LEMMA RejectPalmsOwed ==
  ASSUME NEW en \in EngineState, PairInv(en)
  PROVE  OwedBy(RejectPalms(en)) \in {OwedBy(en), Rec!Unpaired(OwedBy(en))}
<1> DEFINE out == RejectPalms(en)
           palm(s) == LET c == en.contact[s]
                      IN c.tracking_id # None /\ IsPalm(scan.contacts[s][c.tracking_id])
<1>1. /\ out.pending_tap = en.pending_tap
      /\ out.contact = [s \in Slots |-> IF palm(s) THEN RejectGestures(en.contact[s])
                                       ELSE en.contact[s]]
  BY DEF RejectPalms, EngineState
<1>2. \A c \in Contact : ~RejectGestures(c).tap_sequence_match
  BY DEF RejectGestures, Contact
<1>3. \A s \in Slots : \/ out.contact[s] = en.contact[s]
                       \/ ~IsMatching(out, s)
  <2> HIDE DEF out, palm
  <2> TAKE s \in Slots
  <2>1. en.contact[s] \in Contact
    BY EngineFields
  <2> QED BY <1>1, <1>2, <2>1 DEF IsMatching
<1>4. out \in EngineState /\ PairInv(out)
  BY RejectPalmsType, RejectPalmsPair
<1> HIDE DEF out
<1>5. CASE ~HasPendingTap(en)
  <2>1. OwedBy(out) = OwedBy(en)
    BY <1>1, <1>5, NothingOwed DEF HasPendingTap
  <2> QED BY <2>1 DEF out
<1>6. CASE HasPendingTap(en) /\ NoMatch(out)
  <2>1. /\ HasPendingTap(out)
        /\ out.pending_tap.released_at = en.pending_tap.released_at
    BY <1>1, <1>6 DEF HasPendingTap
  <2>2. OwedBy(out) = Rec!Unpaired(OwedBy(en))
    BY <1>4, <1>6, <2>1, OwedAlone DEF OwedBy, Rec!Unpaired
  <2> QED BY <2>2 DEF out
<1>7. ASSUME NEW s \in Slots, IsMatching(out, s) PROVE OwedBy(out) = OwedBy(en)
  <2>1. out.contact[s] = en.contact[s] /\ IsMatching(en, s)
    BY <1>3, <1>7 DEF IsMatching
  <2> QED BY <1>1, <1>4, <1>7, <2>1, OwedPaired
<1>8. CASE ~NoMatch(out)
  <2>1. OwedBy(out) = OwedBy(en)
    BY <1>7, <1>8 DEF NoMatch, IsMatching
  <2> QED BY <2>1 DEF out
<1> QED BY <1>5, <1>6, <1>8

\* What falls due is flushed.
LEMMA ExpireOwed ==
  ASSUME NEW en \in EngineState, PairInv(en), NEW t \in Nat,
         NEW o, OwedBy(en) \in {o, Rec!Unpaired(o), Rec!NoOwed}
  PROVE  OwedBy(ExpirePendingTap(en, t)) \in Outcomes(o, t)
<1>1. /\ Rec!NoOwed \in Outcomes(o, t)
      /\ Rec!Expired(o, t) \in Outcomes(o, t)
      /\ Rec!Expired(Rec!Unpaired(o), t) \in Outcomes(o, t)
  BY DEF Outcomes, Rec!OwedAfter
<1>2. CASE HasPendingTap(en) /\ t >= NextDeadline(en)
  <2>1. ExpirePendingTap(en, t) = FlushPendingTap(en)
    BY <1>2 DEF ExpirePendingTap
  <2>2. ~HasPendingTap(FlushPendingTap(en))
    BY FlushView, NoPending DEF HasPendingTap
  <2>3. OwedBy(FlushPendingTap(en)) = Rec!NoOwed
    BY <2>2, NothingOwed
  <2> QED BY <1>1, <2>1, <2>3
<1>3. CASE ~(HasPendingTap(en) /\ t >= NextDeadline(en))
  <2>1. ExpirePendingTap(en, t) = en
    BY <1>3 DEF ExpirePendingTap
  <2>2. ~(OwedBy(en).due # Rec!None /\ t >= OwedBy(en).due)
    BY <1>3 DEF OwedBy, None, Rec!None
  <2>3. Rec!Expired(OwedBy(en), t) = OwedBy(en)
    BY <2>2 DEF Rec!Expired
  <2> QED BY <1>1, <2>1, <2>3
<1> QED BY <1>2, <1>3

-----------------------------------------------------------------------------
(* What a frame's end decides began in that frame.                         *)

FreshContact(c) == IsDecided(c) /\ (c.began_in_frame => c.started_at = stamp)

FreshInv ==
  /\ phase = "scan" => ~e.resync_required
  /\ phase = "events" => \A s \in Slots : FreshContact(e.contact[s])
  /\ phase = "finalize" =>
       \A s \in Slots :
         LET c == e.contact[s]  IN c.began_in_frame => c.started_at = stamp

LEMMA KeptFresh ==
  ASSUME NEW en, NEW c, NEW d, ContactKept(en, c, d), FreshContact(c)
  PROVE  FreshContact(d)
BY KeptDecided DEF FreshContact, ContactKept, SameFinger

LEMMA NoContactFresh ==
  ASSUME NEW d, SameFinger(NoContact, d)
  PROVE  d.tracking_id = None /\ FreshContact(d)
BY DEF SameFinger, FreshContact, IsDecided, NoContact, NewContact

LEMMA MovedFresh ==
  ASSUME NEW c, NEW m, NEW isX, NEW v, MovedTo(c, m, isX, v),
         m.ownership = c.ownership, FreshContact(c)
  PROVE  FreshContact(m)
BY DEF MovedTo, FreshContact, IsDecided

LEMMA EventFresh ==
  ASSUME FreshInv, phase = "events", phase' = "events", stamp' = stamp,
         NEW s \in Slots,
         \A r \in Slots \ {s} : ContactKept(e, e.contact[r], e'.contact[r]),
         \/ ContactKept(e, e.contact[s], e'.contact[s])
         \/ FreshContact(e'.contact[s])
  PROVE  FreshInv'
<1>1. ASSUME NEW r \in Slots PROVE FreshContact(e'.contact[r])
  BY KeptFresh DEF FreshInv
<1> QED BY <1>1 DEF FreshInv, FreshContact

LEMMA StepFresh ==
  ASSUME TypeInv, PadInv, FreshInv, [Next]_vars
  PROVE  FreshInv'
<1>u. CASE UNCHANGED vars
  BY <1>u DEF vars, FreshInv, FreshContact
<1> SUFFICES ASSUME Next PROVE FreshInv'
  BY <1>u
<1>f. CASE Fail
  BY <1>f DEF Fail, FreshInv
<1>i. e.current_slot \in Slots /\ stamp \in Int
  BY InHand
<1>1. ASSUME NEW f \in Frames \cup OddFrames, NEW t \in Stamps, StartFrame(f, t)
      PROVE  FreshInv'
  <2>1. /\ phase = "idle" /\ phase' = "scan"
        /\ e'.resync_required = e.resync_required
    BY <1>1, StartView DEF StartFrame
  <2> QED BY <2>1 DEF PadInv, BetweenFrames, FreshInv
<1>2. CASE ScanEvent /\ ~Fail
  <2>1. e' = e /\ phase = "scan" /\ phase' = "scan"
    BY <1>2 DEF ScanEvent
  <2> QED BY <2>1 DEF FreshInv
<1>3. CASE BeginEvents
  <2>1. /\ phase = "scan" /\ phase' = "events" /\ SameSettings(e, e')
        /\ \A s \in Slots : /\ SamePlace(e.contact[s], e'.contact[s])
                            /\ SameOwner(e.contact[s], e'.contact[s])
    BY <1>3, BeginEventsView DEF BeginEvents
  <2>2. ASSUME NEW s \in Slots PROVE FreshContact(e'.contact[s])
    <3>1. IsDecided(e.contact[s]) /\ ~e.contact[s].began_in_frame
      BY <2>1 DEF PadInv, ContactInv, InSync, FreshInv
    <3>2. SamePlace(e.contact[s], e'.contact[s]) /\ SameOwner(e.contact[s], e'.contact[s])
      BY <2>1
    <3> QED BY <3>1, <3>2 DEF FreshContact, IsDecided, SamePlace, SameOwner
  <2>3. stamp' = stamp
    BY <1>3 DEF BeginEvents
  <2> QED BY <2>1, <2>2, <2>3 DEF FreshInv, FreshContact
<1>4. CASE SlotSwitch /\ ~Fail
  <2>1. /\ phase = "events" /\ phase' = "events" /\ stamp' = stamp
        /\ CurrentEvent.value \in Slots
    BY <1>4 DEF SlotSwitch, AtEvent, Processed
  <2>2. \A s \in Slots : ContactKept(e, e.contact[s], e'.contact[s])
    BY <1>4, <2>1, SwitchView
  <2> QED BY <1>i, <2>1, <2>2, EventFresh
<1>5. CASE ContactDown /\ ~Fail
  <2>1. /\ phase = "events" /\ phase' = "events" /\ stamp' = stamp
        /\ ~IsActive(e, e.current_slot)
    BY <1>5 DEF ContactDown, AtEvent, Processed
  <2> DEFINE d == e'.contact[e.current_slot]
  <2>2. /\ \A r \in Slots : r # e.current_slot => ContactKept(e, e.contact[r], e'.contact[r])
        /\ d.began_in_frame /\ d.started_at = stamp
    BY <1>5, <2>1, DownView
  <2>3. FreshContact(d)
    BY <2>2 DEF FreshContact, IsDecided
  <2> QED BY <1>i, <2>1, <2>2, <2>3, EventFresh
<1>6. CASE ContactUp
  <2>1. phase = "events" /\ phase' = "events" /\ stamp' = stamp
    BY <1>6 DEF ContactUp, AtEvent, Processed
  <2> DEFINE s == e.current_slot
             d == e'.contact[s]
  <2>2. /\ \A r \in Slots \ {s} : ContactKept(e, e.contact[r], e'.contact[r])
        /\ ~IsActive(e, s) => ContactKept(e, e.contact[s], d)
        /\ IsActive(e, s) => SameFinger(NoContact, d)
    BY <1>6, UpView
  <2>3. ContactKept(e, e.contact[s], d) \/ FreshContact(d)
    BY <2>2, NoContactFresh
  <2> QED BY <1>i, <2>1, <2>2, <2>3, EventFresh
<1>7. CASE ToolType
  <2>1. phase = "events" /\ phase' = "events" /\ stamp' = stamp
    BY <1>7 DEF ToolType, AtEvent, Processed
  <2>2. \A s \in Slots : ContactKept(e, e.contact[s], e'.contact[s])
    BY <1>7, ToolView
  <2> QED BY <1>i, <2>1, <2>2, EventFresh
<1>8. CASE Position
  <2>1. phase = "events" /\ phase' = "events" /\ stamp' = stamp
    BY <1>8 DEF Position, AtEvent, Processed
  <2> DEFINE s == e.current_slot
             d == e'.contact[s]
  <2>2. /\ \A r \in Slots \ {s} : ContactKept(e, e.contact[r], e'.contact[r])
        /\ ~IsActive(e, s) => ContactKept(e, e.contact[s], d)
        /\ IsActive(e, s) =>
             \E m \in Contact :
               /\ MovedTo(e.contact[s], m, CurrentEvent.kind = "X", CurrentEvent.value)
               /\ m.ownership = e.contact[s].ownership /\ ContactKept(e, m, d)
    BY <1>8, PositionView
  <2>3. FreshContact(e.contact[s])
    BY <1>i, <2>1 DEF FreshInv
  <2> HIDE DEF d
  <2>4. ContactKept(e, e.contact[s], d) \/ FreshContact(d)
    BY <2>2, <2>3, MovedFresh, KeptFresh
  <2> QED BY <1>i, <2>1, <2>2, <2>4, EventFresh DEF d
<1>9. CASE SynDropped
  <2>1. phase = "events" /\ phase' = "events" /\ stamp' = stamp
    BY <1>9 DEF SynDropped, AtEvent, Processed
  <2>2. \A s \in Slots : FreshContact(e'.contact[s])
    BY <1>9, DroppedView, NoContactFresh
  <2> QED BY <2>1, <2>2 DEF FreshInv, FreshContact
<1>10. CASE EventsDone
  <2>1. e' = e /\ stamp' = stamp /\ phase = "events" /\ phase' = "finalize"
    BY <1>10 DEF EventsDone
  <2> QED BY <2>1 DEF FreshInv, FreshContact
<1>11. CASE FinalizeSlot
  <2>1. stamp' = stamp /\ phase = "finalize" /\ phase' = "finalize"
    BY <1>11 DEF FinalizeSlot
  <2>2. /\ \A r \in Slots \ {at} : ContactKept(e, e.contact[r], e'.contact[r])
        /\ ~e.contact[at].began_in_frame => e' = e
        /\ e.contact[at].began_in_frame => ~e'.contact[at].began_in_frame
    BY <1>11, FinalizeView DEF PlacedFrom, ContactKept, SameFinger
  <2>3. ASSUME NEW r \in Slots, e'.contact[r].began_in_frame
        PROVE  e'.contact[r].started_at = stamp
    <3>1. r = at => e' = e
      BY <2>2, <2>3
    <3>2. e.contact[r].began_in_frame => e.contact[r].started_at = stamp
      BY <2>1 DEF FreshInv
    <3> QED BY <2>2, <2>3, <3>1, <3>2 DEF ContactKept, SameFinger
  <2> QED BY <2>1, <2>3 DEF FreshInv
<1>12. CASE EndFrame
  BY <1>12 DEF EndFrame, FreshInv
<1>13. CASE AdvanceTime
  <2>1. phase = "idle" /\ phase' = "finalize" /\ Kept(e, e')
    BY <1>13, AdvanceView DEF AdvanceTime, Output
  <2>2. \A s \in Slots : ~e'.contact[s].began_in_frame
    BY <2>1 DEF PadInv, ContactInv, Kept, ContactKept, SameFinger
  <2> QED BY <2>1, <2>2 DEF FreshInv
<1>14. ASSUME NEW snapshot \in Snapshots, Resync(snapshot) PROVE FreshInv'
  <2>1. phase' = "finalize"
    BY <1>14 DEF Resync, Output
  <2>2. \A s \in Slots : ~e'.contact[s].began_in_frame
    BY <1>14, ResyncView
  <2> QED BY <2>1, <2>2 DEF FreshInv
<1>15. ASSUME NEW cfg \in Configs, Reload(cfg) PROVE FreshInv'
  BY <1>15 DEF Reload, FreshInv
<1> QED
  BY <1>f, <1>1, <1>2, <1>3, <1>4, <1>5, <1>6, <1>7, <1>8, <1>9, <1>10, <1>11,
     <1>12, <1>13, <1>14, <1>15 DEF Next, FrameStep

\* What a step of a frame can do to the tap.
Moves(en, out, t) == Waits(en, out) \/ Completes(en, out, t) \/ Opens(out, t)

LEMMA SettledMoves ==
  ASSUME NEW en, NEW b \in EngineState, NEW t, Waits(en, b) \/ Opens(b, t),
         IsDecided(b.contact[b.current_slot])
  PROVE  Moves(en, Settle(b), t)
<1>1. Waits(b, Settle(b))
  BY SettleWaits
<1>2. CASE Waits(en, b)
  BY <1>1, <1>2, WaitsOn DEF Moves
<1>3. CASE Opens(b, t)
  BY <1>1, <1>3 DEF Waits, Opens, NoMatch, IsMatching, Moves
<1> QED BY <1>2, <1>3

\* The contact that is settled is the one the frame's step leaves there.
LEMMA SettledDecides ==
  ASSUME NEW b \in EngineState, NEW s \in Slots, b.current_slot = s,
         LET d == Settle(b).contact[s]
         IN d.tracking_id = None \/ d.began_in_frame
  PROVE  IsDecided(b.contact[b.current_slot])
<1>1. ContactKept(b, b.contact[s], Settle(b).contact[s])
  BY SettleKept DEF Kept
<1> QED BY <1>1 DEF ContactKept, SameFinger, IsDecided

LEMMA RoutedDecides ==
  ASSUME NEW b \in EngineState, NEW ev \in Event, IsDecided(b.contact[b.current_slot])
  PROVE  LET routed == RouteEvent(b, ev)
         IN routed \in EngineState /\ IsDecided(routed.contact[routed.current_slot])
<1>1. Kept(b, RouteEvent(b, ev)) /\ b.current_slot \in Slots
  BY RouteEventKept DEF EngineState
<1> QED BY <1>1, KeptDecided DEF Kept, SameSettings

LEMMA RoutedMoves ==
  ASSUME NEW en, NEW b \in EngineState, NEW ev \in Event, NEW t, Waits(en, b),
         IsDecided(b.contact[b.current_slot])
  PROVE  Moves(en, Settle(RouteEvent(b, ev)), t)
<1>1. Waits(en, RouteEvent(b, ev))
  BY RouteEventWaits, WaitsOn
<1> QED BY <1>1, RoutedDecides, SettledMoves

LEMMA SwitchMoves ==
  ASSUME TypeInv, FreshInv, SlotSwitch, ~Fail
  PROVE  Moves(e, e', stamp)
<1> DEFINE b == [e EXCEPT !.current_slot = CurrentEvent.value]
<1>1. /\ CurrentEvent.value \in Slots /\ phase = "events"
      /\ e' = Settle(RouteEvent(b, CurrentEvent))
  BY DEF SlotSwitch, AtEvent, Processed
<1>2. CurrentEvent \in Event
  BY EventInHand DEF SlotSwitch
<1>3. /\ b \in EngineState /\ b.current_slot = CurrentEvent.value
      /\ b.contact = e.contact /\ b.pending_tap = e.pending_tap
  BY <1>1, InHand DEF EngineState
<1> HIDE DEF b
<1>4. IsDecided(b.contact[b.current_slot]) /\ Waits(e, b)
  BY <1>1, <1>3, WaitsItself DEF FreshInv, FreshContact
<1> QED BY <1>1, <1>2, <1>3, <1>4, RoutedMoves

LEMMA DownMoves ==
  ASSUME TypeInv, PairInv(e), ContactDown, ~Fail
  PROVE  Moves(e, e', stamp)
<1> DEFINE s == e.current_slot
           id == CurrentEvent.value
           b == BeginContact(e, s, id)
<1>1. ~IsActive(e, s) /\ e' = Settle(b)
  BY DEF ContactDown, Processed
<1>2. /\ e \in EngineState /\ s \in Slots /\ stamp \in Int
      /\ \A k \in TrackingIds : scan.contacts[s][k] \in FrameTool
  BY InHand
<1>3. e'.current_slot = s /\ id \in TrackingIds /\ e'.contact[s].began_in_frame
  BY <1>1, DownView
<1>4. b \in EngineState /\ Waits(e, b)
  BY <1>1, <1>2, <1>3, BeginContactType, BeginContactWaits
<1> HIDE DEF b
<1>5. b.current_slot = s
  BY <1>1, <1>3, <1>4, SettleKept DEF Kept, SameSettings
<1>6. IsDecided(b.contact[b.current_slot])
  BY <1>1, <1>2, <1>3, <1>4, <1>5, SettledDecides
<1> QED BY <1>1, <1>4, <1>6, SettledMoves

LEMMA UpMoves ==
  ASSUME TypeInv, PairInv(e), ContactUp
  PROVE  Moves(e, e', stamp)
<1> DEFINE s == e.current_slot
           d == e'.contact[s]
           b == ReleaseCurrentSlot(e, CurrentEvent, stamp)
<1>1. e' = Settle(b)
  BY DEF ContactUp, Processed
<1>2. e \in EngineState /\ s \in Slots /\ stamp \in Int
  BY InHand
<1>3. CurrentEvent \in Event /\ CurrentEvent.kind = "TrackingId"
  BY EventInHand DEF ContactUp
<1>4. e'.current_slot = s /\ d.tracking_id = None
  <2>1. /\ SameSettings(e, e')
        /\ ~IsActive(e, s) => ContactKept(e, e.contact[s], d)
        /\ IsActive(e, s) => SameFinger(NoContact, d)
    BY UpView
  <2> HIDE DEF d
  <2> QED
    BY <2>1, NoContactFresh DEF SameSettings, IsActive, ContactKept, SameFinger
<1>5. b \in EngineState /\ (Waits(e, b) \/ Opens(b, stamp))
  BY <1>2, <1>3, ReleaseCurrentType, ReleaseWaits
<1> HIDE DEF b
<1>6. b.current_slot = s
  BY <1>1, <1>4, <1>5, SettleKept DEF Kept, SameSettings
<1>7. IsDecided(b.contact[b.current_slot])
  BY <1>1, <1>2, <1>4, <1>5, <1>6, SettledDecides
<1> QED BY <1>1, <1>5, <1>7, SettledMoves

LEMMA ToolMoves ==
  ASSUME TypeInv, FreshInv, ToolType
  PROVE  Moves(e, e', stamp)
<1> DEFINE s == e.current_slot
           b == [e EXCEPT !.memory[s].tool_type = CurrentEvent.value]
<1>1. /\ phase = "events"
      /\ e' = e \/ e' = Settle(RouteEvent(b, CurrentEvent))
  BY DEF ToolType, AtEvent, Processed
<1>2. CASE e' = e
  BY <1>2, WaitsItself DEF Moves
<1>3. CASE e' = Settle(RouteEvent(b, CurrentEvent))
  <2>1. e \in EngineState /\ s \in Slots
    BY InHand
  <2>2. CurrentEvent \in Event /\ CurrentEvent.value \in Int
    BY EventInHand DEF ToolType
  <2>3. b.current_slot = s /\ b.contact = e.contact /\ b.pending_tap = e.pending_tap
    BY <2>1 DEF EngineState
  <2>4. b \in EngineState
    <3>1. [e.memory[s] EXCEPT !.tool_type = CurrentEvent.value] \in Memory
      BY <2>1, <2>2, EngineFields DEF Memory
    <3> QED BY <2>1, <3>1 DEF EngineState
  <2> HIDE DEF b
  <2>5. IsDecided(b.contact[b.current_slot]) /\ Waits(e, b)
    BY <1>1, <2>1, <2>3, WaitsItself DEF FreshInv, FreshContact
  <2> QED BY <1>3, <2>2, <2>4, <2>5, RoutedMoves
<1> QED BY <1>1, <1>2, <1>3

LEMMA PositionMoves ==
  ASSUME TypeInv, FreshInv, Position
  PROVE  Moves(e, e', stamp)
<1> DEFINE s == e.current_slot
           v == CurrentEvent.value
           isX == CurrentEvent.kind = "X"
           a == IF isX THEN PlaceX(e, s, v) ELSE PlaceY(e, s, v)
           b == EndSpoiledPair(a, s)
<1>1. /\ phase = "events"
      /\ e' = Settle(RouteEvent(b, CurrentEvent))
  BY DEF Position, AtEvent, Processed
<1>2. /\ e \in EngineState /\ s \in Slots /\ isX \in BOOLEAN
      /\ CurrentEvent \in Event /\ v \in Int
  BY InHand, EventInHand DEF Position
<1>3. Waits(e, a)
  <2> HIDE DEF isX, v, s
  <2> QED BY <1>2, PlaceWaits
<1>4. /\ a \in EngineState /\ a.current_slot = s
      /\ ~IsActive(e, s) => a.contact[s] = e.contact[s]
      /\ IsActive(e, s) => /\ MovedTo(e.contact[s], a.contact[s], isX, v)
                           /\ a.contact[s].ownership = e.contact[s].ownership
  <2> HIDE DEF isX, v
  <2> QED BY <1>2, PlaceView
<1> HIDE DEF a
<1>5. IsDecided(a.contact[s])
  <2>1. FreshContact(e.contact[s])
    BY <1>1, <1>2 DEF FreshInv
  <2> QED BY <1>4, <2>1, MovedFresh DEF FreshContact
<1>6. Kept(a, b) /\ Waits(a, b)
  BY <1>2, <1>4, EndSpoiledKept, EndSpoiledWaits
<1> HIDE DEF b
<1>7. b \in EngineState /\ IsDecided(b.contact[b.current_slot]) /\ Waits(e, b)
  BY <1>2, <1>3, <1>4, <1>5, <1>6, KeptDecided, WaitsOn DEF Kept, SameSettings
<1> QED BY <1>1, <1>2, <1>7, RoutedMoves

LEMMA DroppedMoves ==
  ASSUME TypeInv, SynDropped
  PROVE  Moves(e, e', stamp)
<1> DEFINE reset == ResetForResync(e)
           b == [reset EXCEPT !.resync_required = TRUE]
<1>1. e' = Settle(b)
  BY DEF SynDropped, Processed
<1>2. e \in EngineState /\ reset \in EngineState
  BY InHand, ResetType
<1>3. b \in EngineState
  <2> HIDE DEF reset
  <2> QED BY <1>2 DEF EngineState
<1>4. b.pending_tap = NoTap /\ b.current_slot = SlotMin
  BY <1>2 DEF ResetForResync, EngineState
<1>5. SlotMin \in Slots
  BY SlotsAssumption DEF Slots
<1>6. e'.contact[SlotMin].tracking_id = None
  BY <1>5, DroppedView, NoContactFresh
<1> HIDE DEF b
<1>7. IsDecided(b.contact[b.current_slot])
  BY <1>1, <1>3, <1>4, <1>5, <1>6, SettledDecides
<1>8. Waits(e, b)
  BY <1>4 DEF Waits
<1> QED BY <1>1, <1>3, <1>7, <1>8, SettledMoves

LEMMA FinalizeMoves ==
  ASSUME TypeInv, PairInv(e), FreshInv, FinalizeSlot
  PROVE  Moves(e, e', stamp)
<1>1. e \in EngineState /\ at \in Slots /\ phase = "finalize"
  BY InHand, FinalizeView DEF FinalizeSlot
<1>2. e' = FinalizeContact(e, at)
  BY DEF FinalizeSlot
<1>3. e.contact[at].began_in_frame => e.contact[at].started_at = stamp
  BY <1>1 DEF FreshInv
<1> QED BY <1>1, <1>2, <1>3, FinalizeContactWaits DEF Moves

\* What the session was told, against the engine: the same between frames, and
\* during one everything that the frame has made of it so far is an outcome.
\* Output that is not a frame's has resolved the tap and hands over at once.
SeenInv ==
  /\ phase = "idle" => seen.owed = OwedBy(e)
  /\ phase \in {"idle", "resync"} => seen.time = clock /\ stamp = None
  /\ phase = "scan" =>
       /\ stamp = clock /\ seen.time <= clock
       /\ OwedBy(e) \in {seen.owed, Rec!NoOwed}
  /\ phase = "events" =>
       /\ stamp = clock /\ seen.time <= clock
       /\ OwedBy(e) \in Outcomes(seen.owed, clock)
  /\ phase = "finalize" =>
       IF stamp = None
       THEN at > SlotMax /\ seen.time = clock /\ OwedBy(e) = Rec!NoOwed
       ELSE /\ stamp = clock /\ seen.time <= clock
            /\ OwedBy(e) \in Outcomes(seen.owed, clock)

\* What the proof of a step has at hand.
OwedContext == TypeInv /\ PairInv(e) /\ FreshInv /\ SeenInv

LEMMA InContext ==
  ASSUME OwedContext
  PROVE  /\ e \in EngineState /\ PairInv(e) /\ clock \in Nat /\ at \in Int
         /\ None \notin Nat
BY InHand DEF OwedContext, TypeInv, TypeOK, None

LEMMA MovesSeen ==
  ASSUME OwedContext, e' \in EngineState, PairInv(e'), seen' = seen,
         phase \in {"events", "finalize"}, phase' = phase,
         phase = "finalize" => stamp # None,
         Moves(e, e', stamp), UNCHANGED <<stamp, clock>>
  PROVE  SeenInv'
<1>1. /\ stamp = clock /\ seen.time <= clock
      /\ OwedBy(e) \in Outcomes(seen.owed, clock)
  BY DEF OwedContext, SeenInv
<1>2. OwedBy(e') \in Outcomes(seen.owed, clock)
  BY <1>1, InContext, OutcomesOn DEF Moves
<1>3. /\ OwedBy(e)' = OwedBy(e')
      /\ Outcomes(seen.owed, clock)' = Outcomes(seen.owed, clock)
  BY DEF OwedBy, Outcomes, Rec!OwedAfter, NextDeadline, HasPendingTap, IsMatching
<1> QED BY <1>1, <1>2, <1>3 DEF SeenInv

\* Nothing is owed less by a step that only waits.
LEMMA StartSeen ==
  ASSUME OwedContext, e' \in EngineState, PairInv(e'), seen' = seen,
         NEW f \in Frames \cup OddFrames, NEW t \in Stamps, StartFrame(f, t)
  PROVE  SeenInv'
<1> DEFINE codes == Codes(f.buttons, TRUE)
<1>1. /\ phase = "idle" /\ phase' = "scan" /\ e' = PressButtons(e, codes)
      /\ stamp' = t /\ clock' = IF t = None THEN clock ELSE t
      /\ t # None => t >= clock + MinGap
  BY DEF StartFrame
<1>2. t # None /\ t \in Nat /\ MinGap \in Nat
  BY TimedAssumption, StampsAssumption, TimeAssumption
<1>3. codes \in SUBSET Buttons
  <2>1. f \in Frame
    BY FramesAssumption
  <2>2. \A i \in DOMAIN f.buttons : f.buttons[i] \in Button
    BY <2>1 DEF Frame
  <2> QED BY <2>2 DEF Codes, Button
<1> HIDE DEF codes
<1>4. OwedBy(e') \in {OwedBy(e), Rec!NoOwed}
  <2>1. Waits(e, e')
    BY <1>1, <1>3, InContext, PressButtonsWaits
  <2> QED BY <2>1, InContext, WaitsOwed
<1>5. OwedBy(e) = seen.owed /\ seen.time = clock
  BY <1>1 DEF OwedContext, SeenInv
<1>6. OwedBy(e)' = OwedBy(e')
  BY DEF OwedBy, NextDeadline, HasPendingTap, IsMatching
<1>7. stamp' = clock' /\ seen.time <= clock'
  BY <1>1, <1>2, <1>5, InContext
<1> QED BY <1>1, <1>4, <1>5, <1>6, <1>7 DEF SeenInv

\* A palm is no second tap, and what falls due resolves.
LEMMA BeginSeen ==
  ASSUME OwedContext, seen' = seen, BeginEvents
  PROVE  SeenInv'
<1>1. /\ phase = "scan" /\ phase' = "events" /\ stamp' = stamp /\ clock' = clock
      /\ stamp # None => e' = ExpirePendingTap(RejectPalms(e), stamp)
  BY DEF BeginEvents
<1>2. /\ stamp = clock /\ seen.time <= clock /\ stamp \in Nat /\ stamp # None
      /\ OwedBy(e) \in {seen.owed, Rec!NoOwed}
  BY <1>1, InContext DEF OwedContext, SeenInv
<1>3. OwedBy(RejectPalms(e)) \in {OwedBy(e), Rec!Unpaired(OwedBy(e))}
  BY InContext, RejectPalmsOwed
<1>4. Rec!Unpaired(Rec!NoOwed) = Rec!NoOwed
  BY DEF Rec!Unpaired, Rec!NoOwed
<1>5. OwedBy(e') \in Outcomes(seen.owed, clock)
  <2>1. RejectPalms(e) \in EngineState /\ PairInv(RejectPalms(e))
    BY InContext, RejectPalmsType, RejectPalmsPair
  <2>2. OwedBy(RejectPalms(e)) \in {seen.owed, Rec!Unpaired(seen.owed), Rec!NoOwed}
    BY <1>2, <1>3, <1>4
  <2> QED BY <1>1, <1>2, <2>1, <2>2, ExpireOwed
<1>6. /\ OwedBy(e)' = OwedBy(e')
      /\ Outcomes(seen.owed, clock)' = Outcomes(seen.owed, clock)
  BY <1>1 DEF OwedBy, Outcomes, Rec!OwedAfter, NextDeadline, HasPendingTap, IsMatching
<1> QED BY <1>1, <1>2, <1>5, <1>6 DEF SeenInv

LEMMA EventSeen ==
  ASSUME OwedContext, e' \in EngineState, PairInv(e'), seen' = seen, ~Fail,
         \/ SlotSwitch \/ ContactDown \/ ContactUp
         \/ ToolType \/ Position \/ SynDropped
  PROVE  SeenInv'
<1>1. Moves(e, e', stamp)
  BY SwitchMoves, DownMoves, UpMoves, ToolMoves, PositionMoves, DroppedMoves
  DEF OwedContext
<1>2. /\ phase = "events" /\ phase' = "events"
      /\ UNCHANGED <<stamp, clock>>
  BY DEF SlotSwitch, ContactDown, ContactUp, ToolType, Position, SynDropped,
         AtEvent, Processed
<1> QED BY <1>1, <1>2, MovesSeen

LEMMA FinalizeSeen ==
  ASSUME OwedContext, e' \in EngineState, PairInv(e'), seen' = seen, FinalizeSlot
  PROVE  SeenInv'
<1>1. /\ phase = "finalize" /\ phase' = "finalize" /\ at <= SlotMax
      /\ UNCHANGED <<stamp, clock>>
  BY DEF FinalizeSlot
<1>2. stamp # None
  BY <1>1, InContext, SlotsAssumption DEF OwedContext, SeenInv
<1>3. Moves(e, e', stamp)
  BY FinalizeMoves DEF OwedContext
<1> QED BY <1>1, <1>2, <1>3, MovesSeen

LEMMA DeadlineType ==
  ASSUME NEW en \in EngineState, PairInv(en), HasPendingTap(en)
  PROVE  NextDeadline(en) \in Int
<1>1. /\ en.pending_tap.released_at \in Int
      /\ en.cfg.double_tap_timeout \in Int /\ en.cfg.tap_max_duration \in Int
  BY ConfigsAssumption DEF EngineState, PendingTap, ConfigType
<1>2. \A s \in Slots : en.contact[s].started_at \in Int
  BY EngineFields DEF Contact
<1>3. CASE \E s \in Slots : IsMatching(en, s)
  <2>1. PICK s \in Slots : IsMatching(en, s)
    BY <1>3
  <2>2. OwedBy(en) = [first |-> en.pending_tap.released_at + TapTimeout,
                      due |-> en.contact[s].started_at + TapDuration]
    BY <2>1, OwedPaired
  <2>3. NextDeadline(en) = en.contact[s].started_at + TapDuration
    BY <2>2 DEF OwedBy
  <2>4. TapDuration = en.cfg.tap_max_duration
    BY ProfilesAssumption DEF EngineState
  <2> QED BY <1>1, <1>2, <2>3, <2>4
<1>4. CASE ~\E s \in Slots : IsMatching(en, s)
  BY <1>1, <1>4 DEF NextDeadline
<1> QED BY <1>3, <1>4

\* The same tap is owed when neither it nor a contact changes.
LEMMA SameOwed ==
  ASSUME NEW en, NEW out, out.pending_tap = en.pending_tap,
         out.contact = en.contact, HasPendingTap(en) => out.cfg = en.cfg
  PROVE  OwedBy(out) = OwedBy(en)
BY DEF OwedBy, NextDeadline, HasPendingTap, IsMatching

LEMMA EndOwes ==
  ASSUME OwedContext, EndFrame, seen' = [owed |-> OwedBy(e'), time |-> clock]
  PROVE  /\ seen'.owed = OwedBy(e) /\ seen'.time = clock
         /\ OwedBy(e)' = OwedBy(e) /\ clock' = clock /\ stamp' = None
         /\ phase = "finalize" /\ phase' \in {"idle", "resync"}
<1>1. OwedBy(e') = OwedBy(e)
  BY EndView, SameOwed DEF OwedContext
<1>2. OwedBy(e)' = OwedBy(e')
  BY DEF OwedBy, NextDeadline, HasPendingTap, IsMatching
<1> QED BY <1>1, <1>2 DEF EndFrame

\* The deadline itself, and a recovery, leave nothing to wait for.
LEMMA OutputSeen ==
  ASSUME OwedContext, seen' = seen,
         AdvanceTime \/ \E snapshot \in Snapshots : Resync(snapshot)
  PROVE  SeenInv'
<1>1. /\ phase \in {"idle", "resync"} /\ phase' = "finalize" /\ at' = SlotMax + 1
      /\ UNCHANGED <<stamp, clock>>
  BY DEF AdvanceTime, Resync, Output
<1>2. e'.pending_tap = NoTap
  <2>1. CASE AdvanceTime
    <3>1. e' = FlushPendingTap(e)
      <4>1. NextDeadline(e) \in Int
        BY <2>1, InContext, DeadlineType DEF AdvanceTime
      <4> QED BY <2>1, <4>1 DEF AdvanceTime, Output, ExpirePendingTap
    <3> QED BY <3>1, InContext, FlushView
  <2>2. ASSUME NEW snapshot \in Snapshots, Resync(snapshot) PROVE e'.pending_tap = NoTap
    BY <2>2, ResyncView DEF OwedContext
  <2> QED BY <2>1, <2>2
<1>3. OwedBy(e)' = Rec!NoOwed
  <2>1. OwedBy(e') = Rec!NoOwed
    BY <1>2, NothingOwed, NoPending DEF HasPendingTap
  <2> QED BY <2>1 DEF OwedBy, NextDeadline, HasPendingTap, IsMatching
<1>4. /\ seen.time = clock /\ stamp = None /\ SlotMax + 1 > SlotMax
  BY <1>1, SlotsAssumption DEF OwedContext, SeenInv
<1> QED BY <1>1, <1>3, <1>4 DEF SeenInv

LEMMA InitSeen == OInit => SeenInv /\ FreshInv /\ Rec!RecInit
<1> SUFFICES ASSUME OInit PROVE SeenInv /\ FreshInv /\ Rec!RecInit
  OBVIOUS
<1>1. /\ phase = "idle" /\ clock = 0 /\ stamp = None
      /\ seen.owed = OwedBy(e) /\ seen.time = 0
  BY DEF OInit, HInit, Init
<1>2. ~HasPendingTap(e)
  BY NoPending DEF OInit, HInit, Init, NewEngine, HasPendingTap
<1>3. OwedBy(e) = Rec!NoOwed
  BY <1>2, NothingOwed
<1> QED BY <1>1, <1>3 DEF SeenInv, FreshInv, Rec!RecInit

\* Only the end of a call tells the session something.
LEMMA SeenChanges ==
  ASSUME ONext
  PROVE  \/ EndFrame /\ seen' = [owed |-> OwedBy(e'), time |-> clock]
         \/ ~EndFrame /\ seen' = seen
<1>1. CASE EndFrame
  BY <1>1 DEF ONext, EndFrame
<1>2. CASE ~EndFrame
  <2>1. Next
    BY DEF ONext, HNext
  <2>2. ~(phase = "finalize" /\ phase' # "finalize")
    BY <1>2, <2>1
    DEF Next, FrameStep, StartFrame, ScanEvent, BeginEvents, SlotSwitch, ContactDown,
        ContactUp, ToolType, Position, SynDropped, EventsDone, FinalizeSlot,
        AdvanceTime, Resync, Reload, AtEvent, Output
  <2> QED BY <1>2, <2>2 DEF ONext
<1> QED BY <1>1, <1>2

LEMMA StepSeen ==
  ASSUME OwedContext, TypeInv', PairInv(e)', ONext
  PROVE  SeenInv'
<1>1. e' \in EngineState /\ PairInv(e')
  BY DEF TypeInv, TypeOK, PairInv, SlotInv, MatchInv, AloneInv, HasPendingTap
<1>2. CASE EndFrame /\ seen' = [owed |-> OwedBy(e'), time |-> clock]
  BY <1>2, EndOwes DEF SeenInv
<1>3. CASE ~EndFrame /\ seen' = seen
  <2>1. CASE Fail
    BY <2>1 DEF Fail, SeenInv
  <2>2. ASSUME NEW f \in Frames \cup OddFrames, NEW t \in Stamps, StartFrame(f, t)
        PROVE  SeenInv'
    BY <1>1, <1>3, <2>2, StartSeen
  <2>3. CASE ScanEvent /\ ~Fail
    <3>1. phase = "scan" /\ UNCHANGED <<e, phase, stamp, clock, seen>>
      BY <1>3, <2>3 DEF ScanEvent
    <3> QED BY <3>1 DEF OwedContext, SeenInv
  <2>4. CASE EventsDone
    <3>1. /\ phase = "events" /\ phase' = "finalize"
          /\ UNCHANGED <<e, stamp, clock, seen>>
      BY <1>3, <2>4 DEF EventsDone
    <3>2. stamp # None
      BY <3>1, InContext DEF OwedContext, SeenInv
    <3> QED BY <3>1, <3>2 DEF OwedContext, SeenInv
  <2>5. ASSUME NEW cfg \in Configs, Reload(cfg) PROVE SeenInv'
    <3>1. phase = "idle" /\ phase' = "idle" /\ UNCHANGED <<stamp, clock, seen>>
      BY <1>3, <2>5 DEF Reload
    <3>2. OwedBy(e') = OwedBy(e)
      BY <2>5, ReloadView, SameOwed DEF OwedContext
    <3>3. OwedBy(e)' = OwedBy(e')
      BY DEF OwedBy, NextDeadline, HasPendingTap, IsMatching
    <3> QED BY <3>1, <3>2, <3>3 DEF OwedContext, SeenInv
  <2>6. Next
    BY DEF ONext, HNext
  <2> QED
    BY <1>1, <1>3, <2>1, <2>2, <2>3, <2>4, <2>5, <2>6, BeginSeen, EventSeen,
       FinalizeSeen, OutputSeen DEF Next, FrameStep
<1> QED BY <1>2, <1>3, SeenChanges

\* A call's end is a frame's, or resolves the tap.
LEMMA StepRefines ==
  ASSUME OwedContext, ONext
  PROVE  [Rec!RecNext]_<<seen.owed, seen.time>>
<1>1. CASE seen' = seen
  BY <1>1
<1>2. CASE EndFrame /\ seen' = [owed |-> OwedBy(e'), time |-> clock]
  <2>1. phase = "finalize" /\ seen'.owed = OwedBy(e) /\ seen'.time = clock
    BY <1>2, EndOwes
  <2>2. CASE stamp = None
    <3>1. OwedBy(e) = Rec!NoOwed /\ seen.time = clock
      BY <2>1, <2>2 DEF OwedContext, SeenInv
    <3> QED BY <2>1, <3>1 DEF Rec!RecNext, Rec!Resolve
  <2>3. CASE stamp # None
    <3>1. seen.time <= clock /\ OwedBy(e) \in Outcomes(seen.owed, clock)
      BY <2>1, <2>3 DEF OwedContext, SeenInv
    <3>2. Rec!TakeFrame({"Down", "Up"})
      BY <2>1, <3>1, InContext DEF Rec!TakeFrame, Outcomes
    <3> QED BY <3>2 DEF Rec!RecNext
  <2> QED BY <2>2, <2>3
<1> QED BY <1>1, <1>2, SeenChanges

\* The engine keeps the session's promise (docs/double-tap.md): call by call,
\* what is owed and when it falls due is an outcome that the session's alarm is
\* made for, whatever palms, lost events, presses and reloads come between, as
\* long as the kernel says where every contact is.
THEOREM RecognizerIsImplemented ==
  ASSUME KnownAxes
  PROVE  OSpec => ImplementsRecognizer
<1> DEFINE IInv == TypeInv /\ PairInv(e) /\ PadInv /\ FreshInv /\ SeenInv
<1>1. OInit => IInv /\ Rec!RecInit
  BY InitType, InitPair, InitPad, InitSeen DEF OInit, HInit
<1>2. IInv /\ [ONext]_ovars => IInv'
  <2> SUFFICES ASSUME IInv, [ONext]_ovars PROVE IInv'
    OBVIOUS
  <2>1. CASE ONext
    <3>1. TypeInv' /\ PairInv(e)'
      BY <2>1, StepType, StepPair DEF ONext, HNext
    <3>2. PadInv' /\ FreshInv'
      BY <2>1, StepPad, StepFresh DEF ONext, HNext
    <3>3. SeenInv'
      BY <2>1, <3>1, StepSeen DEF OwedContext
    <3> QED BY <3>1, <3>2, <3>3
  <2>2. CASE UNCHANGED ovars
    <3>1. UNCHANGED vars /\ UNCHANGED hvars
      BY <2>2 DEF ovars, hvars
    <3>2. TypeInv' /\ PairInv(e)'
      BY <3>1, StepType, StepPair
    <3>3. PadInv' /\ FreshInv'
      BY <3>1, StepPad, StepFresh
    <3>4. UNCHANGED <<e, phase, stamp, at, clock, seen>>
      BY <2>2 DEF ovars, hvars, vars
    <3>5. SeenInv'
      BY <3>4 DEF SeenInv
    <3> QED BY <3>2, <3>3, <3>5
  <2> QED BY <2>1, <2>2
<1>3. IInv /\ [ONext]_ovars => [Rec!RecNext]_<<seen.owed, seen.time>>
  <2>1. UNCHANGED ovars => UNCHANGED <<seen.owed, seen.time>>
    BY DEF ovars
  <2> QED BY <2>1, StepRefines DEF OwedContext
<1> QED BY <1>1, <1>2, <1>3, PTL DEF OSpec, ImplementsRecognizer, Rec!RecSpec

-----------------------------------------------------------------------------
(* The sliders of a frame.                                                 *)

\* The pad's coordinates begin at zero; where a finger is, is known at first
\* and again after lost events.
PlacesOnPad ==
  /\ \A f \in Frames \cup OddFrames : \A i \in DOMAIN f.events :
       f.events[i].kind \in {"X", "Y"} => f.events[i].value \in Nat
  /\ \A s \in Slots : StartMemory[s].x \in Nat /\ StartMemory[s].y \in Nat
  /\ \A snapshot \in Snapshots, s \in Slots :
       snapshot.memory[s].x \in Nat /\ snapshot.memory[s].y \in Nat

\* A frame gives each axis of a slot once at most, whatever slot it begins in.
AxesOnce ==
  \A f \in Frames \cup OddFrames, k \in [slot : Slots] :
    \A i, j \in DOMAIN f.events :
      /\ i < j /\ f.events[i].kind = f.events[j].kind
      /\ f.events[i].kind \in {"X", "Y"}
      => SlotFrom(k, f.events, i) # SlotFrom(k, f.events, j)

\* What the history counts for slot s is what its finger has moved a slider.
FingerSlid(s) ==
  LET c == e.contact[s]
  IN /\ OnSlider(e.cfg, c, h.net[s]) /\ Near(e.cfg, c)
     /\ c.ownership = "Unknown" => h.net[s] = 0
     /\ Undecided(c)

\* A finger that began in this frame has not moved since.
FingerStarts(s) ==
  /\ e.contact[s].began_in_frame =>
       /\ e.contact[s].start_x = e.contact[s].current_x
       /\ e.contact[s].start_y = e.contact[s].current_y
  /\ e.memory[s].x \in Nat /\ e.memory[s].y \in Nat

\* One of the events before the i-th gave slot s's axis of that kind.
GivenBefore(k, evs, i, kind, s) ==
  \E j \in 1..(i - 1) : evs[j].kind = kind /\ SlotFrom(k, evs, j) = s

\* The coordinates of a finger that began in this frame are the frame's own.
AxesFrom(k) ==
  /\ e.current_slot = SlotFrom(k, frame.events, at - 1)
  /\ \A s \in Slots : e.contact[s].began_in_frame =>
       /\ e.contact[s].current_x # None => GivenBefore(k, frame.events, at, "X", s)
       /\ e.contact[s].current_y # None => GivenBefore(k, frame.events, at, "Y", s)

SlideInv ==
  InSync => /\ \A s \in Slots : FingerSlid(s) /\ FingerStarts(s)
            /\ phase = "events" => \E k \in [slot : Slots] : AxesFrom(k)

LEMMA PadIsKnown == PlacesOnPad => KnownAxes
BY DEF PlacesOnPad, KnownAxes, None

LEMMA NetAfter ==
  ASSUME HUpdate, NEW s \in Slots
  PROVE  h'.net[s] = IF Began(s) \/ ~IsActive(e', s) THEN 0
                     ELSE h.net[s] + NetOf(e, e', s)
<1>1. NetSteps(s) = NetOf(e, e', s)
  BY DEF NetSteps, NetOf, StepsOf
<1>2. h'.net = [r \in Slots |->
                  IF Began(r) \/ ~IsActive(e', r) THEN 0 ELSE h.net[r] + NetSteps(r)]
  BY DEF HUpdate
<1> QED BY <1>1, <1>2, Zenon

\* A finger that is where the slider expects it stays there in the history.
LEMMA CountGoesOn ==
  ASSUME HUpdate, NEW s \in Slots,
         OnSlider(e'.cfg, e'.contact[s], h.net[s] + NetOf(e, e', s)),
         Began(s) => e'.contact[s].ownership = "Unknown",
         IsActive(e', s) /\ ~Began(s) /\ e'.contact[s].ownership = "Unknown"
           => h.net[s] + NetOf(e, e', s) = 0
  PROVE  /\ OnSlider(e'.cfg, e'.contact[s], h'.net[s])
         /\ e'.contact[s].ownership = "Unknown" => h'.net[s] = 0
<1>1. h'.net[s] = IF Began(s) \/ ~IsActive(e', s) THEN 0
                  ELSE h.net[s] + NetOf(e, e', s)
  BY NetAfter
<1> DEFINE d == e'.contact[s]
<1>2. ASSUME Began(s) \/ ~IsActive(e', s) PROVE OnSlider(e'.cfg, d, 0)
  <2>1. OnPad(d) /\ InPlace(d)
    BY DEF OnSlider
  <2>2. IsClaimed(d) /\ ~d.gesture_rejected => FALSE
    BY <1>2, <2>1 DEF InPlace, IsActive, IsClaimed, Zones
  <2> QED BY <2>1, <2>2 DEF OnSlider, Counted
<1> QED BY <1>1, <1>2

\* An event of the frame, up to the decision about the current contact.
LEMMA EventSlides ==
  ASSUME HUpdate, \A s \in Slots : FingerSlid(s) /\ IsDecided(e.contact[s]),
         phase = "events", NEW mid \in EngineState, e' = Settle(mid),
         Rests(e, mid), mid.cfg = e.cfg,
         \A r \in Slots :
           LET c == e.contact[r]  d == e'.contact[r]
           IN /\ OnPad(d)
              /\ d.start_x # None => d.current_x # None
              /\ d.start_y # None => d.current_y # None
              /\ IsActive(e, r) /\ IsActive(e', r) =>
                   /\ IsPlaced(c) => d.start_x = c.start_x /\ d.start_y = c.start_y
                   /\ d.ownership = "Unknown" => c.ownership = "Unknown"
              /\ ~IsActive(e, r) /\ IsActive(e', r) => d.ownership = "Unknown"
              /\ r # mid.current_slot =>
                   d.current_x = c.current_x /\ d.current_y = c.current_y
  PROVE  \A r \in Slots : FingerSlid(r)'
<1>1. /\ Kept(mid, e') /\ mid.current_slot \in Slots
      /\ \A r \in Slots : Anchored(e.contact[r], mid.contact[r])
  BY SettleKept DEF Rests, EngineState
<1>2. ASSUME NEW r \in Slots
      PROVE  LET c == e.contact[r]  m == mid.contact[r]
             IN /\ OnSlider(mid.cfg, m, h.net[r]) /\ Undecided(m) /\ IsDecided(m)
                /\ r # mid.current_slot => Near(mid.cfg, m)
  <2> DEFINE c == e.contact[r]
             m == mid.contact[r]
             d == e'.contact[r]
  <2>1. /\ FingerSlid(r) /\ Anchored(c, m) /\ SameFinger(m, d) /\ IsDecided(c)
    BY <1>1 DEF Kept, ContactKept
  <2>2. /\ OnSlider(e.cfg, c, h.net[r]) /\ Near(e.cfg, c) /\ Undecided(c)
    BY <2>1 DEF FingerSlid
  <2>3. /\ OnPad(d)
        /\ d.start_x # None => d.current_x # None
        /\ d.start_y # None => d.current_y # None
        /\ c.tracking_id # None /\ d.tracking_id # None /\ IsPlaced(c) =>
             d.start_x = c.start_x /\ d.start_y = c.start_y
        /\ r # mid.current_slot =>
             d.current_x = c.current_x /\ d.current_y = c.current_y
    BY DEF IsActive
  <2> HIDE DEF c, m, d
  <2>4. Undecided(m) /\ IsDecided(m)
    BY <2>1, <2>2 DEF Anchored
  <2>5. IsClaimed(m) /\ ~m.gesture_rejected =>
          /\ m.tracking_id # None /\ IsPlaced(c)
          /\ m.start_x = c.start_x /\ m.start_y = c.start_y
    BY <2>1, <2>2, <2>3 DEF OnSlider, InPlace, Anchored, IsClaimed, SameFinger
  <2>6. OnPad(m) /\ InPlace(m)
    BY <2>1, <2>3, <2>5 DEF OnPad, InPlace, SameFinger, IsPlaced
  <2>7. Counted(e.cfg, m, h.net[r])
    BY <2>1, <2>2, <2>5 DEF OnSlider, Counted, Anchored, IsClaimed
  <2>8. r # mid.current_slot => Near(e.cfg, m)
    BY <2>1, <2>2, <2>3, AnchoredIsNear DEF SameFinger
  <2>9. OnSlider(e.cfg, m, h.net[r])
    BY <2>2, <2>6, <2>7 DEF OnSlider
  <2> QED BY <2>4, <2>8, <2>9 DEF m
<1> DEFINE n == h.net
<1>3. /\ \A r \in Slots : OnSlider(mid.cfg, mid.contact[r], n[r])
      /\ \A r \in Slots : r # mid.current_slot => Near(mid.cfg, mid.contact[r])
      /\ LET c == mid.contact[mid.current_slot]
         IN IsDecided(c) /\ (c.began_in_frame => c.ownership = "Unknown")
  BY <1>1, <1>2 DEF Undecided
<1> HIDE DEF n
<1>4. \A r \in Slots :
        /\ OnSlider(mid.cfg, e'.contact[r], n[r] + NetOf(mid, e', r))
        /\ Near(mid.cfg, e'.contact[r])
        /\ ~IsClaimed(mid.contact[r]) => NetOf(mid, e', r) = 0
        /\ mid.contact[r].ownership # "Unknown" => e'.contact[r].ownership # "Unknown"
        /\ Undecided(mid.contact[r]) => Undecided(e'.contact[r])
  BY <1>3, SettleOnSlider
<1>5. /\ e'.cfg = mid.cfg
      /\ \A r : NetOf(e, e', r) = NetOf(mid, e', r)
  BY <1>1 DEF Kept, SameSettings, Rests, NetOf, StepsOf
<1>6. ASSUME NEW r \in Slots PROVE FingerSlid(r)'
  <2>1. OnSlider(e'.cfg, e'.contact[r], h.net[r] + NetOf(e, e', r))
    BY <1>4, <1>5 DEF n
  <2>2. Began(r) => e'.contact[r].ownership = "Unknown"
    BY DEF Began
  <2>3. ASSUME IsActive(e', r), ~Began(r), e'.contact[r].ownership = "Unknown"
        PROVE  h.net[r] + NetOf(e, e', r) = 0
    <3>1. e.contact[r].ownership = "Unknown"
      BY <2>3 DEF Began
    <3>2. h.net[r] = 0
      BY <3>1 DEF FingerSlid
    <3>3. NetOf(e, e', r) = 0
      BY <1>4, <1>5, <2>3 DEF IsClaimed, Zones
    <3> QED BY <3>2, <3>3
  <2>4. /\ OnSlider(e'.cfg, e'.contact[r], h'.net[r])
        /\ e'.contact[r].ownership = "Unknown" => h'.net[r] = 0
    BY <2>1, <2>2, <2>3, CountGoesOn
  <2>5. Near(e'.cfg, e'.contact[r]) /\ Undecided(e'.contact[r])
    BY <1>2, <1>4, <1>5
  <2> QED BY <2>4, <2>5 DEF FingerSlid
<1> QED BY <1>6

\* What EventSlides asks of a finger, cs being the slot the event is about.
Follows(r, cs) ==
  LET c == e.contact[r]  d == e'.contact[r]
  IN /\ OnPad(d)
     /\ d.start_x # None => d.current_x # None
     /\ d.start_y # None => d.current_y # None
     /\ IsActive(e, r) /\ IsActive(e', r) =>
          /\ IsPlaced(c) => d.start_x = c.start_x /\ d.start_y = c.start_y
          /\ d.ownership = "Unknown" => c.ownership = "Unknown"
     /\ ~IsActive(e, r) /\ IsActive(e', r) => d.ownership = "Unknown"
     /\ r # cs => d.current_x = c.current_x /\ d.current_y = c.current_y

LEMMA KeptFollows ==
  ASSUME NEW r \in Slots, NEW cs, FingerSlid(r),
         ContactKept(e, e.contact[r], e'.contact[r])
  PROVE  Follows(r, cs)
BY DEF Follows, FingerSlid, OnSlider, InPlace, OnPad, ContactKept, SameFinger, SameOwner,
       IsActive

LEMMA RoutedSlides ==
  ASSUME HUpdate, \A s \in Slots : FingerSlid(s) /\ IsDecided(e.contact[s]),
         phase = "events", NEW b \in EngineState, NEW ev \in Event,
         e' = Settle(RouteEvent(b, ev)), Rests(e, b), b.cfg = e.cfg,
         \A r \in Slots : Follows(r, b.current_slot)
  PROVE  \A r \in Slots : FingerSlid(r)'
<1> DEFINE mid == RouteEvent(b, ev)
<1>1. Rests(b, mid) /\ Kept(b, mid)
  BY RouteEventRests, RouteEventKept
<1>2. e' = Settle(mid)
  OBVIOUS
<1> HIDE DEF mid
<1>3. /\ mid \in EngineState /\ Rests(e, mid) /\ mid.cfg = e.cfg
      /\ mid.current_slot = b.current_slot
  BY <1>1, RestsOn DEF Kept, SameSettings
<1> QED BY <1>2, <1>3, EventSlides DEF Follows

LEMMA StartsKept ==
  ASSUME NEW s \in Slots, FingerStarts(s), ContactKept(e, e.contact[s], e'.contact[s]),
         e'.memory[s].x = e.memory[s].x, e'.memory[s].y = e.memory[s].y
  PROVE  FingerStarts(s)'
BY DEF FingerStarts, ContactKept, SameFinger

\* A finger that has not begun, or whose place the frame has not given yet.
LEMMA AxesGoOn ==
  ASSUME NEW k \in [slot : Slots], AxesFrom(k), at \in Nat \ {0},
         frame' = frame, at' = at + 1,
         e'.current_slot = IF CurrentEvent.kind = "Slot" THEN CurrentEvent.value
                           ELSE e.current_slot,
         \A s \in Slots :
           LET c == e.contact[s]  d == e'.contact[s]
           IN d.began_in_frame =>
                /\ d.current_x # None =>
                     \/ c.began_in_frame /\ c.current_x # None
                     \/ GivenBefore(k, frame.events, at + 1, "X", s)
                /\ d.current_y # None =>
                     \/ c.began_in_frame /\ c.current_y # None
                     \/ GivenBefore(k, frame.events, at + 1, "Y", s)
  PROVE  AxesFrom(k)'
<1>1. SlotFrom(k, frame.events, at)
        = IF CurrentEvent.kind = "Slot" THEN CurrentEvent.value
          ELSE SlotFrom(k, frame.events, at - 1)
  BY SlotNext DEF CurrentEvent
<1>2. at' - 1 = at
  OBVIOUS
<1>3. e'.current_slot = SlotFrom(k, frame'.events, at' - 1)
  BY <1>1, <1>2 DEF AxesFrom
<1>4. ASSUME NEW s, NEW kind, GivenBefore(k, frame.events, at, kind, s)
      PROVE  GivenBefore(k, frame.events, at + 1, kind, s)
  BY <1>4 DEF GivenBefore
<1>5. \A s \in Slots : e'.contact[s].began_in_frame =>
        /\ e'.contact[s].current_x # None =>
             GivenBefore(k, frame.events, at + 1, "X", s)
        /\ e'.contact[s].current_y # None =>
             GivenBefore(k, frame.events, at + 1, "Y", s)
  BY <1>4 DEF AxesFrom
<1> QED BY <1>3, <1>5 DEF AxesFrom

\* An event that moves no finger.
LEMMA EventSlid ==
  ASSUME TypeInv, SlideInv, InSync, NEW kind, AtEvent(kind),
         phase' = "events", frame' = frame, at' = at + 1,
         \A s \in Slots : FingerSlid(s)' /\ FingerStarts(s)',
         e'.current_slot = IF CurrentEvent.kind = "Slot" THEN CurrentEvent.value
                           ELSE e.current_slot,
         \A s \in Slots :
           LET c == e.contact[s]  d == e'.contact[s]
           IN d.began_in_frame =>
                /\ d.current_x # None => c.began_in_frame /\ c.current_x # None
                /\ d.current_y # None => c.began_in_frame /\ c.current_y # None
  PROVE  SlideInv'
<1>1. PICK k \in [slot : Slots] : AxesFrom(k)
  BY EventInHand DEF SlideInv
<1>2. at \in Nat \ {0}
  BY EventInHand DEF TypeInv, TypeOK, Frame
<1>3. AxesFrom(k)'
  BY <1>1, <1>2, AxesGoOn
<1>4. \E l \in [slot : Slots] : AxesFrom(l)'
  BY <1>3
<1> QED BY <1>4 DEF SlideInv

LEMMA SwitchSlides ==
  ASSUME TypeInv, PadInv, SlideInv, InSync, HUpdate, SlotSwitch,
         CurrentEvent.value \in Slots
  PROVE  SlideInv'
<1> DEFINE b == [e EXCEPT !.current_slot = CurrentEvent.value]
<1>1. /\ e \in EngineState /\ CurrentEvent \in Event
      /\ e' = Settle(RouteEvent(b, CurrentEvent))
      /\ phase = "events" /\ phase' = "events" /\ frame' = frame /\ at' = at + 1
      /\ AtEvent("Slot") /\ CurrentEvent.kind = "Slot"
  BY InHand, EventInHand DEF SlotSwitch, Processed
<1>2. /\ b \in EngineState /\ b.contact = e.contact /\ b.cfg = e.cfg
      /\ b.slider_steps = e.slider_steps
  BY <1>1 DEF EngineState
<1> HIDE DEF b
<1>3. Rests(e, b)
  BY <1>2, SameContactsRest
<1>4. /\ SamePressed(e, e') /\ e'.memory = e.memory
      /\ e'.current_slot = CurrentEvent.value
      /\ \A s \in Slots : ContactKept(e, e.contact[s], e'.contact[s])
  BY SwitchView
<1>5. \A s \in Slots : FingerSlid(s) /\ FingerStarts(s) /\ IsDecided(e.contact[s])
  BY DEF SlideInv, PadInv, ContactInv
<1>6. \A s \in Slots : Follows(s, b.current_slot)
  BY <1>4, <1>5, KeptFollows
<1>7. \A s \in Slots : FingerSlid(s)'
  BY <1>1, <1>2, <1>3, <1>5, <1>6, RoutedSlides
<1>8. \A s \in Slots : FingerStarts(s)'
  BY <1>4, <1>5, StartsKept
<1>9. \A s \in Slots : SameFinger(e.contact[s], e'.contact[s])
  BY <1>4 DEF ContactKept
<1> QED BY <1>1, <1>4, <1>7, <1>8, <1>9, EventSlid DEF SameFinger

LEMMA ToolSlides ==
  ASSUME TypeInv, PadInv, SlideInv, InSync, HUpdate, ToolType
  PROVE  SlideInv'
<1>1. /\ e \in EngineState /\ CurrentEvent \in Event /\ CurrentEvent.value \in Int
      /\ phase = "events" /\ phase' = "events" /\ frame' = frame /\ at' = at + 1
      /\ AtEvent("ToolType") /\ CurrentEvent.kind = "ToolType"
  BY InHand, EventInHand DEF ToolType, Processed
<1>2. /\ SamePressed(e, e') /\ e'.current_slot = e.current_slot
      /\ \A s \in Slots : /\ e'.memory[s].x = e.memory[s].x
                          /\ e'.memory[s].y = e.memory[s].y
                          /\ ContactKept(e, e.contact[s], e'.contact[s])
  BY ToolView
<1>3. \A s \in Slots : FingerSlid(s) /\ FingerStarts(s) /\ IsDecided(e.contact[s])
  BY DEF SlideInv, PadInv, ContactInv
<1>4. \A s \in Slots : FingerSlid(s)'
  <2>1. CASE PalmRejection
    <3> DEFINE m == [e.memory[e.current_slot] EXCEPT !.tool_type = CurrentEvent.value]
               b == [e EXCEPT !.memory[e.current_slot] = m]
    <3>1. e' = Settle(RouteEvent(b, CurrentEvent))
      BY <2>1 DEF ToolType, Processed
    <3>2. m \in Memory
      <4>1. \A k \in Memory, i \in Int : [k EXCEPT !.tool_type = i] \in Memory
        BY DEF Memory
      <4> QED BY <1>1, <4>1, InHand, EngineFields
    <3> HIDE DEF m
    <3>3. /\ b \in EngineState /\ b.contact = e.contact /\ b.cfg = e.cfg
          /\ b.slider_steps = e.slider_steps
      BY <1>1, <3>2 DEF EngineState
    <3> HIDE DEF b
    <3>4. Rests(e, b)
      BY <3>3, SameContactsRest
    <3>5. \A s \in Slots : Follows(s, b.current_slot)
      BY <1>2, <1>3, KeptFollows
    <3> QED BY <1>1, <1>3, <3>1, <3>3, <3>4, <3>5, RoutedSlides
  <2>2. CASE ~PalmRejection
    <3>1. e' = e
      BY <2>2 DEF ToolType
    <3>2. \A s \in Slots : NetOf(e, e', s) = 0 /\ ~Began(s)
      BY <1>1, <3>1, NoSteps DEF Began
    <3>3. ASSUME NEW s \in Slots PROVE FingerSlid(s)'
      <4>1. h.net[s] + NetOf(e, e', s) = h.net[s]
        BY <1>3, <3>2 DEF FingerSlid, OnSlider
      <4>2. /\ OnSlider(e'.cfg, e'.contact[s], h'.net[s])
            /\ e'.contact[s].ownership = "Unknown" => h'.net[s] = 0
        BY <1>3, <3>1, <3>2, <4>1, CountGoesOn DEF FingerSlid
      <4> QED BY <1>3, <3>1, <4>2 DEF FingerSlid
    <3> QED BY <3>3
  <2> QED BY <2>1, <2>2
<1>5. \A s \in Slots : FingerStarts(s)'
  BY <1>2, <1>3, StartsKept
<1>6. \A s \in Slots : SameFinger(e.contact[s], e'.contact[s])
  BY <1>2 DEF ContactKept
<1> QED BY <1>1, <1>2, <1>4, <1>5, <1>6, EventSlid DEF SameFinger

\* A new finger has moved no slider.
LEMMA DownSlides ==
  ASSUME TypeInv, PadInv, SlideInv, InSync, HUpdate, ContactDown,
         ~IsActive(e, e.current_slot)
  PROVE  SlideInv'
<1> DEFINE cs == e.current_slot
           id == CurrentEvent.value
           b == BeginContact(e, cs, id)
<1>1. /\ e \in EngineState /\ cs \in Slots /\ stamp \in Int /\ e' = Settle(b)
      /\ phase = "events" /\ phase' = "events" /\ frame' = frame /\ at' = at + 1
      /\ AtEvent("TrackingId") /\ CurrentEvent.kind = "TrackingId"
  BY InHand, EventInHand DEF ContactDown, Processed
<1>2. /\ SamePressed(e, e') /\ id \in TrackingIds /\ e'.current_slot = cs
      /\ \A r \in Slots : /\ e'.memory[r].x = e.memory[r].x
                          /\ e'.memory[r].y = e.memory[r].y
                          /\ r # cs => ContactKept(e, e.contact[r], e'.contact[r])
      /\ e'.contact[cs].ownership = "Unknown"
      /\ e'.contact[cs].start_x = None /\ e'.contact[cs].start_y = None
      /\ e'.contact[cs].current_x = None /\ e'.contact[cs].current_y = None
  BY DownView
<1>3. scan.contacts[cs][id] \in FrameTool
  BY <1>1, <1>2, InHand
<1>4. b \in EngineState /\ Rests(e, b)
  BY <1>1, <1>2, <1>3, BeginContactType, BeginRests
<1> HIDE DEF b
<1>5. b.cfg = e.cfg /\ b.current_slot = cs
  BY <1>1, <1>2, <1>4, SettleKept DEF Kept, SameSettings, SamePressed
<1>6. \A s \in Slots : FingerSlid(s) /\ FingerStarts(s) /\ IsDecided(e.contact[s])
  BY DEF SlideInv, PadInv, ContactInv
<1>7. ASSUME NEW s \in Slots PROVE Follows(s, b.current_slot)
  <2>1. CASE s = cs
    BY <1>2, <1>5, <2>1 DEF Follows, OnPad
  <2>2. CASE s # cs
    BY <1>2, <1>6, <2>2, KeptFollows
  <2> QED BY <2>1, <2>2
<1>8. \A s \in Slots : FingerSlid(s)'
  BY <1>1, <1>4, <1>5, <1>6, <1>7, EventSlides DEF Follows
<1>9. ASSUME NEW s \in Slots PROVE FingerStarts(s)'
  <2>1. CASE s = cs
    BY <1>2, <1>6, <2>1 DEF FingerStarts
  <2>2. CASE s # cs
    BY <1>2, <1>6, <2>2, StartsKept
  <2> QED BY <2>1, <2>2
<1>10. \A s \in Slots \ {cs} : SameFinger(e.contact[s], e'.contact[s])
  BY <1>2 DEF ContactKept
<1> QED BY <1>1, <1>2, <1>8, <1>9, <1>10, EventSlid DEF SameFinger

\* A lifted finger leaves nothing behind.
LEMMA UpSlides ==
  ASSUME TypeInv, PadInv, SlideInv, InSync, HUpdate, ContactUp
  PROVE  SlideInv'
<1> DEFINE cs == e.current_slot
           b == ReleaseCurrentSlot(e, CurrentEvent, stamp)
<1>1. /\ e \in EngineState /\ cs \in Slots /\ stamp \in Int /\ e' = Settle(b)
      /\ phase = "events" /\ phase' = "events" /\ frame' = frame /\ at' = at + 1
      /\ AtEvent("TrackingId") /\ CurrentEvent.kind = "TrackingId"
      /\ CurrentEvent \in Event
  BY InHand, EventInHand DEF ContactUp, Processed
<1>2. /\ SameSettings(e, e')
      /\ \A r \in Slots \ {cs} : ContactKept(e, e.contact[r], e'.contact[r])
      /\ ~IsActive(e, cs) => ContactKept(e, e.contact[cs], e'.contact[cs])
      /\ IsActive(e, cs) => SameFinger(NoContact, e'.contact[cs])
  BY UpView
<1>3. b \in EngineState /\ Rests(e, b)
  BY <1>1, ReleaseCurrentType, ReleaseRests
<1> HIDE DEF b
<1>4. b.cfg = e.cfg /\ b.current_slot = cs
  BY <1>1, <1>2, <1>3, SettleKept DEF Kept, SameSettings
<1>5. \A s \in Slots : FingerSlid(s) /\ FingerStarts(s) /\ IsDecided(e.contact[s])
  BY DEF SlideInv, PadInv, ContactInv
<1>6. ASSUME NEW s \in Slots
      PROVE  \/ ContactKept(e, e.contact[s], e'.contact[s])
             \/ /\ s = cs /\ SameFinger(NoContact, e'.contact[s])
                /\ ~IsActive(e', s) /\ ~e'.contact[s].began_in_frame
                /\ e'.contact[s].start_x = None /\ e'.contact[s].start_y = None
                /\ e'.contact[s].current_x = None /\ e'.contact[s].current_y = None
  BY <1>2, NoContactPlace, NoContactFields DEF SameFinger, IsActive
<1>7. ASSUME NEW s \in Slots PROVE Follows(s, b.current_slot)
  <2>1. CASE ContactKept(e, e.contact[s], e'.contact[s])
    BY <1>5, <2>1, KeptFollows
  <2>2. CASE ~ContactKept(e, e.contact[s], e'.contact[s])
    BY <1>4, <1>6, <2>2 DEF Follows, OnPad
  <2> QED BY <2>1, <2>2
<1>8. \A s \in Slots : FingerSlid(s)'
  BY <1>1, <1>3, <1>4, <1>5, <1>7, EventSlides DEF Follows
<1>9. ASSUME NEW s \in Slots PROVE FingerStarts(s)'
  <2>1. CASE ContactKept(e, e.contact[s], e'.contact[s])
    BY <1>2, <1>5, <2>1, StartsKept DEF SameSettings
  <2>2. CASE ~ContactKept(e, e.contact[s], e'.contact[s])
    BY <1>2, <1>5, <1>6, <2>2 DEF FingerStarts, SameSettings
  <2> QED BY <2>1, <2>2
<1>10. ASSUME NEW s \in Slots, e'.contact[s].began_in_frame
       PROVE  SameFinger(e.contact[s], e'.contact[s])
  BY <1>6, <1>10 DEF ContactKept
<1> QED BY <1>1, <1>2, <1>8, <1>9, <1>10, EventSlid DEF SameFinger, SameSettings

\* A coordinate: the current finger moves, or starts where the frame puts it.
LEMMA PositionSlides ==
  ASSUME PlacesOnPad, AxesOnce, TypeInv, PadInv, SlideInv, InSync, HUpdate, Position
  PROVE  SlideInv'
<1> DEFINE cs == e.current_slot
           c == e.contact[cs]
           d == e'.contact[cs]
           v == CurrentEvent.value
           isX == CurrentEvent.kind = "X"
           b == IF isX THEN PlaceX(e, cs, v) ELSE PlaceY(e, cs, v)
           ended == EndSpoiledPair(b, cs)
<1>1. /\ e \in EngineState /\ cs \in Slots /\ CurrentEvent \in Event
      /\ v \in Int /\ isX \in BOOLEAN /\ CurrentEvent.kind \in {"X", "Y"}
      /\ phase = "events" /\ phase' = "events" /\ frame' = frame /\ at' = at + 1
      /\ at \in DOMAIN frame.events /\ CurrentEvent = frame.events[at]
      /\ at \in Nat \ {0}
  <2>1. /\ CurrentEvent \in Event /\ CurrentEvent.value \in Int /\ phase = "events"
        /\ at \in DOMAIN frame.events /\ CurrentEvent = frame.events[at]
        /\ CurrentEvent.kind \in {"X", "Y"}
    BY EventInHand DEF Position
  <2>2. at \in Nat \ {0}
    BY <2>1 DEF TypeInv, TypeOK, Frame
  <2> QED BY <2>1, <2>2, InHand DEF Position, Processed
<1>2. frame \in Frames \cup OddFrames
  BY <1>1 DEF TypeInv, FrameInHand, NoFrame
<1>3. v \in Nat /\ v # None
  BY <1>1, <1>2 DEF PlacesOnPad, None
<1>4. e' = Settle(RouteEvent(ended, CurrentEvent))
  BY DEF Position, Processed
<1>5. /\ SamePressed(e, e') /\ e'.current_slot = cs
      /\ \A r \in Slots \ {cs} : /\ e'.memory[r] = e.memory[r]
                                 /\ ContactKept(e, e.contact[r], e'.contact[r])
      /\ e'.memory[cs].x = IF isX THEN v ELSE e.memory[cs].x
      /\ e'.memory[cs].y = IF isX THEN e.memory[cs].y ELSE v
      /\ ~IsActive(e, cs) => ContactKept(e, c, d)
      /\ IsActive(e, cs) =>
           \E m \in Contact : /\ MovedTo(c, m, isX, v) /\ m.ownership = c.ownership
                              /\ ContactKept(e, m, d)
  BY PositionView
<1> HIDE DEF v, isX
<1>6. /\ b \in EngineState /\ SamePressed(e, b) /\ b.current_slot = cs
      /\ Rests(e, b)
  BY <1>1, PlaceView, PlaceRests
<1> HIDE DEF b
<1>7. /\ ended \in EngineState /\ Rests(e, ended) /\ ended.cfg = e.cfg
      /\ ended.current_slot = cs
  BY <1>1, <1>6, EndSpoiledKept, EndSpoiledRests, RestsOn
  DEF Kept, SameSettings, SamePressed
<1> HIDE DEF ended
<1>8. \A s \in Slots : FingerSlid(s) /\ FingerStarts(s) /\ IsDecided(e.contact[s])
  BY DEF SlideInv, PadInv, ContactInv
<1>9. IsActive(e, cs) =>
        /\ d.tracking_id = c.tracking_id /\ d.began_in_frame = c.began_in_frame
        /\ d.start_x = IF isX THEN OrElse(c.start_x, v) ELSE c.start_x
        /\ d.current_x = IF isX THEN v ELSE c.current_x
        /\ d.start_y = IF isX THEN c.start_y ELSE OrElse(c.start_y, v)
        /\ d.current_y = IF isX THEN c.current_y ELSE v
        /\ d.ownership = "Unknown" => c.ownership = "Unknown"
  <2> HIDE DEF c, d
  <2> QED BY <1>5 DEF MovedTo, ContactKept, SameFinger, SameOwner
<1>10. ASSUME NEW s \in Slots PROVE Follows(s, ended.current_slot)
  <2>1. CASE ContactKept(e, e.contact[s], e'.contact[s])
    BY <1>8, <2>1, KeptFollows
  <2>2. CASE s = cs /\ IsActive(e, s)
    <3>1. OnPad(c) /\ InPlace(c)
      BY <1>8, <2>2 DEF FingerSlid, OnSlider
    <3>2. OnPad(d)
      BY <1>3, <1>9, <2>2, <3>1 DEF OnPad, OrElse
    <3>3. /\ d.start_x # None => d.current_x # None
          /\ d.start_y # None => d.current_y # None
          /\ IsPlaced(c) => d.start_x = c.start_x /\ d.start_y = c.start_y
      BY <1>3, <1>9, <2>2, <3>1 DEF InPlace, OrElse, IsPlaced
    <3> QED BY <1>7, <1>9, <2>2, <3>2, <3>3 DEF Follows
  <2> QED BY <1>5, <2>1, <2>2
<1>11. \A s \in Slots : FingerSlid(s)'
  BY <1>1, <1>4, <1>7, <1>8, <1>10, RoutedSlides
<1>12. PICK k \in [slot : Slots] : AxesFrom(k)
  BY <1>1 DEF SlideInv
<1>13. SlotFrom(k, frame.events, at) = cs
  BY <1>1, <1>12, SlotNext DEF AxesFrom
<1>14. ASSUME NEW kind \in {"X", "Y"}, frame.events[at].kind = kind
       PROVE  ~GivenBefore(k, frame.events, at, kind, cs)
  <2>1. SUFFICES ASSUME NEW j \in 1..(at - 1), frame.events[j].kind = kind,
                        SlotFrom(k, frame.events, j) = cs
                 PROVE  FALSE
    BY DEF GivenBefore
  <2>2. j \in DOMAIN frame.events /\ j < at
    BY <1>1 DEF TypeInv, TypeOK, Frame
  <2> QED BY <1>1, <1>2, <1>13, <1>14, <2>1, <2>2 DEF AxesOnce
<1>15. c.began_in_frame => IF isX THEN c.current_x = None ELSE c.current_y = None
  BY <1>1, <1>12, <1>14 DEF AxesFrom, isX
<1>16. ASSUME NEW s \in Slots PROVE FingerStarts(s)'
  <2>1. CASE s # cs
    BY <1>5, <1>8, <2>1, StartsKept
  <2>2. CASE s = cs
    <3>1. e'.memory[s].x \in Nat /\ e'.memory[s].y \in Nat
      BY <1>3, <1>5, <1>8, <2>2 DEF FingerStarts
    <3>2. c.began_in_frame => c.start_x = c.current_x /\ c.start_y = c.current_y
      BY <1>8, <2>2 DEF FingerStarts
    <3>3. ASSUME d.began_in_frame PROVE d.start_x = d.current_x /\ d.start_y = d.current_y
      <4>1. CASE IsActive(e, cs)
        <5>1. /\ c.began_in_frame
              /\ c.start_x = c.current_x /\ c.start_y = c.current_y
              /\ IF isX THEN c.current_x = None ELSE c.current_y = None
          BY <1>9, <1>15, <3>2, <3>3, <4>1
        <5> HIDE DEF c, d
        <5> QED BY <1>9, <4>1, <5>1 DEF OrElse
      <4>2. CASE ~IsActive(e, cs)
        BY <1>5, <3>2, <3>3, <4>2 DEF ContactKept, SameFinger
      <4> QED BY <4>1, <4>2
    <3> QED BY <2>2, <3>1, <3>3 DEF FingerStarts
  <2> QED BY <2>1, <2>2
<1>17. ASSUME NEW s \in Slots, e'.contact[s].began_in_frame
       PROVE  /\ e'.contact[s].current_x # None =>
                   \/ e.contact[s].began_in_frame /\ e.contact[s].current_x # None
                   \/ GivenBefore(k, frame.events, at + 1, "X", s)
              /\ e'.contact[s].current_y # None =>
                   \/ e.contact[s].began_in_frame /\ e.contact[s].current_y # None
                   \/ GivenBefore(k, frame.events, at + 1, "Y", s)
  <2>1. CASE ContactKept(e, e.contact[s], e'.contact[s])
    BY <1>17, <2>1 DEF ContactKept, SameFinger
  <2>2. CASE s = cs /\ IsActive(e, s)
    <3>1. at \in 1..((at + 1) - 1)
      BY <1>1
    <3>2. frame.events[at].kind = IF isX THEN "X" ELSE "Y"
      BY <1>1 DEF isX
    <3>3. GivenBefore(k, frame.events, at + 1, IF isX THEN "X" ELSE "Y", cs)
      BY <1>13, <3>1, <3>2 DEF GivenBefore
    <3> QED BY <1>9, <1>17, <2>2, <3>3
  <2> QED BY <1>5, <2>1, <2>2
<1>18. AxesFrom(k)'
  BY <1>1, <1>5, <1>12, <1>17, AxesGoOn
<1>19. \E l \in [slot : Slots] : AxesFrom(l)'
  BY <1>18
<1> QED BY <1>11, <1>16, <1>19 DEF SlideInv

\* A step that moves no finger and no slider, only what is pending or known.
LEMMA RestSlides ==
  ASSUME HUpdate, TypeInv, \A s \in Slots : FingerSlid(s) /\ FingerStarts(s) /\ ~Began(s),
         e'.cfg = e.cfg, e'.slider_steps = e.slider_steps,
         \A s \in Slots : /\ Anchored(e.contact[s], e'.contact[s])
                          /\ SamePlace(e.contact[s], e'.contact[s])
                          /\ SameOwner(e.contact[s], e'.contact[s])
                          /\ e'.memory[s].x = e.memory[s].x
                          /\ e'.memory[s].y = e.memory[s].y
  PROVE  \A s \in Slots : FingerSlid(s)' /\ FingerStarts(s)'
<1> TAKE s \in Slots
<1> DEFINE c == e.contact[s]
           d == e'.contact[s]
           n == h.net[s]
<1>1. /\ Anchored(c, d) /\ SamePlace(c, d) /\ SameOwner(c, d) /\ e'.cfg = e.cfg
      /\ OnSlider(e.cfg, c, n) /\ Near(e.cfg, c) /\ Undecided(c)
      /\ c.ownership = "Unknown" => n = 0
  BY DEF FingerSlid
<1>2. n + NetOf(e, e', s) = n
  <2>1. NetOf(e, e', s) = 0
    BY InHand, NoSteps
  <2> QED BY <1>1, <2>1 DEF OnSlider
<1> HIDE DEF c, d, n
<1>3. OnSlider(e'.cfg, d, n)
  <2>1. OnPad(c) /\ InPlace(c) /\ Counted(e.cfg, c, n) /\ n \in Int
    BY <1>1 DEF OnSlider
  <2>2. /\ d.tracking_id = c.tracking_id
        /\ d.start_x = c.start_x /\ d.start_y = c.start_y
        /\ d.current_x = c.current_x /\ d.current_y = c.current_y
    BY <1>1 DEF SamePlace
  <2>3. Counted(e.cfg, d, n)
    BY <1>1, <2>1, <2>2, AnchoredCounts
  <2>4. OnPad(d)
    BY <2>1, <2>2 DEF OnPad
  <2>5. InPlace(d)
    BY <1>1, <2>1, <2>2 DEF InPlace, Anchored, IsClaimed, IsPlaced
  <2> QED BY <1>1, <2>1, <2>3, <2>4, <2>5 DEF OnSlider
<1>4. /\ OnSlider(e'.cfg, d, h'.net[s])
      /\ d.ownership = "Unknown" => h'.net[s] = 0
  <2>1. d.ownership = "Unknown" => n = 0
    BY <1>1 DEF SameOwner
  <2> QED BY <1>2, <1>3, <2>1, CountGoesOn DEF d, n
<1>5. Near(e'.cfg, d) /\ Undecided(d)
  <2>1. d.current_x = c.current_x /\ d.current_y = c.current_y
    BY <1>1 DEF SamePlace
  <2> QED BY <1>1, <2>1, AnchoredIsNear DEF Anchored
<1>6. FingerSlid(s)'
  BY <1>4, <1>5 DEF FingerSlid, d
<1>7. FingerStarts(s)'
  BY <1>1 DEF FingerStarts, SamePlace, c, d
<1> QED BY <1>6, <1>7

LEMMA SamePlaceItself ==
  ASSUME NEW c
  PROVE  SamePlace(c, c) /\ SameOwner(c, c) /\ Anchored(c, c)
BY DEF SamePlace, SameOwner, Anchored

LEMMA KeptPlace ==
  ASSUME NEW en, NEW c, NEW d, ContactKept(en, c, d)
  PROVE  SamePlace(c, d) /\ SameOwner(c, d)
BY DEF ContactKept, SameFinger, SamePlace

LEMMA StillSlides ==
  ASSUME HUpdate, TypeInv, SlideInv, e' = e, \A s \in Slots : ~Began(s),
         InSync' => InSync, phase' # "events"
  PROVE  SlideInv'
<1> SUFFICES ASSUME InSync' PROVE \A s \in Slots : FingerSlid(s)' /\ FingerStarts(s)'
  BY DEF SlideInv
<1>1. \A s \in Slots : /\ Anchored(e.contact[s], e'.contact[s])
                       /\ SamePlace(e.contact[s], e'.contact[s])
                       /\ SameOwner(e.contact[s], e'.contact[s])
  BY SamePlaceItself
<1>2. \A s \in Slots : FingerSlid(s) /\ FingerStarts(s) /\ ~Began(s)
  BY DEF SlideInv
<1> QED BY <1>1, <1>2, RestSlides

LEMMA StartSlides ==
  ASSUME TypeInv, PadInv, SlideInv, HUpdate,
         NEW f \in Frames \cup OddFrames, NEW t \in Stamps, StartFrame(f, t)
  PROVE  SlideInv'
<1> DEFINE codes == Codes(f.buttons, TRUE)
<1>1. /\ phase = "idle" /\ phase' = "scan" /\ ~e.resync_required
      /\ e' = PressButtons(e, codes) /\ e \in EngineState
  BY InHand DEF StartFrame, PadInv, BetweenFrames
<1>2. codes \in SUBSET Buttons
  <2>1. f \in Frame
    BY FramesAssumption
  <2>2. \A i \in DOMAIN f.buttons : f.buttons[i] \in Button
    BY <2>1 DEF Frame
  <2> QED BY <2>2 DEF Codes, Button
<1>3. Rests(e, e')
  BY <1>1, <1>2, PressButtonsRests
<1>4. /\ e'.cfg = e.cfg /\ e'.memory = e.memory
      /\ \A s \in Slots : /\ SameFinger(e.contact[s], e'.contact[s])
                          /\ SameOwner(e.contact[s], e'.contact[s])
                          /\ ClaimIsSound(e, e.contact[s], e'.contact[s])
  BY StartView
<1>5. \A s \in Slots : /\ Anchored(e.contact[s], e'.contact[s])
                       /\ SamePlace(e.contact[s], e'.contact[s])
                       /\ SameOwner(e.contact[s], e'.contact[s])
  BY <1>3, <1>4 DEF Rests, SameFinger, SamePlace
<1>6. \A s \in Slots : FingerSlid(s) /\ FingerStarts(s) /\ ~Began(s)
  BY <1>1 DEF SlideInv, InSync, Began
<1>7. \A s \in Slots : FingerSlid(s)' /\ FingerStarts(s)'
  BY <1>3, <1>4, <1>5, <1>6, RestSlides DEF Rests
<1> QED BY <1>1, <1>7 DEF SlideInv

LEMMA SlotStarts ==
  ASSUME NEW k, NEW evs
  PROVE  SlotFrom(k, evs, 0) = k.slot
<1>1. 1..0 = {}
  OBVIOUS
<1> QED BY <1>1 DEF SlotFrom

LEMMA BeginSlides ==
  ASSUME TypeInv, PadInv, SlideInv, HUpdate, BeginEvents
  PROVE  SlideInv'
<1> SUFFICES ASSUME InSync' PROVE SlideInv'
  BY DEF SlideInv
<1>1. /\ phase = "scan" /\ phase' = "events" /\ at' = 1 /\ frame' = frame
      /\ e \in EngineState
  BY InHand DEF BeginEvents
<1>2. /\ SameSettings(e, e')
      /\ \A s \in Slots : /\ SamePlace(e.contact[s], e'.contact[s])
                          /\ SameOwner(e.contact[s], e'.contact[s])
  BY BeginEventsView
<1>3. Rests(e, e')
  <2> DEFINE en == RejectPalms(e)
             out == ExpirePendingTap(en, stamp)
  <2>1. en \in EngineState /\ Rests(e, en)
    BY <1>1, RejectPalmsType, RejectPalmsRests
  <2>2. e' = IF stamp = None THEN en ELSE out
    BY DEF BeginEvents
  <2> HIDE DEF en
  <2>3. Rests(en, out)
    BY <2>1, ExpireRests
  <2> HIDE DEF out
  <2> QED BY <2>1, <2>2, <2>3, RestsOn
<1>4. InSync
  BY <1>1, <1>2 DEF InSync, SameSettings
<1>5. \A s \in Slots : FingerSlid(s) /\ FingerStarts(s) /\ ~Began(s)
  BY <1>1, <1>4 DEF SlideInv, Began
<1>6. \A s \in Slots : FingerSlid(s)' /\ FingerStarts(s)'
  BY <1>2, <1>3, <1>5, RestSlides DEF Rests, SameSettings
<1>7. PICK k \in [slot : Slots] : k.slot = e.current_slot
  <2>1. [slot |-> e.current_slot] \in [slot : Slots]
    BY InHand
  <2> QED BY <2>1
<1>8. e'.current_slot = SlotFrom(k, frame'.events, at' - 1)
  <2>1. at' - 1 = 0
    BY <1>1
  <2>2. SlotFrom(k, frame'.events, 0) = e.current_slot
    BY <1>7, SlotStarts
  <2> QED BY <1>2, <2>1, <2>2 DEF SameSettings
<1>9. \A s \in Slots : ~e'.contact[s].began_in_frame
  BY <1>1, <1>2 DEF PadInv, ContactInv, SamePlace
<1>10. AxesFrom(k)'
  BY <1>8, <1>9 DEF AxesFrom
<1>11. \E l \in [slot : Slots] : AxesFrom(l)'
  BY <1>10
<1> QED BY <1>6, <1>11 DEF SlideInv

\* A kept memory names places on the pad.
LEMMA MemoryOnPad ==
  ASSUME NEW memory \in [Slots -> Memory],
         \A s \in Slots : memory[s].x \in Nat /\ memory[s].y \in Nat
  PROVE  \A s \in Slots : /\ SeededMemory(memory)[s].x \in Nat
                          /\ SeededMemory(memory)[s].y \in Nat
<1> TAKE s \in Slots
<1>1. memory[s] \in Memory
  OBVIOUS
<1>2. \A m \in Memory : LET k == [m EXCEPT !.tool_type = None]
                        IN k.x = m.x /\ k.y = m.y
  BY DEF Memory
<1> QED BY <1>1, <1>2 DEF SeededMemory

\* The end of the frame for one slot: a new finger's slider starts.
LEMMA FinalizeSlides ==
  ASSUME TypeInv, PadInv, SlideInv, HUpdate, FinalizeSlot
  PROVE  SlideInv'
<1> SUFFICES ASSUME InSync' PROVE SlideInv'
  BY DEF SlideInv
<1>1. /\ phase = "finalize" /\ phase' = "finalize" /\ e \in EngineState
      /\ at \in Slots /\ e' = FinalizeContact(e, at) /\ SameSettings(e, e')
      /\ \A r \in Slots \ {at} : ContactKept(e, e.contact[r], e'.contact[r])
  BY InHand, FinalizeView DEF FinalizeSlot
<1>2. \A s \in Slots : FingerSlid(s) /\ FingerStarts(s) /\ ~Began(s)
  BY <1>1 DEF SlideInv, InSync, SameSettings, Began
<1> DEFINE n == h.net
<1>3. /\ \A r \in Slots : OnSlider(e.cfg, e.contact[r], n[r]) /\ Near(e.cfg, e.contact[r])
      /\ e.memory[at].x \in Nat /\ e.memory[at].y \in Nat
      /\ LET c == e.contact[at]
         IN c.began_in_frame => /\ c.ownership = "Unknown" /\ n[at] = 0
                                /\ c.start_x = c.current_x /\ c.start_y = c.current_y
  BY <1>1, <1>2 DEF FingerSlid, FingerStarts, Undecided
<1> HIDE DEF n
<1>4. \A r \in Slots :
        /\ OnSlider(e.cfg, e'.contact[r], n[r] + NetOf(e, e', r))
        /\ Near(e.cfg, e'.contact[r])
        /\ ~IsClaimed(e.contact[r]) /\ e'.contact[r].ownership = "Unknown"
             => NetOf(e, e', r) = 0
        /\ Undecided(e.contact[r]) => Undecided(e'.contact[r])
  BY <1>1, <1>3, FinalizeOnSlider
<1>5. ASSUME NEW s \in Slots
      PROVE  e'.contact[s].ownership = "Unknown" => e.contact[s].ownership = "Unknown"
  <2>1. CASE s # at
    BY <1>1, <2>1 DEF ContactKept, SameOwner
  <2>2. CASE s = at
    <3>1. CASE e.contact[at].began_in_frame
      BY <1>3, <2>2, <3>1
    <3>2. CASE ~e.contact[at].began_in_frame
      <4>1. e' = e
        BY <3>2, FinalizeView
      <4> QED BY <4>1
    <3> QED BY <3>1, <3>2, <2>2
  <2> QED BY <2>1, <2>2
<1>6. ASSUME NEW s \in Slots PROVE FingerSlid(s)'
  <2> DEFINE d == e'.contact[s]
             m == NetOf(e, e', s)
  <2>1. OnSlider(e'.cfg, d, n[s] + m)
    BY <1>1, <1>4 DEF SameSettings
  <2>2. d.ownership = "Unknown" => n[s] + m = 0
    <3>1. d.ownership = "Unknown" => n[s] = 0 /\ e.contact[s].ownership = "Unknown"
      BY <1>2, <1>5 DEF FingerSlid, n
    <3>2. d.ownership = "Unknown" => m = 0
      BY <1>4, <3>1 DEF IsClaimed, Zones
    <3> HIDE DEF m
    <3> QED BY <3>1, <3>2
  <2>3. /\ OnSlider(e'.cfg, d, h'.net[s])
        /\ d.ownership = "Unknown" => h'.net[s] = 0
    BY <1>2, <2>1, <2>2, CountGoesOn DEF n
  <2>4. Near(e'.cfg, d) /\ Undecided(d)
    BY <1>1, <1>2, <1>4 DEF SameSettings, FingerSlid
  <2> QED BY <2>3, <2>4 DEF FingerSlid
<1>7. ASSUME NEW s \in Slots PROVE FingerStarts(s)'
  <2>1. e'.memory = e.memory
    BY <1>1 DEF SameSettings
  <2>2. CASE ContactKept(e, e.contact[s], e'.contact[s])
    BY <1>2, <2>1, <2>2, StartsKept
  <2>3. CASE s = at
    <3>1. ~e'.contact[s].began_in_frame
      <4>1. CASE e.contact[at].began_in_frame
        <5>1. PICK k \in Contact : /\ PlacedFrom(e.contact[at], k, e.memory[at])
                                   /\ ContactKept(e, k, e'.contact[at])
          BY <4>1, FinalizeView
        <5> QED BY <2>3, <5>1 DEF PlacedFrom, ContactKept, SameFinger
      <4>2. CASE ~e.contact[at].began_in_frame
        <5>1. e' = e
          BY <4>2, FinalizeView
        <5> QED BY <2>3, <4>2, <5>1
      <4> QED BY <4>1, <4>2
    <3> QED BY <1>2, <2>1, <3>1 DEF FingerStarts
  <2> QED BY <1>1, <2>2, <2>3
<1> QED BY <1>1, <1>6, <1>7 DEF SlideInv

\* The reported steps go to the caller, the count of them stays.
LEMMA NothingNew ==
  ASSUME NEW en, NEW out, out.slider_steps = <<>>, en.slider_steps \in Seq(SliderStep)
  PROVE  \A s : NetOf(en, out, s) = 0
<1>1. \A s, directions : StepsOf(en, out, s, directions) = {}
  <2>1. Len(en.slider_steps) \in Nat /\ Len(out.slider_steps) = 0
    OBVIOUS
  <2>2. (Len(en.slider_steps) + 1)..Len(out.slider_steps) = {}
    BY <2>1
  <2> QED BY <2>2 DEF StepsOf
<1>2. Cardinality({}) = 0
  BY FS_EmptySet
<1>3. 0 - 0 = 0
  OBVIOUS
<1> QED BY <1>1, <1>2, <1>3 DEF NetOf

LEMMA EndSlides ==
  ASSUME TypeInv, PadInv, SlideInv, HUpdate, EndFrame
  PROVE  SlideInv'
<1> SUFFICES ASSUME InSync' PROVE SlideInv'
  BY DEF SlideInv
<1>1. /\ phase = "finalize" /\ phase' # "events" /\ ~e.resync_required
      /\ e \in EngineState
  BY InHand DEF EndFrame, InSync
<1>2. e'.cfg = e.cfg /\ e'.memory = e.memory /\ e'.contact = e.contact
  BY EndView
<1>3. e'.slider_steps = <<>> /\ e.slider_steps \in Seq(SliderStep)
  BY <1>1 DEF EndFrame, ClearOutput, EngineState
<1>4. \A s \in Slots : NetOf(e, e', s) = 0
  BY <1>3, NothingNew
<1>5. \A s \in Slots : FingerSlid(s) /\ FingerStarts(s) /\ ~Began(s)
  BY <1>1 DEF SlideInv, InSync, Began
<1>6. ASSUME NEW s \in Slots PROVE FingerSlid(s)'
  <2>1. h.net[s] + NetOf(e, e', s) = h.net[s]
    BY <1>4, <1>5 DEF FingerSlid, OnSlider
  <2>2. /\ OnSlider(e'.cfg, e'.contact[s], h'.net[s])
        /\ e'.contact[s].ownership = "Unknown" => h'.net[s] = 0
    BY <1>2, <1>5, <2>1, CountGoesOn DEF FingerSlid
  <2> QED BY <1>2, <1>5, <2>2 DEF FingerSlid
<1>7. \A s \in Slots : FingerStarts(s)'
  BY <1>2, <1>5 DEF FingerStarts
<1> QED BY <1>1, <1>6, <1>7 DEF SlideInv

LEMMA AdvanceSlides ==
  ASSUME TypeInv, PadInv, SlideInv, HUpdate, AdvanceTime
  PROVE  SlideInv'
<1>1. /\ phase = "idle" /\ phase' = "finalize" /\ e \in EngineState
      /\ e' = ExpirePendingTap(e, NextDeadline(e)) /\ ~e.resync_required
  BY InHand DEF AdvanceTime, Output, PadInv, BetweenFrames
<1>2. Rests(e, e') /\ Kept(e, e')
  BY <1>1, ExpireRests, AdvanceView
<1>3. \A s \in Slots : FingerSlid(s) /\ FingerStarts(s) /\ ~Began(s)
  BY <1>1 DEF SlideInv, InSync, Began
<1>4. \A s \in Slots : FingerSlid(s)' /\ FingerStarts(s)'
  BY <1>2, <1>3, KeptPlace, RestSlides DEF Rests, Kept, SameSettings
<1> QED BY <1>1, <1>4 DEF SlideInv

\* A finger nothing claims is on no slider.
LEMMA FreeFinger ==
  ASSUME NEW cfg, NEW c, NEW n \in Int, ~IsClaimed(c), OnPad(c), ~c.began_in_frame,
         c.start_x = c.current_x, c.start_y = c.current_y
  PROVE  OnSlider(cfg, c, n) /\ Near(cfg, c) /\ Undecided(c)
BY DEF OnSlider, InPlace, Counted, Near, Undecided

\* Restored fingers are forwarded; the sliders start anew.
LEMMA ResyncSlides ==
  ASSUME PlacesOnPad, TypeInv, HUpdate, \A s \in Slots : h'.net[s] \in Int,
         NEW snapshot \in Snapshots, Resync(snapshot)
  PROVE  SlideInv'
<1> DEFINE seeded == SeededMemory(snapshot.memory)
<1>1. phase' = "finalize"
  BY DEF Resync, Output
<1>2. /\ e'.memory = seeded
      /\ \A s \in Slots :
           LET d == e'.contact[s]
           IN /\ d.tracking_id = snapshot.ids[s] /\ ~d.began_in_frame /\ ~IsClaimed(d)
              /\ d.tracking_id # None => d.ownership = "Passthrough"
              /\ d.start_x = d.current_x /\ d.start_y = d.current_y
              /\ d.start_x \in {None, seeded[s].x} /\ d.start_y \in {None, seeded[s].y}
  BY ResyncView
<1>3. \A s \in Slots : seeded[s].x \in Nat /\ seeded[s].y \in Nat
  BY SnapshotsAssumption, MemoryOnPad DEF PlacesOnPad, Snapshot
<1> HIDE DEF seeded
<1>4. ASSUME NEW s \in Slots PROVE FingerSlid(s)'
  <2> DEFINE d == e'.contact[s]
  <2>1. /\ d.tracking_id = snapshot.ids[s] /\ ~d.began_in_frame /\ ~IsClaimed(d)
        /\ d.tracking_id # None => d.ownership = "Passthrough"
        /\ d.start_x = d.current_x /\ d.start_y = d.current_y
        /\ d.start_x \in {None, seeded[s].x} /\ d.start_y \in {None, seeded[s].y}
    BY <1>2
  <2>2. d.ownership = "Unknown" => h'.net[s] = 0
    <3>1. d.ownership = "Unknown" => ~IsActive(e', s)
      BY <2>1 DEF IsActive
    <3> QED BY <3>1, NetAfter
  <2> HIDE DEF d
  <2>3. OnPad(d)
    BY <1>3, <2>1 DEF OnPad
  <2>4. OnSlider(e'.cfg, d, h'.net[s]) /\ Near(e'.cfg, d) /\ Undecided(d)
    BY <2>1, <2>3, FreeFinger
  <2> QED BY <2>2, <2>4 DEF FingerSlid, d
<1>5. \A s \in Slots : FingerStarts(s)'
  BY <1>2, <1>3 DEF FingerStarts
<1> QED BY <1>1, <1>4, <1>5 DEF SlideInv

\* Another profile: no finger is down that a slider could follow.
LEMMA ReloadSlides ==
  ASSUME TypeInv, PadInv, SlideInv, HUpdate, \A s \in Slots : h'.net[s] \in Int,
         NEW cfg \in Configs, Reload(cfg)
  PROVE  SlideInv'
<1>1. /\ e'.contact = e.contact /\ e'.memory = e.memory /\ phase' = "idle"
      /\ phase = "idle" /\ ~e.resync_required
      /\ \A s \in Slots : ~IsActive(e, s) /\ ~IsActive(e', s)
  BY ReloadView DEF Reload, IsActive, PadInv, BetweenFrames
<1>2. \A s \in Slots : FingerSlid(s) /\ FingerStarts(s)
  BY <1>1 DEF SlideInv, InSync
<1>3. ASSUME NEW s \in Slots PROVE FingerSlid(s)'
  <2> DEFINE c == e.contact[s]
  <2>1. e'.contact[s] = c /\ ~IsActive(e', s)
    BY <1>1
  <2>2. h'.net[s] = 0
    BY <2>1, NetAfter
  <2>3. OnPad(c) /\ InPlace(c) /\ Undecided(c) /\ c.tracking_id = None
    BY <1>1, <1>2 DEF FingerSlid, OnSlider, IsActive
  <2> HIDE DEF c
  <2>4. ~(IsClaimed(c) /\ ~c.gesture_rejected)
    BY <2>3 DEF InPlace
  <2>5. OnSlider(e'.cfg, c, 0) /\ Near(e'.cfg, c)
    BY <2>3, <2>4 DEF OnSlider, Counted, Near
  <2> QED BY <2>1, <2>2, <2>3, <2>5 DEF FingerSlid
<1>4. \A s \in Slots : FingerStarts(s)'
  BY <1>1, <1>2 DEF FingerStarts
<1> QED BY <1>1, <1>3, <1>4 DEF SlideInv

NetsAreWhole == \A s \in Slots : h.net[s] \in Int

LEMMA NetIsWhole ==
  ASSUME NEW en \in EngineState, NEW out \in EngineState, NEW s
  PROVE  NetOf(en, out, s) \in Int
<1> DEFINE new == (Len(en.slider_steps) + 1)..Len(out.slider_steps)
<1>1. Len(en.slider_steps) + 1 \in Int /\ Len(out.slider_steps) \in Int
  BY DEF EngineState
<1>2. IsFiniteSet(new)
  BY <1>1, FS_Interval
<1>3. \A directions : StepsOf(en, out, s, directions) \in SUBSET new
  BY DEF StepsOf
<1> HIDE DEF new
<1>4. \A directions : Cardinality(StepsOf(en, out, s, directions)) \in Nat
  BY <1>2, <1>3, FS_Subset, FS_CardinalityType
<1> QED BY <1>4 DEF NetOf

LEMMA NetsStayWhole ==
  ASSUME TypeInv, TypeInv', NetsAreWhole, HUpdate
  PROVE  NetsAreWhole'
<1>1. ASSUME NEW s \in Slots PROVE h'.net[s] \in Int
  <2>1. NetOf(e, e', s) \in Int
    BY NetIsWhole DEF TypeInv, TypeOK
  <2>2. h.net[s] \in Int
    BY DEF NetsAreWhole
  <2> QED BY <2>1, <2>2, NetAfter
<1> QED BY <1>1 DEF NetsAreWhole

SliderInv == SlideInv /\ NetsAreWhole

LEMMA InitSlides == PlacesOnPad /\ HInit => SliderInv
<1> SUFFICES ASSUME PlacesOnPad, HInit PROVE SliderInv
  OBVIOUS
<1>1. PICK cfg \in Configs : e = NewEngine(cfg, SeededMemory(StartMemory))
  BY DEF HInit, Init
<1>2. /\ e.contact = [s \in Slots |-> NoContact]
      /\ e.memory = SeededMemory(StartMemory)
  BY <1>1 DEF NewEngine
<1>3. phase = "idle" /\ h.net = [s \in Slots |-> 0]
  BY DEF HInit, Init
<1>4. \A s \in Slots : e.memory[s].x \in Nat /\ e.memory[s].y \in Nat
  BY <1>2, MemoryAssumption, MemoryOnPad DEF PlacesOnPad
<1>5. ASSUME NEW s \in Slots PROVE FingerSlid(s) /\ FingerStarts(s)
  <2>1. e.contact[s] = NoContact /\ h.net[s] = 0
    BY <1>2, <1>3
  <2>2. OnPad(NoContact) /\ ~NoContact.began_in_frame /\ ~IsClaimed(NoContact)
    BY NoContactFields, NoContactPlace DEF OnPad, IsClaimed, Zones
  <2>3. OnSlider(e.cfg, NoContact, 0) /\ Near(e.cfg, NoContact) /\ Undecided(NoContact)
    BY <2>2, NoContactPlace, FreeFinger
  <2> QED BY <1>4, <2>1, <2>2, <2>3 DEF FingerSlid, FingerStarts
<1> QED BY <1>3, <1>5 DEF SliderInv, SlideInv, NetsAreWhole

LEMMA StepSlides ==
  ASSUME PlacesOnPad, AxesOnce, TypeInv, TypeInv', PadInv, SliderInv, [HNext]_hvars
  PROVE  SliderInv'
<1>u. CASE UNCHANGED hvars
  BY <1>u DEF hvars, vars, SliderInv, SlideInv, NetsAreWhole, InSync, FingerSlid,
              FingerStarts, AxesFrom, GivenBefore
<1> SUFFICES ASSUME Next, HUpdate PROVE SliderInv'
  BY <1>u DEF HNext
<1>s. SlideInv /\ NetsAreWhole
  BY DEF SliderInv
<1>n. NetsAreWhole'
  BY <1>s, NetsStayWhole
<1> SUFFICES SlideInv'
  BY <1>n DEF SliderInv
<1>w. \A s \in Slots : h'.net[s] \in Int
  BY <1>n DEF NetsAreWhole
<1>q. ASSUME e' = e, phase # "resync", phase' # "events", phase # "events"
      PROVE  SlideInv'
  BY <1>q, <1>s, StillSlides DEF Began, InSync
<1>f. ASSUME Fail, phase \in {"scan", "events"} PROVE SlideInv'
  <2>1. e' = e /\ phase' = "error" /\ \A s \in Slots : ~Began(s)
    BY <1>f DEF Fail, Began
  <2>2. InSync' => InSync
    BY <1>f, <2>1 DEF InSync
  <2> QED BY <1>s, <2>1, <2>2, StillSlides
<1>o. ASSUME ~InSync, e'.resync_required = e.resync_required, phase # "resync"
      PROVE  SlideInv'
  BY <1>o DEF SlideInv, InSync
<1>1. ASSUME NEW f \in Frames \cup OddFrames, NEW t \in Stamps, StartFrame(f, t)
      PROVE  SlideInv'
  BY <1>1, <1>s, StartSlides
<1>2. CASE ScanEvent
  <2>1. Fail \/ (e' = e /\ phase' = phase)
    BY <1>2 DEF ScanEvent
  <2> QED BY <1>2, <1>f, <1>q, <2>1 DEF ScanEvent
<1>3. CASE BeginEvents
  BY <1>3, <1>s, BeginSlides
<1>4. CASE SlotSwitch
  <2>1. phase = "events"
    BY <1>4 DEF SlotSwitch, AtEvent
  <2>2. CASE CurrentEvent.value \notin Slots
    BY <1>4, <1>f, <2>1, <2>2 DEF SlotSwitch
  <2>3. CASE CurrentEvent.value \in Slots
    <3>1. CASE InSync
      BY <1>4, <1>s, <2>3, <3>1, SwitchSlides
    <3>2. CASE ~InSync
      BY <1>4, <1>o, <2>1, <2>3, <3>2, SwitchView DEF SamePressed
    <3> QED BY <3>1, <3>2
  <2> QED BY <2>2, <2>3
<1>5. CASE ContactDown
  <2>1. phase = "events"
    BY <1>5 DEF ContactDown, AtEvent
  <2>2. CASE IsActive(e, e.current_slot)
    BY <1>5, <1>f, <2>1, <2>2 DEF ContactDown
  <2>3. CASE ~IsActive(e, e.current_slot)
    <3>1. CASE InSync
      BY <1>5, <1>s, <2>3, <3>1, DownSlides
    <3>2. CASE ~InSync
      BY <1>5, <1>o, <2>1, <2>3, <3>2, DownView DEF SamePressed
    <3> QED BY <3>1, <3>2
  <2> QED BY <2>2, <2>3
<1>6. CASE ContactUp
  <2>1. phase = "events"
    BY <1>6 DEF ContactUp, AtEvent
  <2>2. CASE InSync
    BY <1>6, <1>s, <2>2, UpSlides
  <2>3. CASE ~InSync
    BY <1>6, <1>o, <2>1, <2>3, UpView DEF SameSettings
  <2> QED BY <2>2, <2>3
<1>7. CASE ToolType
  <2>1. phase = "events"
    BY <1>7 DEF ToolType, AtEvent
  <2>2. CASE InSync
    BY <1>7, <1>s, <2>2, ToolSlides
  <2>3. CASE ~InSync
    BY <1>7, <1>o, <2>1, <2>3, ToolView DEF SamePressed
  <2> QED BY <2>2, <2>3
<1>8. CASE Position
  <2>1. phase = "events"
    BY <1>8 DEF Position, AtEvent
  <2>2. CASE InSync
    BY <1>8, <1>s, <2>2, PositionSlides
  <2>3. CASE ~InSync
    BY <1>8, <1>o, <2>1, <2>3, PositionView DEF SamePressed
  <2> QED BY <2>2, <2>3
<1>9. CASE SynDropped
  <2>1. e'.resync_required
    BY <1>9, DroppedView
  <2> QED BY <2>1 DEF SlideInv, InSync
<1>10. CASE EventsDone
  BY <1>10, <1>s, StillSlides DEF EventsDone, InSync, Began
<1>11. CASE FinalizeSlot
  BY <1>11, <1>s, FinalizeSlides
<1>12. CASE EndFrame
  BY <1>12, <1>s, EndSlides
<1>13. CASE AdvanceTime
  BY <1>13, <1>s, AdvanceSlides
<1>14. ASSUME NEW snapshot \in Snapshots, Resync(snapshot) PROVE SlideInv'
  BY <1>14, <1>w, ResyncSlides
<1>15. ASSUME NEW cfg \in Configs, Reload(cfg) PROVE SlideInv'
  BY <1>15, <1>s, <1>w, ReloadSlides
<1> QED
  BY <1>1, <1>2, <1>3, <1>4, <1>5, <1>6, <1>7, <1>8, <1>9, <1>10, <1>11, <1>12,
     <1>13, <1>14, <1>15 DEF Next, FrameStep

\* A slider follows the finger and keeps what is less than a step, as long as
\* the kernel's coordinates are not negative and a frame gives a contact each
\* of its two coordinates once at most.
THEOREM SlidersKeepRemainder ==
  ASSUME PlacesOnPad, AxesOnce
  PROVE  HSpec => []SliderKeepsRemainder
<1>1. TypeInv /\ PadInv /\ SliderInv => SliderKeepsRemainder
  <2> SUFFICES ASSUME TypeInv, PadInv, SliderInv, phase = "idle", NEW s \in Slots,
                      LET c == e.contact[s]
                          step == IF IsClaimed(c) THEN e.cfg.sliders[c.ownership] ELSE 0
                      IN ~c.gesture_rejected /\ step > 0
               PROVE  LET c == e.contact[s]
                          step == IF IsClaimed(c) THEN e.cfg.sliders[c.ownership] ELSE 0
                          start == IF IsVertical(c.ownership) THEN c.start_y
                                                              ELSE c.start_x
                      IN Distance(start + h.net[s] * step,
                                  SliderPosition(c.ownership, c)) < step
    BY DEF SliderKeepsRemainder
  <2> DEFINE c == e.contact[s]
             n == h.net[s]
  <2>1. Near(e.cfg, c) /\ Counted(e.cfg, c, n)
    BY DEF PadInv, BetweenFrames, InSync, SliderInv, SlideInv, FingerSlid, OnSlider
  <2>2. IsClaimed(c) /\ ~c.gesture_rejected /\ e.cfg.sliders[c.ownership] > 0
    OBVIOUS
  <2> HIDE DEF c, n
  <2>3. /\ Distance(c.slider_anchor, SliderPosition(c.ownership, c))
             < e.cfg.sliders[c.ownership]
        /\ c.slider_anchor = (IF IsVertical(c.ownership) THEN c.start_y ELSE c.start_x)
                               + n * e.cfg.sliders[c.ownership]
    BY <2>1, <2>2 DEF Near, Counted
  <2> QED BY <2>2, <2>3 DEF c, n
<1>2. HInit => PadInv /\ SliderInv
  BY InitPad, PadIsKnown, InitSlides
<1>3. TypeInv /\ TypeInv' /\ PadInv /\ SliderInv /\ [HNext]_hvars => PadInv' /\ SliderInv'
  BY StepPad, PadIsKnown, StepSlides
<1> QED BY <1>1, <1>2, <1>3, HistoryType, PTL DEF HSpec

-----------------------------------------------------------------------------
(* What a lifted finger meant: who is marked as a second tap.              *)

\* A marked contact is still a tap, and while a tap is pending every claimed
\* finger is marked: any other one would have ended the wait.
Marked(pending, c) ==
  /\ c.tap_sequence_match => c.contact_phase = "TapCandidate"
  /\ pending.released_at # None /\ IsClaimed(c) /\ ~c.gesture_rejected
       => c.tap_sequence_match

MarkInv(en) == \A s \in Slots : Marked(en.pending_tap, en.contact[s])

\* An undecided finger is still a tap.
StillTap(c) ==
  c.ownership = "Unknown" /\ c.tracking_id # None /\ ~c.gesture_rejected
    => c.contact_phase = "TapCandidate"

LEMMA NothingMarked ==
  ASSUME NEW out, out.pending_tap = NoTap, NoMatch(out)
  PROVE  MarkInv(out)
BY NoPending DEF MarkInv, Marked, NoMatch

LEMMA FlushMarks ==
  ASSUME NEW en \in EngineState
  PROVE  MarkInv(FlushPendingTap(en))
BY FlushView, NothingMarked

LEMMA SameMarks ==
  ASSUME NEW en, NEW out, MarkInv(en), out.contact = en.contact,
         out.pending_tap = en.pending_tap
  PROVE  MarkInv(out)
BY DEF MarkInv

LEMMA OneMarks ==
  ASSUME NEW en, NEW out, MarkInv(en), NEW s \in Slots,
         \A r \in Slots \ {s} : out.contact[r] = en.contact[r],
         out.pending_tap = en.pending_tap, Marked(en.pending_tap, out.contact[s])
  PROVE  MarkInv(out)
BY DEF MarkInv

\* No finger is claimed, and the marks and phases stay.
LEMMA KeptMarks ==
  ASSUME NEW en, NEW out, MarkInv(en), out.pending_tap = en.pending_tap,
         \A s \in Slots :
           LET c == en.contact[s]  d == out.contact[s]
           IN /\ d.tap_sequence_match = c.tap_sequence_match
              /\ d.contact_phase = c.contact_phase
              /\ IsClaimed(d) /\ ~d.gesture_rejected =>
                   IsClaimed(c) /\ ~c.gesture_rejected
  PROVE  MarkInv(out)
BY DEF MarkInv, Marked

LEMMA ExpireMarks ==
  ASSUME NEW en \in EngineState, MarkInv(en), NEW t
  PROVE  MarkInv(ExpirePendingTap(en, t))
BY FlushMarks DEF ExpirePendingTap

LEMMA PushGestureMarks ==
  ASSUME NEW en \in EngineState, MarkInv(en), NEW g
  PROVE  MarkInv(PushGesture(en, g))
<1>1. /\ PushGesture(en, g).contact = en.contact
      /\ PushGesture(en, g).pending_tap = en.pending_tap
  BY DEF PushGesture, EngineState
<1> QED BY <1>1, SameMarks

LEMMA PushPassthroughMarks ==
  ASSUME NEW en \in EngineState, MarkInv(en), NEW s, NEW events
  PROVE  MarkInv(PushPassthrough(en, s, events))
<1>1. LET out == PushPassthrough(en, s, events)
      IN out.contact = en.contact /\ out.pending_tap = en.pending_tap
  BY DEF PushPassthrough, EngineState
<1> QED BY <1>1, SameMarks

LEMMA RoutedView ==
  ASSUME NEW en \in EngineState, NEW event
  PROVE  /\ RouteEvent(en, event).contact = en.contact
         /\ RouteEvent(en, event).pending_tap = en.pending_tap
         /\ RouteEvent(en, event).current_slot = en.current_slot
BY DEF RouteEvent, PushPassthrough, EngineState

LEMMA RouteEventMarks ==
  ASSUME NEW en \in EngineState, MarkInv(en), NEW event
  PROVE  MarkInv(RouteEvent(en, event))
BY RoutedView, SameMarks

LEMMA PassContactThroughMarks ==
  ASSUME NEW en \in EngineState, MarkInv(en), NEW s \in Slots
  PROVE  MarkInv(PassContactThrough(en, s))
<1> DEFINE c == [en.contact[s] EXCEPT !.ownership = "Passthrough"]
           owned == [[en EXCEPT !.contact[s] = c] EXCEPT !.held_events[s] = <<>>]
           settled == IF en.contact[s].gesture_rejected
                      THEN owned ELSE FlushPendingTap(owned)
           replayed == PushPassthrough(settled, s, en.held_events[s])
           tool == en.memory[s].tool_type
           tools == IF tool = None THEN <<>> ELSE <<ToolTypeEvent(tool)>>
           out == PushPassthrough(replayed, s, tools)
<1>1. /\ c \in Contact /\ c.ownership = "Passthrough"
      /\ c.tap_sequence_match = en.contact[s].tap_sequence_match
      /\ c.contact_phase = en.contact[s].contact_phase
  <2>1. \A d \in Contact :
          LET k == [d EXCEPT !.ownership = "Passthrough"]
          IN /\ k \in Contact /\ k.ownership = "Passthrough"
             /\ k.tap_sequence_match = d.tap_sequence_match
             /\ k.contact_phase = d.contact_phase
    BY DEF Contact, Ownerships
  <2> QED BY <2>1, EngineFields
<1> HIDE DEF c
<1>2. owned \in EngineState
  <2>1. [en EXCEPT !.contact[s] = c] \in EngineState /\ <<>> \in Seq(Event)
    BY <1>1, SetContact
  <2> QED BY <2>1, SetHeldEvents
<1>3. /\ owned.contact[s] = c /\ owned.pending_tap = en.pending_tap
      /\ \A r \in Slots \ {s} : owned.contact[r] = en.contact[r]
  BY DEF EngineState
<1> HIDE DEF owned
<1>4. Marked(en.pending_tap, c)
  BY <1>1 DEF MarkInv, Marked, IsClaimed, Zones
<1>5. settled \in EngineState /\ MarkInv(settled)
  BY <1>2, <1>3, <1>4, OneMarks, FlushType, FlushMarks
<1> HIDE DEF settled
<1>6. replayed \in EngineState /\ MarkInv(replayed)
  BY <1>5, EngineFields, PushPassthroughType, PushPassthroughMarks
<1> HIDE DEF replayed
<1>7. MarkInv(out)
  <2> HIDE DEF tools
  <2> QED BY <1>6, PushPassthroughMarks
<1>8. PassContactThrough(en, s) = out
  BY DEF PassContactThrough, replayed, settled, owned, c
<1> HIDE DEF out
<1> QED BY <1>7, <1>8

\* A finger that is claimed while a tap is pending is marked, or ends the wait.
LEMMA ClaimContactMarks ==
  ASSUME NEW en \in EngineState, MarkInv(en), NEW s \in Slots, NEW zone \in Zones,
         ~en.contact[s].gesture_rejected
           => en.contact[s].contact_phase = "TapCandidate"
  PROVE  MarkInv(ClaimContact(en, s, zone))
<1> DEFINE c == en.contact[s]
           match == /\ ~c.gesture_rejected
                    /\ ContactMatchesPendingTap(en.cfg, en.pending_tap, c, zone)
           settled == IF HasPendingTap(en) /\ ~match /\ ~c.gesture_rejected
                      THEN FlushPendingTap(en) ELSE en
           anchor == IF en.cfg.sliders[zone] > 0
                     THEN SliderPosition(zone, c) ELSE None
           claimed == [settled.contact[s] EXCEPT !.ownership = zone,
                                                 !.slider_anchor = anchor,
                                                 !.tap_sequence_match = match]
           out == ClaimContact(en, s, zone)
<1>1. /\ settled \in EngineState /\ MarkInv(settled)
      /\ SamePhases(en, settled)
      /\ settled.contact[s].gesture_rejected = c.gesture_rejected
      /\ match \/ c.gesture_rejected \/ settled.pending_tap.released_at = None
  <2>1. SamePhases(en, en) /\ SamePhases(en, FlushPendingTap(en))
    BY FlushQuiet DEF Quiet, SamePhases
  <2>2. en.pending_tap.released_at = None => ~HasPendingTap(en)
    BY DEF HasPendingTap
  <2> HIDE DEF match
  <2> QED BY <2>1, <2>2, FlushType, FlushMarks, FlushView, NoPending DEF HasPendingTap
<1>2. match \in BOOLEAN /\ (match => ~c.gesture_rejected)
  BY DEF ContactMatchesPendingTap
<1> HIDE DEF settled, match
<1>3. /\ claimed.contact_phase = settled.contact[s].contact_phase
      /\ claimed.gesture_rejected = settled.contact[s].gesture_rejected
      /\ claimed.tap_sequence_match = match
  <2>1. \A d \in Contact : \A a : \A b \in BOOLEAN :
          LET k == [d EXCEPT !.ownership = zone, !.slider_anchor = a,
                             !.tap_sequence_match = b]
          IN /\ k.contact_phase = d.contact_phase
             /\ k.gesture_rejected = d.gesture_rejected
             /\ k.tap_sequence_match = b
    BY DEF Contact
  <2>2. settled.contact[s] \in Contact
    BY <1>1, EngineFields
  <2> QED BY <1>2, <2>1, <2>2
<1>4. /\ out.pending_tap = settled.pending_tap /\ out.contact[s] = claimed
      /\ \A r \in Slots \ {s} : out.contact[r] = settled.contact[r]
  <2>1. out = [settled EXCEPT !.contact[s].ownership = zone,
                              !.contact[s].slider_anchor = anchor,
                              !.contact[s].tap_sequence_match = match,
                              !.held_events[s] = <<>>]
    BY DEF ClaimContact, settled, match
  <2> HIDE DEF out, anchor
  <2> QED BY <1>1, <2>1 DEF EngineState
<1> HIDE DEF out, claimed
<1>5. Marked(settled.pending_tap, claimed)
  BY <1>1, <1>2, <1>3 DEF Marked, SamePhases
<1>6. MarkInv(out)
  BY <1>1, <1>4, <1>5, OneMarks
<1> QED BY <1>6 DEF out

LEMMA DecideMarks ==
  ASSUME NEW en \in EngineState, MarkInv(en), NEW s \in Slots, StillTap(en.contact[s])
  PROVE  MarkInv(DecideOwnershipIfReady(en, s))
<1> DEFINE zone == ZoneForContact(en, s)
<1>1. zone = "None" \/ zone \in Zones
  BY ZoneType DEF ZoneForContact
<1> HIDE DEF zone
<1>2. \/ DecideOwnershipIfReady(en, s) = en
      \/ DecideOwnershipIfReady(en, s) = PassContactThrough(en, s)
      \/ /\ zone \in Zones /\ DecideOwnershipIfReady(en, s) = ClaimContact(en, s, zone)
         /\ en.contact[s].ownership = "Unknown" /\ IsActive(en, s)
  BY <1>1 DEF DecideOwnershipIfReady, zone
<1> QED
  BY <1>2, PassContactThroughMarks, ClaimContactMarks DEF StillTap, IsActive

\* A slider that steps ends the wait.
LEMMA EmitMarks ==
  ASSUME NEW en \in EngineState, MarkInv(en), NEW s \in Slots
  PROVE  MarkInv(EmitSliderStepsIfReady(en, s))
<1> DEFINE c == en.contact[s]
           position == SliderPosition(c.ownership, c)
           count == StepCount(Distance(c.slider_anchor, position),
                              en.cfg.sliders[c.ownership])
           anchored == [en EXCEPT !.contact[s].slider_anchor = position]
           taken == TakeSliderSteps(en, s, count)
<1> SUFFICES ASSUME IsClaimed(c), en.cfg.sliders[c.ownership] > 0
             PROVE  MarkInv(EmitSliderSteps(en, s))
  BY DEF EmitSliderStepsIfReady
<1>1. c \in Contact /\ c.ownership \in Zones
  BY EngineFields DEF IsClaimed
<1>2. count \in Nat
  BY <1>1, SliderPositionType, ConfigInForce, ContactFields, DistanceType,
     StepCountType
<1>3. ASSUME count # 0 PROVE MarkInv(FlushPendingTap(taken))
  <2> HIDE DEF count
  <2>1. taken \in EngineState
    BY <1>2, <1>3, TakeStepsType
  <2> HIDE DEF taken
  <2> QED BY <2>1, FlushMarks
<1>4. MarkInv(anchored)
  <2> DEFINE k == [c EXCEPT !.slider_anchor = position]
  <2>1. \A d \in Contact : \A a : LET m == [d EXCEPT !.slider_anchor = a]
                                  IN /\ m.ownership = d.ownership
                                     /\ m.gesture_rejected = d.gesture_rejected
                                     /\ m.contact_phase = d.contact_phase
                                     /\ m.tap_sequence_match = d.tap_sequence_match
    BY DEF Contact
  <2>2. Marked(en.pending_tap, k)
    <3>1. Marked(en.pending_tap, c)
      BY DEF MarkInv
    <3>2. /\ k.ownership = c.ownership /\ k.gesture_rejected = c.gesture_rejected
          /\ k.contact_phase = c.contact_phase
          /\ k.tap_sequence_match = c.tap_sequence_match
      BY <1>1, <2>1
    <3> HIDE DEF c, k
    <3> QED BY <3>1, <3>2 DEF Marked, IsClaimed
  <2>3. /\ anchored.contact[s] = k /\ anchored.pending_tap = en.pending_tap
        /\ \A r \in Slots \ {s} : anchored.contact[r] = en.contact[r]
    BY DEF EngineState
  <2> HIDE DEF k, anchored
  <2> QED BY <2>2, <2>3, OneMarks
<1> HIDE DEF count, position
<1> QED BY <1>3, <1>4 DEF EmitSliderSteps, position, count

LEMMA DecideAndSlideMarks ==
  ASSUME NEW en \in EngineState, MarkInv(en), NEW s \in Slots, StillTap(en.contact[s])
  PROVE  MarkInv(DecideAndSlide(en, s))
<1> DEFINE decided == DecideOwnershipIfReady(en, s)
<1>1. decided \in EngineState /\ MarkInv(decided)
  BY DecideType, DecideMarks
<1>2. DecideAndSlide(en, s) = EmitSliderStepsIfReady(decided, s)
  BY DEF DecideAndSlide
<1> HIDE DEF decided
<1> QED BY <1>1, <1>2, EmitMarks

LEMMA SettleMarks ==
  ASSUME NEW en \in EngineState, MarkInv(en), IsDecided(en.contact[en.current_slot])
  PROVE  MarkInv(Settle(en))
<1>1. en.current_slot \in Slots
  BY DEF EngineState
<1> QED BY <1>1, DecideAndSlideMarks DEF Settle, IsDecided, StillTap

LEMMA FinalizeContactMarks ==
  ASSUME NEW en \in EngineState, MarkInv(en), NEW s \in Slots, StillTap(en.contact[s])
  PROVE  MarkInv(FinalizeContact(en, s))
<1> DEFINE c == en.contact[s]
           x == OrElse(c.current_x, en.memory[s].x)
           y == OrElse(c.current_y, en.memory[s].y)
           placed == [c EXCEPT !.current_x = x, !.current_y = y,
                               !.start_x = OrElse(@, x), !.start_y = OrElse(@, y),
                               !.began_in_frame = FALSE]
           set == [en EXCEPT !.contact[s] = placed]
<1>1. set \in EngineState
  BY PlacedType
<1>2. /\ placed.contact_phase = c.contact_phase
      /\ placed.tap_sequence_match = c.tap_sequence_match
      /\ placed.gesture_rejected = c.gesture_rejected
      /\ placed.ownership = c.ownership /\ placed.tracking_id = c.tracking_id
  BY EngineFields DEF Contact
<1>3. /\ set.contact[s] = placed /\ set.pending_tap = en.pending_tap
      /\ \A r \in Slots \ {s} : set.contact[r] = en.contact[r]
  <2> HIDE DEF placed
  <2> QED BY DEF EngineState
<1>4. FinalizeContact(en, s) = en \/ FinalizeContact(en, s) = DecideAndSlide(set, s)
  BY DEF FinalizeContact
<1> HIDE DEF set, placed
<1>5. MarkInv(set) /\ StillTap(set.contact[s])
  <2>1. Marked(en.pending_tap, placed)
    BY <1>2 DEF MarkInv, Marked, IsClaimed
  <2>2. StillTap(placed)
    BY <1>2 DEF StillTap
  <2> QED BY <1>3, <2>1, <2>2, OneMarks
<1> QED BY <1>1, <1>4, <1>5, DecideAndSlideMarks

LEMMA RejectPalmsMarks ==
  ASSUME NEW en \in EngineState, MarkInv(en)
  PROVE  MarkInv(RejectPalms(en))
<1> DEFINE out == RejectPalms(en)
<1>1. /\ out.pending_tap = en.pending_tap
      /\ \A s \in Slots : \/ out.contact[s] = en.contact[s]
                          \/ out.contact[s] = RejectGestures(en.contact[s])
  BY DEF RejectPalms, EngineState
<1>2. \A c \in Contact : /\ RejectGestures(c).gesture_rejected
                         /\ ~RejectGestures(c).tap_sequence_match
  BY DEF Contact, RejectGestures
<1> HIDE DEF out
<1>3. MarkInv(out)
  BY <1>1, <1>2, EngineFields DEF MarkInv, Marked
<1> QED BY <1>3 DEF out

LEMMA InterruptMarks ==
  ASSUME NEW en \in EngineState
  PROVE  MarkInv(InterruptTapSequence(en))
BY WithoutPairingType, FlushMarks DEF InterruptTapSequence

LEMMA PromoteMarks ==
  ASSUME NEW en \in EngineState, MarkInv(en)
  PROVE  MarkInv(PromoteClaimedContacts(en))
<1> DEFINE out == PromoteClaimedContacts(en)
<1>1. /\ out.pending_tap = en.pending_tap
      /\ out.contact =
           [s \in Slots |->
              IF CanPromote(en, s)
              THEN [en.contact[s] EXCEPT !.ownership = "Passthrough",
                                         !.slider_anchor = None]
              ELSE en.contact[s]]
  BY DEF PromoteClaimedContacts, EngineState
<1>2. \A c \in Contact :
        LET d == [c EXCEPT !.ownership = "Passthrough", !.slider_anchor = None]
        IN /\ d.contact_phase = c.contact_phase /\ ~IsClaimed(d)
           /\ d.tap_sequence_match = c.tap_sequence_match
  BY DEF Contact, IsClaimed, Zones
<1> HIDE DEF out
<1>3. ASSUME NEW s \in Slots
      PROVE  LET c == en.contact[s]  d == out.contact[s]
             IN /\ d.tap_sequence_match = c.tap_sequence_match
                /\ d.contact_phase = c.contact_phase
                /\ IsClaimed(d) /\ ~d.gesture_rejected =>
                     IsClaimed(c) /\ ~c.gesture_rejected
  BY <1>1, <1>2, EngineFields
<1>4. MarkInv(out)
  BY <1>1, <1>3, KeptMarks
<1> QED BY <1>4 DEF out

LEMMA PressButtonsMarks ==
  ASSUME NEW en \in EngineState, MarkInv(en), NEW codes \in SUBSET Buttons
  PROVE  MarkInv(PressButtons(en, codes))
<1> DEFINE interrupted == InterruptTapSequence(en)
           held == interrupted.pressed \cup codes
           pressed == [interrupted EXCEPT !.pressed = held]
<1>1. interrupted \in EngineState /\ MarkInv(interrupted)
  BY InterruptType, InterruptMarks
<1> HIDE DEF interrupted
<1>2. pressed \in EngineState /\ MarkInv(pressed)
  <2>1. held \in SUBSET Buttons
    BY <1>1 DEF EngineState
  <2> HIDE DEF held
  <2>2. pressed \in EngineState
    BY <1>1, <2>1 DEF EngineState
  <2>3. /\ pressed.pending_tap = interrupted.pending_tap
        /\ pressed.contact = interrupted.contact
    BY <1>1 DEF EngineState
  <2> HIDE DEF pressed
  <2> QED BY <1>1, <2>2, <2>3, SameMarks
<1>3. \/ PressButtons(en, codes) = en
      \/ PressButtons(en, codes) = interrupted
      \/ PressButtons(en, codes) = PromoteClaimedContacts(pressed)
  BY DEF PressButtons, interrupted
<1> HIDE DEF pressed
<1> QED BY <1>1, <1>2, <1>3, PromoteMarks

LEMMA BeginContactMarks ==
  ASSUME NEW en \in EngineState, MarkInv(en), NEW s \in Slots,
         NEW id \in TrackingIds, scan.contacts[s][id] \in FrameTool, stamp \in Int
  PROVE  MarkInv(BeginContact(en, s, id))
<1> DEFINE tool == scan.contacts[s][id]
           another == \E r \in Slots :
                        IsActive(en, r) /\ ~en.contact[r].gesture_rejected
           new == NewContact(id, stamp, ~another /\ ~IsPalm(tool))
           c == IF IsPalm(tool) THEN RejectGestures(new) ELSE new
           begun == [en EXCEPT
                       !.contact[s] = c,
                       !.held_events[s] = Append(@, TrackingIdEvent(id)),
                       !.memory[s].tool_type = tool.tool_type]
           out == BeginContact(en, s, id)
<1>1. begun \in EngineState
  <2> HIDE DEF another
  <2> QED BY BegunType
<1>2. Marked(en.pending_tap, c)
  BY DEF Marked, NewContact, RejectGestures, IsClaimed, Zones
<1> HIDE DEF c
<1>3. /\ begun.contact[s] = c /\ begun.pending_tap = en.pending_tap
      /\ \A r \in Slots \ {s} : begun.contact[r] = en.contact[r]
  BY DEF EngineState
<1>4. out = begun \/ out = InterruptTapSequence(begun)
  BY DEF BeginContact, c, InterruptTapSequence
<1> HIDE DEF begun, out
<1>5. MarkInv(begun)
  BY <1>2, <1>3, OneMarks
<1>6. MarkInv(out)
  BY <1>1, <1>4, <1>5, InterruptMarks
<1> QED BY <1>6 DEF out

\* A coordinate changes the phase of a finger that has just left the slop.
LEMMA PlacePhases ==
  ASSUME NEW en \in EngineState, NEW s \in Slots, NEW v \in Int, NEW isX \in BOOLEAN
  PROVE  LET out == IF isX THEN PlaceX(en, s, v) ELSE PlaceY(en, s, v)
             c == en.contact[s]
             d == out.contact[s]
         IN /\ out.pending_tap = en.pending_tap
            /\ out.slider_steps = en.slider_steps
            /\ out.gestures = en.gestures
            /\ \A r \in Slots \ {s} : out.contact[r] = en.contact[r]
            /\ d.tap_sequence_match = c.tap_sequence_match
            /\ d.ownership = c.ownership
            /\ d.gesture_rejected = c.gesture_rejected
            /\ \/ d.contact_phase = c.contact_phase
               \/ /\ MovedFarEnough(en.cfg, d) /\ c.contact_phase = "TapCandidate"
                  /\ d.contact_phase = "Motion"
            /\ IsActive(en, s) /\ ~d.gesture_rejected /\ MovedFarEnough(en.cfg, d)
                 => d.contact_phase # "TapCandidate"
<1> DEFINE c == en.contact[s]
           m == IF isX THEN [c EXCEPT !.current_x = v, !.start_x = OrElse(c.start_x, v)]
                       ELSE [c EXCEPT !.current_y = v, !.start_y = OrElse(c.start_y, v)]
           out == IF isX THEN PlaceX(en, s, v) ELSE PlaceY(en, s, v)
           d == IF IsActive(en, s) THEN ObservePosition(en.cfg, m) ELSE c
<1>1. /\ m \in Contact /\ m.ownership = c.ownership
      /\ m.tap_sequence_match = c.tap_sequence_match
      /\ m.gesture_rejected = c.gesture_rejected
      /\ m.contact_phase = c.contact_phase
  <2>1. m \in Contact
    BY MovedType
  <2>2. \A k \in Contact : \A p, q :
          /\ LET j == [k EXCEPT !.current_x = p, !.start_x = q]
             IN /\ j.ownership = k.ownership
                /\ j.tap_sequence_match = k.tap_sequence_match
                /\ j.gesture_rejected = k.gesture_rejected
                /\ j.contact_phase = k.contact_phase
          /\ LET j == [k EXCEPT !.current_y = p, !.start_y = q]
             IN /\ j.ownership = k.ownership
                /\ j.tap_sequence_match = k.tap_sequence_match
                /\ j.gesture_rejected = k.gesture_rejected
                /\ j.contact_phase = k.contact_phase
    BY DEF Contact
  <2> QED BY <2>1, <2>2, EngineFields
<1>2. /\ out.contact[s] = d /\ \A r \in Slots \ {s} : out.contact[r] = en.contact[r]
      /\ out.pending_tap = en.pending_tap /\ out.slider_steps = en.slider_steps
      /\ out.gestures = en.gestures
  <2>0. en.contact \in [Slots -> Contact]
    BY DEF EngineState
  <2>1. CASE isX
    <3>1. out = [en EXCEPT !.memory[s].x = v, !.contact[s] = d]
      BY <2>1 DEF PlaceX
    <3> HIDE DEF d, out
    <3>2. /\ out.contact = [en.contact EXCEPT ![s] = d] /\ out.pending_tap = en.pending_tap
          /\ out.slider_steps = en.slider_steps /\ out.gestures = en.gestures
      BY <3>1 DEF EngineState
    <3> QED BY <2>0, <3>2
  <2>2. CASE ~isX
    <3>1. out = [en EXCEPT !.memory[s].y = v, !.contact[s] = d]
      BY <2>2 DEF PlaceY
    <3> HIDE DEF d, out
    <3>2. /\ out.contact = [en.contact EXCEPT ![s] = d] /\ out.pending_tap = en.pending_tap
          /\ out.slider_steps = en.slider_steps /\ out.gestures = en.gestures
      BY <3>1 DEF EngineState
    <3> QED BY <2>0, <3>2
  <2> QED BY <2>1, <2>2
<1>3. ASSUME NEW k \in Contact
      PROVE  LET o == ObservePosition(en.cfg, k)
             IN /\ o.tap_sequence_match = k.tap_sequence_match
                /\ o.ownership = k.ownership
                /\ o.gesture_rejected = k.gesture_rejected
                /\ \/ o.contact_phase = k.contact_phase
                   \/ /\ MovedFarEnough(en.cfg, o) /\ k.contact_phase = "TapCandidate"
                      /\ o.contact_phase = "Motion"
                /\ ~o.gesture_rejected /\ MovedFarEnough(en.cfg, o)
                     => o.contact_phase # "TapCandidate"
  <2>1. LET o == [k EXCEPT !.contact_phase = "Motion"]
        IN /\ o.tap_sequence_match = k.tap_sequence_match
           /\ o.ownership = k.ownership
           /\ o.gesture_rejected = k.gesture_rejected
           /\ o.contact_phase = "Motion"
           /\ o.start_x = k.start_x /\ o.start_y = k.start_y
           /\ o.current_x = k.current_x /\ o.current_y = k.current_y
    BY DEF Contact
  <2> QED BY <2>1 DEF ObservePosition, MovedFarEnough
<1> HIDE DEF m, out
<1>4. /\ d.tap_sequence_match = c.tap_sequence_match
      /\ d.ownership = c.ownership
      /\ d.gesture_rejected = c.gesture_rejected
      /\ \/ d.contact_phase = c.contact_phase
         \/ /\ MovedFarEnough(en.cfg, d) /\ c.contact_phase = "TapCandidate"
            /\ d.contact_phase = "Motion"
      /\ IsActive(en, s) /\ ~d.gesture_rejected /\ MovedFarEnough(en.cfg, d)
           => d.contact_phase # "TapCandidate"
  BY <1>1, <1>3
<1> HIDE DEF d
<1> QED BY <1>2, <1>4 DEF out

\* A marked finger that leaves the slop ends the wait.
LEMMA PlaceMarks ==
  ASSUME NEW en \in EngineState, MarkInv(en), NEW s \in Slots, NEW v \in Int,
         NEW isX \in BOOLEAN
  PROVE  LET out == IF isX THEN PlaceX(en, s, v) ELSE PlaceY(en, s, v)
         IN MarkInv(EndSpoiledPair(out, s))
<1> DEFINE out == IF isX THEN PlaceX(en, s, v) ELSE PlaceY(en, s, v)
           d == out.contact[s]
<1>1. out \in EngineState
  BY PlaceView
<1>2. /\ out.pending_tap = en.pending_tap
      /\ \A r \in Slots \ {s} : out.contact[r] = en.contact[r]
      /\ d.tap_sequence_match = en.contact[s].tap_sequence_match
      /\ d.ownership = en.contact[s].ownership
      /\ d.gesture_rejected = en.contact[s].gesture_rejected
  BY PlacePhases
<1> HIDE DEF out
<1>3. ASSUME IsMatching(out, s) /\ d.contact_phase # "TapCandidate"
      PROVE  MarkInv(EndSpoiledPair(out, s))
  BY <1>1, <1>3, FlushMarks DEF EndSpoiledPair
<1>4. ASSUME ~(IsMatching(out, s) /\ d.contact_phase # "TapCandidate")
      PROVE  MarkInv(EndSpoiledPair(out, s))
  <2>1. Marked(en.pending_tap, d)
    BY <1>2, <1>4 DEF MarkInv, Marked, IsMatching, IsClaimed
  <2>2. MarkInv(out)
    BY <1>2, <2>1, OneMarks
  <2> QED BY <1>4, <2>2 DEF EndSpoiledPair
<1>5. MarkInv(EndSpoiledPair(out, s))
  BY <1>3, <1>4
<1> QED BY <1>5 DEF out

\* The finger c that is lifted was the one marked, or one that was alone.
LEMMA HandleClassifiedMarks ==
  ASSUME NEW en \in EngineState, MarkInv(en), NEW g \in Gesture, NEW c, NEW t,
         c.tap_sequence_match => NoMatch(en),
         c.tap_sequence_eligible =>
           \A r \in Slots : IsClaimed(en.contact[r]) => en.contact[r].gesture_rejected
  PROVE  MarkInv(HandleClassifiedGesture(en, g, c, t))
<1> DEFINE out == HandleClassifiedGesture(en, g, c, t)
           flushed == FlushPendingTap(en)
           ended == [en EXCEPT !.pending_tap = NoTap]
           double == [g EXCEPT !.direction = "DoubleTap"]
           x == OrElse(c.current_x, c.start_x)
           y == OrElse(c.current_y, c.start_y)
           single == g.zone \in en.cfg.single_tap_zones
           p == [gesture |-> g, released_at |-> t, x |-> x, y |-> y,
                 emit_single |-> single]
           waiting == [flushed EXCEPT !.pending_tap = p]
<1>1. /\ flushed \in EngineState /\ MarkInv(flushed) /\ NoMatch(flushed)
      /\ \A r \in Slots : /\ flushed.contact[r].ownership = en.contact[r].ownership
                          /\ flushed.contact[r].gesture_rejected
                               = en.contact[r].gesture_rejected
  BY FlushType, FlushMarks, FlushView
<1>2. ended \in EngineState /\ (c.tap_sequence_match => MarkInv(ended))
  <2>1. NoTap \in PendingTap
    BY NoTapType
  <2>2. ended \in EngineState /\ ended.contact = en.contact /\ ended.pending_tap = NoTap
    BY <2>1 DEF EngineState
  <2> HIDE DEF ended
  <2> QED BY <2>2, NothingMarked DEF NoMatch
<1> HIDE DEF flushed, ended
<1>3. ASSUME c.tap_sequence_eligible PROVE MarkInv(waiting)
  <2>1. waiting.contact = flushed.contact /\ waiting.pending_tap = p
    <3> HIDE DEF p
    <3> QED BY <1>1 DEF EngineState
  <2> HIDE DEF waiting, p
  <2> QED BY <1>1, <1>3, <2>1 DEF MarkInv, Marked, NoMatch, IsClaimed
<1>4. \/ out = PushGesture(flushed, g) \/ out = PushGesture(en, g)
      \/ c.tap_sequence_match /\ out = PushGesture(ended, double)
      \/ out = flushed
      \/ c.tap_sequence_eligible /\ out = waiting
  BY DEF HandleClassifiedGesture, flushed, ended
<1> HIDE DEF out, double, waiting
<1>5. MarkInv(out)
  BY <1>1, <1>2, <1>3, <1>4, PushGestureMarks
<1> QED BY <1>5 DEF out

LEMMA ReleaseClaimedMarks ==
  ASSUME NEW en \in EngineState, MarkInv(en), NEW s \in Slots, NEW c \in Contact,
         IsClaimed(c), NEW t \in Int,
         c.tap_sequence_match => NoMatch(en),
         c.tap_sequence_eligible =>
           \A r \in Slots : IsClaimed(en.contact[r]) => en.contact[r].gesture_rejected
  PROVE  MarkInv(ReleaseClaimed(en, s, c, t))
<1> DEFINE direction == ClassifyGesture(en.cfg, c, t)
           g == [zone |-> c.ownership, direction |-> direction, slot |-> s,
                 tracking_id |-> c.tracking_id]
<1>1. ASSUME direction # "None"
      PROVE  MarkInv(HandleClassifiedGesture(en, g, c, t))
  <2>1. direction \in Directions \cup {"Tap", "DoubleTap"}
    BY <1>1, DirectionType
  <2>2. c.ownership \in Zones /\ c.tracking_id \in Int /\ s \in Int
    BY ContactFields, SlotsAssumption DEF IsClaimed, Slots
  <2>3. g \in Gesture
    <3> HIDE DEF direction
    <3> QED BY <2>1, <2>2 DEF Gesture
  <2> HIDE DEF g
  <2> QED BY <2>3, HandleClassifiedMarks
<1>2. \/ ReleaseClaimed(en, s, c, t) = en
      \/ ReleaseClaimed(en, s, c, t) = FlushPendingTap(en)
      \/ /\ direction # "None"
         /\ ReleaseClaimed(en, s, c, t) = HandleClassifiedGesture(en, g, c, t)
  BY DEF ReleaseClaimed
<1> HIDE DEF direction, g
<1> QED BY <1>1, <1>2, FlushMarks

LEMMA ReleaseMarks ==
  ASSUME NEW en \in EngineState, PairInv(en), MarkInv(en), NEW event, NEW t \in Int
  PROVE  MarkInv(ReleaseCurrentSlot(en, event, t))
<1> DEFINE out == ReleaseCurrentSlot(en, event, t)
           s == en.current_slot
           c == en.contact[s]
           lifted == [en EXCEPT !.contact[s] = NoContact, !.held_events[s] = <<>>]
           held == [en EXCEPT !.held_events[s] = Append(@, event)]
<1>1. s \in Slots /\ c \in Contact
  <2>1. s \in Slots
    BY DEF EngineState
  <2> QED BY <2>1, EngineFields
<1>2. /\ lifted \in EngineState /\ lifted.contact[s] = NoContact
      /\ lifted.pending_tap = en.pending_tap
      /\ \A r \in Slots \ {s} : lifted.contact[r] = en.contact[r]
      /\ c.tap_sequence_match => NoMatch(lifted)
  <2>1. lifted \in EngineState /\ (c.tap_sequence_match => NoMatch(lifted))
    BY <1>1, LiftedType, LiftedPair
  <2> QED BY <1>1, <2>1 DEF EngineState
<1>3. MarkInv(held)
  <2>1. held.contact = en.contact /\ held.pending_tap = en.pending_tap
    BY DEF EngineState
  <2> HIDE DEF held
  <2> QED BY <2>1, SameMarks
<1> HIDE DEF lifted, held
<1>4. MarkInv(lifted)
  <2>1. Marked(en.pending_tap, NoContact)
    BY NoContactFields DEF Marked, IsClaimed, Zones
  <2> HIDE DEF s
  <2> QED BY <1>1, <1>2, <2>1, OneMarks
<1>5. ASSUME c.tap_sequence_eligible, IsClaimed(c), NEW r \in Slots,
             IsClaimed(lifted.contact[r])
      PROVE  lifted.contact[r].gesture_rejected
  <2>1. r # s /\ lifted.contact[r] = en.contact[r]
    BY <1>1, <1>2, <1>5, NoContactFields DEF IsClaimed, Zones
  <2>2. en.contact[r].tracking_id # None
    BY <1>5, <2>1 DEF PairInv, SlotInv, IsClaimed, Zones
  <2>3. c.ownership # "Passthrough"
    BY <1>5 DEF IsClaimed, Zones
  <2> QED BY <1>1, <1>5, <2>1, <2>2, <2>3 DEF PairInv, AloneInv
<1>6. ASSUME IsClaimed(c) PROVE MarkInv(ReleaseClaimed(lifted, s, c, t))
  <2> HIDE DEF c, s
  <2> QED BY <1>1, <1>2, <1>4, <1>5, <1>6, ReleaseClaimedMarks
<1>7. MarkInv(PushPassthrough(lifted, s, <<event>>))
  BY <1>2, <1>4, PushPassthroughMarks
<1>8. \/ out = held \/ out = PushPassthrough(lifted, s, <<event>>) \/ out = lifted
      \/ IsClaimed(c) /\ out = ReleaseClaimed(lifted, s, c, t)
  BY DEF ReleaseCurrentSlot, held, lifted
<1> HIDE DEF out, c, s
<1>9. MarkInv(out)
  BY <1>3, <1>4, <1>6, <1>7, <1>8
<1> QED BY <1>9 DEF out

\* A contact that is neither claimed nor marked.
LEMMA FreeMarks ==
  ASSUME NEW out,
         \A s \in Slots : /\ ~IsClaimed(out.contact[s])
                          /\ ~out.contact[s].tap_sequence_match
  PROVE  MarkInv(out)
BY DEF MarkInv, Marked

-----------------------------------------------------------------------------
(* What a lifted finger meant: a phase is not taken back.                  *)

\* A finger's phase stays and its slider does not move, or it is consumed.
AgesOne(c, d, net) ==
  \/ d.contact_phase = c.contact_phase /\ net = 0
  \/ d.contact_phase = "ConsumedBySlider" /\ d.ownership # "Unknown"

Ages(en, out) ==
  \A s \in Slots : AgesOne(en.contact[s], out.contact[s], NetOf(en, out, s))

LEMMA QuietAges ==
  ASSUME NEW en \in EngineState, NEW out, Quiet(en, out)
  PROVE  Ages(en, out)
BY NoSteps DEF Quiet, SamePhases, Ages, AgesOne

LEMMA QuietThenAges ==
  ASSUME NEW a, NEW b, NEW c, Quiet(a, b), Ages(b, c)
  PROVE  Ages(a, c)
<1>1. \A s \in Slots : NetOf(a, c, s) = NetOf(b, c, s)
  BY DEF Quiet, NetOf, StepsOf
<1> QED BY <1>1 DEF Quiet, SamePhases, Ages, AgesOne

LEMMA AgesThenQuiet ==
  ASSUME NEW a, NEW b, NEW c, Ages(a, b), Quiet(b, c),
         \A s \in Slots : b.contact[s].ownership # "Unknown"
                            => c.contact[s].ownership # "Unknown"
  PROVE  Ages(a, c)
<1>1. \A s \in Slots : NetOf(a, c, s) = NetOf(a, b, s)
  BY DEF Quiet, NetOf, StepsOf
<1> QED BY <1>1 DEF Quiet, SamePhases, Ages, AgesOne

LEMMA TakeStepsAges ==
  ASSUME NEW en \in EngineState, NEW s \in Slots, NEW count \in Nat,
         en.contact[s].ownership # "Unknown"
  PROVE  Ages(en, TakeSliderSteps(en, s, count))
<1> DEFINE c == en.contact[s]
           forward == SliderPosition(c.ownership, c) >= c.slider_anchor
           travel == count * en.cfg.sliders[c.ownership]
           anchor == IF forward THEN c.slider_anchor + travel
                                ELSE c.slider_anchor - travel
           one == [zone |-> c.ownership,
                   direction |-> SliderDirection(c.ownership, forward),
                   slot |-> s, tracking_id |-> c.tracking_id]
           k == [ConsumeBySlider(c) EXCEPT !.slider_anchor = anchor]
           out == TakeSliderSteps(en, s, count)
<1>1. one.slot = s
  OBVIOUS
<1>2. k.contact_phase = "ConsumedBySlider" /\ k.ownership # "Unknown"
  <2>1. \A d \in Contact : \A a :
          LET j == [[d EXCEPT !.contact_phase = "ConsumedBySlider"]
                      EXCEPT !.slider_anchor = a]
          IN j.contact_phase = "ConsumedBySlider" /\ j.ownership = d.ownership
    BY DEF Contact
  <2>2. k = [[c EXCEPT !.contact_phase = "ConsumedBySlider"]
               EXCEPT !.slider_anchor = anchor]
    BY DEF ConsumeBySlider
  <2>3. c \in Contact
    BY EngineFields
  <2> HIDE DEF k, c, anchor
  <2>4. k.ownership = c.ownership /\ k.contact_phase = "ConsumedBySlider"
    BY <2>1, <2>2, <2>3
  <2> QED BY <2>4 DEF c
<1>3. /\ out.contact = [en.contact EXCEPT ![s] = k]
      /\ out.slider_steps = en.slider_steps \o [i \in 1..count |-> one]
  <2> HIDE DEF anchor
  <2> QED BY DEF TakeSliderSteps, EngineState, anchor
<1> HIDE DEF one, out, k
<1>4. \A r \in Slots \ {s} : out.contact[r] = en.contact[r] /\ NetOf(en, out, r) = 0
  <2>1. \A r \in Slots \ {s} : out.contact[r] = en.contact[r]
    BY <1>3 DEF EngineState
  <2>2. one.slot = s /\ out.slider_steps = en.slider_steps \o [i \in 1..count |-> one]
    BY <1>1, <1>3
  <2>3. ASSUME NEW r, r # s PROVE NetOf(en, out, r) = 0
    <3> HIDE DEF forward, c
    <3> QED BY <2>2, <2>3, StepsElsewhere
  <2> QED BY <2>1, <2>3
<1>5. out.contact[s] = k
  BY <1>3 DEF EngineState
<1>6. Ages(en, out)
  BY <1>2, <1>4, <1>5 DEF Ages, AgesOne
<1> QED BY <1>6 DEF out

LEMMA EmitAges ==
  ASSUME NEW en \in EngineState, NEW s \in Slots
  PROVE  Ages(en, EmitSliderStepsIfReady(en, s))
<1> DEFINE c == en.contact[s]
           position == SliderPosition(c.ownership, c)
           count == StepCount(Distance(c.slider_anchor, position),
                              en.cfg.sliders[c.ownership])
           anchored == [en EXCEPT !.contact[s].slider_anchor = position]
           taken == TakeSliderSteps(en, s, count)
<1> SUFFICES ASSUME IsClaimed(c), en.cfg.sliders[c.ownership] > 0
             PROVE  Ages(en, EmitSliderSteps(en, s))
  BY QuietItself, QuietAges DEF EmitSliderStepsIfReady
<1>1. c \in Contact /\ c.ownership \in Zones /\ c.ownership # "Unknown"
  BY EngineFields DEF IsClaimed, Zones
<1>2. count \in Nat
  BY <1>1, SliderPositionType, ConfigInForce, ContactFields, DistanceType,
     StepCountType
<1>3. ASSUME count # 0 PROVE Ages(en, FlushPendingTap(taken))
  <2> HIDE DEF count
  <2>1. Ages(en, taken) /\ taken \in EngineState
    BY <1>1, <1>2, <1>3, TakeStepsAges, TakeStepsType
  <2> HIDE DEF taken
  <2> QED BY <2>1, FlushQuiet, FlushView, AgesThenQuiet
<1>4. Ages(en, anchored)
  <2> DEFINE k == [c EXCEPT !.slider_anchor = position]
  <2>1. \A d \in Contact : \A a : [d EXCEPT !.slider_anchor = a].contact_phase
                                = d.contact_phase
    BY DEF Contact
  <2>2. k.contact_phase = c.contact_phase
    BY <1>1, <2>1
  <2>3. anchored = [en EXCEPT !.contact[s] = k]
    BY DEF EngineState
  <2> HIDE DEF k, anchored
  <2> QED BY <2>2, <2>3, OneContactQuiet, QuietAges
<1> HIDE DEF count, position
<1> QED
  BY <1>3, <1>4, QuietItself, QuietAges DEF EmitSliderSteps, position, count

LEMMA DecideAndSlideAges ==
  ASSUME NEW en \in EngineState, NEW s \in Slots
  PROVE  Ages(en, DecideAndSlide(en, s))
<1> DEFINE decided == DecideOwnershipIfReady(en, s)
<1>1. decided \in EngineState /\ Quiet(en, decided)
  BY DecideType, DecideQuiet
<1>2. DecideAndSlide(en, s) = EmitSliderStepsIfReady(decided, s)
  BY DEF DecideAndSlide
<1> HIDE DEF decided
<1> QED BY <1>1, <1>2, EmitAges, QuietThenAges

LEMMA RoutedAges ==
  ASSUME NEW en \in EngineState, NEW event \in Event
  PROVE  Ages(en, Settle(RouteEvent(en, event)))
<1> DEFINE routed == RouteEvent(en, event)
<1>1. routed \in EngineState /\ Quiet(en, routed) /\ routed.current_slot \in Slots
  BY RouteEventType, RouteEventQuiet, RoutedView DEF EngineState
<1> HIDE DEF routed
<1>2. Settle(routed) = routed \/ Settle(routed) = DecideAndSlide(routed, routed.current_slot)
  BY DEF Settle
<1>3. Ages(routed, Settle(routed))
  BY <1>1, <1>2, QuietItself, QuietAges, DecideAndSlideAges
<1>4. Ages(en, Settle(routed))
  BY <1>1, <1>3, QuietThenAges
<1> QED BY <1>4 DEF routed

LEMMA FinalizeContactAges ==
  ASSUME NEW en \in EngineState, NEW s \in Slots
  PROVE  Ages(en, FinalizeContact(en, s))
<1> DEFINE c == en.contact[s]
           x == OrElse(c.current_x, en.memory[s].x)
           y == OrElse(c.current_y, en.memory[s].y)
           placed == [c EXCEPT !.current_x = x, !.current_y = y,
                               !.start_x = OrElse(@, x), !.start_y = OrElse(@, y),
                               !.began_in_frame = FALSE]
           set == [en EXCEPT !.contact[s] = placed]
<1>1. set \in EngineState
  BY PlacedType
<1>2. placed.contact_phase = c.contact_phase
  BY EngineFields DEF Contact
<1>3. Quiet(en, set)
  <2> HIDE DEF placed
  <2> QED BY <1>2, OneContactQuiet
<1>4. FinalizeContact(en, s) = en \/ FinalizeContact(en, s) = DecideAndSlide(set, s)
  BY DEF FinalizeContact
<1> HIDE DEF set
<1> QED
  BY <1>1, <1>3, <1>4, QuietItself, QuietAges, DecideAndSlideAges, QuietThenAges

\* The fingers that stay down are in the phase they were in.
LEMMA ReleaseLeavesPhases ==
  ASSUME NEW en \in EngineState, NEW event \in Event, NEW t \in Int,
         NEW r \in Slots, r # en.current_slot
  PROVE  ReleaseCurrentSlot(en, event, t).contact[r].contact_phase
           = en.contact[r].contact_phase
<1> DEFINE out == ReleaseCurrentSlot(en, event, t)
           s == en.current_slot
           c == en.contact[s]
           lifted == [en EXCEPT !.contact[s] = NoContact, !.held_events[s] = <<>>]
           held == [en EXCEPT !.held_events[s] = Append(@, event)]
<1>1. s \in Slots /\ c \in Contact /\ <<event>> \in Seq(Event)
  <2>1. s \in Slots
    BY DEF EngineState
  <2> QED BY <2>1, EngineFields
<1>2. lifted \in EngineState /\ lifted.contact[r] = en.contact[r]
  <2>1. lifted \in EngineState
    BY <1>1, LiftedType
  <2> QED BY <1>1, <2>1 DEF EngineState
<1>3. held.contact = en.contact
  BY DEF EngineState
<1>4. \/ out = held \/ out = PushPassthrough(lifted, s, <<event>>) \/ out = lifted
      \/ IsClaimed(c) /\ out = ReleaseClaimed(lifted, s, c, t)
  BY DEF ReleaseCurrentSlot, held, lifted
<1> HIDE DEF out, c, s, lifted, held
<1>5. \/ out = held
      \/ SamePhases(lifted, out)
  BY <1>1, <1>2, <1>4, PushPassthroughQuiet, QuietItself, ReleaseClaimedHears
     DEF Quiet, SameRest
<1>6. out.contact[r].contact_phase = en.contact[r].contact_phase
  BY <1>2, <1>3, <1>5 DEF SamePhases
<1> QED BY <1>6 DEF out

-----------------------------------------------------------------------------
(* What a lifted finger meant: the invariant.                              *)

\* The phase of a finger that can still make a gesture tells what it did.
FingerMeant(s) ==
  LET c == e.contact[s]
  IN IsActive(e, s) /\ ~c.gesture_rejected /\ c.ownership # "Passthrough" =>
       /\ h.stepped[s] => c.contact_phase = "ConsumedBySlider"
       /\ h.moved[s] \/ MovedFarEnough(e.cfg, c) => c.contact_phase # "TapCandidate"
       /\ c.ownership = "Unknown" => c.contact_phase = "TapCandidate"

MeantInv == MarkInv(e) /\ \A s \in Slots : FingerMeant(s)

\* A finger that goes on: k is what the event made of it before it is decided.
LEMMA MeantGoesOn ==
  ASSUME HUpdate, NEW s \in Slots, FingerMeant(s), e'.cfg = e.cfg, NEW k,
         IsActive(e', s) => IsActive(e, s),
         LET c == e.contact[s]
             d == e'.contact[s]
         IN /\ c.gesture_rejected => d.gesture_rejected
            /\ SameOwner(c, d)
            /\ AgesOne(k, d, NetOf(e, e', s))
            /\ \/ k.contact_phase = c.contact_phase
               \/ c.contact_phase = "TapCandidate" /\ k.contact_phase = "Motion"
            /\ IsActive(e', s) /\ ~d.gesture_rejected /\ d.ownership # "Passthrough" =>
                 /\ MovedFarEnough(e.cfg, d) => k.contact_phase # "TapCandidate"
                 /\ d.ownership = "Unknown" => k.contact_phase = c.contact_phase
  PROVE  FingerMeant(s)'
<1> DEFINE c == e.contact[s]
           d == e'.contact[s]
<1> SUFFICES ASSUME IsActive(e', s), ~d.gesture_rejected, d.ownership # "Passthrough"
             PROVE  /\ h'.stepped[s] => d.contact_phase = "ConsumedBySlider"
                    /\ h'.moved[s] \/ MovedFarEnough(e'.cfg, d)
                         => d.contact_phase # "TapCandidate"
                    /\ d.ownership = "Unknown" => d.contact_phase = "TapCandidate"
  BY DEF FingerMeant, IsActive
<1>1. /\ h.stepped[s] => c.contact_phase = "ConsumedBySlider"
      /\ h.moved[s] => c.contact_phase # "TapCandidate"
      /\ c.ownership = "Unknown" => c.contact_phase = "TapCandidate"
  BY DEF FingerMeant, SameOwner
<1>2. d.ownership = "Unknown" => c.ownership = "Unknown"
  BY DEF SameOwner
<1>3. /\ h'.moved[s] => h.moved[s] \/ MovedFarEnough(e.cfg, d)
      /\ h'.stepped[s] => h.stepped[s] \/ NetOf(e, e', s) # 0
  BY FingersAfter
<1>4. AgesOne(k, d, NetOf(e, e', s))
  OBVIOUS
<1>5. /\ \/ k.contact_phase = c.contact_phase
         \/ c.contact_phase = "TapCandidate" /\ k.contact_phase = "Motion"
      /\ MovedFarEnough(e.cfg, d) => k.contact_phase # "TapCandidate"
      /\ d.ownership = "Unknown" => k.contact_phase = c.contact_phase
  OBVIOUS
<1> HIDE DEF c, d
<1> QED BY <1>1, <1>2, <1>3, <1>4, <1>5 DEF AgesOne

\* A step in which no coordinate arrives.
LEMMA MeantStep ==
  ASSUME MeantInv, HUpdate, MarkInv(e'), Ages(e, e'), e'.cfg = e.cfg,
         \A s \in Slots :
           LET c == e.contact[s]  d == e'.contact[s]
           IN /\ SamePlace(c, d) /\ SameOwner(c, d)
              /\ c.gesture_rejected => d.gesture_rejected
  PROVE  MeantInv'
<1>1. ASSUME NEW s \in Slots PROVE FingerMeant(s)'
  <2> DEFINE c == e.contact[s]
             d == e'.contact[s]
  <2>1. /\ SamePlace(c, d) /\ SameOwner(c, d)
        /\ c.gesture_rejected => d.gesture_rejected
        /\ AgesOne(c, d, NetOf(e, e', s))
    BY DEF Ages
  <2>2. IsActive(e', s) => IsActive(e, s)
    BY <2>1 DEF SamePlace, IsActive
  <2>3. MovedFarEnough(e.cfg, d) => MovedFarEnough(e.cfg, c)
    BY <2>1 DEF SamePlace, MovedFarEnough
  <2>4. FingerMeant(s)
    BY DEF MeantInv
  <2>5. IsActive(e', s) /\ ~d.gesture_rejected /\ d.ownership # "Passthrough"
          /\ MovedFarEnough(e.cfg, d) => c.contact_phase # "TapCandidate"
    BY <2>1, <2>2, <2>3, <2>4 DEF FingerMeant, SameOwner
  <2> QED BY <2>1, <2>2, <2>4, <2>5, MeantGoesOn
<1> QED BY <1>1 DEF MeantInv

LEMMA MeantKept ==
  ASSUME MeantInv, HUpdate, MarkInv(e'), Ages(e, e'), e'.cfg = e.cfg,
         \A s \in Slots : ContactKept(e, e.contact[s], e'.contact[s])
  PROVE  MeantInv'
<1>1. \A s \in Slots :
        LET c == e.contact[s]  d == e'.contact[s]
        IN /\ SamePlace(c, d) /\ SameOwner(c, d)
           /\ c.gesture_rejected => d.gesture_rejected
  BY DEF ContactKept, SameFinger, SamePlace
<1> QED BY <1>1, MeantStep

LEMMA SameEngineMeant ==
  ASSUME TypeInv, MeantInv, HUpdate, e' = e
  PROVE  MeantInv'
<1>1. e \in EngineState /\ MarkInv(e)
  BY InHand DEF MeantInv
<1>2. Ages(e, e) /\ Kept(e, e)
  BY <1>1, QuietItself, QuietAges, KeptItself
<1>3. /\ MarkInv(e') /\ Ages(e, e') /\ e'.cfg = e.cfg
      /\ \A s \in Slots : ContactKept(e, e.contact[s], e'.contact[s])
  BY <1>1, <1>2 DEF Kept
<1> QED BY <1>3, MeantKept

\* No finger is left that can make a gesture.
LEMMA NobodyMeant ==
  ASSUME MarkInv(e'),
         \A s \in Slots : IsActive(e', s) => e'.contact[s].ownership = "Passthrough"
  PROVE  MeantInv'
BY DEF MeantInv, FingerMeant, IsActive

LEMMA StartMeant ==
  ASSUME TypeInv, MeantInv, HUpdate, NEW f \in Frames \cup OddFrames, NEW t \in Stamps,
         StartFrame(f, t)
  PROVE  MeantInv'
<1> DEFINE codes == Codes(f.buttons, TRUE)
<1>1. e \in EngineState /\ e' = PressButtons(e, codes)
  BY InHand DEF StartFrame
<1>2. codes \in SUBSET Buttons
  <2>1. f \in Frame
    BY FramesAssumption
  <2>2. \A i \in DOMAIN f.buttons : f.buttons[i] \in Button
    BY <2>1 DEF Frame
  <2> QED BY <2>2 DEF Codes, Button
<1> HIDE DEF codes
<1>3. Ages(e, e') /\ MarkInv(e')
  BY <1>1, <1>2, PressButtonsQuiet, QuietAges, PressButtonsMarks DEF MeantInv
<1>4. /\ e'.cfg = e.cfg
      /\ \A s \in Slots : ContactKept(e, e.contact[s], e'.contact[s])
  BY StartView DEF ContactKept
<1> QED BY <1>3, <1>4, MeantKept

LEMMA BeginMeant ==
  ASSUME TypeInv, MeantInv, HUpdate, BeginEvents
  PROVE  MeantInv'
<1> DEFINE rejected == RejectPalms(e)
<1>1. /\ e \in EngineState /\ rejected \in EngineState /\ Quiet(e, rejected)
      /\ MarkInv(rejected)
  BY InHand, RejectPalmsType, RejectPalmsQuiet, RejectPalmsMarks DEF MeantInv
<1>2. e' = rejected \/ e' = ExpirePendingTap(rejected, stamp)
  BY DEF BeginEvents
<1> HIDE DEF rejected
<1>3. e' \in EngineState /\ Quiet(rejected, e') /\ MarkInv(e')
  BY <1>1, <1>2, ExpireType, ExpireQuiet, QuietItself, ExpireMarks
<1>4. Ages(e, e')
  BY <1>1, <1>3, QuietOn, QuietAges
<1>5. /\ e'.cfg = e.cfg
      /\ \A s \in Slots :
           LET c == e.contact[s]  d == e'.contact[s]
           IN /\ SamePlace(c, d) /\ SameOwner(c, d)
              /\ c.gesture_rejected => d.gesture_rejected
  BY BeginEventsView DEF SameSettings
<1> QED BY <1>3, <1>4, <1>5, MeantStep

\* An event that is routed and then decides its slot's contact.
LEMMA RoutedMeans ==
  ASSUME NEW b \in EngineState, NEW event \in Event, MarkInv(b),
         IsDecided(b.contact[b.current_slot])
  PROVE  LET out == Settle(RouteEvent(b, event))
         IN MarkInv(out) /\ Ages(b, out)
<1>1. LET routed == RouteEvent(b, event)
      IN /\ routed \in EngineState /\ MarkInv(routed)
         /\ IsDecided(routed.contact[routed.current_slot])
  BY RoutedDecides, RouteEventMarks
<1> QED BY <1>1, SettleMarks, RoutedAges

LEMMA SwitchMeant ==
  ASSUME TypeInv, FreshInv, MeantInv, HUpdate, SlotSwitch
  PROVE  MeantInv'
<1>0. CASE CurrentEvent.value \notin Slots
  BY <1>0, SameEngineMeant DEF SlotSwitch, Fail
<1> SUFFICES ASSUME CurrentEvent.value \in Slots PROVE MeantInv'
  BY <1>0
<1> DEFINE b == [e EXCEPT !.current_slot = CurrentEvent.value]
<1>1. /\ e \in EngineState /\ CurrentEvent \in Event /\ phase = "events"
      /\ e' = Settle(RouteEvent(b, CurrentEvent))
  BY InHand, EventInHand DEF SlotSwitch, Processed
<1>2. /\ b \in EngineState /\ b.contact = e.contact /\ b.gestures = e.gestures
      /\ b.pending_tap = e.pending_tap /\ b.slider_steps = e.slider_steps
      /\ b.current_slot \in Slots
  BY <1>1 DEF EngineState
<1> HIDE DEF b
<1>3. Quiet(e, b) /\ MarkInv(b) /\ IsDecided(b.contact[b.current_slot])
  BY <1>1, <1>2, SamePhasesOf, SameReports, SameMarks
     DEF MeantInv, FreshInv, FreshContact
<1>4. MarkInv(e') /\ Ages(e, e')
  BY <1>1, <1>2, <1>3, RoutedMeans, QuietThenAges
<1> QED BY <1>4, SwitchView, MeantKept DEF SamePressed

LEMMA ToolMeant ==
  ASSUME TypeInv, FreshInv, MeantInv, HUpdate, ToolType
  PROVE  MeantInv'
<1>1. CASE ~PalmRejection
  BY <1>1, SameEngineMeant DEF ToolType
<1> SUFFICES ASSUME PalmRejection PROVE MeantInv'
  BY <1>1
<1> DEFINE m == [e.memory[e.current_slot] EXCEPT !.tool_type = CurrentEvent.value]
           b == [e EXCEPT !.memory[e.current_slot] = m]
<1>2. /\ e \in EngineState /\ e' = Settle(RouteEvent(b, CurrentEvent))
      /\ CurrentEvent \in Event /\ CurrentEvent.value \in Int /\ phase = "events"
  BY InHand, EventInHand DEF ToolType, Processed
<1>3. b \in EngineState
  <2>1. \A k \in Memory, i \in Int : [k EXCEPT !.tool_type = i] \in Memory
    BY DEF Memory
  <2>2. m \in Memory
    BY <1>2, <2>1, InHand, EngineFields
  <2> HIDE DEF m
  <2> QED BY <1>2, <2>2 DEF EngineState
<1>4. /\ b.contact = e.contact /\ b.gestures = e.gestures
      /\ b.pending_tap = e.pending_tap /\ b.slider_steps = e.slider_steps
      /\ b.current_slot \in Slots
  <2> HIDE DEF m
  <2> QED BY <1>2 DEF EngineState
<1> HIDE DEF b
<1>5. Quiet(e, b) /\ MarkInv(b) /\ IsDecided(b.contact[b.current_slot])
  BY <1>2, <1>4, SamePhasesOf, SameReports, SameMarks
     DEF MeantInv, FreshInv, FreshContact
<1>6. MarkInv(e') /\ Ages(e, e')
  BY <1>2, <1>3, <1>5, RoutedMeans, QuietThenAges
<1> QED BY <1>6, ToolView, MeantKept DEF SamePressed

\* A contact that is where it began has not moved.
LEMMA StillIsNear ==
  ASSUME NEW cfg \in ConfigType, NEW c \in Contact,
         c.start_x = c.current_x, c.start_y = c.current_y
  PROVE  ~MovedFarEnough(cfg, c)
<1>1. cfg.swipe_min_distance \in Nat \ {0}
  BY DEF ConfigType
<1>2. c.current_x \in Int /\ c.current_y \in Int
  BY DEF Contact
<1>3. \A i \in Int : Distance(i, i) = 0
  BY DEF Distance
<1> QED BY <1>1, <1>2, <1>3 DEF MovedFarEnough

LEMMA PositionMeant ==
  ASSUME TypeInv, FreshInv, PalmInv, SlideInv', MeantInv, HUpdate, Position
  PROVE  MeantInv'
<1> DEFINE s == e.current_slot
           v == CurrentEvent.value
           isX == CurrentEvent.kind = "X"
           a == IF isX THEN PlaceX(e, s, v) ELSE PlaceY(e, s, v)
           b == EndSpoiledPair(a, s)
           m == a.contact[s]
           d == e'.contact[s]
<1>1. /\ phase = "events" /\ phase' = "events"
      /\ e' = Settle(RouteEvent(b, CurrentEvent))
  BY DEF Position, AtEvent, Processed
<1>2. /\ e \in EngineState /\ s \in Slots /\ isX \in BOOLEAN
      /\ CurrentEvent \in Event /\ v \in Int
  BY InHand, EventInHand DEF Position
<1>3. /\ a \in EngineState /\ a.current_slot = s /\ SamePressed(e, a)
      /\ \A r \in Slots \ {s} : a.contact[r] = e.contact[r]
      /\ ~IsActive(e, s) => m = e.contact[s]
      /\ IsActive(e, s) => /\ MovedTo(e.contact[s], m, isX, v)
                           /\ m.ownership = e.contact[s].ownership
  <2> HIDE DEF isX, v
  <2> QED BY <1>2, PlaceView
<1>4. /\ a.slider_steps = e.slider_steps
      /\ m.ownership = e.contact[s].ownership
      /\ m.gesture_rejected = e.contact[s].gesture_rejected
      /\ \/ m.contact_phase = e.contact[s].contact_phase
         \/ /\ MovedFarEnough(e.cfg, m) /\ e.contact[s].contact_phase = "TapCandidate"
            /\ m.contact_phase = "Motion"
      /\ IsActive(e, s) /\ ~m.gesture_rejected /\ MovedFarEnough(e.cfg, m)
           => m.contact_phase # "TapCandidate"
  <2> HIDE DEF isX, v
  <2> QED BY <1>2, PlacePhases
<1>5. MarkInv(b)
  <2>1. MarkInv(e)
    BY DEF MeantInv
  <2> HIDE DEF isX, v
  <2> QED BY <1>2, <2>1, PlaceMarks
<1> HIDE DEF a
<1>6. IsDecided(a.contact[s])
  <2>1. FreshContact(e.contact[s])
    BY <1>1, <1>2 DEF FreshInv
  <2> QED BY <1>3, <2>1, MovedFresh DEF FreshContact
<1>7. Kept(a, b) /\ Quiet(a, b)
  BY <1>2, <1>3, EndSpoiledKept, EndSpoiledQuiet
<1> HIDE DEF b
<1>8. b \in EngineState /\ IsDecided(b.contact[b.current_slot])
  BY <1>2, <1>3, <1>6, <1>7, KeptDecided DEF Kept, SameSettings
<1>9. MarkInv(e') /\ Ages(b, e')
  BY <1>1, <1>2, <1>5, <1>8, RoutedMeans
<1>10. Kept(b, e')
  BY <1>1, <1>2, <1>8, RoutedOwed
<1>11. Kept(a, e') /\ e'.cfg = e.cfg /\ e'.resync_required = e.resync_required
  BY <1>3, <1>7, <1>10, KeptOn DEF Kept, SameSettings, SamePressed
<1>12. ASSUME NEW r \in Slots
       PROVE  /\ NetOf(e, e', r) = NetOf(b, e', r)
              /\ b.contact[r].contact_phase = a.contact[r].contact_phase
              /\ AgesOne(b.contact[r], e'.contact[r], NetOf(b, e', r))
              /\ SameFinger(a.contact[r], e'.contact[r])
              /\ SameOwner(a.contact[r], e'.contact[r])
  BY <1>4, <1>7, <1>9, <1>11
     DEF Quiet, SamePhases, NetOf, StepsOf, Ages, Kept, ContactKept
\* The other fingers go on.
<1>13. ASSUME NEW r \in Slots, r # s PROVE FingerMeant(r)'
  <2> DEFINE c == e.contact[r]
             o == e'.contact[r]
             k == b.contact[r]
  <2>1. /\ AgesOne(k, o, NetOf(e, e', r)) /\ k.contact_phase = c.contact_phase
        /\ SameFinger(c, o) /\ SameOwner(c, o)
    BY <1>3, <1>12, <1>13
  <2>2. FingerMeant(r)
    BY DEF MeantInv
  <2>3. /\ IsActive(e', r) => IsActive(e, r)
        /\ c.gesture_rejected => o.gesture_rejected
        /\ MovedFarEnough(e.cfg, o) => MovedFarEnough(e.cfg, c)
    BY <2>1 DEF SameFinger, IsActive, MovedFarEnough
  <2>4. IsActive(e', r) /\ ~o.gesture_rejected /\ o.ownership # "Passthrough"
          /\ MovedFarEnough(e.cfg, o) => k.contact_phase # "TapCandidate"
    BY <2>1, <2>2, <2>3 DEF FingerMeant, SameOwner, SameFinger
  <2> HIDE DEF k
  <2> QED BY <1>11, <2>1, <2>2, <2>3, <2>4, MeantGoesOn
\* An undecided contact that comes to rest here is where it began.
<1>14. IsActive(e', s) /\ d.ownership = "Unknown" => ~MovedFarEnough(e.cfg, d)
  <2> SUFFICES ASSUME IsActive(e', s), d.ownership = "Unknown"
               PROVE  ~MovedFarEnough(e.cfg, d)
    OBVIOUS
  <2>1. SameFinger(m, d) /\ SameOwner(m, d)
    BY <1>2, <1>12
  <2>2. m.ownership = "Unknown" /\ m.tracking_id # None
    BY <2>1 DEF SameOwner, SameFinger, IsActive
  <2>3. d.began_in_frame
    BY <1>6, <2>1, <2>2 DEF IsDecided, SameFinger
  <2>4. IsActive(e, s)
    BY <1>3, <2>2 DEF IsActive
  <2>5. InSync'
    <3>1. ~e.resync_required
      BY <1>2, <2>4 DEF PalmInv, LostInv
    <3> QED BY <1>1, <1>11, <3>1 DEF InSync
  <2>6. \A r \in Slots : FingerStarts(r)'
    BY <2>5 DEF SlideInv
  <2>7. d.start_x = d.current_x /\ d.start_y = d.current_y
    BY <1>2, <2>3, <2>6 DEF FingerStarts
  <2>8. d \in Contact /\ e.cfg \in ConfigType
    BY <1>2, <1>11, EngineFields DEF Kept
  <2> QED BY <2>7, <2>8, StillIsNear
<1>15. ASSUME NEW r \in Slots, r = s PROVE FingerMeant(r)'
  <2> DEFINE c == e.contact[s]
             k == b.contact[s]
  <2>1. /\ AgesOne(k, d, NetOf(e, e', s)) /\ k.contact_phase = m.contact_phase
        /\ SameFinger(m, d) /\ SameOwner(m, d)
    BY <1>2, <1>12
  <2>2. FingerMeant(s)
    BY <1>2 DEF MeantInv
  <2>3. /\ IsActive(e', s) => IsActive(e, s)
        /\ c.gesture_rejected => d.gesture_rejected
        /\ MovedFarEnough(e.cfg, d) <=> MovedFarEnough(e.cfg, m)
        /\ SameOwner(c, d)
    BY <1>3, <1>4, <2>1 DEF SameFinger, SameOwner, IsActive, MovedFarEnough
  <2>4. \/ k.contact_phase = c.contact_phase
        \/ c.contact_phase = "TapCandidate" /\ k.contact_phase = "Motion"
    BY <1>4, <2>1
  <2>5. IsActive(e', s) /\ ~d.gesture_rejected /\ d.ownership # "Passthrough" =>
          /\ MovedFarEnough(e.cfg, d) => k.contact_phase # "TapCandidate"
          /\ d.ownership = "Unknown" => k.contact_phase = c.contact_phase
    <3> SUFFICES ASSUME IsActive(e', s), ~d.gesture_rejected
                 PROVE  /\ MovedFarEnough(e.cfg, d) => k.contact_phase # "TapCandidate"
                        /\ d.ownership = "Unknown" => k.contact_phase = c.contact_phase
      OBVIOUS
    <3>1. IsActive(e, s) /\ ~m.gesture_rejected
      BY <2>1, <2>3 DEF SameFinger
    <3> QED BY <1>4, <1>14, <2>1, <2>3, <3>1
  <2>6. /\ FingerMeant(r) /\ (IsActive(e', r) => IsActive(e, r))
        /\ LET o == e'.contact[r]
           IN /\ e.contact[r].gesture_rejected => o.gesture_rejected
              /\ SameOwner(e.contact[r], o)
              /\ AgesOne(k, o, NetOf(e, e', r))
              /\ \/ k.contact_phase = e.contact[r].contact_phase
                 \/ /\ e.contact[r].contact_phase = "TapCandidate"
                    /\ k.contact_phase = "Motion"
              /\ IsActive(e', r) /\ ~o.gesture_rejected /\ o.ownership # "Passthrough" =>
                   /\ MovedFarEnough(e.cfg, o) => k.contact_phase # "TapCandidate"
                   /\ o.ownership = "Unknown"
                        => k.contact_phase = e.contact[r].contact_phase
    BY <1>15, <2>1, <2>2, <2>3, <2>4, <2>5
  <2> HIDE DEF k
  <2> QED BY <1>11, <2>6, MeantGoesOn
<1> QED BY <1>9, <1>13, <1>15 DEF MeantInv

LEMMA BeginLeavesPhases ==
  ASSUME NEW en \in EngineState, NEW s \in Slots, NEW id \in TrackingIds,
         scan.contacts[s][id] \in FrameTool, stamp \in Int, NEW r \in Slots, r # s
  PROVE  BeginContact(en, s, id).contact[r].contact_phase
           = en.contact[r].contact_phase
<1> DEFINE tool == scan.contacts[s][id]
           another == \E j \in Slots :
                        IsActive(en, j) /\ ~en.contact[j].gesture_rejected
           new == NewContact(id, stamp, ~another /\ ~IsPalm(tool))
           c == IF IsPalm(tool) THEN RejectGestures(new) ELSE new
           begun == [en EXCEPT
                       !.contact[s] = c,
                       !.held_events[s] = Append(@, TrackingIdEvent(id)),
                       !.memory[s].tool_type = tool.tool_type]
           out == BeginContact(en, s, id)
<1>1. begun \in EngineState
  <2> HIDE DEF another
  <2> QED BY BegunType
<1> HIDE DEF c
<1>2. begun.contact[r] = en.contact[r]
  BY DEF EngineState
<1>3. out = begun \/ out = InterruptTapSequence(begun)
  BY DEF BeginContact, c, InterruptTapSequence
<1> HIDE DEF begun, out
<1>4. SamePhases(begun, out)
  BY <1>1, <1>3, InterruptQuiet, QuietItself DEF Quiet
<1>5. out.contact[r].contact_phase = en.contact[r].contact_phase
  BY <1>2, <1>4 DEF SamePhases
<1> QED BY <1>5 DEF out

\* A finger that an event of another slot leaves alone.
LEMMA AsideMeant ==
  ASSUME MeantInv, HUpdate, NEW r \in Slots, e'.cfg = e.cfg,
         SameFinger(e.contact[r], e'.contact[r]), SameOwner(e.contact[r], e'.contact[r]),
         AgesOne(e.contact[r], e'.contact[r], NetOf(e, e', r))
  PROVE  FingerMeant(r)'
<1> DEFINE c == e.contact[r]
           d == e'.contact[r]
<1>1. FingerMeant(r)
  BY DEF MeantInv
<1>2. /\ IsActive(e', r) => IsActive(e, r)
      /\ c.gesture_rejected => d.gesture_rejected
      /\ MovedFarEnough(e.cfg, d) => MovedFarEnough(e.cfg, c)
  BY DEF SameFinger, IsActive, MovedFarEnough
<1>3. IsActive(e', r) /\ ~d.gesture_rejected /\ d.ownership # "Passthrough"
        /\ MovedFarEnough(e.cfg, d) => c.contact_phase # "TapCandidate"
  BY <1>1, <1>2 DEF FingerMeant, SameOwner, SameFinger
<1> QED BY <1>1, <1>2, <1>3, MeantGoesOn

LEMMA DownMeant ==
  ASSUME TypeInv, MeantInv, HUpdate, ContactDown
  PROVE  MeantInv'
<1>0. CASE IsActive(e, e.current_slot)
  BY <1>0, SameEngineMeant DEF ContactDown, Fail
<1> SUFFICES ASSUME ~IsActive(e, e.current_slot) PROVE MeantInv'
  BY <1>0
<1> DEFINE s == e.current_slot
           id == CurrentEvent.value
           b == BeginContact(e, s, id)
<1>1. /\ e \in EngineState /\ s \in Slots /\ stamp \in Int
      /\ e' = Settle(b) /\ phase = "events"
  BY InHand, EventInHand DEF ContactDown, Processed
<1>2. /\ SamePressed(e, e') /\ id \in TrackingIds /\ e'.current_slot = s
      /\ \A r \in Slots \ {s} : ContactKept(e, e.contact[r], e'.contact[r])
      /\ e'.contact[s].tracking_id = id /\ e'.contact[s].ownership = "Unknown"
      /\ e'.contact[s].start_x = None /\ e'.contact[s].start_y = None
      /\ e'.contact[s].began_in_frame
  BY DownView
<1>3. scan.contacts[s][id] \in FrameTool /\ MarkInv(e)
  BY <1>1, <1>2, InHand DEF MeantInv
<1>4. b \in EngineState /\ MarkInv(b)
  BY <1>1, <1>2, <1>3, BeginContactType, BeginContactMarks
<1>5. /\ b.slider_steps = e.slider_steps
      /\ b.contact[s].contact_phase = "TapCandidate"
      /\ \A r \in Slots \ {s} : b.contact[r].contact_phase = e.contact[r].contact_phase
  BY <1>1, <1>2, <1>3, BeginWatches, BeginLeavesPhases
<1> HIDE DEF b
<1>6. e' = b
  <2>1. Kept(b, e')
    BY <1>1, <1>4, SettleKept
  <2>2. b.current_slot = s /\ b.contact[s].began_in_frame
    BY <1>1, <1>2, <2>1 DEF Kept, SameSettings, ContactKept, SameFinger
  <2> QED BY <1>1, <2>2 DEF Settle
<1>7. \A r \in Slots : NetOf(e, e', r) = 0
  BY <1>1, <1>5, <1>6, NoSteps
<1>8. ASSUME NEW r \in Slots, r # s PROVE FingerMeant(r)'
  BY <1>2, <1>5, <1>6, <1>7, <1>8, AsideMeant DEF ContactKept, AgesOne, SamePressed
<1>9. ASSUME NEW r \in Slots, r = s PROVE FingerMeant(r)'
  <2>1. /\ Began(r) /\ NetOf(e, e', r) = 0
        /\ e'.contact[r].contact_phase = "TapCandidate"
        /\ e'.contact[r].start_x = None /\ e'.contact[r].start_y = None
    <3>1. id # None
      BY DEF ContactDown
    <3> QED BY <1>1, <1>2, <1>5, <1>6, <1>7, <1>9, <3>1 DEF Began, IsActive
  <2>2. ~h'.moved[r] /\ ~h'.stepped[r]
    BY <2>1, FingersAfter
  <2>3. ~MovedFarEnough(e'.cfg, e'.contact[r])
    BY <2>1 DEF MovedFarEnough
  <2> QED BY <2>1, <2>2, <2>3 DEF FingerMeant
<1> QED BY <1>4, <1>6, <1>8, <1>9 DEF MeantInv

\* The released engine needs no settling.
LEMMA UpIsRelease ==
  ASSUME TypeInv, ContactUp
  PROVE  /\ e' = ReleaseCurrentSlot(e, CurrentEvent, stamp)
         /\ ~IsActive(e', e.current_slot)
         /\ CurrentEvent \in Event /\ stamp \in Int
<1> DEFINE s == e.current_slot
           lifted == ReleaseCurrentSlot(e, CurrentEvent, stamp)
<1>1. /\ e \in EngineState /\ s \in Slots /\ stamp \in Int
      /\ CurrentEvent \in Event /\ e' = Settle(lifted)
  <2>1. CurrentEvent \in Event
    BY EventInHand DEF ContactUp
  <2> QED BY <2>1, InHand DEF ContactUp, Processed
<1>2. /\ SameSettings(e, e')
      /\ ~IsActive(e, s) => ContactKept(e, e.contact[s], e'.contact[s])
      /\ IsActive(e, s) => SameFinger(NoContact, e'.contact[s])
  BY UpView
<1>3. ~IsActive(e', s)
  BY <1>2, NoContactFields DEF ContactKept, SameFinger, IsActive
<1>4. lifted \in EngineState
  BY <1>1, ReleaseCurrentType
<1> HIDE DEF lifted
<1>5. Kept(lifted, e')
  BY <1>1, <1>4, SettleKept
<1>6. lifted.current_slot = s /\ ~IsActive(lifted, s)
  BY <1>1, <1>2, <1>3, <1>5
     DEF Kept, SameSettings, ContactKept, SameFinger, IsActive
<1> QED BY <1>1, <1>3, <1>6, FreeSlotSettles DEF lifted

LEMMA UpMeant ==
  ASSUME TypeInv, PairInv(e), MeantInv, HUpdate, ContactUp
  PROVE  MeantInv'
<1> DEFINE s == e.current_slot
<1>1. /\ e \in EngineState /\ s \in Slots /\ MarkInv(e)
      /\ e' = ReleaseCurrentSlot(e, CurrentEvent, stamp)
      /\ ~IsActive(e', s) /\ CurrentEvent \in Event /\ stamp \in Int
  BY InHand, UpIsRelease DEF MeantInv
<1>2. /\ e'.cfg = e.cfg
      /\ \A r \in Slots \ {s} : ContactKept(e, e.contact[r], e'.contact[r])
  BY UpView DEF SameSettings
<1>3. MarkInv(e')
  BY <1>1, ReleaseMarks
<1>4. /\ \A r \in Slots : NetOf(e, e', r) = 0
      /\ \A r \in Slots \ {s} : e'.contact[r].contact_phase = e.contact[r].contact_phase
  <2>1. e'.slider_steps = e.slider_steps
    BY <1>1, ReleaseHears
  <2> QED BY <1>1, <2>1, NoSteps, ReleaseLeavesPhases
<1>5. ASSUME NEW r \in Slots, r # s PROVE FingerMeant(r)'
  BY <1>2, <1>4, <1>5, AsideMeant DEF ContactKept, AgesOne
<1>6. ASSUME NEW r \in Slots, r = s PROVE FingerMeant(r)'
  BY <1>1, <1>6 DEF FingerMeant
<1> QED BY <1>3, <1>5, <1>6 DEF MeantInv

LEMMA DroppedMeant ==
  ASSUME TypeInv, SynDropped
  PROVE  MeantInv'
<1> DEFINE b == [ResetForResync(e) EXCEPT !.resync_required = TRUE]
<1>1. e \in EngineState /\ e' = Settle(b)
  BY InHand DEF SynDropped, Processed
<1>2. /\ b.current_slot = SlotMin
      /\ b.contact = [s \in Slots |-> NoContact]
  BY <1>1 DEF ResetForResync, EngineState
<1> HIDE DEF b
<1>3. ~IsActive(b, b.current_slot)
  <2>1. SlotMin \in Slots
    BY InHand, SlotsAssumption DEF Slots
  <2> QED BY <1>2, <2>1, NoContactFields DEF IsActive
<1>4. \A s \in Slots : e'.contact[s] = NoContact
  BY <1>1, <1>2, <1>3, FreeSlotSettles
<1>5. \A s \in Slots : /\ ~IsClaimed(e'.contact[s]) /\ ~IsActive(e', s)
                       /\ ~e'.contact[s].tap_sequence_match
  BY <1>4, NoContactFields DEF IsClaimed, Zones, IsActive
<1> QED BY <1>5, FreeMarks, NobodyMeant

LEMMA FinalizeMeant ==
  ASSUME TypeInv, PalmInv, SlideInv, MeantInv, HUpdate, FinalizeSlot
  PROVE  MeantInv'
<1> DEFINE c == e.contact[at]
           d == e'.contact[at]
<1>1. /\ at \in Slots /\ e \in EngineState /\ c \in Contact /\ MarkInv(e)
      /\ phase = "finalize" /\ e' = FinalizeContact(e, at)
  BY FinalizeView, InHand, EngineFields DEF FinalizeSlot, MeantInv
<1>2. Ages(e, e')
  BY <1>1, FinalizeContactAges
<1>3. MarkInv(e')
  <2>1. StillTap(c)
    <3>1. FingerMeant(at)
      BY <1>1 DEF MeantInv
    <3> QED BY <3>1 DEF FingerMeant, StillTap, IsActive
  <2> QED BY <1>1, <2>1, FinalizeContactMarks
<1>4. /\ e'.cfg = e.cfg
      /\ \A r \in Slots \ {at} : ContactKept(e, e.contact[r], e'.contact[r])
  BY FinalizeView DEF SameSettings
<1>5. ASSUME NEW r \in Slots, r # at PROVE FingerMeant(r)'
  BY <1>2, <1>4, <1>5, AsideMeant DEF ContactKept, Ages
<1>6. ASSUME NEW r \in Slots, r = at PROVE FingerMeant(r)'
  <2>1. CASE ~c.began_in_frame
    <3>1. e' = e
      BY <2>1, FinalizeView
    <3>2. MeantInv'
      BY <3>1, SameEngineMeant
    <3> QED BY <3>2 DEF MeantInv
  <2>2. CASE c.began_in_frame
    <3>1. PICK k \in Contact : /\ PlacedFrom(c, k, e.memory[at])
                               /\ k.ownership = c.ownership /\ ContactKept(e, k, d)
      BY <2>2, FinalizeView
    <3>2. IsActive(e', r) => ~MovedFarEnough(e.cfg, d)
      <4> SUFFICES ASSUME IsActive(e', r) PROVE ~MovedFarEnough(e.cfg, d)
        OBVIOUS
      <4>1. IsActive(e, at)
        BY <1>6, <3>1 DEF PlacedFrom, ContactKept, SameFinger, IsActive
      <4>2. InSync
        BY <1>1, <4>1 DEF PalmInv, LostInv, InSync
      <4>3. c.start_x = c.current_x /\ c.start_y = c.current_y
        BY <1>1, <2>2, <4>2 DEF SlideInv, FingerStarts
      <4>4. k.start_x = k.current_x /\ k.start_y = k.current_y
        BY <3>1, <4>3 DEF PlacedFrom, OrElse
      <4>5. ~MovedFarEnough(e.cfg, k)
        BY <1>1, <4>4, EngineFields, StillIsNear
      <4> QED BY <3>1, <4>5 DEF ContactKept, SameFinger, MovedFarEnough
    <3>3. /\ IsActive(e', r) => IsActive(e, r)
          /\ SameOwner(c, d) /\ (c.gesture_rejected => d.gesture_rejected)
      BY <1>6, <3>1 DEF PlacedFrom, ContactKept, SameFinger, SameOwner, IsActive
    <3>4. FingerMeant(r) /\ AgesOne(c, d, NetOf(e, e', r))
      BY <1>1, <1>2, <1>6 DEF MeantInv, Ages
    <3>5. /\ FingerMeant(r) /\ (IsActive(e', r) => IsActive(e, r))
          /\ LET o == e'.contact[r]
             IN /\ e.contact[r].gesture_rejected => o.gesture_rejected
                /\ SameOwner(e.contact[r], o)
                /\ AgesOne(e.contact[r], o, NetOf(e, e', r))
                /\ IsActive(e', r) => ~MovedFarEnough(e.cfg, o)
      BY <1>6, <3>2, <3>3, <3>4
    <3> QED BY <1>4, <3>5, MeantGoesOn
  <2> QED BY <2>1, <2>2
<1> QED BY <1>3, <1>5, <1>6 DEF MeantInv

LEMMA EndMeant ==
  ASSUME TypeInv, MeantInv, HUpdate, EndFrame
  PROVE  MeantInv'
<1>1. /\ e'.cfg = e.cfg /\ e'.contact = e.contact /\ e'.pending_tap = e.pending_tap
      /\ e \in EngineState /\ e'.slider_steps = <<>>
  BY EndView, InHand DEF EndFrame, ClearOutput, EngineState
<1>2. MarkInv(e')
  BY <1>1, SameMarks DEF MeantInv
<1>3. \A s \in Slots : NetOf(e, e', s) = 0
  <2>1. e.slider_steps \in Seq(SliderStep)
    BY <1>1 DEF EngineState
  <2> QED BY <1>1, <2>1, NothingNew
<1>4. ASSUME NEW r \in Slots PROVE FingerMeant(r)'
  <2>1. SameFinger(e.contact[r], e'.contact[r]) /\ SameOwner(e.contact[r], e'.contact[r])
    BY <1>1 DEF SameFinger, SameOwner
  <2>2. AgesOne(e.contact[r], e'.contact[r], NetOf(e, e', r))
    BY <1>1, <1>3 DEF AgesOne
  <2> QED BY <1>1, <2>1, <2>2, AsideMeant
<1> QED BY <1>2, <1>4 DEF MeantInv

LEMMA AdvanceMeant ==
  ASSUME TypeInv, MeantInv, HUpdate, AdvanceTime
  PROVE  MeantInv'
<1> DEFINE t == NextDeadline(e)
<1>1. e \in EngineState /\ e' = ExpirePendingTap(e, t) /\ MarkInv(e)
  BY InHand DEF AdvanceTime, Output, MeantInv
<1> HIDE DEF t
<1>2. Ages(e, e') /\ MarkInv(e')
  BY <1>1, ExpireQuiet, QuietAges, ExpireMarks
<1> QED BY <1>2, AdvanceView, MeantKept DEF Kept, SameSettings

LEMMA ResyncMeant ==
  ASSUME TypeInv, PairInv(e'), NEW snapshot \in Snapshots, Resync(snapshot)
  PROVE  MeantInv'
<1>1. /\ e'.pending_tap = NoTap
      /\ \A s \in Slots : IsActive(e', s) => e'.contact[s].ownership = "Passthrough"
  BY ResyncView DEF IsActive
<1>2. NoMatch(e')
  BY <1>1, NoPending DEF PairInv, MatchInv, HasPendingTap, NoMatch
<1> QED BY <1>1, <1>2, NothingMarked, NobodyMeant

LEMMA ReloadMeant ==
  ASSUME TypeInv, MeantInv, NEW cfg \in Configs, Reload(cfg)
  PROVE  MeantInv'
<1>1. /\ e'.contact = e.contact /\ e'.pending_tap = e.pending_tap
      /\ \A s \in Slots : ~IsActive(e', s)
  BY ReloadView DEF IsActive
<1> QED BY <1>1, SameMarks, NobodyMeant DEF MeantInv

LEMMA InitMeant == HInit => MeantInv
<1> SUFFICES ASSUME HInit PROVE MeantInv
  OBVIOUS
<1>1. \A s \in Slots : e.contact[s] = NoContact
  BY DEF HInit, Init, NewEngine
<1>2. \A s \in Slots : /\ ~IsClaimed(e.contact[s]) /\ ~IsActive(e, s)
                       /\ ~e.contact[s].tap_sequence_match
  BY <1>1, NoContactFields DEF IsClaimed, Zones, IsActive
<1> QED BY <1>2, FreeMarks DEF MeantInv, FingerMeant

LEMMA StepMeant ==
  ASSUME TypeInv, PairInv(e), PairInv(e)', FreshInv, PalmInv, SlideInv, SlideInv',
         MeantInv, [HNext]_hvars
  PROVE  MeantInv'
<1>u. CASE UNCHANGED hvars
  <2>1. UNCHANGED <<e, h>>
    BY <1>u DEF hvars, vars
  <2>2. \A s \in Slots : FingerMeant(s) => FingerMeant(s)'
    BY <2>1 DEF FingerMeant, IsActive
  <2> QED BY <2>1, <2>2, SameMarks DEF MeantInv
<1> SUFFICES ASSUME Next, HUpdate PROVE MeantInv'
  BY <1>u DEF HNext
<1>1. ASSUME NEW f \in Frames \cup OddFrames, NEW t \in Stamps, StartFrame(f, t)
      PROVE  MeantInv'
  BY <1>1, StartMeant
<1>2. CASE ScanEvent \/ EventsDone
  <2>1. e' = e
    BY <1>2 DEF ScanEvent, EventsDone, Fail
  <2> QED BY <2>1, SameEngineMeant
<1>3. ASSUME NEW snapshot \in Snapshots, Resync(snapshot) PROVE MeantInv'
  BY <1>3, ResyncMeant
<1>4. ASSUME NEW cfg \in Configs, Reload(cfg) PROVE MeantInv'
  BY <1>4, ReloadMeant
<1> QED
  BY <1>1, <1>2, <1>3, <1>4, BeginMeant, SwitchMeant, DownMeant, UpMeant, ToolMeant,
     PositionMeant, DroppedMeant, FinalizeMeant, EndMeant, AdvanceMeant
     DEF Next, FrameStep

-----------------------------------------------------------------------------
(* What a lifted finger meant: the report.                                 *)

Defers(en, out) == HasPendingTap(out) /\ out.pending_tap # en.pending_tap
IsTapReport(g) == g.direction \in {"Tap", "DoubleTap"}

\* What the end of contact c says fits the phase c ended in.
SpeaksFor(en, out, c) ==
  LET reported == Reported(en, out)
  IN /\ reported # {} \/ Defers(en, out) => c.contact_phase # "ConsumedBySlider"
     /\ (\E g \in reported : IsTapReport(g)) \/ Defers(en, out)
          => c.contact_phase = "TapCandidate"
     /\ ~(reported # {} /\ Defers(en, out))
     /\ Len(out.gestures) <= Len(en.gestures) + 2

LEMMA NothingReported ==
  ASSUME NEW en \in EngineState, NEW out, out.gestures = en.gestures
  PROVE  Reported(en, out) = {} /\ Len(out.gestures) = Len(en.gestures)
<1>1. Len(en.gestures) \in Nat
  BY GesturesType
<1>2. (Len(en.gestures) + 1)..Len(out.gestures) = {}
  BY <1>1
<1> QED BY <1>2 DEF Reported

LEMMA OneReported ==
  ASSUME NEW en \in EngineState, NEW out, NEW g \in Gesture,
         out.gestures = Append(en.gestures, g)
  PROVE  Reported(en, out) = {g} /\ Len(out.gestures) = Len(en.gestures) + 1
<1>1. en.gestures \in Seq(Gesture) /\ Len(en.gestures) \in Nat
  BY GesturesType
<1>2. /\ Len(out.gestures) = Len(en.gestures) + 1
      /\ out.gestures[Len(en.gestures) + 1] = g
  BY <1>1
<1>3. (Len(en.gestures) + 1)..Len(out.gestures) = {Len(en.gestures) + 1}
  BY <1>1, <1>2
<1> QED BY <1>2, <1>3 DEF Reported

LEMMA FlushSpeaks ==
  ASSUME NEW en \in EngineState
  PROVE  LET out == FlushPendingTap(en)
         IN /\ out \in EngineState /\ out.pending_tap = NoTap /\ ~HasPendingTap(out)
            /\ ~HasPendingTap(en) => out.gestures = en.gestures
            /\ Len(out.gestures) \in Nat /\ Len(out.gestures) <= Len(en.gestures) + 1
<1> DEFINE out == FlushPendingTap(en)
<1>1. /\ out \in EngineState /\ out.pending_tap = NoTap
      /\ out.gestures = IF HasPendingTap(en) /\ en.pending_tap.emit_single
                        THEN Append(en.gestures, en.pending_tap.gesture)
                        ELSE en.gestures
  BY FlushType DEF FlushPendingTap, EngineState
<1>2. en.pending_tap.gesture \in Gesture /\ Len(en.gestures) \in Nat
  BY DEF EngineState, PendingTap
<1> HIDE DEF out
<1>3. \/ out.gestures = en.gestures
      \/ Len(out.gestures) = Len(en.gestures) + 1
  BY <1>1, <1>2, OneReported
<1>4. Len(out.gestures) \in Nat /\ Len(out.gestures) <= Len(en.gestures) + 1
  BY <1>2, <1>3
<1>5. ~HasPendingTap(out)
  BY <1>1, NoPending DEF HasPendingTap
<1> QED BY <1>1, <1>4, <1>5 DEF out

LEMMA HandleClassifiedSpeaks ==
  ASSUME NEW en \in EngineState, NEW g \in Gesture, NEW c \in Contact,
         NEW t \in Int, c.contact_phase # "ConsumedBySlider",
         g.direction # "DoubleTap",
         g.direction = "Tap" => c.contact_phase = "TapCandidate",
         HasPendingTap(en) => c.tap_sequence_match /\ c.contact_phase = "TapCandidate"
  PROVE  SpeaksFor(en, HandleClassifiedGesture(en, g, c, t), c)
<1> DEFINE out == HandleClassifiedGesture(en, g, c, t)
           flushed == FlushPendingTap(en)
           ended == [en EXCEPT !.pending_tap = NoTap]
           double == [g EXCEPT !.direction = "DoubleTap"]
           x == OrElse(c.current_x, c.start_x)
           y == OrElse(c.current_y, c.start_y)
           p == [gesture |-> g, released_at |-> t, x |-> x, y |-> y,
                 emit_single |-> g.zone \in en.cfg.single_tap_zones]
           waiting == [flushed EXCEPT !.pending_tap = p]
<1>0. Len(en.gestures) \in Nat
  BY GesturesType
<1>1. /\ flushed \in EngineState /\ flushed.pending_tap = NoTap /\ ~HasPendingTap(flushed)
      /\ ~HasPendingTap(en) => flushed.gestures = en.gestures
      /\ Len(flushed.gestures) \in Nat /\ Len(flushed.gestures) <= Len(en.gestures) + 1
  BY FlushSpeaks
<1> HIDE DEF flushed
<1>2. SpeaksFor(en, PushGesture(flushed, g), c)
  <2> DEFINE o == PushGesture(flushed, g)
  <2>1. /\ o.gestures = Append(flushed.gestures, g) /\ o.pending_tap = flushed.pending_tap
    BY <1>1 DEF PushGesture, EngineState
  <2> HIDE DEF o
  <2>2. ~Defers(en, o)
    BY <1>1, <2>1 DEF Defers, HasPendingTap
  <2>3. Len(o.gestures) <= Len(en.gestures) + 2
    <3>1. Len(o.gestures) = Len(flushed.gestures) + 1
      BY <1>1, <2>1, OneReported
    <3> QED BY <1>0, <1>1, <3>1
  <2>4. (\E k \in Reported(en, o) : IsTapReport(k)) => c.contact_phase = "TapCandidate"
    <3>1. CASE HasPendingTap(en)
      BY <3>1
    <3>2. CASE ~HasPendingTap(en)
      <4>1. Reported(en, o) = {g}
        BY <1>1, <2>1, <3>2, OneReported
      <4> QED BY <4>1 DEF IsTapReport
    <3> QED BY <3>1, <3>2
  <2>5. SpeaksFor(en, o, c)
    BY <2>2, <2>3, <2>4 DEF SpeaksFor
  <2> QED BY <2>5 DEF o
<1>3. ASSUME g.direction = "Tap" PROVE SpeaksFor(en, PushGesture(en, g), c)
  <2> DEFINE o == PushGesture(en, g)
  <2>1. /\ o.gestures = Append(en.gestures, g) /\ o.pending_tap = en.pending_tap
    BY DEF PushGesture, EngineState
  <2> HIDE DEF o
  <2>2. ~Defers(en, o) /\ Len(o.gestures) <= Len(en.gestures) + 2
    BY <1>0, <2>1, OneReported DEF Defers
  <2>3. SpeaksFor(en, o, c)
    BY <1>3, <2>2 DEF SpeaksFor
  <2> QED BY <2>3 DEF o
<1>4. ASSUME g.direction = "Tap" PROVE SpeaksFor(en, PushGesture(ended, double), c)
  <2> DEFINE o == PushGesture(ended, double)
  <2>1. double \in Gesture
    BY DEF Gesture
  <2>2. o.gestures = Append(en.gestures, double) /\ o.pending_tap = NoTap
    <3> HIDE DEF double
    <3> QED BY DEF PushGesture, EngineState
  <2> HIDE DEF o, double
  <2>3. ~Defers(en, o) /\ Len(o.gestures) <= Len(en.gestures) + 2
    BY <1>0, <2>1, <2>2, OneReported, NoPending DEF Defers, HasPendingTap
  <2>4. SpeaksFor(en, o, c)
    BY <1>4, <2>3 DEF SpeaksFor
  <2> QED BY <2>4 DEF o, double
<1>5. ASSUME g.direction = "Tap" PROVE SpeaksFor(en, flushed, c)
  <2>1. ~Defers(en, flushed) /\ Len(flushed.gestures) <= Len(en.gestures) + 2
    BY <1>0, <1>1 DEF Defers
  <2> QED BY <1>5, <2>1 DEF SpeaksFor
<1>6. ASSUME g.direction = "Tap", ~HasPendingTap(en) PROVE SpeaksFor(en, waiting, c)
  <2>1. waiting.gestures = en.gestures
    <3> HIDE DEF p
    <3> QED BY <1>1, <1>6 DEF EngineState
  <2> HIDE DEF waiting
  <2>2. Reported(en, waiting) = {} /\ Len(waiting.gestures) <= Len(en.gestures) + 2
    BY <1>0, <2>1, NothingReported
  <2> QED BY <1>6, <2>2 DEF SpeaksFor
<1>7. \/ out = PushGesture(flushed, g)
      \/ g.direction = "Tap" /\ out = PushGesture(en, g)
      \/ g.direction = "Tap" /\ out = PushGesture(ended, double)
      \/ g.direction = "Tap" /\ out = flushed
      \/ g.direction = "Tap" /\ ~HasPendingTap(en) /\ out = waiting
  BY DEF HandleClassifiedGesture, flushed
<1> HIDE DEF out, ended, double, waiting
<1>8. SpeaksFor(en, out, c)
  BY <1>2, <1>3, <1>4, <1>5, <1>6, <1>7
<1> QED BY <1>8 DEF out

LEMMA ClassifyPhases ==
  ASSUME NEW cfg, NEW c, NEW t
  PROVE  LET direction == ClassifyGesture(cfg, c, t)
         IN /\ direction \in Directions \cup {"Tap", "None"}
            /\ c.contact_phase = "ConsumedBySlider" => direction = "None"
            /\ direction = "Tap" => c.contact_phase = "TapCandidate"
<1>1. ClassifyGesture(cfg, c, t) \in Directions \cup {"Tap", "None"}
  BY DirectionType
<1>2. DirectionForDisplacement(cfg, OrElse(c.current_x, c.start_x) - c.start_x,
                               OrElse(c.current_y, c.start_y) - c.start_y) # "Tap"
  BY DEF DirectionForDisplacement
<1> QED BY <1>1, <1>2 DEF ClassifyGesture

LEMMA ReleaseClaimedSpeaks ==
  ASSUME NEW en \in EngineState, NEW s \in Slots, NEW c \in Contact,
         IsClaimed(c), NEW t \in Int,
         HasPendingTap(en) => c.tap_sequence_match /\ c.contact_phase = "TapCandidate"
  PROVE  SpeaksFor(en, ReleaseClaimed(en, s, c, t), c)
<1> DEFINE direction == ClassifyGesture(en.cfg, c, t)
           g == [zone |-> c.ownership, direction |-> direction, slot |-> s,
                 tracking_id |-> c.tracking_id]
           out == ReleaseClaimed(en, s, c, t)
           handled == HandleClassifiedGesture(en, g, c, t)
           flushed == FlushPendingTap(en)
<1>0. Len(en.gestures) \in Nat
  BY GesturesType
<1>1. /\ direction \in Directions \cup {"Tap", "None"}
      /\ c.contact_phase = "ConsumedBySlider" => direction = "None"
      /\ direction = "Tap" => c.contact_phase = "TapCandidate"
  BY ClassifyPhases
<1>2. SpeaksFor(en, en, c)
  <2>1. Reported(en, en) = {} /\ ~Defers(en, en) /\ Len(en.gestures) <= Len(en.gestures) + 2
    BY <1>0, NothingReported DEF Defers
  <2> QED BY <2>1 DEF SpeaksFor
<1>3. SpeaksFor(en, flushed, c)
  <2>1. /\ ~HasPendingTap(flushed)
        /\ ~HasPendingTap(en) => flushed.gestures = en.gestures
        /\ Len(flushed.gestures) \in Nat /\ Len(flushed.gestures) <= Len(en.gestures) + 1
    BY FlushSpeaks
  <2> HIDE DEF flushed
  <2>2. ~Defers(en, flushed) /\ Len(flushed.gestures) <= Len(en.gestures) + 2
    BY <1>0, <2>1 DEF Defers
  <2>3. CASE HasPendingTap(en)
    BY <2>2, <2>3 DEF SpeaksFor
  <2>4. CASE ~HasPendingTap(en)
    <3>1. Reported(en, flushed) = {}
      BY <2>1, <2>4, NothingReported
    <3> QED BY <2>2, <3>1 DEF SpeaksFor
  <2> QED BY <2>3, <2>4
<1>4. ASSUME direction # "None" PROVE SpeaksFor(en, handled, c)
  <2>1. c.ownership \in Zones /\ c.tracking_id \in Int /\ s \in Int
    BY ContactFields, SlotsAssumption DEF IsClaimed, Slots
  <2>2. g.direction = direction
    OBVIOUS
  <2>3. g \in Gesture
    <3>1. direction \in Directions \cup {"Tap", "DoubleTap"}
      BY <1>1, <1>4
    <3> HIDE DEF direction
    <3> QED BY <2>1, <3>1 DEF Gesture
  <2>4. /\ direction # "DoubleTap" /\ c.contact_phase # "ConsumedBySlider"
        /\ direction = "Tap" => c.contact_phase = "TapCandidate"
    BY <1>1, <1>4 DEF Directions
  <2> HIDE DEF g, direction
  <2> QED BY <2>2, <2>3, <2>4, HandleClassifiedSpeaks
<1>5. out = en \/ out = flushed \/ (direction # "None" /\ out = handled)
  BY DEF ReleaseClaimed
<1> HIDE DEF out, flushed, handled, direction
<1>6. SpeaksFor(en, out, c)
  BY <1>2, <1>3, <1>4, <1>5
<1> QED BY <1>6 DEF out

\* A contact that can make no gesture says nothing when it ends.
LEMMA ReleaseSpeaks ==
  ASSUME NEW en \in EngineState, MarkInv(en), NEW event \in Event, NEW t \in Int
  PROVE  LET out == ReleaseCurrentSlot(en, event, t)
             c == en.contact[en.current_slot]
         IN /\ SpeaksFor(en, out, c)
            /\ \/ IsClaimed(c) /\ ~c.gesture_rejected
               \/ Reported(en, out) = {} /\ ~Defers(en, out)
<1> DEFINE s == en.current_slot
           c == en.contact[s]
           out == ReleaseCurrentSlot(en, event, t)
           lifted == [en EXCEPT !.contact[s] = NoContact, !.held_events[s] = <<>>]
           held == [en EXCEPT !.held_events[s] = Append(@, event)]
<1>1. s \in Slots /\ c \in Contact /\ Len(en.gestures) \in Nat
  <2>1. s \in Slots
    BY DEF EngineState
  <2> QED BY <2>1, EngineFields, GesturesType
<1>2. /\ lifted \in EngineState /\ lifted.gestures = en.gestures
      /\ lifted.pending_tap = en.pending_tap
  <2>1. lifted \in EngineState
    BY <1>1, LiftedType
  <2> QED BY <2>1 DEF EngineState
<1>3. held.gestures = en.gestures /\ held.pending_tap = en.pending_tap
  BY DEF EngineState
<1>4. \/ out = held \/ out = lifted \/ out = PushPassthrough(lifted, s, <<event>>)
      \/ IsClaimed(c) /\ ~c.gesture_rejected /\ out = ReleaseClaimed(lifted, s, c, t)
  BY DEF ReleaseCurrentSlot, held, lifted
<1>5. LET pushed == PushPassthrough(lifted, s, <<event>>)
      IN pushed.gestures = en.gestures /\ pushed.pending_tap = en.pending_tap
  <2> HIDE DEF lifted
  <2> QED BY <1>2 DEF PushPassthrough, EngineState
<1>6. Marked(en.pending_tap, c)
  BY <1>1 DEF MarkInv
<1> HIDE DEF out, lifted, held, c, s
<1>7. ASSUME out.gestures = en.gestures, out.pending_tap = en.pending_tap
      PROVE  SpeaksFor(en, out, c) /\ Reported(en, out) = {} /\ ~Defers(en, out)
  <2>1. /\ Reported(en, out) = {} /\ ~Defers(en, out)
        /\ Len(out.gestures) <= Len(en.gestures) + 2
    BY <1>1, <1>7, NothingReported DEF Defers
  <2> QED BY <2>1 DEF SpeaksFor
<1>8. ASSUME IsClaimed(c), ~c.gesture_rejected, out = ReleaseClaimed(lifted, s, c, t)
      PROVE  SpeaksFor(en, out, c)
  <2>1. HasPendingTap(lifted) => c.tap_sequence_match /\ c.contact_phase = "TapCandidate"
    BY <1>2, <1>6, <1>8 DEF Marked, HasPendingTap
  <2>2. SpeaksFor(lifted, out, c)
    BY <1>1, <1>2, <1>8, <2>1, ReleaseClaimedSpeaks
  <2> QED BY <1>2, <2>2 DEF SpeaksFor, Reported, Defers
<1>9. /\ SpeaksFor(en, out, c)
      /\ \/ IsClaimed(c) /\ ~c.gesture_rejected
         \/ Reported(en, out) = {} /\ ~Defers(en, out)
  BY <1>2, <1>3, <1>4, <1>5, <1>7, <1>8
<1> QED BY <1>9 DEF out, c, s

\* Only an up ends a contact, and it ends the one it is about.
LEMMA EndedIsUp ==
  ASSUME TypeInv, Next, NEW s \in Slots, Ended(s)
  PROVE  ContactUp /\ s = e.current_slot
<1>1. phase = "events" /\ ~Dropped /\ IsActive(e, s) /\ ~IsActive(e', s)
  BY DEF Ended
<1>2. ASSUME ContactKept(e, e.contact[s], e'.contact[s]) PROVE FALSE
  BY <1>1, <1>2 DEF ContactKept, SameFinger, IsActive
<1>3. ASSUME e' = e PROVE FALSE
  BY <1>1, <1>3
<1>4. ~SlotSwitch
  BY <1>2, <1>3, SwitchView DEF SlotSwitch, Fail
<1>5. ~ContactDown
  <2>1. ~(ContactDown /\ ~IsActive(e, e.current_slot) /\ s # e.current_slot)
    BY <1>2, DownView
  <2>2. ~(ContactDown /\ IsActive(e, e.current_slot))
    BY <1>3 DEF ContactDown, Fail
  <2> QED BY <1>1, <2>1, <2>2
<1>6. ~ToolType
  BY <1>2, ToolView
<1>7. ~Position
  <2> SUFFICES ASSUME Position PROVE FALSE
    OBVIOUS
  <2>1. CASE s # e.current_slot
    BY <1>2, <2>1, PositionView
  <2>2. CASE s = e.current_slot
    <3>1. PICK m \in Contact : /\ m.tracking_id = e.contact[s].tracking_id
                               /\ ContactKept(e, m, e'.contact[s])
      BY <1>1, <2>2, PositionView DEF MovedTo
    <3> QED BY <1>1, <3>1 DEF ContactKept, SameFinger, IsActive
  <2> QED BY <2>1, <2>2
<1>8. ~SynDropped
  BY <1>1 DEF SynDropped, Dropped
<1>9. ~EventsDone
  BY <1>3 DEF EventsDone
<1>10. ContactUp
  BY <1>1, <1>4, <1>5, <1>6, <1>7, <1>8, <1>9
     DEF Next, FrameStep, StartFrame, ScanEvent, BeginEvents, FinalizeSlot, EndFrame,
         AdvanceTime, Resync, Reload
<1>11. s = e.current_slot
  BY <1>2, <1>10, UpView
<1> QED BY <1>10, <1>11

LEMMA EndedMeans ==
  ASSUME TypeInv, PalmInv, MeantInv, Next, NEW s \in Slots, Ended(s)
  PROVE  LET own == {g \in NewGestures :
                       g.slot = s /\ g.tracking_id = e.contact[s].tracking_id}
             deferred == /\ HasPendingTap(e') /\ e'.pending_tap # e.pending_tap
             taps == {g \in own : g.direction \in {"Tap", "DoubleTap"}}
         IN /\ own # {} \/ deferred =>
                 ~h.palm[s] /\ ~h.stepped[s] /\ IsClaimed(e.contact[s])
            /\ taps # {} \/ deferred => ~h.moved[s]
            /\ ~(own # {} /\ deferred)
            /\ Len(e'.gestures) <= Len(e.gestures) + 2
<1> DEFINE c == e.contact[s]
           own == {g \in NewGestures : g.slot = s /\ g.tracking_id = c.tracking_id}
           taps == {g \in own : g.direction \in {"Tap", "DoubleTap"}}
<1>1. ContactUp /\ s = e.current_slot
  BY EndedIsUp
<1>2. /\ e' = ReleaseCurrentSlot(e, CurrentEvent, stamp)
      /\ CurrentEvent \in Event /\ stamp \in Int /\ e \in EngineState /\ MarkInv(e)
  BY <1>1, UpIsRelease, InHand DEF MeantInv
<1>3. /\ SpeaksFor(e, e', c)
      /\ \/ IsClaimed(c) /\ ~c.gesture_rejected
         \/ Reported(e, e') = {} /\ ~Defers(e, e')
  BY <1>1, <1>2, ReleaseSpeaks
<1>4. own \subseteq Reported(e, e') /\ \A g \in taps : IsTapReport(g)
  BY DEF NewGestures, Reported, IsTapReport
<1>5. FingerMeant(s) /\ IsActive(e, s) /\ (c.gesture_rejected <=> h.palm[s])
  BY DEF MeantInv, Ended, PalmInv, JudgedAlike
<1>6. IsClaimed(c) /\ ~c.gesture_rejected =>
        /\ h.stepped[s] => c.contact_phase = "ConsumedBySlider"
        /\ h.moved[s] => c.contact_phase # "TapCandidate"
  BY <1>5 DEF FingerMeant, IsClaimed, Zones
<1>7. taps \subseteq own
  OBVIOUS
<1> HIDE DEF c, own, taps
<1>8. /\ own # {} \/ Defers(e, e') => ~h.palm[s] /\ ~h.stepped[s] /\ IsClaimed(c)
      /\ taps # {} \/ Defers(e, e') => ~h.moved[s]
      /\ ~(own # {} /\ Defers(e, e'))
      /\ Len(e'.gestures) <= Len(e.gestures) + 2
  BY <1>3, <1>4, <1>5, <1>6, <1>7 DEF SpeaksFor
<1> QED BY <1>8 DEF c, own, taps, Defers

\* The invariant: what a lift means rests on every part of the engine.
LiftInv ==
  /\ Mirror /\ PairInv(e) /\ PadInv /\ PalmInv /\ FreshInv /\ SliderInv /\ MeantInv

LEMMA InitLift == PlacesOnPad /\ HInit => LiftInv
<1> SUFFICES ASSUME PlacesOnPad, HInit PROVE LiftInv
  OBVIOUS
<1>1. Init
  BY DEF HInit
<1>2. FreshInv
  BY <1>1 DEF Init, FreshInv
<1> QED BY <1>1, <1>2, InitMirror, InitPair, InitPad, PadIsKnown, InitPalm, InitSlides,
           InitMeant DEF LiftInv

LEMMA StepLift ==
  ASSUME SnapshotsAtLastContact, OddFramesBeginNothing, PlacesOnPad, AxesOnce,
         TypeInv, TypeInv', LiftInv, [HNext]_hvars
  PROVE  LiftInv'
<1>1. /\ Mirror /\ PairInv(e) /\ PadInv /\ PalmInv /\ FreshInv /\ SliderInv /\ MeantInv
      /\ [Next]_vars
  BY DEF LiftInv, HNext, hvars
<1>2. Mirror' /\ PairInv(e)' /\ FreshInv'
  BY <1>1, StepMirror, StepPair, StepFresh
<1>3. PadInv' /\ PalmInv' /\ SliderInv'
  BY <1>1, PadIsKnown, StepPad, StepPalm, StepSlides
<1>4. MeantInv'
  BY <1>1, <1>2, <1>3, StepMeant DEF SliderInv
<1> QED BY <1>2, <1>3, <1>4 DEF LiftInv

\* What a lifted finger meant is decided once: no contact that was a palm, was
\* forwarded or moved a slider leaves a gesture, no contact that left the tap
\* slop leaves a tap, and none is both reported and deferred.
THEOREM OneMeaning ==
  ASSUME SnapshotsAtLastContact, OddFramesBeginNothing, PlacesOnPad, AxesOnce
  PROVE  HSpec => OneMeaningPerContact
<1> DEFINE means(s) ==
      Ended(s) =>
        LET own == {g \in NewGestures :
                      g.slot = s /\ g.tracking_id = e.contact[s].tracking_id}
            deferred == /\ HasPendingTap(e') /\ e'.pending_tap # e.pending_tap
            taps == {g \in own : g.direction \in {"Tap", "DoubleTap"}}
        IN /\ own # {} \/ deferred =>
                ~h.palm[s] /\ ~h.stepped[s] /\ IsClaimed(e.contact[s])
           /\ taps # {} \/ deferred => ~h.moved[s]
           /\ ~(own # {} /\ deferred)
           /\ Len(e'.gestures) <= Len(e.gestures) + 2
<1>1. TypeInv /\ LiftInv /\ [HNext]_hvars => [\A s \in Slots : means(s)]_hvars
  <2> SUFFICES ASSUME TypeInv, LiftInv, HNext, NEW s \in Slots, Ended(s)
               PROVE  means(s)
    OBVIOUS
  <2> QED BY EndedMeans DEF LiftInv, HNext
<1>2. HInit => LiftInv
  BY InitLift
<1>3. TypeInv /\ TypeInv' /\ LiftInv /\ [HNext]_hvars => LiftInv'
  BY StepLift
<1> QED BY <1>1, <1>2, <1>3, HistoryType, PTL DEF HSpec, OneMeaningPerContact

=============================================================================
