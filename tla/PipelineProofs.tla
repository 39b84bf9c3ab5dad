---------------------------- MODULE PipelineProofs ----------------------------
(***************************************************************************)
(* Theorems about Pipeline for every value of its constants.  A frame is   *)
(* folded into the composer and into the virtual touchpad event by event;  *)
(* FoldFacts, instantiated for each fold, takes it apart.                  *)
(***************************************************************************)
EXTENDS Pipeline, EngineProofs, FiniteSetTheorems, SequenceTheorems

-----------------------------------------------------------------------------
(* The folds.                                                              *)

PadF == INSTANCE FoldFacts WITH Op <- PadTakes
ComposerF == INSTANCE FoldFacts WITH Op <- ApplyPassthrough
ButtonF == INSTANCE FoldFacts WITH Op <- ApplyButton
PhysicalF == INSTANCE FoldFacts WITH Op <- ButtonMoves
JoinF == INSTANCE FoldFacts WITH Op <- Joined
LiftF == INSTANCE FoldFacts WITH Op <- LiftSlot

LEMMA PadFold ==
  ASSUME NEW d, NEW events
  PROVE  PadF!Fold(d, events) = PadAfter(d, events)
BY DEF PadF!Fold, PadF!Largest, PadAfter, FoldLeft, MapThenFoldSet, Max

LEMMA ComposerFold ==
  ASSUME NEW c, NEW events
  PROVE  ComposerF!Fold(c, events) = FoldLeft(ApplyPassthrough, c, events)
BY DEF ComposerF!Fold, ComposerF!Largest, FoldLeft, MapThenFoldSet, Max

LEMMA ButtonFold ==
  ASSUME NEW c, NEW events
  PROVE  ButtonF!Fold(c, events) = FoldLeft(ApplyButton, c, events)
BY DEF ButtonF!Fold, ButtonF!Largest, FoldLeft, MapThenFoldSet, Max

LEMMA PhysicalFold ==
  ASSUME NEW down, NEW events
  PROVE  PhysicalF!Fold(down, events) = ButtonsAfter(down, events)
BY DEF PhysicalF!Fold, PhysicalF!Largest, ButtonsAfter, FoldLeft, MapThenFoldSet, Max

LEMMA JoinFold ==
  ASSUME NEW events, NEW parts
  PROVE  JoinF!Fold(events, parts) = FoldLeft(Joined, events, parts)
BY DEF JoinF!Fold, JoinF!Largest, FoldLeft, MapThenFoldSet, Max

LEMMA LiftFold ==
  ASSUME NEW out, NEW slots
  PROVE  LiftF!Fold(out, slots) = FoldLeft(LiftSlot, out, slots)
BY DEF LiftF!Fold, LiftF!Largest, FoldLeft, MapThenFoldSet, Max

-----------------------------------------------------------------------------
(* What one event does to the virtual touchpad.                            *)

Labelled == HasToolType /\ PalmRejection
Clicks == Keys \cap Buttons

PadEvent ==
  Event \cup [kind : {"Touch"}, value : BOOLEAN]
        \cup [kind : {"ToolUp", "ToolDown", "AbsX", "AbsY"}, value : Int]
        \cup [kind : {"Press", "Release"}, value : Buttons]

Pads ==
  [ slot : Int, ids : [Slots -> Int], x : [Slots -> Int], y : [Slots -> Int],
    tool : [Slots -> Int], touch : BOOLEAN, tools : SUBSET Int,
    abs_x : Int, abs_y : Int, keys : SUBSET Clicks, legal : BOOLEAN ]

LEMMA NewPadType == NewPad \in Pads
BY SlotsAssumption DEF NewPad, Pads, None, FingerTool, Slots

LEMMA PadTakesType ==
  ASSUME NEW d \in Pads, NEW ev \in PadEvent
  PROVE  PadTakes(d, ev) \in Pads
<1> SUFFICES ASSUME Declared(ev) PROVE PadStep(d, ev) \in Pads
  BY DEF PadTakes
<1>1. CASE ev \in Event
  BY <1>1 DEF PadStep, Pads, Event, Kinds
<1>2. CASE ev \in [kind : {"Touch"}, value : BOOLEAN]
  BY <1>2 DEF PadStep, Pads
<1>3. CASE ev \in [kind : {"ToolUp", "ToolDown", "AbsX", "AbsY"}, value : Int]
  BY <1>3 DEF PadStep, Pads
<1>4. CASE ev \in [kind : {"Press", "Release"}, value : Buttons]
  <2>1. ev.value \in Clicks
    BY <1>4 DEF Declared, VirtualTouchpadSpec, Clicks
  <2> QED BY <1>4, <2>1 DEF PadStep, Pads
<1> QED BY <1>1, <1>2, <1>3, <1>4 DEF PadEvent

\* A touch event: the contact the addressed slot has, its place and its label.
LEMMA PadTakesEvent ==
  ASSUME NEW d \in Pads, NEW ev \in Event
  PROVE  LET r == PadTakes(d, ev)
         IN /\ r \in Pads
            /\ r.slot = IF ev.kind = "Slot" THEN ev.value ELSE d.slot
            /\ \A q \in Slots :
                 /\ r.ids[q] = IF ev.kind = "TrackingId" /\ q = d.slot THEN ev.value
                               ELSE d.ids[q]
                 /\ r.x[q] = IF ev.kind = "X" /\ q = d.slot THEN ev.value ELSE d.x[q]
                 /\ r.y[q] = IF ev.kind = "Y" /\ q = d.slot THEN ev.value ELSE d.y[q]
                 /\ r.tool[q] = IF ev.kind = "ToolType" /\ Labelled /\ q = d.slot
                                THEN ev.value ELSE d.tool[q]
            /\ r.touch = d.touch /\ r.tools = d.tools /\ r.keys = d.keys
            /\ r.abs_x = d.abs_x /\ r.abs_y = d.abs_y
            /\ r.legal <=> d.legal /\ (ev.kind = "TrackingId" =>
                                         (ev.value = None) # (d.ids[d.slot] = None))
<1>1. PadTakes(d, ev) \in Pads
  BY PadTakesType DEF PadEvent
<1>2. Declared(ev) <=> (ev.kind = "ToolType" => Labelled)
  BY DEF Declared, Event, Kinds, VirtualTouchpadSpec, Labelled
<1>3. CASE ev.kind = "ToolType" /\ ~Labelled
  BY <1>1, <1>2, <1>3 DEF PadTakes
<1>4. CASE ~(ev.kind = "ToolType" /\ ~Labelled)
  <2> DEFINE r == PadStep(d, ev)
  <2>1. PadTakes(d, ev) = r
    BY <1>2, <1>4 DEF PadTakes
  <2>2. r.slot = IF ev.kind = "Slot" THEN ev.value ELSE d.slot
    BY DEF PadStep, Pads, Event, Kinds
  <2>3. \A q \in Slots : r.ids[q] = IF ev.kind = "TrackingId" /\ q = d.slot THEN ev.value
                                    ELSE d.ids[q]
    BY DEF PadStep, Pads, Event, Kinds
  <2>4. \A q \in Slots : r.x[q] = IF ev.kind = "X" /\ q = d.slot THEN ev.value ELSE d.x[q]
    BY DEF PadStep, Pads, Event, Kinds
  <2>5. \A q \in Slots : r.y[q] = IF ev.kind = "Y" /\ q = d.slot THEN ev.value ELSE d.y[q]
    BY DEF PadStep, Pads, Event, Kinds
  <2>6. \A q \in Slots : r.tool[q] = IF ev.kind = "ToolType" /\ q = d.slot
                                     THEN ev.value ELSE d.tool[q]
    BY DEF PadStep, Pads, Event, Kinds
  <2>7. /\ r.touch = d.touch /\ r.tools = d.tools /\ r.keys = d.keys
        /\ r.abs_x = d.abs_x /\ r.abs_y = d.abs_y
    BY DEF PadStep, Pads, Event, Kinds
  <2>8. r.legal <=> d.legal /\ (ev.kind = "TrackingId" =>
                                  (ev.value = None) # (d.ids[d.slot] = None))
    BY DEF PadStep, Pads, Event, Kinds
  <2> HIDE DEF r
  <2> QED BY <1>1, <1>4, <2>1, <2>2, <2>3, <2>4, <2>5, <2>6, <2>7, <2>8
<1> QED BY <1>3, <1>4

\* Pointer emulation and keys leave the contacts alone.
SameTouches(d, r) ==
  /\ r.slot = d.slot /\ r.ids = d.ids /\ r.x = d.x /\ r.y = d.y /\ r.tool = d.tool
  /\ r.legal <=> d.legal

LEMMA PadTakesPointer ==
  ASSUME NEW d \in Pads,
         NEW ev \in [kind : {"Touch"}, value : BOOLEAN]
                    \cup [kind : {"ToolUp", "ToolDown", "AbsX", "AbsY"}, value : Int]
  PROVE  LET r == PadTakes(d, ev)
         IN /\ r \in Pads /\ SameTouches(d, r) /\ r.keys = d.keys
            /\ r.touch <=> IF ev.kind = "Touch" THEN ev.value ELSE d.touch
            /\ ev.kind = "ToolUp" => r.tools = d.tools \ {ev.value}
            /\ ev.kind = "ToolDown" => r.tools = d.tools \cup {ev.value}
            /\ ev.kind \notin {"ToolUp", "ToolDown"} => r.tools = d.tools
            /\ r.abs_x = IF ev.kind = "AbsX" THEN ev.value ELSE d.abs_x
            /\ r.abs_y = IF ev.kind = "AbsY" THEN ev.value ELSE d.abs_y
<1>1. PadTakes(d, ev) \in Pads
  BY PadTakesType DEF PadEvent
<1>2. PadTakes(d, ev) = PadStep(d, ev)
  BY DEF Declared, PadTakes
<1> DEFINE r == PadStep(d, ev)
<1>3. /\ r.slot = d.slot /\ r.ids = d.ids /\ r.x = d.x /\ r.y = d.y /\ r.tool = d.tool
      /\ r.keys = d.keys
      /\ r.legal <=> d.legal
  BY DEF PadStep, Pads
<1>4. CASE ev.kind = "Touch"
  <2>1. /\ r.touch <=> ev.value
        /\ r.tools = d.tools /\ r.abs_x = d.abs_x /\ r.abs_y = d.abs_y
    BY <1>4 DEF PadStep, Pads
  <2> HIDE DEF r
  <2> QED BY <1>1, <1>2, <1>3, <1>4, <2>1 DEF r, SameTouches
<1>5. CASE ev.kind # "Touch"
  <2>1. r.touch <=> d.touch
    BY <1>5 DEF PadStep, Pads
  <2>2. /\ ev.kind = "ToolUp" => r.tools = d.tools \ {ev.value}
        /\ ev.kind = "ToolDown" => r.tools = d.tools \cup {ev.value}
        /\ ev.kind \notin {"ToolUp", "ToolDown"} => r.tools = d.tools
    BY <1>5 DEF PadStep, Pads
  <2>3. /\ r.abs_x = IF ev.kind = "AbsX" THEN ev.value ELSE d.abs_x
        /\ r.abs_y = IF ev.kind = "AbsY" THEN ev.value ELSE d.abs_y
    BY <1>5 DEF PadStep, Pads
  <2> HIDE DEF r
  <2> QED BY <1>1, <1>2, <1>3, <1>5, <2>1, <2>2, <2>3 DEF r, SameTouches
<1> QED BY <1>4, <1>5

LEMMA PadTakesButton ==
  ASSUME NEW d \in Pads, NEW b \in Button, b.code \in Keys
  PROVE  LET r == PadTakes(d, ButtonEvent(b))
         IN /\ r \in Pads /\ SameTouches(d, r)
            /\ r.touch = d.touch /\ r.tools = d.tools
            /\ r.abs_x = d.abs_x /\ r.abs_y = d.abs_y
            /\ r.keys = ButtonMoves(d.keys, b)
<1> DEFINE ev == ButtonEvent(b)
<1>1. /\ ev \in [kind : {"Press", "Release"}, value : Buttons]
      /\ ev.value = b.code /\ ev.kind = IF b.pressed THEN "Press" ELSE "Release"
  BY DEF ButtonEvent, OutputEvent, Button
<1> HIDE DEF ev
<1>2. PadTakes(d, ev) \in Pads
  BY <1>1, PadTakesType DEF PadEvent
<1>3. PadTakes(d, ev) = PadStep(d, ev)
  BY <1>1 DEF Declared, PadTakes, VirtualTouchpadSpec
<1>4. /\ SameTouches(d, PadStep(d, ev))
      /\ PadStep(d, ev).touch = d.touch /\ PadStep(d, ev).tools = d.tools
      /\ PadStep(d, ev).abs_x = d.abs_x /\ PadStep(d, ev).abs_y = d.abs_y
      /\ PadStep(d, ev).keys = ButtonMoves(d.keys, b)
  BY <1>1 DEF PadStep, Pads, SameTouches, ButtonMoves
<1> QED BY <1>2, <1>3, <1>4 DEF ev

-----------------------------------------------------------------------------
(* What a frame does to it.                                                *)

LEMMA PadNothing ==
  ASSUME NEW d
  PROVE  PadAfter(d, <<>>) = d
BY PadF!FoldEmpty, PadFold

LEMMA PadAppend ==
  ASSUME NEW d, NEW s \in Seq(PadEvent), NEW ev \in PadEvent
  PROVE  PadAfter(d, Append(s, ev)) = PadTakes(PadAfter(d, s), ev)
BY PadF!FoldAppend, PadFold

LEMMA PadConcat ==
  ASSUME NEW d, NEW s \in Seq(PadEvent), NEW t \in Seq(PadEvent)
  PROVE  PadAfter(d, s \o t) = PadAfter(PadAfter(d, s), t)
BY PadF!FoldConcat, PadFold

LEMMA PadOne ==
  ASSUME NEW d, NEW ev
  PROVE  PadAfter(d, <<ev>>) = PadTakes(d, ev)
BY PadF!FoldOne, PadFold

LEMMA PadFirst ==
  ASSUME NEW d, NEW s \in Seq(PadEvent), s # <<>>
  PROVE  PadAfter(d, s) = PadAfter(PadTakes(d, Head(s)), Tail(s))
BY PadF!FoldFirst, PadFold

LEMMA PadStays ==
  ASSUME NEW S, NEW I, \A d \in I, ev \in S : PadTakes(d, ev) \in I,
         NEW d \in I, NEW s \in Seq(S)
  PROVE  PadAfter(d, s) \in I
BY PadF!FoldStays, PadFold

LEMMA PadAfterType ==
  ASSUME NEW d \in Pads, NEW s \in Seq(PadEvent)
  PROVE  PadAfter(d, s) \in Pads
BY PadTakesType, PadStays

LEMMA EventIsPadEvent ==
  ASSUME NEW s \in Seq(Event)
  PROVE  s \in Seq(PadEvent)
BY DEF PadEvent

SamePointer(d, r) ==
  /\ r.touch = d.touch /\ r.tools = d.tools /\ r.abs_x = d.abs_x /\ r.abs_y = d.abs_y

LEMMA PadAfterEvents ==
  ASSUME NEW d \in Pads, NEW s \in Seq(Event)
  PROVE  LET r == PadAfter(d, s)
         IN r \in Pads /\ SamePointer(d, r) /\ r.keys = d.keys
<1> DEFINE I == {r \in Pads : SamePointer(d, r) /\ r.keys = d.keys}
<1>1. d \in I
  BY DEF SamePointer
<1>2. \A r \in I, ev \in Event : PadTakes(r, ev) \in I
  BY PadTakesEvent DEF SamePointer
<1>3. PadAfter(d, s) \in I
  <2> HIDE DEF I
  <2> QED BY <1>1, <1>2, PadStays
<1> QED BY <1>3

PointerEvent ==
  [kind : {"Touch"}, value : BOOLEAN]
  \cup [kind : {"ToolUp", "ToolDown", "AbsX", "AbsY"}, value : Int]

LEMMA PadAfterPointer ==
  ASSUME NEW d \in Pads, NEW s \in Seq(PointerEvent)
  PROVE  LET r == PadAfter(d, s)
         IN r \in Pads /\ SameTouches(d, r) /\ r.keys = d.keys
<1> DEFINE I == {r \in Pads : SameTouches(d, r) /\ r.keys = d.keys}
<1>1. d \in I
  BY DEF SameTouches
<1>2. ASSUME NEW r \in I, NEW ev \in PointerEvent PROVE PadTakes(r, ev) \in I
  <2>1. /\ PadTakes(r, ev) \in Pads /\ SameTouches(r, PadTakes(r, ev))
        /\ PadTakes(r, ev).keys = r.keys
    BY PadTakesPointer DEF PointerEvent
  <2> QED BY <2>1 DEF SameTouches
<1>3. PadAfter(d, s) \in I
  <2> HIDE DEF I
  <2> QED BY <1>1, <1>2, PadStays
<1> QED BY <1>3

\* The buttons of a frame, on the touchpad, in the composer and on the pad.
ClickButton == {b \in Button : b.code \in Keys}
ButtonEvents(bs) == [i \in DOMAIN bs |-> ButtonEvent(bs[i])]

LEMMA ButtonsNothing ==
  ASSUME NEW down
  PROVE  ButtonsAfter(down, <<>>) = down
BY PhysicalF!FoldEmpty, PhysicalFold

LEMMA ButtonsAppend ==
  ASSUME NEW down, NEW bs \in Seq(ClickButton), NEW b \in ClickButton
  PROVE  ButtonsAfter(down, Append(bs, b)) = ButtonMoves(ButtonsAfter(down, bs), b)
BY PhysicalF!FoldAppend, PhysicalFold

LEMMA ButtonsAfterType ==
  ASSUME NEW down \in SUBSET Clicks, NEW bs \in Seq(ClickButton)
  PROVE  ButtonsAfter(down, bs) \in SUBSET Clicks
<1> DEFINE I == SUBSET Clicks
<1>1. \A x \in I, b \in ClickButton : ButtonMoves(x, b) \in I
  BY DEF ButtonMoves, ClickButton, Button, Clicks
<1> HIDE DEF I
<1>2. down \in I
  BY DEF I
<1>3. PhysicalF!Fold(down, bs) \in I
  BY <1>1, <1>2, PhysicalF!FoldStays
<1> QED BY <1>3, PhysicalFold DEF I

LEMMA ButtonEventsType ==
  ASSUME NEW bs \in Seq(ClickButton)
  PROVE  ButtonEvents(bs) \in Seq(PadEvent) /\ Len(ButtonEvents(bs)) = Len(bs)
<1>1. \A b \in ClickButton : ButtonEvent(b) \in PadEvent
  BY DEF ButtonEvent, OutputEvent, ClickButton, Button, PadEvent
<1>2. \A i \in DOMAIN bs : ButtonEvent(bs[i]) \in PadEvent
  BY <1>1
<1>3. DOMAIN bs = 1..Len(bs) /\ Len(bs) \in Nat
  OBVIOUS
<1>4. ButtonEvents(bs) \in Seq(PadEvent)
  BY <1>2, <1>3, SeqDef DEF ButtonEvents
<1> QED BY <1>3, <1>4 DEF ButtonEvents

LEMMA ButtonEventsAppend ==
  ASSUME NEW bs \in Seq(ClickButton), NEW b \in ClickButton
  PROVE  ButtonEvents(Append(bs, b)) = Append(ButtonEvents(bs), ButtonEvent(b))
<1> DEFINE t == Append(bs, b)
           u == Append(ButtonEvents(bs), ButtonEvent(b))
<1>1. t \in Seq(ClickButton) /\ Len(t) = Len(bs) + 1
  OBVIOUS
<1>2. \A i \in 1..Len(t) : t[i] = IF i = Len(bs) + 1 THEN b ELSE bs[i]
  OBVIOUS
<1>3. ButtonEvents(bs) \in Seq(PadEvent) /\ Len(ButtonEvents(bs)) = Len(bs)
  BY ButtonEventsType
<1>4. ButtonEvents(t) \in Seq(PadEvent) /\ Len(ButtonEvents(t)) = Len(t)
  BY <1>1, ButtonEventsType
<1>5. ButtonEvent(b) \in PadEvent
  BY DEF ButtonEvent, OutputEvent, ClickButton, Button, PadEvent
<1>6. u \in Seq(PadEvent) /\ Len(u) = Len(bs) + 1
  BY <1>3, <1>5
<1>7. \A i \in 1..(Len(bs) + 1) :
        u[i] = IF i = Len(bs) + 1 THEN ButtonEvent(b) ELSE ButtonEvent(bs[i])
  BY <1>3, <1>5 DEF ButtonEvents
<1>8. \A i \in 1..(Len(bs) + 1) : ButtonEvents(t)[i] = u[i]
  <2> HIDE DEF u
  <2> QED BY <1>1, <1>2, <1>7 DEF ButtonEvents
<1> HIDE DEF t, u
<1>9. ButtonEvents(t) = u
  BY <1>1, <1>4, <1>6, <1>8, SeqEqual
<1> QED BY <1>9 DEF t, u

LEMMA PadAfterButtons ==
  ASSUME NEW d \in Pads, NEW bs \in Seq(ClickButton)
  PROVE  LET r == PadAfter(d, ButtonEvents(bs))
         IN /\ r \in Pads /\ SameTouches(d, r) /\ SamePointer(d, r)
            /\ r.keys = ButtonsAfter(d.keys, bs)
<1> DEFINE Goal(u) == LET r == PadAfter(d, ButtonEvents(u))
                      IN /\ r \in Pads /\ SameTouches(d, r) /\ SamePointer(d, r)
                         /\ r.keys = ButtonsAfter(d.keys, u)
           T == {u \in Seq(ClickButton) : Goal(u)}
<1>1. <<>> \in T
  <2>1. ButtonEvents(<<>>) = <<>>
    BY DEF ButtonEvents
  <2>2. PadAfter(d, ButtonEvents(<<>>)) = d
    BY <2>1, PadNothing
  <2>3. ButtonsAfter(d.keys, <<>>) = d.keys
    BY ButtonsNothing
  <2> QED BY <2>2, <2>3 DEF SameTouches, SamePointer
<1>2. ASSUME NEW u \in Seq(ClickButton), NEW b \in ClickButton, u \in T
      PROVE  Append(u, b) \in T
  <2> DEFINE r == PadAfter(d, ButtonEvents(u))
             v == Append(u, b)
  <2>1. /\ r \in Pads /\ SameTouches(d, r) /\ SamePointer(d, r)
        /\ r.keys = ButtonsAfter(d.keys, u)
    BY <1>2
  <2>2. PadAfter(d, ButtonEvents(v)) = PadTakes(r, ButtonEvent(b))
    <3>1. ButtonEvents(u) \in Seq(PadEvent) /\ ButtonEvent(b) \in PadEvent
      BY ButtonEventsType DEF ButtonEvent, OutputEvent, ClickButton, Button, PadEvent
    <3> QED BY <3>1, ButtonEventsAppend, PadAppend
  <2>3. ButtonsAfter(d.keys, v) = ButtonMoves(ButtonsAfter(d.keys, u), b)
    BY ButtonsAppend
  <2>4. b \in Button /\ b.code \in Keys
    BY DEF ClickButton
  <2> HIDE DEF r
  <2> DEFINE q == PadTakes(r, ButtonEvent(b))
  <2>5. /\ q \in Pads /\ SameTouches(r, q) /\ SamePointer(r, q)
        /\ q.keys = ButtonMoves(r.keys, b)
    BY <2>1, <2>4, PadTakesButton DEF SamePointer
  <2> HIDE DEF q
  <2>6. SameTouches(d, q) /\ SamePointer(d, q) /\ q.keys = ButtonsAfter(d.keys, v)
    BY <2>1, <2>3, <2>5 DEF SameTouches, SamePointer
  <2>7. v \in Seq(ClickButton)
    OBVIOUS
  <2> HIDE DEF v
  <2>8. Goal(v)
    BY <2>2, <2>5, <2>6 DEF q
  <2> QED BY <2>7, <2>8 DEF v
<1> HIDE DEF T
<1>3. bs \in T
  BY <1>1, <1>2, PadF!SeqSetInduction
<1> QED BY <1>3 DEF T

OutputSlot == [active : BOOLEAN, x : Int, y : Int]

Composers ==
  [ current_slot : Int, slots : [Slots -> OutputSlot],
    contact_count : Nat, position : Int \X Int, pressed : SUBSET Clicks ]

LEMMA FreeOutputSlotType ==
  ASSUME NEW b \in BOOLEAN
  PROVE  /\ FreeOutputSlot \in OutputSlot
         /\ [FreeOutputSlot EXCEPT !.active = b] \in OutputSlot
BY DEF FreeOutputSlot, OutputSlot, None

PutSlot(c, s, o) == [c EXCEPT !.slots[s] = o]

LEMMA PutSlotType ==
  ASSUME NEW c \in Composers, NEW s, NEW o, s \in Slots => o \in OutputSlot
  PROVE  PutSlot(c, s, o) \in Composers
BY DEF Composers, PutSlot

LEMMA NewComposerType == NewComposer \in Composers
BY SlotsAssumption DEF NewComposer, Composers, NoOutputSlots, OutputSlot,
                       FreeOutputSlot, NoPosition, None

SameOutput(c, r) ==
  /\ r.current_slot = c.current_slot /\ r.slots = c.slots
  /\ r.contact_count = c.contact_count /\ r.position = c.position

LEMMA ComposerButtons ==
  ASSUME NEW c \in Composers, NEW bs \in Seq(ClickButton)
  PROVE  LET r == FoldLeft(ApplyButton, c, bs)
         IN /\ r \in Composers /\ SameOutput(c, r)
            /\ r.pressed = ButtonsAfter(c.pressed, bs)
<1> DEFINE Goal(u) == LET r == ButtonF!Fold(c, u)
                      IN /\ r \in Composers /\ SameOutput(c, r)
                         /\ r.pressed = ButtonsAfter(c.pressed, u)
           T == {u \in Seq(ClickButton) : Goal(u)}
<1>1. <<>> \in T
  <2>1. ButtonF!Fold(c, <<>>) = c /\ ButtonsAfter(c.pressed, <<>>) = c.pressed
    BY ButtonF!FoldEmpty, ButtonsNothing
  <2> QED BY <2>1 DEF SameOutput
<1>2. ASSUME NEW u \in Seq(ClickButton), NEW b \in ClickButton, u \in T
      PROVE  Append(u, b) \in T
  <2> DEFINE r == ButtonF!Fold(c, u)
             q == ApplyButton(r, b)
             v == Append(u, b)
  <2>1. r \in Composers /\ SameOutput(c, r) /\ r.pressed = ButtonsAfter(c.pressed, u)
    BY <1>2
  <2>2. ButtonF!Fold(c, v) = q
    BY ButtonF!FoldAppend
  <2>3. ButtonsAfter(c.pressed, v) = ButtonMoves(ButtonsAfter(c.pressed, u), b)
    BY ButtonsAppend
  <2>4. v \in Seq(ClickButton)
    OBVIOUS
  <2> HIDE DEF r, v
  <2>5. q \in Composers /\ SameOutput(r, q) /\ q.pressed = ButtonMoves(r.pressed, b)
    BY <2>1 DEF ApplyButton, Composers, SameOutput, ButtonMoves, ClickButton, Button, Clicks
  <2> HIDE DEF q
  <2>6. Goal(v)
    BY <2>1, <2>2, <2>3, <2>5 DEF SameOutput
  <2> QED BY <2>4, <2>6 DEF v
<1> HIDE DEF T
<1>3. bs \in T
  BY <1>1, <1>2, ButtonF!SeqSetInduction
<1> QED BY <1>3, ButtonFold DEF T

-----------------------------------------------------------------------------
(* The pointer emulation.                                                  *)

LEMMA SlotsAreFinite == IsFiniteSet(Slots)
BY SlotsAssumption, FS_Interval DEF Slots

LEMMA CountType ==
  ASSUME NEW c
  PROVE  /\ IsFiniteSet(ActiveOutputSlots(c))
         /\ Cardinality(ActiveOutputSlots(c)) \in Nat
         /\ Cardinality(ActiveOutputSlots(c)) = 0 <=> ActiveOutputSlots(c) = {}
<1>1. ActiveOutputSlots(c) \in SUBSET Slots
  BY DEF ActiveOutputSlots
<1>2. IsFiniteSet(ActiveOutputSlots(c))
  BY <1>1, SlotsAreFinite, FS_Subset
<1> QED BY <1>2, FS_CardinalityType, FS_EmptySet

LEMMA ToolForType ==
  ASSUME NEW n \in Nat
  PROVE  ToolFor(n) = IF n < 5 THEN n ELSE 5
BY DEF ToolFor, Min

\* The least of some slots.
LEMMA LeastSlot ==
  ASSUME NEW S \in SUBSET Slots, S # {}
  PROVE  Min(S) \in S /\ \A s \in S : Min(S) <= s
<1> DEFINE T == {s - SlotMin : s \in S}
<1>1. T \subseteq Nat /\ T # {}
  BY SlotsAssumption DEF Slots
<1>2. PICK x \in T : \A y \in T : ~ (<<y, x>> \in OpToRel(<, Nat))
  <2> HIDE DEF T
  <2> QED BY <1>1, WFMin, NatLessThanWellFounded
<1>3. \A y \in T : x <= y
  <2> HIDE DEF T
  <2> SUFFICES ASSUME NEW y \in T, y < x PROVE FALSE
    BY <1>1
  <2>1. <<y, x>> \in OpToRel(<, Nat)
    BY <1>1 DEF OpToRel
  <2> QED BY <1>2, <2>1
<1>4. PICK s \in S : x = s - SlotMin
  OBVIOUS
<1>5. \A r \in S : r \in Int /\ r - SlotMin \in T
  BY SlotsAssumption DEF Slots
<1>6. \A r \in S : s <= r
  <2> TAKE r \in S
  <2>1. s - SlotMin <= r - SlotMin /\ s \in Int /\ r \in Int
    BY <1>3, <1>4, <1>5
  <2> QED BY <2>1, SlotsAssumption
<1>7. \A r \in S : (\A q \in S : r <= q) => r \in S /\ \A q \in S : r <= q
  OBVIOUS
<1> QED BY <1>6 DEF Min

LEMMA RepresentativeType ==
  ASSUME NEW c \in Composers
  PROVE  RepresentativePosition(c) \in Int \X Int
<1> DEFINE known == {s \in ActiveOutputSlots(c) : c.slots[s].x # None /\ c.slots[s].y # None}
<1>1. CASE known = {}
  BY <1>1 DEF RepresentativePosition, NoPosition, None
<1>2. CASE known # {}
  <2>1. known \in SUBSET Slots
    BY DEF ActiveOutputSlots
  <2>2. Min(known) \in Slots
    <3> HIDE DEF known
    <3> QED BY <1>2, <2>1, LeastSlot
  <2>3. RepresentativePosition(c) = <<c.slots[Min(known)].x, c.slots[Min(known)].y>>
    BY <1>2 DEF RepresentativePosition
  <2> HIDE DEF known
  <2> QED BY <2>2, <2>3 DEF Composers, OutputSlot
<1> QED BY <1>1, <1>2

LEMMA RememberType ==
  ASSUME NEW c \in Composers
  PROVE  LET r == RememberLegacy(c)
         IN /\ r \in Composers /\ r.current_slot = c.current_slot
            /\ r.slots = c.slots /\ r.pressed = c.pressed
            /\ r.contact_count = Cardinality(ActiveOutputSlots(c))
            /\ r.position = RepresentativePosition(c)
BY CountType, RepresentativeType DEF RememberLegacy, Composers

LEMMA TouchEvent ==
  ASSUME NEW b \in BOOLEAN
  PROVE  /\ OutputEvent("Touch", b) \in PointerEvent
         /\ OutputEvent("Touch", b).kind = "Touch" /\ OutputEvent("Touch", b).value = b
BY DEF OutputEvent, PointerEvent

LEMMA Joins ==
  ASSUME NEW a, NEW b
  PROVE  /\ <<>> \o <<>> = <<>> /\ <<>> \o <<a>> = <<a>> /\ <<a>> \o <<>> = <<a>>
         /\ <<a>> \o <<b>> = <<a, b>>
<1> DEFINE S == {a, b}
           x == <<a>>
           y == <<b>>
           z == <<a, b>>
           n == <<>>
<1>1. /\ x \in Seq(S) /\ y \in Seq(S) /\ z \in Seq(S) /\ n \in Seq(S)
      /\ Len(x) = 1 /\ Len(y) = 1 /\ Len(z) = 2
      /\ x[1] = a /\ y[1] = b /\ z[1] = a /\ z[2] = b
  OBVIOUS
<1> HIDE DEF S, x, y, z
<1>2. n \o n = n /\ n \o x = x /\ x \o n = x
  BY <1>1, ConcatEmptySeq
<1>3. x \o y = z
  <2>1. /\ x \o y \in Seq(S) /\ Len(x \o y) = 1 + 1
        /\ \A i \in 1..(1 + 1) : (x \o y)[i] = IF i <= 1 THEN x[i] ELSE y[i - 1]
    BY <1>1, ConcatProperties
  <2>2. Len(x \o y) = 2 /\ \A i \in 1..2 : (x \o y)[i] = z[i]
    BY <1>1, <2>1
  <2> DEFINE w == x \o y
  <2> HIDE DEF w
  <2>3. w = z
    BY <1>1, <2>1, <2>2, SeqEqual DEF w
  <2> QED BY <2>3 DEF w
<1> QED BY <1>2, <1>3 DEF x, y, z, n

TouchChange(c, count) ==
  IF (c.contact_count > 0) = (count > 0) THEN <<>> ELSE <<OutputEvent("Touch", count > 0)>>

LEMMA LegacyParts ==
  ASSUME NEW c \in Composers
  PROVE  LET count == Cardinality(ActiveOutputSlots(c))
             position == RepresentativePosition(c)
         IN /\ LegacyEvents(c) = TouchChange(c, count) \o ToolChanges(c.contact_count, count)
                                 \o PositionChanges(c.position, position)
            /\ TouchChange(c, count) \in Seq(PointerEvent)
            /\ ToolChanges(c.contact_count, count) \in Seq(PointerEvent)
            /\ PositionChanges(c.position, position) \in Seq(PointerEvent)
            /\ LegacyEvents(c) \in Seq(PointerEvent)
<1> DEFINE count == Cardinality(ActiveOutputSlots(c))
           position == RepresentativePosition(c)
<1>1. LegacyEvents(c) = TouchChange(c, count) \o ToolChanges(c.contact_count, count)
                        \o PositionChanges(c.position, position)
  BY DEF LegacyEvents, TouchChange
<1>2. count \in Nat /\ c.contact_count \in Nat /\ c.position \in Int \X Int
  BY CountType DEF Composers
<1>3. position \in Int \X Int
  BY RepresentativeType
<1> HIDE DEF count, position
<1>4. TouchChange(c, count) \in Seq(PointerEvent)
  <2> DEFINE b == count > 0
  <2>1. b \in BOOLEAN
    OBVIOUS
  <2> HIDE DEF b
  <2>2. OutputEvent("Touch", b) \in PointerEvent
    BY <2>1, TouchEvent
  <2> QED BY <2>2 DEF TouchChange, b
<1>5. ToolChanges(c.contact_count, count) \in Seq(PointerEvent)
  <2>1. /\ OutputEvent("ToolUp", ToolFor(c.contact_count)) \in PointerEvent
        /\ OutputEvent("ToolDown", ToolFor(count)) \in PointerEvent
    BY <1>2, ToolForType DEF OutputEvent, PointerEvent
  <2> QED BY <2>1 DEF ToolChanges
<1>6. PositionChanges(c.position, position) \in Seq(PointerEvent)
  <2>1. /\ OutputEvent("AbsX", position[1]) \in PointerEvent
        /\ OutputEvent("AbsY", position[2]) \in PointerEvent
    BY <1>3 DEF OutputEvent, PointerEvent
  <2> QED BY <2>1 DEF PositionChanges
<1>7. LegacyEvents(c) \in Seq(PointerEvent)
  BY <1>1, <1>4, <1>5, <1>6
<1> QED BY <1>1, <1>4, <1>5, <1>6, <1>7 DEF count, position

\* The pad's touch and tool keys, and its pointer, as the composer knows them.
PointerAgrees(c, d) ==
  /\ d.touch <=> c.contact_count > 0
  /\ d.tools = IF c.contact_count > 0 THEN {ToolFor(c.contact_count)} ELSE {}
  /\ c.position # NoPosition => d.abs_x = c.position[1] /\ d.abs_y = c.position[2]

LEMMA PointerIsPadEvent ==
  ASSUME NEW s \in Seq(PointerEvent)
  PROVE  s \in Seq(PadEvent)
BY DEF PadEvent, PointerEvent

LEMMA PadTwo ==
  ASSUME NEW d, NEW a \in PadEvent, NEW b \in PadEvent
  PROVE  PadAfter(d, <<a, b>>) = PadTakes(PadTakes(d, a), b)
<1> DEFINE one == <<a>>
<1>1. one \in Seq(PadEvent) /\ <<a, b>> = Append(one, b)
  OBVIOUS
<1>2. PadAfter(d, one) = PadTakes(d, a)
  BY PadOne
<1> HIDE DEF one
<1>3. PadAfter(d, Append(one, b)) = PadTakes(PadAfter(d, one), b)
  BY <1>1, PadAppend
<1> QED BY <1>1, <1>2, <1>3

LEMMA TouchFollows ==
  ASSUME NEW c \in Composers, NEW count \in Nat, NEW d \in Pads,
         d.touch <=> c.contact_count > 0
  PROVE  LET r == PadAfter(d, TouchChange(c, count))
         IN /\ r \in Pads /\ (r.touch <=> count > 0)
            /\ r.tools = d.tools /\ r.abs_x = d.abs_x /\ r.abs_y = d.abs_y
<1> DEFINE ev == OutputEvent("Touch", count > 0)
<1>1. c.contact_count \in Nat
  BY DEF Composers
<1>2. CASE (c.contact_count > 0) = (count > 0)
  <2>1. PadAfter(d, TouchChange(c, count)) = d
    BY <1>2, PadNothing DEF TouchChange
  <2> QED BY <1>2, <2>1
<1>3. CASE (c.contact_count > 0) # (count > 0)
  <2>1. PadAfter(d, TouchChange(c, count)) = PadTakes(d, ev)
    BY <1>3, PadOne DEF TouchChange
  <2>2. ev \in PointerEvent /\ ev.kind = "Touch" /\ ev.value = (count > 0)
    <3> DEFINE b == count > 0
    <3>1. b \in BOOLEAN
      OBVIOUS
    <3> HIDE DEF b
    <3>2. /\ OutputEvent("Touch", b) \in PointerEvent
          /\ OutputEvent("Touch", b).kind = "Touch" /\ OutputEvent("Touch", b).value = b
      BY <3>1, TouchEvent
    <3> QED BY <3>2 DEF b
  <2> HIDE DEF ev
  <2> DEFINE r == PadTakes(d, ev)
  <2>3. /\ r \in Pads /\ (r.touch <=> ev.value)
        /\ r.tools = d.tools /\ r.abs_x = d.abs_x /\ r.abs_y = d.abs_y
    BY <2>2, PadTakesPointer DEF PointerEvent
  <2> HIDE DEF r
  <2> QED BY <2>1, <2>2, <2>3 DEF r
<1> QED BY <1>2, <1>3

LEMMA ToolsFollow ==
  ASSUME NEW before \in Nat, NEW count \in Nat, NEW d \in Pads,
         d.tools = IF before > 0 THEN {ToolFor(before)} ELSE {}
  PROVE  LET r == PadAfter(d, ToolChanges(before, count))
         IN /\ r \in Pads
            /\ r.tools = IF count > 0 THEN {ToolFor(count)} ELSE {}
            /\ (r.touch <=> d.touch) /\ r.abs_x = d.abs_x /\ r.abs_y = d.abs_y
<1> DEFINE up == OutputEvent("ToolUp", ToolFor(before))
           down == OutputEvent("ToolDown", ToolFor(count))
<1>1. /\ up \in PointerEvent /\ up.kind = "ToolUp" /\ up.value = ToolFor(before)
      /\ down \in PointerEvent /\ down.kind = "ToolDown" /\ down.value = ToolFor(count)
  BY ToolForType DEF OutputEvent, PointerEvent
<1>2. up \in PadEvent /\ down \in PadEvent
  BY <1>1 DEF PadEvent, PointerEvent
<1>3. ToolChanges(before, count) =
        IF before = count THEN <<>>
        ELSE IF before > 0 THEN (IF count > 0 THEN <<up, down>> ELSE <<up>>)
        ELSE <<down>>
  <2>1. ToolChanges(before, count) =
          IF before = count THEN <<>>
          ELSE (IF before > 0 THEN <<up>> ELSE <<>>) \o (IF count > 0 THEN <<down>> ELSE <<>>)
    BY DEF ToolChanges
  <2> HIDE DEF up, down
  <2>2. before # count => before > 0 \/ count > 0
    OBVIOUS
  <2> QED BY <2>1, <2>2, Joins
<1> HIDE DEF up, down
<1> DEFINE r == PadAfter(d, ToolChanges(before, count))
<1>4. CASE before = count
  <2>1. r = d
    BY <1>3, <1>4, PadNothing
  <2> QED BY <1>4, <2>1
<1> DEFINE q == PadTakes(d, up)
<1>5. /\ q \in Pads /\ q.tools = d.tools \ {ToolFor(before)}
      /\ (q.touch <=> d.touch) /\ q.abs_x = d.abs_x /\ q.abs_y = d.abs_y
  BY <1>1, PadTakesPointer DEF PointerEvent
<1>6. \A p \in Pads :
        /\ PadTakes(p, down) \in Pads
        /\ PadTakes(p, down).tools = p.tools \cup {ToolFor(count)}
        /\ PadTakes(p, down).touch <=> p.touch
        /\ PadTakes(p, down).abs_x = p.abs_x /\ PadTakes(p, down).abs_y = p.abs_y
  <2> TAKE p \in Pads
  <2>1. down \in PointerEvent /\ down.kind = "ToolDown" /\ down.value = ToolFor(count)
    BY <1>1
  <2> HIDE DEF r, q
  <2> QED BY <2>1, PadTakesPointer DEF PointerEvent
<1>7. CASE before # count /\ before > 0 /\ count > 0
  <2>1. r = PadTakes(q, down)
    BY <1>2, <1>3, <1>7, PadTwo
  <2>2. q.tools = {}
    BY <1>5, <1>7
  <2> HIDE DEF r, q
  <2> QED BY <1>5, <1>6, <1>7, <2>1, <2>2 DEF r
<1>8. CASE before # count /\ before > 0 /\ ~(count > 0)
  <2>1. r = q
    BY <1>3, <1>8, PadOne
  <2> HIDE DEF r, q
  <2> QED BY <1>5, <1>8, <2>1 DEF r
<1>9. CASE before # count /\ ~(before > 0)
  <2>1. r = PadTakes(d, down) /\ count > 0
    BY <1>3, <1>9, PadOne
  <2> HIDE DEF r
  <2> QED BY <1>6, <1>9, <2>1 DEF r
<1> QED BY <1>4, <1>7, <1>8, <1>9

\* An axis that is left out is where it has to be already.
LEMMA PositionFollows ==
  ASSUME NEW before \in Int \X Int, NEW position \in Int \X Int, NEW d \in Pads,
         before # NoPosition => d.abs_x = before[1] /\ d.abs_y = before[2],
         position # NoPosition => position[1] # None /\ position[2] # None
  PROVE  LET r == PadAfter(d, PositionChanges(before, position))
         IN /\ r \in Pads /\ (r.touch <=> d.touch) /\ r.tools = d.tools
            /\ position # NoPosition =>
                 r.abs_x = position[1] /\ r.abs_y = position[2]
<1> DEFINE r == PadAfter(d, PositionChanges(before, position))
           x == OutputEvent("AbsX", position[1])
           y == OutputEvent("AbsY", position[2])
<1>1. /\ x \in PointerEvent /\ x.kind = "AbsX" /\ x.value = position[1]
      /\ y \in PointerEvent /\ y.kind = "AbsY" /\ y.value = position[2]
  BY DEF OutputEvent, PointerEvent
<1>2. x \in PadEvent /\ y \in PadEvent
  BY <1>1 DEF PadEvent, PointerEvent
<1>3. PositionChanges(before, position) =
        IF position = NoPosition THEN <<>>
        ELSE IF position[1] = before[1]
             THEN (IF position[2] = before[2] THEN <<>> ELSE <<y>>)
             ELSE (IF position[2] = before[2] THEN <<x>> ELSE <<x, y>>)
  <2>1. PositionChanges(before, position) =
          IF position = NoPosition THEN <<>>
          ELSE (IF position[1] = before[1] THEN <<>> ELSE <<x>>)
               \o (IF position[2] = before[2] THEN <<>> ELSE <<y>>)
    BY DEF PositionChanges
  <2> HIDE DEF x, y
  <2> QED BY <2>1, Joins
<1>4. position # NoPosition =>
        /\ position[1] = before[1] => d.abs_x = position[1]
        /\ position[2] = before[2] => d.abs_y = position[2]
  BY DEF NoPosition
<1> HIDE DEF x, y
<1>5. \A p \in Pads :
        /\ PadTakes(p, x) \in Pads
        /\ (PadTakes(p, x).touch <=> p.touch) /\ PadTakes(p, x).tools = p.tools
        /\ PadTakes(p, x).abs_x = position[1] /\ PadTakes(p, x).abs_y = p.abs_y
  BY <1>1, PadTakesPointer DEF PointerEvent
<1>6. \A p \in Pads :
        /\ PadTakes(p, y) \in Pads
        /\ (PadTakes(p, y).touch <=> p.touch) /\ PadTakes(p, y).tools = p.tools
        /\ PadTakes(p, y).abs_x = p.abs_x /\ PadTakes(p, y).abs_y = position[2]
  BY <1>1, PadTakesPointer DEF PointerEvent
<1>7. r = IF position = NoPosition THEN d
          ELSE IF position[1] = before[1]
               THEN (IF position[2] = before[2] THEN d ELSE PadTakes(d, y))
               ELSE (IF position[2] = before[2] THEN PadTakes(d, x)
                     ELSE PadTakes(PadTakes(d, x), y))
  BY <1>2, <1>3, PadNothing, PadOne, PadTwo
<1> HIDE DEF r
<1> QED BY <1>4, <1>5, <1>6, <1>7 DEF r

LEMMA RepresentativeIsPlaced ==
  ASSUME NEW c
  PROVE  LET position == RepresentativePosition(c)
         IN position # NoPosition => position[1] # None /\ position[2] # None
<1> DEFINE known == {s \in ActiveOutputSlots(c) : c.slots[s].x # None /\ c.slots[s].y # None}
<1>1. CASE known = {}
  BY <1>1 DEF RepresentativePosition
<1>2. CASE known # {}
  <2>1. known \in SUBSET Slots
    BY DEF ActiveOutputSlots
  <2>2. Min(known) \in known
    <3> HIDE DEF known
    <3> QED BY <1>2, <2>1, LeastSlot
  <2> DEFINE first == c.slots[Min(known)]
  <2>3. RepresentativePosition(c) = <<first.x, first.y>>
    BY <1>2 DEF RepresentativePosition
  <2>4. first.x # None /\ first.y # None
    BY <2>2
  <2> HIDE DEF known, first
  <2> QED BY <2>3, <2>4
<1> QED BY <1>1, <1>2

LEMMA LegacyFollows ==
  ASSUME NEW c \in Composers, NEW d \in Pads, PointerAgrees(c, d)
  PROVE  LET r == PadAfter(d, LegacyEvents(c))
         IN /\ r \in Pads /\ SameTouches(d, r) /\ r.keys = d.keys
            /\ PointerAgrees(RememberLegacy(c), r)
<1> DEFINE count == Cardinality(ActiveOutputSlots(c))
           position == RepresentativePosition(c)
           a == TouchChange(c, count)
           b == ToolChanges(c.contact_count, count)
           p == PositionChanges(c.position, position)
           r == PadAfter(d, LegacyEvents(c))
<1>1. /\ LegacyEvents(c) = a \o b \o p
      /\ a \in Seq(PadEvent) /\ b \in Seq(PadEvent) /\ p \in Seq(PadEvent)
      /\ LegacyEvents(c) \in Seq(PointerEvent)
  BY LegacyParts, PointerIsPadEvent
<1>2. r \in Pads /\ SameTouches(d, r) /\ r.keys = d.keys
  BY <1>1, PadAfterPointer
<1>3. /\ count \in Nat /\ position \in Int \X Int /\ c.contact_count \in Nat
      /\ c.position \in Int \X Int
      /\ position # NoPosition => position[1] # None /\ position[2] # None
  BY CountType, RepresentativeType, RepresentativeIsPlaced DEF Composers
<1> DEFINE d1 == PadAfter(d, a)
           d2 == PadAfter(d1, b)
           d3 == PadAfter(d2, p)
<1>4. r = d3
  <2> HIDE DEF a, b, p
  <2>1. a \o b \in Seq(PadEvent)
    BY <1>1
  <2>2. PadAfter(d, (a \o b) \o p) = PadAfter(PadAfter(d, a \o b), p)
    BY <1>1, <2>1, PadConcat
  <2>3. PadAfter(d, a \o b) = PadAfter(PadAfter(d, a), b)
    BY <1>1, PadConcat
  <2> QED BY <1>1, <2>2, <2>3
<1> HIDE DEF count, position
<1>5. /\ d1 \in Pads /\ (d1.touch <=> count > 0)
      /\ d1.tools = d.tools /\ d1.abs_x = d.abs_x /\ d1.abs_y = d.abs_y
  BY <1>3, TouchFollows DEF PointerAgrees
<1> HIDE DEF d1
<1>6. /\ d2 \in Pads /\ (d2.touch <=> d1.touch)
      /\ d2.tools = IF count > 0 THEN {ToolFor(count)} ELSE {}
      /\ d2.abs_x = d1.abs_x /\ d2.abs_y = d1.abs_y
  <2>1. d1.tools = IF c.contact_count > 0 THEN {ToolFor(c.contact_count)} ELSE {}
    BY <1>5 DEF PointerAgrees
  <2> QED BY <1>3, <1>5, <2>1, ToolsFollow
<1> HIDE DEF d2
<1>7. /\ (d3.touch <=> d2.touch) /\ d3.tools = d2.tools
      /\ position # NoPosition => d3.abs_x = position[1] /\ d3.abs_y = position[2]
  <2>1. c.position # NoPosition => d2.abs_x = c.position[1] /\ d2.abs_y = c.position[2]
    BY <1>5, <1>6 DEF PointerAgrees
  <2> QED BY <1>3, <1>6, <2>1, PositionFollows
<1> HIDE DEF d3, r
<1> DEFINE k == RememberLegacy(c)
<1>8. k.contact_count = count /\ k.position = position
  BY RememberType DEF count, position
<1> HIDE DEF k
<1>9. PointerAgrees(k, r)
  BY <1>4, <1>5, <1>6, <1>7, <1>8 DEF PointerAgrees
<1> QED BY <1>2, <1>9 DEF r, k

-----------------------------------------------------------------------------
(* The contacts, in the composer and on the pad.                           *)

\* The composer knows which slots have a contact, and the places it was told.
ContactsAgree(c, d) ==
  \A s \in Slots :
    /\ c.slots[s].active <=> d.ids[s] # None
    /\ c.slots[s].x # None => d.x[s] = c.slots[s].x
    /\ c.slots[s].y # None => d.y[s] = c.slots[s].y

SameEmulation(c, k) ==
  /\ k.contact_count = c.contact_count /\ k.position = c.position /\ k.pressed = c.pressed

LEMMA ApplyType ==
  ASSUME NEW c \in Composers, NEW ev \in Event
  PROVE  LET k == ApplyPassthrough(c, ev)
         IN /\ k \in Composers /\ SameEmulation(c, k)
            /\ k.current_slot = IF ev.kind = "Slot" THEN ev.value ELSE c.current_slot
<1>1. ApplyPassthrough(c, ev) \in Composers
  <2> DEFINE s == c.current_slot
             o == c.slots[s]
  <2>1. s \in Slots => o \in OutputSlot
    BY DEF Composers
  <2>2. CASE ev.kind = "TrackingId"
    <3> DEFINE b == ev.value # None
               new == [FreeOutputSlot EXCEPT !.active = b]
    <3>1. b \in BOOLEAN
      OBVIOUS
    <3>2. ApplyPassthrough(c, ev) = PutSlot(c, s, new)
      BY <2>2 DEF ApplyPassthrough, PutSlot
    <3> HIDE DEF b
    <3>3. new \in OutputSlot
      BY <3>1, FreeOutputSlotType
    <3> HIDE DEF new, s, o
    <3> QED BY <3>2, <3>3, PutSlotType
  <2>3. CASE ev.kind = "Slot"
    BY <2>3 DEF ApplyPassthrough, Composers, Event
  <2>4. CASE ev.kind = "X"
    <3> DEFINE new == [o EXCEPT !.x = ev.value]
    <3>1. s \in Slots => new \in OutputSlot
      BY <2>1 DEF OutputSlot, Event
    <3>2. ApplyPassthrough(c, ev) = PutSlot(c, s, new)
      BY <2>4 DEF ApplyPassthrough, Composers, PutSlot
    <3> HIDE DEF new, s, o
    <3> QED BY <3>1, <3>2, PutSlotType
  <2>5. CASE ev.kind = "Y"
    <3> DEFINE new == [o EXCEPT !.y = ev.value]
    <3>1. s \in Slots => new \in OutputSlot
      BY <2>1 DEF OutputSlot, Event
    <3>2. ApplyPassthrough(c, ev) = PutSlot(c, s, new)
      BY <2>5 DEF ApplyPassthrough, Composers, PutSlot
    <3> HIDE DEF new, s, o
    <3> QED BY <3>1, <3>2, PutSlotType
  <2>6. CASE ev.kind \notin {"Slot", "TrackingId", "X", "Y"}
    BY <2>6 DEF ApplyPassthrough
  <2> QED BY <2>2, <2>3, <2>4, <2>5, <2>6
<1>2. SameEmulation(c, ApplyPassthrough(c, ev))
  BY DEF ApplyPassthrough, Composers, SameEmulation
<1> QED BY <1>1, <1>2 DEF ApplyPassthrough, Composers, Event, Kinds

LEMMA ApplySlot ==
  ASSUME NEW c \in Composers, NEW ev \in Event, NEW q \in Slots
  PROVE  LET k == ApplyPassthrough(c, ev).slots[q]
             o == c.slots[q]
         IN IF q # c.current_slot THEN k = o
            ELSE /\ ev.kind = "TrackingId" =>
                      /\ k.active <=> ev.value # None
                      /\ k.x = None /\ k.y = None
                 /\ ev.kind # "TrackingId" =>
                      /\ k.active <=> o.active
                      /\ k.x = IF ev.kind = "X" THEN ev.value ELSE o.x
                      /\ k.y = IF ev.kind = "Y" THEN ev.value ELSE o.y
<1>1. CASE ev.kind = "TrackingId"
  BY <1>1 DEF ApplyPassthrough, Composers, FreeOutputSlot
<1>2. CASE ev.kind = "X"
  BY <1>2 DEF ApplyPassthrough, Composers, OutputSlot
<1>3. CASE ev.kind = "Y"
  BY <1>3 DEF ApplyPassthrough, Composers, OutputSlot
<1>4. CASE ev.kind \notin {"TrackingId", "X", "Y"}
  BY <1>4 DEF ApplyPassthrough, Composers, Event
<1> QED BY <1>1, <1>2, <1>3, <1>4

LEMMA AgreeOn ==
  ASSUME NEW c \in Composers, NEW d \in Pads, NEW ev \in Event, ContactsAgree(c, d),
         ev.kind # "Slot" => d.slot = c.current_slot
  PROVE  LET k == ApplyPassthrough(c, ev)
             r == PadTakes(d, ev)
         IN ContactsAgree(k, r) /\ r.slot = k.current_slot
<1> DEFINE k == ApplyPassthrough(c, ev)
           r == PadTakes(d, ev)
<1>1. r.slot = k.current_slot
  BY PadTakesEvent, ApplyType
<1>2. ASSUME NEW q \in Slots
      PROVE  /\ k.slots[q].active <=> r.ids[q] # None
             /\ k.slots[q].x # None => r.x[q] = k.slots[q].x
             /\ k.slots[q].y # None => r.y[q] = k.slots[q].y
  <2>1. /\ c.slots[q].active <=> d.ids[q] # None
        /\ c.slots[q].x # None => d.x[q] = c.slots[q].x
        /\ c.slots[q].y # None => d.y[q] = c.slots[q].y
    BY DEF ContactsAgree
  <2>2. /\ r.ids[q] = IF ev.kind = "TrackingId" /\ q = d.slot THEN ev.value ELSE d.ids[q]
        /\ r.x[q] = IF ev.kind = "X" /\ q = d.slot THEN ev.value ELSE d.x[q]
        /\ r.y[q] = IF ev.kind = "Y" /\ q = d.slot THEN ev.value ELSE d.y[q]
    BY PadTakesEvent
  <2>3. CASE q # c.current_slot
    <3>1. k.slots[q] = c.slots[q]
      BY <2>3, ApplySlot
    <3> HIDE DEF k, r
    <3> QED BY <2>1, <2>2, <2>3, <3>1
  <2>4. CASE q = c.current_slot
    <3>1. /\ ev.kind = "TrackingId" =>
               /\ k.slots[q].active <=> ev.value # None
               /\ k.slots[q].x = None /\ k.slots[q].y = None
          /\ ev.kind # "TrackingId" =>
               /\ k.slots[q].active <=> c.slots[q].active
               /\ k.slots[q].x = IF ev.kind = "X" THEN ev.value ELSE c.slots[q].x
               /\ k.slots[q].y = IF ev.kind = "Y" THEN ev.value ELSE c.slots[q].y
      BY <2>4, ApplySlot
    <3> HIDE DEF k, r
    <3> QED BY <2>1, <2>2, <2>4, <3>1
  <2> QED BY <2>3, <2>4
<1> HIDE DEF k, r
<1> QED BY <1>1, <1>2 DEF ContactsAgree, k, r

\* What is sent begins with the slot it is about.
Addressed(evs) == evs # <<>> => Head(evs).kind = "Slot"

Pass(c, evs) == FoldLeft(ApplyPassthrough, c, evs)

LEMMA AgreeAfter ==
  ASSUME NEW c \in Composers, NEW d \in Pads, NEW evs \in Seq(Event),
         ContactsAgree(c, d), d.slot = c.current_slot
  PROVE  LET k == Pass(c, evs)
             r == PadAfter(d, evs)
         IN /\ k \in Composers /\ SameEmulation(c, k)
            /\ ContactsAgree(k, r) /\ r.slot = k.current_slot
<1> DEFINE Goal(u) ==
             LET k == ComposerF!Fold(c, u)
                 r == PadAfter(d, u)
             IN /\ k \in Composers /\ SameEmulation(c, k) /\ r \in Pads
                /\ ContactsAgree(k, r) /\ r.slot = k.current_slot
           T == {u \in Seq(Event) : Goal(u)}
<1>1. <<>> \in T
  BY PadNothing, ComposerF!FoldEmpty DEF SameEmulation
<1>2. ASSUME NEW u \in Seq(Event), NEW ev \in Event, u \in T
      PROVE  Append(u, ev) \in T
  <2> DEFINE k == ComposerF!Fold(c, u)
             r == PadAfter(d, u)
             v == Append(u, ev)
  <2>1. /\ k \in Composers /\ SameEmulation(c, k) /\ r \in Pads
        /\ ContactsAgree(k, r) /\ r.slot = k.current_slot
    BY <1>2
  <2>2. ComposerF!Fold(c, v) = ApplyPassthrough(k, ev)
    BY ComposerF!FoldAppend
  <2>3. PadAfter(d, v) = PadTakes(r, ev)
    <3>1. u \in Seq(PadEvent) /\ ev \in PadEvent
      BY EventIsPadEvent DEF PadEvent
    <3> QED BY <3>1, PadAppend
  <2>4. v \in Seq(Event)
    OBVIOUS
  <2> HIDE DEF k, r, v
  <2>5. /\ ApplyPassthrough(k, ev) \in Composers /\ SameEmulation(k, ApplyPassthrough(k, ev))
        /\ PadTakes(r, ev) \in Pads
        /\ ContactsAgree(ApplyPassthrough(k, ev), PadTakes(r, ev))
        /\ PadTakes(r, ev).slot = ApplyPassthrough(k, ev).current_slot
    BY <2>1, ApplyType, AgreeOn, PadTakesEvent
  <2>6. Goal(v)
    BY <2>1, <2>2, <2>3, <2>5 DEF SameEmulation
  <2> QED BY <2>4, <2>6 DEF v
<1> HIDE DEF T
<1>3. evs \in T
  BY <1>1, <1>2, ComposerF!SeqSetInduction
<1> QED BY <1>3, ComposerFold DEF T, Pass

LEMMA PassFollows ==
  ASSUME NEW c \in Composers, NEW d \in Pads, NEW evs \in Seq(Event), Addressed(evs),
         ContactsAgree(c, d)
  PROVE  LET k == Pass(c, evs)
             r == PadAfter(d, evs)
         IN /\ k \in Composers /\ SameEmulation(c, k) /\ r \in Pads
            /\ ContactsAgree(k, r)
            /\ evs # <<>> => r.slot = k.current_slot
            /\ evs = <<>> => k = c /\ r = d
<1>1. CASE evs = <<>>
  <2>1. Pass(c, evs) = c /\ PadAfter(d, evs) = d
    BY <1>1, ComposerF!FoldEmpty, ComposerFold, PadNothing DEF Pass
  <2> QED BY <1>1, <2>1 DEF SameEmulation
<1>2. CASE evs # <<>>
  <2> DEFINE hd == Head(evs)
             tl == Tail(evs)
             k == ApplyPassthrough(c, hd)
             r == PadTakes(d, hd)
  <2>1. hd \in Event /\ tl \in Seq(Event) /\ hd.kind = "Slot"
    BY <1>2 DEF Addressed
  <2>2. Pass(c, evs) = Pass(k, tl)
    BY <1>2, ComposerF!FoldFirst, ComposerFold DEF Pass
  <2>3. PadAfter(d, evs) = PadAfter(r, tl)
    BY <1>2, EventIsPadEvent, PadFirst
  <2> HIDE DEF hd, tl
  <2>4. k \in Composers /\ SameEmulation(c, k) /\ r \in Pads
    BY <2>1, ApplyType, PadTakesEvent
  <2>5. ContactsAgree(k, r) /\ r.slot = k.current_slot
    BY <2>1, AgreeOn
  <2> HIDE DEF k, r
  <2>6. /\ Pass(k, tl) \in Composers /\ SameEmulation(k, Pass(k, tl))
        /\ ContactsAgree(Pass(k, tl), PadAfter(r, tl))
        /\ PadAfter(r, tl).slot = Pass(k, tl).current_slot
    BY <2>1, <2>4, <2>5, AgreeAfter
  <2>7. PadAfter(r, tl) \in Pads
    BY <2>1, <2>4, PadAfterEvents
  <2> QED BY <1>2, <2>2, <2>3, <2>4, <2>6, <2>7 DEF SameEmulation
<1> QED BY <1>1, <1>2

-----------------------------------------------------------------------------
(* The end of the output: every contact lifted, every button released.     *)

At(d, s) == [d EXCEPT !.slot = s]

LEMMA PadSwitch ==
  ASSUME NEW d \in Pads, NEW s \in Int
  PROVE  /\ SlotEvent(s) \in Event
         /\ PadTakes(d, SlotEvent(s)) = At(d, s)
         /\ At(d, s) \in Pads /\ At(d, s).slot = s
         /\ At(d, s).ids = d.ids /\ At(d, s).x = d.x /\ At(d, s).y = d.y
         /\ At(d, s).tool = d.tool /\ (At(d, s).legal <=> d.legal)
         /\ d.slot = s => At(d, s) = d
BY DEF SlotEvent, Event, Kinds, PadTakes, Declared, PadStep, At, Pads

LEMMA LiftEvent == TrackingIdEvent(None) \in Event
BY DEF TrackingIdEvent, Event, Kinds, None

\* No step was illegal so far, unless a recovery led astray.
Legal(d) == astray \/ d.legal

\* Lifting goes on where the pad is, and needs a contact to lift.
CanLift(c, d) ==
  /\ ContactsAgree(c, d) /\ Legal(d)
  /\ ActiveOutputSlots(c) # {} => d.slot = c.current_slot

LiftedOne(c, s) == [c EXCEPT !.current_slot = s, !.slots[s] = FreeOutputSlot]
SwitchTo(c, s) == IF s = c.current_slot THEN <<>> ELSE <<SlotEvent(s)>>
LiftEvents(c, s) == SwitchTo(c, s) \o <<TrackingIdEvent(None)>>

LEMMA LiftEventsType ==
  ASSUME NEW c \in Composers, NEW s \in Slots
  PROVE  /\ s \in Int /\ SlotEvent(s) \in Event
         /\ SwitchTo(c, s) \in Seq(Event) /\ LiftEvents(c, s) \in Seq(Event)
<1>1. s \in Int
  BY SlotsAssumption DEF Slots
<1>2. SlotEvent(s) \in Event
  BY <1>1, PadSwitch, NewPadType
<1>3. SwitchTo(c, s) \in Seq(Event)
  BY <1>2 DEF SwitchTo
<1>4. <<TrackingIdEvent(None)>> \in Seq(Event)
  BY LiftEvent
<1> QED BY <1>1, <1>2, <1>3, <1>4 DEF LiftEvents

LEMMA LiftedOneType ==
  ASSUME NEW c \in Composers, NEW s \in Slots
  PROVE  LET k == LiftedOne(c, s)
         IN /\ k \in Composers /\ SameEmulation(c, k) /\ k.current_slot = s
            /\ \A q \in Slots : k.slots[q] = IF q = s THEN FreeOutputSlot ELSE c.slots[q]
<1> DEFINE m == [c EXCEPT !.slots[s] = FreeOutputSlot]
           k == LiftedOne(c, s)
<1>1. m \in Composers
  <2>1. m = PutSlot(c, s, FreeOutputSlot)
    BY DEF PutSlot
  <2>2. FreeOutputSlot \in OutputSlot
    BY FreeOutputSlotType
  <2> HIDE DEF m
  <2> QED BY <2>1, <2>2, PutSlotType
<1>2. k = [m EXCEPT !.current_slot = s]
  BY DEF LiftedOne, Composers
<1>3. k \in Composers
  <2> HIDE DEF m
  <2> QED BY <1>1, <1>2, LiftEventsType DEF Composers
<1>4. SameEmulation(c, k) /\ k.current_slot = s
  BY DEF LiftedOne, Composers, SameEmulation
<1>5. \A q \in Slots : k.slots[q] = IF q = s THEN FreeOutputSlot ELSE c.slots[q]
  BY DEF LiftedOne, Composers
<1> QED BY <1>3, <1>4, <1>5

LEMMA LiftSlotParts ==
  ASSUME NEW out, NEW s \in Slots, out.composer \in Composers, out.events \in Seq(Event)
  PROVE  IF ~out.composer.slots[s].active THEN LiftSlot(out, s) = out
         ELSE /\ LiftSlot(out, s).composer = LiftedOne(out.composer, s)
              /\ LiftSlot(out, s).events = out.events \o LiftEvents(out.composer, s)
<1> DEFINE c == out.composer
           sent == out.events
           up == <<TrackingIdEvent(None)>>
<1>1. LiftSlot(out, s) = IF ~c.slots[s].active THEN out
                         ELSE Composed(LiftedOne(c, s), sent \o SwitchTo(c, s) \o up)
  BY DEF LiftSlot, LiftedOne, SwitchTo
<1>2. sent \in Seq(Event) /\ SwitchTo(c, s) \in Seq(Event) /\ up \in Seq(Event)
  BY LiftEventsType, LiftEvent
<1> DEFINE switch == SwitchTo(c, s)
<1> HIDE DEF sent, up, switch
<1>3. (sent \o switch) \o up = sent \o (switch \o up)
  BY <1>2, ConcatAssociative DEF switch
<1>4. LiftEvents(c, s) = switch \o up
  BY DEF LiftEvents, switch, up
<1>5. ASSUME ~c.slots[s].active PROVE LiftSlot(out, s) = out
  BY <1>1, <1>5
<1>6. ASSUME c.slots[s].active
      PROVE  /\ LiftSlot(out, s).composer = LiftedOne(c, s)
             /\ LiftSlot(out, s).events = sent \o LiftEvents(c, s)
  <2>1. LiftSlot(out, s) = Composed(LiftedOne(c, s), sent \o LiftEvents(c, s))
    BY <1>1, <1>3, <1>4, <1>6 DEF switch
  <2> QED BY <2>1 DEF Composed
<1> QED BY <1>5, <1>6 DEF sent

LEMMA LiftOne ==
  ASSUME NEW c \in Composers, NEW d \in Pads, CanLift(c, d),
         NEW s \in Slots, c.slots[s].active
  PROVE  LET k == LiftedOne(c, s)
             r == PadAfter(d, LiftEvents(c, s))
         IN r \in Pads /\ CanLift(k, r)
<1> DEFINE k == LiftedOne(c, s)
           switch == SwitchTo(c, s)
           up == TrackingIdEvent(None)
           one == <<up>>
           ds == At(d, s)
           r == PadTakes(ds, up)
<1>1. up \in Event /\ up.kind = "TrackingId" /\ up.value = None
  BY LiftEvent DEF TrackingIdEvent
<1>2. /\ s \in Int /\ one \in Seq(Event) /\ switch \in Seq(Event)
      /\ LiftEvents(c, s) = switch \o one
  BY <1>1, LiftEventsType DEF LiftEvents
<1>3. d.slot = c.current_slot /\ ContactsAgree(c, d) /\ Legal(d)
  <2>1. s \in ActiveOutputSlots(c)
    BY DEF ActiveOutputSlots
  <2> QED BY <2>1 DEF CanLift
<1>4. PadAfter(d, switch) = ds
  <2>1. CASE s = c.current_slot
    BY <1>2, <1>3, <2>1, PadNothing, PadSwitch DEF SwitchTo
  <2>2. CASE s # c.current_slot
    BY <1>2, <2>2, PadOne, PadSwitch DEF SwitchTo
  <2> QED BY <2>1, <2>2
<1>5. PadAfter(d, LiftEvents(c, s)) = r
  <2>1. PadAfter(d, switch \o one) = PadAfter(PadAfter(d, switch), one)
    <3> HIDE DEF switch, one
    <3> QED BY <1>2, EventIsPadEvent, PadConcat
  <2>2. PadAfter(ds, one) = r
    BY PadOne
  <2> QED BY <1>2, <1>4, <2>1, <2>2
<1>6. /\ ds \in Pads /\ ds.slot = s /\ ds.ids = d.ids /\ ds.x = d.x /\ ds.y = d.y
      /\ Legal(ds)
  BY <1>2, <1>3, PadSwitch DEF Legal
<1>7. /\ k \in Composers /\ k.current_slot = s
      /\ \A q \in Slots : k.slots[q] = IF q = s THEN FreeOutputSlot ELSE c.slots[q]
  BY LiftedOneType
<1> HIDE DEF ds, up, k
<1>8. /\ r \in Pads /\ r.slot = s /\ Legal(r)
      /\ \A q \in Slots : /\ r.ids[q] = IF q = s THEN None ELSE d.ids[q]
                          /\ r.x[q] = d.x[q] /\ r.y[q] = d.y[q]
  <2>1. d.ids[s] # None
    BY <1>3 DEF ContactsAgree
  <2> QED BY <1>1, <1>6, <2>1, PadTakesEvent DEF Legal
<1> HIDE DEF r
<1>9. ContactsAgree(k, r)
  BY <1>3, <1>7, <1>8 DEF ContactsAgree, FreeOutputSlot
<1>10. CanLift(k, r)
  BY <1>7, <1>8, <1>9 DEF CanLift
<1> QED BY <1>5, <1>8, <1>10 DEF k

LEMMA AllSlotsType ==
  /\ AllSlots \in Seq(Slots) /\ DOMAIN AllSlots = 1..(SlotMax - SlotMin + 1)
  /\ SlotMax - SlotMin + 1 \in Nat
  /\ \A s \in Slots : \E i \in DOMAIN AllSlots : AllSlots[i] = s
<1> DEFINE n == SlotMax - SlotMin + 1
<1>1. n \in Nat
  BY SlotsAssumption
<1>2. \A i \in 1..n : SlotMin + i - 1 \in Slots
  BY SlotsAssumption DEF Slots
<1>3. AllSlots \in [1..n -> Slots]
  BY <1>2 DEF AllSlots
<1>4. AllSlots \in Seq(Slots)
  BY <1>1, <1>3, SeqDef
<1>5. ASSUME NEW s \in Slots PROVE \E i \in DOMAIN AllSlots : AllSlots[i] = s
  <2> DEFINE i == s - SlotMin + 1
  <2>1. i \in 1..n /\ SlotMin + i - 1 = s
    BY SlotsAssumption DEF Slots
  <2> HIDE DEF i
  <2>2. AllSlots[i] = s /\ i \in DOMAIN AllSlots
    BY <2>1 DEF AllSlots
  <2> QED BY <2>2
<1> QED BY <1>1, <1>3, <1>4, <1>5

LEMMA LiftedFollows ==
  ASSUME NEW c \in Composers, NEW d \in Pads, CanLift(c, d)
  PROVE  LET out == Lifted(c)
             r == PadAfter(d, out.events)
         IN /\ out.events \in Seq(Event)
            /\ out.composer \in Composers /\ SameEmulation(c, out.composer)
            /\ r \in Pads /\ CanLift(out.composer, r)
            /\ \A s \in Slots : ~out.composer.slots[s].active
<1> DEFINE start == Composed(c, <<>>)
           Goal(u) ==
             LET out == LiftF!Fold(start, u)
                 r == PadAfter(d, out.events)
             IN /\ out.events \in Seq(Event)
                /\ out.composer \in Composers /\ SameEmulation(c, out.composer)
                /\ r \in Pads /\ CanLift(out.composer, r)
                /\ \A i \in DOMAIN u : ~out.composer.slots[u[i]].active
           T == {u \in Seq(Slots) : Goal(u)}
<1>1. <<>> \in T
  <2>1. LiftF!Fold(start, <<>>) = start
    BY LiftF!FoldEmpty
  <2>2. /\ start.composer = c /\ start.events = <<>>
    BY DEF Composed
  <2>3. <<>> \in Seq(Event) /\ <<>> \in Seq(Slots) /\ DOMAIN <<>> = {}
    OBVIOUS
  <2>4. PadAfter(d, <<>>) = d /\ SameEmulation(c, c)
    BY PadNothing DEF SameEmulation
  <2> HIDE DEF start
  <2> QED BY <2>1, <2>2, <2>3, <2>4
<1>2. ASSUME NEW u \in Seq(Slots), NEW s \in Slots, u \in T
      PROVE  Append(u, s) \in T
  <2> DEFINE out == LiftF!Fold(start, u)
             k == out.composer
             r == PadAfter(d, out.events)
             v == Append(u, s)
  <2>1. /\ out.events \in Seq(Event)
        /\ k \in Composers /\ SameEmulation(c, k) /\ r \in Pads /\ CanLift(k, r)
        /\ \A i \in DOMAIN u : ~k.slots[u[i]].active
    BY <1>2
  <2>2. LiftF!Fold(start, v) = LiftSlot(out, s)
    BY LiftF!FoldAppend
  <2>3. v \in Seq(Slots) /\ \A i \in DOMAIN v : v[i] = s \/ (i \in DOMAIN u /\ v[i] = u[i])
    <3>1. v \in Seq(Slots) /\ DOMAIN v = 1..(Len(u) + 1)
      OBVIOUS
    <3>2. \A i \in 1..(Len(u) + 1) : v[i] = IF i = Len(u) + 1 THEN s ELSE u[i]
      OBVIOUS
    <3>3. DOMAIN u = 1..Len(u) /\ Len(u) \in Nat
      OBVIOUS
    <3> HIDE DEF v
    <3> QED BY <3>1, <3>2, <3>3
  <2> HIDE DEF out, v
  <2>4. CASE ~k.slots[s].active
    <3>1. LiftSlot(out, s) = out
      BY <2>1, <2>4, LiftSlotParts
    <3>2. \A i \in DOMAIN v : ~k.slots[v[i]].active
      BY <2>1, <2>3, <2>4
    <3> QED BY <2>1, <2>2, <2>3, <3>1, <3>2 DEF v
  <2>5. CASE k.slots[s].active
    <3> DEFINE m == LiftedOne(k, s)
               evs == LiftEvents(k, s)
               all == out.events \o evs
    <3>1. LiftSlot(out, s).composer = m /\ LiftSlot(out, s).events = all
      BY <2>1, <2>5, LiftSlotParts
    <3>2. /\ evs \in Seq(Event) /\ m \in Composers /\ SameEmulation(k, m)
          /\ \A q \in Slots : m.slots[q] = IF q = s THEN FreeOutputSlot ELSE k.slots[q]
      <4>1. k \in Composers
        BY <2>1
      <4> HIDE DEF k
      <4> QED BY <4>1, LiftEventsType, LiftedOneType
    <3>3. PadAfter(r, evs) \in Pads /\ CanLift(m, PadAfter(r, evs))
      <4> HIDE DEF r
      <4> QED BY <2>1, <2>5, LiftOne
    <3> HIDE DEF m, evs
    <3>4. PadAfter(d, all) = PadAfter(r, evs) /\ all \in Seq(Event)
      BY <2>1, <3>2, EventIsPadEvent, PadConcat
    <3> HIDE DEF all
    <3>5. SameEmulation(c, m)
      BY <2>1, <3>2 DEF SameEmulation
    <3>6. \A i \in DOMAIN v : ~m.slots[v[i]].active
      <4>1. \A i \in DOMAIN u : u[i] \in Slots
        OBVIOUS
      <4> QED BY <2>1, <2>3, <3>2, <4>1 DEF FreeOutputSlot
    <3>7. Goal(v)
      BY <2>2, <3>1, <3>2, <3>3, <3>4, <3>5, <3>6
    <3> QED BY <2>3, <3>7 DEF v
  <2> QED BY <2>4, <2>5
<1> HIDE DEF T
<1>3. AllSlots \in T
  BY <1>1, <1>2, AllSlotsType, LiftF!SeqSetInduction
<1>4. LiftF!Fold(start, AllSlots) = Lifted(c)
  BY LiftFold DEF Lifted
<1> HIDE DEF start
<1>5. Goal(AllSlots)
  BY <1>3 DEF T
<1>6. \A s \in Slots : ~Lifted(c).composer.slots[s].active
  BY <1>4, <1>5, AllSlotsType
<1> QED BY <1>4, <1>5, <1>6

LEMMA LiftedEventsType ==
  ASSUME NEW c \in Composers
  PROVE  Lifted(c).events \in Seq(Event) /\ Lifted(c).composer \in Composers
<1> DEFINE start == Composed(c, <<>>)
           I == {out \in [composer : Composers, events : Seq(Event)] : TRUE}
<1>1. start \in I
  BY DEF Composed
<1>2. ASSUME NEW out \in I, NEW s \in Slots PROVE LiftSlot(out, s) \in I
  <2> DEFINE k == out.composer
             evs == out.events \o SwitchTo(k, s) \o <<TrackingIdEvent(None)>>
  <2>1. LiftSlot(out, s) = IF ~k.slots[s].active THEN out ELSE Composed(LiftedOne(k, s), evs)
    BY DEF LiftSlot, LiftedOne, SwitchTo
  <2>2. LiftedOne(k, s) \in Composers
    BY LiftedOneType
  <2>3. evs \in Seq(Event)
    <3> DEFINE sent == out.events
               up == <<TrackingIdEvent(None)>>
    <3>1. sent \in Seq(Event) /\ SwitchTo(k, s) \in Seq(Event) /\ up \in Seq(Event)
      BY LiftEventsType, LiftEvent
    <3> HIDE DEF sent, up, k
    <3>2. sent \o SwitchTo(k, s) \o up \in Seq(Event)
      BY <3>1
    <3> QED BY <3>2 DEF sent, up
  <2> HIDE DEF evs
  <2> QED BY <2>1, <2>2, <2>3 DEF Composed
<1>3. LiftF!Fold(start, AllSlots) \in I
  <2> HIDE DEF I
  <2> QED BY <1>1, <1>2, AllSlotsType, LiftF!FoldStays
<1>4. LiftF!Fold(start, AllSlots) = Lifted(c)
  BY LiftFold DEF Lifted
<1> QED BY <1>3, <1>4

LEMMA SetToSeqType ==
  ASSUME NEW S, IsFiniteSet(S)
  PROVE  /\ SetToSeq(S) \in Seq(S)
         /\ \A x \in S : \E i \in DOMAIN SetToSeq(S) : SetToSeq(S)[i] = x
<1> DEFINE n == Cardinality(S)
<1>1. n \in Nat /\ ExistsBijection(1..n, S)
  BY FS_CardinalityType
<1>2. \E f \in [1..n -> S] : IsInjective(f)
  BY <1>1 DEF ExistsBijection, Bijection, Injection
<1> DEFINE f == SetToSeq(S)
<1>3. f \in [1..n -> S] /\ IsInjective(f)
  BY <1>2 DEF SetToSeq
<1> HIDE DEF f
<1>4. IsFiniteSet(1..n) /\ Cardinality(1..n) = n
  BY <1>1, FS_Interval
<1>5. f \in Injection(1..n, S)
  BY <1>3 DEF Injection
<1> HIDE DEF n
<1>6. Cardinality(S) = n
  BY DEF n
<1>7. f \in Surjection(1..n, S)
  BY <1>4, <1>5, <1>6, FS_Injection
<1>8. f \in Seq(S)
  BY <1>1, <1>3, SeqDef
<1>9. \A x \in S : \E i \in DOMAIN f : f[i] = x
  BY <1>3, <1>7 DEF Surjection
<1> QED BY <1>8, <1>9 DEF f

LEMMA ClicksAreFinite ==
  ASSUME NEW S \in SUBSET Clicks
  PROVE  IsFiniteSet(S)
BY TouchpadAssumption, FS_Subset DEF Clicks

\* A button that is pressed, or released, for each of some codes.
Each(codes, pressed) == [i \in DOMAIN codes |-> [code |-> codes[i], pressed |-> pressed]]

LEMMA EachType ==
  ASSUME NEW codes \in Seq(Clicks), NEW pressed \in BOOLEAN
  PROVE  /\ Each(codes, pressed) \in Seq(ClickButton)
         /\ DOMAIN Each(codes, pressed) = DOMAIN codes
<1>1. \A i \in DOMAIN codes : [code |-> codes[i], pressed |-> pressed] \in ClickButton
  BY DEF ClickButton, Button, Clicks
<1>2. DOMAIN codes = 1..Len(codes) /\ Len(codes) \in Nat
  OBVIOUS
<1> QED BY <1>1, <1>2, SeqDef DEF Each

\* After all presses and releases of one kind a button is as its last one left
\* it, and one that is not among them as it was.
LEMMA ButtonsMoved ==
  ASSUME NEW down \in SUBSET Clicks, NEW bs \in Seq(ClickButton), NEW pressed \in BOOLEAN,
         \A i \in DOMAIN bs : bs[i].pressed = pressed, NEW x
  PROVE  x \in ButtonsAfter(down, bs) <=>
           IF \E i \in DOMAIN bs : bs[i].code = x THEN pressed ELSE x \in down
<1> DEFINE Goal(u) ==
             (\A i \in DOMAIN u : u[i].pressed = pressed) =>
               (x \in ButtonsAfter(down, u) <=>
                  IF \E i \in DOMAIN u : u[i].code = x THEN pressed ELSE x \in down)
           T == {u \in Seq(ClickButton) : Goal(u)}
<1>1. <<>> \in T
  BY ButtonsNothing
<1>2. ASSUME NEW u \in Seq(ClickButton), NEW b \in ClickButton, u \in T
      PROVE  Append(u, b) \in T
  <2> DEFINE v == Append(u, b)
  <2>1. ButtonsAfter(down, v) = ButtonMoves(ButtonsAfter(down, u), b)
    BY ButtonsAppend
  <2>2. /\ v \in Seq(ClickButton) /\ DOMAIN v = DOMAIN u \cup {Len(u) + 1}
        /\ v[Len(u) + 1] = b /\ \A i \in DOMAIN u : v[i] = u[i]
    OBVIOUS
  <2>3. Goal(u)
    BY <1>2
  <2> HIDE DEF v
  <2>4. ASSUME \A i \in DOMAIN v : v[i].pressed = pressed
        PROVE  x \in ButtonsAfter(down, v) <=>
                 IF \E i \in DOMAIN v : v[i].code = x THEN pressed ELSE x \in down
    <3>1. b.pressed = pressed /\ \A i \in DOMAIN u : u[i].pressed = pressed
      BY <2>2, <2>4
    <3>2. (\E i \in DOMAIN v : v[i].code = x) <=>
            b.code = x \/ \E i \in DOMAIN u : u[i].code = x
      BY <2>2
    <3>3. b.pressed \in BOOLEAN
      BY DEF ClickButton, Button
    <3> QED BY <2>1, <2>3, <3>1, <3>2, <3>3 DEF ButtonMoves
  <2> QED BY <2>2, <2>4 DEF v
<1> HIDE DEF T
<1>3. bs \in T
  BY <1>1, <1>2, ButtonF!SeqSetInduction
<1> QED BY <1>3 DEF T

\* All that is down and nothing else: pressed from none, or released to none.
LEMMA EachMoves ==
  ASSUME NEW S \in SUBSET Clicks
  PROVE  LET codes == SetToSeq(S)
         IN /\ codes \in Seq(Clicks)
            /\ ButtonsAfter({}, Each(codes, TRUE)) = S
            /\ ButtonsAfter(S, Each(codes, FALSE)) = {}
<1> DEFINE codes == SetToSeq(S)
<1>1. codes \in Seq(S) /\ \A x \in S : \E i \in DOMAIN codes : codes[i] = x
  BY ClicksAreFinite, SetToSeqType
<1> HIDE DEF codes
<1>2. codes \in Seq(Clicks) /\ \A i \in DOMAIN codes : codes[i] \in S
  BY <1>1
<1> DEFINE down == Each(codes, TRUE)
           up == Each(codes, FALSE)
           none == {}
<1>3. /\ down \in Seq(ClickButton) /\ DOMAIN down = DOMAIN codes
      /\ \A i \in DOMAIN down : down[i].code = codes[i] /\ down[i].pressed = TRUE
  BY <1>2, EachType DEF Each
<1>4. /\ up \in Seq(ClickButton) /\ DOMAIN up = DOMAIN codes
      /\ \A i \in DOMAIN up : up[i].code = codes[i] /\ up[i].pressed = FALSE
  BY <1>2, EachType DEF Each
<1>5. none \in SUBSET Clicks
  OBVIOUS
<1> HIDE DEF down, up, none
<1>6. \A x : x \in ButtonsAfter(none, down) <=>
               IF \E i \in DOMAIN down : down[i].code = x THEN TRUE ELSE x \in none
  BY <1>3, <1>5, ButtonsMoved
<1>7. \A x : x \in ButtonsAfter(S, up) <=>
               IF \E i \in DOMAIN up : up[i].code = x THEN FALSE ELSE x \in S
  BY <1>4, ButtonsMoved
<1>8. ButtonsAfter(none, down) = S
  <2>1. \A x : x \in none <=> FALSE
    BY DEF none
  <2>2. \A x : (\E i \in DOMAIN down : down[i].code = x) <=> x \in S
    BY <1>1, <1>2, <1>3
  <2> QED BY <1>6, <2>1, <2>2
<1>9. ButtonsAfter(S, up) = {}
  BY <1>1, <1>4, <1>7
<1> QED BY <1>2, <1>8, <1>9 DEF codes, down, up, none

LEMMA FinishParts ==
  ASSUME NEW c \in Composers, NEW d \in Pads
  PROVE  LET lifted == PadAfter(d, Lifted(c).events)
             last == Lifted(c).composer
             released == Each(SetToSeq(c.pressed), FALSE)
         IN /\ Finish(c).composer = NewComposer
            /\ PadAfter(d, Finish(c).events)
                 = PadAfter(PadAfter(lifted, LegacyEvents(last)), ButtonEvents(released))
            /\ lifted \in Pads /\ last \in Composers /\ released \in Seq(ClickButton)
<1> DEFINE out == Lifted(c)
           released == SetToSeq(c.pressed)
           keys == [i \in DOMAIN released |-> OutputEvent("Release", released[i])]
           a == out.events
           b == LegacyEvents(out.composer)
<1>1. a \in Seq(Event) /\ out.composer \in Composers
  BY LiftedEventsType
<1>2. b \in Seq(PadEvent) /\ a \in Seq(PadEvent)
  BY <1>1, EventIsPadEvent, LegacyParts, PointerIsPadEvent
<1>3. released \in Seq(Clicks) /\ Each(released, FALSE) \in Seq(ClickButton)
  <2>1. c.pressed \in SUBSET Clicks
    BY DEF Composers
  <2>2. released \in Seq(Clicks)
    BY <2>1, EachMoves
  <2> QED BY <2>2, EachType
<1>4. keys = ButtonEvents(Each(released, FALSE)) /\ keys \in Seq(PadEvent)
  <2>1. keys = ButtonEvents(Each(released, FALSE))
    BY DEF ButtonEvents, Each, ButtonEvent
  <2> QED BY <1>3, <2>1, ButtonEventsType
<1>5. Finish(c) = Composed(NewComposer, a \o b \o keys)
  BY DEF Finish
<1> HIDE DEF a, b, keys, out, released
<1>6. Finish(c).composer = NewComposer /\ Finish(c).events = (a \o b) \o keys
  BY <1>5 DEF Composed
<1>7. PadAfter(d, (a \o b) \o keys) = PadAfter(PadAfter(PadAfter(d, a), b), keys)
  <2>1. a \o b \in Seq(PadEvent)
    BY <1>2
  <2>2. PadAfter(d, (a \o b) \o keys) = PadAfter(PadAfter(d, a \o b), keys)
    BY <1>4, <2>1, PadConcat
  <2>3. PadAfter(d, a \o b) = PadAfter(PadAfter(d, a), b)
    BY <1>2, PadConcat
  <2> QED BY <2>2, <2>3
<1>8. PadAfter(d, a) \in Pads
  BY <1>2, PadAfterType
<1> QED BY <1>1, <1>3, <1>4, <1>6, <1>7, <1>8 DEF a, b, out, released

LEMMA FinishKeys ==
  ASSUME NEW c \in Composers, NEW d \in Pads, d.keys = c.pressed
  PROVE  LET r == PadAfter(d, Finish(c).events)
         IN r \in Pads /\ r.keys = {}
<1> DEFINE lifted == PadAfter(d, Lifted(c).events)
           last == Lifted(c).composer
           legacy == PadAfter(lifted, LegacyEvents(last))
           released == Each(SetToSeq(c.pressed), FALSE)
<1>1. /\ PadAfter(d, Finish(c).events) = PadAfter(legacy, ButtonEvents(released))
      /\ lifted \in Pads /\ last \in Composers /\ released \in Seq(ClickButton)
  BY FinishParts
<1>2. lifted.keys = d.keys
  BY LiftedEventsType, PadAfterEvents
<1>3. ButtonsAfter(c.pressed, released) = {}
  <2>1. c.pressed \in SUBSET Clicks
    BY DEF Composers
  <2> QED BY <2>1, EachMoves
<1> HIDE DEF lifted, last, released
<1>4. LegacyEvents(last) \in Seq(PointerEvent)
  BY <1>1, LegacyParts
<1>5. legacy \in Pads /\ legacy.keys = lifted.keys
  BY <1>1, <1>4, PadAfterPointer
<1> HIDE DEF legacy
<1> QED BY <1>1, <1>2, <1>3, <1>5, PadAfterButtons

-----------------------------------------------------------------------------
(* The end of a session.                                                   *)

\* The keys of the pad are the buttons the composer pressed, and with those of
\* the frame under way they are the physical ones.
KeysInv ==
  /\ pad \in Pads /\ composer \in Composers /\ buttons \in Seq(ClickButton)
  /\ session \in {"running", "stopped", "failed"}
  /\ session = "running" =>
       /\ pad.keys = composer.pressed
       /\ phase \in {"idle", "resync"} => buttons = <<>>
       /\ phase = "resync" => composer.pressed = {}
       /\ phase # "resync" => physical = ButtonsAfter(composer.pressed, buttons)
  /\ EndedIsNeutral

LEMMA EngineSteps == [PNext]_pvars => [Next]_vars
BY DEF PNext, pvars, vars, TakeFrame, EngineStep, WriteFrame, Recover, QuietStep, Stop,
       SessionFails, Next

LEMMA FrameButtons ==
  ASSUME NEW f \in Frames \cup OddFrames
  PROVE  f.buttons \in Seq(ClickButton) /\ f.events \in Seq(Event)
<1>1. f.buttons \in Seq(Button) /\ f.events \in Seq(Event)
  BY FramesAssumption DEF Frame
<1>2. ASSUME NEW i \in DOMAIN f.buttons
      PROVE  f.buttons[i].code \in Keys
  <2>0. f.buttons[i] \in Button
    BY <1>1
  <2>1. f.buttons[i].pressed \in BOOLEAN
    BY <2>0 DEF Button
  <2>2. f.buttons[i].code \in Codes(f.buttons, TRUE) \cup Codes(f.buttons, FALSE)
    BY <2>1 DEF Codes
  <2> QED BY <2>2, SentKeysAssumption
<1> QED BY <1>1, <1>2 DEF ClickButton

LEMMA DownsType ==
  ASSUME e \in EngineState
  PROVE  LET parts == [i \in DOMAIN AllSlots |-> e.downs[AllSlots[i]]]
         IN parts \in Seq(Seq(Event)) /\ FoldLeft(Joined, <<>>, parts) \in Seq(Event)
<1> DEFINE parts == [i \in DOMAIN AllSlots |-> e.downs[AllSlots[i]]]
           n == SlotMax - SlotMin + 1
           none == <<>>
<1>1. parts \in Seq(Seq(Event))
  <2>1. parts \in [1..n -> Seq(Event)] /\ n \in Nat
    BY AllSlotsType DEF EngineState
  <2> HIDE DEF parts, n
  <2> QED BY <2>1
<1>2. \A d \in Seq(Event), x \in Seq(Event) : Joined(d, x) \in Seq(Event)
  BY DEF Joined
<1>3. none \in Seq(Event)
  OBVIOUS
<1> HIDE DEF parts, none
<1>4. JoinF!Fold(none, parts) \in Seq(Event)
  BY <1>1, <1>2, <1>3, JoinF!FoldStays
<1> QED BY <1>1, <1>4, JoinFold DEF parts, none

LEMMA RoutedType ==
  ASSUME e \in EngineState
  PROVE  Routed.passthrough \in Seq(Event) /\ Routed.buttons = buttons
         /\ Routed.resync_required = e.resync_required
<1>1. e.passthrough \in Seq(Event)
  BY DEF EngineState
<1> QED BY <1>1, DownsType DEF Routed

LEMMA PassType ==
  ASSUME NEW c \in Composers, NEW evs \in Seq(Event)
  PROVE  Pass(c, evs) \in Composers /\ SameEmulation(c, Pass(c, evs))
<1> DEFINE Known == {k \in Composers : SameEmulation(c, k)}
<1>1. c \in Known
  BY DEF SameEmulation
<1>2. ASSUME NEW k \in Known, NEW ev \in Event
      PROVE  ApplyPassthrough(k, ev) \in Known
  <2>1. /\ k \in Composers /\ SameEmulation(c, k)
        /\ ApplyPassthrough(k, ev) \in Composers /\ SameEmulation(k, ApplyPassthrough(k, ev))
    BY ApplyType
  <2> QED BY <2>1 DEF SameEmulation
<1> HIDE DEF Known
<1>3. ComposerF!Fold(c, evs) \in Known
  BY <1>1, <1>2, ComposerF!FoldStays
<1> QED BY <1>3, ComposerFold DEF Known, Pass

\* A composed frame on the pad.
LEMMA ComposedParts ==
  ASSUME NEW c \in Composers, NEW d \in Pads, NEW evs \in Seq(Event),
         NEW bs \in Seq(ClickButton), NEW routed,
         routed.passthrough = evs, routed.buttons = bs, ~routed.resync_required
  PROVE  LET passed == Pass(c, evs)
             out == ComposeFrame(c, routed)
             legacy == PadAfter(PadAfter(d, evs), LegacyEvents(passed))
         IN /\ passed \in Composers /\ SameEmulation(c, passed)
            /\ PadAfter(d, evs) \in Pads /\ legacy \in Pads
            /\ PadAfter(d, out.events) = PadAfter(legacy, ButtonEvents(bs))
            /\ out.composer \in Composers /\ SameOutput(RememberLegacy(passed), out.composer)
            /\ out.composer.pressed = ButtonsAfter(c.pressed, bs)
<1> DEFINE passed == Pass(c, evs)
           out == ComposeFrame(c, routed)
           kept == RememberLegacy(passed)
           a == LegacyEvents(passed)
           b == ButtonEvents(bs)
<1>1. passed \in Composers /\ SameEmulation(c, passed)
  BY PassType
<1>2. out.composer = FoldLeft(ApplyButton, kept, bs) /\ out.events = (evs \o a) \o b
  BY DEF ComposeFrame, Composed, Pass, ButtonEvents
<1> HIDE DEF passed, out
<1>3. a \in Seq(PadEvent) /\ b \in Seq(PadEvent) /\ evs \in Seq(PadEvent)
  BY <1>1, LegacyParts, PointerIsPadEvent, ButtonEventsType, EventIsPadEvent
<1>4. kept \in Composers /\ kept.pressed = c.pressed
  BY <1>1, RememberType DEF SameEmulation
<1> HIDE DEF a, b, kept
<1>5. PadAfter(d, evs) \in Pads /\ PadAfter(PadAfter(d, evs), a) \in Pads
  BY <1>3, PadAfterType
<1>6. PadAfter(d, (evs \o a) \o b) = PadAfter(PadAfter(PadAfter(d, evs), a), b)
  <2>1. evs \o a \in Seq(PadEvent)
    BY <1>3
  <2>2. PadAfter(d, (evs \o a) \o b) = PadAfter(PadAfter(d, evs \o a), b)
    BY <1>3, <2>1, PadConcat
  <2>3. PadAfter(d, evs \o a) = PadAfter(PadAfter(d, evs), a)
    BY <1>3, PadConcat
  <2> QED BY <2>2, <2>3
<1>7. /\ out.composer \in Composers /\ SameOutput(kept, out.composer)
      /\ out.composer.pressed = ButtonsAfter(c.pressed, bs)
  BY <1>2, <1>4, ComposerButtons
<1> QED BY <1>1, <1>2, <1>5, <1>6, <1>7 DEF a, b, kept, out, passed

LEMMA SettledParts ==
  ASSUME NEW d \in Pads
  PROVE  LET r == Settled(d)
         IN /\ r \in Pads /\ r.keys = d.keys /\ ~r.touch /\ r.tools = {}
            /\ \A s \in Slots : r.ids[s] = None
<1> DEFINE r == Settled(d)
           free == [s \in Slots |-> None]
<1>1. free \in [Slots -> Int] /\ SlotMax \in Int
  BY SlotsAssumption DEF None
<1>2. r = [d EXCEPT !.slot = SlotMax, !.ids = free, !.touch = FALSE, !.tools = {}]
  BY DEF Settled
<1>3. \A s \in Slots : free[s] = None
  OBVIOUS
<1> HIDE DEF free
<1>4. r \in Pads
  BY <1>1, <1>2 DEF Pads
<1>5. r.keys = d.keys /\ ~r.touch /\ r.tools = {} /\ r.ids = free
  BY <1>2 DEF Pads
<1> QED BY <1>3, <1>4, <1>5

LEMMA InitKeys == PInit => KeysInv
<1> SUFFICES ASSUME PInit PROVE KeysInv
  OBVIOUS
<1> USE DEF PInit
<1>1. pad \in Pads /\ composer \in Composers /\ buttons \in Seq(ClickButton)
  BY NewPadType, NewComposerType
<1>2. pad.keys = composer.pressed /\ composer.pressed = {}
  BY DEF NewPad, NewComposer
<1>3. physical = ButtonsAfter(composer.pressed, buttons)
  BY <1>2, ButtonsNothing
<1> QED BY <1>1, <1>2, <1>3 DEF KeysInv, EndedIsNeutral, Init

LEMMA StepKeys == TypeInv /\ KeysInv /\ [PNext]_pvars => KeysInv'
<1> SUFFICES ASSUME TypeInv, KeysInv, [PNext]_pvars PROVE KeysInv'
  OBVIOUS
<1>k. /\ pad \in Pads /\ composer \in Composers /\ buttons \in Seq(ClickButton)
      /\ composer.pressed \in SUBSET Clicks
  BY DEF KeysInv, Composers
<1>1. CASE UNCHANGED pvars
  BY <1>1 DEF KeysInv, EndedIsNeutral, pvars, vars
<1>2. ASSUME session = "running", session' = "running",
             NEW f \in Frames \cup OddFrames, NEW t \in Stamps, TakeFrame(f, t)
      PROVE  KeysInv'
  <2>1. phase = "idle" /\ phase' = "scan"
    BY <1>2 DEF TakeFrame, StartFrame
  <2>2. physical = composer.pressed
    BY <1>2, <2>1, ButtonsNothing DEF KeysInv
  <2>3. buttons' \in Seq(ClickButton) /\ physical' = ButtonsAfter(composer.pressed, buttons')
    BY <1>2, <2>2, FrameButtons DEF TakeFrame
  <2> QED BY <1>2, <2>1, <2>3 DEF KeysInv, EndedIsNeutral, TakeFrame
<1>3. ASSUME session = "running", session' = "running", EngineStep
      PROVE  KeysInv'
  <2>1. phase \in {"scan", "events", "finalize"} /\ phase' \notin {"idle", "resync"}
    BY <1>3 DEF EngineStep, FrameStep, ScanEvent, BeginEvents, SlotSwitch, ContactDown,
       ContactUp, ToolType, Position, SynDropped, EventsDone, FinalizeSlot, AtEvent,
       Processed, Fail
  <2> QED BY <1>3, <2>1 DEF KeysInv, EndedIsNeutral, EngineStep
<1>4. ASSUME session = "running", session' = "running", WriteFrame
      PROVE  KeysInv'
  <2> DEFINE out == ComposeFrame(composer, Routed)
             evs == Routed.passthrough
             routed == Routed
  <2>1. /\ phase = "finalize" /\ phase' = IF e.resync_required THEN "resync" ELSE "idle"
        /\ composer' = out.composer /\ pad' = PadAfter(pad, out.events)
        /\ buttons' = <<>> /\ physical' = physical
    BY <1>4 DEF WriteFrame, EndFrame
  <2>2. evs \in Seq(Event) /\ routed.buttons = buttons
        /\ routed.resync_required = e.resync_required /\ e.resync_required \in BOOLEAN
    BY RoutedType DEF TypeInv, TypeOK, EngineState
  <2> HIDE DEF routed
  <2>3. physical = ButtonsAfter(composer.pressed, buttons) /\ pad.keys = composer.pressed
    BY <1>4, <2>1 DEF KeysInv
  <2>4. buttons' \in Seq(ClickButton) /\ EndedIsNeutral'
    BY <1>4, <2>1 DEF EndedIsNeutral
  <2>5. CASE e.resync_required
    <3>1. out = Finish(composer)
      BY <2>2, <2>5 DEF ComposeFrame, routed
    <3>2. composer' = NewComposer /\ pad' = PadAfter(pad, Finish(composer).events)
      BY <1>k, <2>1, <3>1, FinishParts
    <3>3. pad' \in Pads /\ pad'.keys = {}
      BY <1>k, <2>3, <3>2, FinishKeys
    <3>4. composer' \in Composers /\ composer'.pressed = {}
      BY <3>2, NewComposerType DEF NewComposer
    <3> QED BY <1>4, <2>1, <2>4, <2>5, <3>3, <3>4 DEF KeysInv
  <2>6. CASE ~e.resync_required
    <3> DEFINE legacy == PadAfter(PadAfter(pad, evs), LegacyEvents(Pass(composer, evs)))
    <3>0. routed.passthrough = evs
      BY DEF routed
    <3>1. /\ Pass(composer, evs) \in Composers
          /\ PadAfter(pad, evs) \in Pads /\ legacy \in Pads
          /\ PadAfter(pad, ComposeFrame(composer, routed).events)
               = PadAfter(legacy, ButtonEvents(buttons))
          /\ ComposeFrame(composer, routed).composer \in Composers
          /\ ComposeFrame(composer, routed).composer.pressed
               = ButtonsAfter(composer.pressed, buttons)
      <4> HIDE DEF evs
      <4> QED BY <1>k, <2>2, <2>6, <3>0, ComposedParts
    <3>2. PadAfter(pad, evs).keys = pad.keys
      BY <1>k, <2>2, PadAfterEvents
    <3>3. LegacyEvents(Pass(composer, evs)) \in Seq(PointerEvent)
      BY <3>1, LegacyParts
    <3>4. legacy.keys = pad.keys
      BY <3>1, <3>2, <3>3, PadAfterPointer
    <3>5. pad' = PadAfter(legacy, ButtonEvents(buttons))
      BY <2>1, <3>1 DEF routed
    <3> HIDE DEF legacy
    <3>6. pad' \in Pads /\ pad'.keys = ButtonsAfter(composer.pressed, buttons)
      BY <1>k, <2>3, <3>1, <3>4, <3>5, PadAfterButtons
    <3>7. composer' \in Composers /\ composer'.pressed = ButtonsAfter(composer.pressed, buttons)
      BY <2>1, <3>1 DEF routed
    <3>8. physical' = ButtonsAfter(composer'.pressed, buttons')
      BY <2>1, <2>3, <3>7, ButtonsNothing
    <3> QED BY <1>4, <2>1, <2>4, <2>6, <3>6, <3>7, <3>8 DEF KeysInv
  <2> QED BY <2>2, <2>5, <2>6
<1>5. ASSUME session = "running", session' = "running",
             NEW snapshot \in Snapshots, Recover(snapshot)
      PROVE  KeysInv'
  <2> DEFINE S == snapshot.pressed
             bs == Each(SetToSeq(S), TRUE)
             none == {}
  <2>1. S \in SUBSET Clicks
    BY SnapshotsAssumption, SentKeysAssumption DEF Snapshot, Clicks
  <2>2. buttons' = bs /\ physical' = S /\ composer' = composer /\ pad' = pad
        /\ phase = "resync" /\ phase' = "finalize"
    BY <1>5 DEF Recover, Resync, Output, Each
  <2> HIDE DEF S
  <2>3. bs \in Seq(ClickButton) /\ ButtonsAfter(none, bs) = S
    BY <2>1, EachMoves, EachType
  <2>4. composer.pressed = none
    BY <1>5, <2>2 DEF KeysInv
  <2> HIDE DEF bs, none
  <2> QED BY <1>5, <2>2, <2>3, <2>4 DEF KeysInv, EndedIsNeutral
<1>6. ASSUME session = "running", session' = "running", QuietStep
      PROVE  KeysInv'
  <2>1. phase = "idle" /\ phase' \in {"idle", "finalize"}
    BY <1>6 DEF QuietStep, AdvanceTime, Reload, Output
  <2> QED BY <1>6, <2>1 DEF KeysInv, EndedIsNeutral, QuietStep
<1>7. ASSUME session = "running", Stop
      PROVE  KeysInv'
  <2> DEFINE d == PadAfter(pad, Finish(composer).events)
  <2>1. pad.keys = composer.pressed
    BY <1>7 DEF KeysInv
  <2>2. d \in Pads /\ d.keys = {}
    BY <1>k, <2>1, FinishKeys
  <2>3. /\ pad' = Settled(d) /\ composer' = Finish(composer).composer
        /\ buttons' = buttons /\ session' = "stopped"
    BY <1>7 DEF Stop
  <2> HIDE DEF d
  <2>4. composer' \in Composers
    BY <1>k, <2>3, FinishParts, NewComposerType
  <2>5. /\ pad' \in Pads /\ pad'.keys = {} /\ ~pad'.touch /\ pad'.tools = {}
        /\ \A s \in Slots : pad'.ids[s] = None
    BY <2>2, <2>3, SettledParts
  <2> QED BY <1>k, <2>3, <2>4, <2>5 DEF KeysInv, EndedIsNeutral
<1>8. ASSUME session = "running", SessionFails
      PROVE  KeysInv'
  <2>1. /\ pad' = Settled(pad) /\ composer' = composer
        /\ buttons' = buttons /\ session' = "failed"
    BY <1>8 DEF SessionFails
  <2>2. /\ pad' \in Pads /\ ~pad'.touch /\ pad'.tools = {}
        /\ \A s \in Slots : pad'.ids[s] = None
    BY <1>k, <2>1, SettledParts
  <2> QED BY <1>k, <2>1, <2>2 DEF KeysInv, EndedIsNeutral
<1> QED BY <1>1, <1>2, <1>3, <1>4, <1>5, <1>6, <1>7, <1>8 DEF PNext

\* Whatever the frames, the lost events, the snapshots and the reloads, and
\* wherever the session stops or fails, no contact, touch or tool key stays down
\* on the virtual touchpad, and after a clean stop no button either
\* (finish_proxy_output, settle_after_uinput_proxy_run).
THEOREM NeutralAtTheEnd == PSpec => []EndedIsNeutral
<1>1. PInit => TypeInv /\ KeysInv
  BY InitType, InitKeys DEF PInit
<1>2. TypeInv /\ KeysInv /\ [PNext]_pvars => (TypeInv /\ KeysInv)'
  BY EngineSteps, StepType, StepKeys
<1>3. KeysInv => EndedIsNeutral
  BY DEF KeysInv
<1> QED BY <1>1, <1>2, <1>3, PTL DEF PSpec

\* Between frames exactly the physical buttons are down on the virtual touchpad,
\* those the snapshot shows after lost events.
THEOREM ButtonsFollow == PSpec => [](BetweenFrames => pad.keys = physical)
<1>1. PInit => TypeInv /\ KeysInv
  BY InitType, InitKeys DEF PInit
<1>2. TypeInv /\ KeysInv /\ [PNext]_pvars => (TypeInv /\ KeysInv)'
  BY EngineSteps, StepType, StepKeys
<1>3. KeysInv => (BetweenFrames => pad.keys = physical)
  BY ButtonsNothing DEF KeysInv, BetweenFrames
<1> QED BY <1>1, <1>2, <1>3, PTL DEF PSpec

-----------------------------------------------------------------------------
(* What the engine has routed so far, as the pad will show it.             *)

Passed(en, s) == en.contact[s].ownership = "Passthrough"

\* The events put contact id into slot s, if it is free, and touch no other.
Landed(d, r, s, id) ==
  /\ r \in Pads /\ r.slot = s /\ r.ids[s] = id
  /\ Legal(d) => Legal(r)
  /\ \A q \in Slots \ {s} : r.ids[q] = d.ids[q] /\ r.tool[q] = d.tool[q]

Lands(evs, s, id) ==
  \A d \in Pads : d.slot = s /\ d.ids[s] = None =>
    Landed(d, PadAfter(d, evs), s, id)

\* Slot s of pad w shows the engine's contact if that is forwarded; its label
\* too, unless the slot is one of those that are off.
SlotShown(w, en, off, s) ==
  /\ w.ids[s] = IF Passed(en, s) THEN en.contact[s].tracking_id ELSE None
  /\ s \notin off /\ Labelled /\ Passed(en, s) /\ en.memory[s].tool_type # None =>
       w.tool[s] = en.memory[s].tool_type

\* An undecided contact is what its events will put there.
Waits(en, s) ==
  en.contact[s].ownership = "Unknown" =>
    Lands(en.held_events[s], s, en.contact[s].tracking_id)

\* The pad that was base when the frame's own events began.
Shown(base, en, off) ==
  LET w == PadAfter(base, en.passthrough)
  IN /\ base \in Pads /\ en \in EngineState /\ w \in Pads /\ Legal(w)
     /\ Addressed(en.passthrough)
     /\ \A s \in Slots : ~LeadsElsewhere(en.passthrough, s) => w.slot = s
     /\ \A s \in Slots : SlotShown(w, en, off, s) /\ Waits(en, s)

LEMMA ShownStill ==
  ASSUME NEW base, NEW en, NEW out, NEW off, Shown(base, en, off), Still(en, out)
  PROVE  Shown(base, out, off)
BY DEF Shown, Still, SameOwned, SlotShown, Waits, Passed

\* The output is at slot s.
EndsAt(evs, s) ==
  \E i \in DOMAIN evs :
    /\ evs[i].kind = "Slot" /\ evs[i].value = s
    /\ \A j \in DOMAIN evs : j > i /\ evs[j].kind = "Slot" => evs[j].value = s

LEMMA LeadsOrEnds ==
  ASSUME NEW evs, NEW s
  PROVE  LeadsElsewhere(evs, s) <=> ~EndsAt(evs, s)
BY DEF LeadsElsewhere, EndsAt

LEMMA EndsOnce ==
  ASSUME NEW evs \in Seq(Event), NEW s, NEW q, EndsAt(evs, s), EndsAt(evs, q)
  PROVE  s = q
<1>1. PICK i \in DOMAIN evs : /\ evs[i].kind = "Slot" /\ evs[i].value = s
                              /\ \A j \in DOMAIN evs : j > i /\ evs[j].kind = "Slot" =>
                                   evs[j].value = s
  BY DEF EndsAt
<1>2. PICK k \in DOMAIN evs : /\ evs[k].kind = "Slot" /\ evs[k].value = q
                              /\ \A j \in DOMAIN evs : j > k /\ evs[j].kind = "Slot" =>
                                   evs[j].value = q
  BY DEF EndsAt
<1> QED BY <1>1, <1>2

OwnEvents(evs, s) ==
  \A i \in DOMAIN evs : evs[i].kind = "Slot" => evs[i].value = s

\* Events that follow one for slot s, or begin with one, end there.
LEMMA EndsAfter ==
  ASSUME NEW a \in Seq(Event), NEW b \in Seq(Event), NEW s, OwnEvents(b, s),
         EndsAt(a, s) \/ (b # <<>> /\ Head(b).kind = "Slot")
  PROVE  EndsAt(a \o b, s)
<1> DEFINE c == a \o b
           n == Len(a)
<1>1. /\ c \in Seq(Event) /\ DOMAIN c = 1..(n + Len(b)) /\ n \in Nat /\ Len(b) \in Nat
      /\ DOMAIN a = 1..n /\ DOMAIN b = 1..Len(b)
      /\ \A i \in 1..n : c[i] = a[i]
      /\ \A i \in 1..Len(b) : c[n + i] = b[i]
  OBVIOUS
<1> HIDE DEF c, n
<1>2. ASSUME NEW j \in DOMAIN c, j > n, c[j].kind = "Slot"
      PROVE  c[j].value = s
  <2> DEFINE i == j - n
  <2>1. i \in DOMAIN b /\ j = n + i
    BY <1>1, <1>2
  <2> HIDE DEF i
  <2> QED BY <1>1, <1>2, <2>1 DEF OwnEvents
<1>3. CASE EndsAt(a, s)
  <2>1. PICK i \in DOMAIN a : /\ a[i].kind = "Slot" /\ a[i].value = s
                              /\ \A j \in DOMAIN a : j > i /\ a[j].kind = "Slot" =>
                                   a[j].value = s
    BY <1>3 DEF EndsAt
  <2>2. i \in DOMAIN c /\ c[i].kind = "Slot" /\ c[i].value = s
    BY <1>1, <2>1
  <2>3. \A j \in DOMAIN c : j > i /\ c[j].kind = "Slot" => c[j].value = s
    BY <1>1, <1>2, <2>1
  <2> QED BY <2>2, <2>3 DEF EndsAt, c
<1>4. CASE b # <<>> /\ Head(b).kind = "Slot"
  <2> DEFINE i == n + 1
  <2>1. i \in DOMAIN c /\ c[i] = Head(b) /\ i > n
    BY <1>1, <1>4
  <2> HIDE DEF i
  <2>2. c[i].kind = "Slot" /\ c[i].value = s
    BY <1>2, <1>4, <2>1
  <2>3. \A j \in DOMAIN c : j > i /\ c[j].kind = "Slot" => c[j].value = s
    BY <1>1, <1>2, <2>1
  <2> QED BY <2>1, <2>2, <2>3 DEF EndsAt, c
<1> QED BY <1>3, <1>4

\* Events sent from a pad that is at their slot, or begin with the switch to it.
LEMMA SwitchIsPad ==
  ASSUME NEW d \in Pads, NEW s \in Slots, NEW evs \in Seq(Event), evs # <<>>,
         OwnEvents(evs, s), Head(evs).kind = "Slot"
  PROVE  PadAfter(d, evs) = PadAfter(At(d, s), evs)
<1> DEFINE hd == Head(evs)
           tl == Tail(evs)
           m == At(d, s)
<1>1. evs \in Seq(PadEvent) /\ s \in Int
  BY EventIsPadEvent, SlotsAssumption DEF Slots
<1>2. hd \in Event /\ hd.value = s
  BY DEF OwnEvents
<1>3. hd = SlotEvent(s)
  BY <1>2 DEF Event, SlotEvent
<1>4. m \in Pads /\ m.slot = s
  BY <1>1, PadSwitch
<1>5. PadAfter(d, evs) = PadAfter(PadTakes(d, hd), tl)
  BY <1>1, PadFirst
<1>6. PadAfter(m, evs) = PadAfter(PadTakes(m, hd), tl)
  BY <1>1, PadFirst
<1> HIDE DEF m
<1>7. PadTakes(m, SlotEvent(s)) = At(m, s) /\ At(m, s) = m
  BY <1>1, <1>4, PadSwitch
<1>8. PadTakes(d, SlotEvent(s)) = At(d, s)
  BY <1>1, PadSwitch
<1> QED BY <1>3, <1>5, <1>6, <1>7, <1>8 DEF m

\* Events for slot s, and the switch to it where one is needed.
LEMMA PushShown ==
  ASSUME NEW base \in Pads, NEW en \in EngineState, NEW s \in Slots,
         NEW evs \in Seq(Event), evs # <<>>, OwnEvents(evs, s),
         Addressed(en.passthrough),
         ~LeadsElsewhere(en.passthrough, s) => PadAfter(base, en.passthrough).slot = s
  PROVE  LET out == PushPassthrough(en, s, evs)
             w == PadAfter(base, en.passthrough)
         IN /\ PadAfter(base, out.passthrough) = PadAfter(At(w, s), evs)
            /\ w \in Pads /\ At(w, s) \in Pads
            /\ Addressed(out.passthrough) /\ EndsAt(out.passthrough, s)
<1> DEFINE out == PushPassthrough(en, s, evs)
           p == en.passthrough
           w == PadAfter(base, p)
           one == <<SlotEvent(s)>>
           switch == Head(evs).kind # "Slot" /\ LeadsElsewhere(p, s)
<1>1. /\ p \in Seq(Event) /\ s \in Int
      /\ p \in Seq(PadEvent) /\ evs \in Seq(PadEvent)
  BY EventIsPadEvent, SlotsAssumption DEF Slots, EngineState
<1>2. w \in Pads /\ At(w, s) \in Pads /\ SlotEvent(s) \in Event
  BY <1>1, PadAfterType, PadSwitch
<1>3. CASE switch
  <2>1. out.passthrough = (p \o one) \o evs
    BY <1>3 DEF PushPassthrough, EngineState
  <2>2. one \in Seq(Event) /\ one \in Seq(PadEvent) /\ p \o one \in Seq(Event)
        /\ p \o one \in Seq(PadEvent)
    <3>1. one \in Seq(Event)
      BY <1>2
    <3> HIDE DEF one, p
    <3>2. p \o one \in Seq(Event)
      BY <1>1, <3>1
    <3> QED BY <3>1, <3>2, EventIsPadEvent
  <2>3. PadAfter(base, p \o one) = At(w, s)
    <3>1. PadAfter(base, p \o one) = PadAfter(w, one)
      BY <1>1, <2>2, PadConcat
    <3> QED BY <1>1, <1>2, <3>1, PadOne, PadSwitch
  <2>4. PadAfter(base, (p \o one) \o evs) = PadAfter(At(w, s), evs)
    <3> DEFINE po == p \o one
    <3>1. po \in Seq(PadEvent) /\ PadAfter(base, po) = At(w, s)
      BY <2>2, <2>3
    <3> HIDE DEF po
    <3>2. PadAfter(base, po \o evs) = PadAfter(At(w, s), evs)
      BY <1>1, <3>1, PadConcat
    <3> QED BY <3>2 DEF po
  <2>5. EndsAt(p \o one, s)
    <3>1. OwnEvents(one, s) /\ one # <<>> /\ Head(one).kind = "Slot"
      BY DEF OwnEvents, SlotEvent
    <3> HIDE DEF one, p
    <3> QED BY <1>1, <2>2, <3>1, EndsAfter
  <2>6. EndsAt((p \o one) \o evs, s)
    BY <2>2, <2>5, EndsAfter
  <2>7. Addressed((p \o one) \o evs)
    <3>1. CASE p = <<>>
      <4>1. Head((p \o one) \o evs) = SlotEvent(s)
        BY <3>1
      <4> QED BY <4>1 DEF Addressed, SlotEvent
    <3>2. CASE p # <<>>
      <4>1. Head((p \o one) \o evs) = Head(p)
        BY <1>1, <2>2, <3>2
      <4> QED BY <3>2, <4>1 DEF Addressed
    <3> QED BY <3>1, <3>2
  <2> QED BY <1>2, <2>1, <2>4, <2>6, <2>7
<1>4. CASE ~switch
  <2>1. out.passthrough = p \o evs
    <3>1. out.passthrough = (p \o <<>>) \o evs
      BY <1>4 DEF PushPassthrough, EngineState
    <3> QED BY <1>1, <3>1
  <2>2. PadAfter(base, p \o evs) = PadAfter(w, evs)
    BY <1>1, PadConcat
  <2>3. PadAfter(w, evs) = PadAfter(At(w, s), evs)
    <3>1. CASE Head(evs).kind = "Slot"
      <4> HIDE DEF w
      <4> QED BY <1>2, <3>1, SwitchIsPad
    <3>2. CASE Head(evs).kind # "Slot"
      <4>1. w.slot = s
        BY <1>4, <3>2
      <4> HIDE DEF w
      <4> QED BY <1>1, <1>2, <4>1, PadSwitch
    <3> QED BY <3>1, <3>2
  <2>4. EndsAt(p \o evs, s)
    <3>1. EndsAt(p, s) \/ Head(evs).kind = "Slot"
      BY <1>4, LeadsOrEnds
    <3> QED BY <1>1, <3>1, EndsAfter
  <2>5. Addressed(p \o evs)
    <3>1. CASE p = <<>>
      <4>1. Head(evs).kind = "Slot"
        BY <1>4, <3>1 DEF LeadsElsewhere
      <4>2. p \o evs = evs
        BY <3>1
      <4> QED BY <4>1, <4>2 DEF Addressed
    <3>2. CASE p # <<>>
      <4>1. Head(p \o evs) = Head(p)
        BY <1>1, <3>2
      <4> QED BY <3>2, <4>1 DEF Addressed
    <3> QED BY <3>1, <3>2
  <2> QED BY <1>2, <2>1, <2>2, <2>3, <2>4, <2>5
<1> QED BY <1>3, <1>4

OthersStill(en, out, s) ==
  \A q \in Slots \ {s} : /\ out.memory[q].tool_type = en.memory[q].tool_type
                         /\ SameOwned(en.contact[q], out.contact[q])
                         /\ out.held_events[q] = en.held_events[q]

\* Nothing is sent, and what changes is about slot s.
LEMMA ShownQuiet ==
  ASSUME NEW base, NEW en, NEW off, NEW s \in Slots, NEW out \in EngineState,
         Shown(base, en, off), OthersStill(en, out, s),
         out.passthrough = en.passthrough,
         SlotShown(PadAfter(base, en.passthrough), out, off, s), Waits(out, s)
  PROVE  Shown(base, out, off)
BY DEF Shown, OthersStill, SameOwned, SlotShown, Waits, Passed

\* Events for slot s are sent.
LEMMA ShownPushed ==
  ASSUME NEW base, NEW en, NEW off, NEW s \in Slots, NEW out \in EngineState,
         NEW evs \in Seq(Event), evs # <<>>, OwnEvents(evs, s), NEW after,
         Shown(base, en, off), OthersStill(en, out, s), off \in {after, {s}},
         out.passthrough = PushPassthrough(en, s, evs).passthrough,
         LET w == PadAfter(base, en.passthrough)
             r == PadAfter(At(w, s), evs)
         IN /\ r.slot = s /\ Legal(r)
            /\ \A q \in Slots \ {s} : r.ids[q] = w.ids[q] /\ r.tool[q] = w.tool[q]
            /\ SlotShown(r, out, after, s),
         Waits(out, s)
  PROVE  Shown(base, out, after)
<1> DEFINE w == PadAfter(base, en.passthrough)
           r == PadAfter(At(w, s), evs)
           p == PushPassthrough(en, s, evs).passthrough
<1>1. base \in Pads /\ en \in EngineState /\ Addressed(en.passthrough)
      /\ (~LeadsElsewhere(en.passthrough, s) => w.slot = s)
  BY DEF Shown
<1>2. /\ PadAfter(base, p) = r /\ At(w, s) \in Pads
      /\ Addressed(p) /\ EndsAt(p, s)
  BY <1>1, PushShown
<1>3. r \in Pads
  <2>1. evs \in Seq(PadEvent)
    BY EventIsPadEvent
  <2> QED BY <1>2, <2>1, PadAfterType
<1>4. \A q \in Slots : ~LeadsElsewhere(p, q) => q = s
  <2>1. p \in Seq(Event)
    BY DEF EngineState
  <2> HIDE DEF p
  <2> QED BY <1>2, <2>1, LeadsOrEnds, EndsOnce
<1>5. /\ r.slot = s /\ Legal(r) /\ SlotShown(r, out, after, s)
      /\ \A q \in Slots \ {s} : r.ids[q] = w.ids[q] /\ r.tool[q] = w.tool[q]
  OBVIOUS
<1>6. \A q \in Slots \ {s} : SlotShown(w, en, off, q) /\ Waits(en, q)
  BY DEF Shown
<1>7. out.passthrough = p
  OBVIOUS
<1> HIDE DEF w, r, p
<1>8. ASSUME NEW q \in Slots \ {s} PROVE SlotShown(r, out, after, q) /\ Waits(out, q)
  <2>1. /\ r.ids[q] = w.ids[q] /\ r.tool[q] = w.tool[q]
        /\ SlotShown(w, en, off, q) /\ Waits(en, q)
    BY <1>5, <1>6
  <2>2. /\ out.memory[q].tool_type = en.memory[q].tool_type
        /\ SameOwned(en.contact[q], out.contact[q])
        /\ out.held_events[q] = en.held_events[q]
    BY DEF OthersStill
  <2>3. q \notin after => q \notin off
    OBVIOUS
  <2> QED BY <2>1, <2>2, <2>3 DEF SlotShown, Waits, Passed, SameOwned
<1> QED BY <1>1, <1>2, <1>3, <1>4, <1>5, <1>7, <1>8 DEF Shown

\* A held event that is no contact's begin or end changes the slot's label and
\* place only.
LEMMA LandsOn ==
  ASSUME NEW evs \in Seq(Event), NEW s \in Slots, NEW id, Lands(evs, s, id),
         NEW ev \in Event, ev.kind # "TrackingId", ev.kind = "Slot" => ev.value = s
  PROVE  Lands(Append(evs, ev), s, id)
<1> SUFFICES ASSUME NEW d \in Pads, d.slot = s, d.ids[s] = None
             PROVE  Landed(d, PadAfter(d, Append(evs, ev)), s, id)
  BY DEF Lands
<1> DEFINE m == PadAfter(d, evs)
           r == PadTakes(m, ev)
<1>1. Landed(d, m, s, id)
  BY DEF Lands
<1>2. PadAfter(d, Append(evs, ev)) = r
  BY EventIsPadEvent, PadAppend DEF PadEvent
<1> HIDE DEF m
<1>3. /\ r \in Pads /\ r.slot = s
      /\ \A q \in Slots : /\ r.ids[q] = m.ids[q]
                          /\ q # s => r.tool[q] = m.tool[q]
      /\ r.legal <=> m.legal
  BY <1>1, PadTakesEvent DEF Landed
<1> HIDE DEF r
<1>4. Landed(d, r, s, id)
  BY <1>1, <1>3 DEF Landed, Legal
<1> QED BY <1>2, <1>4

\* A contact begins.
LEMMA LandsDown ==
  ASSUME NEW evs \in Seq(Event), NEW s \in Slots, NEW id \in TrackingIds,
         Lands(evs, s, None)
  PROVE  Lands(Append(evs, TrackingIdEvent(id)), s, id)
<1> DEFINE ev == TrackingIdEvent(id)
<1>1. ev \in Event /\ ev.kind = "TrackingId" /\ ev.value = id /\ id # None
  BY IdsAssumption DEF TrackingIdEvent, Event, Kinds, None
<1> HIDE DEF ev
<1> SUFFICES ASSUME NEW d \in Pads, d.slot = s, d.ids[s] = None
             PROVE  Landed(d, PadAfter(d, Append(evs, ev)), s, id)
  BY DEF Lands, ev
<1> DEFINE m == PadAfter(d, evs)
           r == PadTakes(m, ev)
<1>2. Landed(d, m, s, None)
  BY DEF Lands
<1>3. PadAfter(d, Append(evs, ev)) = r
  BY <1>1, EventIsPadEvent, PadAppend DEF PadEvent
<1> HIDE DEF m
<1>4. /\ r \in Pads /\ r.slot = s /\ r.ids[s] = id
      /\ \A q \in Slots \ {s} : /\ r.ids[q] = m.ids[q]
                                /\ r.tool[q] = m.tool[q]
      /\ r.legal <=> m.legal
  BY <1>1, <1>2, PadTakesEvent DEF Landed
<1> HIDE DEF r
<1>5. Landed(d, r, s, id)
  BY <1>2, <1>4 DEF Landed, Legal
<1> QED BY <1>3, <1>5

LEMMA LandsNothing ==
  ASSUME NEW s \in Slots
  PROVE  Lands(<<>>, s, None)
BY PadNothing DEF Lands, Landed

-----------------------------------------------------------------------------
(* The operations of a frame, whatever was sent before it.                 *)

Routes(en, out) ==
  /\ out.downs = en.downs
  /\ \A base : Shown(base, en, {}) => Shown(base, out, {})

LEMMA RoutesOn ==
  ASSUME NEW a, NEW b, NEW c, Routes(a, b), Routes(b, c)
  PROVE  Routes(a, c)
BY DEF Routes

LEMMA StillRoutes ==
  ASSUME NEW en, NEW out, Still(en, out)
  PROVE  Routes(en, out)
BY ShownStill DEF Routes, Still

\* What a label could be is not asked of a slot that forwards nothing, or whose
\* label the engine does not know.
LEMMA ShownAll ==
  ASSUME NEW base, NEW en, NEW off, Shown(base, en, off),
         \A s \in Slots : s \in off => ~Passed(en, s) \/ en.memory[s].tool_type = None
  PROVE  Shown(base, en, {})
BY DEF Shown, SlotShown

LEMMA ShownLess ==
  ASSUME NEW base, NEW en, NEW off, Shown(base, en, {})
  PROVE  Shown(base, en, off)
BY DEF Shown, SlotShown

\* Slot s is decided: its contact becomes k and nothing is held for it any more.
Decided(en, s, k) == [[en EXCEPT !.contact[s] = k] EXCEPT !.held_events[s] = <<>>]

\* All but slot s's contact and held events stays.
OneDecided(en, out, s) ==
  /\ out \in EngineState /\ OthersStill(en, out, s)
  /\ out.downs = en.downs /\ out.passthrough = en.passthrough
  /\ out.memory[s].tool_type = en.memory[s].tool_type
  /\ out.held_events[s] = <<>>

LEMMA DecidedParts ==
  ASSUME NEW en \in EngineState, NEW s \in Slots, NEW k \in Contact
  PROVE  OneDecided(en, Decided(en, s, k), s) /\ Decided(en, s, k).contact[s] = k
<1> DEFINE out == Decided(en, s, k)
           m == [en EXCEPT !.contact[s] = k]
           none == <<>>
<1>1. m \in EngineState /\ none \in Seq(Event)
  BY SetContact
<1>2. out \in EngineState
  <2>1. out = [m EXCEPT !.held_events[s] = none]
    BY DEF Decided
  <2> HIDE DEF m, none, out
  <2> QED BY <1>1, <2>1, SetHeldEvents
<1>3. /\ out.downs = en.downs /\ out.passthrough = en.passthrough
      /\ out.memory = en.memory /\ out.held_events[s] = <<>> /\ out.contact[s] = k
      /\ \A q \in Slots \ {s} : /\ out.contact[q] = en.contact[q]
                                /\ out.held_events[q] = en.held_events[q]
  BY DEF Decided, EngineState
<1> HIDE DEF out
<1> QED BY <1>2, <1>3 DEF out, OneDecided, OthersStill, SameOwned

LEMMA OneDecidedStill ==
  ASSUME NEW a, NEW b, NEW c, NEW s \in Slots, OneDecided(a, b, s), Still(b, c)
  PROVE  OneDecided(a, c, s) /\ SameOwned(b.contact[s], c.contact[s])
BY DEF OneDecided, Still, OthersStill, SameOwned

\* A contact that was not forwarded and is not now: nothing to show.
LEMMA DecidedRoutes ==
  ASSUME NEW en, NEW out, NEW s \in Slots, OneDecided(en, out, s),
         ~Passed(en, s), ~Passed(out, s),
         out.contact[s].ownership = "Unknown" => out.contact[s].tracking_id = None
  PROVE  Routes(en, out)
<1> SUFFICES ASSUME NEW base, Shown(base, en, {}) PROVE Shown(base, out, {})
  BY DEF Routes, OneDecided
<1> DEFINE none == {}
           w == PadAfter(base, en.passthrough)
<1>1. SlotShown(w, out, none, s)
  <2>1. SlotShown(w, en, none, s)
    BY DEF Shown
  <2> QED BY <2>1 DEF SlotShown
<1>2. Waits(out, s)
  <2>1. out.held_events[s] = <<>>
    BY DEF OneDecided
  <2>2. Lands(out.held_events[s], s, None)
    BY <2>1, LandsNothing
  <2> QED BY <2>2 DEF Waits
<1>3. Shown(base, en, none)
  OBVIOUS
<1> HIDE DEF none
<1>4. Shown(base, out, none)
  BY <1>1, <1>2, <1>3, ShownQuiet DEF OneDecided
<1> QED BY <1>4 DEF none

LEMMA ClaimRoutes ==
  ASSUME NEW en \in EngineState, NEW s \in Slots, NEW zone \in Zones,
         en.contact[s].ownership = "Unknown"
  PROVE  Routes(en, ClaimContact(en, s, zone))
<1> DEFINE c == en.contact[s]
           match == /\ ~c.gesture_rejected
                    /\ ContactMatchesPendingTap(en.cfg, en.pending_tap, c, zone)
           settled == IF HasPendingTap(en) /\ ~match /\ ~c.gesture_rejected
                      THEN FlushPendingTap(en) ELSE en
           anchor == IF en.cfg.sliders[zone] > 0
                     THEN SliderPosition(zone, c) ELSE None
           claimed == [settled.contact[s] EXCEPT !.ownership = zone,
                                                 !.slider_anchor = anchor,
                                                 !.tap_sequence_match = match]
           out == Decided(settled, s, claimed)
<1>1. settled \in EngineState /\ Still(en, settled)
  BY FlushType, FlushStill, StillItself
<1>2. anchor \in Int /\ match \in BOOLEAN
  BY SliderPositionType, EngineFields DEF None, ContactMatchesPendingTap
<1> HIDE DEF settled, anchor, match
<1>3. claimed \in Contact /\ claimed.ownership = zone
  <2>1. \A d \in Contact, a \in Int, b \in BOOLEAN :
          [d EXCEPT !.ownership = zone, !.slider_anchor = a,
                    !.tap_sequence_match = b] \in Contact
    BY DEF Contact, Ownerships
  <2>2. \A d \in Contact : \A a, b :
          [d EXCEPT !.ownership = zone, !.slider_anchor = a,
                    !.tap_sequence_match = b].ownership = zone
    BY DEF Contact
  <2>3. settled.contact[s] \in Contact
    BY <1>1, EngineFields
  <2> QED BY <1>2, <2>1, <2>2, <2>3
<1>4. ClaimContact(en, s, zone) = out
  <2>1. [settled EXCEPT !.contact[s].ownership = zone,
                        !.contact[s].slider_anchor = anchor,
                        !.contact[s].tap_sequence_match = match,
                        !.held_events[s] = <<>>]
        = [[settled EXCEPT !.contact[s] = claimed] EXCEPT !.held_events[s] = <<>>]
    BY <1>1 DEF EngineState
  <2> QED BY <2>1 DEF ClaimContact, Decided, settled, anchor, match
<1> HIDE DEF claimed
<1>5. OneDecided(settled, out, s) /\ out.contact[s] = claimed
  BY <1>1, <1>3, DecidedParts
<1> HIDE DEF out
<1>6. Routes(settled, out)
  <2>1. ~Passed(settled, s) /\ ~Passed(out, s) /\ out.contact[s].ownership # "Unknown"
    BY <1>1, <1>3, <1>5 DEF Still, SameOwned, Passed, Zones
  <2> QED BY <1>5, <2>1, DecidedRoutes
<1>7. Routes(en, settled)
  BY <1>1, StillRoutes
<1> QED BY <1>4, <1>6, <1>7, RoutesOn

LEMMA PassThroughRoutes ==
  ASSUME NEW en \in EngineState, NEW s \in Slots, IsActive(en, s),
         en.contact[s].ownership = "Unknown", OwnEvents(en.held_events[s], s)
  PROVE  Routes(en, PassContactThrough(en, s))
<1> DEFINE k == [en.contact[s] EXCEPT !.ownership = "Passthrough"]
           owned == Decided(en, s, k)
           settled == IF en.contact[s].gesture_rejected
                      THEN owned ELSE FlushPendingTap(owned)
           held == en.held_events[s]
           replayed == PushPassthrough(settled, s, held)
           tool == en.memory[s].tool_type
           tools == IF tool = None THEN <<>> ELSE <<ToolTypeEvent(tool)>>
           out == PushPassthrough(replayed, s, tools)
           id == en.contact[s].tracking_id
<1>1. k \in Contact /\ k.ownership = "Passthrough" /\ k.tracking_id = id
  <2>1. \A d \in Contact :
          LET m == [d EXCEPT !.ownership = "Passthrough"]
          IN m \in Contact /\ m.ownership = "Passthrough" /\ m.tracking_id = d.tracking_id
    BY DEF Contact, Ownerships
  <2> QED BY <2>1, EngineFields
<1>2. PassContactThrough(en, s) = out
  BY DEF PassContactThrough, Decided
<1> HIDE DEF k
<1>3. OneDecided(en, owned, s) /\ owned.contact[s] = k /\ owned \in EngineState
  BY <1>1, DecidedParts DEF OneDecided
<1> HIDE DEF owned
<1>4. OneDecided(en, settled, s) /\ SameOwned(k, settled.contact[s]) /\ settled \in EngineState
  <2>1. Still(owned, settled)
    BY <1>3, FlushStill, StillItself
  <2> HIDE DEF settled
  <2> QED BY <1>3, <2>1, OneDecidedStill DEF Still
<1> HIDE DEF settled
<1>5. held \in Seq(Event) /\ tool \in Int /\ id # None
  BY EngineFields DEF Memory, IsActive
<1>6. replayed \in EngineState /\ replayed.downs = settled.downs
      /\ replayed.contact = settled.contact /\ replayed.memory = settled.memory
      /\ replayed.held_events = settled.held_events
      /\ replayed.passthrough = PushPassthrough(en, s, held).passthrough
  <2>1. settled.passthrough = en.passthrough
    BY <1>4 DEF OneDecided
  <2> HIDE DEF held
  <2> QED BY <1>4, <1>5, <2>1, PushPassthroughType DEF PushPassthrough, EngineState
<1> HIDE DEF replayed
<1>7. OthersStill(en, replayed, s) /\ replayed.contact[s].ownership = "Passthrough"
      /\ replayed.contact[s].tracking_id = id /\ replayed.memory[s].tool_type = tool
  BY <1>1, <1>4, <1>6 DEF OneDecided, OthersStill, SameOwned
<1>8. out \in EngineState /\ out.downs = en.downs /\ out.contact = replayed.contact
      /\ out.memory = replayed.memory /\ out.held_events = replayed.held_events
  <2>1. tools \in Seq(Event)
    BY <1>5, ToolEventType
  <2> HIDE DEF tools
  <2> QED BY <1>4, <1>6, <2>1, PushPassthroughType DEF PushPassthrough, EngineState, OneDecided
<1> SUFFICES ASSUME NEW base, Shown(base, en, {}) PROVE Shown(base, out, {})
  BY <1>2, <1>8 DEF Routes
<1> DEFINE alone == {s}
           none == {}
           w == PadAfter(base, en.passthrough)
           d == At(w, s)
           r == PadAfter(d, held)
<1>9. /\ w.ids[s] = None /\ Legal(w) /\ Lands(held, s, id) /\ base \in Pads
      /\ w \in Pads /\ s \in Int
  BY SlotsAssumption DEF Shown, SlotShown, Waits, Passed, Slots
<1>10. /\ d \in Pads /\ d.slot = s /\ Legal(d) /\ d.ids = w.ids /\ d.tool = w.tool
  BY <1>9, PadSwitch DEF Legal
<1>11. Landed(d, r, s, id)
  BY <1>9, <1>10 DEF Lands
<1>12. held # <<>>
  <2>1. r.ids[s] = id /\ d.ids[s] = None
    BY <1>9, <1>10, <1>11 DEF Landed
  <2> QED BY <1>5, <2>1, PadNothing
<1>13. Shown(base, replayed, alone)
  <2>1. Shown(base, en, alone) /\ alone \in {alone, {s}}
    BY ShownLess
  <2>2. r.slot = s /\ Legal(r)
        /\ \A q \in Slots \ {s} : r.ids[q] = w.ids[q] /\ r.tool[q] = w.tool[q]
    BY <1>10, <1>11 DEF Landed
  <2>3. SlotShown(r, replayed, alone, s)
    BY <1>7, <1>11 DEF SlotShown, Landed, Passed
  <2>4. Waits(replayed, s)
    BY <1>7 DEF Waits
  <2>5. OwnEvents(held, s)
    OBVIOUS
  <2> HIDE DEF alone, held
  <2> QED BY <1>5, <1>6, <1>7, <1>12, <2>1, <2>2, <2>3, <2>4, <2>5, ShownPushed
<1>14. CASE tool = None
  <2>1. out = replayed
    BY <1>14 DEF PushPassthrough
  <2>2. Shown(base, replayed, none)
    BY <1>7, <1>13, <1>14, ShownAll
  <2> QED BY <2>1, <2>2
<1>15. CASE tool # None
  <2> DEFINE ev == ToolTypeEvent(tool)
             one == <<ev>>
             v == PadAfter(base, replayed.passthrough)
             a == At(v, s)
  <2>1. ev \in Event /\ ev.kind = "ToolType" /\ ev.value = tool
    BY <1>5 DEF ToolTypeEvent, Event, Kinds
  <2>2. tools = one /\ one \in Seq(Event) /\ one # <<>> /\ OwnEvents(one, s)
    BY <1>15, <2>1 DEF OwnEvents
  <2>3. v \in Pads /\ Legal(v) /\ SlotShown(v, replayed, alone, s)
    BY <1>13 DEF Shown
  <2>4. a \in Pads /\ a.slot = s /\ Legal(a) /\ a.ids = v.ids /\ a.tool = v.tool
    BY <1>9, <2>3, PadSwitch DEF Legal
  <2>5. PadAfter(a, one) = PadTakes(a, ev)
    BY PadOne
  <2> DEFINE t == PadTakes(a, ev)
  <2> HIDE DEF a, ev, v
  <2>6. /\ t.slot = s /\ Legal(t)
        /\ \A q \in Slots : t.ids[q] = v.ids[q]
        /\ \A q \in Slots \ {s} : t.tool[q] = v.tool[q]
        /\ Labelled => t.tool[s] = tool
    BY <2>1, <2>4, PadTakesEvent DEF Legal
  <2> HIDE DEF t
  <2>7. SlotShown(t, out, none, s)
    BY <1>7, <1>8, <2>3, <2>6 DEF SlotShown, Passed
  <2>8. Waits(out, s)
    BY <1>7, <1>8 DEF Waits
  <2>9. OthersStill(replayed, out, s)
    BY <1>8 DEF OthersStill, SameOwned
  <2>10. out.passthrough = PushPassthrough(replayed, s, one).passthrough
    BY <2>2
  <2> HIDE DEF out, one, alone, none
  <2>11. Shown(base, out, none)
    <3>1. alone \in {none, {s}} /\ alone = {s}
      BY DEF alone
    <3> QED BY <1>8, <1>13, <2>2, <2>5, <2>6, <2>7, <2>8, <2>9, <2>10, <3>1, ShownPushed
               DEF a, v, t
  <2> QED BY <2>11 DEF none
<1> QED BY <1>14, <1>15

LEMMA DecideRoutes ==
  ASSUME NEW en \in EngineState, PairInv(en), NEW s \in Slots
  PROVE  Routes(en, DecideOwnershipIfReady(en, s))
<1> DEFINE out == DecideOwnershipIfReady(en, s)
           zone == ZoneForContact(en, s)
<1>1. OwnEvents(en.held_events[s], s)
  BY DEF PairInv, SlotInv, OwnEvents
<1>2. zone # "None" => zone \in Zones
  BY ZoneType DEF ZoneForContact
<1>3. CASE out = en
  BY <1>3 DEF Routes
<1>4. CASE /\ IsActive(en, s) /\ en.contact[s].ownership = "Unknown"
           /\ zone = "None" /\ out = PassContactThrough(en, s)
  BY <1>1, <1>4, PassThroughRoutes
<1>5. CASE /\ en.contact[s].ownership = "Unknown"
           /\ zone # "None" /\ out = ClaimContact(en, s, zone)
  BY <1>2, <1>5, ClaimRoutes
<1> HIDE DEF zone
<1> QED BY <1>3, <1>4, <1>5 DEF DecideOwnershipIfReady, zone

LEMMA DecideAndSlideRoutes ==
  ASSUME NEW en \in EngineState, PairInv(en), NEW s \in Slots
  PROVE  Routes(en, DecideAndSlide(en, s))
<1> DEFINE m == DecideOwnershipIfReady(en, s)
<1>1. m \in EngineState /\ Routes(en, m)
  BY DecideType, DecideRoutes
<1> HIDE DEF m
<1>2. Routes(m, EmitSliderStepsIfReady(m, s))
  BY <1>1, EmitStill, StillRoutes
<1> QED BY <1>1, <1>2, RoutesOn DEF DecideAndSlide, m

LEMMA SettleRoutes ==
  ASSUME NEW en \in EngineState, PairInv(en)
  PROVE  Routes(en, Settle(en))
<1>1. en.current_slot \in Slots
  BY DEF EngineState
<1>2. Routes(en, en)
  BY DEF Routes
<1> QED BY <1>1, <1>2, DecideAndSlideRoutes DEF Settle

\* A label is shown once its event is out, other events change no label.
LEMMA RouteEventShown ==
  ASSUME NEW base, NEW en, NEW ev \in Event, ev.kind # "TrackingId",
         ev.kind = "Slot" => ev.value = en.current_slot,
         NEW off, Shown(base, en, off),
         \/ off = {} /\ ev.kind # "ToolType"
         \/ /\ off = {en.current_slot} /\ ev.kind = "ToolType"
            /\ ev.value = en.memory[en.current_slot].tool_type
  PROVE  Shown(base, RouteEvent(en, ev), {})
<1> DEFINE s == en.current_slot
           out == RouteEvent(en, ev)
           none == {}
           evs == <<ev>>
           w == PadAfter(base, en.passthrough)
           a == At(w, s)
           r == PadTakes(a, ev)
<1>0. en \in EngineState
  BY DEF Shown
<1>1. /\ en \in EngineState /\ s \in Slots /\ s \in Int
      /\ out \in EngineState /\ none \in {none, {s}} /\ off \in {none, {s}}
  <2>1. s \in Slots /\ s \in Int
    BY <1>0, SlotsAssumption DEF EngineState, Slots
  <2>2. off = none \/ off = {s}
    OBVIOUS
  <2> HIDE DEF s
  <2> QED BY <1>0, <2>1, <2>2, RouteEventType
<1>2. CASE en.contact[s].ownership = "Passthrough"
  <2>1. out = PushPassthrough(en, s, evs)
    BY <1>2 DEF RouteEvent
  <2>2. /\ out.contact = en.contact /\ out.memory = en.memory
        /\ out.held_events = en.held_events
    BY <1>1, <2>1 DEF PushPassthrough, EngineState
  <2>3. OthersStill(en, out, s) /\ Waits(out, s)
    BY <1>2, <2>2 DEF OthersStill, SameOwned, Waits
  <2>4. /\ w \in Pads /\ Legal(w) /\ SlotShown(w, en, off, s)
    BY <1>1 DEF Shown
  <2>5. a \in Pads /\ a.slot = s /\ Legal(a) /\ a.ids = w.ids /\ a.tool = w.tool
    BY <1>1, <2>4, PadSwitch DEF Legal
  <2>6. PadAfter(a, evs) = r
    BY PadOne
  <2> HIDE DEF w, a, out
  <2>7. /\ r.slot = s /\ Legal(r)
        /\ \A q \in Slots : r.ids[q] = w.ids[q]
        /\ \A q \in Slots \ {s} : r.tool[q] = w.tool[q]
        /\ ev.kind # "ToolType" => r.tool[s] = w.tool[s]
        /\ ev.kind = "ToolType" /\ Labelled => r.tool[s] = ev.value
    BY <1>1, <2>5, PadTakesEvent DEF Legal
  <2> HIDE DEF r
  <2>8. SlotShown(r, out, none, s)
    BY <1>1, <1>2, <2>2, <2>4, <2>7 DEF SlotShown, Passed
  <2>9. evs \in Seq(Event) /\ evs # <<>> /\ OwnEvents(evs, s)
    BY DEF OwnEvents
  <2>10. out.passthrough = PushPassthrough(en, s, evs).passthrough
    BY <2>1
  <2> HIDE DEF evs, none
  <2>11. Shown(base, out, none)
    BY <1>1, <2>3, <2>6, <2>7, <2>8, <2>9, <2>10, ShownPushed DEF w, a, r
  <2> QED BY <2>11 DEF none, out
<1>3. CASE en.contact[s].ownership # "Passthrough"
  <2>1. Shown(base, en, none)
    BY <1>3, ShownAll DEF Passed
  <2>2. CASE en.contact[s].ownership # "Unknown"
    BY <1>3, <2>1, <2>2 DEF RouteEvent
  <2>3. CASE en.contact[s].ownership = "Unknown"
    <3> DEFINE held == en.held_events[s]
    <3>1. out = [en EXCEPT !.held_events[s] = Append(@, ev)]
      BY <2>3 DEF RouteEvent
    <3>2. /\ out.contact = en.contact /\ out.memory = en.memory
          /\ out.passthrough = en.passthrough
          /\ out.held_events[s] = Append(held, ev)
          /\ \A q \in Slots \ {s} : out.held_events[q] = en.held_events[q]
      BY <1>1, <3>1 DEF EngineState
    <3>3. held \in Seq(Event) /\ Lands(held, s, en.contact[s].tracking_id)
      BY <1>1, <2>3, EngineFields DEF Shown, Waits
    <3> HIDE DEF held, out
    <3>4. Waits(out, s)
      BY <1>1, <3>2, <3>3, LandsOn DEF Waits
    <3>5. OthersStill(en, out, s)
      BY <3>2 DEF OthersStill, SameOwned
    <3>6. SlotShown(w, out, none, s)
      <4>1. SlotShown(w, en, none, s)
        BY <1>1, <2>1 DEF Shown
      <4> QED BY <3>2, <4>1 DEF SlotShown, Passed
    <3> HIDE DEF none, w
    <3>7. Shown(base, out, none)
      BY <1>1, <2>1, <3>2, <3>4, <3>5, <3>6, ShownQuiet DEF w
    <3> QED BY <3>7 DEF none, out
  <2> QED BY <2>2, <2>3
<1> QED BY <1>2, <1>3

LEMMA RouteEventRoutes ==
  ASSUME NEW en \in EngineState, NEW ev \in Event,
         ev.kind \notin {"TrackingId", "ToolType"},
         ev.kind = "Slot" => ev.value = en.current_slot
  PROVE  Routes(en, RouteEvent(en, ev))
<1>1. RouteEvent(en, ev).downs = en.downs
  BY DEF RouteEvent, PushPassthrough, EngineState
<1>2. ASSUME NEW base, Shown(base, en, {}) PROVE Shown(base, RouteEvent(en, ev), {})
  BY <1>2, RouteEventShown
<1> QED BY <1>1, <1>2 DEF Routes

LEMMA ToolRoutes ==
  ASSUME NEW en \in EngineState, NEW ev \in Event, ev.kind = "ToolType"
  PROVE  Routes(en, RouteEvent([en EXCEPT !.memory[en.current_slot].tool_type = ev.value], ev))
<1> DEFINE s == en.current_slot
           v == ev.value
           m == [en EXCEPT !.memory[s].tool_type = v]
           off == {s}
<1>1. s \in Slots /\ v \in Int /\ en.memory[s] \in Memory
  BY EngineFields DEF EngineState, Event
<1>2. /\ m \in EngineState /\ m.current_slot = s /\ m.memory[s].tool_type = v
      /\ m.contact = en.contact /\ m.held_events = en.held_events
      /\ m.passthrough = en.passthrough /\ m.downs = en.downs
      /\ \A q \in Slots \ {s} : m.memory[q] = en.memory[q]
  <2> HIDE DEF v
  <2> QED BY <1>1 DEF EngineState, Memory
<1> HIDE DEF m
<1>3. RouteEvent(m, ev).downs = en.downs
  BY <1>2 DEF RouteEvent, PushPassthrough, EngineState
<1>4. ASSUME NEW base, Shown(base, en, {}) PROVE Shown(base, RouteEvent(m, ev), {})
  <2>1. Shown(base, en, off)
    BY <1>4, ShownLess
  <2>2. OthersStill(en, m, s)
    BY <1>2 DEF OthersStill, SameOwned
  <2>3. Waits(m, s) /\ SlotShown(PadAfter(base, en.passthrough), m, off, s)
    BY <1>1, <1>2, <2>1 DEF Shown, Waits, SlotShown, Passed
  <2> HIDE DEF off
  <2>4. Shown(base, m, off)
    BY <1>1, <1>2, <2>1, <2>2, <2>3, ShownQuiet
  <2>5. off = {m.current_slot} /\ ev.value = m.memory[m.current_slot].tool_type
    BY <1>2 DEF off
  <2> QED BY <2>4, <2>5, RouteEventShown
<1> QED BY <1>3, <1>4 DEF Routes, m

LEMMA FinalizeRoutes ==
  ASSUME NEW en \in EngineState, PairInv(en), NEW s \in Slots
  PROVE  Routes(en, FinalizeContact(en, s))
<1> DEFINE c == en.contact[s]
           x == OrElse(c.current_x, en.memory[s].x)
           y == OrElse(c.current_y, en.memory[s].y)
           placed == [c EXCEPT !.current_x = x, !.current_y = y,
                               !.start_x = OrElse(@, x),
                               !.start_y = OrElse(@, y),
                               !.began_in_frame = FALSE]
           out == [en EXCEPT !.contact[s] = placed]
<1>1. /\ placed.tracking_id = c.tracking_id /\ placed.ownership = c.ownership
      /\ placed.gesture_rejected = c.gesture_rejected
      /\ placed.tap_sequence_eligible = c.tap_sequence_eligible
      /\ placed.tap_sequence_match = c.tap_sequence_match
      /\ placed.started_at = c.started_at
  <2>1. c \in Contact
    BY EngineFields
  <2> HIDE DEF c, x, y
  <2> QED BY <2>1 DEF Contact
<1>2. /\ out.held_events = en.held_events /\ out.pending_tap = en.pending_tap
      /\ SameOutputs(en, out)
      /\ out.contact[s] = placed
      /\ \A r \in Slots \ {s} : out.contact[r] = en.contact[r]
  <2> HIDE DEF placed
  <2> QED BY DEF EngineState, SameOutputs
<1>3. out \in EngineState
  BY PlacedType
<1> HIDE DEF out, placed
<1>4. PairInv(out)
  BY <1>1, <1>2, SameViewPair
<1>5. Still(en, out)
  BY <1>1, <1>2, <1>3, StillOne DEF SameOwned
<1>6. Routes(out, DecideAndSlide(out, s))
  BY <1>3, <1>4, DecideAndSlideRoutes
<1>7. Routes(en, DecideAndSlide(out, s))
  BY <1>5, <1>6, StillRoutes, RoutesOn
<1>8. Routes(en, en)
  BY DEF Routes
<1> QED
  BY <1>7, <1>8 DEF FinalizeContact, out, placed

LEMMA BeginRoutes ==
  ASSUME NEW en \in EngineState, PairInv(en), NEW s \in Slots,
         NEW id \in TrackingIds, ~IsActive(en, s),
         scan.contacts[s][id] \in FrameTool, stamp \in Int
  PROVE  Routes(en, BeginContact(en, s, id))
<1> DEFINE tool == scan.contacts[s][id]
           palm == IsPalm(tool)
           another == \E r \in Slots :
                        IsActive(en, r) /\ ~en.contact[r].gesture_rejected
           lone == ~another /\ ~palm
           new == NewContact(id, stamp, lone)
           c == IF palm THEN RejectGestures(new) ELSE new
           event == TrackingIdEvent(id)
           held == en.held_events[s]
           begun == [en EXCEPT !.contact[s] = c,
                               !.held_events[s] = Append(@, event),
                               !.memory[s].tool_type = tool.tool_type]
<1>1. c.tracking_id = id /\ c.ownership = "Unknown" /\ begun \in EngineState
  <2>1. lone \in BOOLEAN
    OBVIOUS
  <2> HIDE DEF lone
  <2>2. c.tracking_id = id /\ c.ownership = "Unknown"
    BY <2>1, NewContactFields
  <2>3. begun \in EngineState
    BY <2>1, BegunType
  <2> QED BY <2>2, <2>3
<1>2. /\ begun.contact[s] = c /\ begun.held_events[s] = Append(held, event)
      /\ begun.passthrough = en.passthrough /\ begun.downs = en.downs
      /\ \A r \in Slots \ {s} : /\ begun.contact[r] = en.contact[r]
                                /\ begun.held_events[r] = en.held_events[r]
                                /\ begun.memory[r] = en.memory[r]
  <2> HIDE DEF tool, c, event
  <2> QED BY DEF EngineState
<1>3. BeginContact(en, s, id) = IF another /\ ~palm
                                 THEN FlushPendingTap(WithoutPairing(begun))
                                 ELSE begun
  BY DEF BeginContact
<1> HIDE DEF c, begun, another, palm
<1>4. en.contact[s].ownership = "Unknown" /\ en.contact[s].tracking_id = None
  BY DEF PairInv, SlotInv, IsActive
<1>5. held \in Seq(Event)
  BY EngineFields
<1>6. ASSUME NEW base, Shown(base, en, {}) PROVE Shown(base, begun, {})
  <2> DEFINE none == {}
             w == PadAfter(base, en.passthrough)
  <2>1. Lands(held, s, None) /\ SlotShown(w, en, none, s)
    BY <1>4, <1>6 DEF Shown, Waits
  <2> HIDE DEF held, event
  <2>2. Waits(begun, s)
    BY <1>1, <1>2, <1>5, <2>1, LandsDown DEF Waits, event
  <2>3. SlotShown(w, begun, none, s)
    BY <1>1, <1>2, <1>4, <2>1 DEF SlotShown, Passed
  <2>4. OthersStill(en, begun, s)
    BY <1>2 DEF OthersStill, SameOwned
  <2>5. Shown(base, en, none)
    BY <1>6
  <2> HIDE DEF none, w
  <2>6. Shown(base, begun, none)
    BY <1>1, <1>2, <2>2, <2>3, <2>4, <2>5, ShownQuiet DEF w
  <2> QED BY <2>6 DEF none
<1>7. Routes(en, begun)
  BY <1>2, <1>6 DEF Routes
<1>8. Still(begun, FlushPendingTap(WithoutPairing(begun)))
  <2> DEFINE m == WithoutPairing(begun)
  <2>1. m \in EngineState /\ Still(begun, m)
    BY <1>1, WithoutPairingType, WithoutPairingStill
  <2> HIDE DEF m
  <2>2. Still(m, FlushPendingTap(m))
    BY <2>1, FlushStill
  <2> QED BY <2>1, <2>2, StillOn DEF m
<1>9. Routes(en, FlushPendingTap(WithoutPairing(begun)))
  BY <1>7, <1>8, StillRoutes, RoutesOn
<1> QED BY <1>3, <1>7, <1>9

LEMMA ReleaseRoutes ==
  ASSUME NEW en \in EngineState, PairInv(en), IsActive(en, en.current_slot), NEW t \in Int
  PROVE  Routes(en, ReleaseCurrentSlot(en, TrackingIdEvent(None), t))
<1> DEFINE s == en.current_slot
           c == en.contact[s]
           ev == TrackingIdEvent(None)
           lifted == Decided(en, s, NoContact)
           out == ReleaseCurrentSlot(en, ev, t)
<1>1. s \in Slots /\ s \in Int
  BY SlotsAssumption DEF EngineState, Slots
<1>2. c \in Contact /\ c.tracking_id # None
  BY <1>1, EngineFields DEF IsActive
<1>3. OneDecided(en, lifted, s) /\ lifted.contact[s] = NoContact /\ lifted \in EngineState
  BY <1>1, NoContactType, DecidedParts DEF OneDecided
<1>4. [en EXCEPT !.contact[s] = NoContact, !.held_events[s] = <<>>] = lifted
  BY DEF Decided
<1>5. NoContact.ownership = "Unknown" /\ NoContact.tracking_id = None
  BY NoContactFields
<1>6. ~Passed(lifted, s)
  BY <1>3, <1>5 DEF Passed
<1>7. out = IF c.ownership = "Passthrough" THEN PushPassthrough(lifted, s, <<ev>>)
            ELSE IF IsClaimed(c) /\ ~c.gesture_rejected
                 THEN ReleaseClaimed(lifted, s, c, t) ELSE lifted
  BY <1>4 DEF ReleaseCurrentSlot
<1>8. Waits(lifted, s)
  BY <1>1, <1>3, <1>5, LandsNothing DEF OneDecided, Waits
<1> HIDE DEF lifted, out
<1>9. CASE c.ownership # "Passthrough"
  <2>1. Routes(en, lifted)
    BY <1>1, <1>3, <1>5, <1>6, <1>9, DecidedRoutes DEF Passed
  <2>2. IsClaimed(c) => Routes(lifted, ReleaseClaimed(lifted, s, c, t))
    <3> HIDE DEF c, s
    <3> QED BY <1>1, <1>2, <1>3, ReleaseClaimedStill, StillRoutes
  <2> QED BY <1>7, <1>9, <2>1, <2>2, RoutesOn DEF out
<1>10. CASE c.ownership = "Passthrough"
  <2> DEFINE evs == <<ev>>
             none == {}
  <2>1. ev \in Event /\ ev.kind = "TrackingId" /\ ev.value = None
    BY LiftEvent DEF TrackingIdEvent
  <2>2. evs \in Seq(Event) /\ evs # <<>> /\ OwnEvents(evs, s)
    BY <2>1 DEF OwnEvents
  <2>3. out = PushPassthrough(lifted, s, evs)
    BY <1>7, <1>10
  <2>4. lifted.passthrough = en.passthrough /\ lifted.downs = en.downs
    BY <1>3 DEF OneDecided
  <2> HIDE DEF evs
  <2>5. /\ out \in EngineState /\ out.downs = en.downs
        /\ out.contact = lifted.contact /\ out.memory = lifted.memory
        /\ out.held_events = lifted.held_events
        /\ out.passthrough = PushPassthrough(en, s, evs).passthrough
    BY <1>1, <1>3, <2>2, <2>3, <2>4, PushPassthroughType DEF PushPassthrough, EngineState
  <2>6. Waits(out, s) /\ OthersStill(en, out, s) /\ ~Passed(out, s)
    BY <1>3, <1>6, <1>8, <2>5 DEF Waits, OneDecided, OthersStill, SameOwned, Passed
  <2>7. ASSUME NEW base, Shown(base, en, {}) PROVE Shown(base, out, {})
    <3> DEFINE w == PadAfter(base, en.passthrough)
               a == At(w, s)
               r == PadTakes(a, ev)
    <3>1. w \in Pads /\ Legal(w) /\ w.ids[s] = c.tracking_id
      BY <1>1, <1>10, <2>7 DEF Shown, SlotShown, Passed
    <3>2. a \in Pads /\ a.slot = s /\ Legal(a) /\ a.ids = w.ids /\ a.tool = w.tool
      BY <1>1, <3>1, PadSwitch DEF Legal
    <3>3. PadAfter(a, evs) = r
      BY PadOne DEF evs
    <3>4. Shown(base, en, none) /\ none \in {none, {s}}
      BY <2>7
    <3> HIDE DEF w, a, ev
    <3>5. /\ r.slot = s /\ Legal(r) /\ r.ids[s] = None
          /\ \A q \in Slots \ {s} : r.ids[q] = w.ids[q] /\ r.tool[q] = w.tool[q]
      BY <1>1, <1>2, <2>1, <3>1, <3>2, PadTakesEvent DEF Legal
    <3> HIDE DEF r, none
    <3>6. SlotShown(r, out, none, s)
      BY <2>6, <3>5 DEF SlotShown
    <3>7. Shown(base, out, none)
      BY <1>1, <2>2, <2>5, <2>6, <3>3, <3>4, <3>5, <3>6, ShownPushed DEF w, a, r
    <3> QED BY <3>7 DEF none
  <2> QED BY <2>5, <2>7 DEF Routes, out
<1> QED BY <1>9, <1>10

\* Led astray, a lift can be of no contact: it waits with what its slot holds.
LEMMA LiftsNothing ==
  ASSUME NEW en \in EngineState, PairInv(en), ~IsActive(en, en.current_slot), astray, NEW t
  PROVE  Routes(en, ReleaseCurrentSlot(en, TrackingIdEvent(None), t))
<1> DEFINE s == en.current_slot
           held == en.held_events[s]
           ev == TrackingIdEvent(None)
           out == ReleaseCurrentSlot(en, ev, t)
           none == {}
<1>1. s \in Slots /\ held \in Seq(Event)
  BY EngineFields DEF EngineState
<1>2. en.contact[s].ownership = "Unknown" /\ en.contact[s].tracking_id = None
  BY <1>1 DEF PairInv, SlotInv, IsActive
<1>3. ev \in Event /\ ev.kind = "TrackingId" /\ ev.value = None
  BY LiftEvent DEF TrackingIdEvent
<1>4. out = [en EXCEPT !.held_events[s] = Append(@, ev)]
  BY DEF ReleaseCurrentSlot
<1>5. out \in EngineState
  <2>1. Append(held, ev) \in Seq(Event)
    BY <1>1, <1>3
  <2>2. out = [en EXCEPT !.held_events[s] = Append(held, ev)]
    BY <1>1, <1>4 DEF EngineState
  <2> HIDE DEF out, held, ev
  <2> QED BY <1>1, <2>1, <2>2, SetHeldEvents
<1>6. /\ out.contact = en.contact /\ out.memory = en.memory /\ out.downs = en.downs
      /\ out.passthrough = en.passthrough
      /\ out.held_events[s] = Append(held, ev)
      /\ \A q \in Slots \ {s} : out.held_events[q] = en.held_events[q]
  BY <1>1, <1>4 DEF EngineState
<1> HIDE DEF out, held, ev
<1>7. ASSUME Lands(held, s, None) PROVE Lands(Append(held, ev), s, None)
  <2> SUFFICES ASSUME NEW d \in Pads, d.slot = s, d.ids[s] = None
               PROVE  Landed(d, PadAfter(d, Append(held, ev)), s, None)
    BY DEF Lands
  <2> DEFINE m == PadAfter(d, held)
             r == PadTakes(m, ev)
  <2>1. Landed(d, m, s, None)
    BY <1>7 DEF Lands
  <2>2. PadAfter(d, Append(held, ev)) = r
    BY <1>1, <1>3, EventIsPadEvent, PadAppend DEF PadEvent
  <2> HIDE DEF m
  <2>3. /\ r \in Pads /\ r.slot = s /\ r.ids[s] = None
        /\ \A q \in Slots \ {s} : r.ids[q] = m.ids[q] /\ r.tool[q] = m.tool[q]
    BY <1>1, <1>3, <2>1, PadTakesEvent DEF Landed
  <2> HIDE DEF r
  <2>4. Landed(d, r, s, None)
    BY <2>1, <2>3 DEF Landed, Legal
  <2> QED BY <2>2, <2>4
<1>8. ASSUME NEW base, Shown(base, en, none) PROVE Shown(base, out, none)
  <2> DEFINE w == PadAfter(base, en.passthrough)
  <2>1. SlotShown(w, en, none, s) /\ Waits(en, s)
    BY <1>1, <1>8 DEF Shown
  <2>2. Waits(out, s)
    BY <1>2, <1>6, <1>7, <2>1 DEF Waits, held
  <2>3. SlotShown(w, out, none, s)
    BY <1>6, <2>1 DEF SlotShown, Passed
  <2>4. OthersStill(en, out, s)
    BY <1>6 DEF OthersStill, SameOwned
  <2> HIDE DEF none, w
  <2> QED BY <1>1, <1>5, <1>6, <1>8, <2>2, <2>3, <2>4, ShownQuiet DEF w
<1> QED BY <1>6, <1>8 DEF Routes, out, ev, none

-----------------------------------------------------------------------------
(* What goes out before a frame's own events: promoted and restored contacts. *)

AllDowns(downs) == FoldLeft(Joined, <<>>, [i \in DOMAIN AllSlots |-> downs[AllSlots[i]]])

\* The events put contact id with its label into slot s, if that is free.
PutDown(d, r, s, id, tool) ==
  /\ r \in Pads /\ r.ids[s] = id
  /\ Legal(d) => Legal(r)
  /\ Labelled /\ tool # None => r.tool[s] = tool
  /\ \A q \in Slots \ {s} : r.ids[q] = d.ids[q] /\ r.tool[q] = d.tool[q]

Puts(evs, s, id, tool) ==
  /\ evs \in Seq(Event) /\ evs # <<>> /\ Head(evs).kind = "Slot"
  /\ \A d \in Pads : d.ids[s] = None => PutDown(d, PadAfter(d, evs), s, id, tool)

\* One event of a slot's own, where nothing else is known of it.
LEMMA PadTakesAxis ==
  ASSUME NEW d \in Pads, NEW ev \in Event, ev.kind \in {"X", "Y"}
  PROVE  LET r == PadTakes(d, ev)
         IN /\ r \in Pads /\ r.slot = d.slot /\ (r.legal <=> d.legal)
            /\ \A q \in Slots : r.ids[q] = d.ids[q] /\ r.tool[q] = d.tool[q]
<1> DEFINE r == PadTakes(d, ev)
<1>1. /\ r \in Pads /\ r.slot = d.slot /\ (r.legal <=> d.legal)
      /\ \A q \in Slots : r.ids[q] = d.ids[q] /\ r.tool[q] = d.tool[q]
  BY PadTakesEvent
<1> QED BY <1>1

LEMMA PadTakesDown ==
  ASSUME NEW d \in Pads, NEW ev \in Event, ev.kind = "TrackingId", ev.value # None,
         d.slot \in Slots, d.ids[d.slot] = None
  PROVE  LET r == PadTakes(d, ev)
         IN /\ r \in Pads /\ r.slot = d.slot /\ (r.legal <=> d.legal)
            /\ r.ids[d.slot] = ev.value
            /\ \A q \in Slots : (q # d.slot => r.ids[q] = d.ids[q]) /\ r.tool[q] = d.tool[q]
<1> DEFINE r == PadTakes(d, ev)
<1>1. /\ r \in Pads /\ r.slot = d.slot /\ (r.legal <=> d.legal)
      /\ r.ids[d.slot] = ev.value
      /\ \A q \in Slots : (q # d.slot => r.ids[q] = d.ids[q]) /\ r.tool[q] = d.tool[q]
  BY PadTakesEvent
<1> QED BY <1>1

LEMMA PadTakesLabel ==
  ASSUME NEW d \in Pads, NEW ev \in Event, ev.kind = "ToolType", d.slot \in Slots
  PROVE  LET r == PadTakes(d, ev)
         IN /\ r \in Pads /\ (r.legal <=> d.legal)
            /\ Labelled => r.tool[d.slot] = ev.value
            /\ \A q \in Slots : r.ids[q] = d.ids[q] /\ (q # d.slot => r.tool[q] = d.tool[q])
<1> DEFINE r == PadTakes(d, ev)
<1>1. /\ r \in Pads /\ (r.legal <=> d.legal)
      /\ Labelled => r.tool[d.slot] = ev.value
      /\ \A q \in Slots : r.ids[q] = d.ids[q] /\ (q # d.slot => r.tool[q] = d.tool[q])
  BY PadTakesEvent
<1> QED BY <1>1

LEMMA DownEventsPut ==
  ASSUME NEW s \in Slots, NEW id \in Int, id # None,
         NEW x \in Int, NEW y \in Int, NEW tool \in Int
  PROVE  Puts(DownEvents(s, id, x, y, tool), s, id, tool)
<1> DEFINE a == SlotEvent(s)
           b == TrackingIdEvent(id)
           c == XEvent(x)
           g == YEvent(y)
           t == ToolTypeEvent(tool)
           four == <<a, b, c, g>>
           tools == IF tool = None THEN <<>> ELSE <<t>>
           evs == four \o tools
<1>0. evs = DownEvents(s, id, x, y, tool)
  BY DEF DownEvents
<1>1. /\ a \in Event /\ a.kind = "Slot" /\ a.value = s
      /\ b \in Event /\ b.kind = "TrackingId" /\ b.value = id
      /\ c \in Event /\ c.kind = "X" /\ g \in Event /\ g.kind = "Y"
      /\ t \in Event /\ t.kind = "ToolType" /\ t.value = tool
  BY SlotsAssumption
     DEF SlotEvent, TrackingIdEvent, XEvent, YEvent, ToolTypeEvent, Event, Kinds, Slots
<1> HIDE DEF a, b, c, g, t
<1>2. /\ a \in PadEvent /\ b \in PadEvent /\ c \in PadEvent /\ g \in PadEvent /\ t \in PadEvent
  BY <1>1 DEF PadEvent
<1>3. /\ four \in Seq(Event) /\ tools \in Seq(Event)
      /\ four \in Seq(PadEvent) /\ tools \in Seq(PadEvent)
      /\ <<a, b>> \in Seq(PadEvent) /\ <<c, g>> \in Seq(PadEvent)
  BY <1>1, <1>2
<1>4. evs \in Seq(Event) /\ evs # <<>> /\ Head(evs) = a
  <2>1. evs \in Seq(Event)
    <3> HIDE DEF four, tools
    <3> QED BY <1>3
  <2>2. Len(four) = 4 /\ four[1] = a
    OBVIOUS
  <2>3. Len(evs) = 4 + Len(tools) /\ Len(tools) \in Nat /\ evs[1] = a
    <3>1. four \in Seq(Event) /\ tools \in Seq(Event)
      BY <1>3
    <3> HIDE DEF four, tools
    <3>2. Len(four \o tools) = Len(four) + Len(tools) /\ Len(tools) \in Nat
          /\ \A i \in 1..Len(four) : (four \o tools)[i] = four[i]
      BY <3>1
    <3> QED BY <2>2, <3>2
  <2> HIDE DEF evs
  <2> QED BY <2>1, <2>3
<1>5. ASSUME NEW d \in Pads, d.ids[s] = None
      PROVE  PutDown(d, PadAfter(d, evs), s, id, tool)
  <2> DEFINE d1 == PadTakes(d, a)
             d2 == PadTakes(d1, b)
             d3 == PadTakes(d2, c)
             d4 == PadTakes(d3, g)
             d5 == IF tool = None THEN d4 ELSE PadTakes(d4, t)
  <2>1. PadAfter(d, four) = d4
    <3> DEFINE u == <<a, b>>
               v == <<c, g>>
    <3>1. four = u \o v
      OBVIOUS
    <3>2. PadAfter(d, u) = d2 /\ PadAfter(d2, v) = d4
      BY <1>2, PadTwo
    <3>3. u \in Seq(PadEvent) /\ v \in Seq(PadEvent)
      BY <1>3
    <3> HIDE DEF four, u, v, d2, d4
    <3> QED BY <3>1, <3>2, <3>3, PadConcat
  <2>2. PadAfter(d, evs) = d5
    <3>1. PadAfter(d, evs) = PadAfter(d4, tools)
      <4> HIDE DEF four, tools, d4
      <4> QED BY <1>3, <2>1, PadConcat
    <3>2. PadAfter(d4, tools) = d5
      BY PadNothing, PadOne
    <3> QED BY <3>1, <3>2
  <2>3. /\ d1 \in Pads /\ d1.slot = s /\ (d1.legal <=> d.legal)
        /\ \A q \in Slots : d1.ids[q] = d.ids[q] /\ d1.tool[q] = d.tool[q]
    BY <1>1, PadTakesEvent
  <2> HIDE DEF d1
  <2>4. /\ d2 \in Pads /\ d2.slot = s /\ (d2.legal <=> d1.legal) /\ d2.ids[s] = id
        /\ \A q \in Slots : (q # s => d2.ids[q] = d.ids[q]) /\ d2.tool[q] = d.tool[q]
    BY <1>1, <1>5, <2>3, PadTakesDown
  <2> HIDE DEF d2
  <2>5. /\ d3 \in Pads /\ d3.slot = s /\ (d3.legal <=> d2.legal)
        /\ \A q \in Slots : d3.ids[q] = d2.ids[q] /\ d3.tool[q] = d2.tool[q]
    BY <1>1, <2>4, PadTakesAxis
  <2> HIDE DEF d3
  <2>6. /\ d4 \in Pads /\ d4.slot = s /\ (d4.legal <=> d3.legal)
        /\ \A q \in Slots : d4.ids[q] = d3.ids[q] /\ d4.tool[q] = d3.tool[q]
    BY <1>1, <2>5, PadTakesAxis
  <2> HIDE DEF d4
  <2>7. /\ d5 \in Pads /\ (d5.legal <=> d4.legal)
        /\ \A q \in Slots : d5.ids[q] = d4.ids[q] /\ (q # s => d5.tool[q] = d4.tool[q])
        /\ Labelled /\ tool # None => d5.tool[s] = tool
    <3>1. CASE tool = None
      BY <2>6, <3>1
    <3>2. CASE tool # None
      BY <1>1, <2>4, <2>5, <2>6, <3>2, PadTakesLabel
    <3> QED BY <3>1, <3>2
  <2> HIDE DEF d5
  <2> QED BY <2>2, <2>3, <2>4, <2>5, <2>6, <2>7 DEF PutDown, Legal
<1> HIDE DEF evs
<1>6. Puts(evs, s, id, tool)
  BY <1>1, <1>4, <1>5 DEF Puts
<1> QED BY <1>0, <1>6

\* Slots in S get their contacts, the others stay as they are.
LandedAll(d, r, S, ids, tools) ==
  /\ r \in Pads /\ Legal(r)
  /\ \A s \in S : /\ r.ids[s] = ids[s]
                  /\ Labelled /\ tools[s] # None => r.tool[s] = tools[s]
  /\ \A s \in Slots \ S : r.ids[s] = d.ids[s] /\ r.tool[s] = d.tool[s]

LEMMA DownsFollow ==
  ASSUME NEW d \in Pads, Legal(d), NEW downs \in [Slots -> Seq(Event)], NEW S \in SUBSET Slots,
         NEW ids, NEW tools,
         \A s \in S : d.ids[s] = None /\ Puts(downs[s], s, ids[s], tools[s]),
         \A s \in Slots \ S : downs[s] = <<>>
  PROVE  LET evs == AllDowns(downs)
         IN /\ evs \in Seq(Event) /\ Addressed(evs)
            /\ LandedAll(d, PadAfter(d, evs), S, ids, tools)
<1> DEFINE n == SlotMax - SlotMin + 1
           none == <<>>
           Parts(k) == [i \in 1..k |-> downs[SlotMin + i - 1]]
           Evs(k) == JoinF!Fold(none, Parts(k))
           Done(k) == {s \in S : s < SlotMin + k}
           Goal(k) == /\ Parts(k) \in Seq(Seq(Event)) /\ Evs(k) \in Seq(Event) /\ Addressed(Evs(k))
                      /\ LandedAll(d, PadAfter(d, Evs(k)), Done(k), ids, tools)
           T == {k \in Nat : k <= n => Goal(k)}
<1>1. n \in Nat /\ SlotMin \in Int /\ none \in Seq(Event) /\ \A i \in 1..n : SlotMin + i - 1 \in Slots
  BY AllSlotsType, SlotsAssumption DEF Slots
<1>2. 0 \in T
  <2>1. Parts(0) = <<>> /\ Done(0) = {}
    <3>1. \A s \in Slots : ~(s < SlotMin + 0)
      BY SlotsAssumption DEF Slots
    <3>2. Done(0) = {}
      BY <3>1
    <3>3. Parts(0) = <<>>
      OBVIOUS
    <3> QED BY <3>2, <3>3
  <2>2. Evs(0) = none
    BY <2>1, JoinF!FoldEmpty
  <2>3. PadAfter(d, none) = d /\ Addressed(none)
    BY PadNothing DEF Addressed
  <2>4. <<>> \in Seq(Seq(Event))
    OBVIOUS
  <2>5. LandedAll(d, d, {}, ids, tools)
    BY DEF LandedAll
  <2> HIDE DEF Parts, Evs, Done, none
  <2>6. Goal(0)
    BY <1>1, <2>1, <2>2, <2>3, <2>4, <2>5
  <2> QED BY <2>6
<1>3. ASSUME NEW k \in Nat, k \in T PROVE k + 1 \in T
  <2> SUFFICES ASSUME k + 1 <= n PROVE Goal(k + 1)
    OBVIOUS
  <2> DEFINE s == SlotMin + k
             part == downs[s]
             parts == Parts(k)
             evs == Evs(k)
             more == Parts(k + 1)
             done == Done(k)
             all == Done(k + 1)
             w == PadAfter(d, evs)
             r == PadAfter(w, part)
  <2>1. Goal(k)
    BY <1>1, <1>3
  <2>2. s \in Slots /\ part \in Seq(Event)
    BY <1>1, SlotsAssumption DEF Slots
  <2>3. more = Append(parts, part)
    <3>1. parts \in Seq(Seq(Event)) /\ Len(parts) = k
      BY <2>1
    <3>2. \A i \in 1..k : parts[i] = downs[SlotMin + i - 1]
      OBVIOUS
    <3>3. SlotMin + (k + 1) - 1 = s
      BY <1>1
    <3>4. /\ DOMAIN more = 1..(k + 1)
          /\ \A i \in 1..(k + 1) : more[i] = downs[SlotMin + i - 1]
      OBVIOUS
    <3>5. more \in [1..(k + 1) -> Seq(Event)]
      <4>1. \A i \in 1..(k + 1) : SlotMin + i - 1 \in Slots
        BY SlotsAssumption DEF Slots
      <4> QED BY <4>1
    <3>6. part \in Seq(Event) /\ part = downs[s]
      BY <2>2
    <3> HIDE DEF parts, part, more, s
    <3>7. more \in Seq(Seq(Event)) /\ Len(more) = k + 1
      BY <3>4, <3>5
    <3>8. Append(parts, part) \in Seq(Seq(Event)) /\ Len(Append(parts, part)) = k + 1
          /\ \A i \in 1..(k + 1) : Append(parts, part)[i] = IF i = k + 1 THEN part ELSE parts[i]
      BY <3>1, <3>6
    <3>9. ASSUME NEW i \in 1..(k + 1) PROVE more[i] = Append(parts, part)[i]
      <4>1. /\ more[i] = downs[SlotMin + i - 1]
            /\ Append(parts, part)[i] = IF i = k + 1 THEN part ELSE parts[i]
        BY <3>4, <3>8
      <4>2. CASE i = k + 1
        BY <3>3, <3>6, <4>1, <4>2
      <4>3. CASE i # k + 1
        <5>1. i \in 1..k
          BY <4>3
        <5> QED BY <3>2, <4>1, <4>3, <5>1
      <4> QED BY <4>2, <4>3
    <3> DEFINE longer == Append(parts, part)
    <3> HIDE DEF longer
    <3>10. /\ longer \in Seq(Seq(Event)) /\ Len(more) = Len(longer)
           /\ \A i \in 1..Len(more) : more[i] = longer[i]
      BY <3>7, <3>8, <3>9 DEF longer
    <3>11. more = longer
      BY <3>7, <3>10, SeqEqual
    <3> QED BY <3>11 DEF longer
  <2>4. /\ parts \in Seq(Seq(Event)) /\ evs \in Seq(Event) /\ Addressed(evs)
        /\ LandedAll(d, w, done, ids, tools)
    BY <2>1
  <2>5. \A q \in Slots : q \in all <=> (q \in done \/ (q = s /\ s \in S))
    <3>1. \A q \in Slots : q < SlotMin + (k + 1) <=> (q < SlotMin + k \/ q = SlotMin + k)
      BY <1>1 DEF Slots
    <3> QED BY <3>1
  <2>6. s \notin done
    BY <1>1
  <2> HIDE DEF s, part, parts, evs, more, done, all
  <2>7. JoinF!Fold(none, more) = evs \o part /\ more \in Seq(Seq(Event))
    <3>1. evs = JoinF!Fold(none, parts)
      BY DEF evs, parts
    <3>2. JoinF!Fold(none, Append(parts, part)) = Joined(JoinF!Fold(none, parts), part)
      BY <2>2, <2>4, JoinF!FoldAppend
    <3>3. Append(parts, part) \in Seq(Seq(Event))
      BY <2>2, <2>4
    <3> QED BY <2>3, <3>1, <3>2, <3>3 DEF Joined
  <2>8. PadAfter(d, evs \o part) = r /\ evs \o part \in Seq(Event)
    BY <2>2, <2>4, EventIsPadEvent, PadConcat
  <2>9. Addressed(evs \o part) /\ LandedAll(d, r, all, ids, tools)
    <3>1. CASE s \notin S
      <4>1. part = <<>>
        BY <2>2, <3>1 DEF part
      <4>2. r = w /\ evs \o part = evs
        BY <2>4, <4>1, PadNothing
      <4>3. all = done
        BY <2>5, <3>1 DEF all, done
      <4> HIDE DEF w, r
      <4> QED BY <2>4, <4>2, <4>3
    <3>2. CASE s \in S
      <4>1. Puts(part, s, ids[s], tools[s]) /\ d.ids[s] = None
        BY <3>2 DEF part
      <4>2. w \in Pads /\ Legal(w) /\ w.ids[s] = None
        BY <2>2, <2>4, <2>6, <4>1 DEF LandedAll
      <4> HIDE DEF w
      <4>3. PutDown(w, r, s, ids[s], tools[s])
        BY <4>1, <4>2 DEF Puts
      <4> HIDE DEF r
      <4>4. LandedAll(d, r, all, ids, tools)
        <5>1. \A q \in all : /\ r.ids[q] = ids[q]
                             /\ Labelled /\ tools[q] # None => r.tool[q] = tools[q]
          <6> TAKE q \in all
          <6>1. q \in Slots /\ (q \in done \/ q = s)
            BY <2>5 DEF all
          <6>2. q \in done /\ q # s => r.ids[q] = w.ids[q] /\ r.tool[q] = w.tool[q]
            BY <6>1, <4>3 DEF PutDown
          <6> QED BY <2>4, <6>1, <6>2, <4>3 DEF LandedAll, PutDown
        <5>2. \A q \in Slots \ all : r.ids[q] = d.ids[q] /\ r.tool[q] = d.tool[q]
          <6> TAKE q \in Slots \ all
          <6>1. q \notin done /\ q # s
            BY <2>5, <3>2
          <6> QED BY <2>4, <6>1, <4>3 DEF LandedAll, PutDown
        <5> QED BY <4>2, <4>3, <5>1, <5>2 DEF LandedAll, PutDown
      <4>5. Addressed(evs \o part)
        <5>1. part # <<>> /\ Head(part).kind = "Slot"
          BY <4>1 DEF Puts
        <5>2. CASE evs = <<>>
          <6>1. evs \o part = part
            BY <2>2, <5>2
          <6> QED BY <5>1, <6>1 DEF Addressed
        <5>3. CASE evs # <<>>
          <6>1. Head(evs \o part) = Head(evs)
            BY <2>2, <2>4, <5>3
          <6> QED BY <2>4, <5>3, <6>1 DEF Addressed
        <5> QED BY <5>2, <5>3
      <4> QED BY <4>4, <4>5
    <3> QED BY <3>1, <3>2
  <2> QED BY <2>7, <2>8, <2>9 DEF more, all
<1> HIDE DEF T
<1>4. n \in T
  BY <1>1, <1>2, <1>3, JoinF!NatSetInduction
<1>5. Goal(n)
  BY <1>1, <1>4 DEF T
<1>6. Evs(n) = AllDowns(downs)
  <2>1. Parts(n) = [i \in DOMAIN AllSlots |-> downs[AllSlots[i]]]
    BY DEF AllSlots
  <2> QED BY <2>1, JoinFold DEF AllDowns
<1>7. Done(n) = S
  <2>1. \A s \in Slots : s < SlotMin + n
    BY SlotsAssumption DEF Slots
  <2> HIDE DEF n
  <2> QED BY <2>1
<1> QED BY <1>5, <1>6, <1>7

\* The pad that was d before the frame, as what is routed so far makes it.
Ready(d, en) ==
  /\ Addressed(AllDowns(en.downs))
  /\ Shown(PadAfter(d, AllDowns(en.downs)), en, {})

LEMMA ReadyOn ==
  ASSUME NEW d, NEW en, NEW out, Ready(d, en), Routes(en, out)
  PROVE  Ready(d, out)
BY DEF Ready, Routes

\* Nothing has been sent yet, or all of it before the frame's own events.
LEMMA ShownFirst ==
  ASSUME NEW r \in Pads, Legal(r), NEW en \in EngineState, en.passthrough = <<>>,
         \A s \in Slots : SlotShown(r, en, {}, s) /\ Waits(en, s)
  PROVE  Shown(r, en, {})
<1> DEFINE none == <<>>
<1>1. PadAfter(r, none) = r /\ Addressed(none)
  BY PadNothing DEF Addressed
<1>2. \A s \in Slots : LeadsElsewhere(none, s)
  BY DEF LeadsElsewhere
<1>3. en.passthrough = none
  OBVIOUS
<1> HIDE DEF none
<1> QED BY <1>1, <1>2, <1>3 DEF Shown

LEMMA QuietShown ==
  ASSUME NEW d, NEW en, Shown(d, en, {}), en.passthrough = <<>>
  PROVE  /\ d \in Pads /\ Legal(d) /\ en \in EngineState
         /\ \A s \in Slots : SlotShown(d, en, {}, s) /\ Waits(en, s)
<1>1. PadAfter(d, en.passthrough) = d
  BY PadNothing
<1> QED BY <1>1 DEF Shown

LEMMA NoDowns ==
  ASSUME NEW downs \in [Slots -> Seq(Event)], \A s \in Slots : downs[s] = <<>>,
         NEW d \in Pads, Legal(d)
  PROVE  /\ AllDowns(downs) \in Seq(Event) /\ Addressed(AllDowns(downs))
         /\ \A s \in Slots : LET r == PadAfter(d, AllDowns(downs))
                             IN r.ids[s] = d.ids[s] /\ r.tool[s] = d.tool[s]
         /\ PadAfter(d, AllDowns(downs)) \in Pads /\ Legal(PadAfter(d, AllDowns(downs)))
<1> DEFINE none == {}
           ids == d.ids
           tools == d.tool
<1>1. none \in SUBSET Slots /\ Slots \ none = Slots
  OBVIOUS
<1>2. \A s \in none : d.ids[s] = None /\ Puts(downs[s], s, ids[s], tools[s])
  OBVIOUS
<1> HIDE DEF none, ids, tools
<1>3. /\ AllDowns(downs) \in Seq(Event) /\ Addressed(AllDowns(downs))
      /\ LandedAll(d, PadAfter(d, AllDowns(downs)), none, ids, tools)
  BY <1>1, <1>2, DownsFollow
<1> QED BY <1>1, <1>3 DEF LandedAll

LEMMA QuietReady ==
  ASSUME NEW d, NEW en, Shown(d, en, {}), en.passthrough = <<>>,
         \A s \in Slots : en.downs[s] = <<>>
  PROVE  Ready(d, en)
<1> DEFINE r == PadAfter(d, AllDowns(en.downs))
           none == {}
<1>1. /\ d \in Pads /\ Legal(d) /\ en \in EngineState
      /\ \A s \in Slots : SlotShown(d, en, none, s) /\ Waits(en, s)
  BY QuietShown
<1>2. en.downs \in [Slots -> Seq(Event)]
  BY <1>1 DEF EngineState
<1>3. /\ Addressed(AllDowns(en.downs)) /\ r \in Pads /\ Legal(r)
      /\ \A s \in Slots : r.ids[s] = d.ids[s] /\ r.tool[s] = d.tool[s]
  BY <1>1, <1>2, NoDowns
<1> HIDE DEF r
<1>4. \A s \in Slots : SlotShown(r, en, none, s)
  BY <1>1, <1>3 DEF SlotShown
<1>5. Shown(r, en, none)
  BY <1>1, <1>3, <1>4, ShownFirst DEF none
<1> QED BY <1>3, <1>5 DEF Ready, r

LEMMA PromotedReady ==
  ASSUME NEW d, NEW en, Shown(d, en, {}), en.passthrough = <<>>,
         \A s \in Slots : en.downs[s] = <<>>
  PROVE  Ready(d, PromoteClaimedContacts(en))
<1> DEFINE out == PromoteClaimedContacts(en)
           S == {s \in Slots : CanPromote(en, s)}
           ids == [s \in Slots |-> en.contact[s].tracking_id]
           tools == [s \in Slots |-> en.memory[s].tool_type]
           none == {}
           r == PadAfter(d, AllDowns(out.downs))
<1>1. /\ d \in Pads /\ Legal(d) /\ en \in EngineState
      /\ \A s \in Slots : SlotShown(d, en, none, s) /\ Waits(en, s)
  BY QuietShown
<1>2. out \in EngineState
  BY <1>1, PromoteType
<1>3. /\ out.held_events = en.held_events /\ out.memory = en.memory
      /\ out.passthrough = <<>>
      /\ \A s \in S : out.downs[s] = DownEvents(s, en.contact[s].tracking_id,
                        en.contact[s].current_x, en.contact[s].current_y,
                        en.memory[s].tool_type)
      /\ \A s \in Slots \ S : out.downs[s] = <<>> /\ out.contact[s] = en.contact[s]
      /\ \A s \in S : out.contact[s] = [en.contact[s] EXCEPT !.ownership = "Passthrough",
                                                             !.slider_anchor = None]
  BY <1>1 DEF PromoteClaimedContacts, EngineState
<1>4. ASSUME NEW s \in S
      PROVE  /\ out.contact[s].ownership = "Passthrough"
             /\ out.contact[s].tracking_id = ids[s] /\ ids[s] # None
             /\ en.contact[s].ownership \notin {"Passthrough", "Unknown"}
             /\ Puts(out.downs[s], s, ids[s], tools[s])
  <2>1. s \in Slots /\ CanPromote(en, s)
    OBVIOUS
  <2>2. en.contact[s] \in Contact /\ en.memory[s] \in Memory
    BY <1>1, <2>1, EngineFields
  <2>3. /\ en.contact[s].tracking_id \in Int /\ en.contact[s].current_x \in Int
        /\ en.contact[s].current_y \in Int /\ en.memory[s].tool_type \in Int
    BY <2>2, ContactFields DEF Memory
  <2>4. /\ ids[s] = en.contact[s].tracking_id /\ tools[s] = en.memory[s].tool_type
        /\ ids[s] # None /\ IsClaimed(en.contact[s])
    BY <2>1 DEF CanPromote, IsActive
  <2>5. \A c \in Contact : LET k == [c EXCEPT !.ownership = "Passthrough", !.slider_anchor = None]
                           IN k.ownership = "Passthrough" /\ k.tracking_id = c.tracking_id
    BY DEF Contact
  <2>6. /\ out.contact[s].ownership = "Passthrough"
        /\ out.contact[s].tracking_id = en.contact[s].tracking_id
    BY <1>3, <2>2, <2>5
  <2>7. out.downs[s] = DownEvents(s, en.contact[s].tracking_id,
                        en.contact[s].current_x, en.contact[s].current_y,
                        en.memory[s].tool_type)
    BY <1>3
  <2>8. en.contact[s].ownership \notin {"Passthrough", "Unknown"}
    BY <2>4 DEF IsClaimed, Zones
  <2> HIDE DEF out, ids, tools
  <2>9. Puts(out.downs[s], s, ids[s], tools[s])
    BY <2>1, <2>3, <2>4, <2>7, DownEventsPut
  <2> QED BY <2>4, <2>6, <2>8, <2>9
<1>5. \A s \in Slots : tools[s] = en.memory[s].tool_type
  OBVIOUS
<1>6. out.downs \in [Slots -> Seq(Event)] /\ S \in SUBSET Slots
  BY <1>2 DEF EngineState
<1> HIDE DEF out, S, ids, tools
<1>7. \A s \in S : d.ids[s] = None
  BY <1>1, <1>4, <1>6 DEF SlotShown, Passed
<1>8. /\ Addressed(AllDowns(out.downs)) /\ LandedAll(d, r, S, ids, tools)
  BY <1>1, <1>3, <1>4, <1>6, <1>7, DownsFollow
<1> HIDE DEF r
<1>9. ASSUME NEW s \in Slots PROVE SlotShown(r, out, none, s) /\ Waits(out, s)
  <2>1. CASE s \in S
    <3>1. r.ids[s] = ids[s] /\ (Labelled /\ tools[s] # None => r.tool[s] = tools[s])
      BY <1>8, <2>1 DEF LandedAll
    <3> QED BY <1>3, <1>4, <1>5, <2>1, <3>1 DEF SlotShown, Passed, Waits
  <2>2. CASE s \notin S
    <3>1. r.ids[s] = d.ids[s] /\ r.tool[s] = d.tool[s]
      BY <1>8, <2>2 DEF LandedAll
    <3>2. SlotShown(d, en, none, s) /\ Waits(en, s)
      BY <1>1
    <3>3. out.contact[s] = en.contact[s]
      BY <1>3, <2>2
    <3> QED BY <1>3, <3>1, <3>2, <3>3 DEF SlotShown, Passed, Waits
  <2> QED BY <2>1, <2>2
<1>10. Shown(r, out, none)
  <2>1. r \in Pads /\ Legal(r)
    BY <1>8 DEF LandedAll
  <2> QED BY <1>2, <1>3, <1>9, <2>1, ShownFirst DEF none
<1> QED BY <1>8, <1>10 DEF Ready, out, r

LEMMA PressReady ==
  ASSUME NEW d, NEW en, Shown(d, en, {}), en.passthrough = <<>>,
         \A s \in Slots : en.downs[s] = <<>>, NEW codes \in SUBSET Buttons
  PROVE  Ready(d, PressButtons(en, codes)) /\ PressButtons(en, codes).passthrough = <<>>
<1> DEFINE m == InterruptTapSequence(en)
           pressed == [m EXCEPT !.pressed = @ \cup codes]
<1>1. en \in EngineState
  BY DEF Shown
<1>2. m \in EngineState /\ Still(en, m)
  BY <1>1, InterruptType, InterruptStill
<1>3. Still(m, pressed)
  <2>1. m.pressed \cup codes \in SUBSET Buttons
    BY <1>2 DEF EngineState
  <2> HIDE DEF m
  <2>2. pressed \in EngineState /\ SameOutputs(m, pressed) /\ pressed.contact = m.contact
    BY <1>2, <2>1 DEF EngineState, SameOutputs
  <2> HIDE DEF pressed
  <2> QED BY <1>2, <2>2, StillContacts DEF SameOwned
<1> HIDE DEF m, pressed
<1>4. Still(en, pressed)
  BY <1>2, <1>3, StillOn
<1>5. /\ Shown(d, m, {}) /\ m.passthrough = <<>> /\ \A s \in Slots : m.downs[s] = <<>>
      /\ Shown(d, pressed, {}) /\ pressed.passthrough = <<>>
      /\ \A s \in Slots : pressed.downs[s] = <<>>
  BY <1>2, <1>4, ShownStill DEF Still
<1>6. Ready(d, en) /\ Ready(d, m) /\ Ready(d, PromoteClaimedContacts(pressed))
  BY <1>5, QuietReady, PromotedReady
<1>7. PromoteClaimedContacts(pressed).passthrough = <<>>
  <2>1. pressed \in EngineState
    BY <1>4 DEF Still
  <2> QED BY <1>5, <2>1 DEF PromoteClaimedContacts, EngineState
<1> QED BY <1>5, <1>6, <1>7 DEF PressButtons, m, pressed

LEMMA RestoredReady ==
  ASSUME NEW d \in Pads, Legal(d), \A s \in Slots : d.ids[s] = None,
         NEW en \in EngineState, en.passthrough = <<>>, NEW snapshot \in Snapshot
  PROVE  Ready(d, RestoreSnapshot(en, snapshot))
<1> DEFINE out == RestoreSnapshot(en, snapshot)
           S == SnapshotContacts(snapshot)
           seeded == SeededMemory(snapshot.memory)
           ids == snapshot.ids
           tools == [s \in Slots |-> seeded[s].tool_type]
           none == {}
           r == PadAfter(d, AllDowns(out.downs))
<1>1. out \in EngineState /\ S \in SUBSET Slots
  BY RestoreType DEF SnapshotContacts
<1>2. seeded \in [Slots -> Memory]
  BY SeededMemoryType DEF Snapshot
<1>3. /\ out.memory = seeded /\ out.passthrough = <<>>
      /\ \A s \in Slots : out.held_events[s] = <<>>
      /\ \A s \in S : out.downs[s] = DownEvents(s, ids[s], seeded[s].x, seeded[s].y,
                                                seeded[s].tool_type)
      /\ \A s \in S : out.contact[s] = RestoredContact(ids[s], seeded[s].x, seeded[s].y,
                                                       seeded[s].tool_type)
      /\ \A s \in Slots \ S : out.downs[s] = <<>> /\ out.contact[s] = NoContact
  <2> HIDE DEF seeded
  <2> QED BY <1>1 DEF RestoreSnapshot, ResetForResync, EngineState, seeded
<1>4. ASSUME NEW s \in S
      PROVE  /\ out.contact[s].ownership = "Passthrough"
             /\ out.contact[s].tracking_id = ids[s]
             /\ Puts(out.downs[s], s, ids[s], tools[s])
  <2> DEFINE x == seeded[s].x
             y == seeded[s].y
             tool == seeded[s].tool_type
             id == ids[s]
  <2>1. /\ s \in Slots /\ id \in TrackingIds \cup {None} /\ id \in Int /\ id # None
        /\ x \in Int /\ y \in Int /\ tool \in Int /\ tools[s] = tool
    BY <1>1, SnapshotParts DEF SnapshotContacts
  <2>2. /\ out.downs[s] = DownEvents(s, id, x, y, tool)
        /\ out.contact[s] = RestoredContact(id, x, y, tool)
    BY <1>3
  <2> HIDE DEF x, y, tool, out, id, tools
  <2>3. /\ out.contact[s].ownership = "Passthrough" /\ out.contact[s].tracking_id = id
    BY <2>1, <2>2, RestoredContactType
  <2>4. Puts(out.downs[s], s, id, tool)
    BY <2>1, <2>2, DownEventsPut
  <2> QED BY <2>1, <2>3, <2>4 DEF id
<1>5. \A s \in Slots : tools[s] = out.memory[s].tool_type
  <2> HIDE DEF seeded, out
  <2> QED BY <1>3
<1>6. out.downs \in [Slots -> Seq(Event)]
  BY <1>1 DEF EngineState
<1>7. \A s \in Slots \ S : Waits(out, s) /\ ~Passed(out, s)
  <2> HIDE DEF out, S
  <2> TAKE s \in Slots \ S
  <2>1. /\ out.contact[s].tracking_id = None /\ out.contact[s].ownership = "Unknown"
        /\ out.held_events[s] = <<>>
    BY <1>3, NoContactFields
  <2> QED BY <2>1, LandsNothing DEF Waits, Passed
<1> HIDE DEF out, S, ids, tools, seeded
<1>8. /\ Addressed(AllDowns(out.downs)) /\ LandedAll(d, r, S, ids, tools)
  BY <1>1, <1>3, <1>4, <1>6, DownsFollow
<1> HIDE DEF r
<1>9. ASSUME NEW s \in Slots PROVE SlotShown(r, out, none, s) /\ Waits(out, s)
  <2>1. CASE s \in S
    <3>1. r.ids[s] = ids[s] /\ (Labelled /\ tools[s] # None => r.tool[s] = tools[s])
      BY <1>8, <2>1 DEF LandedAll
    <3> QED BY <1>3, <1>4, <1>5, <2>1, <3>1 DEF SlotShown, Passed, Waits
  <2>2. CASE s \notin S
    <3>1. r.ids[s] = None
      BY <1>8, <2>2 DEF LandedAll
    <3> QED BY <1>7, <2>2, <3>1 DEF SlotShown
  <2> QED BY <2>1, <2>2
<1>10. Shown(r, out, none)
  <2>1. r \in Pads /\ Legal(r)
    BY <1>8 DEF LandedAll
  <2> QED BY <1>1, <1>3, <1>9, <2>1, ShownFirst DEF none
<1> QED BY <1>8, <1>10 DEF Ready, out, r

-----------------------------------------------------------------------------
(* The labels, as a frame's events give them.                              *)

\* From event i on, slot s gets no label.
NoToolFrom(k, evs, i, s) == \A j \in Rest(evs, i) : ~ToolTypeAt(k, evs, j, s)

\* The labels known to hold after the frame: a slot's last one in it is that.
LastsAre(k, evs, known) ==
  \A s \in Slots, j \in DOMAIN evs :
    ToolTypeAt(k, evs, j, s) /\ NoToolFrom(k, evs, j + 1, s) => evs[j].value = known[s]

\* Before event i, the labels that no later event changes are those.
ToolsAt(k, evs, i, t, known) ==
  \A s \in Slots : NoToolFrom(k, evs, i, s) => t[s] = known[s]

\* The prepass has given the contacts that began in the first n events their
\* labels, where no later event changes them.
DownsKnown(k, evs, n, contacts, known) ==
  \A i \in DOMAIN evs, s \in Slots, id \in TrackingIds :
    i <= n /\ BeginsAt(k, evs, i, s, id) /\ NoToolFrom(k, evs, i, s) =>
      contacts[s][id].tool_type = known[s]

LEMMA NoToolNext ==
  ASSUME NEW k, NEW evs \in Seq(Event), NEW i \in DOMAIN evs, NEW s
  PROVE  NoToolFrom(k, evs, i, s) <=> ~ToolTypeAt(k, evs, i, s) /\ NoToolFrom(k, evs, i + 1, s)
<1> DEFINE j == i + 1
<1>1. Rest(evs, i) = {i} \cup Rest(evs, j)
  BY RestNext
<1> HIDE DEF j
<1>2. NoToolFrom(k, evs, i, s) <=> ~ToolTypeAt(k, evs, i, s) /\ NoToolFrom(k, evs, j, s)
  BY <1>1 DEF NoToolFrom
<1> QED BY <1>2 DEF j

LEMMA NoToolLater ==
  ASSUME NEW k, NEW evs \in Seq(Event), NEW i \in Int, NEW n \in DOMAIN evs, i <= n, NEW s,
         NoToolFrom(k, evs, i, s)
  PROVE  NoToolFrom(k, evs, n, s) /\ ~ToolTypeAt(k, evs, n, s)
<1>1. Rest(evs, n) \subseteq Rest(evs, i) /\ n \in Rest(evs, n)
  BY DEF Rest
<1> QED BY <1>1 DEF NoToolFrom

LEMMA ToolsOn ==
  ASSUME NEW k, NEW evs \in Seq(Event), NEW i \in DOMAIN evs, NEW known, NEW t, NEW u,
         LastsAre(k, evs, known), ToolsAt(k, evs, i, t, known),
         \A s \in Slots :
           IF ToolTypeAt(k, evs, i, s) THEN u[s] = evs[i].value
           ELSE u[s] = t[s] \/ (NoToolFrom(k, evs, i, s) => u[s] = known[s])
  PROVE  ToolsAt(k, evs, i + 1, u, known)
<1> SUFFICES ASSUME NEW s \in Slots, NoToolFrom(k, evs, i + 1, s) PROVE u[s] = known[s]
  BY DEF ToolsAt
<1>1. CASE ToolTypeAt(k, evs, i, s)
  BY <1>1 DEF LastsAre
<1>2. CASE ~ToolTypeAt(k, evs, i, s)
  <2>1. NoToolFrom(k, evs, i, s)
    BY <1>2, NoToolNext
  <2> QED BY <1>2, <2>1 DEF ToolsAt
<1> QED BY <1>1, <1>2

LEMMA DownsOn ==
  ASSUME NEW k, NEW evs \in Seq(Event), NEW n \in DOMAIN evs, NEW known, NEW t,
         NEW contacts, NEW later,
         ToolsAt(k, evs, n, t, known), DownsKnown(k, evs, n - 1, contacts, known),
         \A s \in Slots, id \in TrackingIds :
           /\ BeginsAt(k, evs, n, s, id) => later[s][id].tool_type = t[s]
           /\ ~BeginsAt(k, evs, n, s, id) /\ ~ToolTypeAt(k, evs, n, s) =>
                later[s][id].tool_type = contacts[s][id].tool_type
  PROVE  DownsKnown(k, evs, n, later, known)
<1> SUFFICES ASSUME NEW i \in DOMAIN evs, NEW s \in Slots, NEW id \in TrackingIds,
                    i <= n, BeginsAt(k, evs, i, s, id), NoToolFrom(k, evs, i, s)
             PROVE  later[s][id].tool_type = known[s]
  BY DEF DownsKnown
<1>0. i \in Int /\ n \in Int
  OBVIOUS
<1>1. NoToolFrom(k, evs, n, s) /\ ~ToolTypeAt(k, evs, n, s)
  BY <1>0, NoToolLater
<1>2. t[s] = known[s]
  BY <1>1 DEF ToolsAt
<1>3. CASE BeginsAt(k, evs, n, s, id)
  BY <1>2, <1>3
<1>4. CASE ~BeginsAt(k, evs, n, s, id)
  <2>1. i <= n - 1
    <3>1. i # n
      BY <1>4
    <3> QED BY <1>0, <3>1
  <2>2. contacts[s][id].tool_type = known[s]
    BY <2>1 DEF DownsKnown
  <2> QED BY <1>1, <1>4, <2>2
<1> QED BY <1>3, <1>4

LEMMA NoToolAtEnd ==
  ASSUME NEW k, NEW evs \in Seq(Event), NEW i \in Int, i > Len(evs), NEW s
  PROVE  NoToolFrom(k, evs, i, s)
BY DEF NoToolFrom, Rest

\* What a frame's labels are after it.
LEMMA LabelsGiven ==
  ASSUME NEW evs \in Seq(Event), NEW s \in Slots
  PROVE  LabelsAfter(evs)[s] = ToolFrom(kernel, labels, evs, Len(evs), s)
<1> DEFINE given == {i \in DOMAIN evs : evs[i].kind = "ToolType" /\ SlotAt(evs, i) = s}
           tools == {j \in 1..Len(evs) : evs[j].kind = "ToolType" /\ SlotFrom(kernel, evs, j) = s}
<1>1. given = tools
  <2>1. \A i : SlotAt(evs, i) = SlotFrom(kernel, evs, i)
    BY SlotAsFrom
  <2> QED BY <2>1
<1> QED BY <1>1 DEF LabelsAfter, ToolFrom

LEMMA LabelsFollowTools ==
  ASSUME NEW evs \in Seq(Event)
  PROVE  /\ LastsAre(kernel, evs, LabelsAfter(evs))
         /\ ToolsAt(kernel, evs, 1, labels, LabelsAfter(evs))
<1> DEFINE n == Len(evs)
           known == LabelsAfter(evs)
<1>0. n \in Nat /\ DOMAIN evs = 1..n
  OBVIOUS
<1>1. \A s \in Slots : known[s] = ToolFrom(kernel, labels, evs, n, s)
  BY LabelsGiven
<1> HIDE DEF n, known
<1>2. ASSUME NEW s \in Slots, NEW j \in 1..n,
             ToolTypeAt(kernel, evs, j, s), NoToolFrom(kernel, evs, j + 1, s)
      PROVE  evs[j].value = known[s]
  <2>1. \A i \in 1..n : i > j => ~ToolTypeAt(kernel, evs, i, s)
    BY <1>0, <1>2 DEF NoToolFrom, Rest
  <2> QED BY <1>0, <1>1, <1>2, <2>1, LastTool
<1>3. ASSUME NEW s \in Slots, NoToolFrom(kernel, evs, 1, s) PROVE labels[s] = known[s]
  <2>1. \A i \in 1..n : ~ToolTypeAt(kernel, evs, i, s)
    BY <1>0, <1>3 DEF NoToolFrom, Rest
  <2> QED BY <1>0, <1>1, <2>1, NoTools
<1>4. LastsAre(kernel, evs, known) /\ ToolsAt(kernel, evs, 1, labels, known)
  BY <1>0, <1>2, <1>3 DEF LastsAre, ToolsAt
<1> QED BY <1>4 DEF known

KernelState == [slot : Slots, ids : [Slots -> TrackingIds \cup {None}]]

\* A lift is of a contact, and lost events are reported on their own.
LiftsContacts(k, evs) ==
  \A i \in DOMAIN evs : evs[i].kind = "TrackingId" /\ evs[i].value = None =>
    IdFrom(k, evs, i - 1, SlotFrom(k, evs, i)) # None
Tells(k, evs) == LiftsContacts(k, evs) /\ DropIsAlone(evs)
NoDrop(evs) == \A i \in DOMAIN evs : evs[i].kind # "SynDropped"

MemTools == [s \in Slots |-> e.memory[s].tool_type]

ScanFollows ==
  LET evs == frame.events
  IN /\ Tells(kernel, evs)
     /\ PalmRejection =>
          /\ LastsAre(kernel, evs, labels)
          /\ ToolsAt(kernel, evs, 1, MemTools, labels)
          /\ NoDrop(evs) =>
               /\ scan.slot = SlotFrom(kernel, evs, at - 1)
               /\ ToolsAt(kernel, evs, at, scan.tools, labels)
               /\ DownsKnown(kernel, evs, at - 1, scan.contacts, labels)

\* The frame began with the kernel in state k.
EventsFollow(k) ==
  LET evs == frame.events
  IN /\ kernel.slot = SlotFrom(k, evs, at - 1)
     /\ \A s \in Slots : kernel.ids[s] = IdFrom(k, evs, at - 1, s)
     /\ Tells(k, evs)
     /\ PalmRejection =>
          /\ LastsAre(k, evs, labels)
          /\ ToolsAt(k, evs, at, MemTools, labels)
          /\ DownsKnown(k, evs, Len(evs), scan.contacts, labels)

MemoryFollows == PalmRejection => \A s \in Slots : e.memory[s].tool_type = labels[s]

LabelInv ==
  Live => /\ phase = "scan" => ScanFollows
          /\ phase = "events" => \E k \in KernelState : EventsFollow(k)
          /\ phase \in {"idle", "finalize"} => MemoryFollows

\* What the prepass makes of one event.
LEMMA ScanStep ==
  ASSUME TypeInv, ScanEvent, phase' # "error", frame.events[at].kind # "SynDropped"
  PROVE  LET ev == frame.events[at]
             s == scan.slot
         IN /\ at \in DOMAIN frame.events /\ at' = at + 1
            /\ UNCHANGED <<e, phase, frame, kernel>>
            /\ scan'.slot = IF ev.kind = "Slot" THEN ev.value ELSE s
            /\ \A q \in Slots :
                 scan'.tools[q] = IF ev.kind = "ToolType" /\ q = s THEN ev.value
                                  ELSE scan.tools[q]
            /\ \A q \in Slots, id \in TrackingIds :
                 /\ ev.kind = "TrackingId" /\ ev.value = id /\ q = s =>
                      scan'.contacts[q][id].tool_type = scan.tools[q]
                 /\ ~(ev.kind = "TrackingId" /\ ev.value = id /\ q = s)
                    /\ ~(ev.kind = "ToolType" /\ q = s) =>
                      scan'.contacts[q][id].tool_type = scan.contacts[q][id].tool_type
<1> DEFINE ev == frame.events[at]
           s == scan.slot
           id == scan.ids[s]
<1>1. at \in DOMAIN frame.events
  BY DEF ScanEvent, TypeInv, TypeOK, FrameInHand, Frame
<1>2. /\ ev \in Event /\ EventInRange(ev)
  BY <1>1, EventsInRange
<1>3. /\ scan.slot \in Slots /\ scan.tools \in [Slots -> Int]
      /\ scan.ids \in [Slots -> TrackingIds \cup {None}]
      /\ scan.contacts \in [Slots -> [TrackingIds -> FrameTool]]
      /\ scan \in [ slot : Slots, tools : [Slots -> Int],
               ids : [Slots -> TrackingIds \cup {None}],
               contacts : [Slots -> [TrackingIds -> FrameTool]] ]
  BY DEF TypeInv, TypeOK
<1>4. None \notin TrackingIds
  BY IdsAssumption DEF None
<1>5. at' = at + 1 /\ UNCHANGED <<e, phase, frame, kernel>>
  BY DEF ScanEvent, Fail
<1>6. CASE ev.kind = "Slot"
  <2>1. scan' = [scan EXCEPT !.slot = ev.value]
    BY <1>6 DEF ScanEvent, Fail
  <2> QED BY <1>1, <1>3, <1>5, <1>6, <2>1
<1>7. CASE ev.kind = "TrackingId" /\ ev.value = None
  <2>1. scan' = [scan EXCEPT !.ids[s] = None]
    BY <1>7 DEF ScanEvent, Fail
  <2> QED BY <1>1, <1>3, <1>4, <1>5, <1>7, <2>1
<1>8. CASE ev.kind = "TrackingId" /\ ev.value # None
  <2>1. scan' = [scan EXCEPT !.ids[s] = ev.value,
                   !.contacts[s][ev.value] = [tool_type |-> scan.tools[s],
                                              palm_reported |-> FALSE]]
    BY <1>8 DEF ScanEvent, Fail
  <2>2. ev.value \in TrackingIds
    BY <1>2, <1>8 DEF EventInRange
  <2> QED BY <1>1, <1>3, <1>5, <1>8, <2>1, <2>2
<1>9. CASE ev.kind = "ToolType"
  <2>1. /\ scan'.slot = scan.slot /\ scan'.tools = [scan.tools EXCEPT ![s] = ev.value]
        /\ \A q \in Slots \ {s} : scan'.contacts[q] = scan.contacts[q]
    <3>1. CASE id = None
      <4>1. scan' = [scan EXCEPT !.tools[s] = ev.value]
        BY <1>9, <3>1 DEF ScanEvent, Fail
      <4> QED BY <1>3, <4>1
    <3>2. CASE id # None
      <4> DEFINE tool == [tool_type |-> ev.value,
                          palm_reported |-> \/ scan.contacts[s][id].palm_reported
                                            \/ ev.value = PalmTool]
      <4>1. scan' = [scan EXCEPT !.tools[s] = ev.value, !.contacts[s][id] = tool]
        BY <1>9, <3>2 DEF ScanEvent, Fail
      <4> HIDE DEF tool
      <4> QED BY <1>3, <4>1
    <3> QED BY <3>1, <3>2
  <2> QED BY <1>1, <1>3, <1>5, <1>9, <2>1
<1>10. CASE ev.kind \notin {"Slot", "TrackingId", "ToolType"}
  <2>1. scan' = scan
    BY <1>10 DEF ScanEvent, Fail
  <2> QED BY <1>1, <1>3, <1>5, <1>10, <2>1
<1> QED BY <1>6, <1>7, <1>8, <1>9, <1>10

LEMMA ScanLabels ==
  ASSUME TypeInv, ScanFollows, ScanEvent, phase' # "error", labels' = labels
  PROVE  ScanFollows'
<1> DEFINE evs == frame.events
           ev == evs[at]
           i == at + 1
<1>0. UNCHANGED <<e, phase, frame, kernel>> /\ at' = i /\ at \in DOMAIN evs
      /\ evs \in Seq(Event) /\ at \in Nat \ {0} /\ i - 1 = at
  BY DEF ScanEvent, Fail, TypeInv, TypeOK, Frame, FrameInHand
<1>1. SUFFICES ASSUME PalmRejection, NoDrop(evs)
               PROVE  /\ scan'.slot = SlotFrom(kernel, evs, at)
                      /\ ToolsAt(kernel, evs, i, scan'.tools, labels)
                      /\ DownsKnown(kernel, evs, at, scan'.contacts, labels)
  BY <1>0 DEF ScanFollows, MemTools
<1>2. ev.kind # "SynDropped"
  BY <1>0, <1>1 DEF NoDrop
<1>3. /\ scan.slot = SlotFrom(kernel, evs, at - 1)
      /\ ToolsAt(kernel, evs, at, scan.tools, labels)
      /\ DownsKnown(kernel, evs, at - 1, scan.contacts, labels)
      /\ LastsAre(kernel, evs, labels)
  BY <1>1 DEF ScanFollows
<1>4. SlotFrom(kernel, evs, at) = IF ev.kind = "Slot" THEN ev.value ELSE scan.slot
  BY <1>0, <1>3, SlotNext
<1>5. scan'.slot = SlotFrom(kernel, evs, at)
  BY <1>2, <1>4, ScanStep
<1>6. \A q \in Slots : scan'.tools[q] = IF ToolTypeAt(kernel, evs, at, q) THEN ev.value
                                        ELSE scan.tools[q]
  BY <1>2, <1>4, ScanStep DEF ToolTypeAt
<1>7. \A q \in Slots, id \in TrackingIds :
        /\ BeginsAt(kernel, evs, at, q, id) =>
             scan'.contacts[q][id].tool_type = scan.tools[q]
        /\ ~BeginsAt(kernel, evs, at, q, id) /\ ~ToolTypeAt(kernel, evs, at, q) =>
             scan'.contacts[q][id].tool_type = scan.contacts[q][id].tool_type
  BY <1>2, <1>4, ScanStep DEF ToolTypeAt, BeginsAt
<1> DEFINE t == scan.tools
           u == scan'.tools
           contacts == scan.contacts
           later == scan'.contacts
<1> HIDE DEF evs, t, u, contacts, later
<1>8. ToolsAt(kernel, evs, at + 1, u, labels)
  BY <1>0, <1>3, <1>6, ToolsOn DEF t, u
<1>9. DownsKnown(kernel, evs, at, later, labels)
  BY <1>0, <1>3, <1>7, DownsOn DEF t, contacts, later
<1> QED BY <1>5, <1>8, <1>9 DEF u, later

LEMMA ConformTells ==
  ASSUME NEW evs \in Seq(Event), Conforms(evs)
  PROVE  Tells(kernel, evs)
<1>1. ASSUME NEW i \in DOMAIN evs, evs[i].kind = "TrackingId", evs[i].value = None
      PROVE  IdFrom(kernel, evs, i - 1, SlotFrom(kernel, evs, i)) # None
  <2>1. IdAfter(evs, i - 1, SlotAt(evs, i)) # None
    BY <1>1 DEF Conforms
  <2> QED BY <2>1, SlotAsFrom
<1>2. ASSUME NEW i \in DOMAIN evs, evs[i].kind = "SynDropped" PROVE Len(evs) = 1
  BY <1>2 DEF Conforms
<1> QED BY <1>1, <1>2 DEF Tells, LiftsContacts, DropIsAlone

LEMMA GoodFramesConform ==
  ASSUME NEW f \in Frames \cup OddFrames, NEW t \in Stamps, StartFrame(f, t), ~Bad'
  PROVE  Conforms(f.events)
<1>1. frame' = f /\ (f \in OddFrames \/ Conforms(f.events))
  BY DEF StartFrame
<1>2. f \notin OddFrames
  BY <1>1, OddFramesAssumption DEF Bad, Odd
<1> QED BY <1>1, <1>2

LEMMA StartLabels ==
  ASSUME TypeInv, Mirror, MemoryFollows, NEW f \in Frames \cup OddFrames, NEW t \in Stamps,
         StartFrame(f, t), ~Bad', labels' = LabelsAfter(f.events)
  PROVE  ScanFollows'
<1> DEFINE evs == f.events
           known == LabelsAfter(evs)
           en == PressButtons(e, Codes(f.buttons, TRUE))
           one == 1
           tools == [s \in Slots |-> e.memory[s].tool_type]
<1>0. evs \in Seq(Event)
  BY FrameButtons
<1>1. /\ frame' = f /\ kernel' = kernel /\ e' = en
      /\ PalmRejection => scan' = StartScan(en) /\ at' = one
  BY DEF StartFrame
<1>2. e'.memory = e.memory /\ e'.current_slot = e.current_slot
  BY StartView
<1>3. Tells(kernel, evs)
  BY <1>0, GoodFramesConform, ConformTells
<1>4. LastsAre(kernel, evs, known) /\ ToolsAt(kernel, evs, one, labels, known)
  BY <1>0, LabelsFollowTools
<1>5. ASSUME PalmRejection
      PROVE  /\ ToolsAt(kernel, evs, one, tools, known)
             /\ MemTools' = tools
             /\ scan'.slot = SlotFrom(kernel, evs, at' - 1)
             /\ scan'.tools = tools
             /\ DownsKnown(kernel, evs, at' - 1, scan'.contacts, known)
  <2>1. \A s \in Slots : tools[s] = labels[s]
    BY <1>5 DEF MemoryFollows
  <2>2. ToolsAt(kernel, evs, one, tools, known)
    <3> HIDE DEF tools, one, known, evs
    <3> QED BY <1>4, <2>1 DEF ToolsAt
  <2>3. MemTools' = tools
    BY <1>2 DEF MemTools
  <2>4. scan'.slot = e.current_slot /\ scan'.tools = tools
    <3>1. scan' = StartScan(e')
      BY <1>1, <1>5
    <3>2. StartScan(e').slot = e'.current_slot
          /\ StartScan(e').tools = [s \in Slots |-> e'.memory[s].tool_type]
      BY DEF StartScan
    <3> QED BY <1>2, <3>1, <3>2
  <2>5. at' - 1 = 0
    BY <1>1, <1>5
  <2>6. SlotFrom(kernel, evs, 0) = kernel.slot
    BY NoneYet
  <2>7. scan'.slot = SlotFrom(kernel, evs, at' - 1)
    BY <2>4, <2>5, <2>6 DEF Mirror
  <2>8. DownsKnown(kernel, evs, at' - 1, scan'.contacts, known)
    <3>1. \A i \in DOMAIN evs : ~(i <= 0)
      BY <1>0
    <3> QED BY <2>5, <3>1 DEF DownsKnown
  <2> QED BY <2>2, <2>3, <2>4, <2>7, <2>8
<1>6. frame'.events = evs /\ labels' = known /\ (PalmRejection => at' = one)
  BY <1>1
<1> HIDE DEF evs, known, one, tools
<1>7. PalmRejection =>
        /\ LastsAre(kernel, evs, known)
        /\ ToolsAt(kernel, evs, one, MemTools', known)
        /\ scan'.slot = SlotFrom(kernel, evs, at' - 1)
        /\ ToolsAt(kernel, evs, at', scan'.tools, known)
        /\ DownsKnown(kernel, evs, at' - 1, scan'.contacts, known)
  BY <1>4, <1>5, <1>6
<1> QED BY <1>1, <1>3, <1>6, <1>7 DEF ScanFollows, one

LEMMA BeginLabels ==
  ASSUME TypeInv, ScanFollows, BeginEvents, labels' = labels
  PROVE  EventsFollow(kernel)'
<1> DEFINE evs == frame.events
<1>0. /\ evs \in Seq(Event) /\ at \in Int /\ at > Len(evs)
      /\ frame' = frame /\ kernel' = kernel /\ scan' = scan /\ at' = 1 /\ at' - 1 = 0
  BY DEF BeginEvents, TypeInv, TypeOK, Frame
<1>1. MemTools' = MemTools
  BY BeginEventsView DEF SameSettings, MemTools
<1>2. /\ SlotFrom(kernel, evs, 0) = kernel.slot
      /\ \A s \in Slots : IdFrom(kernel, evs, 0, s) = kernel.ids[s]
  BY NoneYet
<1>3. ASSUME PalmRejection PROVE DownsKnown(kernel, evs, Len(evs), scan.contacts, labels)
  <2>1. CASE NoDrop(evs)
    <3>1. DownsKnown(kernel, evs, at - 1, scan.contacts, labels)
      BY <1>3, <2>1 DEF ScanFollows
    <3>2. \A i \in DOMAIN evs : i <= at - 1
      BY <1>0
    <3> QED BY <3>1, <3>2 DEF DownsKnown
  <2>2. CASE ~NoDrop(evs)
    <3>1. PICK j \in DOMAIN evs : evs[j].kind = "SynDropped"
      BY <2>2 DEF NoDrop
    <3>2. Len(evs) = 1
      BY <3>1 DEF ScanFollows, Tells, DropIsAlone
    <3>3. \A i \in DOMAIN evs : i = j
      BY <1>0, <3>2
    <3>4. \A i \in DOMAIN evs : evs[i].kind # "TrackingId"
      BY <3>1, <3>3
    <3> QED BY <3>4 DEF DownsKnown, BeginsAt
  <2> QED BY <2>1, <2>2
<1>4. Tells(kernel, evs) /\ (PalmRejection =>
        LastsAre(kernel, evs, labels) /\ ToolsAt(kernel, evs, 1, MemTools, labels))
  BY DEF ScanFollows
<1> QED BY <1>0, <1>1, <1>2, <1>3, <1>4 DEF EventsFollow

\* One event, whatever kind it is of.
LEMMA EventLabels ==
  ASSUME TypeInv, NEW k, EventsFollow(k), NEW kind, AtEvent(kind),
         at' = at + 1, frame' = frame, scan' = scan, labels' = labels,
         kernel'.slot = IF kind = "Slot" THEN CurrentEvent.value ELSE kernel.slot,
         \A s \in Slots :
           kernel'.ids[s] = IF kind = "TrackingId" /\ s = kernel.slot THEN CurrentEvent.value
                            ELSE kernel.ids[s],
         PalmRejection => \A s \in Slots :
           IF kind = "ToolType" /\ s = kernel.slot
           THEN e'.memory[s].tool_type = CurrentEvent.value
           ELSE \/ e'.memory[s].tool_type = e.memory[s].tool_type
                \/ /\ kind = "TrackingId" /\ s = kernel.slot
                   /\ CurrentEvent.value \in TrackingIds
                   /\ e'.memory[s].tool_type = scan.contacts[s][CurrentEvent.value].tool_type
  PROVE  EventsFollow(k)'
<1> DEFINE evs == frame.events
           ev == evs[at]
           i == at + 1
           t == MemTools
           u == MemTools'
           n == Len(evs)
<1>0. /\ evs \in Seq(Event) /\ at \in DOMAIN evs /\ at \in Nat \ {0} /\ i - 1 = at
      /\ ev.kind = kind /\ CurrentEvent = ev /\ at <= n
  BY EventInHand DEF AtEvent, CurrentEvent, TypeInv, TypeOK, Frame
<1>1. /\ kernel.slot = SlotFrom(k, evs, at - 1)
      /\ \A s \in Slots : kernel.ids[s] = IdFrom(k, evs, at - 1, s)
      /\ Tells(k, evs)
  BY DEF EventsFollow
<1>2. SlotFrom(k, evs, at) = IF ev.kind = "Slot" THEN ev.value ELSE kernel.slot
  BY <1>0, <1>1, SlotNext
<1>3. kernel'.slot = SlotFrom(k, evs, at)
  BY <1>0, <1>2
<1>4. \A s \in Slots : IdFrom(k, evs, at, s) =
        IF ev.kind = "TrackingId" /\ SlotFrom(k, evs, at) = s THEN ev.value ELSE kernel.ids[s]
  <2>1. \A s : IdFrom(k, evs, at, s) =
          IF evs[at].kind = "TrackingId" /\ SlotFrom(k, evs, at) = s
          THEN evs[at].value ELSE IdFrom(k, evs, at - 1, s)
    <3>0. at \in Nat \ {0}
      BY <1>0
    <3> HIDE DEF evs
    <3> QED BY <3>0, IdNext
  <2> QED BY <1>1, <2>1
<1>5. \A s \in Slots : kernel'.ids[s] = IdFrom(k, evs, at, s)
  BY <1>0, <1>2, <1>4
<1>6. ASSUME PalmRejection
      PROVE  /\ LastsAre(k, evs, labels)
             /\ ToolsAt(k, evs, i, u, labels)
             /\ DownsKnown(k, evs, n, scan.contacts, labels)
  <2>1. /\ LastsAre(k, evs, labels) /\ ToolsAt(k, evs, at, t, labels)
        /\ DownsKnown(k, evs, n, scan.contacts, labels)
    BY <1>6 DEF EventsFollow
  <2>2. \A s \in Slots : t[s] = e.memory[s].tool_type /\ u[s] = e'.memory[s].tool_type
    BY DEF MemTools
  <2> HIDE DEF t, u
  <2>3. ASSUME NEW s \in Slots
        PROVE  IF ToolTypeAt(k, evs, at, s) THEN u[s] = ev.value
               ELSE u[s] = t[s] \/ (NoToolFrom(k, evs, at, s) => u[s] = labels[s])
    <3>1. CASE ToolTypeAt(k, evs, at, s)
      BY <1>0, <1>2, <1>6, <2>2, <3>1 DEF ToolTypeAt
    <3>2. CASE ~ToolTypeAt(k, evs, at, s)
      <4>1. ~(kind = "ToolType" /\ s = kernel.slot)
        BY <1>0, <1>2, <3>2 DEF ToolTypeAt
      <4>2. CASE e'.memory[s].tool_type = e.memory[s].tool_type
        BY <2>2, <3>2, <4>2
      <4>3. CASE /\ kind = "TrackingId" /\ s = kernel.slot
                 /\ CurrentEvent.value \in TrackingIds
                 /\ e'.memory[s].tool_type = scan.contacts[s][CurrentEvent.value].tool_type
        <5>1. BeginsAt(k, evs, at, s, ev.value) /\ ev.value \in TrackingIds
          BY <1>0, <1>2, <4>3 DEF BeginsAt
        <5>2. NoToolFrom(k, evs, at, s) => scan.contacts[s][ev.value].tool_type = labels[s]
          BY <1>0, <2>1, <5>1 DEF DownsKnown
        <5> QED BY <1>0, <2>2, <3>2, <4>3, <5>2
      <4> QED BY <1>6, <4>1, <4>2, <4>3
    <3> QED BY <3>1, <3>2
  <2>4. ToolsAt(k, evs, at + 1, u, labels)
    <3> HIDE DEF evs
    <3> QED BY <1>0, <2>1, <2>3, ToolsOn
  <2> QED BY <2>1, <2>4
<1>7. frame'.events = evs /\ at' = i
  OBVIOUS
<1> HIDE DEF evs, i, n
<1> QED BY <1>0, <1>1, <1>3, <1>5, <1>6, <1>7 DEF EventsFollow, n

LEMMA SeededTools ==
  ASSUME NEW memory, NEW s \in Slots, PalmRejection
  PROVE  SeededMemory(memory)[s].tool_type = memory[s].tool_type
BY DEF SeededMemory

LEMMA InitLabels == PInit => LabelInv
<1> SUFFICES ASSUME PInit PROVE LabelInv
  OBVIOUS
<1>1. PICK cfg \in Configs : e = NewEngine(cfg, SeededMemory(StartMemory))
  BY DEF PInit, Init
<1>2. e.memory = SeededMemory(StartMemory)
  BY <1>1 DEF NewEngine
<1>3. MemoryFollows
  BY <1>2, SeededTools DEF PInit, MemoryFollows
<1> QED BY <1>3 DEF PInit, Init, LabelInv

\* The kernel's state, and the labels, in the middle of a frame.
LEMMA EventStepLabels ==
  ASSUME TypeInv, FlagsInv, Mirror, LabelInv, FrameStep, phase = "events", phase' = "events",
         Live', labels' = labels
  PROVE  LabelInv'
<1>0. /\ e \in EngineState /\ kernel \in [slot : Slots, ids : [Slots -> TrackingIds \cup {None}]]
      /\ e.current_slot = kernel.slot /\ kernel.slot \in Slots
  BY DEF TypeInv, TypeOK, Mirror
<1>1. PICK k \in KernelState : EventsFollow(k)
  BY LiveBack DEF LabelInv
<1> SUFFICES EventsFollow(k)'
  BY DEF LabelInv
<1>2. CASE SlotSwitch
  <2>1. CurrentEvent.value \in Slots /\ AtEvent("Slot")
    BY <1>2 DEF SlotSwitch, Fail
  <2>2. /\ at' = at + 1 /\ frame' = frame /\ scan' = scan
        /\ kernel' = [kernel EXCEPT !.slot = CurrentEvent.value]
    BY <1>2, <2>1 DEF SlotSwitch, Processed
  <2>3. e'.memory = e.memory
    BY <1>2, <2>1, SwitchView
  <2>4. kernel'.slot = CurrentEvent.value /\ kernel'.ids = kernel.ids
    BY <1>0, <2>2
  <2> DEFINE kind == "Slot"
  <2>5. /\ AtEvent(kind) /\ kind = "Slot" /\ kind # "TrackingId" /\ kind # "ToolType"
    BY <2>1
  <2> HIDE DEF kind
  <2> QED BY <1>1, <2>2, <2>3, <2>4, <2>5, EventLabels
<1>3. CASE ContactDown
  <2>1. ~IsActive(e, e.current_slot) /\ AtEvent("TrackingId")
    BY <1>3 DEF ContactDown, Fail
  <2>2. /\ at' = at + 1 /\ frame' = frame /\ scan' = scan
        /\ kernel' = [kernel EXCEPT !.ids[kernel.slot] = CurrentEvent.value]
    BY <1>3, <2>1 DEF ContactDown, Processed
  <2>3. /\ CurrentEvent.value \in TrackingIds
        /\ \A r \in Slots \ {kernel.slot} : e'.memory[r] = e.memory[r]
        /\ e'.memory[kernel.slot].tool_type =
             scan.contacts[kernel.slot][CurrentEvent.value].tool_type
    BY <1>0, <1>3, <2>1, DownView
  <2>4. /\ kernel'.slot = kernel.slot
        /\ \A s \in Slots : kernel'.ids[s] = IF s = kernel.slot THEN CurrentEvent.value
                                             ELSE kernel.ids[s]
    BY <1>0, <2>2
  <2> DEFINE kind == "TrackingId"
  <2>5. /\ AtEvent(kind) /\ kind = "TrackingId" /\ kind # "Slot" /\ kind # "ToolType"
    BY <2>1
  <2> HIDE DEF kind
  <2> QED BY <1>1, <2>2, <2>3, <2>4, <2>5, EventLabels
<1>4. CASE ContactUp
  <2>1. AtEvent("TrackingId") /\ CurrentEvent.value = None
    BY <1>4 DEF ContactUp
  <2>2. /\ at' = at + 1 /\ frame' = frame /\ scan' = scan
        /\ kernel' = [kernel EXCEPT !.ids[kernel.slot] = None]
    BY <1>4 DEF ContactUp, Processed
  <2>3. e'.memory = e.memory
    BY <1>4, UpView DEF SameSettings
  <2>4. /\ kernel'.slot = kernel.slot
        /\ \A s \in Slots : kernel'.ids[s] = IF s = kernel.slot THEN CurrentEvent.value
                                             ELSE kernel.ids[s]
    BY <1>0, <2>1, <2>2
  <2> DEFINE kind == "TrackingId"
  <2>5. /\ AtEvent(kind) /\ kind = "TrackingId" /\ kind # "Slot" /\ kind # "ToolType"
    BY <2>1
  <2> HIDE DEF kind
  <2> QED BY <1>1, <2>2, <2>3, <2>4, <2>5, EventLabels
<1>5. CASE ToolType
  <2>1. AtEvent("ToolType")
    BY <1>5 DEF ToolType
  <2>2. /\ at' = at + 1 /\ frame' = frame /\ scan' = scan /\ kernel' = kernel
    BY <1>5 DEF ToolType, Processed
  <2>3. /\ \A r \in Slots \ {kernel.slot} : e'.memory[r] = e.memory[r]
        /\ PalmRejection => e'.memory[kernel.slot].tool_type = CurrentEvent.value
    BY <1>0, <1>5, ToolView
  <2> DEFINE kind == "ToolType"
  <2>5. /\ AtEvent(kind) /\ kind = "ToolType" /\ kind # "Slot" /\ kind # "TrackingId"
    BY <2>1
  <2> HIDE DEF kind
  <2> QED BY <1>0, <1>1, <2>2, <2>3, <2>5, EventLabels
<1>6. CASE Position
  <2>1. PICK kind \in {"X", "Y"} : AtEvent(kind)
    BY <1>6 DEF Position
  <2>2. /\ at' = at + 1 /\ frame' = frame /\ scan' = scan /\ kernel' = kernel
    BY <1>6 DEF Position, Processed
  <2>3. \A r \in Slots : e'.memory[r].tool_type = e.memory[r].tool_type
    BY <1>0, <1>6, PositionView
  <2>5. kind # "ToolType" /\ kind # "Slot" /\ kind # "TrackingId"
    BY <2>1
  <2> QED BY <1>0, <1>1, <2>1, <2>2, <2>3, <2>5, EventLabels
<1>7. CASE SynDropped
  BY <1>7, DroppedView DEF Live
<1> QED
  BY <1>2, <1>3, <1>4, <1>5, <1>6, <1>7 DEF FrameStep, ScanEvent, BeginEvents, EventsDone,
     FinalizeSlot

LEMMA StepLabels ==
  ASSUME TypeInv, FlagsInv, Mirror, LabelInv, [PNext]_pvars
  PROVE  LabelInv'
<1> SUFFICES ASSUME Live' PROVE LabelInv'
  BY DEF LabelInv
<1>1. ASSUME UNCHANGED <<vars, labels>> PROVE LabelInv'
  BY <1>1 DEF vars, LabelInv, Live, Bad, Odd, ScanFollows, EventsFollow, MemoryFollows, MemTools,
     Tells, LiftsContacts, DropIsAlone, NoDrop, LastsAre, ToolsAt, DownsKnown
<1>2. CASE UNCHANGED pvars
  BY <1>1, <1>2 DEF pvars
<1>3. CASE Stop \/ SessionFails
  BY <1>1, <1>3 DEF Stop, SessionFails
<1>4. ASSUME NEW f \in Frames \cup OddFrames, NEW t \in Stamps, TakeFrame(f, t)
      PROVE  LabelInv'
  <2>1. StartFrame(f, t) /\ labels' = LabelsAfter(f.events) /\ phase = "idle" /\ phase' = "scan"
    BY <1>4 DEF TakeFrame, StartFrame
  <2>2. MemoryFollows
    BY <2>1, IdleIsLive DEF LabelInv
  <2>3. ScanFollows'
    BY <2>1, <2>2, StartLabels DEF Live
  <2> QED BY <2>1, <2>3 DEF LabelInv
<1>5. CASE EngineStep
  <2>0. FrameStep /\ labels' = labels /\ Live
    BY <1>5, LiveBack DEF EngineStep
  <2>1. CASE ScanEvent
    <3>1. phase' # "error" /\ phase = "scan" /\ phase' = "scan"
      BY <2>1 DEF ScanEvent, Fail, Live
    <3>2. ScanFollows'
      BY <2>0, <2>1, <3>1, ScanLabels DEF LabelInv
    <3> QED BY <3>1, <3>2 DEF LabelInv
  <2>2. CASE BeginEvents
    <3>1. phase = "scan" /\ phase' = "events"
      BY <2>2 DEF BeginEvents
    <3>2. EventsFollow(kernel)'
      BY <2>0, <2>2, <3>1, BeginLabels DEF LabelInv
    <3>3. kernel' \in KernelState
      <4>1. kernel \in KernelState
        BY DEF TypeInv, TypeOK, KernelState
      <4> QED BY <2>2, <4>1 DEF BeginEvents
    <3>4. \E k \in KernelState : EventsFollow(k)'
      BY <3>2, <3>3 DEF EventsFollow
    <3> QED BY <3>1, <3>4 DEF LabelInv
  <2>3. CASE EventsDone
    <3>1. /\ phase = "events" /\ phase' = "finalize" /\ at > Len(frame.events) /\ e' = e
      BY <2>3 DEF EventsDone
    <3>2. PICK k \in KernelState : EventsFollow(k)
      BY <2>0, <3>1 DEF LabelInv
    <3>3. ASSUME PalmRejection, NEW s \in Slots PROVE e.memory[s].tool_type = labels[s]
      <4>1. NoToolFrom(k, frame.events, at, s)
        BY <3>1, NoToolAtEnd DEF TypeInv, TypeOK, Frame
      <4>2. ToolsAt(k, frame.events, at, MemTools, labels)
        BY <3>2, <3>3 DEF EventsFollow
      <4>3. MemTools[s] = labels[s]
        BY <4>1, <4>2 DEF ToolsAt
      <4> QED BY <4>3 DEF MemTools
    <3>4. MemoryFollows'
      BY <2>0, <3>1, <3>3 DEF MemoryFollows
    <3> QED BY <3>1, <3>4 DEF LabelInv
  <2>4. CASE FinalizeSlot
    <3>1. phase = "finalize" /\ phase' = "finalize"
      BY <2>4 DEF FinalizeSlot
    <3>2. e'.memory = e.memory
      BY <2>4, FinalizeView DEF SameSettings
    <3>3. MemoryFollows'
      BY <2>0, <3>1, <3>2 DEF LabelInv, MemoryFollows
    <3> QED BY <3>1, <3>3 DEF LabelInv
  <2>5. CASE ~(ScanEvent \/ BeginEvents \/ EventsDone \/ FinalizeSlot)
    <3>1. phase = "events" /\ phase' = "events"
      BY <2>0, <2>5 DEF FrameStep, SlotSwitch, ContactDown, ContactUp, ToolType, Position,
         SynDropped, AtEvent, Processed, Fail, Live
    <3> QED BY <2>0, <3>1, EventStepLabels
  <2> QED BY <2>1, <2>2, <2>3, <2>4, <2>5
<1>6. CASE WriteFrame
  <2>1. EndFrame /\ labels' = labels /\ phase = "finalize" /\ phase' \in {"idle", "resync"}
    BY <1>6 DEF WriteFrame, EndFrame
  <2>2. phase' = "idle" /\ ~e.resync_required
    BY <2>1 DEF EndFrame, Live
  <2>3. Live /\ e'.memory = e.memory
    BY <2>1, <2>2, EndView DEF FlagsInv, Live
  <2>4. MemoryFollows'
    BY <2>1, <2>3 DEF LabelInv, MemoryFollows
  <2> QED BY <2>2, <2>4 DEF LabelInv
<1>7. ASSUME NEW snapshot \in Snapshots, Recover(snapshot)
      PROVE  LabelInv'
  <2>1. /\ Resync(snapshot) /\ phase' = "finalize"
        /\ labels' = [s \in Slots |-> snapshot.memory[s].tool_type]
    BY <1>7 DEF Recover, Resync, Output
  <2>2. e'.memory = SeededMemory(snapshot.memory)
    BY <2>1, ResyncView
  <2>3. MemoryFollows'
    BY <2>1, <2>2, SeededTools DEF MemoryFollows
  <2> QED BY <2>1, <2>3 DEF LabelInv
<1>8. CASE QuietStep
  <2>1. phase = "idle" /\ phase' \in {"idle", "finalize"} /\ labels' = labels
    BY <1>8 DEF QuietStep, AdvanceTime, Reload, Output
  <2>2. e'.memory = e.memory
    <3>1. CASE AdvanceTime
      BY <3>1, AdvanceView DEF Kept, SameSettings
    <3>2. ASSUME NEW cfg \in Configs, Reload(cfg) PROVE e'.memory = e.memory
      BY <3>2, ReloadView
    <3> QED BY <1>8, <3>1, <3>2 DEF QuietStep
  <2>3. MemoryFollows'
    BY <2>1, <2>2, IdleIsLive DEF LabelInv, MemoryFollows
  <2> QED BY <2>1, <2>3 DEF LabelInv
<1> QED BY <1>2, <1>3, <1>4, <1>5, <1>6, <1>7, <1>8 DEF PNext

-----------------------------------------------------------------------------
(* The steps of a frame, as the virtual touchpad will show them.            *)

LEMMA SwitchRoutes ==
  ASSUME NEW en \in EngineState, NEW out \in EngineState,
         out.contact = en.contact, out.memory = en.memory, out.held_events = en.held_events,
         out.passthrough = en.passthrough, out.downs = en.downs
  PROVE  Routes(en, out)
<1>1. ASSUME NEW base, Shown(base, en, {}) PROVE Shown(base, out, {})
  BY <1>1 DEF Shown, SlotShown, Waits, Passed
<1> QED BY <1>1 DEF Routes

LEMMA SettledRoutes ==
  ASSUME NEW en, Routes(e, en), en \in EngineState, PairInv(en), Processed(en)
  PROVE  Routes(e, e')
<1>1. e' = Settle(en)
  BY DEF Processed
<1> QED BY <1>1, SettleRoutes, RoutesOn

\* A lift is of a contact the engine has.
LEMMA LiftIsActive ==
  ASSUME TypeInv, FlagsInv, Mirror, LabelInv, Live, ContactUp
  PROVE  IsActive(e, e.current_slot)
<1> DEFINE evs == frame.events
<1>1. /\ phase = "events" /\ at \in DOMAIN evs /\ at \in Nat \ {0}
      /\ evs[at].kind = "TrackingId" /\ evs[at].value = None
  BY EventInHand DEF ContactUp, AtEvent, CurrentEvent, TypeInv, TypeOK, Frame
<1>2. PICK k \in KernelState : EventsFollow(k)
  BY <1>1 DEF LabelInv
<1>3. SlotFrom(k, evs, at) = kernel.slot
  <2>1. kernel.slot = SlotFrom(k, evs, at - 1)
    BY <1>2 DEF EventsFollow
  <2> QED BY <1>1, <2>1, SlotNext
<1>4. IdFrom(k, evs, at - 1, kernel.slot) # None
  BY <1>1, <1>2, <1>3 DEF EventsFollow, Tells, LiftsContacts
<1>5. kernel.ids[kernel.slot] # None
  BY <1>2, <1>4, InHand DEF EventsFollow
<1> QED BY <1>5, InHand DEF Mirror, IsActive

LEMMA StepRoutes ==
  ASSUME TypeInv, PairInv(e), FlagsInv, ~astray => Mirror /\ LabelInv, FrameStep, Live'
  PROVE  Routes(e, e')
<1>e. /\ e \in EngineState /\ e.current_slot \in Slots /\ stamp \in Int
  BY InHand
<1>l. Live
  BY LiveBack
<1>u. e' = e => Routes(e, e')
  BY <1>e, StillItself, StillRoutes
<1>f. ~Fail
  BY DEF Fail, Live
<1>1. CASE ScanEvent
  BY <1>1, <1>u, <1>f DEF ScanEvent
<1>2. CASE BeginEvents
  <2> DEFINE en == RejectPalms(e)
  <2>1. en \in EngineState /\ Still(e, en)
    BY <1>e, RejectPalmsType, RejectPalmsStill
  <2>2. e' = en \/ e' = ExpirePendingTap(en, stamp)
    BY <1>2 DEF BeginEvents
  <2> HIDE DEF en
  <2>3. Still(en, e')
    BY <2>1, <2>2, StillItself, ExpireStill
  <2> QED BY <2>1, <2>3, StillOn, StillRoutes
<1>3. CASE SlotSwitch
  <2> DEFINE d == [e EXCEPT !.current_slot = CurrentEvent.value]
  <2>0. CurrentEvent.value \in Slots
    BY <1>3, <1>f DEF SlotSwitch
  <2>1. /\ d \in EngineState /\ d.current_slot = CurrentEvent.value
        /\ d.contact = e.contact /\ d.memory = e.memory /\ d.held_events = e.held_events
        /\ d.passthrough = e.passthrough /\ d.downs = e.downs
        /\ d.pending_tap = e.pending_tap
    BY <1>e, <2>0 DEF EngineState
  <2>2. CurrentEvent \in Event /\ CurrentEvent.kind = "Slot"
    BY <1>3, EventInHand DEF SlotSwitch
  <2>3. Processed(RouteEvent(d, CurrentEvent))
    BY <1>3, <2>0 DEF SlotSwitch
  <2> HIDE DEF d
  <2>4. PairInv(d) /\ Routes(e, d)
    BY <1>e, <2>1, SameContacts, SwitchRoutes
  <2>5. /\ RouteEvent(d, CurrentEvent) \in EngineState
        /\ PairInv(RouteEvent(d, CurrentEvent))
    BY <2>1, <2>2, <2>4, RouteEventType, RouteEventPair
  <2>6. Routes(d, RouteEvent(d, CurrentEvent))
    <3>1. CurrentEvent.kind \notin {"TrackingId", "ToolType"}
      BY <2>2
    <3> QED BY <2>1, <2>2, <3>1, RouteEventRoutes
  <2> QED BY <2>3, <2>4, <2>5, <2>6, RoutesOn, SettledRoutes
<1>4. CASE ContactDown
  <2>0. ~IsActive(e, e.current_slot)
    BY <1>4, <1>f DEF ContactDown
  <2> DEFINE s == e.current_slot
             id == CurrentEvent.value
             en == BeginContact(e, s, id)
  <2>1. id \in TrackingIds
    BY <1>4, EventInHand DEF ContactDown
  <2>2. scan.contacts[s][id] \in FrameTool
    BY <1>e, <2>1, InHand
  <2>3. en \in EngineState /\ PairInv(en)
    BY <1>e, <2>0, <2>1, <2>2, BeginContactType, BeginContactPair
  <2>4. Routes(e, en)
    BY <1>e, <2>0, <2>1, <2>2, BeginRoutes
  <2>5. Processed(en)
    BY <1>4, <2>0 DEF ContactDown
  <2> HIDE DEF en
  <2> QED BY <2>3, <2>4, <2>5, SettledRoutes
<1>5. CASE ContactUp
  <2> DEFINE en == ReleaseCurrentSlot(e, CurrentEvent, stamp)
  <2>1. CurrentEvent \in Event /\ CurrentEvent.kind = "TrackingId" /\ CurrentEvent.value = None
    BY <1>5, EventInHand DEF ContactUp
  <2>2. CurrentEvent = TrackingIdEvent(None)
    BY <2>1 DEF Event, TrackingIdEvent
  <2>3. en \in EngineState /\ PairInv(en)
    BY <1>e, <2>1, ReleaseCurrentType, ReleaseCurrentPair
  <2>4. Routes(e, en)
    <3>1. CASE IsActive(e, e.current_slot)
      BY <1>e, <2>2, <3>1, ReleaseRoutes
    <3>2. CASE ~IsActive(e, e.current_slot)
      <4>1. astray
        BY <1>l, <1>5, <3>2, LiftIsActive
      <4> QED BY <1>e, <2>2, <3>2, <4>1, LiftsNothing
    <3> QED BY <3>1, <3>2
  <2>5. Processed(en)
    BY <1>5 DEF ContactUp
  <2> HIDE DEF en
  <2> QED BY <2>3, <2>4, <2>5, SettledRoutes
<1>6. CASE ToolType
  <2> SUFFICES ASSUME PalmRejection PROVE Routes(e, e')
    BY <1>6, <1>u DEF ToolType
  <2> DEFINE d == [e EXCEPT !.memory[e.current_slot].tool_type = CurrentEvent.value]
             en == RouteEvent(d, CurrentEvent)
  <2>1. CurrentEvent \in Event /\ CurrentEvent.value \in Int /\ CurrentEvent.kind = "ToolType"
    BY <1>6, EventInHand DEF ToolType
  <2>2. d \in EngineState
    <3>1. \A m \in Memory, t \in Int : [m EXCEPT !.tool_type = t] \in Memory
      BY DEF Memory
    <3>2. [e.memory[e.current_slot] EXCEPT !.tool_type = CurrentEvent.value] \in Memory
      BY <1>e, <2>1, <3>1, EngineFields
    <3> QED BY <1>e, <3>2 DEF EngineState
  <2>3. /\ d.contact = e.contact /\ d.held_events = e.held_events
        /\ d.pending_tap = e.pending_tap
    BY <1>e DEF EngineState
  <2>4. Routes(e, en)
    BY <1>e, <2>1, ToolRoutes
  <2>5. Processed(en)
    BY <1>6 DEF ToolType
  <2> HIDE DEF d
  <2>6. PairInv(d)
    BY <2>3, SameContacts
  <2>7. en \in EngineState /\ PairInv(en)
    BY <2>1, <2>2, <2>6, RouteEventType, RouteEventPair
  <2> HIDE DEF en
  <2> QED BY <2>4, <2>5, <2>7, SettledRoutes
<1>7. CASE Position
  <2> DEFINE s == e.current_slot
             v == CurrentEvent.value
             placed == IF CurrentEvent.kind = "X" THEN PlaceX(e, s, v) ELSE PlaceY(e, s, v)
             spoiled == EndSpoiledPair(placed, s)
             en == RouteEvent(spoiled, CurrentEvent)
             isX == CurrentEvent.kind = "X"
  <2>1. CurrentEvent \in Event /\ v \in Int /\ CurrentEvent.kind \in {"X", "Y"}
    BY <1>7, EventInHand DEF Position
  <2>2. placed \in EngineState /\ PairInv(placed)
    BY <1>e, <2>1, PlaceXType, PlaceYType, PlacePair
  <2>3. Still(e, placed)
    <3>1. isX \in BOOLEAN
      OBVIOUS
    <3>2. placed = IF isX THEN PlaceX(e, s, v) ELSE PlaceY(e, s, v)
      OBVIOUS
    <3> HIDE DEF isX, placed
    <3> QED BY <1>e, <2>1, <3>1, <3>2, PlaceStill
  <2>4. Processed(en)
    BY <1>7 DEF Position
  <2> HIDE DEF placed
  <2>5. spoiled \in EngineState /\ PairInv(spoiled) /\ Still(placed, spoiled)
    BY <1>e, <2>2, FlushType, FlushPair, EndSpoiledStill DEF EndSpoiledPair
  <2> HIDE DEF spoiled
  <2>6. en \in EngineState /\ PairInv(en)
    BY <2>1, <2>5, RouteEventType, RouteEventPair
  <2>7. Routes(spoiled, en)
    BY <2>1, <2>5, RouteEventRoutes
  <2>8. Routes(e, spoiled)
    BY <2>3, <2>5, StillOn, StillRoutes
  <2> HIDE DEF en
  <2> QED BY <2>4, <2>6, <2>7, <2>8, RoutesOn, SettledRoutes
<1>8. CASE SynDropped
  BY <1>8, DroppedView DEF Live
<1>9. CASE EventsDone
  BY <1>9, <1>u DEF EventsDone
<1>10. CASE FinalizeSlot
  <2>1. at \in Slots
    BY <1>10 DEF FinalizeSlot, TypeInv, TypeOK, FrameInHand, Slots
  <2> QED BY <1>10, <1>e, <2>1, FinalizeRoutes DEF FinalizeSlot
<1> QED
  BY <1>1, <1>2, <1>3, <1>4, <1>5, <1>6, <1>7, <1>8, <1>9, <1>10 DEF FrameStep

-----------------------------------------------------------------------------
(* A frame written.                                                        *)

\* A pad that was not declared to have labels does not take any.
LEMMA PadUnlabelled ==
  ASSUME NEW d \in Pads, ~Labelled, NEW evs \in Seq(PadEvent)
  PROVE  PadAfter(d, evs).tool = d.tool
<1> DEFINE I == {r \in Pads : r.tool = d.tool}
<1>1. ASSUME NEW r \in I, NEW ev \in PadEvent PROVE PadTakes(r, ev) \in I
  <2>1. r \in Pads /\ r.tool = d.tool
    OBVIOUS
  <2>2. PadTakes(r, ev) \in Pads
    BY <2>1, PadTakesType
  <2>3. PadTakes(r, ev).tool = r.tool
    <3>1. CASE ~Declared(ev)
      BY <3>1 DEF PadTakes
    <3>2. CASE Declared(ev)
      <4>1. ev.kind # "ToolType" /\ PadTakes(r, ev) = PadStep(r, ev)
        BY <3>2 DEF PadTakes, Declared, VirtualTouchpadSpec, Labelled
      <4> QED BY <2>1, <4>1 DEF PadStep, Pads
    <3> QED BY <3>1, <3>2
  <2> QED BY <2>1, <2>2, <2>3
<1>2. d \in I
  OBVIOUS
<1> HIDE DEF I
<1>3. PadAfter(d, evs) \in I
  BY <1>1, <1>2, PadStays
<1> QED BY <1>3 DEF I

\* The composer and the pad agree on everything the pointer emulation needs.
InStep(c, d) ==
  /\ CanLift(c, d) /\ PointerAgrees(c, d)
  /\ c.contact_count = Cardinality(ActiveOutputSlots(c))

LEMMA SameActive ==
  ASSUME NEW c, NEW k, k.slots = c.slots
  PROVE  ActiveOutputSlots(k) = ActiveOutputSlots(c)
BY DEF ActiveOutputSlots

LEMMA ComposedFollows ==
  ASSUME NEW c \in Composers, NEW d \in Pads, InStep(c, d),
         NEW evs \in Seq(Event), Addressed(evs), Legal(PadAfter(d, evs)),
         NEW bs \in Seq(ClickButton), NEW routed,
         routed.passthrough = evs, routed.buttons = bs, ~routed.resync_required
  PROVE  LET out == ComposeFrame(c, routed)
             r == PadAfter(d, out.events)
         IN /\ r \in Pads /\ SameTouches(PadAfter(d, evs), r)
            /\ InStep(out.composer, r) /\ (~Labelled => r.tool = d.tool)
<1> DEFINE passed == Pass(c, evs)
           out == ComposeFrame(c, routed)
           w == PadAfter(d, evs)
           legacy == PadAfter(w, LegacyEvents(passed))
           k == out.composer
           r == PadAfter(d, out.events)
<1>1. /\ passed \in Composers /\ SameEmulation(c, passed)
      /\ w \in Pads /\ legacy \in Pads /\ r = PadAfter(legacy, ButtonEvents(bs))
      /\ k \in Composers /\ SameOutput(RememberLegacy(passed), k)
  BY ComposedParts
<1>2. CanLift(c, d) /\ PointerAgrees(c, d)
  BY DEF InStep
<1>3. /\ ContactsAgree(passed, w)
      /\ evs # <<>> => w.slot = passed.current_slot
      /\ evs = <<>> => passed = c /\ w = d
  BY <1>2, PassFollows DEF CanLift
<1>4. SamePointer(d, w) /\ (~Labelled => w.tool = d.tool)
  BY EventIsPadEvent, PadUnlabelled, PadAfterEvents
<1> HIDE DEF passed, w
<1>5. PointerAgrees(passed, w)
  BY <1>1, <1>2, <1>4 DEF PointerAgrees, SamePointer, SameEmulation
<1>6. /\ SameTouches(w, legacy) /\ PointerAgrees(RememberLegacy(passed), legacy)
  BY <1>1, <1>5, LegacyFollows
<1>7. /\ RememberLegacy(passed).current_slot = passed.current_slot
      /\ RememberLegacy(passed).slots = passed.slots
      /\ RememberLegacy(passed).contact_count = Cardinality(ActiveOutputSlots(passed))
  BY <1>1, RememberType
<1> HIDE DEF legacy
<1>8. r \in Pads /\ SameTouches(legacy, r) /\ SamePointer(legacy, r)
  BY <1>1, PadAfterButtons
<1> HIDE DEF r, k
<1>9. SameTouches(w, r)
  BY <1>6, <1>8 DEF SameTouches
<1>10. PointerAgrees(k, r)
  BY <1>1, <1>6, <1>8 DEF PointerAgrees, SamePointer, SameOutput
<1>11. k.slots = passed.slots /\ k.current_slot = passed.current_slot
  BY <1>1, <1>7 DEF SameOutput
<1>12. ActiveOutputSlots(k) = ActiveOutputSlots(passed)
  BY <1>11, SameActive
<1>13. ContactsAgree(k, r)
  BY <1>3, <1>9, <1>11 DEF ContactsAgree, SameTouches
<1>14. ActiveOutputSlots(k) # {} => r.slot = k.current_slot
  <2>1. CASE evs = <<>>
    BY <1>2, <1>3, <1>9, <1>11, <1>12, <2>1 DEF CanLift, SameTouches
  <2>2. CASE evs # <<>>
    BY <1>3, <1>9, <1>11, <2>2 DEF SameTouches
  <2> QED BY <2>1, <2>2
<1>15. Legal(r)
  BY <1>9 DEF SameTouches, Legal, w
<1>16. k.contact_count = Cardinality(ActiveOutputSlots(k))
  BY <1>1, <1>7, <1>12 DEF SameOutput
<1>17. ~Labelled => r.tool = d.tool
  BY <1>4, <1>9 DEF SameTouches
<1> QED BY <1>8, <1>9, <1>10, <1>13, <1>14, <1>15, <1>16, <1>17 DEF InStep, CanLift, r, k, w

LEMMA NewInStep ==
  ASSUME NEW d \in Pads, Legal(d), \A s \in Slots : d.ids[s] = None, ~d.touch, d.tools = {}
  PROVE  InStep(NewComposer, d)
<1>1. \A s \in Slots : NewComposer.slots[s] = FreeOutputSlot
  BY DEF NewComposer, NoOutputSlots
<1>2. ActiveOutputSlots(NewComposer) = {}
  BY <1>1 DEF ActiveOutputSlots, FreeOutputSlot
<1>3. NewComposer.contact_count = 0 /\ NewComposer.position = NoPosition
  BY DEF NewComposer
<1>4. ContactsAgree(NewComposer, d)
  BY <1>1 DEF ContactsAgree, FreeOutputSlot
<1>5. Cardinality(ActiveOutputSlots(NewComposer)) = 0
  BY <1>2, FS_EmptySet
<1> QED BY <1>2, <1>3, <1>4, <1>5 DEF InStep, CanLift, PointerAgrees

\* The output taken back leaves the pad as the next output needs it.
LEMMA FinishFollows ==
  ASSUME NEW c \in Composers, NEW d \in Pads, InStep(c, d)
  PROVE  LET r == PadAfter(d, Finish(c).events)
         IN /\ r \in Pads /\ Legal(r) /\ Finish(c).composer = NewComposer
            /\ \A s \in Slots : r.ids[s] = None
            /\ InStep(NewComposer, r) /\ (~Labelled => r.tool = d.tool)
<1> DEFINE lifted == PadAfter(d, Lifted(c).events)
           last == Lifted(c).composer
           released == Each(SetToSeq(c.pressed), FALSE)
           legacy == PadAfter(lifted, LegacyEvents(last))
           r == PadAfter(d, Finish(c).events)
<1>1. /\ Finish(c).composer = NewComposer
      /\ r = PadAfter(legacy, ButtonEvents(released))
      /\ lifted \in Pads /\ last \in Composers /\ released \in Seq(ClickButton)
  BY FinishParts
<1>2. CanLift(c, d) /\ PointerAgrees(c, d)
  BY DEF InStep
<1>3. /\ Lifted(c).events \in Seq(Event) /\ SameEmulation(c, last)
      /\ CanLift(last, lifted) /\ \A s \in Slots : ~last.slots[s].active
  BY <1>2, LiftedFollows
<1>4. SamePointer(d, lifted) /\ (~Labelled => lifted.tool = d.tool)
  BY <1>3, EventIsPadEvent, PadUnlabelled, PadAfterEvents
<1> HIDE DEF lifted, last
<1>5. PointerAgrees(last, lifted)
  BY <1>2, <1>3, <1>4 DEF PointerAgrees, SamePointer, SameEmulation
<1>6. legacy \in Pads /\ SameTouches(lifted, legacy) /\ PointerAgrees(RememberLegacy(last), legacy)
  BY <1>1, <1>5, LegacyFollows
<1> HIDE DEF legacy, released
<1>7. r \in Pads /\ SameTouches(legacy, r) /\ SamePointer(legacy, r)
  BY <1>1, <1>6, PadAfterButtons
<1> HIDE DEF r
<1>8. Legal(r) /\ \A s \in Slots : r.ids[s] = None
  <2>1. Legal(lifted) /\ \A s \in Slots : lifted.ids[s] = None
    BY <1>3 DEF CanLift, ContactsAgree
  <2> QED BY <1>6, <1>7, <2>1 DEF SameTouches, Legal
<1>9. RememberLegacy(last).contact_count = 0
  <2>1. ActiveOutputSlots(last) = {}
    BY <1>3 DEF ActiveOutputSlots
  <2>2. Cardinality(ActiveOutputSlots(last)) = 0
    BY <2>1, FS_EmptySet
  <2> QED BY <1>1, <2>2, RememberType
<1>10. ~r.touch /\ r.tools = {}
  BY <1>6, <1>7, <1>9 DEF PointerAgrees, SamePointer
<1>11. ~Labelled => r.tool = d.tool
  BY <1>4, <1>6, <1>7 DEF SameTouches
<1> QED BY <1>1, <1>7, <1>8, <1>10, <1>11, NewInStep DEF r

-----------------------------------------------------------------------------
(* The pad mirrors the engine.                                             *)

\* In the middle of a frame the pad is as the last one left it, and what is
\* routed so far will make it show the engine's contacts; once events are lost
\* nothing is asked of it until the output is taken back.
PadInv ==
  /\ Legal(pad)
  /\ session = "running" =>
       /\ InStep(composer, pad)
       /\ ~Labelled => \A s \in Slots : pad.tool[s] = FingerTool
       /\ phase = "resync" => \A s \in Slots : pad.ids[s] = None
       /\ Live => Ready(pad, e)

LEMMA FreshWaits ==
  ASSUME NEW en, NEW s \in Slots, en.held_events[s] = <<>>, en.contact[s].tracking_id = None
  PROVE  Waits(en, s)
BY LandsNothing DEF Waits

LEMMA InitPad == PInit => PadInv
<1> SUFFICES ASSUME PInit PROVE PadInv
  OBVIOUS
<1>1. PICK cfg \in Configs : e = NewEngine(cfg, SeededMemory(StartMemory))
  BY DEF PInit, Init
<1>2. pad = NewPad /\ pad \in Pads /\ composer = NewComposer /\ phase = "idle"
  BY NewPadType DEF PInit, Init
<1>3. /\ Legal(pad) /\ ~pad.touch /\ pad.tools = {}
      /\ \A s \in Slots : pad.ids[s] = None /\ pad.tool[s] = FingerTool
  BY <1>2 DEF NewPad, Legal
<1>4. InStep(composer, pad)
  BY <1>2, <1>3, NewInStep
<1>5. /\ e.passthrough = <<>> /\ \A s \in Slots : e.downs[s] = <<>>
      /\ \A s \in Slots : e.held_events[s] = <<>> /\ e.contact[s] = NoContact
  BY <1>1 DEF NewEngine
<1>6. e \in EngineState
  BY InitType DEF PInit, TypeInv, TypeOK
<1>7. ASSUME NEW s \in Slots PROVE SlotShown(pad, e, {}, s) /\ Waits(e, s)
  <2>1. e.contact[s].tracking_id = None /\ e.contact[s].ownership = "Unknown"
    BY <1>5, NoContactFields
  <2> QED BY <1>3, <1>5, <2>1, FreshWaits DEF SlotShown, Passed
<1>8. Shown(pad, e, {})
  BY <1>2, <1>3, <1>5, <1>6, <1>7, ShownFirst
<1>9. Ready(pad, e)
  BY <1>5, <1>8, QuietReady
<1> QED BY <1>2, <1>3, <1>4, <1>9 DEF PadInv

\* Between frames nothing has to be sent for it.
LEMMA IdleShown ==
  ASSUME NEW d \in Pads, Legal(d), NEW en, Ready(d, en), en.passthrough = <<>>,
         \A s \in Slots : en.downs[s] = <<>>
  PROVE  Shown(d, en, {})
<1> DEFINE r == PadAfter(d, AllDowns(en.downs))
<1>1. /\ r \in Pads /\ en \in EngineState
      /\ \A s \in Slots : SlotShown(r, en, {}, s) /\ Waits(en, s)
  BY QuietShown DEF Ready
<1>2. en.downs \in [Slots -> Seq(Event)]
  BY <1>1 DEF EngineState
<1>3. \A s \in Slots : r.ids[s] = d.ids[s] /\ r.tool[s] = d.tool[s]
  BY <1>2, NoDowns
<1> HIDE DEF r
<1>4. \A s \in Slots : SlotShown(d, en, {}, s)
  BY <1>1, <1>3 DEF SlotShown
<1> QED BY <1>1, <1>4, ShownFirst

LEMMA TouchesShown ==
  ASSUME NEW w, NEW r, SameTouches(w, r), NEW en, NEW out, NEW s \in Slots,
         SlotShown(w, en, {}, s), out.contact = en.contact, out.memory = en.memory
  PROVE  SlotShown(r, out, {}, s)
BY DEF SameTouches, SlotShown, Passed

\* What EndFrame hands over is on the pad afterwards.
LEMMA WriteShown ==
  ASSUME TypeInv, FlagsInv, KeysInv, PadInv, session = "running", WriteFrame, ~e.resync_required
  PROVE  /\ Legal(pad') /\ InStep(composer', pad') /\ (~Labelled => pad'.tool = pad.tool)
         /\ Ready(pad', e')
<1> DEFINE out == ComposeFrame(composer, Routed)
           downs == AllDowns(e.downs)
           own == e.passthrough
           evs == Routed.passthrough
           routed == Routed
           base == PadAfter(pad, downs)
           w == PadAfter(base, own)
<1>1. /\ phase = "finalize" /\ composer' = out.composer /\ pad' = PadAfter(pad, out.events)
      /\ EndFrame
  BY DEF WriteFrame, EndFrame
<1>2. /\ pad \in Pads /\ composer \in Composers /\ buttons \in Seq(ClickButton)
      /\ InStep(composer, pad)
  BY DEF KeysInv, PadInv
<1>3. Live
  BY <1>1 DEF FlagsInv, Live
<1>4. Addressed(downs) /\ Shown(base, e, {})
  BY <1>3 DEF PadInv, Ready
<1>5. /\ base \in Pads /\ e \in EngineState /\ w \in Pads /\ Legal(w) /\ Addressed(own)
      /\ \A s \in Slots : SlotShown(w, e, {}, s) /\ Waits(e, s)
  BY <1>4 DEF Shown
<1>6. downs \in Seq(Event) /\ own \in Seq(Event) /\ evs = downs \o own
  BY <1>5, DownsType DEF EngineState, AllDowns, Routed
<1>7. PadAfter(pad, evs) = w
  <2> HIDE DEF downs, own, evs
  <2> QED BY <1>6, EventIsPadEvent, PadConcat DEF base, w
<1>8. evs \in Seq(Event) /\ Addressed(evs)
  <2> HIDE DEF downs, own, evs
  <2>1. CASE downs = <<>>
    BY <1>5, <1>6, <2>1
  <2>2. CASE downs # <<>>
    <3>1. evs # <<>> /\ Head(evs) = Head(downs)
      BY <1>6, <2>2
    <3> QED BY <1>4, <1>6, <2>2, <3>1 DEF Addressed
  <2> QED BY <2>1, <2>2
<1>9. routed.passthrough = evs /\ routed.buttons = buttons /\ ~routed.resync_required
  BY DEF Routed
<1> HIDE DEF downs, own, evs, base, w, routed
<1>10. LET k == ComposeFrame(composer, routed)
           r == PadAfter(pad, k.events)
       IN /\ r \in Pads /\ SameTouches(PadAfter(pad, evs), r) /\ InStep(k.composer, r)
          /\ ~Labelled => r.tool = pad.tool
  BY <1>2, <1>5, <1>7, <1>8, <1>9, ComposedFollows
<1>11. /\ pad' \in Pads /\ SameTouches(w, pad') /\ InStep(composer', pad')
       /\ ~Labelled => pad'.tool = pad.tool
  BY <1>1, <1>7, <1>10 DEF routed
<1>12. /\ e' \in EngineState /\ e'.contact = e.contact /\ e'.memory = e.memory
  BY <1>1, EndView
<1>13. /\ e'.held_events = e.held_events /\ e'.passthrough = <<>>
       /\ \A s \in Slots : e'.downs[s] = <<>>
  BY <1>1, <1>5 DEF EndFrame, ClearOutput, EngineState
<1>14. Legal(pad')
  BY <1>5, <1>11 DEF SameTouches, Legal
<1>15. ASSUME NEW s \in Slots PROVE SlotShown(pad', e', {}, s) /\ Waits(e', s)
  <2>1. SlotShown(pad', e', {}, s)
    BY <1>5, <1>11, <1>12, TouchesShown
  <2>2. Waits(e', s)
    BY <1>5, <1>12, <1>13 DEF Waits
  <2> QED BY <2>1, <2>2
<1>16. Shown(pad', e', {})
  BY <1>11, <1>12, <1>13, <1>14, <1>15, ShownFirst
<1> QED BY <1>11, <1>13, <1>14, <1>16, QuietReady

\* What is legal now stays so when a recovery leads astray.
LEMMA AstrayOn ==
  ASSUME astray => astray'
  PROVE  /\ Legal(pad') => Legal(pad)'
         /\ InStep(composer', pad') => InStep(composer, pad)'
         /\ Ready(pad', e') => Ready(pad, e)'
<1>1. /\ Legal(pad') => Legal(pad)'
      /\ InStep(composer', pad') => InStep(composer, pad)'
  BY DEF Legal, InStep, CanLift
<1>2. ASSUME Ready(pad', e') PROVE Ready(pad, e)'
  BY <1>2 DEF Ready, Shown, Waits, Lands, Landed, Legal
<1> QED BY <1>1, <1>2

LEMMA StepPad ==
  ASSUME TypeInv, PairInv(e), FlagsInv, ~astray => Mirror /\ LabelInv, KeysInv, PadInv,
         [PNext]_pvars
  PROVE  PadInv'
<1>k. pad \in Pads /\ composer \in Composers /\ e \in EngineState
  BY DEF KeysInv, TypeInv, TypeOK
<1>a. astray => astray'
  BY DEF PNext, TakeFrame, EngineStep, WriteFrame, Recover, QuietStep, Stop, SessionFails, pvars
<1>1. ASSUME pad' = pad, session = "running", composer' = composer, phase' # "resync",
             Live' => Ready(pad', e')
      PROVE  PadInv'
  <2>1. Legal(pad') /\ InStep(composer', pad') /\ (~Labelled => \A s \in Slots : pad'.tool[s] = FingerTool)
    BY <1>1 DEF PadInv
  <2> QED BY <1>1, <1>a, <2>1, AstrayOn DEF PadInv
<1>2. CASE UNCHANGED pvars
  <2>1. /\ pad' = pad /\ composer' = composer /\ session' = session /\ phase' = phase
        /\ Live' = Live /\ e' = e
    BY <1>2 DEF pvars, vars, Live, Bad, Odd
  <2> QED BY <1>a, <2>1, AstrayOn DEF PadInv
<1>i. ASSUME session = "running", phase = "idle"
      PROVE  /\ Ready(pad, e) /\ Shown(pad, e, {}) /\ e.passthrough = <<>>
             /\ \A s \in Slots : e.downs[s] = <<>>
  <2>1. Ready(pad, e) /\ Legal(pad)
    BY <1>i, IdleIsLive DEF PadInv
  <2>2. e.passthrough = <<>> /\ \A s \in Slots : e.downs[s] = <<>>
    BY <1>i DEF FlagsInv
  <2> QED BY <1>k, <2>1, <2>2, IdleShown
<1>3. ASSUME session = "running",
             NEW f \in Frames \cup OddFrames, NEW t \in Stamps, TakeFrame(f, t)
      PROVE  PadInv'
  <2> DEFINE codes == Codes(f.buttons, TRUE)
  <2>1. /\ phase = "idle" /\ phase' = "scan" /\ pad' = pad /\ composer' = composer
        /\ e' = PressButtons(e, codes)
    BY <1>3 DEF TakeFrame, StartFrame
  <2>2. codes \in SUBSET Buttons
    <3>1. \A i \in DOMAIN f.buttons : f.buttons[i] \in Button
      BY FramesAssumption DEF Frame
    <3> QED BY <3>1 DEF Codes, Button
  <2> HIDE DEF codes
  <2>3. Ready(pad', e')
    BY <1>3, <1>i, <2>1, <2>2, PressReady
  <2> QED BY <1>1, <1>3, <2>1, <2>3
<1>4. ASSUME session = "running", EngineStep
      PROVE  PadInv'
  <2>1. FrameStep /\ pad' = pad /\ composer' = composer /\ phase' # "resync"
    BY <1>4 DEF EngineStep, FrameStep, ScanEvent, BeginEvents, SlotSwitch, ContactDown,
       ContactUp, ToolType, Position, SynDropped, EventsDone, FinalizeSlot, AtEvent,
       Processed, Fail
  <2>2. ASSUME Live' PROVE Ready(pad', e')
    <3>1. Ready(pad, e)
      BY <1>4, <2>1, <2>2, LiveBack DEF PadInv
    <3> QED BY <2>1, <2>2, <3>1, StepRoutes, ReadyOn
  <2> QED BY <1>1, <1>4, <2>1, <2>2
<1>5. ASSUME session = "running", session' = "running", WriteFrame
      PROVE  PadInv'
  <2>1. CASE ~e.resync_required
    <3>1. phase' # "resync"
      BY <1>5, <2>1 DEF WriteFrame, EndFrame
    <3>2. /\ Legal(pad') /\ InStep(composer', pad') /\ (~Labelled => pad'.tool = pad.tool)
          /\ Ready(pad', e')
      BY <1>5, <2>1, WriteShown
    <3> QED BY <1>5, <1>a, <3>1, <3>2, AstrayOn DEF PadInv
  <2>2. CASE e.resync_required
    <3> DEFINE r == PadAfter(pad, Finish(composer).events)
    <3>1. /\ phase' = "resync"
          /\ composer' = ComposeFrame(composer, Routed).composer
          /\ pad' = PadAfter(pad, ComposeFrame(composer, Routed).events)
      BY <1>5, <2>2 DEF WriteFrame, EndFrame
    <3>2. ComposeFrame(composer, Routed) = Finish(composer)
      BY <2>2 DEF ComposeFrame, Routed
    <3>3. /\ r \in Pads /\ Legal(r) /\ Finish(composer).composer = NewComposer
          /\ \A s \in Slots : r.ids[s] = None
          /\ InStep(NewComposer, r) /\ (~Labelled => r.tool = pad.tool)
      BY <1>5, <1>k, FinishFollows DEF PadInv
    <3>4. pad' = r /\ composer' = NewComposer /\ ~Live'
      BY <3>1, <3>2, <3>3 DEF Live
    <3> HIDE DEF r
    <3>5. Legal(pad)' /\ InStep(composer, pad)'
      BY <1>a, <3>3, <3>4, AstrayOn
    <3> QED BY <1>5, <3>3, <3>4, <3>5 DEF PadInv
  <2> QED BY <2>1, <2>2
<1>6. ASSUME session = "running", NEW snapshot \in Snapshots, Recover(snapshot)
      PROVE  PadInv'
  <2>1. /\ phase = "resync" /\ phase' = "finalize" /\ pad' = pad /\ composer' = composer
        /\ e' = RestoreSnapshot(e, snapshot)
    BY <1>6 DEF Recover, Resync, Output
  <2>2. snapshot \in Snapshot /\ e.passthrough = <<>>
    BY <2>1, SnapshotsAssumption DEF FlagsInv
  <2>3. Legal(pad) /\ \A s \in Slots : pad.ids[s] = None
    BY <1>6, <2>1 DEF PadInv
  <2>4. Ready(pad', e')
    BY <1>k, <2>1, <2>2, <2>3, RestoredReady
  <2> QED BY <1>1, <1>6, <2>1, <2>4
<1>7. ASSUME session = "running", QuietStep
      PROVE  PadInv'
  <2>1. phase = "idle" /\ phase' # "resync" /\ pad' = pad /\ composer' = composer
    BY <1>7 DEF QuietStep, AdvanceTime, Reload, Output
  <2>2. Routes(e, e')
    <3>1. CASE AdvanceTime
      BY <1>k, <3>1, ExpireStill, StillRoutes DEF AdvanceTime, Output
    <3>2. ASSUME NEW cfg \in Configs, Reload(cfg) PROVE Routes(e, e')
      <4>1. e' \in EngineState /\ e' = Reconfigure(e, cfg)
        BY <3>2, ReloadView DEF Reload
      <4>2. /\ e'.contact = e.contact /\ e'.memory = e.memory
            /\ e'.held_events = e.held_events
            /\ e'.passthrough = e.passthrough /\ e'.downs = e.downs
        BY <1>k, <4>1 DEF Reconfigure, EngineState
      <4> QED BY <1>k, <4>1, <4>2, SwitchRoutes
    <3> QED BY <1>7, <3>1, <3>2 DEF QuietStep
  <2>3. Ready(pad', e')
    BY <1>7, <1>i, <2>1, <2>2, ReadyOn
  <2> QED BY <1>1, <1>7, <2>1, <2>3
<1>8. ASSUME session = "running", Stop
      PROVE  PadInv'
  <2> DEFINE r == PadAfter(pad, Finish(composer).events)
  <2>1. r \in Pads /\ Legal(r)
    BY <1>8, <1>k, FinishFollows DEF PadInv
  <2>2. pad' = Settled(r) /\ session' # "running"
    BY <1>8 DEF Stop
  <2> HIDE DEF r
  <2>3. Legal(Settled(r))
    BY <2>1 DEF Settled, Pads, Legal
  <2> QED BY <1>a, <2>2, <2>3, AstrayOn DEF PadInv
<1>9. ASSUME session = "running", SessionFails
      PROVE  PadInv'
  <2>1. pad' = Settled(pad) /\ session' # "running"
    BY <1>9 DEF SessionFails
  <2>2. Legal(Settled(pad))
    BY <1>k DEF Settled, Pads, PadInv, Legal
  <2> QED BY <1>a, <2>1, <2>2, AstrayOn DEF PadInv
<1> QED BY <1>2, <1>3, <1>4, <1>5, <1>6, <1>7, <1>8, <1>9 DEF PNext

\* A touchpad labels all of its slots or none.
LabelsTyped == \A s \in Slots : HasToolType <=> labels[s] # None

LEMMA LabelsTypedAfter ==
  ASSUME LabelsTyped, NEW f \in Frames \cup OddFrames
  PROVE  \A s \in Slots : HasToolType <=> LabelsAfter(f.events)[s] # None
<1> SUFFICES ASSUME NEW s \in Slots PROVE HasToolType <=> LabelsAfter(f.events)[s] # None
  OBVIOUS
<1> DEFINE evs == f.events
           n == Len(evs)
           given == {j \in 1..n : evs[j].kind = "ToolType" /\ SlotFrom(kernel, evs, j) = s}
<1>0. evs \in Seq(Event) /\ n \in Nat /\ DOMAIN evs = 1..n
  BY FrameButtons
<1>1. LabelsAfter(evs)[s] = ToolFrom(kernel, labels, evs, n, s)
  BY <1>0, LabelsGiven
<1>2. CASE given = {}
  <2>1. LabelsAfter(evs)[s] = labels[s]
    BY <1>1, <1>2 DEF ToolFrom
  <2> QED BY <2>1 DEF LabelsTyped
<1>3. CASE given # {}
  <2>1. LabelsAfter(evs)[s] = evs[Max(given)].value
    BY <1>1, <1>3 DEF ToolFrom
  <2>2. given \in SUBSET (1..n)
    OBVIOUS
  <2>3. Max(given) \in given
    <3> HIDE DEF given, n
    <3> QED BY <1>0, <1>3, <2>2, LastIndex
  <2>4. Max(given) \in DOMAIN evs /\ evs[Max(given)].kind = "ToolType"
    BY <1>0, <2>3
  <2> HIDE DEF given
  <2> QED BY <2>1, <2>4, SentLabelsAssumption
<1> QED BY <1>2, <1>3

LEMMA InitLabelsTyped == PInit => LabelsTyped
BY SentLabelsAssumption DEF PInit, LabelsTyped

LEMMA StepLabelsTyped ==
  ASSUME LabelsTyped, [PNext]_pvars
  PROVE  LabelsTyped'
<1>1. ASSUME labels' = labels PROVE LabelsTyped'
  BY <1>1 DEF LabelsTyped
<1>2. ASSUME NEW f \in Frames \cup OddFrames, NEW t \in Stamps, TakeFrame(f, t)
      PROVE  LabelsTyped'
  BY <1>2, LabelsTypedAfter DEF TakeFrame, LabelsTyped
<1>3. ASSUME NEW snapshot \in Snapshots, Recover(snapshot) PROVE LabelsTyped'
  BY <1>3, SentLabelsAssumption DEF Recover, LabelsTyped
<1> QED
  BY <1>1, <1>2, <1>3 DEF PNext, EngineStep, WriteFrame, QuietStep, Stop, SessionFails, pvars

\* What makes PadMirrorsForwarded last.
MirrorsInv ==
  /\ TypeInv /\ PairInv(e) /\ FlagsInv
  /\ ~astray => Mirror /\ LabelInv
  /\ KeysInv /\ LabelsTyped /\ PadInv

\* A step that leaves the session straight.
LEMMA StraightStep ==
  ASSUME MirrorsInv, [PNext]_pvars, ~astray'
  PROVE  Mirror /\ LabelInv /\ RecoversInPlace
<1>1. ~astray
  BY DEF PNext, TakeFrame, EngineStep, WriteFrame, Recover, QuietStep, Stop, SessionFails, pvars
<1>2. ASSUME NEW snapshot \in Snapshots, Resync(snapshot)
      PROVE  snapshot.slot = RestoredSlot(SnapshotContacts(snapshot))
  <2>1. phase = "resync" /\ phase' = "finalize"
    BY <1>2 DEF Resync, Output
  <2>2. PICK other \in Snapshots : Recover(other)
    <3>1. ~EngineStep /\ ~WriteFrame /\ ~QuietStep /\ ~Stop /\ ~SessionFails /\ ~UNCHANGED pvars
      BY <2>1 DEF EngineStep, FrameStep, ScanEvent, BeginEvents, SlotSwitch, ContactDown,
         ContactUp, ToolType, Position, SynDropped, EventsDone, FinalizeSlot, AtEvent,
         WriteFrame, EndFrame, QuietStep, AdvanceTime, Reload, Stop, SessionFails, vars, pvars
    <3>2. \A f \in Frames \cup OddFrames, t \in Stamps : ~TakeFrame(f, t)
      BY <2>1 DEF TakeFrame, StartFrame
    <3> QED BY <3>1, <3>2 DEF PNext
  <2>3. kernel'.slot = snapshot.slot /\ kernel'.ids = snapshot.ids
        /\ kernel'.slot = other.slot /\ kernel'.ids = other.ids
    BY <1>2, <2>2 DEF Recover, Resync
  <2>4. other.slot = RestoredSlot(SnapshotContacts(other))
    BY <2>2 DEF Recover
  <2> QED BY <2>3, <2>4 DEF SnapshotContacts
<1> QED BY <1>1, <1>2 DEF MirrorsInv, RecoversInPlace

LEMMA MirrorsShow ==
  ASSUME MirrorsInv
  PROVE  PadMirrorsForwarded
<1>0. ~astray => OutputIsLegal
  BY DEF MirrorsInv, PadInv, OutputIsLegal, Legal
<1> SUFFICES ASSUME session = "running", phase = "idle"
             PROVE  /\ ContactsFollow /\ KeysFollowCount /\ pad.keys = physical
                    /\ ~astray => LabelsFollow
  BY <1>0 DEF PadMirrorsForwarded, BetweenFrames
<1> USE DEF MirrorsInv
<1>1. /\ pad \in Pads /\ Legal(pad) /\ InStep(composer, pad)
      /\ Live /\ Ready(pad, e)
  BY IdleIsLive DEF KeysInv, PadInv
<1>2. e.passthrough = <<>> /\ \A s \in Slots : e.downs[s] = <<>>
  BY DEF FlagsInv
<1>3. \A s \in Slots : SlotShown(pad, e, {}, s)
  BY <1>1, <1>2, IdleShown, QuietShown
<1>4. ContactsFollow
  BY <1>3 DEF ContactsFollow, SlotShown, Passed, Forwarded
<1>5. ForwardedSlots = ActiveOutputSlots(composer)
  <2>1. ASSUME NEW s \in Slots PROVE Forwarded(s) <=> composer.slots[s].active
    <3>1. composer.slots[s].active <=> pad.ids[s] # None
      BY <1>1 DEF InStep, CanLift, ContactsAgree
    <3>2. Forwarded(s) => e.contact[s].tracking_id # None
      BY DEF PairInv, SlotInv, Forwarded
    <3> QED BY <1>4, <3>1, <3>2 DEF ContactsFollow
  <2> QED BY <2>1 DEF ForwardedSlots, ActiveOutputSlots
<1>6. KeysFollowCount
  <2> DEFINE count == Cardinality(ForwardedSlots)
  <2>1. count = composer.contact_count /\ count \in Nat
    BY <1>1, <1>5, CountType DEF InStep
  <2>2. /\ pad.touch <=> count > 0
        /\ pad.tools = IF count > 0 THEN {ToolFor(count)} ELSE {}
    BY <1>1, <2>1 DEF InStep, PointerAgrees
  <2> HIDE DEF count
  <2>3. pad.tools = IF count = 0 THEN {} ELSE {ToolFor(count)}
    BY <2>1, <2>2
  <2> QED BY <2>2, <2>3 DEF KeysFollowCount, count
<1>7. ASSUME ~astray PROVE LabelsFollow
  <2> SUFFICES ASSUME NEW s \in ForwardedSlots
               PROVE  pad.tool[s] = IF PalmRejection /\ labels[s] # None THEN labels[s]
                                    ELSE FingerTool
    BY DEF LabelsFollow
  <2>1. s \in Slots /\ Passed(e, s)
    BY DEF ForwardedSlots, Forwarded, Passed
  <2>2. HasToolType <=> labels[s] # None
    BY <2>1 DEF LabelsTyped
  <2>3. CASE Labelled
    <3>1. e.memory[s].tool_type = labels[s] /\ labels[s] # None /\ PalmRejection
      BY <1>1, <1>7, <2>1, <2>2, <2>3 DEF Labelled, LabelInv, MemoryFollows
    <3> QED BY <1>3, <2>1, <2>3, <3>1 DEF SlotShown
  <2>4. CASE ~Labelled
    <3>1. pad.tool[s] = FingerTool
      BY <2>1, <2>4 DEF PadInv
    <3> QED BY <2>2, <2>4, <3>1 DEF Labelled
  <2> QED BY <2>3, <2>4
<1>8. pad.keys = physical
  <2>1. pad.keys = composer.pressed /\ buttons = <<>>
        /\ physical = ButtonsAfter(composer.pressed, buttons)
    BY DEF KeysInv
  <2> QED BY <2>1, ButtonsNothing
<1> QED BY <1>4, <1>6, <1>7, <1>8

\* Between frames the virtual touchpad has exactly the contacts that the engine
\* forwards, with their ids and number, and the buttons, whatever was held back,
\* promoted, lost or restored on the way and whichever slot the kernel was at.
\* Until a recovery takes the kernel to be at another slot it has their labels
\* too, and no frame replaces a contact that is down or lifts one that is not.
THEOREM PadMirrors == PSpec => []PadMirrorsForwarded
<1>1. PInit => MirrorsInv
  BY InitType, InitPair, InitFlags, InitMirror, InitLabels, InitKeys, InitLabelsTyped, InitPad
  DEF PInit, MirrorsInv
<1>2. MirrorsInv /\ [PNext]_pvars => MirrorsInv'
  <2> SUFFICES ASSUME MirrorsInv, [PNext]_pvars PROVE MirrorsInv'
    OBVIOUS
  <2> USE DEF MirrorsInv
  <2>1. [Next]_vars
    BY EngineSteps
  <2>2. TypeInv' /\ PairInv(e)' /\ FlagsInv'
    BY <2>1, StepType, StepPair, StepFlags
  <2>3. KeysInv' /\ LabelsTyped' /\ PadInv'
    BY StepKeys, StepLabelsTyped, StepPad
  <2>4. ASSUME ~astray' PROVE Mirror' /\ LabelInv'
    <3>1. Mirror /\ LabelInv /\ RecoversInPlace
      BY <2>4, StraightStep
    <3> QED BY <2>1, <3>1, StepMirrorInPlace, StepLabels
  <2> QED BY <2>2, <2>3, <2>4
<1>3. MirrorsInv => PadMirrorsForwarded
  BY MirrorsShow
<1> QED BY <1>1, <1>2, <1>3, PTL DEF PSpec

=============================================================================
