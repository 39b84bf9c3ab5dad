-------------------------------- MODULE Capture --------------------------------
(***************************************************************************)
(* edgepad dump: events wait in the kernel's buffer, are fetched in        *)
(* batches and written line by line to a capture file (src/app/capture.rs, *)
(* src/dump.rs); and what a parser reads from a file that ends anywhere    *)
(* (src/replay.rs, src/raw/parse.rs, src/capture_metadata.rs).             *)
(*                                                                         *)
(* One finger stands for all contacts.  A line is a record of its fields.  *)
(***************************************************************************)
EXTENDS Integers, FiniteSets, SequencesExt

CONSTANTS
  Formats,      \* of them "replay" and "raw"
  Budgets,      \* --frames, or None
  Extras,       \* events a touchpad reports beside its contacts
  BufferSize,   \* of the kernel, in events
  ReadSize,     \* events one read can return
  ClockSteps,   \* bound: how often the clock of the stamps is set back
  MaxPackets    \* bound: packets the touchpad sends

None == -1

EventOf(type, code, value) == [type |-> type, code |-> code, value |-> value, at |-> None]

ASSUME FormatsAssumption == Formats \subseteq {"replay", "raw"}
ASSUME BudgetsAssumption == Budgets \subseteq (Nat \ {0}) \cup {None}
\* A code belongs to one type; "#" begins a comment.
ASSUME ExtrasAssumption ==
  \A ev \in Extras : /\ ev = EventOf(ev.type, ev.code, ev.value)
                     /\ ev.type \notin {"EV_SYN", "#"}
                     /\ ev.code \notin {"SYN_REPORT", "SYN_DROPPED"}
\* The kernel has room for several packets.
ASSUME SizesAssumption ==
  /\ BufferSize \in Nat /\ BufferSize > 4 /\ ReadSize \in Nat \ {0}
  /\ ClockSteps \in Nat /\ MaxPackets \in Nat

VARIABLES
  touching,   \* a finger is on the touchpad
  buffer,     \* events the kernel holds for this reader
  clock,      \* of the stamps: [now, sets]
  packets,    \* how many packets were sent
  format,     \* DumpFormat
  capable,    \* the device has the three multitouch axes
  budget,     \* DumpFrameBudget: [remaining, draining]
  batch,      \* fetched events still to be written
  result,     \* WriteEventsResult of the batch
  phase,      \* "header", "read", "write" or "query"
  outcome,    \* "running"; then "finished", or "stopped" from without
  capture,    \* lines on the disk
  written,    \* history: the events that were to be written
  requested   \* the budget it began with

padVars == <<touching, buffer, clock, packets>>
captureVars == <<capture, written>>
settings == <<format, capable, requested>>
cvars == <<padVars, settings, budget, batch, result, phase, outcome, captureVars>>

NoResult == [boundaries |-> 0, ends |-> FALSE]

CInit ==
  /\ touching \in BOOLEAN /\ buffer = <<>>
  /\ clock = [now |-> ClockSteps, sets |-> 0] /\ packets = 0
  /\ format \in Formats /\ capable \in BOOLEAN
  /\ requested \in Budgets
  /\ budget = [remaining |-> requested, draining |-> FALSE]
  /\ batch = <<>> /\ result = NoResult
  /\ phase = "header" /\ outcome = "running"
  /\ capture = <<>> /\ written = <<>>

-----------------------------------------------------------------------------
(* The kernel                                                              *)

ContactId(id) == EventOf("EV_ABS", "ABS_MT_TRACKING_ID", id)
TouchKey(value) == EventOf("EV_KEY", "BTN_TOUCH", value)
Syn(code) == EventOf("EV_SYN", code, 0)

\* Events are put in one by one; the one that finds no room drops all before it.
Buffered(events) ==
  IF Len(buffer) + Len(events) < BufferSize THEN buffer \o events
  ELSE <<[Syn("SYN_DROPPED") EXCEPT !.at = clock.now]>>
       \o SubSeq(events, BufferSize - Len(buffer), Len(events))

\* Events of one packet carry one stamp, and a reader sees whole packets only.
Send(events) ==
  LET packet == [i \in 1..(Len(events) + 1) |->
                   [Append(events, Syn("SYN_REPORT"))[i] EXCEPT !.at = clock.now]]
  IN /\ outcome = "running" /\ packets < MaxPackets
     /\ buffer' = Buffered(packet)
     /\ clock' = [clock EXCEPT !.now = @ + 1]
     /\ packets' = packets + 1
     /\ UNCHANGED <<settings, budget, batch, result, phase, outcome, captureVars>>

Touch == ~touching /\ touching' = TRUE /\ Send(<<ContactId(7), TouchKey(1)>>)
Lift == touching /\ touching' = FALSE /\ Send(<<ContactId(None), TouchKey(0)>>)
Report(extra) == UNCHANGED touching /\ Send(<<extra>>)

\* The stamps are real time, which can be set.
SetClockBack ==
  /\ outcome = "running" /\ clock.sets < ClockSteps
  /\ clock' = [now |-> 0, sets |-> clock.sets + 1]
  /\ UNCHANGED <<touching, buffer, packets, settings, budget, batch, result, phase,
                 outcome, captureVars>>

-----------------------------------------------------------------------------
(* Lines: an event's fields, or a field of the header.                     *)

IsBoundary(line) ==
  line.type = "EV_SYN" /\ line.code \in {"SYN_REPORT", "SYN_DROPPED"} /\ line.value = 0

\* Only a boundary carries its stamp.
LineOf(ev, named) ==
  [type |-> ev.type, code |-> ev.code, value |-> ev.value, named |-> named,
   at |-> IF IsBoundary(ev) THEN ev.at ELSE None]

HeaderLine(name) ==
  [type |-> "#", code |-> name, value |-> 0, named |-> TRUE, at |-> None]

\* write_capture_header, with the axes capabilities_from_raw_device found.
Header ==
  IF capable THEN <<HeaderLine("slots"), HeaderLine("x"), HeaderLine("y")>>
  ELSE <<HeaderLine("unavailable")>>

\* The names of the replay format; other events are left out of it.
FixtureCodes ==
  { "ABS_MT_SLOT", "ABS_MT_TRACKING_ID", "ABS_MT_POSITION_X", "ABS_MT_TOOL_TYPE",
    "ABS_MT_POSITION_Y", "SYN_REPORT", "SYN_DROPPED" }

FixtureLines(ev) ==
  IF ev.code \in FixtureCodes THEN <<LineOf(ev, TRUE)>> ELSE <<>>

\* The codes that raw lines give a name; others are written as numbers.
SynNames == {"SYN_REPORT", "SYN_DROPPED"}
MiscNames == {"MSC_TIMESTAMP"}
AxisNames ==
  { "ABS_X", "ABS_Y", "ABS_MT_SLOT", "ABS_MT_TOUCH_MAJOR", "ABS_MT_TOUCH_MINOR",
    "ABS_MT_WIDTH_MAJOR", "ABS_MT_WIDTH_MINOR", "ABS_MT_ORIENTATION",
    "ABS_MT_POSITION_X", "ABS_MT_POSITION_Y", "ABS_MT_TOOL_TYPE", "ABS_MT_BLOB_ID",
    "ABS_MT_TRACKING_ID", "ABS_MT_PRESSURE", "ABS_MT_DISTANCE", "ABS_MT_TOOL_X",
    "ABS_MT_TOOL_Y" }
KeyNames ==
  { "BTN_LEFT", "BTN_RIGHT", "BTN_MIDDLE", "BTN_SIDE", "BTN_EXTRA", "BTN_TOUCH",
    "BTN_TOOL_FINGER", "BTN_TOOL_DOUBLETAP", "BTN_TOOL_TRIPLETAP",
    "BTN_TOOL_QUADTAP", "BTN_TOOL_QUINTTAP" }

RawLines(ev) ==
  <<LineOf(ev, CASE ev.type = "EV_SYN" -> ev.code \in SynNames
                 [] ev.type = "EV_KEY" -> ev.code \in KeyNames
                 [] ev.type = "EV_ABS" -> ev.code \in AxisNames
                 [] ev.type = "EV_MSC" -> ev.code \in MiscNames
                 [] OTHER -> FALSE)>>

LinesFor(ev) == IF format = "raw" THEN RawLines(ev) ELSE FixtureLines(ev)

-----------------------------------------------------------------------------
(* Reading a file back                                                     *)

\* The codes that the raw parser knows by name.
ReadSynNames == {"SYN_REPORT", "SYN_DROPPED"}
ReadMiscNames == {"MSC_TIMESTAMP"}
ReadAxisNames ==
  { "ABS_X", "ABS_Y", "ABS_MT_SLOT", "ABS_MT_TOUCH_MAJOR", "ABS_MT_TOUCH_MINOR",
    "ABS_MT_WIDTH_MAJOR", "ABS_MT_WIDTH_MINOR", "ABS_MT_ORIENTATION",
    "ABS_MT_POSITION_X", "ABS_MT_POSITION_Y", "ABS_MT_TOOL_TYPE", "ABS_MT_BLOB_ID",
    "ABS_MT_TRACKING_ID", "ABS_MT_PRESSURE", "ABS_MT_DISTANCE", "ABS_MT_TOOL_X",
    "ABS_MT_TOOL_Y" }
ReadKeyNames ==
  { "BTN_LEFT", "BTN_RIGHT", "BTN_MIDDLE", "BTN_SIDE", "BTN_EXTRA",
    "BTN_TOOL_FINGER", "BTN_TOOL_QUINTTAP", "BTN_TOUCH", "BTN_TOOL_DOUBLETAP",
    "BTN_TOOL_TRIPLETAP", "BTN_TOOL_QUADTAP" }

\* parse_event_code; a type that is a number has no names.
IsReadable(line) ==
  line.named =>
    CASE line.type = "EV_SYN" -> line.code \in ReadSynNames
      [] line.type = "EV_KEY" -> line.code \in ReadKeyNames
      [] line.type = "EV_ABS" -> line.code \in ReadAxisNames
      [] line.type = "EV_MSC" -> line.code \in ReadMiscNames
      [] OTHER -> FALSE

Rejected(acc, error) == [acc EXCEPT !.error = error]
ParsedFrame(events, at) == [events |-> events, at |-> at]
Content(line) == EventOf(line.type, line.code, line.value)

\* Mutant: what came before lost events is kept for the next frame.
KeepCurrent(acc, line) ==
  CASE line.code = "SYN_DROPPED" ->
         [acc EXCEPT !.last = line.at,
                     !.frames = Append(@, ParsedFrame(<<Content(line)>>, line.at))]
    [] OTHER ->
         [acc EXCEPT !.last = line.at, !.current = <<>>,
                     !.frames = IF acc.current = <<>> THEN @
                                ELSE Append(@, ParsedFrame(acc.current, line.at))]

\* The boundaries of both parsers.
EndFrameAt(acc, line) ==
  CASE line.at = None -> Rejected(acc, "MissingValue")
    [] line.at # None /\ line.at < acc.last -> Rejected(acc, "NonMonotonicTimestamp")
    [] OTHER ->
         LET events == IF line.code = "SYN_DROPPED" THEN <<Content(line)>>
                       ELSE acc.current
         IN [acc EXCEPT !.last = line.at, !.current = <<>>,
                        !.frames = IF events = <<>> THEN @
                                   ELSE Append(@, ParsedFrame(events, line.at))]

IsSyn(line) == line.code \in {"SYN_REPORT", "SYN_DROPPED"}

\* One line of parse_frames; a comment is skipped.
ReadFixtureLine(acc, line) ==
  IF acc.error # "none" \/ line.type = "#" THEN acc
  ELSE IF line.code \notin FixtureCodes THEN Rejected(acc, "UnknownEvent")
  ELSE IF IsSyn(line) THEN EndFrameAt(acc, line)
  ELSE [acc EXCEPT !.current = Append(@, Content(line))]

\* One line of parse_raw_frames.
ReadRawLine(acc, line) ==
  IF acc.error # "none" \/ line.type = "#" THEN acc
  ELSE IF ~IsReadable(line) THEN Rejected(acc, "UnknownCode")
  ELSE IF line.type = "EV_SYN" /\ IsSyn(line) THEN EndFrameAt(acc, line)
  ELSE IF line.at # None THEN Rejected(acc, "ExtraField")
  ELSE [acc EXCEPT !.current = Append(@, Content(line))]

\* parse_capabilities: all of the metadata, or none of it.
Metadata(lines) ==
  {lines[i].code : i \in {j \in DOMAIN lines : lines[j].type = "#"}} \ {"unavailable"}

ReadHeader(acc, lines) ==
  IF Metadata(lines) \in {{}, {"slots", "x", "y"}} THEN acc
  ELSE Rejected(acc, "MissingMetadataField")

\* Nothing may follow the last boundary.
Terminated(acc) ==
  IF acc.error = "none" /\ acc.current # <<>> THEN Rejected(acc, "UnterminatedFrame")
  ELSE acc

NothingRead == [frames |-> <<>>, current |-> <<>>, last |-> None, error |-> "none"]

Parse(lines) ==
  LET start == ReadHeader(NothingRead, lines)
  IN Terminated(IF format = "raw" THEN FoldLeft(ReadRawLine, start, lines)
                ELSE FoldLeft(ReadFixtureLine, start, lines))

-----------------------------------------------------------------------------
(* The command                                                             *)

\* One line of the header reaches the file.
WriteHeader ==
  /\ phase = "header" /\ outcome = "running"
  /\ capture' = Append(capture, Header[Len(capture) + 1])
  /\ phase' = IF Len(capture) + 1 = Len(Header) THEN "read" ELSE "header"
  /\ UNCHANGED <<padVars, settings, budget, batch, result, outcome, written>>

\* fetch_events
Fetch ==
  /\ phase = "read" /\ outcome = "running" /\ buffer # <<>>
  /\ LET n == IF ReadSize < Len(buffer) THEN ReadSize ELSE Len(buffer)
     IN /\ batch' = SubSeq(buffer, 1, n)
        /\ buffer' = SubSeq(buffer, n + 1, Len(buffer))
  /\ result' = NoResult
  /\ phase' = "write"
  /\ UNCHANGED <<touching, clock, packets, settings, budget, outcome, captureVars>>

IsReached == budget.remaining = 0

\* observe_frame_boundary
Observed(b) == IF b.remaining > 0 THEN [b EXCEPT !.remaining = @ - 1] ELSE b

CanFinish(res) == res.boundaries > 0 /\ res.ends

\* One iteration of write_{fixture,raw}_events_with_budget; lines that are not
\* written change nothing of the result.
WriteEvent ==
  /\ phase = "write" /\ outcome = "running" /\ batch # <<>>
  /\ LET lines == LinesFor(Head(batch))
     IN /\ capture' = capture \o lines
        /\ result' = CASE lines = <<>> -> result
                       [] lines # <<>> /\ IsBoundary(lines[1]) ->
                            [boundaries |-> result.boundaries + 1, ends |-> TRUE]
                       [] OTHER -> [result EXCEPT !.ends = FALSE]
        /\ budget' = IF lines # <<>> /\ IsBoundary(lines[1]) THEN Observed(budget)
                     ELSE budget
  /\ written' = Append(written, Head(batch))
  /\ batch' = Tail(batch)
  /\ UNCHANGED <<padVars, settings, phase, outcome>>

\* The batch is written: a reached budget asks whether the touchpad rests.
EndBatch ==
  /\ phase = "write" /\ outcome = "running" /\ batch = <<>>
  /\ phase' = IF IsReached /\ CanFinish(result) THEN "query" ELSE "read"
  /\ UNCHANGED <<padVars, settings, budget, batch, result, outcome, captureVars>>

\* Mutant: the question is asked once; then it waits for the drain to end.
AskOnce ==
  /\ phase = "query" /\ outcome = "running"
  /\ outcome' = IF ~touching /\ ~budget.draining THEN "finished" ELSE outcome
  /\ budget' = [budget EXCEPT !.draining = TRUE]
  /\ phase' = "read"
  /\ UNCHANGED <<padVars, settings, batch, result, captureVars>>

\* physical_touch_is_down reads what the kernel holds by now, and
\* decide_after_batch takes it.
Decide ==
  /\ phase = "query" /\ outcome = "running"
  /\ outcome' = IF touching THEN outcome ELSE "finished"
  /\ budget' = [budget EXCEPT !.draining = @ \/ touching]
  /\ phase' = "read"
  /\ UNCHANGED <<padVars, settings, batch, result, captureVars>>

\* Ctrl+C has no handler here; each whole line is on the disk by then.
Interrupt ==
  /\ outcome = "running"
  /\ outcome' = "stopped"
  /\ UNCHANGED <<padVars, settings, budget, batch, result, phase, captureVars>>

\* The device is gone.
DeviceFails ==
  /\ phase \in {"read", "query"} /\ outcome = "running"
  /\ outcome' = "stopped"
  /\ UNCHANGED <<padVars, settings, budget, batch, result, phase, captureVars>>

Work == WriteHeader \/ Fetch \/ WriteEvent \/ EndBatch \/ Decide

CNext ==
  \/ Touch \/ Lift \/ (\E extra \in Extras : Report(extra)) \/ SetClockBack
  \/ Work \/ Interrupt \/ DeviceFails

\* The command is scheduled; nobody has to touch the pad or interrupt it.
CSpec == CInit /\ [][CNext]_cvars /\ WF_cvars(Work)

-----------------------------------------------------------------------------
(* Properties                                                              *)

\* What the events of the capture say, frame by frame: at the boundary with
\* index i, the events since the last one that the format keeps.
Boundaries(evs) == {i \in DOMAIN evs : IsSyn(evs[i])}
AddKept(kept, ev) == IF ev.code \in FixtureCodes THEN Append(kept, Content(ev)) ELSE kept
KeptBefore(evs, i) ==
  LET last == Max({0} \cup {j \in Boundaries(evs) : j < i})
      between == SubSeq(evs, last + 1, i - 1)
  IN IF format = "raw" THEN [j \in DOMAIN between |-> Content(between[j])]
     ELSE FoldLeft(AddKept, <<>>, between)
FrameAt(evs, i) ==
  ParsedFrame(CASE ~IsSyn(evs[i]) -> <<>>
                [] evs[i].code = "SYN_DROPPED" -> <<Content(evs[i])>>
                [] OTHER -> KeptBefore(evs, i), evs[i].at)
AddFrame(frames, f) == IF f.events = <<>> THEN frames ELSE Append(frames, f)
FramesOf(evs) == FoldLeft(AddFrame, <<>>, [i \in DOMAIN evs |-> FrameAt(evs, i)])

\* Wherever a capture is cut off, and however reads split it into batches, its
\* file is read back as exactly the frames that were recorded, lost events
\* included, or it is refused for what it lacks: the end of its last frame or
\* of its header.  Nothing else is refused while the clock only goes forward.
\* One that ended by itself lacks nothing, and has the frames it was asked for.
FileIsExactOrRefused ==
  LET parsed == Parse(capture)
  IN /\ CASE parsed.error = "none" -> parsed.frames = FramesOf(written)
            [] parsed.error = "UnterminatedFrame" ->
                 parsed.frames = FramesOf(written) /\ outcome # "finished"
            [] parsed.error = "MissingMetadataField" -> phase = "header"
            [] parsed.error = "NonMonotonicTimestamp" -> clock.sets > 0
            [] OTHER -> FALSE
     /\ outcome = "finished" => Cardinality({i \in DOMAIN capture : IsSyn(capture[i])}) >= requested

\* Once its budget is reached, a capture ends if the finger comes up for good,
\* whatever was lost or split on the way.
CaptureEnds ==
  []<>touching \/ (IsReached ~> outcome # "running")

=============================================================================
