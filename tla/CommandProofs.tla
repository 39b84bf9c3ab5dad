---------------------------- MODULE CommandProofs ----------------------------
(***************************************************************************)
(* Theorems about two of the commands.  The daemon's promises hold for any *)
(* configuration files, any timeouts and any number of signals, edits and  *)
(* attempts: no reload request is lost, one configuration rules everything *)
(* and the touchpad is handed over safely.  A capture's file is exact, or  *)
(* refused, for any contacts, reports, budgets, buffers and clocks.        *)
(***************************************************************************)
EXTENDS Daemon, Capture, FiniteSetTheorems, SequenceTheorems, TLAPS

\* Where the daemon's thread is, in the order of an attempt.
Applying == {"reload", "load", "apply"}
Starting == {"resolve", "open", "idle?", "create", "grab", "slots", "ready"}
Closing == {"settle", "ungrab", "drop"}

\* It is within the session, or applies a reload for it.
InSession == pc = "session" \/ (pc \in Applying /\ after = "session")
\* Before the first session.
BeforeReady == pc \in {"check", "clone", "wait"} \cup Starting
               \/ (pc \in Applying /\ after = "clone")

FlagInv ==
  /\ flags \in [stop : BOOLEAN, reload : BOOLEAN]
  /\ watcher \in {"stop?", "reload?", "forward", "ended"}
  /\ ReloadIsRecorded

\* An attempt starts with what is active, and only a session has a recognizer.
ConfigInv ==
  /\ pc \in Applying => after \in {"clone", "session"}
  /\ bindings = active
  /\ pc \in Starting => config = active
  /\ recognition # NoFile => recognition = active /\ (InSession \/ pc \in Closing)

\* The virtual touchpad is there before the grab and neutral after the session;
\* an error that may be retried is one of startup's.
HandoverInv ==
  /\ ready \in {0, 1}
  /\ ready = 1 => ~BeforeReady
  /\ pc \in Starting \/ InSession => error = Nothing
  /\ ready = 1 => ~ShouldRetry(error)
  /\ pc \in {"grab", "slots", "ready"} => pad = "neutral"
  /\ pc \in {"slots", "ready"} => grabbed
  /\ pc \in {"ungrab", "drop"} => pad = "neutral" \/ unsettled
  /\ pc \in {"check", "clone", "wait", "resolve", "open", "idle?", "create", "grab",
            "result"} => ~grabbed
  /\ pc \in Applying /\ after = "clone" => ~grabbed

DInv == FlagInv /\ ConfigInv /\ HandoverInv

LEMMA DInitInv == DInit => DInv
BY DEF DInit, DInv, FlagInv, ReloadIsRecorded, ConfigInv, HandoverInv, InSession, BeforeReady,
       Applying, Starting, Closing, ShouldRetry, Nothing

\* One fact per action: what it does to the requests, ...
LEMMA FlagStep == ASSUME FlagInv, [DNext]_dvars PROVE FlagInv'
<1> USE DEF FlagInv, ReloadIsRecorded
<1>1. CASE Terminate
  BY <1>1 DEF Terminate, watchVars, mainVars
<1>2. CASE HangUp
  BY <1>2 DEF HangUp, watchVars, mainVars
<1>3. CASE Watch
  <2>1. CASE WatchStop
    BY <2>1 DEF WatchStop, mainVars
  <2>2. CASE WatchReload
    BY <2>2 DEF WatchReload, mainVars
  <2>3. CASE Forward
    BY <2>3 DEF Forward, mainVars, signalVars
  <2> QED BY <1>3, <2>1, <2>2, <2>3 DEF Watch
<1>4. CASE CheckStop \/ TakeRequest \/ Load \/ Apply
  BY <1>4 DEF CheckStop, TakeRequest, Load, Apply, Adopt, Goto, mainUnmoved, signalVars,
              watchVars
<1>5. CASE Attempt
  BY <1>5 DEF Attempt, Clone, Resolve, OpenDevice, EnsureIdle, CreatePad, Grab, ReadSlots,
              NotifyReady, Goto, Fail, mainUnmoved, signalVars, watchVars
<1>6. CASE Settle \/ Ungrab \/ Drop \/ Result \/ Wait \/ Shutdown
  BY <1>6 DEF Settle, Ungrab, Drop, Result, Wait, Shutdown, Goto, Fail, mainUnmoved, signalVars,
              watchVars
<1>7. CASE SessionFrame \/ SessionReloads \/ SessionEnds \/ SessionFails
  BY <1>7 DEF SessionFrame, SessionReloads, SessionEnds, SessionFails, Goto, Fail, mainUnmoved,
              mainVars, signalVars, watchVars
<1>8. CASE (\E f \in Files : EditFile(f)) \/ MoveFinger \/ Tick
  BY <1>8 DEF EditFile, MoveFinger, Tick, mainVars, signalVars, watchVars
<1>9. CASE UNCHANGED dvars
  BY <1>9 DEF dvars, mainVars, signalVars, watchVars
<1> QED BY <1>1, <1>2, <1>3, <1>4, <1>5, <1>6, <1>7, <1>8, <1>9 DEF DNext, MainStep

\* ... to the configurations, ...
LEMMA ConfigStep == ASSUME ConfigInv, [DNext]_dvars PROVE ConfigInv'
<1> USE DEF ConfigInv, InSession, Applying, Starting, Closing
<1>1. CASE Terminate \/ HangUp \/ Watch
  BY <1>1 DEF Terminate, HangUp, Watch, WatchStop, WatchReload, Forward, configVars, mainVars
<1>2. CASE CheckStop
  BY <1>2 DEF CheckStop, configVars
<1>3. CASE TakeRequest
  BY <1>3 DEF TakeRequest, Goto, configVars
<1>4. CASE Load
  BY <1>4 DEF Load, Goto
<1>5. CASE Apply
  BY <1>5 DEF Apply, Adopt, Goto
<1>6. CASE Clone
  BY <1>6 DEF Clone, Fail
<1>7. CASE Resolve \/ OpenDevice \/ EnsureIdle \/ CreatePad \/ Grab \/ ReadSlots
  BY <1>7 DEF Resolve, OpenDevice, EnsureIdle, CreatePad, Grab, ReadSlots, Goto, Fail, configVars
<1>8. CASE NotifyReady
  BY <1>8 DEF NotifyReady, Goto, Fail
<1>9. CASE Settle \/ Ungrab
  BY <1>9 DEF Settle, Ungrab, Goto, Fail, configVars
<1>10. CASE Drop \/ Result
  BY <1>10 DEF Drop, Result, Goto
<1>11. CASE Wait \/ Shutdown
  BY <1>11 DEF Wait, Shutdown, Goto, configVars
<1>12. CASE SessionFrame \/ SessionReloads \/ SessionEnds \/ SessionFails
  BY <1>12 DEF SessionFrame, SessionReloads, SessionEnds, SessionFails, Goto, Fail, configVars,
               mainVars
<1>13. CASE (\E f \in Files : EditFile(f)) \/ MoveFinger \/ Tick \/ UNCHANGED dvars
  BY <1>13 DEF EditFile, MoveFinger, Tick, dvars, configVars, mainVars
<1> QED BY <1>1, <1>2, <1>3, <1>4, <1>5, <1>6, <1>7, <1>8, <1>9, <1>10, <1>11, <1>12, <1>13
        DEF DNext, MainStep, Attempt

\* ... and to the two touchpads.
LEMMA HandoverStep == ASSUME ConfigInv, HandoverInv, [DNext]_dvars PROVE HandoverInv'
<1> USE DEF HandoverInv, InSession, BeforeReady, Applying, Starting, ShouldRetry, Nothing
<1>1. CASE Terminate \/ HangUp \/ Watch
  BY <1>1 DEF Terminate, HangUp, Watch, WatchStop, WatchReload, Forward, deviceVars, mainVars
<1>2. CASE CheckStop \/ TakeRequest \/ Load \/ Apply
  BY <1>2 DEF CheckStop, TakeRequest, Load, Apply, Adopt, Goto, deviceVars, ConfigInv
<1>3. CASE Clone \/ Resolve \/ OpenDevice \/ EnsureIdle
  BY <1>3 DEF Clone, Resolve, OpenDevice, EnsureIdle, Goto, Fail, deviceVars
<1>4. CASE CreatePad \/ Grab
  <2>1. CASE CreatePad
    BY <2>1 DEF CreatePad, Goto, Fail
  <2>2. CASE Grab /\ grabbed'
    BY <2>2 DEF Grab, Goto, Fail
  <2>3. CASE Grab /\ ~grabbed'
    BY <2>3 DEF Grab, Goto, Fail
  <2> QED BY <1>4, <2>1, <2>2, <2>3
<1>5. CASE ReadSlots
  <2>1. pad = "neutral" /\ grabbed /\ ready = 0 /\ error = Nothing
    BY <1>5 DEF ReadSlots
  <2>2. UNCHANGED <<grabbed, pad, ready, unsettled>>
    BY <1>5 DEF ReadSlots, deviceVars
  <2>3. (pc' = "ready" /\ error' = error) \/ pc' = "ungrab"
    BY <1>5 DEF ReadSlots, Goto, Fail
  <2> QED BY <2>1, <2>2, <2>3
<1>6. CASE NotifyReady
  <2>1. /\ pad = "neutral" /\ grabbed /\ ready = 0 /\ error = Nothing
        /\ pad' = pad /\ grabbed' = grabbed
    BY <1>6 DEF NotifyReady
  <2>2. CASE pc' = "session" /\ ready' = 1 /\ error' = Nothing
    BY <2>1, <2>2
  <2>3. CASE pc' = "ungrab" /\ ready' = 0
    BY <2>1, <2>3
  <2> QED BY <1>6, <2>1, <2>2, <2>3 DEF NotifyReady, Goto, Fail
<1>7. CASE Settle
  BY <1>7 DEF Settle, Goto, Fail
<1>8. CASE Ungrab \/ Drop
  BY <1>8 DEF Ungrab, Drop, Goto, Fail
<1>9. CASE Result \/ Wait \/ Shutdown
  BY <1>9 DEF Result, Wait, Shutdown, Goto, deviceVars
<1>10. CASE SessionFrame \/ SessionReloads \/ SessionEnds \/ SessionFails
  BY <1>10 DEF SessionFrame, SessionReloads, SessionEnds, SessionFails, Goto, Fail, deviceVars,
               mainVars
<1>11. CASE (\E f \in Files : EditFile(f)) \/ MoveFinger \/ Tick \/ UNCHANGED dvars
  BY <1>11 DEF EditFile, MoveFinger, Tick, dvars, deviceVars, mainVars
<1> QED BY <1>1, <1>2, <1>3, <1>4, <1>5, <1>6, <1>7, <1>8, <1>9, <1>10, <1>11
        DEF DNext, MainStep, Attempt

\* The inductive invariant of the daemon.
THEOREM DaemonInvariant == DSpec => []DInv
<1>1. DInv /\ [DNext]_dvars => DInv'
  BY FlagStep, ConfigStep, HandoverStep DEF DInv
<1> QED BY <1>1, DInitInv, PTL DEF DSpec

\* A reload request is noted somewhere until the file is read again, however
\* signals, watcher and daemon interleave.
THEOREM NoReloadIsLost == DSpec => []ReloadIsRecorded
<1>1. DInv => ReloadIsRecorded
  BY DEF DInv, FlagInv
<1> QED BY <1>1, DaemonInvariant, PTL

\* Recognizer and dispatcher always follow the same configuration.
THEOREM ConfigurationIsOne == DSpec => []OneConfiguration
<1>1. DInv => OneConfiguration
  BY DEF DInv, ConfigInv, OneConfiguration
<1> QED BY <1>1, DaemonInvariant, PTL

\* The touchpad is grabbed only behind a virtual one and given back neutral, and
\* a daemon that was ready never starts anew.
THEOREM HandoverIsSafe == DSpec => Handover
<1>1. ASSUME DInv, DNext
      PROVE  /\ grabbed' /\ ~grabbed => pad # Nothing
             /\ grabbed /\ ~grabbed' => pad = "neutral" \/ unsettled
             /\ ready > 0 => pc' # "wait"
             /\ ready' > ready => grabbed /\ pad # Nothing /\ ready = 0
  <2> USE <1>1 DEF DInv, HandoverInv, InSession, BeforeReady, Applying, Starting
  <2>1. CASE Terminate \/ HangUp \/ Watch
    BY <2>1 DEF Terminate, HangUp, Watch, WatchStop, WatchReload, Forward, deviceVars, mainVars
  <2>2. CASE CheckStop \/ TakeRequest \/ Load \/ Apply
    BY <2>2 DEF CheckStop, TakeRequest, Load, Apply, Adopt, Goto, deviceVars, ConfigInv
  <2>3. CASE Clone \/ Resolve \/ OpenDevice \/ EnsureIdle \/ ReadSlots
    BY <2>3 DEF Clone, Resolve, OpenDevice, EnsureIdle, ReadSlots, Goto, Fail, deviceVars
  <2>4. CASE CreatePad \/ Grab \/ NotifyReady
    BY <2>4 DEF CreatePad, Grab, NotifyReady, Goto, Fail, Nothing
  <2>5. CASE Settle \/ Ungrab \/ Drop
    BY <2>5 DEF Settle, Ungrab, Drop, Goto, Fail
  <2>6. CASE Result \/ Wait \/ Shutdown
    BY <2>6 DEF Result, Wait, Shutdown, Goto, deviceVars
  <2>7. CASE SessionFrame \/ SessionReloads \/ SessionEnds \/ SessionFails
    BY <2>7 DEF SessionFrame, SessionReloads, SessionEnds, SessionFails, Goto, Fail, deviceVars,
                mainVars
  <2>8. CASE (\E f \in Files : EditFile(f)) \/ MoveFinger \/ Tick
    BY <2>8 DEF EditFile, MoveFinger, Tick, deviceVars, mainVars
  <2> QED BY <2>1, <2>2, <2>3, <2>4, <2>5, <2>6, <2>7, <2>8 DEF DNext, MainStep, Attempt
<1>2. DInv /\ [DNext]_dvars =>
        [/\ grabbed' /\ ~grabbed => pad # Nothing
         /\ grabbed /\ ~grabbed' => pad = "neutral" \/ unsettled
         /\ ready > 0 => pc' # "wait"
         /\ ready' > ready => grabbed /\ pad # Nothing /\ ready = 0]_dvars
  BY <1>1
<1> QED BY <1>2, DaemonInvariant, PTL DEF DSpec, Handover

-----------------------------------------------------------------------------
(* Captures: the folds a file is read with.                                *)

RawF == INSTANCE FoldFacts WITH Op <- ReadRawLine
FixtureF == INSTANCE FoldFacts WITH Op <- ReadFixtureLine
KeptF == INSTANCE FoldFacts WITH Op <- AddKept
FrameF == INSTANCE FoldFacts WITH Op <- AddFrame

LEMMA RawFold ==
  ASSUME NEW acc, NEW lines
  PROVE  RawF!Fold(acc, lines) = FoldLeft(ReadRawLine, acc, lines)
BY DEF RawF!Fold, RawF!Largest, FoldLeft, MapThenFoldSet, Max

LEMMA FixtureFold ==
  ASSUME NEW acc, NEW lines
  PROVE  FixtureF!Fold(acc, lines) = FoldLeft(ReadFixtureLine, acc, lines)
BY DEF FixtureF!Fold, FixtureF!Largest, FoldLeft, MapThenFoldSet, Max

LEMMA KeptFold ==
  ASSUME NEW kept, NEW events
  PROVE  KeptF!Fold(kept, events) = FoldLeft(AddKept, kept, events)
BY DEF KeptF!Fold, KeptF!Largest, FoldLeft, MapThenFoldSet, Max

LEMMA FrameFold ==
  ASSUME NEW frames, NEW more
  PROVE  FrameF!Fold(frames, more) = FoldLeft(AddFrame, frames, more)
BY DEF FrameF!Fold, FrameF!Largest, FoldLeft, MapThenFoldSet, Max

\* What a file of one of the formats says, before its header and its end are
\* looked at.
ReadLine(f, acc, line) ==
  IF f = "raw" THEN ReadRawLine(acc, line) ELSE ReadFixtureLine(acc, line)

Scan(f, acc, lines) ==
  IF f = "raw" THEN FoldLeft(ReadRawLine, acc, lines)
  ELSE FoldLeft(ReadFixtureLine, acc, lines)

LEMMA ScanEmpty ==
  ASSUME NEW f, NEW acc
  PROVE  Scan(f, acc, <<>>) = acc
<1> DEFINE none == <<>>
<1>1. RawF!Fold(acc, none) = acc /\ FixtureF!Fold(acc, none) = acc
  BY RawF!FoldEmpty, FixtureF!FoldEmpty
<1>2. /\ FoldLeft(ReadRawLine, acc, none) = acc
      /\ FoldLeft(ReadFixtureLine, acc, none) = acc
  BY <1>1, RawFold, FixtureFold
<1> QED BY <1>2 DEF Scan

LEMMA ScanAppend ==
  ASSUME NEW f, NEW acc, NEW S, NEW lines \in Seq(S), NEW line \in S
  PROVE  Scan(f, acc, Append(lines, line)) = ReadLine(f, Scan(f, acc, lines), line)
<1> DEFINE more == Append(lines, line)
<1>1. /\ RawF!Fold(acc, more) = ReadRawLine(RawF!Fold(acc, lines), line)
      /\ FixtureF!Fold(acc, more) = ReadFixtureLine(FixtureF!Fold(acc, lines), line)
  BY RawF!FoldAppend, FixtureF!FoldAppend
<1> HIDE DEF more
<1>2. /\ RawF!Fold(acc, more) = FoldLeft(ReadRawLine, acc, more)
      /\ FixtureF!Fold(acc, more) = FoldLeft(ReadFixtureLine, acc, more)
      /\ RawF!Fold(acc, lines) = FoldLeft(ReadRawLine, acc, lines)
      /\ FixtureF!Fold(acc, lines) = FoldLeft(ReadFixtureLine, acc, lines)
  BY RawFold, FixtureFold
<1>3. /\ FoldLeft(ReadRawLine, acc, more) = ReadRawLine(FoldLeft(ReadRawLine, acc, lines), line)
      /\ FoldLeft(ReadFixtureLine, acc, more)
           = ReadFixtureLine(FoldLeft(ReadFixtureLine, acc, lines), line)
  BY <1>1, <1>2
<1>4. Scan(f, acc, more) = ReadLine(f, Scan(f, acc, lines), line)
  BY <1>3 DEF Scan, ReadLine
<1> QED BY <1>4 DEF more

-----------------------------------------------------------------------------
(* The events that are recorded and the lines they become.                 *)

SentEvents ==
  {Syn("SYN_REPORT"), Syn("SYN_DROPPED"), ContactId(7), ContactId(None),
   TouchKey(1), TouchKey(0)} \cup Extras
Stamped(ev, t) == [ev EXCEPT !.at = t]
Recorded == {Stamped(ev, t) : ev \in SentEvents, t \in Nat}
HeaderNames == {"slots", "x", "y", "unavailable"}
Lines ==
  {HeaderLine(name) : name \in HeaderNames}
  \cup {LineOf(ev, TRUE) : ev \in Recorded} \cup {LineOf(ev, FALSE) : ev \in Recorded}

\* A recorded event is a boundary by its code alone, and never a comment.
LEMMA RecordedEvent ==
  ASSUME NEW ev \in Recorded
  PROVE  /\ ev = [type |-> ev.type, code |-> ev.code, value |-> ev.value, at |-> ev.at]
         /\ ev.at \in Nat /\ ev.type # "#"
         /\ IsBoundary(ev) <=> IsSyn(ev)
         /\ ~IsSyn(ev) => ev.type # "EV_SYN"
<1>1. PICK e \in SentEvents, t \in Nat : ev = Stamped(e, t)
  BY DEF Recorded
<1>2. e = [type |-> e.type, code |-> e.code, value |-> e.value, at |-> e.at]
  BY ExtrasAssumption DEF SentEvents, Syn, ContactId, TouchKey, EventOf
<1>3. /\ e.type # "#" /\ (e.type = "EV_SYN" => e.value = 0)
      /\ e.code \in {"SYN_REPORT", "SYN_DROPPED"} <=> e.type = "EV_SYN"
  BY ExtrasAssumption DEF SentEvents, Syn, ContactId, TouchKey, EventOf
<1>4. ev = [type |-> e.type, code |-> e.code, value |-> e.value, at |-> t]
  BY <1>1, <1>2 DEF Stamped
<1> QED BY <1>3, <1>4 DEF IsBoundary, IsSyn

Kept(f, ev) == f = "raw" \/ ev.code \in FixtureCodes

\* The line an event is written as, which the parser knows.
WrittenAs(ev, line) ==
  /\ line = LineOf(ev, TRUE) \/ line = LineOf(ev, FALSE)
  /\ format = "raw" => IsReadable(line)

\* An event becomes one line, which is read back as it was, or none.
LEMMA LineOfEvent ==
  ASSUME NEW ev \in Recorded
  PROVE  IF Kept(format, ev)
         THEN \E line \in Lines : LinesFor(ev) = <<line>> /\ WrittenAs(ev, line)
         ELSE LinesFor(ev) = <<>>
<1>1. LineOf(ev, TRUE) \in Lines /\ LineOf(ev, FALSE) \in Lines
  BY DEF Lines
<1>2. CASE format = "raw"
  <2> DEFINE named == CASE ev.type = "EV_SYN" -> ev.code \in SynNames
                        [] ev.type = "EV_KEY" -> ev.code \in KeyNames
                        [] ev.type = "EV_ABS" -> ev.code \in AxisNames
                        [] ev.type = "EV_MSC" -> ev.code \in MiscNames
                        [] OTHER -> FALSE
             line == LineOf(ev, named)
  <2>1. LinesFor(ev) = <<line>> /\ Kept(format, ev)
    BY <1>2 DEF LinesFor, RawLines, Kept
  <2>2. line.type = ev.type /\ line.code = ev.code
    BY DEF LineOf
  <2>3. named = TRUE \/ named = FALSE
    <3>1. CASE ev.type = "EV_SYN"
      BY <3>1
    <3>2. CASE ev.type = "EV_KEY"
      BY <3>2
    <3>3. CASE ev.type = "EV_ABS"
      BY <3>3
    <3>4. CASE ev.type = "EV_MSC"
      BY <3>4
    <3> QED BY <3>1, <3>2, <3>3, <3>4
  <2>4. /\ ev.code \in SynNames => ev.code \in ReadSynNames
        /\ ev.code \in KeyNames => ev.code \in ReadKeyNames
        /\ ev.code \in AxisNames => ev.code \in ReadAxisNames
        /\ ev.code \in MiscNames => ev.code \in ReadMiscNames
    BY DEF SynNames, ReadSynNames, KeyNames, ReadKeyNames, AxisNames, ReadAxisNames,
           MiscNames, ReadMiscNames
  <2>5. named => IsReadable(line)
    BY <2>2, <2>4 DEF IsReadable
  <2>6. ~named => IsReadable(line)
    BY DEF IsReadable, LineOf
  <2>7. line = LineOf(ev, TRUE) \/ line = LineOf(ev, FALSE)
    BY <2>3
  <2> HIDE DEF named
  <2> QED BY <1>1, <1>2, <2>1, <2>5, <2>6, <2>7 DEF WrittenAs
<1>3. CASE format # "raw"
  BY <1>1, <1>3 DEF LinesFor, FixtureLines, Kept, WrittenAs
<1> QED BY <1>2, <1>3

-----------------------------------------------------------------------------
(* One line.                                                               *)

LEMMA ReadComment ==
  ASSUME NEW f, NEW acc, NEW name
  PROVE  ReadLine(f, acc, HeaderLine(name)) = acc
BY DEF ReadLine, ReadRawLine, ReadFixtureLine, HeaderLine

LEMMA ReadRejected ==
  ASSUME NEW f, NEW acc, acc.error # "none", NEW line
  PROVE  ReadLine(f, acc, line) = acc
BY DEF ReadLine, ReadRawLine, ReadFixtureLine

ReadSoFar(frames, current, last) ==
  [frames |-> frames, current |-> current, last |-> last, error |-> "none"]

\* The events of the frame that a boundary ends.
EndedBy(ev, current) ==
  IF ev.code = "SYN_DROPPED" THEN <<Content(ev)>> ELSE current

\* The line of an event continues a frame, ends one, or comes too early.
LEMMA ReadRecorded ==
  ASSUME NEW ev \in Recorded, Kept(format, ev),
         NEW line, WrittenAs(ev, line),
         NEW frames, NEW current, NEW last \in Int,
         NEW acc, acc = ReadSoFar(frames, current, last),
         NEW next, next = ReadLine(format, acc, line)
  PROVE  /\ ~IsSyn(ev) => next = ReadSoFar(frames, Append(current, Content(ev)), last)
         /\ IsSyn(ev) /\ ev.at < last => next.error = "NonMonotonicTimestamp"
         /\ IsSyn(ev) /\ ev.at >= last =>
              next = ReadSoFar(AddFrame(frames, ParsedFrame(EndedBy(ev, current), ev.at)), <<>>, ev.at)
<1>1. /\ ev.at \in Nat /\ ev.type # "#"
      /\ IsBoundary(ev) <=> IsSyn(ev)
      /\ ~IsSyn(ev) => ev.type # "EV_SYN"
  BY RecordedEvent
<1>2. /\ line.type = ev.type /\ line.code = ev.code /\ line.value = ev.value
      /\ line.at = IF IsSyn(ev) THEN ev.at ELSE None
      /\ format = "raw" => IsReadable(line)
  BY <1>1 DEF LineOf, WrittenAs
<1>3. Content(line) = Content(ev)
  BY <1>2 DEF Content
<1>4. IsSyn(line) <=> IsSyn(ev)
  BY <1>2 DEF IsSyn
<1>5. /\ acc.error = "none" /\ acc.last = last /\ acc.current = current
      /\ acc.frames = frames
  BY DEF ReadSoFar
<1>6. CASE ~IsSyn(ev)
  <2>1. next = [acc EXCEPT !.current = Append(@, Content(ev))]
    <3>1. CASE format = "raw"
      BY <1>1, <1>2, <1>3, <1>4, <1>5, <1>6, <3>1 DEF ReadLine, ReadRawLine
    <3>2. CASE format # "raw"
      BY <1>1, <1>2, <1>3, <1>4, <1>5, <1>6, <3>2 DEF ReadLine, ReadFixtureLine, Kept
    <3> QED BY <3>1, <3>2
  <2> QED BY <1>6, <2>1 DEF ReadSoFar
<1>7. CASE IsSyn(ev)
  <2>1. ev.type = "EV_SYN" /\ ev.at # None
    BY <1>1, <1>7 DEF IsBoundary, None
  <2>2. next = EndFrameAt(acc, line)
    <3>1. CASE format = "raw"
      BY <1>1, <1>2, <1>4, <1>5, <1>7, <2>1, <3>1 DEF ReadLine, ReadRawLine
    <3>2. CASE format # "raw"
      BY <1>1, <1>2, <1>4, <1>5, <1>7, <2>1, <3>2 DEF ReadLine, ReadFixtureLine, Kept
    <3> QED BY <3>1, <3>2
  <2>3. CASE ev.at < last
    <3>1. next = Rejected(acc, "NonMonotonicTimestamp")
      BY <1>1, <1>2, <1>5, <1>7, <2>1, <2>2, <2>3 DEF EndFrameAt
    <3> QED BY <1>1, <1>7, <2>3, <3>1 DEF Rejected, ReadSoFar
  <2>4. CASE ev.at >= last
    <3> DEFINE events == EndedBy(ev, current)
    <3>1. next = [acc EXCEPT !.last = line.at, !.current = <<>>,
                             !.frames = IF events = <<>> THEN @
                                        ELSE Append(@, ParsedFrame(events, line.at))]
      BY <1>1, <1>2, <1>3, <1>5, <1>7, <2>1, <2>2, <2>4 DEF EndFrameAt, EndedBy
    <3>2. next = ReadSoFar(IF events = <<>> THEN frames
                           ELSE Append(frames, ParsedFrame(events, ev.at)), <<>>, ev.at)
      <4> HIDE DEF events
      <4> QED BY <1>2, <1>7, <3>1 DEF ReadSoFar
    <3>3. AddFrame(frames, ParsedFrame(events, ev.at))
            = IF events = <<>> THEN frames ELSE Append(frames, ParsedFrame(events, ev.at))
      BY DEF AddFrame, ParsedFrame
    <3> QED BY <1>1, <1>7, <2>4, <3>2, <3>3
  <2> QED BY <1>1, <2>3, <2>4
<1> QED BY <1>6, <1>7

-----------------------------------------------------------------------------
(* What the recorded events say, one event later.                          *)

LEMMA LargestExists ==
  ASSUME NEW n \in Nat, NEW S, S \subseteq 0..n, S # {}
  PROVE  Max(S) \in S /\ \A y \in S : y <= Max(S)
<1> DEFINE T == {m \in Nat : \A R \in SUBSET (0..m) :
                               R # {} => \E x \in R : \A y \in R : y <= x}
<1>1. 0 \in T
  <2>1. \A R \in SUBSET (0..0) : R # {} => 0 \in R /\ \A y \in R : y <= 0
    <3>1. \A y \in 0..0 : y = 0
      OBVIOUS
    <3>2. SUFFICES ASSUME NEW R \in SUBSET (0..0), NEW z \in R
                   PROVE  0 \in R /\ \A y \in R : y <= 0
      OBVIOUS
    <3>3. z = 0 /\ \A y \in R : y = 0
      BY <3>1
    <3> QED BY <3>3
  <2> QED BY <2>1
<1>2. ASSUME NEW m \in Nat, m \in T PROVE m + 1 \in T
  <2>1. SUFFICES ASSUME NEW R \in SUBSET (0..(m + 1)), R # {}
                 PROVE  \E x \in R : \A y \in R : y <= x
    OBVIOUS
  <2>2. CASE m + 1 \in R
    BY <2>2
  <2>3. CASE m + 1 \notin R
    <3>1. R \in SUBSET (0..m)
      BY <2>3
    <3> QED BY <1>2, <2>1, <3>1
  <2> QED BY <2>2, <2>3
<1> HIDE DEF T
<1>3. \A m \in Nat : m \in T
  BY <1>1, <1>2, RawF!NatSetInduction
<1>4. \E x \in S : \A y \in S : y <= x
  BY <1>3 DEF T
<1>5. \E x \in S : \A y \in S : x >= y
  BY <1>4
<1> QED BY <1>5 DEF Max

LastBoundary(evs, i) == Max({0} \cup {j \in Boundaries(evs) : j < i})

LEMMA LastBoundaryRange ==
  ASSUME NEW S, NEW evs \in Seq(S), NEW i \in 1..(Len(evs) + 1)
  PROVE  LastBoundary(evs, i) \in 0..(i - 1)
<1> DEFINE R == {0} \cup {j \in Boundaries(evs) : j < i}
<1>1. R \subseteq 0..(i - 1) /\ R # {} /\ i - 1 \in Nat
  BY DEF Boundaries
<1> HIDE DEF R
<1>2. Max(R) \in R
  BY <1>1, LargestExists
<1>3. LastBoundary(evs, i) = Max(R)
  BY DEF LastBoundary, R
<1> QED BY <1>1, <1>2, <1>3

LEMMA LastBoundaryOfMore ==
  ASSUME NEW S, NEW evs \in Seq(S), NEW ev \in S
  PROVE  LET n == Len(evs)
             more == Append(evs, ev)
         IN /\ \A i \in 1..(n + 1) : LastBoundary(more, i) = LastBoundary(evs, i)
            /\ LastBoundary(more, n + 2)
                 = IF IsSyn(ev) THEN n + 1 ELSE LastBoundary(evs, n + 1)
<1> DEFINE n == Len(evs)
           more == Append(evs, ev)
<1>1. /\ n \in Nat /\ DOMAIN evs = 1..n /\ DOMAIN more = 1..(n + 1)
      /\ more[n + 1] = ev /\ \A i \in 1..n : more[i] = evs[i]
  OBVIOUS
<1> HIDE DEF n, more
<1>2. Boundaries(more) \ {n + 1} = Boundaries(evs) /\ Boundaries(evs) \subseteq 1..n
  BY <1>1 DEF Boundaries
<1>3. n + 1 \in Boundaries(more) <=> IsSyn(ev)
  BY <1>1 DEF Boundaries
<1>4. ASSUME NEW i \in 1..(n + 1)
      PROVE  {j \in Boundaries(more) : j < i} = {j \in Boundaries(evs) : j < i}
  BY <1>1, <1>2
<1>5. ASSUME ~IsSyn(ev)
      PROVE  {j \in Boundaries(more) : j < n + 2} = {j \in Boundaries(evs) : j < n + 1}
  BY <1>1, <1>2, <1>3, <1>5
<1>6. ASSUME IsSyn(ev) PROVE LastBoundary(more, n + 2) = n + 1
  <2> DEFINE R == {0} \cup {j \in Boundaries(more) : j < n + 2}
             top == n + 1
  <2>1. R \subseteq 0..top /\ top \in R /\ top \in Nat
    BY <1>1, <1>2, <1>3, <1>6
  <2> HIDE DEF R, top
  <2>2. Max(R) \in R /\ top <= Max(R)
    BY <2>1, LargestExists
  <2>3. Max(R) = n + 1
    <3>1. Max(R) \in 0..top
      BY <2>1, <2>2
    <3> QED BY <2>1, <2>2, <3>1 DEF top
  <2> QED BY <2>3 DEF LastBoundary, R
<1>7. \A i \in 1..(n + 1) : LastBoundary(more, i) = LastBoundary(evs, i)
  BY <1>4 DEF LastBoundary
<1>8. ~IsSyn(ev) => LastBoundary(more, n + 2) = LastBoundary(evs, n + 1)
  BY <1>5 DEF LastBoundary
<1> QED BY <1>6, <1>7, <1>8 DEF n, more

\* KeptBefore, apart from the boundary it starts at.
Between(evs, i) == SubSeq(evs, LastBoundary(evs, i) + 1, i - 1)
KeptOf(f, between) ==
  IF f = "raw" THEN [j \in DOMAIN between |-> Content(between[j])]
  ELSE FoldLeft(AddKept, <<>>, between)

LEMMA KeptBeforeIs ==
  ASSUME NEW evs, NEW i
  PROVE  KeptBefore(evs, i) = KeptOf(format, Between(evs, i))
BY DEF KeptBefore, KeptOf, Between, LastBoundary

LEMMA KeptOfNone == KeptOf(format, <<>>) = <<>>
<1> DEFINE none == <<>>
<1>1. KeptF!Fold(none, none) = none
  BY KeptF!FoldEmpty
<1>2. FoldLeft(AddKept, none, none) = none
  BY <1>1, KeptFold
<1>3. [j \in DOMAIN <<>> |-> Content(<<>>[j])] = <<>>
  OBVIOUS
<1> QED BY <1>2, <1>3 DEF KeptOf

LEMMA KeptOfMore ==
  ASSUME NEW S, NEW between \in Seq(S), NEW ev \in S
  PROVE  KeptOf(format, Append(between, ev))
           = IF Kept(format, ev) THEN Append(KeptOf(format, between), Content(ev))
             ELSE KeptOf(format, between)
<1>1. CASE format = "raw"
  <2> DEFINE more == Append(between, ev)
             short == [j \in DOMAIN between |-> Content(between[j])]
             long == [j \in DOMAIN more |-> Content(more[j])]
  <2>1. /\ DOMAIN between = 1..Len(between) /\ DOMAIN more = 1..(Len(between) + 1)
        /\ more[Len(between) + 1] = ev /\ Len(between) \in Nat
        /\ \A j \in 1..Len(between) : more[j] = between[j]
    OBVIOUS
  <2> HIDE DEF more
  <2>2. long = Append(short, Content(ev))
    <3> DEFINE C == {Content(e) : e \in S}
    <3>1. short \in Seq(C) /\ Len(short) = Len(between)
      <4>1. short \in [1..Len(between) -> C]
        BY <2>1
      <4> QED BY <4>1, <2>1
    <3>2. Content(ev) \in C
      OBVIOUS
    <3>3. \A j \in 1..Len(between) : short[j] = Content(between[j])
      BY <2>1
    <3> HIDE DEF short, C
    <3> DEFINE m == Len(between) + 1
    <3>4. /\ Append(short, Content(ev)) \in Seq(C) /\ Len(Append(short, Content(ev))) = m
          /\ Append(short, Content(ev))[m] = Content(ev)
          /\ \A j \in 1..Len(between) : Append(short, Content(ev))[j] = short[j]
      BY <3>1, <3>2, <2>1
    <3>5. ASSUME NEW j \in 1..m
          PROVE  long[j] = Append(short, Content(ev))[j]
      BY <2>1, <3>3, <3>4
    <3>6. long \in Seq(C) /\ Len(long) = m
      <4>1. long \in [1..m -> C]
        BY <2>1 DEF C
      <4> QED BY <2>1, <4>1
    <3> HIDE DEF long, m
    <3> QED BY <3>4, <3>5, <3>6, SeqEqual
  <2>3. KeptOf(format, more) = Append(KeptOf(format, between), Content(ev))
    BY <1>1, <2>2 DEF KeptOf
  <2> QED BY <1>1, <2>3 DEF Kept, more
<1>2. CASE format # "raw"
  <2> DEFINE more == Append(between, ev)
             none == <<>>
  <2>1. KeptF!Fold(none, more) = AddKept(KeptF!Fold(none, between), ev)
    BY KeptF!FoldAppend
  <2> HIDE DEF more
  <2>2. FoldLeft(AddKept, none, more) = AddKept(FoldLeft(AddKept, none, between), ev)
    BY <2>1, KeptFold
  <2>3. KeptOf(format, more) = AddKept(KeptOf(format, between), ev)
    BY <1>2, <2>2 DEF KeptOf
  <2> QED BY <1>2, <2>3 DEF AddKept, Kept, more
<1> QED BY <1>1, <1>2

\* What was kept before an event does not depend on the events after it; a
\* boundary leaves nothing.
LEMMA KeptBeforeMore ==
  ASSUME NEW S, NEW evs \in Seq(S), NEW ev \in S
  PROVE  LET n == Len(evs)
             more == Append(evs, ev)
         IN /\ \A i \in 1..(n + 1) : KeptBefore(more, i) = KeptBefore(evs, i)
            /\ KeptBefore(more, n + 2)
                 = IF IsSyn(ev) THEN <<>>
                   ELSE IF Kept(format, ev) THEN Append(KeptBefore(evs, n + 1), Content(ev))
                   ELSE KeptBefore(evs, n + 1)
<1> DEFINE n == Len(evs)
           more == Append(evs, ev)
<1>1. /\ \A i \in 1..(n + 1) : LastBoundary(more, i) = LastBoundary(evs, i)
      /\ LastBoundary(more, n + 2)
           = IF IsSyn(ev) THEN n + 1 ELSE LastBoundary(evs, n + 1)
  BY LastBoundaryOfMore
<1>2. n \in Nat
  OBVIOUS
<1>3. ASSUME NEW i \in 1..(n + 1)
      PROVE  KeptBefore(more, i) = KeptBefore(evs, i)
  <2> DEFINE l == LastBoundary(evs, i)
  <2>1. l \in 0..(i - 1)
    BY LastBoundaryRange
  <2> HIDE DEF l
  <2>2. SubSeq(more, l + 1, i - 1) = SubSeq(evs, l + 1, i - 1)
    BY <2>1
  <2>3. Between(more, i) = Between(evs, i)
    BY <1>1, <2>2 DEF Between, l
  <2> QED BY <2>3, KeptBeforeIs
<1>4. CASE IsSyn(ev)
  <2>1. SubSeq(more, n + 2, n + 1) = <<>>
    BY <1>2
  <2>2. Between(more, n + 2) = <<>>
    BY <1>1, <1>2, <1>4, <2>1 DEF Between
  <2>3. KeptBefore(more, n + 2) = <<>>
    BY <2>2, KeptBeforeIs, KeptOfNone
  <2> QED BY <1>3, <1>4, <2>3
<1>5. CASE ~IsSyn(ev)
  <2> DEFINE l == LastBoundary(evs, n + 1)
             between == SubSeq(evs, l + 1, n)
  <2>0. n + 1 \in 1..(Len(evs) + 1) /\ (n + 1) - 1 = n /\ (n + 2) - 1 = n + 1
    BY <1>2
  <2>1. l \in 0..n
    BY <2>0, LastBoundaryRange
  <2> HIDE DEF l
  <2>2. between \in Seq(S)
    BY <2>1
  <2>3. SubSeq(more, l + 1, n + 1) = Append(between, ev)
    <3>1. /\ more \in Seq(S) /\ Len(more) = n + 1 /\ more[n + 1] = ev
          /\ \A i \in 1..n : more[i] = evs[i]
      OBVIOUS
    <3> DEFINE lo == l + 1
               hi == n + 1
    <3>0. lo \in 1..hi /\ hi \in lo..hi /\ hi - 1 = n /\ Len(more) = hi
      BY <1>2, <2>1, <3>1
    <3>2. SubSeq(more, lo, hi) = SubSeq(more, lo, n) \o <<ev>>
      <4> HIDE DEF lo, hi, more
      <4>1. lo \in 1..Len(more) /\ hi \in lo..Len(more)
        BY <3>0
      <4>2. SubSeq(more, lo, hi) = SubSeq(more, lo, hi - 1) \o <<more[hi]>>
        BY <3>1, <4>1, SubSeqRecursiveSecond
      <4>3. more[hi] = ev
        BY <3>1 DEF hi
      <4> QED BY <3>0, <4>2, <4>3
    <3>3. SubSeq(more, l + 1, n) = between
      BY <1>2, <2>1
    <3>4. between \o <<ev>> = Append(between, ev)
      <4> HIDE DEF between
      <4> QED BY <2>2, AppendIsConcat
    <3> QED BY <3>2, <3>3, <3>4
  <2>4. LastBoundary(more, n + 2) = l
    BY <1>1, <1>5 DEF l
  <2>5. Between(more, n + 2) = Append(between, ev)
    BY <2>0, <2>3, <2>4 DEF Between
  <2>6. Between(evs, n + 1) = between
    BY <2>0 DEF Between, l
  <2> HIDE DEF between
  <2>7. KeptOf(format, Append(between, ev))
           = IF Kept(format, ev) THEN Append(KeptOf(format, between), Content(ev))
             ELSE KeptOf(format, between)
    BY <2>2, KeptOfMore
  <2>8. KeptBefore(more, n + 2) = KeptOf(format, Append(between, ev))
    BY <2>5, KeptBeforeIs
  <2>9. KeptBefore(evs, n + 1) = KeptOf(format, between)
    BY <2>6, KeptBeforeIs
  <2> QED BY <1>3, <1>5, <2>7, <2>8, <2>9
<1> QED BY <1>4, <1>5

LEMMA FramesOfNone == FramesOf(<<>>) = <<>>
<1> DEFINE none == <<>>
<1>1. FrameF!Fold(none, none) = none
  BY FrameF!FoldEmpty
<1>2. FoldLeft(AddFrame, none, none) = none
  BY <1>1, FrameFold
<1>3. [i \in DOMAIN <<>> |-> FrameAt(<<>>, i)] = <<>>
  OBVIOUS
<1> QED BY <1>2, <1>3 DEF FramesOf

\* One more event ends a frame or leaves the frames as they were.
LEMMA FramesOfMore ==
  ASSUME NEW S, NEW evs \in Seq(S), NEW ev \in S
  PROVE  FramesOf(Append(evs, ev))
           = IF IsSyn(ev)
             THEN AddFrame(FramesOf(evs),
                    ParsedFrame(EndedBy(ev, KeptBefore(evs, Len(evs) + 1)), ev.at))
             ELSE FramesOf(evs)
<1> DEFINE n == Len(evs)
           more == Append(evs, ev)
           F == {FrameAt(more, i) : i \in 1..(n + 1)}
           short == [i \in DOMAIN evs |-> FrameAt(evs, i)]
           long == [i \in DOMAIN more |-> FrameAt(more, i)]
           last == FrameAt(more, n + 1)
<1>1. /\ n \in Nat /\ DOMAIN evs = 1..n /\ DOMAIN more = 1..(n + 1)
      /\ more[n + 1] = ev /\ \A i \in 1..n : more[i] = evs[i]
  OBVIOUS
<1>2. \A i \in 1..(n + 1) : KeptBefore(more, i) = KeptBefore(evs, i)
  BY KeptBeforeMore
<1> HIDE DEF n, more
<1>3. ASSUME NEW i \in 1..n PROVE FrameAt(more, i) = FrameAt(evs, i)
  <2>1. more[i] = evs[i] /\ KeptBefore(more, i) = KeptBefore(evs, i)
    BY <1>1, <1>2
  <2> QED BY <2>1 DEF FrameAt
<1>4. short \in Seq(F) /\ Len(short) = n /\ last \in F
  <2>1. short \in [1..n -> F]
    BY <1>1, <1>3
  <2> QED BY <1>1, <2>1
<1>5. long = Append(short, last)
  <2> HIDE DEF F
  <2>1. /\ DOMAIN Append(short, last) = 1..(n + 1)
        /\ Append(short, last)[n + 1] = last
        /\ \A i \in 1..n : Append(short, last)[i] = short[i]
        /\ Append(short, last) \in Seq(F) /\ Len(Append(short, last)) = n + 1
    BY <1>1, <1>4
  <2>2. \A i \in 1..n : short[i] = FrameAt(evs, i)
    BY <1>1
  <2> HIDE DEF short
  <2>3. ASSUME NEW i \in 1..(n + 1) PROVE long[i] = Append(short, last)[i]
    BY <1>1, <1>3, <2>1, <2>2
  <2>4. long \in Seq(F) /\ Len(long) = n + 1
    <3>1. long \in [1..(n + 1) -> F]
      BY <1>1 DEF F
    <3> QED BY <1>1, <3>1
  <2> HIDE DEF long, last
  <2> QED BY <1>1, <2>1, <2>3, <2>4, SeqEqual
<1>6. FramesOf(more) = AddFrame(FramesOf(evs), last)
  <2> DEFINE none == <<>>
  <2> HIDE DEF short, long, last, F
  <2>1. FrameF!Fold(none, long) = AddFrame(FrameF!Fold(none, short), last)
    BY <1>4, <1>5, FrameF!FoldAppend
  <2>2. FoldLeft(AddFrame, none, long) = AddFrame(FoldLeft(AddFrame, none, short), last)
    BY <2>1, FrameFold
  <2> QED BY <2>2 DEF FramesOf, short, long
<1>7. KeptBefore(more, n + 1) = KeptBefore(evs, n + 1)
  BY <1>1, <1>2
<1>8. last = ParsedFrame(CASE ~IsSyn(ev) -> <<>>
                           [] ev.code = "SYN_DROPPED" -> <<Content(ev)>>
                           [] OTHER -> KeptBefore(evs, n + 1), ev.at)
  BY <1>1, <1>7 DEF FrameAt
<1>9. CASE IsSyn(ev)
  <2>1. last = ParsedFrame(EndedBy(ev, KeptBefore(evs, n + 1)), ev.at)
    BY <1>8, <1>9 DEF EndedBy
  <2> HIDE DEF last
  <2> QED BY <1>6, <1>9, <2>1 DEF n, more
<1>10. CASE ~IsSyn(ev)
  <2>1. last.events = <<>>
    BY <1>8, <1>10 DEF ParsedFrame, IsSyn
  <2> HIDE DEF last
  <2> QED BY <1>6, <1>10, <2>1 DEF AddFrame, more
<1> QED BY <1>9, <1>10

-----------------------------------------------------------------------------
(* The inductive invariant of a capture.                                   *)

Comments == {HeaderLine(name) : name \in HeaderNames}
SynLines(lines) == {i \in DOMAIN lines : IsSyn(lines[i])}
KeptSoFar == KeptBefore(written, Len(written) + 1)

\* Stamps in order, from lo to hi.
Ordered(events, lo, hi) ==
  /\ \A i \in DOMAIN events : lo <= events[i].at /\ events[i].at <= hi
  /\ \A i, j \in DOMAIN events : i <= j => events[i].at <= events[j].at

CaptureType ==
  /\ buffer \in Seq(Recorded) /\ Len(buffer) < BufferSize
  /\ batch \in Seq(Recorded) /\ written \in Seq(Recorded) /\ capture \in Seq(Lines)
  /\ clock = [now |-> clock.now, sets |-> clock.sets]
  /\ clock.now \in Nat /\ clock.sets \in Nat
  /\ budget = [remaining |-> budget.remaining, draining |-> budget.draining]

\* The header comes before everything else, and is whole once it is left.
HeaderInv ==
  /\ phase = "header" =>
       /\ written = <<>> /\ batch = <<>> /\ capture \in Seq(Comments)
       /\ Len(capture) < Len(Header)
       /\ \A i \in 1..Len(capture) : capture[i] = Header[i]
  /\ phase # "header" => Metadata(capture) \in {{}, {"slots", "x", "y"}}
  /\ phase # "write" => batch = <<>>

\* Between the last stamp that was read and the clock, what is fetched and what
\* the kernel holds are in order.
StampsInOrder(last) ==
  \E mid \in Int :
    /\ last <= mid /\ mid <= clock.now
    /\ Ordered(batch, last, mid) /\ Ordered(buffer, mid, clock.now)

\* The file so far says what was recorded so far, ...
ReadAs(last) ==
  /\ Scan(format, NothingRead, capture) = ReadSoFar(FramesOf(written), KeptSoFar, last)
  /\ clock.sets = 0 => StampsInOrder(last)

\* ... unless the clock was set back.
ReadInv ==
  \/ \E last \in Int : ReadAs(last)
  \/ /\ Scan(format, NothingRead, capture).error = "NonMonotonicTimestamp"
     /\ clock.sets > 0

\* The boundaries that were counted are in the file, and a batch that ends with
\* one leaves nothing behind it.
BudgetInv ==
  /\ IF requested = None THEN budget.remaining = None
     ELSE /\ requested \in Nat /\ budget.remaining \in Nat
          /\ Cardinality(SynLines(capture)) + budget.remaining >= requested
  /\ result.ends => KeptSoFar = <<>>
  /\ result.ends => phase # "header"
  /\ phase = "query" \/ outcome = "finished" => IsReached /\ result.ends

CaptureInv == CaptureType /\ HeaderInv /\ ReadInv /\ BudgetInv

\* Comments leave what was read as it is.
LEMMA ScanComments ==
  ASSUME NEW f, NEW acc, NEW lines \in Seq(Comments)
  PROVE  Scan(f, acc, lines) = acc
<1> DEFINE I == {acc}
<1>1. /\ \A d \in I, line \in Comments : ReadRawLine(d, line) \in I
      /\ \A d \in I, line \in Comments : ReadFixtureLine(d, line) \in I
  BY DEF Comments, HeaderLine, ReadRawLine, ReadFixtureLine
<1>2. acc \in I
  OBVIOUS
<1> HIDE DEF I
<1>3. RawF!Fold(acc, lines) \in I
  BY <1>1, <1>2, RawF!FoldStays
<1>4. FixtureF!Fold(acc, lines) \in I
  BY <1>1, <1>2, FixtureF!FoldStays
<1>5. FoldLeft(ReadRawLine, acc, lines) = acc /\ FoldLeft(ReadFixtureLine, acc, lines) = acc
  BY <1>3, <1>4, RawFold, FixtureFold DEF I
<1> QED BY <1>5 DEF Scan

LEMMA SynLinesFinite ==
  ASSUME NEW S, NEW lines \in Seq(S)
  PROVE  IsFiniteSet(SynLines(lines)) /\ Cardinality(SynLines(lines)) \in Nat
<1>1. SynLines(lines) \subseteq 1..Len(lines) /\ Len(lines) \in Int /\ 1 \in Int
  BY DEF SynLines
<1>2. IsFiniteSet(1..Len(lines))
  BY <1>1, FS_Interval
<1> QED BY <1>1, <1>2, FS_Subset, FS_CardinalityType

LEMMA SynLinesMore ==
  ASSUME NEW S, NEW lines \in Seq(S), NEW line \in S
  PROVE  Cardinality(SynLines(Append(lines, line)))
           = Cardinality(SynLines(lines)) + (IF IsSyn(line) THEN 1 ELSE 0)
<1> DEFINE more == Append(lines, line)
           old == SynLines(lines)
           m == Len(lines)
           n == m + 1
<1>1. /\ DOMAIN lines = 1..m /\ DOMAIN more = 1..n /\ more[n] = line /\ m \in Nat
      /\ \A i \in 1..m : more[i] = lines[i]
  OBVIOUS
<1> HIDE DEF more, m
<1>2. SynLines(more) = (IF IsSyn(line) THEN old \cup {n} ELSE old) /\ n \notin old
  <2>1. \A i : i \in old <=> i \in 1..m /\ IsSyn(lines[i])
    BY <1>1 DEF SynLines
  <2>2. \A i : i \in SynLines(more) <=> i \in 1..n /\ IsSyn(more[i])
    BY <1>1 DEF SynLines
  <2>3. \A i : i \in 1..n <=> i \in 1..m \/ i = n
    BY <1>1
  <2>4. n \notin 1..m
    BY <1>1
  <2> HIDE DEF n, old
  <2>5. \A i : i \in SynLines(more) <=> i \in old \/ (i = n /\ IsSyn(line))
    BY <1>1, <2>1, <2>2, <2>3, <2>4
  <2> QED BY <2>1, <2>4, <2>5
<1>3. IsFiniteSet(old) /\ Cardinality(old) \in Nat
  BY SynLinesFinite
<1> HIDE DEF old
<1> HIDE DEF n
<1>4. Cardinality(old \cup {n}) = Cardinality(old) + 1
  BY <1>2, <1>3, FS_AddElement
<1>5. Cardinality(SynLines(more)) = Cardinality(old) + (IF IsSyn(line) THEN 1 ELSE 0)
  BY <1>2, <1>3, <1>4
<1> QED BY <1>5 DEF more, old

LEMMA CaptureInit == CInit => CaptureInv
<1> SUFFICES ASSUME CInit PROVE CaptureInv
  OBVIOUS
<1> DEFINE none == <<>>
<1>1. none \in Seq(Recorded) /\ none \in Seq(Lines) /\ none \in Seq(Comments) /\ Len(none) = 0
  OBVIOUS
<1>2. CaptureType
  BY <1>1, SizesAssumption DEF CInit, CaptureType
<1>3. Len(Header) > 0
  BY DEF Header
<1>4. HeaderInv
  BY <1>1, <1>3 DEF CInit, HeaderInv
<1>5. Scan(format, NothingRead, capture) = NothingRead
  BY ScanEmpty DEF CInit
<1>6. KeptSoFar = none
  <2>1. written = none /\ Len(written) + 1 = 1
    BY DEF CInit
  <2>2. 1 \in 1..(Len(none) + 1) /\ none \in Seq({})
    OBVIOUS
  <2>3. LastBoundary(none, 1) \in 0..0
    <3> HIDE DEF none
    <3>1. LastBoundary(none, 1) \in 0..(1 - 1)
      BY <2>2, LastBoundaryRange
    <3> QED BY <3>1
  <2>4. SubSeq(none, 1, 0) = none
    OBVIOUS
  <2>5. Between(none, 1) = none
    BY <2>3, <2>4 DEF Between
  <2> QED BY <2>1, <2>5, KeptBeforeIs, KeptOfNone DEF KeptSoFar
<1>7. ReadAs(None)
  <2>1. NothingRead = ReadSoFar(FramesOf(written), KeptSoFar, None)
    BY <1>6, FramesOfNone DEF NothingRead, ReadSoFar, CInit
  <2>2. StampsInOrder(None)
    <3>1. None \in Int /\ None <= clock.now
      BY SizesAssumption DEF None, CInit
    <3>2. Ordered(none, None, None) /\ Ordered(none, None, clock.now)
      BY DEF Ordered
    <3> QED BY <3>1, <3>2 DEF StampsInOrder, CInit
  <2> QED BY <1>5, <2>1, <2>2 DEF ReadAs
<1>8. ReadInv
  BY <1>7 DEF ReadInv, None
<1>9. BudgetInv
  <2>1. Cardinality(SynLines(capture)) \in Nat
    BY <1>1, SynLinesFinite DEF CInit
  <2> QED BY <1>6, <2>1, BudgetsAssumption DEF BudgetInv, CInit, NoResult, None
<1> QED BY <1>2, <1>4, <1>8, <1>9 DEF CaptureInv

-----------------------------------------------------------------------------
(* The kernel keeps the invariant.                                         *)

\* A packet carries the clock's stamp.
Packet(events) ==
  [i \in 1..(Len(events) + 1) |->
     [Append(events, Syn("SYN_REPORT"))[i] EXCEPT !.at = clock.now]]

LEMMA PacketIsRecorded ==
  ASSUME clock.now \in Nat, NEW events \in Seq(SentEvents)
  PROVE  /\ Packet(events) \in Seq(Recorded) /\ Len(Packet(events)) = Len(events) + 1
         /\ \A i \in 1..Len(Packet(events)) : Packet(events)[i].at = clock.now
<1> DEFINE n == Len(events) + 1
           all == Append(events, Syn("SYN_REPORT"))
<1>1. n \in Nat /\ \A i \in 1..n : all[i] \in SentEvents
  <2>1. Syn("SYN_REPORT") \in SentEvents
    BY DEF SentEvents
  <2> QED BY <2>1
<1>2. Packet(events) = [i \in 1..n |-> Stamped(all[i], clock.now)]
  BY DEF Packet, Stamped
<1>3. ASSUME NEW i \in 1..n
      PROVE  /\ Stamped(all[i], clock.now) \in Recorded
             /\ Stamped(all[i], clock.now).at = clock.now
  <2> DEFINE e == all[i]
  <2>1. e \in SentEvents
    BY <1>1
  <2> HIDE DEF e
  <2>2. e = [type |-> e.type, code |-> e.code, value |-> e.value, at |-> e.at]
    BY <2>1, ExtrasAssumption DEF SentEvents, Syn, ContactId, TouchKey, EventOf
  <2>3. Stamped(e, clock.now) \in Recorded /\ Stamped(e, clock.now).at = clock.now
    BY <2>1, <2>2 DEF Recorded, Stamped
  <2> QED BY <2>3 DEF e
<1> HIDE DEF n, all
<1>4. Packet(events) \in [1..n -> Recorded]
  BY <1>2, <1>3
<1>5. Packet(events) \in Seq(Recorded) /\ Len(Packet(events)) = n
  BY <1>1, <1>4
<1>6. \A i \in 1..n : Packet(events)[i].at = clock.now
  BY <1>2, <1>3
<1> QED BY <1>5, <1>6 DEF n

LEMMA BufferedPacket ==
  ASSUME CaptureType, NEW packet \in Seq(Recorded),
         Len(packet) \in 1..3, \A i \in 1..Len(packet) : packet[i].at = clock.now
  PROVE  /\ Buffered(packet) \in Seq(Recorded) /\ Len(Buffered(packet)) < BufferSize
         /\ \A mid \in Int : mid <= clock.now /\ Ordered(buffer, mid, clock.now) =>
              Ordered(Buffered(packet), mid, clock.now)
<1> DEFINE now == clock.now
           have == Len(buffer)
           more == Len(packet)
           dropped == Stamped(Syn("SYN_DROPPED"), now)
<1>1. /\ buffer \in Seq(Recorded) /\ have \in Nat /\ have < BufferSize /\ now \in Nat
      /\ BufferSize \in Nat /\ BufferSize > 4 /\ more \in 1..3
  BY SizesAssumption DEF CaptureType
<1>2. CASE have + more < BufferSize
  <2>1. Buffered(packet) = buffer \o packet
    BY <1>2 DEF Buffered
  <2> DEFINE all == buffer \o packet
  <2>2. /\ all \in Seq(Recorded) /\ Len(all) = have + more /\ DOMAIN all = 1..(have + more)
        /\ \A i \in 1..(have + more) : all[i] = IF i <= have THEN buffer[i] ELSE packet[i - have]
    BY <1>1
  <2> HIDE DEF all
  <2>3. ASSUME NEW mid \in Int, mid <= now, Ordered(buffer, mid, now)
        PROVE  Ordered(all, mid, now)
    <3>1. /\ \A i \in 1..have : mid <= buffer[i].at /\ buffer[i].at <= now
          /\ \A i, j \in 1..have : i <= j => buffer[i].at <= buffer[j].at
      BY <1>1, <2>3 DEF Ordered
    <3>2. ASSUME NEW i \in 1..(have + more), i > have
          PROVE  all[i].at = now
      <4>1. i - have \in 1..more /\ ~(i <= have)
        BY <1>1, <3>2
      <4>2. packet[i - have].at = now
        BY <4>1
      <4>3. all[i] = packet[i - have]
        BY <2>2, <4>1
      <4> QED BY <4>2, <4>3
    <3>3. \A i \in 1..(have + more) : i <= have => i \in 1..have /\ all[i].at = buffer[i].at
      BY <1>1, <2>2
    <3> HIDE DEF have, more, now
    <3>4. ASSUME NEW i \in 1..(have + more)
          PROVE  mid <= all[i].at /\ all[i].at <= now
      BY <1>1, <2>3, <3>1, <3>2, <3>3
    <3>5. ASSUME NEW i \in 1..(have + more), NEW j \in 1..(have + more), i <= j
          PROVE  all[i].at <= all[j].at
      <4>1. CASE j <= have
        BY <1>1, <3>1, <3>3, <3>5, <4>1
      <4>2. CASE j > have
        BY <1>1, <3>2, <3>4, <4>2
      <4> QED BY <1>1, <4>1, <4>2
    <3> QED BY <2>2, <3>4, <3>5 DEF Ordered
  <2>4. \A mid \in Int : mid <= clock.now /\ Ordered(buffer, mid, clock.now) =>
          Ordered(all, mid, clock.now)
    BY <2>3
  <2> QED BY <1>1, <1>2, <2>1, <2>2, <2>4 DEF all
<1>3. CASE have + more >= BufferSize
  <2> DEFINE from == BufferSize - have
             rest == SubSeq(packet, from, more)
             all == <<dropped>> \o rest
  <2>1. Buffered(packet) = all
    <3>1. ~ (have + more < BufferSize)
      BY <1>1, <1>3
    <3>2. dropped = [Syn("SYN_DROPPED") EXCEPT !.at = clock.now]
      BY DEF Stamped
    <3> HIDE DEF dropped
    <3> QED BY <3>1, <3>2, Zenon DEF Buffered
  <2>2. from \in 1..more
    BY <1>1, <1>3
  <2> HIDE DEF from
  <2>3. /\ rest \in Seq(Recorded) /\ Len(rest) = more - from + 1
        /\ \A i \in 1..Len(rest) : rest[i].at = now
    BY <1>1, <2>2
  <2>4. dropped \in Recorded /\ dropped.at = now
    <3>1. Syn("SYN_DROPPED") \in SentEvents
      BY DEF SentEvents
    <3>2. Syn("SYN_DROPPED") = [type |-> "EV_SYN", code |-> "SYN_DROPPED", value |-> 0, at |-> None]
      BY DEF Syn, EventOf
    <3>3. dropped \in Recorded
      BY <1>1, <3>1 DEF Recorded
    <3> QED BY <3>2, <3>3 DEF Stamped
  <2> HIDE DEF dropped, rest
  <2>5. /\ all \in Seq(Recorded) /\ Len(all) = 1 + Len(rest)
        /\ \A i \in 1..Len(all) : all[i].at = now
    BY <2>3, <2>4
  <2> HIDE DEF all
  <2>6. Len(all) < BufferSize
    <3>1. Len(all) = 1 + (more - from + 1)
      BY <2>3, <2>5
    <3> HIDE DEF more
    <3> QED BY <1>1, <2>2, <3>1
  <2>7. ASSUME NEW mid \in Int, mid <= now
        PROVE  Ordered(all, mid, now)
    BY <1>1, <2>5, <2>7 DEF Ordered
  <2>8. \A mid \in Int : mid <= clock.now /\ Ordered(buffer, mid, clock.now) =>
          Ordered(all, mid, clock.now)
    BY <2>7
  <2> QED BY <2>1, <2>5, <2>6, <2>8
<1> QED BY <1>1, <1>2, <1>3

\* What is on the disk is not touched, and the rest of the invariant is about
\* what is still to be read.
LEMMA DiskKept ==
  ASSUME CaptureInv,
         UNCHANGED <<settings, budget, batch, result, phase, outcome, captureVars>>
  PROVE  HeaderInv' /\ BudgetInv'
<1>1. HeaderInv /\ BudgetInv
  BY DEF CaptureInv
<1>2. KeptSoFar' = KeptSoFar
  BY DEF KeptSoFar, KeptBefore, Boundaries, settings, captureVars
<1>3. BudgetInv'
  BY <1>1, <1>2 DEF BudgetInv, IsReached, settings, captureVars
<1>4. HeaderInv'
  BY <1>1 DEF HeaderInv, Header, settings, captureVars
<1> QED BY <1>3, <1>4

LEMMA ReadKept ==
  ASSUME CaptureInv, UNCHANGED <<settings, captureVars>>, clock'.sets \in Nat,
         clock'.sets >= clock.sets,
         clock'.sets = 0 => \A last \in Int : StampsInOrder(last) => StampsInOrder(last)'
  PROVE  ReadInv'
<1>1. ReadInv
  BY DEF CaptureInv
<1>2. /\ KeptSoFar' = KeptSoFar /\ FramesOf(written)' = FramesOf(written)
      /\ Scan(format, NothingRead, capture)' = Scan(format, NothingRead, capture)
  BY DEF KeptSoFar, KeptBefore, Boundaries, FramesOf, FrameAt, settings, captureVars
<1>3. clock.sets \in Nat
  BY DEF CaptureInv, CaptureType
<1>4. ASSUME NEW last \in Int, ReadAs(last) PROVE ReadAs(last)'
  BY <1>2, <1>3, <1>4 DEF ReadAs
<1>5. CASE \E last \in Int : ReadAs(last)
  BY <1>4, <1>5 DEF ReadInv
<1>6. CASE clock.sets > 0 /\ Scan(format, NothingRead, capture).error = "NonMonotonicTimestamp"
  BY <1>2, <1>3, <1>6 DEF ReadInv
<1> QED BY <1>1, <1>5, <1>6 DEF ReadInv

LEMMA SendStep ==
  ASSUME CaptureInv, NEW events \in Seq(SentEvents), Len(events) \in 1..2, Send(events)
  PROVE  CaptureInv'
<1> DEFINE packet == Packet(events)
<1>1. /\ buffer' = Buffered(packet) /\ clock' = [clock EXCEPT !.now = @ + 1]
      /\ UNCHANGED <<settings, budget, batch, result, phase, outcome, captureVars>>
  BY DEF Send, Packet
<1>2. CaptureType
  BY DEF CaptureInv
<1>3. /\ packet \in Seq(Recorded) /\ Len(packet) \in 1..3
      /\ \A i \in 1..Len(packet) : packet[i].at = clock.now
  <2>1. clock.now \in Nat
    BY <1>2 DEF CaptureType
  <2>2. /\ Packet(events) \in Seq(Recorded) /\ Len(Packet(events)) = Len(events) + 1
        /\ \A i \in 1..Len(Packet(events)) : Packet(events)[i].at = clock.now
    BY <2>1, PacketIsRecorded
  <2>3. Len(packet) = Len(events) + 1
    BY <2>2
  <2>4. Len(packet) \in 1..3
    <3>1. \A m, k : k \in 1..2 /\ m = k + 1 => m \in 1..3
      OBVIOUS
    <3> HIDE DEF packet
    <3> QED BY <2>3, <3>1
  <2> QED BY <2>2, <2>4
<1> HIDE DEF packet
<1>4. /\ buffer' \in Seq(Recorded) /\ Len(buffer') < BufferSize
      /\ \A mid \in Int : mid <= clock.now /\ Ordered(buffer, mid, clock.now) =>
           Ordered(buffer', mid, clock.now)
  BY <1>1, <1>2, <1>3, BufferedPacket
<1>5. /\ clock' = [now |-> clock.now + 1, sets |-> clock.sets]
      /\ clock.now \in Nat /\ clock.sets \in Nat
  BY <1>1, <1>2 DEF CaptureType
<1>6. CaptureType'
  <2>1. /\ clock' = [now |-> clock'.now, sets |-> clock'.sets]
        /\ clock'.now \in Nat /\ clock'.sets \in Nat
    BY <1>5
  <2>2. UNCHANGED <<batch, written, capture, budget>>
    BY <1>1 DEF captureVars
  <2> QED BY <1>2, <1>4, <2>1, <2>2 DEF CaptureType
<1>7. ASSUME NEW last \in Int, StampsInOrder(last) PROVE StampsInOrder(last)'
  <2>1. PICK mid \in Int : /\ last <= mid /\ mid <= clock.now
                           /\ Ordered(batch, last, mid) /\ Ordered(buffer, mid, clock.now)
    BY <1>7 DEF StampsInOrder
  <2>2. Ordered(buffer', mid, clock.now)
    BY <1>4, <2>1
  <2>3. \A i \in DOMAIN buffer' : buffer'[i].at \in Int
    BY <1>4, RecordedEvent
  <2>4. Ordered(buffer', mid, clock'.now)
    BY <1>5, <2>2, <2>3 DEF Ordered
  <2>5. mid <= clock'.now /\ Ordered(batch', last, mid)
    BY <1>1, <1>5, <2>1
  <2> QED BY <2>1, <2>4, <2>5 DEF StampsInOrder
<1>8. ReadInv'
  BY <1>1, <1>5, <1>7, ReadKept
<1> QED BY <1>1, <1>6, <1>8, DiskKept DEF CaptureInv

-----------------------------------------------------------------------------
(* The command keeps it.                                                   *)

LEMMA MetadataMore ==
  ASSUME NEW S, NEW lines \in Seq(S), NEW line \in S, line.type # "#"
  PROVE  Metadata(Append(lines, line)) = Metadata(lines)
<1> DEFINE more == Append(lines, line)
           m == Len(lines)
<1>1. /\ DOMAIN lines = 1..m /\ DOMAIN more = 1..(m + 1) /\ more[m + 1] = line /\ m \in Nat
      /\ \A i \in 1..m : more[i] = lines[i]
  OBVIOUS
<1> HIDE DEF more, m
<1>2. {j \in DOMAIN more : more[j].type = "#"} = {j \in DOMAIN lines : lines[j].type = "#"}
  BY <1>1
<1>3. \A j \in {i \in DOMAIN lines : lines[i].type = "#"} : more[j] = lines[j]
  BY <1>1
<1>4. Metadata(more) = Metadata(lines)
  BY <1>2, <1>3 DEF Metadata
<1> QED BY <1>4 DEF more

LEMMA HeaderLines ==
  /\ Header \in Seq(Comments) /\ Len(Header) \in 1..3
  /\ Metadata(Header) \in {{}, {"slots", "x", "y"}}
<1>1. CASE capable
  <2> DEFINE a == HeaderLine("slots")
             b == HeaderLine("x")
             c == HeaderLine("y")
             lines == <<a, b, c>>
  <2>1. Header = lines
    BY <1>1 DEF Header
  <2>2. a \in Comments /\ b \in Comments /\ c \in Comments
    BY DEF Comments, HeaderNames
  <2>3. DOMAIN lines = {1, 2, 3} /\ lines[1] = a /\ lines[2] = b /\ lines[3] = c
    OBVIOUS
  <2>4. /\ a.type = "#" /\ b.type = "#" /\ c.type = "#"
        /\ a.code = "slots" /\ b.code = "x" /\ c.code = "y"
    BY DEF HeaderLine
  <2>5. lines \in Seq(Comments) /\ Len(lines) = 3
    BY <2>2
  <2> HIDE DEF lines, a, b, c
  <2>6. {j \in DOMAIN lines : lines[j].type = "#"} = {1, 2, 3}
    BY <2>3, <2>4
  <2>7. {lines[i].code : i \in {1, 2, 3}} = {"slots", "x", "y"}
    BY <2>3, <2>4
  <2>8. Metadata(lines) = {"slots", "x", "y"}
    BY <2>6, <2>7 DEF Metadata
  <2> QED BY <2>1, <2>5, <2>8
<1>2. CASE ~capable
  <2> DEFINE a == HeaderLine("unavailable")
             lines == <<a>>
  <2>1. Header = lines
    BY <1>2 DEF Header
  <2>2. a \in Comments /\ a.code = "unavailable"
    BY DEF Comments, HeaderNames, HeaderLine
  <2>3. DOMAIN lines = {1} /\ lines[1] = a /\ lines \in Seq(Comments) /\ Len(lines) = 1
    BY <2>2
  <2> HIDE DEF lines, a
  <2>4. \A x \in Metadata(lines) : FALSE
    BY <2>2, <2>3 DEF Metadata
  <2> QED BY <2>1, <2>3, <2>4
<1> QED BY <1>1, <1>2

LEMMA WriteHeaderStep == ASSUME CaptureInv, WriteHeader PROVE CaptureInv'
<1> DEFINE line == Header[Len(capture) + 1]
           m == Len(capture)
<1>1. /\ phase = "header" /\ capture' = Append(capture, line)
      /\ phase' = IF m + 1 = Len(Header) THEN "read" ELSE "header"
      /\ UNCHANGED <<padVars, settings, budget, batch, result, outcome, written>>
  BY DEF WriteHeader
<1>2. CaptureType /\ HeaderInv /\ ReadInv /\ BudgetInv
  BY DEF CaptureInv
<1>3. /\ written = <<>> /\ batch = <<>> /\ capture \in Seq(Comments) /\ m < Len(Header)
      /\ \A i \in 1..m : capture[i] = Header[i]
  BY <1>1, <1>2 DEF HeaderInv
<1>4. Header \in Seq(Comments) /\ Len(Header) \in 1..3 /\ m \in Nat
  BY <1>3, HeaderLines
<1>5. line \in Comments /\ m + 1 <= Len(Header)
  BY <1>3, <1>4
<1>6. Comments \subseteq Lines
  BY DEF Comments, Lines
<1>7. /\ capture' \in Seq(Comments) /\ Len(capture') = m + 1
      /\ \A i \in 1..(m + 1) : capture'[i] = Header[i]
  BY <1>1, <1>3, <1>4, <1>5
<1> HIDE DEF line
<1>8. CaptureType'
  <2>1. capture \in Seq(Lines) /\ line \in Lines
    BY <1>2, <1>5, <1>6 DEF CaptureType
  <2>2. capture' \in Seq(Lines)
    BY <1>1, <2>1
  <2> QED BY <1>1, <1>2, <2>2 DEF CaptureType, padVars
<1>9. HeaderInv'
  <2>1. CASE phase' = "header"
    <3>1. m + 1 < Len(Header)
      BY <1>1, <1>4, <1>5, <2>1
    <3>2. Header' = Header
      BY <1>1 DEF Header, settings
    <3> QED BY <1>1, <1>3, <1>7, <2>1, <3>1, <3>2 DEF HeaderInv
  <2>2. CASE phase' # "header"
    <3>1. m + 1 = Len(Header)
      BY <1>1, <2>2
    <3>2. capture' = Header
      BY <1>4, <1>7, <3>1, SeqEqual
    <3>3. Metadata(capture') \in {{}, {"slots", "x", "y"}}
      BY <3>2, HeaderLines
    <3> QED BY <1>1, <1>3, <2>2, <3>3 DEF HeaderInv
  <2> QED BY <2>1, <2>2
<1>10. ReadInv'
  <2>1. Scan(format, NothingRead, capture) = NothingRead
        /\ Scan(format, NothingRead, capture') = NothingRead
    BY <1>3, <1>7, ScanComments
  <2>2. format' = format /\ written' = written /\ clock' = clock /\ batch' = batch
        /\ buffer' = buffer
    BY <1>1 DEF settings, padVars
  <2>3. KeptSoFar' = KeptSoFar /\ FramesOf(written)' = FramesOf(written)
    BY <2>2 DEF KeptSoFar, KeptBefore, Boundaries, FramesOf, FrameAt
  <2>4. ASSUME NEW last \in Int, ReadAs(last) PROVE ReadAs(last)'
    BY <2>1, <2>2, <2>3, <2>4 DEF ReadAs, StampsInOrder
  <2>5. NothingRead.error = "none"
    BY DEF NothingRead
  <2> QED BY <1>2, <2>1, <2>4, <2>5 DEF ReadInv
<1>11. BudgetInv'
  <2>1. written' = written /\ budget' = budget /\ result' = result /\ outcome' = outcome
        /\ requested' = requested /\ format' = format
    BY <1>1 DEF settings
  <2>2. KeptSoFar' = KeptSoFar
    BY <2>1 DEF KeptSoFar, KeptBefore, Boundaries
  <2>3. /\ Cardinality(SynLines(capture')) >= Cardinality(SynLines(capture))
        /\ Cardinality(SynLines(capture')) \in Nat /\ Cardinality(SynLines(capture)) \in Nat
    BY <1>1, <1>3, <1>5, <1>7, SynLinesFinite, SynLinesMore
  <2>4. ~result.ends
    BY <1>1, <1>2 DEF BudgetInv
  <2>5. phase' # "query"
    BY <1>1
  <2> QED BY <1>2, <2>1, <2>2, <2>3, <2>4, <2>5 DEF BudgetInv, IsReached
<1> QED BY <1>8, <1>9, <1>10, <1>11 DEF CaptureInv

LEMMA FetchStep == ASSUME CaptureInv, Fetch PROVE CaptureInv'
<1> DEFINE m == Len(buffer)
           n == IF ReadSize < m THEN ReadSize ELSE m
<1>1. /\ phase = "read" /\ buffer # <<>>
      /\ batch' = SubSeq(buffer, 1, n) /\ buffer' = SubSeq(buffer, n + 1, m)
      /\ result' = NoResult /\ phase' = "write"
      /\ UNCHANGED <<touching, clock, packets, settings, budget, outcome, captureVars>>
  BY DEF Fetch
<1>2. CaptureType /\ HeaderInv /\ ReadInv /\ BudgetInv
  BY DEF CaptureInv
<1>3. /\ buffer \in Seq(Recorded) /\ m \in Nat /\ m > 0 /\ m < BufferSize
      /\ DOMAIN buffer = 1..m
  BY <1>1, <1>2 DEF CaptureType
<1>4. n \in 1..m
  BY <1>3, SizesAssumption
<1> HIDE DEF n, m
<1>5. /\ batch' \in Seq(Recorded) /\ Len(batch') = n /\ \A i \in 1..n : batch'[i] = buffer[i]
      /\ DOMAIN batch' = 1..n
  BY <1>1, <1>3, <1>4 DEF m
<1>6. /\ buffer' \in Seq(Recorded) /\ Len(buffer') = m - n
      /\ DOMAIN buffer' = 1..(m - n)
      /\ \A i \in 1..(m - n) : buffer'[i] = buffer[n + i]
  <2> DEFINE lo == n + 1
  <2>1. lo \in Int /\ m \in Int /\ buffer' = SubSeq(buffer, lo, m)
    BY <1>1, <1>3, <1>4 DEF m
  <2>2. \A i \in lo..m : buffer[i] \in Recorded
    BY <1>3, <1>4 DEF m
  <2> HIDE DEF lo
  <2>3. /\ buffer' \in Seq(Recorded)
        /\ Len(buffer') = IF lo <= m THEN m - lo + 1 ELSE 0
        /\ \A i \in 1..(m - lo + 1) : buffer'[i] = buffer[lo + i - 1]
    BY <2>1, <2>2, SubSeqProperties
  <2>4. m - lo + 1 = m - n /\ Len(buffer') = m - n
    BY <1>3, <1>4, <2>3 DEF lo
  <2>5. \A i \in 1..(m - n) : lo + i - 1 = n + i
    BY <1>3, <1>4 DEF lo
  <2> QED BY <2>3, <2>4, <2>5
<1>7. CaptureType'
  <2>1. Len(buffer') < BufferSize
    BY <1>3, <1>4, <1>6, SizesAssumption
  <2> QED BY <1>1, <1>2, <1>5, <1>6, <2>1 DEF CaptureType, captureVars
<1>8. HeaderInv'
  BY <1>1, <1>2 DEF HeaderInv, captureVars
<1>9. KeptSoFar' = KeptSoFar
  BY <1>1 DEF KeptSoFar, KeptBefore, Boundaries, captureVars, settings
<1>10. BudgetInv'
  <2>1. ~result'.ends
    BY <1>1 DEF NoResult
  <2>2. outcome # "finished"
    BY DEF Fetch
  <2> QED BY <1>1, <1>2, <1>9, <2>1, <2>2 DEF BudgetInv, IsReached, captureVars, settings
<1>11. ASSUME NEW last \in Int, StampsInOrder(last) PROVE StampsInOrder(last)'
  <2>1. PICK mid \in Int : /\ last <= mid /\ mid <= clock.now
                           /\ Ordered(batch, last, mid) /\ Ordered(buffer, mid, clock.now)
    BY <1>11 DEF StampsInOrder
  <2>2. /\ \A i \in 1..m : mid <= buffer[i].at /\ buffer[i].at <= clock.now
        /\ \A i, j \in 1..m : i <= j => buffer[i].at <= buffer[j].at
    BY <1>3, <2>1 DEF Ordered
  <2>3. \A i \in 1..m : buffer[i].at \in Int
    BY <1>3, RecordedEvent
  <2> DEFINE top == buffer[n].at
  <2>4. top \in Int /\ last <= top /\ top <= clock.now /\ clock.now \in Int
    BY <1>2, <1>4, <2>1, <2>2, <2>3 DEF CaptureType
  <2>5. \A i \in 1..n : i \in 1..m /\ i <= n
    BY <1>3, <1>4
  <2>6. \A i \in 1..(m - n) : n + i \in 1..m /\ n <= n + i
    BY <1>3, <1>4
  <2>7. \A i \in 1..n : last <= batch'[i].at /\ batch'[i].at <= top
    BY <1>4, <1>5, <2>1, <2>2, <2>3, <2>5
  <2>8. \A i, j \in 1..n : i <= j => batch'[i].at <= batch'[j].at
    BY <1>5, <2>2, <2>5
  <2>9. \A i \in 1..(m - n) : top <= buffer'[i].at /\ buffer'[i].at <= clock.now
    BY <1>4, <1>6, <2>2, <2>6
  <2>10. \A i, j \in 1..(m - n) : i <= j => buffer'[i].at <= buffer'[j].at
    <3>1. \A i, j \in 1..(m - n) : i <= j => n + i <= n + j
      BY <1>3, <1>4
    <3> QED BY <1>6, <2>2, <2>6, <3>1
  <2> HIDE DEF top
  <2>11. Ordered(batch', last, top) /\ Ordered(buffer', top, clock.now)
    BY <1>5, <1>6, <2>7, <2>8, <2>9, <2>10 DEF Ordered
  <2>12. clock' = clock
    BY <1>1
  <2> QED BY <2>4, <2>11, <2>12 DEF StampsInOrder
<1>12. ReadInv'
  BY <1>1, <1>2, <1>11, ReadKept DEF CaptureType
<1> QED BY <1>7, <1>8, <1>10, <1>12 DEF CaptureInv

\* The line of the next event is written, and read back as that event.
LEMMA WriteReads ==
  ASSUME CaptureType, NEW ev \in Recorded, NEW last \in Int,
         Scan(format, NothingRead, capture) = ReadSoFar(FramesOf(written), KeptSoFar, last)
  PROVE  LET next == Scan(format, NothingRead, capture \o LinesFor(ev))
             more == Append(written, ev)
             kept == KeptBefore(more, Len(more) + 1)
         IN IF ~Kept(format, ev) \/ ~IsSyn(ev)
            THEN next = ReadSoFar(FramesOf(more), kept, last)
            ELSE /\ kept = <<>>
                 /\ ev.at < last => next.error = "NonMonotonicTimestamp"
                 /\ ev.at >= last => next = ReadSoFar(FramesOf(more), <<>>, ev.at)
<1> DEFINE next == Scan(format, NothingRead, capture \o LinesFor(ev))
           more == Append(written, ev)
           kept == KeptBefore(more, Len(more) + 1)
           n == Len(written)
           acc == ReadSoFar(FramesOf(written), KeptSoFar, last)
<1>1. written \in Seq(Recorded) /\ capture \in Seq(Lines) /\ n \in Nat
  BY DEF CaptureType
<1>2. kept = IF IsSyn(ev) THEN <<>>
             ELSE IF Kept(format, ev) THEN Append(KeptSoFar, Content(ev))
             ELSE KeptSoFar
  <2>1. Len(more) + 1 = n + 2
    BY <1>1
  <2>2. KeptBefore(more, n + 2)
          = IF IsSyn(ev) THEN <<>>
            ELSE IF Kept(format, ev) THEN Append(KeptBefore(written, n + 1), Content(ev))
            ELSE KeptBefore(written, n + 1)
    BY <1>1, KeptBeforeMore
  <2> QED BY <2>1, <2>2 DEF KeptSoFar
<1>3. FramesOf(more)
        = IF IsSyn(ev)
          THEN AddFrame(FramesOf(written),
                        ParsedFrame(EndedBy(ev, KeptSoFar), ev.at))
          ELSE FramesOf(written)
  BY <1>1, FramesOfMore DEF KeptSoFar
<1>4. IsSyn(ev) => Kept(format, ev)
  BY DEF IsSyn, Kept, FixtureCodes
<1> HIDE DEF more, kept
<1>5. CASE ~Kept(format, ev)
  <2>1. LinesFor(ev) = <<>>
    BY <1>5, LineOfEvent
  <2>2. capture \o LinesFor(ev) = capture
    BY <1>1, <2>1
  <2> QED BY <1>2, <1>3, <1>4, <1>5, <2>2 DEF more, kept
<1>6. CASE Kept(format, ev)
  <2>1. PICK line \in Lines : LinesFor(ev) = <<line>> /\ WrittenAs(ev, line)
    BY <1>6, LineOfEvent
  <2>2. capture \o LinesFor(ev) = Append(capture, line)
    BY <1>1, <2>1, AppendIsConcat
  <2>3. next = ReadLine(format, acc, line)
    BY <1>1, <2>2, ScanAppend
  <2> DEFINE events == EndedBy(ev, KeptSoFar)
             read == ReadLine(format, acc, line)
  <2>4. /\ ~IsSyn(ev) => read = ReadSoFar(FramesOf(written), Append(KeptSoFar, Content(ev)), last)
        /\ IsSyn(ev) /\ ev.at < last => read.error = "NonMonotonicTimestamp"
        /\ IsSyn(ev) /\ ev.at >= last =>
             read = ReadSoFar(AddFrame(FramesOf(written), ParsedFrame(events, ev.at)), <<>>, ev.at)
    <3> DEFINE frames == FramesOf(written)
               current == KeptSoFar
    <3>1. Kept(format, ev) /\ WrittenAs(ev, line)
      BY <1>6, <2>1
    <3>2. /\ acc = ReadSoFar(frames, current, last) /\ read = ReadLine(format, acc, line)
          /\ events = EndedBy(ev, current)
      OBVIOUS
    <3> HIDE DEF frames, current, acc, read, events
    <3>3. /\ ~IsSyn(ev) => read = ReadSoFar(frames, Append(current, Content(ev)), last)
          /\ IsSyn(ev) /\ ev.at < last => read.error = "NonMonotonicTimestamp"
          /\ IsSyn(ev) /\ ev.at >= last =>
               read = ReadSoFar(AddFrame(frames, ParsedFrame(EndedBy(ev, current), ev.at)), <<>>, ev.at)
      BY <3>1, <3>2, ReadRecorded
    <3> QED BY <3>2, <3>3 DEF frames, current
  <2> HIDE DEF read, events, next
  <2>5. ~IsSyn(ev) => read = ReadSoFar(FramesOf(more), kept, last)
    BY <1>2, <1>3, <1>6, <2>4
  <2>6. IsSyn(ev) /\ ev.at >= last => read = ReadSoFar(FramesOf(more), <<>>, ev.at)
    BY <1>3, <2>4 DEF events
  <2>7. next = read
    BY <2>3 DEF read
  <2> QED BY <1>2, <1>6, <2>4, <2>5, <2>6, <2>7 DEF more, kept, next
<1> QED BY <1>5, <1>6

\* Each line of an event is a boundary exactly if the event is one.
LEMMA LinesOfEvent ==
  ASSUME NEW ev \in Recorded, capture \in Seq(Lines)
  PROVE  /\ capture \o LinesFor(ev) \in Seq(Lines)
         /\ Metadata(capture \o LinesFor(ev)) = Metadata(capture)
         /\ LinesFor(ev) # <<>> => (IsBoundary(LinesFor(ev)[1]) <=> IsSyn(ev))
         /\ LinesFor(ev) = <<>> => ~IsSyn(ev)
         /\ Cardinality(SynLines(capture \o LinesFor(ev)))
              = Cardinality(SynLines(capture)) + (IF IsSyn(ev) THEN 1 ELSE 0)
<1>0. Cardinality(SynLines(capture)) \in Nat
  BY SynLinesFinite
<1>1. IsSyn(ev) => Kept(format, ev)
  BY DEF IsSyn, Kept, FixtureCodes
<1>2. CASE ~Kept(format, ev)
  <2>1. LinesFor(ev) = <<>>
    BY <1>2, LineOfEvent
  <2>2. capture \o LinesFor(ev) = capture
    BY <2>1
  <2> QED BY <1>0, <1>1, <1>2, <2>1, <2>2
<1>3. CASE Kept(format, ev)
  <2>1. PICK line \in Lines : LinesFor(ev) = <<line>> /\ WrittenAs(ev, line)
    BY <1>3, LineOfEvent
  <2>2. capture \o LinesFor(ev) = Append(capture, line)
    BY <2>1, AppendIsConcat
  <2>3. line.type = ev.type /\ line.code = ev.code /\ line.value = ev.value
    BY <2>1 DEF LineOf, WrittenAs
  <2>4. line.type # "#" /\ (IsBoundary(line) <=> IsSyn(ev)) /\ (IsSyn(line) <=> IsSyn(ev))
    BY <2>3, RecordedEvent DEF IsBoundary, IsSyn
  <2>5. Metadata(Append(capture, line)) = Metadata(capture)
    BY <2>4, MetadataMore
  <2>6. Cardinality(SynLines(Append(capture, line)))
          = Cardinality(SynLines(capture)) + (IF IsSyn(line) THEN 1 ELSE 0)
    BY SynLinesMore
  <2>7. LinesFor(ev) # <<>> /\ LinesFor(ev)[1] = line
    BY <2>1
  <2>8. Append(capture, line) \in Seq(Lines)
    OBVIOUS
  <2> QED BY <2>2, <2>4, <2>5, <2>6, <2>7, <2>8
<1> QED BY <1>2, <1>3

\* What is left of a batch is in order after its first event.
LEMMA OrderedTail ==
  ASSUME NEW events \in Seq(Recorded), events # <<>>, NEW lo \in Int, NEW hi \in Int,
         Ordered(events, lo, hi)
  PROVE  /\ Head(events) \in Recorded /\ Tail(events) \in Seq(Recorded)
         /\ lo <= Head(events).at /\ Head(events).at <= hi
         /\ Ordered(Tail(events), Head(events).at, hi) /\ Ordered(Tail(events), lo, hi)
<1> DEFINE m == Len(events)
           tl == Tail(events)
           hd == Head(events)
<1>1. /\ m \in Nat /\ m > 0 /\ hd = events[1] /\ hd \in Recorded /\ tl \in Seq(Recorded)
      /\ DOMAIN events = 1..m /\ DOMAIN tl = 1..(m - 1)
      /\ \A i \in 1..(m - 1) : tl[i] = events[i + 1]
  OBVIOUS
<1>2. /\ \A i \in 1..m : lo <= events[i].at /\ events[i].at <= hi
      /\ \A i, j \in 1..m : i <= j => events[i].at <= events[j].at
  BY <1>1 DEF Ordered
<1> HIDE DEF m, tl, hd
<1>3. \A i \in 1..(m - 1) : i + 1 \in 1..m /\ 1 \in 1..m /\ 1 <= i + 1
  BY <1>1
<1>4. \A i \in 1..(m - 1) : /\ hd.at <= tl[i].at /\ lo <= tl[i].at /\ tl[i].at <= hi
  BY <1>1, <1>2, <1>3
<1>5. \A i, j \in 1..(m - 1) : i <= j => tl[i].at <= tl[j].at
  <2>1. \A i, j \in 1..(m - 1) : i <= j => i + 1 <= j + 1
    BY <1>1
  <2> QED BY <1>1, <1>2, <1>3, <2>1
<1>6. Ordered(tl, hd.at, hi) /\ Ordered(tl, lo, hi)
  BY <1>1, <1>4, <1>5 DEF Ordered
<1>7. 1 \in 1..m
  BY <1>1
<1> QED BY <1>1, <1>2, <1>6, <1>7 DEF tl, hd

LEMMA WriteEventStep == ASSUME CaptureInv, WriteEvent PROVE CaptureInv'
<1> DEFINE ev == Head(batch)
           lines == LinesFor(ev)
<1>1. /\ phase = "write" /\ batch # <<>> /\ outcome = "running"
      /\ capture' = capture \o lines
      /\ result' = CASE lines = <<>> -> result
                     [] lines # <<>> /\ IsBoundary(lines[1]) ->
                          [boundaries |-> result.boundaries + 1, ends |-> TRUE]
                     [] OTHER -> [result EXCEPT !.ends = FALSE]
      /\ budget' = IF lines # <<>> /\ IsBoundary(lines[1]) THEN Observed(budget) ELSE budget
      /\ written' = Append(written, ev) /\ batch' = Tail(batch)
      /\ UNCHANGED <<padVars, settings, phase, outcome>>
  BY DEF WriteEvent
<1>2. CaptureType /\ HeaderInv /\ ReadInv /\ BudgetInv
  BY DEF CaptureInv
<1>3. /\ batch \in Seq(Recorded) /\ written \in Seq(Recorded) /\ capture \in Seq(Lines)
      /\ clock.sets \in Nat
  BY <1>2 DEF CaptureType
<1>4. ev \in Recorded /\ Tail(batch) \in Seq(Recorded)
  BY <1>1, <1>3
<1> HIDE DEF ev
<1>5. /\ capture \o lines \in Seq(Lines) /\ Metadata(capture \o lines) = Metadata(capture)
      /\ lines # <<>> => (IsBoundary(lines[1]) <=> IsSyn(ev))
      /\ lines = <<>> => ~IsSyn(ev)
      /\ Cardinality(SynLines(capture \o lines))
           = Cardinality(SynLines(capture)) + (IF IsSyn(ev) THEN 1 ELSE 0)
  BY <1>3, <1>4, LinesOfEvent
<1>6. budget' = IF IsSyn(ev) THEN Observed(budget) ELSE budget
  BY <1>1, <1>5
<1>7. CaptureType'
  <2>1. budget' = [remaining |-> budget'.remaining, draining |-> budget'.draining]
    BY <1>2, <1>6 DEF CaptureType, Observed
  <2>2. written' \in Seq(Recorded)
    BY <1>1, <1>3, <1>4
  <2>3. capture' \in Seq(Lines) /\ batch' \in Seq(Recorded)
    BY <1>1, <1>4, <1>5
  <2> QED BY <1>1, <1>2, <2>1, <2>2, <2>3 DEF CaptureType, padVars
<1>8. HeaderInv'
  BY <1>1, <1>2, <1>5 DEF HeaderInv
<1> DEFINE more == Append(written, ev)
           kept == KeptBefore(more, Len(more) + 1)
           next == Scan(format, NothingRead, capture \o lines)
<1>9. /\ KeptSoFar' = kept /\ FramesOf(written)' = FramesOf(more)
      /\ Scan(format, NothingRead, capture)' = next
      /\ clock' = clock /\ buffer' = buffer
  <2>1. format' = format /\ written' = more /\ capture' = capture \o lines
    BY <1>1 DEF settings
  <2> HIDE DEF more, lines
  <2> QED BY <1>1, <2>1 DEF KeptSoFar, KeptBefore, Boundaries, FramesOf, FrameAt, padVars
<1>10. kept = IF IsSyn(ev) THEN <<>>
              ELSE IF Kept(format, ev) THEN Append(KeptSoFar, Content(ev)) ELSE KeptSoFar
  <2>1. Len(more) + 1 = Len(written) + 2
    BY <1>3
  <2>2. KeptBefore(more, Len(written) + 2)
          = IF IsSyn(ev) THEN <<>>
            ELSE IF Kept(format, ev) THEN Append(KeptBefore(written, Len(written) + 1), Content(ev))
            ELSE KeptBefore(written, Len(written) + 1)
    BY <1>3, <1>4, KeptBeforeMore
  <2> QED BY <2>1, <2>2 DEF KeptSoFar
\* Only a kept event, not a boundary, ends what a boundary left behind.
<1>11. result'.ends => KeptSoFar' = <<>>
  <2>1. CASE IsSyn(ev)
    BY <1>9, <1>10, <2>1
  <2>2. CASE ~IsSyn(ev) /\ lines = <<>>
    <3>1. ~Kept(format, ev)
      BY <1>4, <2>2, LineOfEvent
    <3>2. result' = result
      BY <1>1, <2>2
    <3>3. KeptSoFar' = KeptSoFar
      BY <1>9, <1>10, <2>2, <3>1
    <3> QED BY <1>2, <3>2, <3>3 DEF BudgetInv
  <2>3. CASE ~IsSyn(ev) /\ lines # <<>>
    <3>1. result' = [result EXCEPT !.ends = FALSE]
      BY <1>1, <1>5, <2>3
    <3> QED BY <3>1
  <2> QED BY <2>1, <2>2, <2>3
<1>12. BudgetInv'
  <2>1. /\ requested' = requested /\ outcome' = outcome /\ phase' = phase
    BY <1>1 DEF settings
  <2>2. Cardinality(SynLines(capture)) \in Nat
    BY <1>3, SynLinesFinite
  <2> DEFINE old == Cardinality(SynLines(capture))
             new == Cardinality(SynLines(capture'))
             left == budget.remaining
  <2>3. new = old + (IF IsSyn(ev) THEN 1 ELSE 0)
    BY <1>1, <1>5
  <2>4. budget = [remaining |-> left, draining |-> budget.draining]
    BY <1>2 DEF CaptureType
  <2>5. requested = None => budget'.remaining = None
    BY <1>2, <1>6 DEF BudgetInv, Observed, None
  <2>6. ASSUME requested # None
        PROVE  requested \in Nat /\ budget'.remaining \in Nat /\ new + budget'.remaining >= requested
    <3>1. requested \in Nat /\ left \in Nat /\ old + left >= requested
      BY <1>2, <2>6 DEF BudgetInv
    <3>2. budget'.remaining = IF IsSyn(ev) /\ left > 0 THEN left - 1 ELSE left
      <4> HIDE DEF left
      <4> QED BY <1>6, <2>4 DEF Observed
    <3> HIDE DEF new, old, left
    <3> QED BY <2>2, <2>3, <3>1, <3>2 DEF old
  <2> HIDE DEF new
  <2>7. IF requested' = None THEN budget'.remaining = None
        ELSE /\ requested' \in Nat /\ budget'.remaining \in Nat
             /\ new + budget'.remaining >= requested'
    BY <2>1, <2>5, <2>6
  <2> QED BY <1>1, <1>11, <2>1, <2>7 DEF BudgetInv, new
<1>13. ReadInv'
  <2>1. CASE /\ Scan(format, NothingRead, capture).error = "NonMonotonicTimestamp"
             /\ clock.sets > 0
    <3>1. next = Scan(format, NothingRead, capture)
      <4>1. CASE ~Kept(format, ev)
        <5>1. capture \o lines = capture
          BY <1>3, <1>4, <4>1, LineOfEvent
        <5> QED BY <5>1
      <4>2. CASE Kept(format, ev)
        <5>1. PICK line \in Lines : lines = <<line>> /\ WrittenAs(ev, line)
          BY <1>4, <4>2, LineOfEvent
        <5>2. capture \o lines = Append(capture, line)
          BY <1>3, <5>1, AppendIsConcat
        <5>3. next = ReadLine(format, Scan(format, NothingRead, capture), line)
          BY <1>3, <5>2, ScanAppend
        <5> QED BY <2>1, <5>3, ReadRejected
      <4> QED BY <4>1, <4>2
    <3> QED BY <1>9, <2>1, <3>1 DEF ReadInv
  <2>2. CASE \E last \in Int : ReadAs(last)
    <3>1. PICK last \in Int : ReadAs(last)
      BY <2>2
    <3>2. Scan(format, NothingRead, capture) = ReadSoFar(FramesOf(written), KeptSoFar, last)
      BY <3>1 DEF ReadAs
    <3>3. IF ~Kept(format, ev) \/ ~IsSyn(ev)
          THEN next = ReadSoFar(FramesOf(more), kept, last)
          ELSE /\ kept = <<>>
               /\ ev.at < last => next.error = "NonMonotonicTimestamp"
               /\ ev.at >= last => next = ReadSoFar(FramesOf(more), <<>>, ev.at)
      BY <1>2, <1>4, <3>2, WriteReads
    <3> HIDE DEF next, kept, more, lines
    <3>4. ev.at \in Nat
      BY <1>4, RecordedEvent
    <3>5. PICK at \in Int : at = ev.at
      BY <3>4
    <3>6. ASSUME clock.sets = 0
          PROVE  at >= last /\ StampsInOrder(last)' /\ StampsInOrder(at)'
      <4>1. PICK mid \in Int : /\ last <= mid /\ mid <= clock.now
                               /\ Ordered(batch, last, mid) /\ Ordered(buffer, mid, clock.now)
        BY <3>1, <3>6 DEF ReadAs, StampsInOrder
      <4>2. /\ last <= at /\ at <= mid
            /\ Ordered(Tail(batch), at, mid) /\ Ordered(Tail(batch), last, mid)
        BY <1>1, <1>3, <3>5, <4>1, OrderedTail DEF ev
      <4>3. /\ Ordered(batch', last, mid) /\ Ordered(batch', at, mid)
            /\ Ordered(buffer', mid, clock'.now) /\ mid <= clock'.now
        BY <1>1, <1>9, <4>1, <4>2
      <4> QED BY <4>1, <4>2, <4>3 DEF StampsInOrder
    <3>7. IF ~Kept(format, ev) \/ ~IsSyn(ev)
          THEN next = ReadSoFar(FramesOf(more), kept, last)
          ELSE /\ kept = <<>>
               /\ at < last => next.error = "NonMonotonicTimestamp"
               /\ at >= last => next = ReadSoFar(FramesOf(more), <<>>, at)
      BY <3>3, <3>5
    <3>8. clock'.sets = clock.sets /\ (clock.sets = 0 \/ clock.sets > 0)
      BY <1>3, <1>9
    <3>9. CASE ~Kept(format, ev) \/ ~IsSyn(ev)
      <4>1. ReadAs(last)'
        BY <1>9, <3>6, <3>7, <3>8, <3>9 DEF ReadAs
      <4> QED BY <4>1 DEF ReadInv
    <3>10. CASE Kept(format, ev) /\ IsSyn(ev) /\ at >= last
      <4>1. ReadAs(at)'
        BY <1>9, <3>6, <3>7, <3>8, <3>10 DEF ReadAs
      <4> QED BY <4>1 DEF ReadInv
    <3>11. CASE Kept(format, ev) /\ IsSyn(ev) /\ at < last
      <4>1. clock'.sets > 0
        BY <3>6, <3>8, <3>11
      <4> QED BY <1>9, <3>7, <3>11, <4>1 DEF ReadInv
    <3> QED BY <3>9, <3>10, <3>11
  <2> QED BY <1>2, <2>1, <2>2 DEF ReadInv
<1> QED BY <1>7, <1>8, <1>12, <1>13 DEF CaptureInv

LEMMA SetClockBackStep == ASSUME CaptureInv, SetClockBack PROVE CaptureInv'
<1>1. /\ clock' = [now |-> 0, sets |-> clock.sets + 1]
      /\ UNCHANGED <<touching, buffer, packets, settings, budget, batch, result, phase,
                     outcome, captureVars>>
  BY DEF SetClockBack
<1>2. CaptureType
  BY DEF CaptureInv
<1>3. clock'.sets \in Nat /\ clock'.sets > 0 /\ clock'.sets >= clock.sets /\ clock'.now \in Nat
  BY <1>1, <1>2 DEF CaptureType
<1>4. CaptureType'
  BY <1>1, <1>2, <1>3 DEF CaptureType, captureVars
<1>5. ReadInv'
  BY <1>1, <1>3, ReadKept
<1>6. HeaderInv' /\ BudgetInv'
  BY <1>1, DiskKept
<1> QED BY <1>4, <1>5, <1>6 DEF CaptureInv

\* The steps between two reads, and those that end the command.
LEMMA QuietStep ==
  ASSUME CaptureInv,
         EndBatch \/ Decide \/ Interrupt \/ DeviceFails \/ UNCHANGED cvars
  PROVE  CaptureInv'
<1>1. CaptureType /\ HeaderInv /\ ReadInv /\ BudgetInv
  BY DEF CaptureInv
<1>2. /\ UNCHANGED <<padVars, settings, captureVars, batch, result>>
      /\ budget'.remaining = budget.remaining
      /\ budget' = [remaining |-> budget'.remaining, draining |-> budget'.draining]
      /\ phase = "header" <=> phase' = "header"
      /\ phase' # "write" => phase # "write" \/ batch = <<>>
      /\ phase' = "query" => (phase = "query" \/ (IsReached /\ CanFinish(result)))
      /\ outcome' = "finished" => (outcome = "finished" \/ phase = "query")
  BY <1>1 DEF EndBatch, Decide, Interrupt, DeviceFails, cvars, CaptureType
<1>3. CaptureType'
  BY <1>1, <1>2 DEF CaptureType, padVars, captureVars
<1>4. HeaderInv'
  BY <1>1, <1>2 DEF HeaderInv, Header, captureVars, settings
<1>5. ReadInv'
  <2>1. clock' = clock /\ clock.sets \in Nat /\ batch' = batch /\ buffer' = buffer
    BY <1>1, <1>2 DEF CaptureType, padVars
  <2>2. \A last \in Int : StampsInOrder(last) => StampsInOrder(last)'
    BY <2>1 DEF StampsInOrder
  <2>3. clock'.sets \in Nat /\ clock'.sets >= clock.sets
    BY <2>1
  <2> QED BY <1>2, <2>2, <2>3, ReadKept
<1>6. BudgetInv'
  <2>1. KeptSoFar' = KeptSoFar
    BY <1>2 DEF KeptSoFar, KeptBefore, Boundaries, captureVars, settings
  <2>2. /\ requested' = requested /\ capture' = capture /\ result' = result
        /\ IsReached' = IsReached
    BY <1>2 DEF captureVars, settings, IsReached
  <2>3. phase' = "query" \/ outcome' = "finished" => IsReached /\ result.ends
    BY <1>1, <1>2 DEF BudgetInv, CanFinish
  <2> QED BY <1>1, <1>2, <2>1, <2>2, <2>3 DEF BudgetInv
<1> QED BY <1>3, <1>4, <1>5, <1>6 DEF CaptureInv

\* Every file is read back as what was recorded, or refused for what it lacks.
LEMMA FileOfInvariant == CaptureInv => FileIsExactOrRefused
<1> SUFFICES ASSUME CaptureInv PROVE FileIsExactOrRefused
  OBVIOUS
<1> DEFINE start == ReadHeader(NothingRead, capture)
           scanned == Scan(format, start, capture)
           parsed == Parse(capture)
<1>1. CaptureType /\ HeaderInv /\ ReadInv /\ BudgetInv
  BY DEF CaptureInv
<1>2. parsed = Terminated(scanned)
  BY DEF Parse, Scan
<1>3. \A acc : Terminated(acc) = IF acc.error = "none" /\ acc.current # <<>>
                                 THEN [acc EXCEPT !.error = "UnterminatedFrame"] ELSE acc
  BY DEF Terminated, Rejected
<1>4. ASSUME start = NothingRead
      PROVE  /\ parsed.error \in {"none", "UnterminatedFrame"} =>
                  parsed.frames = FramesOf(written)
             /\ parsed.error = "UnterminatedFrame" => outcome # "finished"
             /\ parsed.error = "NonMonotonicTimestamp" => clock.sets > 0
             /\ parsed.error \in {"none", "UnterminatedFrame", "NonMonotonicTimestamp"}
  <2>1. scanned = Scan(format, NothingRead, capture)
    BY <1>4
  <2> HIDE DEF scanned, parsed
  <2>2. CASE \E last \in Int : ReadAs(last)
    <3>1. PICK last \in Int : scanned = ReadSoFar(FramesOf(written), KeptSoFar, last)
      BY <2>1, <2>2 DEF ReadAs
    <3>2. /\ scanned.error = "none" /\ scanned.current = KeptSoFar
          /\ scanned.frames = FramesOf(written)
      BY <3>1 DEF ReadSoFar
    <3>3. CASE KeptSoFar = <<>>
      <4>1. parsed = scanned
        BY <1>2, <1>3, <3>2, <3>3
      <4> QED BY <3>2, <4>1
    <3>4. CASE KeptSoFar # <<>>
      <4>1. parsed = [scanned EXCEPT !.error = "UnterminatedFrame"]
        BY <1>2, <1>3, <3>2, <3>4
      <4>2. parsed.error = "UnterminatedFrame" /\ parsed.frames = FramesOf(written)
        BY <3>1, <4>1 DEF ReadSoFar
      <4>3. outcome # "finished"
        BY <1>1, <3>4 DEF BudgetInv
      <4> QED BY <4>2, <4>3
    <3> QED BY <3>3, <3>4
  <2>3. CASE scanned.error = "NonMonotonicTimestamp" /\ clock.sets > 0
    <3>1. parsed = scanned
      BY <1>2, <1>3, <2>3
    <3> QED BY <2>3, <3>1
  <2> QED BY <1>1, <2>1, <2>2, <2>3 DEF ReadInv
<1>5. ASSUME start # NothingRead
      PROVE  phase = "header" /\ parsed.error = "MissingMetadataField"
  <2>1. /\ Metadata(capture) \notin {{}, {"slots", "x", "y"}}
        /\ start = [NothingRead EXCEPT !.error = "MissingMetadataField"]
    BY <1>5 DEF ReadHeader, Rejected
  <2>2. phase = "header" /\ capture \in Seq(Comments)
    BY <1>1, <2>1 DEF HeaderInv
  <2>3. scanned = start
    BY <2>2, ScanComments
  <2>4. start.error = "MissingMetadataField"
    BY <2>1 DEF NothingRead
  <2>5. parsed = start
    BY <1>2, <1>3, <2>3, <2>4
  <2> QED BY <2>2, <2>4, <2>5
<1>6. outcome = "finished" => Cardinality({i \in DOMAIN capture : IsSyn(capture[i])}) >= requested
  <2>1. Cardinality(SynLines(capture)) \in Nat
    BY <1>1, SynLinesFinite DEF CaptureType
  <2>2. outcome = "finished" => Cardinality(SynLines(capture)) >= requested
    BY <1>1, <2>1 DEF BudgetInv, IsReached, None
  <2> QED BY <2>2 DEF SynLines
<1> HIDE DEF start, scanned, parsed
<1>8. CASE start = NothingRead
  <2>1. CASE parsed.error = "none" \/ parsed.error = "UnterminatedFrame"
    BY <1>4, <1>6, <1>8, <2>1 DEF FileIsExactOrRefused, parsed
  <2>2. CASE parsed.error = "NonMonotonicTimestamp"
    BY <1>4, <1>6, <1>8, <2>2 DEF FileIsExactOrRefused, parsed
  <2> QED BY <1>4, <1>8, <2>1, <2>2
<1>9. CASE start # NothingRead
  BY <1>5, <1>6, <1>9 DEF FileIsExactOrRefused, parsed
<1> QED BY <1>8, <1>9

\* The inductive invariant of a capture.
THEOREM CaptureInvariant == CSpec => []CaptureInv
<1>1. CInit => CaptureInv
  BY CaptureInit
<1>2. CaptureInv /\ [CNext]_cvars => CaptureInv'
  <2> SUFFICES ASSUME CaptureInv, [CNext]_cvars PROVE CaptureInv'
    OBVIOUS
  <2>1. ASSUME NEW a \in SentEvents, NEW b \in SentEvents, Send(<<a, b>>) PROVE CaptureInv'
    <3> DEFINE events == <<a, b>>
    <3>1. events \in Seq(SentEvents) /\ Len(events) \in 1..2
      OBVIOUS
    <3>2. Send(events)
      BY <2>1
    <3> HIDE DEF events
    <3> QED BY <3>1, <3>2, SendStep
  <2>2. ASSUME NEW a \in SentEvents, Send(<<a>>) PROVE CaptureInv'
    <3> DEFINE events == <<a>>
    <3>1. events \in Seq(SentEvents) /\ Len(events) \in 1..2
      OBVIOUS
    <3>2. Send(events)
      BY <2>2
    <3> HIDE DEF events
    <3> QED BY <3>1, <3>2, SendStep
  <2>3. CASE Touch \/ Lift
    <3>1. /\ ContactId(7) \in SentEvents /\ ContactId(None) \in SentEvents
          /\ TouchKey(1) \in SentEvents /\ TouchKey(0) \in SentEvents
      BY DEF SentEvents
    <3>2. Send(<<ContactId(7), TouchKey(1)>>) \/ Send(<<ContactId(None), TouchKey(0)>>)
      BY <2>3 DEF Touch, Lift
    <3> QED BY <2>1, <3>1, <3>2
  <2>4. CASE \E extra \in Extras : Report(extra)
    <3>1. PICK extra \in Extras : Send(<<extra>>)
      BY <2>4 DEF Report
    <3>2. extra \in SentEvents
      BY DEF SentEvents
    <3> QED BY <2>2, <3>1, <3>2
  <2>5. CASE SetClockBack
    BY <2>5, SetClockBackStep
  <2>6. CASE WriteHeader \/ Fetch \/ WriteEvent
    BY <2>6, WriteHeaderStep, FetchStep, WriteEventStep
  <2>7. CASE EndBatch \/ Decide \/ Interrupt \/ DeviceFails \/ UNCHANGED cvars
    BY <2>7, QuietStep
  <2> QED BY <2>3, <2>4, <2>5, <2>6, <2>7 DEF CNext, Work
<1> QED BY <1>1, <1>2, PTL DEF CSpec

\* Wherever a capture ends, and however reads split it, its file is read back as
\* exactly what was recorded, or is refused for what it lacks.
THEOREM FilesAreExact == CSpec => []FileIsExactOrRefused
<1> QED BY CaptureInvariant, FileOfInvariant, PTL
==============================================================================
