-------------------------------- MODULE Replay --------------------------------
(***************************************************************************)
(* The recognizer run twice on the same recorded frames: live, where the   *)
(* alarm of a pending tap can go off between two frames, and in a replay,  *)
(* where time passes with the frames alone and once after the last one     *)
(* (run_frames in src/replay.rs, replay_raw in src/app/replay.rs).         *)
(*                                                                         *)
(* Both engines take the steps of module Engine in lockstep.  They differ  *)
(* in what they are built from: the live one read the slots' axes and      *)
(* whether the device is a clickpad, the replay knows of no axis and takes *)
(* every device for one without a clickpad.  Two history variables note    *)
(* when a recording depends on either.  Lost events are out of scope: a    *)
(* replay has no kernel to ask, and says so.                               *)
(***************************************************************************)
EXTENDS Engine

VARIABLES
  r,        \* the replay's engine
  rscan,    \* and its prepass
  passed,   \* the deadline of the last alarm: later frames have later stamps
  live,     \* history: what the live engine reported
  replayed, \* history: what the replay reported
  blind,    \* history: a contact took over an axis that is not recorded
  clicked,  \* history: a clickpad was down with a contact on an edge
  ended     \* the recording is over

\* Engine::new_with_output_and_buttonpad with false, the slots unseeded
R == INSTANCE Engine WITH e <- r, scan <- rscan, Buttonpad <- FALSE

rvars == <<vars, r, rscan, passed, live, replayed, blind, clicked, ended>>

ASSUME RecordedAssumption ==
  /\ None \notin Stamps
  /\ \A f \in Frames : \A i \in DOMAIN f.events : f.events[i].kind # "SynDropped"

NothingReported == [gestures |-> <<>>, slider_steps |-> <<>>]

\* What the output of a call adds to a report.
Reported(report, en) ==
  [gestures |-> report.gestures \o en.gestures,
   slider_steps |-> report.slider_steps \o en.slider_steps]

\* A contact began with an axis its frame left out, and nothing before it in
\* the recording gives the slot's value: the replay's memory is empty there.
\* The label counts where the slot held a palm's.
TakesUnrecorded(s) ==
  /\ IsActive(e, s)' /\ r'.contact[s].began_in_frame
  /\ \/ e'.memory[s].tool_type = PalmTool /\ r'.memory[s].tool_type = None
     \/ /\ phase' = "finalize" /\ phase = "events"
        /\ r'.memory[s].x = None \/ r'.memory[s].y = None

\* The clickpad is down and the replay has a contact on an edge.
ClicksOnEdge ==
  /\ Buttonpad /\ e'.pressed # {}
  /\ \E s \in Slots : IsClaimed(r'.contact[s])

Noted ==
  /\ blind' = (blind \/ \E s \in Slots : TakesUnrecorded(s))
  /\ clicked' = (clicked \/ ClicksOnEdge)

RInit ==
  /\ Init
  /\ r = R!NewEngine(e.cfg, [s \in Slots |-> NoMemory]) /\ rscan = EmptyScan
  /\ passed = 0
  /\ live = NothingReported /\ replayed = NothingReported
  /\ blind = FALSE /\ clicked = FALSE
  /\ ended = FALSE

\* Each reads the frame, live or from the file.
TakeRecorded(f, t) ==
  /\ ~ended /\ t >= passed
  /\ StartFrame(f, t) /\ R!StartFrame(f, t)
  /\ Noted
  /\ UNCHANGED <<passed, live, replayed, ended>>

ProcessRecorded ==
  /\ FrameStep /\ R!FrameStep
  /\ Noted
  /\ UNCHANGED <<passed, live, replayed, ended>>

EndRecorded ==
  /\ EndFrame /\ R!EndFrame
  /\ live' = Reported(live, e)
  /\ replayed' = Reported(replayed, r)
  /\ UNCHANGED <<passed, blind, clicked, ended>>

\* on_idle_poll: only the live engine has a clock of its own.  The alarm is
\* never early (Session), so frames to come are stamped with the deadline or
\* later.
Alarm ==
  /\ ~ended /\ AdvanceTime
  /\ passed' = NextDeadline(e)
  /\ UNCHANGED <<r, rscan, live, replayed, blind, clicked, ended>>

\* Time goes on for a tap that is still pending.
Settled(en) ==
  IF HasPendingTap(en) THEN ExpirePendingTap(en, NextDeadline(en)) ELSE en

\* Mutant: a recording ends with its last frame.
CutOff(en) == en

\* run_frames and replay_raw after the last frame
LastDeadline(en) == Settled(en)

EndOfRecording ==
  /\ ~ended /\ phase = "idle"
  /\ e' = Settled(e) /\ live' = Reported(live, e')
  /\ r' = LastDeadline(r) /\ replayed' = Reported(replayed, r')
  /\ ended' = TRUE
  /\ UNCHANGED <<phase, frame, stamp, at, scan, clock, kernel, rscan, passed>>
  /\ UNCHANGED <<blind, clicked>>

RNext ==
  \/ \E f \in Frames, t \in Stamps : TakeRecorded(f, t)
  \/ ProcessRecorded \/ EndRecorded \/ Alarm \/ EndOfRecording

RSpec == RInit /\ [][RNext]_rvars

-----------------------------------------------------------------------------
(* Properties                                                              *)

\* docs/dump-capture.md, docs/replay-format.md: a replay applies tap duration
\* and double-tap timing like the live proxy.  Whether the alarm went off
\* between two frames or not, both report the same gestures and slider steps in
\* the same order, in each of these too: a contact that leaves out an axis its
\* slot has from an earlier contact of the recording, labels, and clicks.  Two
\* kinds of recordings are excepted, where the code's engines do differ: a
\* contact that takes over an axis nobody recorded, and a clickpad that is
\* pressed with a contact on an edge.
ReplayReportsAlike == ended /\ ~blind /\ ~clicked => live = replayed

=============================================================================
