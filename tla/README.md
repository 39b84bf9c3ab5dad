# A TLA+ model of edgepad

edgepad grabs a touchpad, recognizes gestures that begin at its edges, runs the
commands bound to them, and passes every other touch on to the desktop through
a virtual touchpad. These modules model the code under `src/src`, TLC checks
them on small instances, and TLAPS proves the most important facts for every
size of touchpad, every configuration and every input.

Paths below are relative to the repository (`src/core.rs` is the crate's
recognizer). `PROJECT.json` maps every definition to the lines it models.

## 1. Inventory

| Component | State | Operations | What makes it correct |
|---|---|---|---|
| Recognition engine (`src/core*`) | one contact and one memory of axes per slot, current slot, buttons, pending tap, deadline, clock, settings | a frame event by event, finalization, button press and release, `advance_time`, `restore_passthrough_contacts`, `reconfigure` | palms are neutral; each contact has one owner; a tap is reported, paired or cancelled exactly once; a double tap is two lone taps; sliders keep remainders; held events belong to their contact |
| Raw routing (`src/raw/routing.rs`) | none | the engine's calls in the order a frame needs, with button presses first and releases last | a press takes edge contacts over before the frame, a release frees nothing within it |
| Output composer (`src/raw/output*`) | slots that are down, legacy keys and position, buttons, current slot | `compose_frame`, `finish`, lifts after a loss | the virtual touchpad shows exactly the forwarded contacts and is neutral at the end |
| Output processing (`src/proxy/session/output.rs`) | engine and composer | frame, recovery, deadline, stop | the two stay in step |
| Proxy session (`src/proxy/session*`) | frame under assembly, physical touches, alarm, stopper, drain deadline | events, idle polls, snapshots, reload, stop | alarm follows the deadline; a run ends, at rest; a reload happens at rest |
| Live proxy (`src/proxy/live.rs`) | devices | open, idle check, virtual touchpad, grab, snapshot, read loop, settle, ungrab | the touchpad is taken over and given back without a touch left behind or doubled, and every failure is reported |
| Dispatcher and worker (`src/actions*`) | bindings, bounded channel, worker, child process, counters | dispatch, reconfigure, run, cancel, join | order, at most once, nothing left running, shutdown returns, counters balance |
| Daemon (`src/app/daemon*`) | signal flags, stop and reload token, active configuration | signals, watcher, startup with retries, reload, shutdown | no request lost, one configuration, startup and stop come to an end |
| Configuration (`src/config*`, `src/app/profile.rs`, options of `cli.rs`) | none | text to a validated record, overrides, the recognizer's settings | what is accepted, the engine accepts; every binding can fire; daemon, proxy and replay mean the same by it |
| uinput and raw sink (`src/uinput.rs`, `src/raw/sink.rs`) | one batch of events | declare the virtual touchpad, write a frame as one batch | a frame is never split, and nothing that is forwarded is undeclared |
| Event dump (`src/dump.rs`, `src/app/capture.rs`) | budget, file | header, one line per event, the end of a capture | the file says what happened, wherever it ends |
| Capture parsing and replay (`src/raw/parse.rs`, `src/replay.rs`, `src/app/replay.rs`) | an engine | lines to frames, frames to gestures | what is read is what was written; a replay reports what the live session did |
| Device discovery, doctor, status (`src/device.rs`, `src/doctor*`, `src/status*`) | none | list, classify, select; checks; lines of a report | they agree with each other and with what the daemon then does |
| Command line, presentation, notification | none | parse, print, one datagram | see section 8 |

They interact as follows. The kernel's buffer is read by one thread, which runs
session, engine, composer and the writes to the virtual touchpad by plain calls.
It calls the gesture handler, which puts commands into a bounded channel to the
worker thread; the worker starts processes in their own group and polls them. A
signal handler sets flags, a watcher thread turns them into tokens, and the
session looks at the tokens between events. The two alarms (recognition
deadline, drain deadline) are wall-clock timeouts of the poll, the first of them
for a time that is counted on the input's clock. Doctor, status and dump run in
processes of their own, beside a daemon: they meet it only in the devices, the
configuration file and systemd's view of the service.

What is hard: palm labels and contact data in any order within a frame; a tap
whose meaning depends on what comes up to a deadline later; contacts that change
owner while their first events are still held back; events lost in the middle of
everything; stop and reload requests at any moment; two threads and a process
that count, cancel and wait for each other; steps of startup and cleanup that
fail one by one; a clock that is set back; a file that ends in the middle of a
frame; decisions that three parts of the program make each by itself. `PROJECT.json`
lists these hazards with their lines and the properties that would notice.

## 2. Modules

| Module | Models | State and actions |
|---|---|---|
| `Recognition` | `core/types.rs`, `contact.rs`, `slot.rs`, rules of `taps.rs` | operators only: events, contacts, zones, classification of a released contact |
| `EngineOps` | methods of `Engine` | operators from engine state to engine state; a handler is their composition |
| `Engine` | `raw/routing.rs`, `core/frame.rs`, deadline, recovery, reload | `e` is the `Engine`, `kernel` the device, `phase`/`frame`/`at` the place within a frame; one action per loop body of `process_frame_with_time` |
| `EngineHistory` | - | what the input meant, kept from the frames and never from the engine's flags; the user-level properties |
| `RawOutput` | `raw/output.rs`, `pointer.rs`, `sink.rs` | operators: composer and virtual touchpad |
| `Pipeline` | `proxy/session/output.rs`, settle output | Engine composed with RawOutput and the ends of a session |
| `TapDeadline` | deadline and expiry in `core/taps.rs`, `core.rs` | operators on a tap that is owed: when it falls due, and what a frame can make of it |
| `Recognizer` | what a session knows of the recognizer | the abstract specification: the owed tap frame by frame |
| `EngineOwed` | - | Engine with the abstract state as a history; shows that Engine implements Recognizer |
| `Session` | `proxy/session.rs`, `input.rs`, `timing.rs`, read loop | kernel buffer, batch, assembler, snapshot, touch state, alarm, stopper, drain, the stamps' clock; the recognizer is `Recognizer`'s tap and one finger |
| `Takeover` | `proxy_uinput_grab`, `settle_after_uinput_proxy_run`, `combine_proxy_run_and_ungrab_result` | the step it is at, the grab, waiting events, what the desktop sees on either touchpad, the errors it returns |
| `Capture` | `app/capture.rs`, `dump.rs`, `raw/parse.rs`, parser of `replay.rs`, `capture_metadata.rs` | touchpad, kernel buffer, batch, budget, file line by line; `Parse` reads it |
| `Replay` | `run_frames` of `replay.rs`, `replay_raw` of `app/replay.rs` | a second engine in lockstep with the live one, which has alarms, the device's memory of its slots and its clickpad |
| `Settings` | `config*`, `app/profile.rs`, the lookups of `actions.rs` | a file as keys and entries, edited and loaded |
| `Diagnosis` | `device.rs`, `config/device.rs`, `doctor*`, `status*`, a startup attempt | event nodes, permissions, file, service; the reports are functions of them |
| `ActionOrder` | the promise of `actions.rs` | the abstract specification of the dispatcher |
| `ActionWorker` | `actions.rs`, `worker.rs`, `process.rs` | both threads and the process, one action per step they can interleave at |
| `Daemon` | `app/daemon.rs`, `signals.rs`, `proxy_uinput_grab`, `notify.rs`, `config/device.rs` | signal flags, watcher, daemon's thread step by step, configuration file |
| `MC*` | - | instances for TLC (`MCTaps` of EngineOwed, `MCEngine` of EngineHistory, the others of the module they are named for; Session and Takeover need none) |
| `FoldFacts` | - | what a fold over a sequence computes, with the folded operator as a parameter |
| `*Proofs` | - | proofs; `AroundProofs` of Takeover and ActionWorker, `SetupProofs` of Settings and Diagnosis, `CommandProofs` of Daemon and Capture |

Definitions named as a `Mutant` state a plausible wrong version of the one they
stand before: with it in its place the property named in `PROJECT.json` fails.
No specification uses them.

Choices that shape the model:

- *Lengths* are whole device units on a square pad `0..Span`, and thresholds are
  integers. The code divides by the span and compares `f32` fractions: the scale
  differs, the comparison does not. Rounding is left out.
- *Frames* come from a set of sequences of events. With each event the kernel's
  own view (`kernel`) moves along, and a switch of slots is sent or left out as
  the kernel may. A few frames no kernel sends (`OddFrames`) exercise the error
  paths; the session ends there, as it does in the code.
- *Within a frame nothing interleaves*: the proxy is one thread. The steps of a
  frame are separate actions only so that each can be read beside its code.
- *Time* in Engine is the input's clock, and frames may carry none. Session has
  both clocks, `Epoch` apart, and `skew` is by how much the stamps' one was set
  back.
- *Lines of a capture* are records of their fields; which codes each format
  writes, under a name or as a number, and which ones a parser knows is modelled,
  the spelling is not.
- *A report* of doctor or status is a function of the system's state: the state
  changes step by step, a report is taken at one moment.
- *Processes* may leave their group and may ignore everything but `SIGKILL`.

## 3. Runs and what they show

| Run | Instance | Bounds | Question |
|---|---|---|---|
| `engine_taps` | two slots, three ids, one edge with double taps, palm labels, a click, `SYN_DROPPED`, two settings to reload between | times 1..5 | Are taps, double taps and palms decided by what the fingers did, and is what is owed what the session's alarm assumes? |
| `engine_pad` | two slots, clickpad, slider on one edge and swipes on another, `SYN_DROPPED` with two snapshots | untimed | Is every contact owned, promoted, held back and restored consistently? |
| `pipeline_clicks` | clickpad of two slots with palm labels, two settings, clicks, losses, of which one leaves the kernel in another slot than the engine guesses, failures | one time | Does the desktop see the forwarded contacts with their positions and labels, the keys and the buttons, and nothing after the end? |
| `actions` | capacity 1, four gestures, two bindings to reload between, processes that may leave their group, a runner that may panic | `Polls` 2 | Order, counters, cancellation, and does shutdown return all the same? |
| `session` | the daemon and runs of two frames, ended at once or when idle; a buffer of three events, a clock set back by one | people act until time 2, time ends at 5 | Do alarm, touches, reload, drain and end of a run fit together however late the loop is? |
| `session_drain` | the daemon, never late, all timeouts 1 | time ends at 8 | the finding of section 5 |
| `daemon` | four contents of the file, two SIGHUPs, an edit, a retry timeout of two intervals | - | Are signals, startup, reload, handover and end right at every interleaving and failure? |
| `takeover` | a finger in the centre or on an edge | three touches | What does the desktop see while the touchpad changes hands? |
| `capture` | both formats, budgets of two frames and none, three kinds of other events, reads of two events, a buffer of five | three packets, one setback | Is a file, cut off anywhere, read back as what happened or refused? Does a capture end? |
| `replay` | clickpad of two slots with axes from before, palms, clicks, contacts that leave axes out, two settings, one with a slider | times 1..6 | Does a replay report what the live session did, wherever its alarms went off, but for the two exceptions of section 5? |
| `settings` | two zones with entries, values on both sides of every limit | three edits | Does the engine accept what validation does, and can every binding fire? |
| `diagnosis` | two event nodes of four kinds, every state of service, `systemctl` and `/dev/uinput`, four contents of the file | - | Do doctor, status and the daemon agree? |

Why the bounds are enough for what they ask. A double tap needs two taps of one
slot and a competitor in another: two slots, three ids. The times 1..5 hold a
tap, a gap, a second tap and an expired deadline; `replay` has one more, for a
frame after it. A recovery needs a contact that survives, one that does not and
one that is new: two slots and two snapshots, and in `pipeline_clicks` a third one for
a kernel that goes on elsewhere. `pipeline_clicks` asks nothing of
durations, so its frames share one time, at which a tap is over, and may be
pending, and a deadline may pass. The dispatcher's channel of one is full while a
command runs and another waits, so that the last of four gestures meets a full
channel, and one that was full. In `session` the buffer of three overflows within
the second packet; nobody acts after time 2, and both timeouts pass before time 5
even if the loop was late. In `session_drain` the buffer never overflows and the
time is enough for two taps more than the drain should last. In `capture` reads
of two events split a packet, a buffer of five overflows within the second one,
and three packets make a frame before, in and after a loss, with the budget
reached at each. In `settings` three edits are a key with two entries, or two
keys that limit each other with one. In `takeover` three touches are one before,
one during and one after the grab. In `daemon` two SIGHUPs make one come while
the other is carried out, and two intervals make a second and a last attempt. In
`diagnosis` two event nodes and the daemon's own make a choice that is none, settled
or ambiguous; what more of them would change is in the theorems, which hold for any
number.

What the instances leave out on purpose is in section 5: the snapshots of
`engine_pad` end in the slot the engine assumes, and the contacts of
`pipeline_clicks` bring full coordinates.

Deadlock is not checked where the system may stop: touches may cease, and a
session, the dispatcher and the daemon end.

### The properties

*Engine.* `PalmsAreRejected`: a palm is excluded whenever its label comes within a
frame. `OwedTapIsPending`, `MatchNeedsPendingTap`, `EligibleIsAlone`: a tap is
paired or resolved once. `DoubleTapIsTwoTaps`: what is reported is what lone
fingers did, and a palm disturbs none of them. `OneMeaningPerContact`,
`PressedPadHasNoEdges`, `HeldNamesOwnSlot`: ownership. `SliderKeepsRemainder`:
steps reported so far and the finger differ by less than a step. `MirrorsKernel`:
engine and kernel agree between frames. `ImplementsRecognizer` is the refinement:
a tap that is owed changes from frame to frame only as the session expects.

*Pipeline.* `PadMirrorsForwarded`: contacts, labels, touch and tool keys and buttons
of the virtual touchpad against the engine and the device, with no contact put
where one is; what it does not declare, the kernel drops. Labels and legality are
claimed until a loss leaves the kernel in another slot than the engine guesses
(`astray`, section 5); contacts, keys and buttons hold after that too. `ForwardedAtItsPosition`,
`EndedIsNeutral`.

*Actions.* `KeepsOrder` is the refinement of `ActionOrder`. `StatsBalance`,
`JoinedLeavesNothing`, and under fairness `ShutdownReturns`, which includes that a
process that stayed in its group is gone.

*Session.* `AlarmIsTimely`: the alarm is never early, and late by no more than the
clock was set back. `TouchIsKnown`, `EndsProperly`, `ReloadsAtRest`;
`OwedTapResolves`, `RunEnds` under fairness.

*Daemon.* `ReloadIsRecorded`, `OneConfiguration`, `Handover`; `DaemonEnds` under
fairness.

*Takeover.* `TwoStreamsNeedARace`: a touch is on both touchpads only if it began
between the idle check and the grab. `VirtualFollowsFinger`: the virtual touchpad
has the finger once its events are read. `NeutralHandover`.

*Capture.* `FileIsExactOrRefused`: whatever the file holds when the capture stops, a
parser returns the frames as they happened, or an error that says why not; a
capture that finished has the frames it was asked for. `CaptureEnds` under
fairness.

*Replay.* `ReplayReportsAlike`: the same gestures and steps in the same order. It
excepts two kinds of recordings, which history variables recognize: a contact
took over an axis or a palm's label that the recording does not have (`blind`), or
a clickpad was pressed with a contact on an edge (`clicked`). Section 5 says what
the code does there; without either exception TLC finds the two reports different.

*Settings.* `EdgesFollowBindings`: an edge is active exactly if something is bound to
it, and the daemon's and the proxy's `--edge-width` come to the same.
`BindingsCanFire`: the engine accepts what validation does; each binding has an
edge with a width and a gesture that no other entry takes, and the action that
runs is the one that was written.

*Diagnosis.* `DoctorForeseesStart`: doctor's verdict on devices, configuration and
access is what a startup attempt then meets. `ReportsAgree`: doctor and status,
and a running daemon, left alone, is not reported as broken (its own virtual
touchpad is a touchpad among the devices). The daemon, doctor and status have a
copy each of the choice among several touchpads, and so has the model: `ResolveAuto`,
`AutoSelection`, `AutoLineIsOk`. `GivingUpIsRight`: a startup error that is not
retried is none that one more device or its permissions would cure. It does not say
that every retried error can be cured, and it is about devices and permissions: a
touchpad that is touched at startup is given up by design (section 5).

## 4. Fairness

- `ActionWorker`: weak fairness of the steps of either thread (the operating
  system schedules them, and no step waits for a lock) and of `Die` (a process
  that got `SIGKILL` ends). None for commands, gestures or the request: a command
  may run for ever.
- `Session`: weak fairness of the loop and of time. None for fingers, signals or
  failures. `LoopIsQuiet` stops time from running on past a loop that has work
  to do once the last actor has acted; before that the loop may be late by any
  amount.
- `Capture`: weak fairness of the command's work (a blocking read returns when
  events wait). None for the finger: `CaptureEnds` excuses one that never rests.
- `Daemon`: weak fairness of the watcher, of the daemon's thread, of time, and of
  `SessionEnds`. The last is what `RunEnds` shows of a session: it ends after a
  stop request.

## 5. Findings

`session_drain`, the run that expects a violation: the drain deadline is dropped at
each lift while a pending tap keeps the session busy
(`src/proxy/session/timing.rs:62`), so a finger that keeps tapping postpones the
end of a drain that `docs/passthrough-uinput.md:75` calls bounded. The daemon's
own liveness (`RunEnds`) holds once the finger rests.

Further disagreements of code and docs have no run of their own. The passing runs
leave them out, or state their properties so that they allow them, as follows.

- After `SYN_DROPPED` the engine's current slot is the last restored contact's, not
  the kernel's `ABS_MT_SLOT`, and the next events can go to the wrong contact
  (`src/core.rs:141`). A snapshot in `PadSnapshots` whose `slot` is another one
  violates `MirrorsKernel`. `pipeline_clicks` has such a snapshot: the desktop's contacts
  still are the engine's, but a label can be another contact's, and a lift can be sent
  for a contact that is not there.
- A contact whose first frame omits coordinates that its slot already has is
  forwarded without them (`src/core/routing.rs:98`), and the virtual touchpad never
  saw the earlier contact if an edge had claimed it. With a first frame of this kind
  in `ClickFrames`, `ForwardedAtItsPosition` fails.
- A snapshot read after `SYN_DROPPED` can hold a contact whose first event is still
  in the buffer (`src/proxy/live.rs:375`); the engine refuses it a second time, and
  the session ends with an error. Session has this end; no property forbids it.
- A finger that comes down between the idle check and the grab
  (`src/proxy/live.rs:73`) is down for the desktop on both touchpads. This is the
  race that `TwoStreamsNeedARace` excepts.
- Event stamps are real time (`src/proxy/live.rs:416`). When that clock is set back
  while a tap is owed, a later frame syncs the alarm to a deadline that is as far
  away as the setback; `AlarmIsTimely` allows for it, and a draining daemon waits
  for it. For the same reason dump can write stamps that decrease
  (`src/dump.rs:133`), which `FileIsExactOrRefused` lets its parsers refuse.
- dump asks the kernel whether a finger is down while events of its lift still wait
  (`src/app/capture.rs:96`), and may end without the release frame that
  `docs/dump-capture.md:91` promises.
- A replay is said to apply tap thresholds "exactly like the live proxy"
  (`docs/dump-capture.md:46`, `docs/replay-format.md:14`). The live engine starts with
  what the kernel knows of each slot (`src/core.rs:105`, `src/proxy/live.rs:90`), a
  replay's with nothing (`src/app/replay.rs:40`, `:129`), and dump does not record it. A
  first contact that leaves out a coordinate is therefore decided live and stays
  undecided in the replay, without a gesture; one that inherits a palm's label is a
  palm only live.
- The live engine takes a clickpad for one (`src/proxy/live.rs:75`), a replay's never
  does (`src/core.rs:68`), and dump does not record that either: a click hands the
  contact on an edge over to the desktop live, and leaves it a gesture in
  `replay-raw`.
- A touchpad that is touched when the daemon starts ends it (`src/app/daemon.rs:68`,
  and a test, `src/app/daemon/tests/startup.rs:93`), where other obstacles are waited
  for. Diagnosis has no fingers, and `GivingUpIsRight` does not see it.
- A slider step that validation accepts can be too small to move an `f32` anchor
  (`src/core/sliders.rs:48`): the loop would not end. The model's lengths are
  integers and do not show it.
- doctor looks commands up on its own `PATH`, not on that of the user service
  (`src/doctor/commands.rs:15`). `DoctorForeseesStart` is about devices,
  configuration and access, not about commands.

## 6. Proofs

TLAPS checks every proof; nothing is assumed but the named `ASSUME`s on the
constants (ranges of slots, settings within what configuration validation lets
through, frames of well-formed events, positive capacity, sets of names that do
not collide; in Pipeline that the touchpad presses only keys it has, labels all of
its slots or none, and that an odd frame names a slot that does not exist) and,
where a theorem's statement begins with `ASSUME`, what is said of its hypotheses
below.

`EngineProofs`. `TypeCorrect`: every reachable state of the recognizer is well
typed. `TypeInv`, which is inductive, adds to `TypeOK` how far the current frame
has been processed and that its events are events. One lemma per operator of
`EngineOps` gives its range; one step per action of `Next` cites them. The facts
about double taps are not inductive each by itself: a match is created from
eligibility, and eligibility is withdrawn when a second finger comes. `PairInv`
joins three parts: per slot, a palm or a free slot pairs with nothing and held
events name their own slot (`SlotInv`); a marked contact is eligible and timed and
its zone is the pending tap's (`MatchInv`); an eligible contact that is not
forwarded shares the pad with palms only (`AloneInv`). From it follow
`MatchIsSound`, `EligibilityIsSound` and `HeldEventsAreSound`, for any number of
slots and any frames. `KernelIsMirrored`: `Mirror`, that the engine addresses the
kernel's slot and has its contacts, holds after every event and not only between
frames.

`EngineHistoryProofs`. Most operations decide, route and report, and leave the
fingers alone: `Kept` says of two engine states what is then the same, it composes,
and so each action is the few fields its event sets followed by something that
keeps them (the `...View` lemmas of `EngineProofs`, which also says what the
operations do to reports and sliders). On these rest the theorems.

- `PressedPadForwards`. `PadInv`: a contact is placed before it is claimed, what is
  undecided is so only within its first frame (`ContactInv`), and between frames the
  engine's buttons are the physical ones (`ButtonsInv`).
- `PalmsAreExcluded`. `PalmInv` follows the prepass over the frame and then the loop:
  what the prepass knows of a slot and of a contact is what the events before it
  say (`ScanInv`), the labels of a frame that are still to come change nothing that
  was decided, and the slot's tool type is the one the next contact inherits.
- `TapsAreKept`. `OwedInv`: what the history calls moved or stepped, the contact's
  phase knows. Each operation either leaves pending taps and reports alone
  (`Quiet`), steps a slider (`Slides`), observes a position (`Watches`) or hears of
  a lift (`Hears`); each of them tells the pending tap before it drops it.
- `RecognizerIsImplemented`: the refinement of `Recognizer`. To the tap that is owed
  an operation does one of three things (`Moves`): it leaves it with the same second
  tap or ends it (`Waits`), a contact that just went down becomes the second tap in
  time (`Completes`), or a lift makes a new one (`Opens`). `SeenInv` says of every
  phase of a frame that what is owed is an outcome of what was seen before it; the
  end of the frame is then one step of `Recognizer`. A second tap counts from the
  frame's own time because only a frame's end decides what began in it, and nothing
  older is undecided (`FreshInv`).
- `SlidersKeepRemainder`. `SlideInv`: what the history counts as steps is what the
  anchor of the slider has moved (`FingerSlid`), and the finger is less than a step
  from the anchor whenever an event of it has been taken (`Near`), which an integer
  division of the distance gives. The anchor of a contact that is claimed late is
  its start, so a contact that began in the frame must not have moved since
  (`FingerStarts`); that follows from which coordinates the frame has still to give
  (`AxesFrom`).
- `OneMeaning`. `LiftInv`: what the end of a contact may say is read off its phase, so
  the invariant ties the phase to the past. `FingerMeant`: a contact that stepped is
  consumed, one that left the slop or is beyond it now is no candidate for a tap,
  and an undecided one still is; `Ages` says that no operation takes a phase back.
  `MarkInv`: while a tap is pending, every claimed contact is its second tap and
  still a tap, because claiming any other one, or moving or stepping one, ends the
  wait. So the lift of a finger never drops a tap and defers its own in one event,
  and it reports two gestures at most. That a palm was a palm all along is
  `PalmInv`; that only the lift in the kernel's slot ends a contact is `Mirror`.

Their hypotheses are about what the kernel sends; section 5 says what the code does
without them. `SnapshotsAtLastContact`: a snapshot's slot is the one the recovery
assumes. `KnownAxes`: coordinates of contacts are known, from the kernel at the
start (`EVIOCGMTSLOTS`) and from the events. `ReleaseIsLast`: no frame presses a
button after it released it, for the engine takes a frame's presses first.
`OddFramesBeginNothing`: the frames outside the kernel's protocol, which are there
for the error paths, begin no contact. The instances of `engine_taps` and
`engine_pad` satisfy these four. Sliders have two of their own, which `engine_pad` satisfies. `PlacesOnPad`: coordinates are
not negative, and known at the start and in snapshots. `AxesOnce`: a frame gives each
axis of a slot at most once, as the kernel's input core does, which keeps one value
of each; with a second one a contact could start at one place and be claimed with
its anchor at another. `OneMeaning` needs these two, `SnapshotsAtLastContact` and
`OddFramesBeginNothing`: with a second coordinate in its first frame a contact could
leave the slop before it is decided, and be claimed as a second tap that moved.

`FoldFacts` and `PipelineProofs`. Composer and virtual touchpad fold a frame's events.
`FoldFacts` proves of `FoldLeft` that it goes through its sequence element by
element, in two pieces if the sequence has two, and that a set of results which
each element stays in holds the last one; induction is over sets of numbers, and
the folded operator is a constant of the module, so each fold is an instance of it.
On this rest three theorems about the engine and the output together.

- `NeutralAtTheEnd` and `ButtonsFollow`. `KeysInv`: the touch and tool keys of the
  virtual touchpad are those for the composer's count, its keys are the composer's
  buttons, and the physical buttons are those once the frame's own have been
  added. `Lifted` leaves no slot active, whatever slots are.
- `PadMirrors`. What the engine has routed so far is a half of a frame; `Shown` says
  of a touchpad that took it which contacts, labels and legal steps it would have,
  and one lemma for each way an operation routes (an event passes, is held, a held
  contact passes, a claimed one is promoted) says how `Shown` changes: that is
  `Routes`. `FlagsInv` says which frames the kernel could not have sent and where
  the engine stops in them; `LabelInv` that the tool types the engine remembers are
  the touchpad's, frame by frame and event by event; `PadInv` that composer and
  touchpad are what the routed half makes of the last frame's. Legality is the
  difficult part: a down is sent only for a contact that was hidden, and a lift
  only for one that was not. It needs no hypothesis. That the engine addresses the
  kernel's slot (`Mirror`) and so knows its labels is part of the invariant only
  until a loss leads it astray; what contacts, keys and buttons come to is the fold
  of what was routed, whichever slot that was meant for (`Legal`, `AstrayOn`).

`AroundProofs`, dispatcher. `OrderInv` accounts for every accepted command: what was
started, what the worker holds and what still waits are together what was accepted,
in this order. It yields `ActionTypes` and, with the step simulation `RefineStep`,
`OrderIsKept`: the two threads implement `ActionOrder`, for any capacity,
bindings and number of gestures. `NothingIsLeft` has an invariant of its own: a
process is running only while the worker attends to it. `CountersBalance`: the
counters are written by two threads at five places; `Balanced` says what each may
lag behind by, one gesture that is being dispatched and one command that has not
ended, and that nothing else is missing.

`SetupProofs`, settings. `TInv`: the configuration in force is what an accepted file
and `--edge-width` make. What is accepted has one entry for each gesture of a zone, in
whatever spelling, and edges that are each less than half of the pad. The rest is
geometry: since the edges are that narrow, each bound zone has a place where a
finger that comes down is in this zone although corners belong to the zone tested
first, and from it there is room to move by the swipe's distance or by a slider's
step. From these follow `EdgesAreBound` and `BindingsFire`, for any span, widths,
limits and entries. `DefaultsAssumption` and `SettingsAssumption` say that the
built-in values pass the validation that a file's values do, and that
`--edge-width` is validated as the file's width is (`src/app/cli.rs:155`).

`SetupProofs`, diagnosis. `Consistent`: the daemon's own node, where there is one, is
known for its own, and a daemon that was left alone since it became ready has its file,
its device and its access; its own pad coming up changes no selection.
The three copies of the choice of a touchpad come to the same (`CopiesCoincide`).
`DoctorIsRight` and `ReportsAreAlike` follow by comparing the readers of one state,
section by section of the report; `GivingUpIsFinal` because what comes or can be
opened takes no candidate away. The set of event nodes is finite
(`NumbersAssumption`), which counting the candidates needs.

`SessionProofs`. `AlarmIsTimely` and `TouchIsKnown` speak of what the session has
processed; what it still has to process decides whether they last. The invariant
is therefore about the events in flight, kernel buffer and batch as one sequence.
`StampInv`: their stamps are in order but for what the clock was set back, and the
owed tap's deadlines come from a stamp no later than theirs. `ShapeInv`: they are
whole packets, or packets cut short by a loss, and the frame under assembly is
the beginning of one. `KnownInv`: the last of them that tells of the finger tells
what it does, and when none does the session knows. `EndInv`: a drain's timeout
starts with a finger down. From these follow `SessionTypes`, `AlarmIsRight`,
`AlarmIsInTime`, `FingerIsKnown`, `RunsEndProperly` and `ReloadsAreSafe`, for any
durations, buffer size, limits and setbacks. Its last section is about Recognizer,
whose tap the session keeps the alarm for: `OwedTapIsPrompt` for any two durations,
by an invariant that adds how late the tap's own deadline can be, which a second
tap hides while it is down and which counts again when that one turns out to be
none.

`AroundProofs`, takeover. `TInv` names for each stage what is held: the grab, the errors
so far, the physical touch (none after the grab unless one raced), the virtual touch
(only in a run, or if settling failed) and the finger the waiting events tell of.
It yields all the safety properties of `Takeover`.

`CommandProofs`, daemon. `DInv` follows an attempt: from the clone to the session the
attempt's configuration is the active one, because reloads are applied only before
the clone and in the session; before the grab there is a neutral virtual touchpad;
errors that may be retried are of a time before a session. `NoReloadIsLost`,
`ConfigurationIsOne` and `HandoverIsSafe` follow for any files and timeouts.

`CommandProofs`, capture. A file is read as a whole and written line by line, so the
invariant says at each line what a parser would have read by then. With the folds
of `FoldFacts`, one more line is one more step of the parser, and one more event is
a frame at its boundary, or one more event of the open frame. `CaptureInv`: the
lines written so far read as the frames of the events recorded so far, with the
events since the last boundary open (`ReadAs`); the stamps of what was read, of the
batch and of the kernel's buffer are in order up to the clock, unless that was set
back (`ReadInv`); the header comes first, and is whole once it is left (`HeaderInv`);
the boundaries counted off the budget are in the file, and a batch that ended with
one leaves no frame open (`BudgetInv`). `FilesAreExact` follows for both formats, any
reports beside the contacts, any budgets, and reads and buffers of any size. Its
`ASSUME`s say that a report belongs to one type of event and has no boundary's
name, and that the kernel's buffer holds more than one packet.

Only model-checked:

- `DoubleTapIsTwoTaps` of `EngineHistory` and `ForwardedAtItsPosition` of `Pipeline`: no
  proof yet, section 7.
- `ReplayReportsAlike`: it compares two engines, one of which has alarms, and what
  it says is about when an alarm may be late.
- All liveness: fairness and `ENABLED` are beyond this prover.

Some theorems state what no run lists, because it holds by the same invariant:
`ButtonsFollow`, `ActionTypes`, `OwedTapIsPrompt`, `TakeoverTypes`, `NothingIsHidden`,
`SessionTypes`, `AlarmIsRight`, and the inductive invariants themselves
(`PairInvariant`, `OrderInvariant`, `SettingsInvariant`, `StaysConsistent`,
`SessionInvariant`, `RecInvariant`, `TakeoverInvariant`, `DaemonInvariant`,
`CaptureInvariant`).

## 7. Plan

Done: the recognizer with its history and its abstraction, output, session with
recovery and clocks, takeover, dispatcher, daemon, capture, replay, settings,
diagnosis, and proofs of the safety of recognizer, output, session, takeover,
dispatcher, daemon, capture, settings and diagnosis. What is left, in this order:

1. *Double taps*: `DoubleTapIsTwoTaps`, from `MarkInv` and `PairInv` and from what the
   history's `first` and `pending` say of the tap that is owed.
2. *Positions*: `ForwardedAtItsPosition`, along the lines of `PadMirrors`, for frames that
   bring full coordinates.
3. *Replays*: `ReplayReportsAlike`, from the lateness of an alarm in `Session` and what
   `Moves` says of a tap that is owed.

## 8. Not modelled

- The parser of arguments, texts of reports and of `src/app/presentation.rs`, TOML
  syntax, numbers beyond a few of each range: functions of text.
- Capabilities, udev properties, ACLs and `systemctl`'s output as they are read: their
  results are chosen freely in Diagnosis. `doctor` does not see that an explicit
  path is no multitouch device, calls a missing `udevadm` a failure although access
  works, and rates an activating service differently from `status`; its comparison
  is stated up to these.
- Ranges, fuzz and resolution of the virtual touchpad's axes, its input properties,
  single write calls: I/O. A write that fails ends the session, which Pipeline,
  Takeover and Daemon have.
- Statistics and gesture counters of a proxy run; the dry run, which is the read
  loop without a virtual device.
- A capture's last line cut in half by a full disk; events that the kernel drops when
  dump asks for key states; clicks, which the replay format leaves out; what
  follows `SYN_DROPPED` in a replay, which has no kernel to ask.
- Swipes towards the outside of the pad on an edge narrower than the swipe's least
  distance: `BindingsCanFire` is about zones, widths and conflicts.
- Device ranges with an offset or two different spans.
- Several fingers and untimed events in Session; the engine's own content in
  Session, Takeover and Daemon.
