-------------------------------- MODULE Session --------------------------------
(***************************************************************************)
(* The life of a proxy session around the recognizer: the kernel's event   *)
(* buffer, the read loop (run_proxy_loop), frame assembly and recovery     *)
(* from lost events, the wall-clock alarm of the recognition deadline,     *)
(* reload, and the ways a run stops (src/proxy/session.rs, session/input   *)
(* and session/timing).                                                    *)
(*                                                                         *)
(* The recognizer is what the session sees of it: whether its contact is   *)
(* down and the tap it owes (TapDeadline).  One finger stands for all.    *)
(***************************************************************************)
EXTENDS Sequences, TapDeadline

CONSTANTS
  Limits,          \* the limits a run can have
  FrameBoundaries, \* of a frame limit
  DrainTimeout,    \* idle_drain_timeout
  Epoch,           \* of the input timestamps: theirs is not the wall clock's
  ClockSteps,      \* bound: how far the clock of the timestamps is set back
  BufferSize,      \* of the kernel, in events
  Timely,          \* bound: the loop is never late
  Horizon,         \* bound: from then on nobody acts and the loop is not late
  MaxTime          \* bound: end of time

\* ProxyRunLimit: a token stops the daemon; a frame limit ends the run where it
\* is reached or when recognition is idle.
ASSUME LimitsAssumption ==
  Limits \subseteq {"UntilStopped", "Immediately", "WhenIdle"}
ASSUME BoundariesAssumption == FrameBoundaries \in Nat \ {0}
ASSUME TimesAssumption ==
  /\ DrainTimeout \in Nat /\ Epoch \in Nat /\ ClockSteps \in 0..Epoch /\ Horizon \in Nat /\ MaxTime \in Nat
ASSUME BufferAssumption == BufferSize \in Nat \ {0, 1} /\ Timely \in BOOLEAN

VARIABLES
  limit,    \* ProxyRunLimit
  skew,     \* by how much the clock of the timestamps was set back
  now,      \* Instant::now()
  finger,   \* a finger is on the touchpad
  buffer,   \* events the kernel holds for the daemon
  stop,     \* StopToken
  reload,   \* ReloadToken
  batch,    \* fetched events still to be processed
  snapshot, \* the time of a SYN_REPORT that asks for a snapshot, or None
  frames,   \* FrameAssembler: the frame it collects, or Discarded
  touch,    \* PhysicalTouchState: [active, desynchronized]
  engine,   \* the recognizer: [down, owed], the tap being one of TapDeadline's
  alarm,    \* RecognitionDeadline: [input, wall]
  stopper,  \* ProxyLoopStopper: [observed, draining]
  drain,    \* ProxySession.drain_deadline
  outcome,  \* "running"; then "finished", "timed out" or "failed"
  restedAt, \* history: when the session last knew no finger to be down
  drainedAt \* history: when it began to drain

kernelVars == <<finger, buffer>>
tokenVars == <<stop, reload>>
loopVars == <<batch, snapshot, frames, touch, engine, alarm, stopper, drain, outcome,
              restedAt, drainedAt>>
svars == <<limit, skew, now, kernelVars, tokenVars, loopVars>>

NoTouch == [active |-> FALSE, desynchronized |-> FALSE]
LostTouch == [active |-> FALSE, desynchronized |-> TRUE]
NoAlarm == [input |-> None, wall |-> None]

SInit ==
  /\ limit \in Limits
  /\ skew = 0
  /\ now = 0
  /\ finger = FALSE /\ buffer = <<>>
  /\ stop = FALSE /\ reload = FALSE
  /\ batch = <<>> /\ snapshot = None /\ frames = <<>>
  /\ touch = NoTouch
  /\ engine = [down |-> FALSE, owed |-> NoOwed]
  /\ alarm = NoAlarm
  /\ stopper = [observed |-> 0, draining |-> FALSE]
  /\ drain = None
  /\ outcome = "running"
  /\ restedAt = 0 /\ drainedAt = None

-----------------------------------------------------------------------------
(* The kernel and the rest of the daemon                                   *)

Stamped(kind) == [kind |-> kind, at |-> now + Epoch - skew]

\* A full buffer is dropped whole, but for the report that did not fit.
Send(kind) ==
  /\ outcome = "running" /\ now < Horizon
  /\ buffer' =
       IF Len(buffer) + 2 > BufferSize
       THEN <<Stamped("Dropped"), Stamped("Report")>>
       ELSE buffer \o <<Stamped(kind), Stamped("Report")>>
  /\ UNCHANGED <<limit, skew, now, tokenVars, loopVars>>

Touch == ~finger /\ finger' = TRUE /\ Send("Down")
Lift == finger /\ finger' = FALSE /\ Send("Up")
Move == finger /\ UNCHANGED finger /\ Send("Move")

\* The timestamps are real time, which can be set while events are on their way.
SetClockBack ==
  /\ outcome = "running" /\ now < Horizon
  /\ \E back \in 1..(ClockSteps - skew) : skew' = skew + back
  /\ UNCHANGED <<limit, now, kernelVars, tokenVars, loopVars>>

\* A signal reaches its token.
RequestStop ==
  /\ limit = "UntilStopped" /\ ~stop /\ now < Horizon
  /\ stop' = TRUE
  /\ UNCHANGED <<limit, skew, now, kernelVars, reload, loopVars>>

\* Only the daemon's handler has anything to reload.
RequestReload ==
  /\ limit = "UntilStopped" /\ ~reload
  /\ reload' = TRUE
  /\ UNCHANGED <<limit, skew, now, kernelVars, stop, loopVars>>

-----------------------------------------------------------------------------
(* Recognition deadlines                                                   *)

Later(t, d) == IF d > t THEN d - t ELSE 0

\* Mutant: the deadline is taken for a time of the wall clock.
SyncToWall(al, deadline, t) ==
  IF deadline = None THEN NoAlarm
  ELSE IF t = None THEN al
  ELSE [input |-> deadline, wall |-> now + Later(now, deadline)]

\* RecognitionDeadline::sync
Sync(al, deadline, t) ==
  IF deadline = None THEN NoAlarm
  ELSE IF t = None THEN al
  ELSE [input |-> deadline, wall |-> now + Later(t, deadline)]

AlarmIsDue == alarm.wall # None /\ alarm.wall <= now

-----------------------------------------------------------------------------
(* Stopping and reloading                                                  *)

IsTouchDown(tch) == tch.active \/ tch.desynchronized
IsBusy(tch, en) == IsTouchDown(tch) \/ en.owed # NoOwed

\* observe_requested_stop, for a stopper that does not drain yet
RequestedStop(st, busy) ==
  [finished |-> ~busy, stopper |-> [st EXCEPT !.draining = busy]]

\* ProxyLoopStopper::observe_frame_boundary; observed counts to one over the
\* limit, which is all that is compared.
AtBoundary(st, busy) ==
  LET counted == [st EXCEPT !.observed = IF @ > FrameBoundaries THEN @ ELSE @ + 1]
      drained == [finished |-> ~busy, stopper |-> [counted EXCEPT !.draining = busy]]
      goOn == [finished |-> FALSE, stopper |-> counted]
  IN CASE limit = "UntilStopped" ->
            IF st.draining THEN [drained EXCEPT !.stopper.observed = st.observed]
            ELSE IF stop THEN RequestedStop(st, busy)
            ELSE [finished |-> FALSE, stopper |-> st]
       [] limit # "UntilStopped" /\ counted.observed < FrameBoundaries -> goOn
       [] limit = "Immediately" /\ counted.observed >= FrameBoundaries ->
            [finished |-> TRUE, stopper |-> counted]
       [] limit = "WhenIdle" /\ counted.observed >= FrameBoundaries -> drained

\* ProxyLoopStopper::observe_idle_poll
AtIdlePoll(st, busy) ==
  IF st.draining /\ ~busy THEN [finished |-> TRUE, stopper |-> st]
  ELSE IF limit = "UntilStopped" /\ stop THEN RequestedStop(st, busy)
  ELSE [finished |-> FALSE, stopper |-> st]

\* Mutant: every poll starts the timeout anew.
RearmDrain(st, tch) ==
  IF ~st.draining \/ ~IsTouchDown(tch) \/ limit = "Immediately" THEN None
  ELSE now + DrainTimeout

\* Mutant: the time a finger was up between counts as held.
KeepDrain(st, tch) ==
  IF ~st.draining THEN None
  ELSE IF drain # None THEN drain
  ELSE IF limit = "Immediately" THEN None
  ELSE now + DrainTimeout

\* sync_physical_drain_deadline
DrainDeadline(st, tch) ==
  IF ~st.draining \/ ~IsTouchDown(tch) THEN None
  ELSE IF drain # None THEN drain
  ELSE IF limit = "Immediately" THEN None
  ELSE now + DrainTimeout

\* Mutant: a tap that is pending does not hold up a reload.
ReloadBetweenContacts(tch, en) == ~IsTouchDown(tch)

\* apply_pending_recognition_reload
MayReload(tch, en) == ~IsTouchDown(tch) /\ en.owed = NoOwed

\* finish_on_stop, and the reload if the session goes on.
Conclude(verdict, tch, en, reloads) ==
  LET deadline == DrainDeadline(verdict.stopper, tch)
      timedOut == deadline # None /\ deadline <= now
      ends == verdict.finished \/ timedOut
  IN /\ stopper' = verdict.stopper
     /\ drain' = deadline
     /\ outcome' = IF timedOut THEN "timed out"
                   ELSE IF verdict.finished THEN "finished" ELSE "running"
     /\ reload' = (reload /\ ~(reloads /\ ~ends /\ MayReload(tch, en)))
     /\ drainedAt' = IF verdict.stopper.draining /\ drainedAt = None THEN now
                     ELSE drainedAt

\* The new state of recognition, at a moment that concludes or does not.
Recognized(tch, en, al) ==
  /\ touch' = tch /\ engine' = en /\ alarm' = al
  /\ restedAt' = IF IsTouchDown(tch) THEN restedAt ELSE now

-----------------------------------------------------------------------------
(* The read loop                                                           *)

AtPoll == outcome = "running" /\ batch = <<>> /\ snapshot = None
Reading == outcome = "running" /\ batch # <<>> /\ snapshot = None

\* fetch_events returns what the kernel had, or what the read could hold.
Fetch ==
  /\ AtPoll /\ buffer # <<>>
  /\ \E n \in 1..Len(buffer) :
       /\ batch' = SubSeq(buffer, 1, n)
       /\ buffer' = SubSeq(buffer, n + 1, Len(buffer))
  /\ UNCHANGED <<limit, skew, now, finger, tokenVars, snapshot, frames, touch, engine, alarm, stopper,
                 drain, outcome, restedAt, drainedAt>>

\* Mutant: the poll is not woken for a recognition deadline.
WithoutAlarm ==
  IF drain # None THEN drain <= now ELSE limit = "UntilStopped"

\* The timeout of poll_timeout can be over; STOP_POLL_INTERVAL always can.
TimeoutIsOver ==
  AlarmIsDue \/ (IF drain # None THEN drain <= now ELSE limit = "UntilStopped")

FramesAreIdle == frames = <<>>

\* on_idle_poll
IdlePoll ==
  /\ AtPoll /\ buffer = <<>> /\ TimeoutIsOver
  /\ LET en == [engine EXCEPT !.owed =
                   IF AlarmIsDue THEN Expired(@, alarm.input) ELSE @]
         al == IF AlarmIsDue THEN Sync(NoAlarm, en.owed.due, alarm.input) ELSE alarm
     IN /\ Recognized(touch, en, al)
        /\ Conclude(AtIdlePoll(stopper, IsBusy(touch, en)), touch, en, FramesAreIdle)
  /\ UNCHANGED <<limit, skew, now, kernelVars, stop, batch, snapshot, frames>>

Discarded == <<"Dropped">>

\* FrameInput::Pending
Collect ==
  /\ Reading
  /\ \/ /\ frames # Discarded /\ Head(batch).kind \in {"Down", "Up", "Move"}
        /\ frames' = Append(frames, Head(batch).kind)
     \/ /\ frames = Discarded /\ Head(batch).kind # "Report"
        /\ UNCHANGED frames
  /\ batch' = Tail(batch)
  /\ UNCHANGED <<limit, skew, now, kernelVars, tokenVars, snapshot, touch, engine, alarm,
                 stopper, drain, outcome, restedAt, drainedAt>>

\* What the collected frame tells of the finger, and what observe_frame and the
\* recognizer make of it.
FrameEvent == IF frames = <<>> THEN "None" ELSE Head(frames)
AfterFrame(t) ==
  IF FrameEvent = "None" THEN {engine.owed}
                         ELSE OwedAfter(engine.owed, {FrameEvent}, t)
DownAfter(was) == FrameEvent = "Down" \/ (was /\ FrameEvent # "Up")

\* FrameInput::Boundary; the recognizer refuses a contact in a slot that has one.
Boundary ==
  /\ Reading /\ Head(batch).kind = "Report" /\ frames # Discarded
  /\ LET t == Head(batch).at
         tch == [touch EXCEPT !.active = DownAfter(@)]
     IN IF FrameEvent = "Down" /\ engine.down
        THEN /\ outcome' = "failed" /\ touch' = tch
             /\ UNCHANGED <<engine, alarm, restedAt, stopper, drain, reload, drainedAt>>
        ELSE \E o \in AfterFrame(t) :
               LET en == [down |-> DownAfter(engine.down), owed |-> o]
                   al == IF FrameEvent = "None" THEN alarm ELSE Sync(alarm, o.due, t)
               IN /\ Recognized(tch, en, al)
                  /\ Conclude(AtBoundary(stopper, IsBusy(tch, en)), tch, en, TRUE)
  /\ batch' = Tail(batch) /\ frames' = <<>>
  /\ UNCHANGED <<limit, skew, now, kernelVars, stop, snapshot>>

\* FrameInput::Dropped: nothing stops or reloads before the snapshot.
Dropped ==
  /\ Reading /\ Head(batch).kind = "Dropped" /\ frames # Discarded
  /\ Recognized(LostTouch,
                [down |-> FALSE, owed |-> NoOwed],
                Sync(alarm, None, Head(batch).at))
  /\ batch' = Tail(batch) /\ frames' = Discarded
  /\ UNCHANGED <<limit, skew, now, kernelVars, tokenVars, snapshot, stopper, drain, outcome,
                 drainedAt>>

\* FrameInput::Resync
AskSnapshot ==
  /\ Reading /\ Head(batch).kind = "Report" /\ frames = Discarded
  /\ snapshot' = Head(batch).at
  /\ batch' = Tail(batch) /\ frames' = <<>>
  /\ UNCHANGED <<limit, skew, now, kernelVars, tokenVars, touch, engine, alarm, stopper, drain,
                 outcome, restedAt, drainedAt>>

\* Mutant: the contacts of the snapshot are not taken over.
RestoredEmpty == NoTouch
\* PhysicalTouchState::restore_contacts
RestoredTouch == [active |-> finger, desynchronized |-> FALSE]

\* read_resync_slot_snapshot reads what the kernel holds by now, and
\* restore_snapshot takes it.
Restore ==
  /\ outcome = "running" /\ snapshot # None
  /\ LET tch == RestoredTouch
         en == [engine EXCEPT !.down = finger]
     IN /\ Recognized(tch, en, Sync(alarm, en.owed.due, snapshot))
        /\ Conclude(AtBoundary(stopper, IsBusy(tch, en)), tch, en, TRUE)
  /\ snapshot' = None
  /\ UNCHANGED <<limit, skew, now, kernelVars, stop, batch, frames>>

\* The device is gone.
ReadFails ==
  /\ outcome = "running" /\ batch = <<>>
  /\ outcome' = "failed"
  /\ UNCHANGED <<limit, skew, now, kernelVars, tokenVars, batch, snapshot, frames, touch, engine,
                 alarm, stopper, drain, restedAt, drainedAt>>

-----------------------------------------------------------------------------
LoopIsQuiet ==
  /\ AtPoll /\ buffer = <<>> /\ ~AlarmIsDue
  /\ drain # None => drain > now
  /\ stop => stopper.draining

Tick ==
  /\ outcome = "running" /\ now < MaxTime
  /\ Timely \/ now >= Horizon => LoopIsQuiet
  /\ now' = now + 1
  /\ UNCHANGED <<limit, skew, kernelVars, tokenVars, loopVars>>

LoopStep ==
  Fetch \/ IdlePoll \/ Collect \/ Boundary \/ Dropped \/ AskSnapshot \/ Restore

SNext ==
  \/ Touch \/ Lift \/ Move \/ SetClockBack \/ RequestStop \/ RequestReload
  \/ LoopStep \/ ReadFails \/ Tick

\* The daemon's thread is scheduled and time passes.  Nothing makes a finger
\* move, a signal come or a device fail.
SFairness == WF_svars(LoopStep) /\ WF_svars(Tick)

SSpec == SInit /\ [][SNext]_svars /\ SFairness

-----------------------------------------------------------------------------
(* Properties                                                              *)

\* Times are times, and the loop is at one of its places: what is touched is in
\* doubt from SYN_DROPPED until the snapshot, and at no other time.
STypeOK ==
  /\ limit \in Limits /\ now \in Nat /\ skew \in 0..ClockSteps
  /\ finger \in BOOLEAN /\ stop \in BOOLEAN /\ reload \in BOOLEAN
  /\ touch \in [active : BOOLEAN, desynchronized : BOOLEAN]
  /\ engine \in [down : BOOLEAN, owed : [first : Nat, due : Nat] \cup {NoOwed}]
  /\ alarm \in [input : Nat \cup {None}, wall : Nat \cup {None}]
  /\ stopper \in [observed : Nat, draining : BOOLEAN]
  /\ drain \in Nat \cup {None} /\ snapshot \in Nat \cup {None}
  /\ frames \in {<<>>, <<"Down">>, <<"Up">>, <<"Move">>, <<"Dropped">>}
  /\ touch.desynchronized <=> frames = <<"Dropped">> \/ snapshot # None
  /\ outcome \in {"running", "finished", "timed out", "failed"}
  /\ restedAt \in Nat /\ drainedAt \in Nat \cup {None}

\* The alarm is set for exactly the deadline of the pending tap, across lost
\* events, late reads and expiries: a stale one would wake for nothing, and a
\* missing one would keep the tap until the next touch.
AlarmMatches ==
  outcome = "running" => /\ alarm.input = engine.owed.due
                         /\ alarm.wall = None <=> alarm.input = None

\* The alarm is never early, so that what is read after it was not stamped
\* before the deadline, and late by no more than the clock was set back: a
\* frame stamped before the tap it resumes makes the wait longer.
AlarmIsTimely ==
  outcome = "running" /\ alarm.wall # None =>
    /\ alarm.wall + Epoch >= alarm.input
    /\ \/ alarm.wall - now <= TapTimeout + skew
       \/ alarm.wall - now <= TapDuration + skew

\* When all that the kernel sent is processed, the session, the recognizer and
\* the kernel agree on the finger, however many events were lost on the way.
TouchIsKnown ==
  AtPoll /\ buffer = <<>> =>
    touch = [active |-> finger, desynchronized |-> FALSE] /\ engine.down = finger

\* A run that waits for the touchpad to rest ends with no finger down, no tap
\* owed and no event lost; if not, its drain gave up on a finger that was down
\* for all of the timeout.
EndsProperly ==
  /\ outcome = "finished" /\ limit # "Immediately" =>
       ~IsTouchDown(touch) /\ engine.owed = NoOwed
  /\ outcome = "timed out" => now - restedAt >= DrainTimeout

\* A configuration is taken only when no finger is down, no tap is owed, no
\* event was lost and no frame is half read.
ReloadsAtRest ==
  [][reload /\ ~reload' => /\ ~IsTouchDown(touch') /\ engine'.owed = NoOwed
                           /\ frames' = <<>> /\ snapshot' = None]_svars

\* A tap that is owed is resolved although the finger rests and the run has no
\* other reason to wake.
OwedTapResolves ==
  engine.owed # NoOwed ~> engine.owed = NoOwed \/ outcome # "running"

\* A daemon that is asked to stop does, also when a finger never comes up; a
\* run with a frame limit ends after its last frame.
RunEnds ==
  /\ stop ~> outcome # "running"
  /\ limit # "UntilStopped" /\ stopper.observed >= FrameBoundaries
       ~> outcome # "running"

\* The idle drain is bounded, if not by its timeout for a finger that stays
\* down and the recognizer's for a tap that is owed, then by twice of both.
DrainIsBounded ==
  outcome = "running" /\ drainedAt # None =>
    now - drainedAt <= 2 * (DrainTimeout + TapTimeout)

=============================================================================
