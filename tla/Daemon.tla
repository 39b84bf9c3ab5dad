-------------------------------- MODULE Daemon --------------------------------
(***************************************************************************)
(* The daemon's life around a proxy run (src/app/daemon.rs, its signals.rs *)
(* and proxy_uinput_grab in src/proxy/live.rs): signals and the watcher    *)
(* that hands them on, startup with its retries, taking the touchpad over  *)
(* and giving it back, reloads of the configuration file.                  *)
(*                                                                         *)
(* The session inside is what Session promises of it: it reloads at rest   *)
(* and ends after a stop request.                                          *)
(***************************************************************************)
EXTENDS Integers, FiniteSetsExt

CONSTANTS
  Files,          \* contents of the configuration file: [valid, device, palm, rest]
  RetryTimeout,   \* startup_retry_timeout
  RetryInterval,  \* DAEMON_STARTUP_RETRY_INTERVAL
  MaxReloads,     \* bound: SIGHUPs
  MaxEdits        \* bound: changes of the file

ASSUME FilesAssumption == \A f \in Files : f.valid \in BOOLEAN
ASSUME RetryAssumption == RetryTimeout \in Nat /\ RetryInterval \in Nat \ {0}
ASSUME EnvironmentAssumption == MaxReloads \in Nat /\ MaxEdits \in Nat

VARIABLES
  flags,       \* DAEMON_STOP_REQUESTED, DAEMON_RELOAD_REQUESTED
  watcher,     \* where the signal thread is
  stop,        \* StopToken
  reload,      \* ReloadToken
  file,        \* the configuration file
  active,      \* DaemonRuntimeHandler.active_config
  bindings,    \* the dispatcher's configuration
  config,      \* the attempt's clone of the active one, or NoFile
  candidate,   \* what a reload read, or NoFile
  recognition, \* the recognizer's configuration, or NoFile
  pc,          \* where the daemon's thread is
  after,       \* where apply_pending_reload returns to
  error,       \* of this attempt: Nothing or a ProxyError, DeviceResolveError
  elapsed,     \* since startup began
  wake,        \* end of the wait before the next attempt
  finger,      \* a finger is on the touchpad
  grabbed,     \* the touchpad is grabbed
  pad,         \* the virtual touchpad: Nothing, "neutral" or "touched"
  ready,       \* how often on_ready returned
  hups, edits, \* number of SIGHUPs and of edits
  owed,        \* history: the file was not read since the last SIGHUP
  unsettled    \* history: writing to the virtual touchpad failed

Nothing == "none"
NoFile == [valid |-> FALSE, device |-> Nothing, palm |-> FALSE, rest |-> Nothing]

signalVars == <<flags, hups, owed>>
watchVars == <<watcher, stop>>
configVars == <<active, bindings, config, candidate, recognition>>
deviceVars == <<grabbed, pad, ready, unsettled>>
mainVars == <<pc, after, error, wake>>
dvars == <<signalVars, watchVars, reload, file, edits, configVars, deviceVars, mainVars,
           elapsed, finger>>

DInit ==
  /\ flags = [stop |-> FALSE, reload |-> FALSE]
  /\ watcher = "stop?" /\ stop = FALSE /\ reload = FALSE
  /\ file \in {f \in Files : f.valid}
  /\ active = file /\ bindings = file
  /\ config = NoFile /\ candidate = NoFile /\ recognition = NoFile
  /\ pc = "check" /\ after = Nothing /\ error = Nothing
  /\ elapsed = 0 /\ wake = 0
  /\ finger = FALSE
  /\ grabbed = FALSE /\ pad = Nothing /\ ready = 0
  /\ hups = 0 /\ edits = 0 /\ owed = FALSE /\ unsettled = FALSE

-----------------------------------------------------------------------------
(* Signals                                                                 *)

\* handle_daemon_signal. Bound: no signals once nobody looks for them.
Terminate ==
  /\ ~flags.stop /\ watcher # "ended"
  /\ flags' = [flags EXCEPT !.stop = TRUE]
  /\ UNCHANGED <<hups, owed, watchVars, reload, file, edits, configVars, deviceVars,
                 mainVars, elapsed, finger>>

HangUp ==
  /\ hups < MaxReloads /\ watcher # "ended"
  /\ hups' = hups + 1
  /\ flags' = [flags EXCEPT !.reload = TRUE]
  /\ owed' = TRUE
  /\ UNCHANGED <<watchVars, reload, file, edits, configVars, deviceVars, mainVars,
                 elapsed, finger>>

\* The watcher's two swaps and what it does with them, one at a time.
WatchStop ==
  /\ watcher = "stop?"
  /\ flags' = [flags EXCEPT !.stop = FALSE]
  /\ watcher' = IF flags.stop THEN "ended" ELSE "reload?"
  /\ stop' = flags.stop
  /\ UNCHANGED <<hups, owed, reload, file, edits, configVars, deviceVars, mainVars,
                 elapsed, finger>>

WatchReload ==
  /\ watcher = "reload?"
  /\ flags' = [flags EXCEPT !.reload = FALSE]
  /\ watcher' = IF flags.reload THEN "forward" ELSE "stop?"
  /\ UNCHANGED <<hups, owed, stop, reload, file, edits, configVars, deviceVars, mainVars,
                 elapsed, finger>>

\* Mutant: the watcher's work is done after any signal.
ForwardAndEnd ==
  /\ watcher = "forward"
  /\ reload' = TRUE
  /\ watcher' = "ended"
  /\ UNCHANGED <<signalVars, stop, file, edits, configVars, deviceVars, mainVars,
                 elapsed, finger>>

Forward ==
  /\ watcher = "forward"
  /\ reload' = TRUE
  /\ watcher' = "stop?"
  /\ UNCHANGED <<signalVars, stop, file, edits, configVars, deviceVars, mainVars,
                 elapsed, finger>>

Watch == WatchStop \/ WatchReload \/ Forward

-----------------------------------------------------------------------------
(* The daemon's thread                                                     *)

Goto(label) == pc' = label /\ UNCHANGED <<after, error, wake>>
Fail(kind, label) == error' = kind /\ pc' = label /\ UNCHANGED <<after, wake>>

mainUnmoved == <<signalVars, watchVars, file, edits, elapsed, finger>>

\* Mutant: the configuration is cloned before a reload is applied.
CloneThenReload ==
  /\ pc = "check"
  /\ pc' = IF stop THEN "shutdown" ELSE "reload"
  /\ after' = "resolve" /\ config' = active /\ error' = Nothing
  /\ UNCHANGED <<wake, reload, active, bindings, candidate, recognition, deviceVars, mainUnmoved>>

\* The top of run_daemon_proxy_with_startup_retry's loop.
CheckStop ==
  /\ pc = "check"
  /\ pc' = IF stop THEN "shutdown" ELSE "reload"
  /\ after' = "clone"
  /\ UNCHANGED <<error, wake, reload, configVars, deviceVars, mainUnmoved>>

\* apply_pending_reload, from the loop or from the session
TakeRequest ==
  /\ pc = "reload"
  /\ reload' = FALSE
  /\ Goto(IF reload THEN "load" ELSE after)
  /\ UNCHANGED <<configVars, deviceVars, mainUnmoved>>

\* load_reload_candidate
Load ==
  /\ pc = "load"
  /\ candidate' = file /\ owed' = FALSE
  /\ Goto("apply")
  /\ UNCHANGED <<flags, hups, watchVars, reload, file, edits, active, bindings, config,
                 recognition, deviceVars, elapsed, finger>>

CanAdopt(f) ==
  f.valid /\ f.device = active.device /\ f.palm = active.palm /\ f # active

Adopt ==
  /\ pc = "apply"
  /\ IF CanAdopt(candidate)
     THEN /\ active' = candidate /\ bindings' = candidate
          /\ recognition' = IF after = "session" THEN candidate ELSE recognition
     ELSE UNCHANGED <<active, bindings, recognition>>
  /\ candidate' = NoFile
  /\ Goto(after)
  /\ UNCHANGED <<config, deviceVars, mainUnmoved>>

\* Mutant: the request is cleared once it has been carried out.
AdoptThenClear == Adopt /\ reload' = FALSE

\* The rest of apply_pending_reload, and the session takes the result over.
Apply == Adopt /\ UNCHANGED reload

Clone ==
  /\ pc = "clone"
  /\ config' = active
  /\ Fail(Nothing, "resolve")
  /\ UNCHANGED <<reload, active, bindings, candidate, recognition, deviceVars, mainUnmoved>>

\* DeviceConfig::resolve; a path is taken as it is. NoDevice stands for the
\* errors of a discovery that found nothing.
Resolve ==
  /\ pc = "resolve"
  /\ \/ Goto("open")
     \/ /\ config.device = "auto"
        /\ \E kind \in {"NoDevice", "AmbiguousTouchpads"} : Fail(kind, "result")
  /\ UNCHANGED <<reload, configVars, deviceVars, mainUnmoved>>

\* open_proxy_device; CapabilitiesUnavailable is treated like OpenDevice.
OpenDevice ==
  /\ pc = "open"
  /\ \/ Goto("idle?")
     \/ Fail("OpenDevice", "result")
  /\ UNCHANGED <<reload, configVars, deviceVars, mainUnmoved>>

\* ensure_physical_touchpad_idle_at_start
EnsureIdle ==
  /\ pc = "idle?"
  /\ \/ ~finger /\ Goto("create")
     \/ finger /\ Fail("TouchpadBusy", "result")
     \/ Fail("ReadTouchState", "result")
  /\ UNCHANGED <<reload, configVars, deviceVars, mainUnmoved>>

CreatePad ==
  /\ pc = "create"
  /\ \/ Goto("grab") /\ pad' = "neutral"
     \/ Fail("CreateVirtualDevice", "result") /\ UNCHANGED pad
  /\ UNCHANGED <<reload, configVars, grabbed, ready, unsettled, mainUnmoved>>

\* Returning drops the virtual touchpad, then the physical one.
Grab ==
  /\ pc = "grab"
  /\ \/ Goto("slots") /\ grabbed' = TRUE /\ UNCHANGED pad
     \/ Fail("GrabDevice", "result") /\ pad' = Nothing /\ UNCHANGED grabbed
  /\ UNCHANGED <<reload, configVars, ready, unsettled, mainUnmoved>>

ReadSlots ==
  /\ pc = "slots"
  /\ \/ Goto("ready")
     \/ Fail("ReadSlotState", "ungrab")
  /\ UNCHANGED <<reload, configVars, deviceVars, mainUnmoved>>

\* on_ready, and the session begins.
NotifyReady ==
  /\ pc = "ready"
  /\ \/ /\ Goto("session")
        /\ ready' = ready + 1
        /\ recognition' = config
     \/ /\ Fail("Readiness", "ungrab")
        /\ UNCHANGED <<ready, recognition>>
  /\ UNCHANGED <<reload, active, bindings, config, candidate, grabbed, pad, unsettled,
                 mainUnmoved>>

\* A frame is forwarded.
Touched == IF finger THEN "touched" ELSE "neutral"
SessionFrame ==
  /\ pc = "session" /\ pad # Touched
  /\ pad' = Touched
  /\ UNCHANGED <<reload, configVars, grabbed, ready, unsettled, mainVars, mainUnmoved>>

SessionReloads ==
  /\ pc = "session" /\ ~finger /\ reload
  /\ pc' = "reload" /\ after' = "session"
  /\ UNCHANGED <<error, wake, reload, configVars, deviceVars, mainUnmoved>>

\* finish_proxy_output is written, unless that fails.
SessionEnds ==
  /\ pc = "session" /\ stop
  /\ Goto("settle")
  /\ pad' = "neutral"
  /\ UNCHANGED <<reload, configVars, grabbed, ready, unsettled, mainUnmoved>>

SessionFails ==
  /\ pc = "session"
  /\ Fail("Runtime", "settle")
  /\ UNCHANGED <<reload, configVars, deviceVars, mainUnmoved>>

\* Mutant: only a run that went well is settled.
SettleSuccess ==
  /\ pc = "settle"
  /\ Goto("ungrab")
  /\ pad' = IF error = Nothing THEN "neutral" ELSE pad
  /\ UNCHANGED <<reload, configVars, grabbed, ready, unsettled, mainUnmoved>>

\* settle_after_uinput_proxy_run
Settle ==
  /\ pc = "settle"
  /\ \/ /\ Goto("ungrab")
        /\ pad' = "neutral" /\ UNCHANGED unsettled
     \/ /\ Fail(IF error = Nothing THEN "Runtime" ELSE error, "ungrab")
        /\ unsettled' = TRUE /\ UNCHANGED pad
  /\ UNCHANGED <<reload, configVars, grabbed, ready, mainUnmoved>>

\* ungrab_proxy_device and combine_proxy_run_and_ungrab_result: a failure to
\* ungrab is reported behind an earlier one.
Ungrab ==
  /\ pc = "ungrab"
  /\ \/ grabbed' = FALSE /\ Goto("drop")
     \/ /\ Fail(IF error = Nothing THEN "UngrabDevice" ELSE error, "drop")
        /\ UNCHANGED grabbed
  /\ UNCHANGED <<reload, configVars, pad, ready, unsettled, mainUnmoved>>

\* proxy_uinput_grab returns, and both devices are closed.
Drop ==
  /\ pc = "drop"
  /\ Goto("result")
  /\ grabbed' = FALSE /\ pad' = Nothing
  /\ recognition' = NoFile
  /\ UNCHANGED <<reload, active, bindings, config, candidate, ready, unsettled, mainUnmoved>>

\* DaemonStartupError::should_retry
ShouldRetry(kind) ==
  kind \in {"NoDevice", "OpenDevice", "CreateVirtualDevice", "GrabDevice"}

MayRetry == elapsed < RetryTimeout

Result ==
  /\ pc = "result"
  /\ IF ShouldRetry(error) /\ MayRetry
     THEN /\ pc' = "wait"
          /\ wake' = elapsed + Min({RetryInterval, RetryTimeout - elapsed})
     ELSE pc' = "shutdown" /\ UNCHANGED wake
  /\ config' = NoFile /\ error' = Nothing
  /\ UNCHANGED <<after, reload, active, bindings, candidate, recognition, deviceVars,
                 mainUnmoved>>

\* wait_for_daemon_startup_retry; a poll that finds nothing only sleeps.
Wait ==
  /\ pc = "wait"
  /\ stop \/ elapsed >= wake
  /\ pc' = IF stop THEN "shutdown" ELSE "check"
  /\ wake' = 0
  /\ UNCHANGED <<after, error, reload, configVars, deviceVars, mainUnmoved>>

\* DaemonRuntimeHandler::shutdown, which ActionWorker shows to return.
Shutdown ==
  /\ pc = "shutdown"
  /\ Goto("done")
  /\ UNCHANGED <<reload, configVars, deviceVars, mainUnmoved>>

-----------------------------------------------------------------------------
(* The environment                                                         *)

EditFile(f) ==
  /\ edits < MaxEdits /\ f # file
  /\ edits' = edits + 1
  /\ file' = f
  /\ UNCHANGED <<signalVars, watchVars, reload, configVars, deviceVars, mainVars, elapsed,
                 finger>>

MoveFinger ==
  /\ finger' = ~finger
  /\ UNCHANGED <<signalVars, watchVars, reload, file, edits, configVars, deviceVars,
                 mainVars, elapsed>>

\* Bound: nothing compares with a time after the timeout, or after the attempts.
Tick ==
  /\ elapsed < RetryTimeout /\ pc \notin {"shutdown", "done"}
  /\ elapsed' = elapsed + 1
  /\ UNCHANGED <<signalVars, watchVars, reload, file, edits, configVars, deviceVars,
                 mainVars, finger>>

-----------------------------------------------------------------------------
Attempt ==
  \/ Clone \/ Resolve \/ OpenDevice \/ EnsureIdle \/ CreatePad \/ Grab \/ ReadSlots
  \/ NotifyReady

MainStep ==
  \/ CheckStop \/ TakeRequest \/ Load \/ Apply \/ Attempt
  \/ Settle \/ Ungrab \/ Drop \/ Result \/ Wait \/ Shutdown

DNext ==
  \/ Terminate \/ HangUp \/ Watch
  \/ MainStep \/ SessionFrame \/ SessionReloads \/ SessionEnds \/ SessionFails
  \/ \E f \in Files : EditFile(f)
  \/ MoveFinger \/ Tick

\* Both threads are scheduled, time passes, and a session that is asked to end
\* does (Session shows it).
DFairness ==
  WF_dvars(Watch) /\ WF_dvars(MainStep) /\ WF_dvars(SessionEnds) /\ WF_dvars(Tick)

DSpec == DInit /\ [][DNext]_dvars /\ DFairness

-----------------------------------------------------------------------------
(* Properties                                                              *)

\* No reload request is lost between the signal handler, the watcher and the
\* daemon's thread: until the file is read again it is noted somewhere, also
\* if it comes while the file is being read for an earlier one.
ReloadIsRecorded ==
  owed /\ watcher # "ended" =>
    flags.reload \/ watcher = "forward" \/ reload \/ pc = "load"

\* Gestures are recognized and bound by the same configuration, whenever it
\* was reloaded: before an attempt, between two or in the session.
OneConfiguration ==
  bindings = active /\ (recognition # NoFile => recognition = active)

\* The touchpad is taken over safely: it is grabbed only while a virtual one
\* stands in, that one is neutral when the touchpad is given back, unless it
\* could not be written to, and a daemon that called itself ready never starts
\* anew.
Handover ==
  [][/\ grabbed' /\ ~grabbed => pad # Nothing
     /\ grabbed /\ ~grabbed' => pad = "neutral" \/ unsettled
     /\ ready > 0 => pc' # "wait"
     /\ ready' > ready => grabbed /\ pad # Nothing /\ ready = 0]_dvars

\* Startup comes to an end, and a daemon that is told to stop does.
DaemonEnds ==
  /\ pc = "check" ~> pc \in {"session", "done"}
  /\ flags.stop ~> pc = "done"

=============================================================================
