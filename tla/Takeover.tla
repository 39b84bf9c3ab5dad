------------------------------- MODULE Takeover -------------------------------
(***************************************************************************)
(* How the proxy takes the touchpad from the desktop and gives it back     *)
(* (proxy_uinput_grab in src/proxy/live.rs), step by step, while a finger  *)
(* comes and goes: what the desktop sees on the physical and on the        *)
(* virtual touchpad, and which failures the run reports.                   *)
(*                                                                         *)
(* The run loop is reduced to forwarding: a finger in the centre goes to   *)
(* the virtual touchpad, one on an edge does not (Pipeline has the rest).  *)
(***************************************************************************)
EXTENDS Integers, Sequences

CONSTANTS
  Places,      \* where a finger can be
  Central,     \* those of them that are forwarded
  MaxTouches   \* bound: how often a finger comes down

None == "none"

ASSUME PlacesAssumption == Central \subseteq Places /\ None \notin Places
ASSUME TouchesAssumption == MaxTouches \in Nat

VARIABLES
  finger,    \* where the finger is, or None
  touches,   \* how often it came down
  stage,     \* the step proxy_uinput_grab takes next
  grabbed,   \* the kernel gives the physical events to the proxy alone
  inbox,     \* events that wait for the proxy
  desk,      \* a contact is down, for the desktop: [physical, virtual]
  result,    \* the errors that proxy_uinput_grab returns
  failures,  \* history: what failed
  raced      \* history: a finger came down between the idle check and the grab

world == <<finger, touches>>
tvars == <<world, stage, grabbed, inbox, desk, result, failures, raced>>

TInit ==
  /\ finger \in Places \cup {None} /\ touches = 0
  /\ stage = "open" /\ grabbed = FALSE /\ inbox = <<>>
  /\ desk = [physical |-> finger # None, virtual |-> FALSE]
  /\ result = {} /\ failures = {} /\ raced = FALSE

-----------------------------------------------------------------------------
(* The finger, the kernel and the desktop                                  *)

IsOpen == stage \notin {"open", "ended"}

\* Events reach everyone who has the device open, or whoever grabbed it.
Delivered(event) ==
  /\ inbox' = IF IsOpen THEN Append(inbox, event) ELSE inbox
  /\ desk' = IF grabbed THEN desk ELSE [desk EXCEPT !.physical = event # None]
  /\ UNCHANGED <<stage, grabbed, result, failures>>

Touch(place) ==
  /\ finger = None /\ touches < MaxTouches
  /\ finger' = place /\ touches' = touches + 1
  /\ raced' = (raced \/ stage \in {"build", "grab"})
  /\ Delivered(place)

Lift ==
  /\ finger # None
  /\ finger' = None
  /\ Delivered(None)
  /\ UNCHANGED <<touches, raced>>

-----------------------------------------------------------------------------
(* proxy_uinput_grab                                                       *)

GoOn(next) ==
  /\ stage' = next
  /\ UNCHANGED <<world, inbox, result, failures, raced>>

\* A step fails: its error is returned, after the cleanup that comes next.
FailsTo(next, what) ==
  /\ stage' = next
  /\ failures' = failures \cup {what}
  /\ result' = {what}
  /\ UNCHANGED <<world, grabbed, inbox, desk, raced>>

Open ==
  /\ stage = "open"
  /\ \/ GoOn("check") /\ UNCHANGED <<grabbed, desk>>
     \/ FailsTo("leave", "open")

\* Mutant: nobody asks whether the touchpad rests.
StartAnyway ==
  /\ stage = "check"
  /\ \/ GoOn("build") /\ UNCHANGED <<grabbed, desk>>
     \/ FailsTo("leave", "read touch state")

\* ensure_physical_touchpad_idle_at_start
CheckIdle ==
  /\ stage = "check"
  /\ \/ finger = None /\ GoOn("build") /\ UNCHANGED <<grabbed, desk>>
     \/ finger # None /\ FailsTo("leave", "busy")
     \/ FailsTo("leave", "read touch state")

Build ==
  /\ stage = "build"
  /\ \/ GoOn("grab") /\ UNCHANGED <<grabbed, desk>>
     \/ FailsTo("leave", "create virtual device")

Grab ==
  /\ stage = "grab"
  /\ \/ GoOn("read slots") /\ grabbed' = TRUE /\ UNCHANGED desk
     \/ FailsTo("leave", "grab")

ReadSlots ==
  /\ stage = "read slots"
  /\ \/ GoOn("ready") /\ UNCHANGED <<grabbed, desk>>
     \/ FailsTo("ungrab", "read slots")

\* on_ready
Ready ==
  /\ stage = "ready"
  /\ \/ GoOn("run") /\ UNCHANGED <<grabbed, desk>>
     \/ FailsTo("ungrab", "readiness")

\* A frame of the run loop; its write to the virtual touchpad can fail.
Forward ==
  /\ stage = "run" /\ inbox # <<>>
  /\ \/ /\ inbox' = Tail(inbox)
        /\ desk' = [desk EXCEPT !.virtual = Head(inbox) \in Central]
        /\ UNCHANGED <<world, stage, grabbed, result, failures, raced>>
     \/ FailsTo("settle", "run")

\* The run ends for any of its reasons, a finger down or not: the contacts of
\* the virtual touchpad come up.
FinishRun ==
  /\ stage = "run"
  /\ \/ GoOn("settle") /\ desk' = [desk EXCEPT !.virtual = FALSE] /\ UNCHANGED grabbed
     \/ FailsTo("settle", "run")

\* Mutant: a run that failed leaves the virtual touchpad as it is.
SettleOnSuccess ==
  /\ stage = "settle"
  /\ desk' = [desk EXCEPT !.virtual = @ /\ result # {}]
  /\ GoOn("rest") /\ UNCHANGED grabbed

\* settle_after_uinput_proxy_run
Settle ==
  /\ stage = "settle"
  /\ \/ GoOn("rest") /\ desk' = [desk EXCEPT !.virtual = FALSE] /\ UNCHANGED grabbed
     \/ /\ stage' = "rest"
        /\ failures' = failures \cup {"settle"}
        /\ result' = result \cup {"settle"}          \* append_additional_error
        /\ UNCHANGED <<world, grabbed, inbox, desk, raced>>

\* The desktop gets time to see it.
Rest == stage = "rest" /\ GoOn("ungrab") /\ UNCHANGED <<grabbed, desk>>

\* combine_proxy_run_and_ungrab_result
Combined(errors, cleanup) == errors \cup cleanup

Ungrab ==
  /\ stage = "ungrab"
  /\ \E fails \in BOOLEAN :
       LET cleanup == IF fails THEN {"ungrab"} ELSE {}
       IN /\ grabbed' = fails
          /\ failures' = failures \cup cleanup
          /\ result' = Combined(result, cleanup)
  /\ stage' = "leave"
  /\ UNCHANGED <<world, inbox, desk, raced>>

\* Both devices are dropped, and with the physical one its grab.
Leave ==
  /\ stage = "leave"
  /\ stage' = "ended" /\ grabbed' = FALSE /\ inbox' = <<>>
  /\ desk' = [desk EXCEPT !.virtual = FALSE]
  /\ UNCHANGED <<world, result, failures, raced>>

Step ==
  \/ Open \/ CheckIdle \/ Build \/ Grab \/ ReadSlots \/ Ready
  \/ Forward \/ FinishRun \/ Settle \/ Rest \/ Ungrab \/ Leave

TNext == (\E place \in Places : Touch(place)) \/ Lift \/ Step

TSpec == TInit /\ [][TNext]_tvars

-----------------------------------------------------------------------------
(* Properties                                                              *)

TTypeOK ==
  /\ finger \in Places \cup {None} /\ touches \in 0..MaxTouches
  /\ grabbed \in BOOLEAN /\ raced \in BOOLEAN
  /\ desk \in [physical : BOOLEAN, virtual : BOOLEAN]
  /\ \A i \in DOMAIN inbox : inbox[i] \in Places \cup {None}
  /\ grabbed => stage \in {"read slots", "ready", "run", "settle", "rest", "ungrab", "leave"}

\* The idle check is all that keeps the streams apart, and it is enough but for
\* a finger that comes down before the grab, and a virtual touchpad that cannot
\* be written to when the physical one is given back.
TwoStreamsNeedARace ==
  desk.physical /\ desk.virtual => raced \/ "settle" \in failures

\* Nothing is lost between the desktop's stream and the proxy's: once the
\* events are read, the virtual touchpad has the finger that is there, also
\* when it came down during the takeover.
VirtualFollowsFinger ==
  stage = "run" /\ inbox = <<>> => (desk.virtual <=> finger \in Central)

\* The physical touchpad is given back after the virtual one was made neutral,
\* whatever failed before, unless that is what failed.
NeutralHandover ==
  [][grabbed /\ ~grabbed' => ~desk.virtual \/ "settle" \in failures]_tvars

\* Every failure is reported, the cleanup's beside the run's.
FailuresAreReported == stage = "ended" => result = failures

=============================================================================
