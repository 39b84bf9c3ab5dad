------------------------------- MODULE Settings -------------------------------
(***************************************************************************)
(* From the configuration file to the recognizer and the actions: what     *)
(* parsing accepts (src/config/parse.rs, validation.rs), the recognizer    *)
(* settings made from it (config/runtime.rs, app/profile.rs) and the       *)
(* bindings a gesture or slider step finds (src/actions.rs).               *)
(*                                                                         *)
(* Fractions are in Spanths, as everywhere; any number outside its range   *)
(* stands for NaN and the infinities too.  A key that is not given is None. *)
(* That a file cannot be read, has an unknown key or a value of the wrong  *)
(* type is the same error as one that is not accepted.                     *)
(***************************************************************************)
EXTENDS Recognition

CONSTANTS
  Defaults,     \* EdgepadConfig::default() and DEFAULT_SLIDER_STEP
  MaxDuration,  \* the 10000 ms a duration can have
  Keys,         \* bound: [key, value] that an edit can set
  RawGestures,  \* bound: [[gestures]] entries
  RawSliders,   \* bound: [[sliders]] entries
  Widths,       \* bound: values of --edge-width that pass parse_edge_width
  MaxEdits      \* bound: edits of the empty file

VARIABLES
  file,   \* the file: its keys, and its lists of entries
  edits,  \* how often it was edited
  width,  \* DaemonConfigOverrides.edge_width
  taken,  \* DaemonRuntimeHandler.active_config, or NoConfig
  source  \* history: the file it was taken from

tvars == <<file, edits, width, taken, source>>

Options == DOMAIN Defaults \ {"step"}
FileKeys == Options \cup Zones

EmptyFile ==
  [k \in FileKeys \cup {"gestures", "sliders"} |-> IF k \in FileKeys THEN None ELSE <<>>]

-----------------------------------------------------------------------------
(* Parsing                                                                 *)

Given(f, key) == IF f[key] # None THEN f[key] ELSE Defaults[key]

\* Mutant: the bound itself is a width, so that opposite edges can meet.
WidthIsAtMostHalf(w) == w > 0 /\ 2 * w <= Span

WidthIsValid(w) == w > 0 /\ 2 * w < Span
FractionIsValid(v) == v > 0 /\ v <= Span
DurationIsValid(d) == d > 0 /\ d <= MaxDuration

\* The defaults are settings the engine takes, and --edge-width passes the validation
\* that a width in the file does.
ASSUME DefaultsAssumption ==
  /\ Defaults \in [ edge_width : Nat, tap_min_duration : Nat, tap_max_duration : Nat,
                    double_tap_timeout : Nat, double_tap_max_distance : Nat,
                    swipe_min_distance : Nat, step : Nat ]
  /\ WidthIsValid(Defaults.edge_width)
  /\ \A key \in {"double_tap_max_distance", "swipe_min_distance", "step"} :
       FractionIsValid(Defaults[key])
  /\ DurationIsValid(Defaults.tap_max_duration) /\ DurationIsValid(Defaults.double_tap_timeout)
  /\ Defaults.tap_min_duration <= MaxDuration

ASSUME SettingsAssumption ==
  /\ Span \in Nat /\ MaxDuration \in Nat /\ MaxEdits \in Nat
  /\ Widths \subseteq {w \in Nat : WidthIsValid(w)}
  /\ Keys \subseteq [key : FileKeys, value : Nat]
  /\ RawGestures \subseteq [zone : STRING, direction : STRING, action : STRING]
  /\ RawSliders \subseteq [zone : STRING, step : Nat \cup {None},
                          action : [Directions -> STRING]]

DurationsAreOrdered(f) == Given(f, "tap_min_duration") < Given(f, "tap_max_duration")

ScalarsAreValid(f) ==
  /\ \A key \in Zones \cup {"edge_width"} : f[key] # None => WidthIsValid(f[key])
  /\ \A key \in {"double_tap_max_distance", "swipe_min_distance"} :
       f[key] # None => FractionIsValid(f[key])
  /\ \A key \in {"tap_max_duration", "double_tap_timeout"} :
       f[key] # None => DurationIsValid(f[key])
  /\ f.tap_min_duration <= MaxDuration
  /\ DurationsAreOrdered(f)

\* An action is an argument vector, or "log"; the empty vector is no command.
NoAction == "none"
IsCommand(action) == action \notin {NoAction, "empty", "log", "no log"}

GestureIsValid(g) ==
  /\ g.zone \in Zones
  /\ g.direction \in Directions \cup {"Tap", "DoubleTap"}
  /\ IsCommand(g.action) \/ g.action = "log"

Axis(zone) == IF IsVertical(zone) THEN {"Up", "Down"} ELSE {"Left", "Right"}

SliderIsValid(r) ==
  /\ r.zone \in Zones
  /\ r.step # None => FractionIsValid(r.step)
  /\ \A d \in Axis(r.zone) : IsCommand(r.action[d])
  /\ \A d \in Directions \ Axis(r.zone) : r.action[d] = NoAction

Repeats(entries, Key(_)) ==
  \E i, j \in DOMAIN entries : i < j /\ Key(entries[i]) = Key(entries[j])

\* Mutant: swipes are bound next to a slider.
NoConflict(f) == FALSE

\* A slider would consume the movement of a swipe.
HasConflict(f) ==
  \E i \in DOMAIN f.gestures, j \in DOMAIN f.sliders :
    f.gestures[i].direction \in Directions /\ f.gestures[i].zone = f.sliders[j].zone

IsAccepted(f) ==
  /\ ScalarsAreValid(f)
  /\ \A i \in DOMAIN f.gestures : GestureIsValid(f.gestures[i])
  /\ \A i \in DOMAIN f.sliders : SliderIsValid(f.sliders[i])
  /\ ~Repeats(f.gestures, LAMBDA g : <<g.zone, g.direction>>)
  /\ ~Repeats(f.sliders, LAMBDA r : r.zone)
  /\ ~HasConflict(f)

\* SliderBindingConfig::from_raw
Slider(r) ==
  [ zone |-> r.zone, step |-> IF r.step # None THEN r.step ELSE Defaults.step,
    negative |-> r.action[SliderDirection(r.zone, FALSE)],
    positive |-> r.action[SliderDirection(r.zone, TRUE)] ]

\* EdgepadConfig::parse: defaults for what is not given, but for edge widths.
Parsed(f) ==
  [ file_widths |-> [z \in Zones |-> f[z]],
    options |-> [key \in Options |-> Given(f, key)],
    gestures |-> f.gestures,
    sliders |-> [i \in DOMAIN f.sliders |-> Slider(f.sliders[i])] ]

\* Before the start: nothing is bound, which is no configuration of a daemon.
NoConfig == Parsed(EmptyFile)

-----------------------------------------------------------------------------
(* Recognizer settings                                                     *)

GestureZones(c, direction) ==
  {c.gestures[i].zone : i \in {j \in DOMAIN c.gestures : c.gestures[j].direction = direction}}
SliderZones(c) == {c.sliders[i].zone : i \in DOMAIN c.sliders}
AnyGestureZones(c) == {c.gestures[i].zone : i \in DOMAIN c.gestures}

BoundZones(c) == AnyGestureZones(c) \cup SliderZones(c)

\* active_zone_edge_width of configured_edge_widths
ActiveWidth(c, z) ==
  IF z \notin BoundZones(c) THEN 0
  ELSE IF c.file_widths[z] # None THEN c.file_widths[z] ELSE c.options.edge_width

StepOf(c, z) ==
  LET of == {i \in DOMAIN c.sliders : c.sliders[i].zone = z}
  IN IF of = {} THEN 0 ELSE c.sliders[CHOOSE i \in of : \A j \in of : i <= j].step

EngineSettings(widths, options, double, single, steps) ==
  [ left |-> widths["Left"], right |-> widths["Right"],
    top |-> widths["Top"], bottom |-> widths["Bottom"],
    swipe_min_distance |-> options.swipe_min_distance,
    tap_min_duration |-> options.tap_min_duration,
    tap_max_duration |-> options.tap_max_duration,
    double_tap_timeout |-> options.double_tap_timeout,
    double_tap_max_distance |-> options.double_tap_max_distance,
    double_tap_zones |-> double, single_tap_zones |-> single, sliders |-> steps ]

\* active_edge_widths, engine_options and slider_specs; from_config of a profile.
Profile(c) ==
  EngineSettings([z \in Zones |-> ActiveWidth(c, z)], c.options,
                 GestureZones(c, "DoubleTap"), GestureZones(c, "Tap"),
                 [z \in Zones |-> StepOf(c, z)])

\* RecognitionProfile::built_in_defaults
BuiltInProfile ==
  EngineSettings([z \in Zones |-> Defaults.edge_width], Defaults, {}, Zones,
                 [z \in Zones |-> 0])

\* EdgepadConfig::override_edge_width, as DaemonConfigOverrides::apply calls it.
OverrideConfig(c, w) ==
  IF w = None THEN c
  ELSE [c EXCEPT !.options.edge_width = w, !.file_widths = [z \in Zones |-> None]]

\* RecognitionProfile::override_edge_width, for replay and proxy.
OverrideProfile(p, isConfig, w) ==
  LET over(active) == IF isConfig /\ active = 0 THEN 0 ELSE w
  IN IF w = None THEN p
     ELSE [p EXCEPT !.left = over(@), !.right = over(@),
                    !.top = over(@), !.bottom = over(@)]

-----------------------------------------------------------------------------
(* The daemon                                                              *)

TInit ==
  /\ file = EmptyFile /\ edits = 0
  /\ width \in Widths \cup {None}
  /\ taken = NoConfig /\ source = EmptyFile

Edit ==
  /\ taken = NoConfig /\ edits < MaxEdits
  /\ \/ \E k \in Keys : file' = [file EXCEPT ![k.key] = k.value]
     \/ \E g \in RawGestures : file' = [file EXCEPT !.gestures = Append(@, g)]
     \/ \E r \in RawSliders : file' = [file EXCEPT !.sliders = Append(@, r)]
  /\ edits' = edits + 1
  /\ UNCHANGED <<width, taken, source>>

\* DaemonOptions::load; a reload does the same (module Daemon).
Load ==
  /\ taken = NoConfig
  /\ IsAccepted(file)
  /\ BoundZones(Parsed(file)) # {}
  /\ taken' = OverrideConfig(Parsed(file), width)
  /\ source' = file
  /\ UNCHANGED <<file, edits, width>>

TNext == Edit \/ Load

TSpec == TInit /\ [][TNext]_tvars

-----------------------------------------------------------------------------
(* What a movement runs                                                    *)

\* ActionDispatcher::dispatch_gesture: NoAction is "unmatched".
GestureAction(c, zone, direction) ==
  LET of == {i \in DOMAIN c.gestures :
               c.gestures[i].zone = zone /\ c.gestures[i].direction = direction}
  IN IF of = {} THEN NoAction
     ELSE c.gestures[CHOOSE i \in of : \A j \in of : i <= j].action

\* dispatch_slider_step, direction_is_valid and action_for
SliderAction(c, zone, direction) ==
  LET of == {i \in DOMAIN c.sliders : c.sliders[i].zone = zone /\ direction \in Axis(zone)}
  IN IF of = {} THEN NoAction
     ELSE LET s == c.sliders[CHOOSE i \in of : \A j \in of : i <= j]
          IN IF direction \in {"Up", "Left"} THEN s.negative ELSE s.positive

\* A finger put down at (x, y) and moved to position "to" of one axis.
Contacts(p, zone) ==
  {[NewContact(0, 1, TRUE) EXCEPT !.start_x = q[1], !.start_y = q[2],
                                  !.current_x = q[1], !.current_y = q[2]] :
     q \in {r \in (0..Span) \X (0..Span) : ZoneForPosition(p, r[1], r[2]) = zone}}
Moved(c) ==
  {[c EXCEPT !.current_x = to, !.contact_phase = "Motion"] : to \in 0..Span}
  \cup {[c EXCEPT !.current_y = to, !.contact_phase = "Motion"] : to \in 0..Span}

\* Some movement makes the recognizer report this.
CanSwipe(p, zone, direction) ==
  /\ p.sliders[zone] = 0
  /\ \E c \in Contacts(p, zone) : \E m \in Moved(c) : ClassifyGesture(p, m, 1) = direction
CanTap(p, zone) ==
  /\ zone \notin p.double_tap_zones \/ zone \in p.single_tap_zones
  /\ \E c \in Contacts(p, zone) :
       ClassifyGesture(p, c, 1 + p.tap_min_duration) = "Tap"
CanDoubleTap(p, zone) ==
  /\ zone \in p.double_tap_zones
  /\ \E c \in Contacts(p, zone) :
       ContactMatchesPendingTap(p,
         [NoTap EXCEPT !.gesture.zone = zone, !.released_at = 1,
                       !.x = c.start_x, !.y = c.start_y], c, zone)
CanStep(p, zone, direction) ==
  \E c \in Contacts(p, zone) : \E m \in Moved(c) :
    LET from == SliderPosition(zone, c)
        to == SliderPosition(zone, m)
    IN /\ p.sliders[zone] > 0 /\ Distance(from, to) >= p.sliders[zone]
       /\ SliderDirection(zone, to >= from) = direction
CanReport(p, zone, direction) ==
  CASE direction = "Tap" -> CanTap(p, zone)
    [] direction = "DoubleTap" -> CanDoubleTap(p, zone)
    [] direction \in Directions -> CanSwipe(p, zone, direction)

-----------------------------------------------------------------------------
(* Properties                                                              *)

\* What the recognizer asserts of its settings (Engine::validate_engine_options,
\* validate_slider_specs), so that a reload never panics.
EngineAccepts(p) ==
  /\ p \in ConfigType
  /\ p.tap_min_duration < p.tap_max_duration
  /\ p.double_tap_max_distance <= Span
  /\ \A z \in Zones : p.sliders[z] <= Span

\* The edges that claim a finger somewhere.
ClaimingZones(p) == {ZoneForPosition(p, x, y) : x, y \in 0..Span} \ {"None"}

\* An edge claims fingers if and only if something is bound to it, and takes
\* none from the edge across, in whatever combination of defaults, widths of
\* single edges and --edge-width.  replay and proxy, which override a profile,
\* make of the file what the daemon does, which overrides the configuration;
\* without a file they take fingers at all four edges.
EdgesFollowBindings ==
  /\ ClaimingZones(OverrideProfile(BuiltInProfile, FALSE, width)) = Zones
  /\ taken # NoConfig =>
       LET p == Profile(taken)
       IN /\ ClaimingZones(p) = {source.gestures[i].zone : i \in DOMAIN source.gestures}
                                 \cup {source.sliders[i].zone : i \in DOMAIN source.sliders}
          /\ p.left + p.right < Span /\ p.top + p.bottom < Span
          /\ p = OverrideProfile(Profile(Parsed(source)), TRUE, width)

\* Every binding of an accepted file is of use: the recognizer takes the
\* settings, some movement makes it report the gesture or step, if only a swipe
\* is shorter than the edges are wide and a slider's step than half its axis,
\* and the report runs what the file has under its zone and name, although a
\* slider knows no names but the two ways of its axis.
BindingsCanFire ==
  taken # NoConfig =>
    LET p == Profile(taken)
        fits == \A z \in BoundZones(taken) : p.swipe_min_distance < ActiveWidth(taken, z)
    IN /\ EngineAccepts(p)
       /\ \A i \in DOMAIN source.gestures :
            LET g == source.gestures[i]
            IN /\ fits => CanReport(p, g.zone, g.direction)
               /\ GestureAction(taken, g.zone, g.direction) = g.action
       /\ \A i \in DOMAIN source.sliders :
            LET r == source.sliders[i]
            IN \A d \in Axis(r.zone) :
                 /\ 2 * taken.sliders[i].step <= Span => CanStep(p, r.zone, d)
                 /\ SliderAction(taken, r.zone, d) = r.action[d] /\ IsCommand(r.action[d])

=============================================================================
