----------------------------- MODULE SetupProofs -----------------------------
(***************************************************************************)
(* Proofs about the setup of the daemon.  First, what a configuration that *)
(* was taken does, for every file and every number of edits: the edges     *)
(* that take fingers are those with a binding, and every binding can fire. *)
(* The inductive invariant is that the configuration taken is the one that *)
(* its file and --edge-width make, the file being accepted; the rest is    *)
(* about the recognizer settings made of an accepted file, and about the   *)
(* places where a finger can be put down to be taken by an edge.           *)
(*                                                                         *)
(* Then Diagnosis: doctor, status and the daemon tell the same of every    *)
(* system, with any number of event nodes of any kinds, any file and any   *)
(* state of the service.                                                   *)
(***************************************************************************)
EXTENDS Settings, Diagnosis, FiniteSetTheorems, TLAPS

-----------------------------------------------------------------------------
(* Files                                                                   *)

\* What a file holds, whether or not it is accepted.
FileType(f) ==
  /\ DOMAIN f = FileKeys \cup {"gestures", "sliders"}
  /\ \A k \in FileKeys : f[k] \in Nat \cup {None}
  /\ f["gestures"] \in Seq(RawGestures)
  /\ f["sliders"] \in Seq(RawSliders)

LEMMA OptionNames ==
  /\ Options = {"edge_width", "tap_min_duration", "tap_max_duration", "double_tap_timeout",
                "double_tap_max_distance", "swipe_min_distance"}
  /\ FileKeys = Options \cup {"Left", "Right", "Top", "Bottom"}
  /\ "gestures" \notin FileKeys /\ "sliders" \notin FileKeys
<1>1. DOMAIN Defaults = {"edge_width", "tap_min_duration", "tap_max_duration",
        "double_tap_timeout", "double_tap_max_distance", "swipe_min_distance", "step"}
  BY DefaultsAssumption
<1> QED BY <1>1 DEF Options, FileKeys, Zones

LEMMA EmptyFileType == FileType(EmptyFile)
<1>1. /\ DOMAIN EmptyFile = FileKeys \cup {"gestures", "sliders"}
      /\ \A k \in FileKeys : EmptyFile[k] = None
      /\ EmptyFile["gestures"] = <<>> /\ EmptyFile["sliders"] = <<>>
  BY OptionNames DEF EmptyFile
<1> QED BY <1>1 DEF FileType

LEMMA EditKeepsType ==
  ASSUME FileType(file), Edit
  PROVE  FileType(file')
<1>1. CASE \E k \in Keys : file' = [file EXCEPT ![k.key] = k.value]
  <2>1. PICK k \in Keys : file' = [file EXCEPT ![k.key] = k.value]
    BY <1>1
  <2>2. k.key \in FileKeys /\ k.value \in Nat
    BY SettingsAssumption
  <2>3. /\ DOMAIN file' = DOMAIN file
        /\ \A n \in FileKeys : file'[n] = IF n = k.key THEN k.value ELSE file[n]
        /\ file'["gestures"] = file["gestures"] /\ file'["sliders"] = file["sliders"]
    BY <2>1, <2>2, OptionNames DEF FileType
  <2> QED BY <2>2, <2>3 DEF FileType
<1>2. CASE \E g \in RawGestures : file' = [file EXCEPT !.gestures = Append(@, g)]
  <2>1. PICK g \in RawGestures : file' = [file EXCEPT !.gestures = Append(@, g)]
    BY <1>2
  <2>2. /\ DOMAIN file' = DOMAIN file
        /\ \A n \in FileKeys : file'[n] = file[n]
        /\ file'["gestures"] = Append(file["gestures"], g)
        /\ file'["sliders"] = file["sliders"]
    BY <2>1, OptionNames DEF FileType
  <2>3. Append(file["gestures"], g) \in Seq(RawGestures)
    BY DEF FileType
  <2> QED BY <2>2, <2>3 DEF FileType
<1>3. CASE \E r \in RawSliders : file' = [file EXCEPT !.sliders = Append(@, r)]
  <2>1. PICK r \in RawSliders : file' = [file EXCEPT !.sliders = Append(@, r)]
    BY <1>3
  <2>2. /\ DOMAIN file' = DOMAIN file
        /\ \A n \in FileKeys : file'[n] = file[n]
        /\ file'["sliders"] = Append(file["sliders"], r)
        /\ file'["gestures"] = file["gestures"]
    BY <2>1, OptionNames DEF FileType
  <2>3. Append(file["sliders"], r) \in Seq(RawSliders)
    BY DEF FileType
  <2> QED BY <2>2, <2>3 DEF FileType
<1> QED BY <1>1, <1>2, <1>3 DEF Edit

-----------------------------------------------------------------------------
(* The inductive invariant                                                 *)

\* What was taken is what an accepted file and --edge-width make.
TakenFrom ==
  taken # NoConfig =>
    /\ FileType(source) /\ IsAccepted(source)
    /\ taken = OverrideConfig(Parsed(source), width)

TInv ==
  /\ FileType(file)
  /\ width \in Widths \cup {None}
  /\ TakenFrom

\* The invariant holds of every behaviour of the command line and the user.
THEOREM SettingsInvariant == TSpec => []TInv
<1>1. TInit => TInv
  BY EmptyFileType DEF TInit, TInv, TakenFrom
<1>2. TInv /\ [TNext]_tvars => TInv'
  <2> SUFFICES ASSUME TInv, [TNext]_tvars PROVE TInv'
    OBVIOUS
  <2>1. CASE Edit
    <3>1. FileType(file')
      BY <2>1, EditKeepsType DEF TInv
    <3>2. width' = width /\ taken' = NoConfig
      BY <2>1 DEF Edit
    <3>3. NoConfig' = NoConfig
      BY DEF NoConfig
    <3> QED BY <3>1, <3>2, <3>3 DEF TInv, TakenFrom
  <2>2. CASE Load
    BY <2>2 DEF Load, TInv, TakenFrom
  <2>3. CASE UNCHANGED tvars
    BY <2>3 DEF tvars, TInv, TakenFrom
  <2> QED BY <2>1, <2>2, <2>3 DEF TNext
<1> QED BY <1>1, <1>2, PTL DEF TSpec

-----------------------------------------------------------------------------
(* The configuration                                                       *)

\* One configuration made of a file and --edge-width.
Made(f, w) == OverrideConfig(Parsed(f), w)

\* The file and the width that it is made of.
Makes(f, w) == FileType(f) /\ IsAccepted(f) /\ w \in Widths \cup {None}

LEMMA ParsedFields ==
  ASSUME NEW f
  PROVE  /\ \A z \in Zones : Parsed(f).file_widths[z] = f[z]
         /\ DOMAIN Parsed(f).options = Options
         /\ \A key \in Options : Parsed(f).options[key] = Given(f, key)
         /\ Parsed(f).gestures = f.gestures
         /\ DOMAIN Parsed(f).sliders = DOMAIN f.sliders
         /\ \A i \in DOMAIN f.sliders : Parsed(f).sliders[i] = Slider(f.sliders[i])
         /\ DOMAIN Parsed(f) = {"file_widths", "options", "gestures", "sliders"}
<1>1. /\ Parsed(f).file_widths = [z \in Zones |-> f[z]]
      /\ Parsed(f).options = [key \in Options |-> Given(f, key)]
      /\ Parsed(f).gestures = f.gestures
      /\ Parsed(f).sliders = [i \in DOMAIN f.sliders |-> Slider(f.sliders[i])]
      /\ DOMAIN Parsed(f) = {"file_widths", "options", "gestures", "sliders"}
  BY DEF Parsed
<1>2. \A z \in Zones : Parsed(f).file_widths[z] = f[z]
  BY <1>1
<1>3. /\ DOMAIN Parsed(f).options = Options
      /\ \A key \in Options : Parsed(f).options[key] = Given(f, key)
  BY <1>1
<1>4. /\ DOMAIN Parsed(f).sliders = DOMAIN f.sliders
      /\ \A i \in DOMAIN f.sliders : Parsed(f).sliders[i] = Slider(f.sliders[i])
  BY <1>1
<1> QED BY <1>1, <1>2, <1>3, <1>4

LEMMA MadeFields ==
  ASSUME NEW f, NEW w
  PROVE  /\ Made(f, w).gestures = f.gestures
         /\ DOMAIN Made(f, w).sliders = DOMAIN f.sliders
         /\ \A i \in DOMAIN f.sliders : Made(f, w).sliders[i] = Slider(f.sliders[i])
         /\ \A z \in Zones : w = None => Made(f, w).file_widths[z] = f[z]
         /\ \A z \in Zones : w # None => Made(f, w).file_widths[z] = None
         /\ Made(f, w).options.edge_width = IF w = None THEN Given(f, "edge_width") ELSE w
         /\ \A key \in Options \ {"edge_width"} : Made(f, w).options[key] = Given(f, key)
<1> DEFINE c == Parsed(f)
           m == Made(f, w)
<1>e. "edge_width" \in Options
  BY OptionNames
<1>p. /\ \A z \in Zones : c.file_widths[z] = f[z]
      /\ DOMAIN c.options = Options
      /\ \A key \in Options : c.options[key] = Given(f, key)
      /\ c.gestures = f.gestures
      /\ DOMAIN c.sliders = DOMAIN f.sliders
      /\ \A i \in DOMAIN f.sliders : c.sliders[i] = Slider(f.sliders[i])
      /\ DOMAIN c = {"file_widths", "options", "gestures", "sliders"}
  BY ParsedFields
<1>1. ASSUME w = None
      PROVE  m = c
  BY <1>1 DEF Made, OverrideConfig
<1>2. ASSUME w # None
      PROVE  /\ m.gestures = c.gestures /\ m.sliders = c.sliders
             /\ \A z \in Zones : m.file_widths[z] = None
             /\ m.options.edge_width = w
             /\ \A key \in Options \ {"edge_width"} : m.options[key] = c.options[key]
  <2>1. m = [c EXCEPT !.options.edge_width = w, !.file_widths = [z \in Zones |-> None]]
    BY <1>2 DEF Made, OverrideConfig
  <2> HIDE DEF c, m
  <2>2. /\ m.gestures = c.gestures /\ m.sliders = c.sliders
        /\ m.file_widths = [z \in Zones |-> None]
        /\ m.options = [c.options EXCEPT !.edge_width = w]
    BY <2>1, <1>p
  <2>3. \A z \in Zones : m.file_widths[z] = None
    BY <2>2
  <2>4. m.options.edge_width = w
    BY <2>2, <1>e, <1>p
  <2>5. \A key \in Options \ {"edge_width"} : m.options[key] = c.options[key]
    BY <2>2, <1>e, <1>p
  <2> QED BY <2>2, <2>3, <2>4, <2>5
<1> HIDE DEF c, m
<1>3. /\ m.gestures = f.gestures /\ DOMAIN m.sliders = DOMAIN f.sliders
      /\ \A i \in DOMAIN f.sliders : m.sliders[i] = Slider(f.sliders[i])
  BY <1>1, <1>2, <1>p
<1>4. /\ \A z \in Zones : w = None => m.file_widths[z] = f[z]
      /\ \A z \in Zones : w # None => m.file_widths[z] = None
  BY <1>1, <1>2, <1>p
<1>5. m.options.edge_width = IF w = None THEN Given(f, "edge_width") ELSE w
  BY <1>1, <1>2, <1>p, <1>e
<1>6. \A key \in Options \ {"edge_width"} : m.options[key] = Given(f, key)
  BY <1>1, <1>2, <1>p
<1> QED BY <1>3, <1>4, <1>5, <1>6 DEF m

\* The values of an accepted file are in their ranges, given or not.
LEMMA GivenIsValid ==
  ASSUME NEW f, FileType(f), IsAccepted(f)
  PROVE  /\ Given(f, "edge_width") \in Nat /\ WidthIsValid(Given(f, "edge_width"))
         /\ \A z \in Zones : f[z] # None => f[z] \in Nat /\ WidthIsValid(f[z])
         /\ \A key \in {"double_tap_max_distance", "swipe_min_distance"} :
              Given(f, key) \in Nat /\ FractionIsValid(Given(f, key))
         /\ Given(f, "double_tap_timeout") \in Nat /\ Given(f, "double_tap_timeout") > 0
         /\ Given(f, "tap_min_duration") \in Nat /\ Given(f, "tap_max_duration") \in Nat
         /\ Given(f, "tap_min_duration") < Given(f, "tap_max_duration")
<1>t. \A k \in FileKeys : f[k] \in Nat \cup {None}
  BY DEF FileType
<1>d. /\ Defaults.edge_width \in Nat /\ Defaults.tap_min_duration \in Nat
      /\ Defaults.tap_max_duration \in Nat /\ Defaults.double_tap_timeout \in Nat
      /\ Defaults.double_tap_max_distance \in Nat /\ Defaults.swipe_min_distance \in Nat
  BY DefaultsAssumption
<1>a. ScalarsAreValid(f)
  BY DEF IsAccepted
<1>1. Given(f, "edge_width") \in Nat /\ WidthIsValid(Given(f, "edge_width"))
  BY <1>t, <1>d, <1>a, DefaultsAssumption, OptionNames DEF ScalarsAreValid, Given
<1>2. \A z \in Zones : f[z] # None => f[z] \in Nat /\ WidthIsValid(f[z])
  BY <1>t, <1>a DEF ScalarsAreValid, FileKeys
<1>3. \A key \in {"double_tap_max_distance", "swipe_min_distance"} :
        Given(f, key) \in Nat /\ FractionIsValid(Given(f, key))
  <2>1. Given(f, "double_tap_max_distance") \in Nat
        /\ FractionIsValid(Given(f, "double_tap_max_distance"))
    BY <1>t, <1>d, <1>a, DefaultsAssumption, OptionNames DEF ScalarsAreValid, Given
  <2>2. Given(f, "swipe_min_distance") \in Nat
        /\ FractionIsValid(Given(f, "swipe_min_distance"))
    BY <1>t, <1>d, <1>a, DefaultsAssumption, OptionNames DEF ScalarsAreValid, Given
  <2> QED BY <2>1, <2>2
<1>4. Given(f, "double_tap_timeout") \in Nat /\ Given(f, "double_tap_timeout") > 0
  BY <1>t, <1>d, <1>a, DefaultsAssumption, OptionNames
     DEF ScalarsAreValid, Given, DurationIsValid
<1>5. Given(f, "tap_min_duration") \in Nat /\ Given(f, "tap_max_duration") \in Nat
  BY <1>t, <1>d, OptionNames DEF Given
<1>6. Given(f, "tap_min_duration") < Given(f, "tap_max_duration")
  BY <1>a DEF ScalarsAreValid, DurationsAreOrdered
<1> QED BY <1>1, <1>2, <1>3, <1>4, <1>5, <1>6

\* The edges that a file binds something to.
ZonesOf(f) ==
  {f.gestures[i].zone : i \in DOMAIN f.gestures} \cup {f.sliders[i].zone : i \in DOMAIN f.sliders}

LEMMA BoundZonesOf ==
  ASSUME NEW f, NEW w
  PROVE  /\ BoundZones(Made(f, w)) = ZonesOf(f)
         /\ BoundZones(Parsed(f)) = ZonesOf(f)
<1>1. ASSUME NEW c, c.gestures = f.gestures, DOMAIN c.sliders = DOMAIN f.sliders,
             \A i \in DOMAIN f.sliders : c.sliders[i] = Slider(f.sliders[i])
      PROVE  BoundZones(c) = ZonesOf(f)
  <2>1. AnyGestureZones(c) = {f.gestures[i].zone : i \in DOMAIN f.gestures}
    BY <1>1 DEF AnyGestureZones
  <2>2. DOMAIN c.sliders = DOMAIN f.sliders
        /\ \A i \in DOMAIN f.sliders : c.sliders[i].zone = f.sliders[i].zone
    <3>1. ASSUME NEW r
          PROVE  Slider(r).zone = r.zone
      BY DEF Slider
    <3> QED BY <1>1, <3>1
  <2>3. SliderZones(c) = {f.sliders[i].zone : i \in DOMAIN f.sliders}
    BY <2>2 DEF SliderZones
  <2> QED BY <2>1, <2>3 DEF BoundZones, ZonesOf
<1>2. /\ Made(f, w).gestures = f.gestures /\ DOMAIN Made(f, w).sliders = DOMAIN f.sliders
      /\ \A i \in DOMAIN f.sliders : Made(f, w).sliders[i] = Slider(f.sliders[i])
  BY MadeFields
<1>3. /\ Parsed(f).gestures = f.gestures /\ DOMAIN Parsed(f).sliders = DOMAIN f.sliders
      /\ \A i \in DOMAIN f.sliders : Parsed(f).sliders[i] = Slider(f.sliders[i])
  BY ParsedFields
<1> QED BY <1>1, <1>2, <1>3

LEMMA ZonesOfAccepted ==
  ASSUME NEW f, IsAccepted(f)
  PROVE  ZonesOf(f) \subseteq Zones
BY DEF IsAccepted, ZonesOf, GestureIsValid, SliderIsValid

\* An edge has a width where something is bound to it, and opposite edges never meet.
LEMMA ActiveWidths ==
  ASSUME NEW f, NEW w, Makes(f, w), NEW z \in Zones
  PROVE  /\ ActiveWidth(Made(f, w), z) \in Nat
         /\ 2 * ActiveWidth(Made(f, w), z) < Span
         /\ ActiveWidth(Made(f, w), z) > 0 <=> z \in ZonesOf(f)
<1> DEFINE m == Made(f, w)
<1>1. /\ m.file_widths[z] = IF w = None THEN f[z] ELSE None
      /\ m.options.edge_width = IF w = None THEN Given(f, "edge_width") ELSE w
  <2>1. /\ w = None => m.file_widths[z] = f[z]
        /\ w # None => m.file_widths[z] = None
    <3>1. w = None => m.file_widths[z] = f[z]
      BY MadeFields
    <3>2. w # None => m.file_widths[z] = None
      BY MadeFields
    <3> QED BY <3>1, <3>2
  <2>2. m.options.edge_width = IF w = None THEN Given(f, "edge_width") ELSE w
    BY MadeFields
  <2> HIDE DEF m
  <2> QED BY <2>1, <2>2
<1>2. BoundZones(m) = ZonesOf(f)
  BY BoundZonesOf
<1>3. w # None => w \in Nat /\ WidthIsValid(w)
  BY SettingsAssumption DEF Makes
<1>4. /\ Given(f, "edge_width") \in Nat /\ WidthIsValid(Given(f, "edge_width"))
      /\ f[z] # None => f[z] \in Nat /\ WidthIsValid(f[z])
  BY GivenIsValid DEF Makes
<1>5. Span \in Nat /\ Span > 0
  BY DefaultsAssumption, SettingsAssumption DEF WidthIsValid
<1> HIDE DEF m
<1>6. ActiveWidth(m, z) = IF z \notin ZonesOf(f) THEN 0
                          ELSE IF w = None /\ f[z] # None THEN f[z]
                          ELSE IF w = None THEN Given(f, "edge_width") ELSE w
  BY <1>1, <1>2 DEF ActiveWidth
<1>7. /\ ActiveWidth(m, z) \in Nat /\ 2 * ActiveWidth(m, z) < Span
      /\ ActiveWidth(m, z) > 0 <=> z \in ZonesOf(f)
  BY <1>3, <1>4, <1>5, <1>6 DEF WidthIsValid
<1> QED BY <1>7 DEF m

-----------------------------------------------------------------------------
(* Bindings are found by their zone and name                               *)

\* The first of one index is that index.
LEMMA OneIndex ==
  ASSUME NEW I \in SUBSET Int, NEW i \in I, \A j \in I : j = i
  PROVE  I # {} /\ (CHOOSE k \in I : \A j \in I : k <= j) = i
<1>1. i \in I /\ \A j \in I : i <= j
  OBVIOUS
<1> QED BY <1>1

\* An accepted file has one entry for each zone and name, and one slider for each zone.
LEMMA NoEntryTwice ==
  ASSUME NEW f, FileType(f), IsAccepted(f)
  PROVE  /\ DOMAIN f.gestures \subseteq Int /\ DOMAIN f.sliders \subseteq Int
         /\ \A i, j \in DOMAIN f.gestures :
              /\ f.gestures[i].zone = f.gestures[j].zone
              /\ f.gestures[i].direction = f.gestures[j].direction
              => i = j
         /\ \A i, j \in DOMAIN f.sliders : f.sliders[i].zone = f.sliders[j].zone => i = j
<1>1. DOMAIN f.gestures \subseteq Int /\ DOMAIN f.sliders \subseteq Int
  BY DEF FileType
<1>2. ASSUME NEW i \in DOMAIN f.gestures, NEW j \in DOMAIN f.gestures, i < j
      PROVE  <<f.gestures[i].zone, f.gestures[i].direction>>
               # <<f.gestures[j].zone, f.gestures[j].direction>>
  BY <1>2 DEF IsAccepted, Repeats
<1>3. ASSUME NEW i \in DOMAIN f.sliders, NEW j \in DOMAIN f.sliders, i < j
      PROVE  f.sliders[i].zone # f.sliders[j].zone
  BY <1>3 DEF IsAccepted, Repeats
<1>4. ASSUME NEW i \in DOMAIN f.gestures, NEW j \in DOMAIN f.gestures,
             f.gestures[i].zone = f.gestures[j].zone,
             f.gestures[i].direction = f.gestures[j].direction
      PROVE  i = j
  <2>1. i \in Int /\ j \in Int
    BY <1>1
  <2>2. ~(i < j) /\ ~(j < i)
    BY <1>2, <1>4
  <2> QED BY <2>1, <2>2
<1>5. ASSUME NEW i \in DOMAIN f.sliders, NEW j \in DOMAIN f.sliders,
             f.sliders[i].zone = f.sliders[j].zone
      PROVE  i = j
  <2>1. i \in Int /\ j \in Int
    BY <1>1
  <2>2. ~(i < j) /\ ~(j < i)
    BY <1>3, <1>5
  <2> QED BY <2>1, <2>2
<1> QED BY <1>1, <1>4, <1>5

\* The dispatcher finds the action a gesture of the file was bound to.
LEMMA GestureIsFound ==
  ASSUME NEW f, NEW w, Makes(f, w), NEW i \in DOMAIN f.gestures
  PROVE  GestureAction(Made(f, w), f.gestures[i].zone, f.gestures[i].direction)
           = f.gestures[i].action
<1> DEFINE m == Made(f, w)
           zone == f.gestures[i].zone
           direction == f.gestures[i].direction
           of == {j \in DOMAIN m.gestures :
                    m.gestures[j].zone = zone /\ m.gestures[j].direction = direction}
<1>1. m.gestures = f.gestures
  BY MadeFields
<1>2. FileType(f) /\ IsAccepted(f)
  BY DEF Makes
<1> HIDE DEF m
<1>3. of \in SUBSET Int /\ i \in of /\ \A j \in of : j = i
  BY <1>1, <1>2, NoEntryTwice
<1>4. of # {} /\ (CHOOSE k \in of : \A j \in of : k <= j) = i
  <2> HIDE DEF of
  <2> QED BY <1>3, OneIndex
<1>5. GestureAction(m, zone, direction)
        = IF of = {} THEN NoAction ELSE m.gestures[CHOOSE k \in of : \A j \in of : k <= j].action
  BY DEF GestureAction
<1>6. GestureAction(m, zone, direction) = m.gestures[i].action
  <2> HIDE DEF of
  <2> QED BY <1>4, <1>5
<1> QED BY <1>1, <1>6 DEF m

\* The recognizer and the dispatcher find the slider of a zone.
LEMMA SliderIsFound ==
  ASSUME NEW f, NEW w, Makes(f, w), NEW i \in DOMAIN f.sliders
  PROVE  /\ StepOf(Made(f, w), f.sliders[i].zone) = Made(f, w).sliders[i].step
         /\ \A d \in Axis(f.sliders[i].zone) :
              SliderAction(Made(f, w), f.sliders[i].zone, d) = f.sliders[i].action[d]
<1> DEFINE m == Made(f, w)
           r == f.sliders[i]
           of == {j \in DOMAIN m.sliders : m.sliders[j].zone = r.zone}
<1>1. DOMAIN m.sliders = DOMAIN f.sliders
      /\ \A j \in DOMAIN f.sliders : m.sliders[j] = Slider(f.sliders[j])
  BY MadeFields
<1>2. FileType(f) /\ IsAccepted(f)
  BY DEF Makes
<1>3. \A j \in DOMAIN f.sliders : m.sliders[j].zone = f.sliders[j].zone
  <2>1. ASSUME NEW s
        PROVE  Slider(s).zone = s.zone
    BY DEF Slider
  <2> HIDE DEF m
  <2> QED BY <1>1, <2>1
<1> HIDE DEF m
<1>4. of \in SUBSET Int /\ i \in of /\ \A j \in of : j = i
  BY <1>1, <1>2, <1>3, NoEntryTwice
<1>5. of # {} /\ (CHOOSE k \in of : \A j \in of : k <= j) = i
  <2> HIDE DEF of
  <2> QED BY <1>4, OneIndex
<1>6. StepOf(m, r.zone) = m.sliders[i].step
  <2>1. StepOf(m, r.zone)
          = IF of = {} THEN 0 ELSE m.sliders[CHOOSE k \in of : \A j \in of : k <= j].step
    BY DEF StepOf
  <2> HIDE DEF of
  <2> QED BY <2>1, <1>5
<1>7. ASSUME NEW d \in Axis(r.zone)
      PROVE  SliderAction(m, r.zone, d) = r.action[d]
  <2> DEFINE J == {j \in DOMAIN m.sliders : m.sliders[j].zone = r.zone /\ d \in Axis(r.zone)}
             first == CHOOSE k \in J : \A j \in J : k <= j
  <2>1. SliderAction(m, r.zone, d)
          = IF J = {} THEN NoAction
            ELSE IF d \in {"Up", "Left"} THEN m.sliders[first].negative
                                         ELSE m.sliders[first].positive
    BY DEF SliderAction
  <2>2. J \in SUBSET Int /\ i \in J /\ \A j \in J : j = i
    BY <1>4, <1>7
  <2> HIDE DEF J
  <2>3. J # {} /\ first = i
    BY <2>2, OneIndex
  <2> HIDE DEF first
  <2>4. /\ m.sliders[i].negative = r.action[SliderDirection(r.zone, FALSE)]
        /\ m.sliders[i].positive = r.action[SliderDirection(r.zone, TRUE)]
    <3>1. ASSUME NEW s
          PROVE  /\ Slider(s).negative = s.action[SliderDirection(s.zone, FALSE)]
                 /\ Slider(s).positive = s.action[SliderDirection(s.zone, TRUE)]
      BY DEF Slider
    <3>2. m.sliders[i] = Slider(r)
      BY <1>1
    <3> QED BY <3>1, <3>2
  <2>5. IF d \in {"Up", "Left"} THEN d = SliderDirection(r.zone, FALSE)
                                ELSE d = SliderDirection(r.zone, TRUE)
    BY <1>7 DEF Axis, SliderDirection
  <2> QED BY <2>1, <2>3, <2>4, <2>5
<1> QED BY <1>6, <1>7 DEF m

-----------------------------------------------------------------------------
(* The settings the recognizer is given                                    *)

LEMMA ProfileFields ==
  ASSUME NEW c
  PROVE  /\ Profile(c).left = ActiveWidth(c, "Left") /\ Profile(c).right = ActiveWidth(c, "Right")
         /\ Profile(c).top = ActiveWidth(c, "Top") /\ Profile(c).bottom = ActiveWidth(c, "Bottom")
         /\ Profile(c).swipe_min_distance = c.options.swipe_min_distance
         /\ Profile(c).tap_min_duration = c.options.tap_min_duration
         /\ Profile(c).tap_max_duration = c.options.tap_max_duration
         /\ Profile(c).double_tap_timeout = c.options.double_tap_timeout
         /\ Profile(c).double_tap_max_distance = c.options.double_tap_max_distance
         /\ Profile(c).double_tap_zones = GestureZones(c, "DoubleTap")
         /\ Profile(c).single_tap_zones = GestureZones(c, "Tap")
         /\ Profile(c).sliders = [z \in Zones |-> StepOf(c, z)]
BY DEF Profile, EngineSettings, Zones

\* A slider's step is one that was given, or the default.
LEMMA StepsAreValid ==
  ASSUME NEW f, NEW w, Makes(f, w)
  PROVE  /\ \A i \in DOMAIN f.sliders :
              /\ Made(f, w).sliders[i].step \in Nat \ {0}
              /\ Made(f, w).sliders[i].step <= Span
         /\ \A z \in Zones :
              StepOf(Made(f, w), z) \in Nat /\ StepOf(Made(f, w), z) <= Span
         /\ \A z \in Zones :
              (\A i \in DOMAIN f.sliders : f.sliders[i].zone # z) => StepOf(Made(f, w), z) = 0
<1> DEFINE m == Made(f, w)
<1>0. DOMAIN m.sliders = DOMAIN f.sliders
      /\ \A j \in DOMAIN f.sliders : m.sliders[j] = Slider(f.sliders[j])
  BY MadeFields
<1>1. ASSUME NEW i \in DOMAIN f.sliders
      PROVE  m.sliders[i].step \in Nat \ {0} /\ m.sliders[i].step <= Span
  <2>1. /\ f.sliders[i] \in RawSliders
        /\ SliderIsValid(f.sliders[i])
    <3>1. f.sliders \in Seq(RawSliders) /\ \A j \in DOMAIN f.sliders : SliderIsValid(f.sliders[j])
      BY DEF Makes, FileType, IsAccepted
    <3> QED BY <3>1
  <2>2. f.sliders[i].step \in Nat \cup {None}
    BY <2>1, SettingsAssumption
  <2>3. f.sliders[i].step # None => FractionIsValid(f.sliders[i].step)
    BY <2>1 DEF SliderIsValid
  <2>4. Defaults.step \in Nat /\ FractionIsValid(Defaults.step)
    BY DefaultsAssumption
  <2>5. m.sliders[i].step = IF f.sliders[i].step # None THEN f.sliders[i].step ELSE Defaults.step
    <3>1. ASSUME NEW r
          PROVE  Slider(r).step = IF r.step # None THEN r.step ELSE Defaults.step
      BY DEF Slider
    <3> QED BY <1>0, <3>1
  <2> HIDE DEF m
  <2> QED BY <2>2, <2>3, <2>4, <2>5 DEF FractionIsValid
<1>2. Span \in Nat
  BY SettingsAssumption
<1>3. ASSUME NEW z \in Zones
      PROVE  /\ StepOf(m, z) \in Nat /\ StepOf(m, z) <= Span
             /\ (\A i \in DOMAIN f.sliders : f.sliders[i].zone # z) => StepOf(m, z) = 0
  <2>z. \A j \in DOMAIN f.sliders : m.sliders[j].zone = f.sliders[j].zone
    <3>1. ASSUME NEW s
          PROVE  Slider(s).zone = s.zone
      BY DEF Slider
    <3> HIDE DEF m
    <3> QED BY <1>0, <3>1
  <2>1. ASSUME \A i \in DOMAIN f.sliders : f.sliders[i].zone # z
        PROVE  StepOf(m, z) = 0
    <3>1. {i \in DOMAIN m.sliders : m.sliders[i].zone = z} = {}
      <4> HIDE DEF m
      <4> QED BY <1>0, <2>1, <2>z
    <3> HIDE DEF m
    <3> QED BY <3>1 DEF StepOf
  <2>2. ASSUME NEW i \in DOMAIN f.sliders, f.sliders[i].zone = z
        PROVE  StepOf(m, z) \in Nat /\ StepOf(m, z) <= Span
    <3>1. StepOf(m, z) = m.sliders[i].step
      BY <2>2, SliderIsFound
    <3> HIDE DEF m
    <3> QED BY <3>1, <1>1
  <2> HIDE DEF m
  <2> QED BY <1>2, <2>1, <2>2
<1> QED BY <1>1, <1>3

LEMMA GestureZonesOf ==
  ASSUME NEW f, NEW w, IsAccepted(f), NEW d
  PROVE  /\ GestureZones(Made(f, w), d)
              = {f.gestures[i].zone : i \in {j \in DOMAIN f.gestures : f.gestures[j].direction = d}}
         /\ GestureZones(Made(f, w), d) \subseteq Zones
<1>1. Made(f, w).gestures = f.gestures
  BY MadeFields
<1>2. GestureZones(Made(f, w), d)
        = {f.gestures[i].zone : i \in {j \in DOMAIN f.gestures : f.gestures[j].direction = d}}
  BY <1>1 DEF GestureZones
<1>3. \A i \in DOMAIN f.gestures : f.gestures[i].zone \in Zones
  BY DEF IsAccepted, GestureIsValid
<1> QED BY <1>2, <1>3

\* The numbers of the settings are in the ranges of the file.
LEMMA ProfileNumbers ==
  ASSUME NEW f, NEW w, Makes(f, w), NEW p, p = Profile(Made(f, w))
  PROVE  /\ p.swipe_min_distance \in Nat \ {0}
         /\ p.tap_min_duration \in Nat /\ p.tap_max_duration \in Nat
         /\ p.tap_min_duration < p.tap_max_duration
         /\ p.double_tap_timeout \in Nat \ {0}
         /\ p.double_tap_max_distance \in Nat \ {0} /\ p.double_tap_max_distance <= Span
<1> DEFINE m == Made(f, w)
<1>1. \A key \in Options \ {"edge_width"} : m.options[key] = Given(f, key)
  BY MadeFields
<1>2. /\ m.options.swipe_min_distance = Given(f, "swipe_min_distance")
      /\ m.options.tap_min_duration = Given(f, "tap_min_duration")
      /\ m.options.tap_max_duration = Given(f, "tap_max_duration")
      /\ m.options.double_tap_timeout = Given(f, "double_tap_timeout")
      /\ m.options.double_tap_max_distance = Given(f, "double_tap_max_distance")
  <2> HIDE DEF m
  <2> QED BY <1>1, OptionNames
<1>3. /\ p.swipe_min_distance = m.options.swipe_min_distance
      /\ p.tap_min_duration = m.options.tap_min_duration
      /\ p.tap_max_duration = m.options.tap_max_duration
      /\ p.double_tap_timeout = m.options.double_tap_timeout
      /\ p.double_tap_max_distance = m.options.double_tap_max_distance
  BY ProfileFields
<1>4. /\ Given(f, "swipe_min_distance") \in Nat /\ FractionIsValid(Given(f, "swipe_min_distance"))
      /\ Given(f, "double_tap_max_distance") \in Nat
      /\ FractionIsValid(Given(f, "double_tap_max_distance"))
      /\ Given(f, "double_tap_timeout") \in Nat /\ Given(f, "double_tap_timeout") > 0
      /\ Given(f, "tap_min_duration") \in Nat /\ Given(f, "tap_max_duration") \in Nat
      /\ Given(f, "tap_min_duration") < Given(f, "tap_max_duration")
  BY GivenIsValid DEF Makes
<1> HIDE DEF m
<1> QED BY <1>2, <1>3, <1>4 DEF FractionIsValid

\* The engine takes the settings of every accepted file.
LEMMA AcceptedByEngine ==
  ASSUME NEW f, NEW w, Makes(f, w)
  PROVE  EngineAccepts(Profile(Made(f, w)))
<1> DEFINE m == Made(f, w)
           p == Profile(m)
<1>1. \A z \in Zones : ActiveWidth(m, z) \in Nat
  BY ActiveWidths
<1>2. p.left \in Nat /\ p.right \in Nat /\ p.top \in Nat /\ p.bottom \in Nat
  BY <1>1, ProfileFields DEF Zones
<1>3. /\ p.swipe_min_distance \in Nat \ {0}
      /\ p.tap_min_duration \in Nat /\ p.tap_max_duration \in Nat
      /\ p.tap_min_duration < p.tap_max_duration
      /\ p.double_tap_timeout \in Nat \ {0}
      /\ p.double_tap_max_distance \in Nat \ {0} /\ p.double_tap_max_distance <= Span
  BY ProfileNumbers
<1>4. p.double_tap_zones \in SUBSET Zones /\ p.single_tap_zones \in SUBSET Zones
  <2>1. p.double_tap_zones = GestureZones(m, "DoubleTap")
        /\ p.single_tap_zones = GestureZones(m, "Tap")
    BY ProfileFields
  <2>2. \A d : GestureZones(m, d) \subseteq Zones
    BY GestureZonesOf DEF Makes
  <2> HIDE DEF p, m
  <2> QED BY <2>1, <2>2
<1>5. p.sliders \in [Zones -> Nat] /\ \A z \in Zones : p.sliders[z] <= Span
  <2>1. p.sliders = [z \in Zones |-> StepOf(m, z)]
    BY ProfileFields
  <2>2. \A z \in Zones : StepOf(m, z) \in Nat /\ StepOf(m, z) <= Span
    BY StepsAreValid
  <2> HIDE DEF p, m
  <2> QED BY <2>1, <2>2
<1>6. p = [ left |-> p.left, right |-> p.right, top |-> p.top, bottom |-> p.bottom,
            swipe_min_distance |-> p.swipe_min_distance,
            tap_min_duration |-> p.tap_min_duration, tap_max_duration |-> p.tap_max_duration,
            double_tap_timeout |-> p.double_tap_timeout,
            double_tap_max_distance |-> p.double_tap_max_distance,
            double_tap_zones |-> p.double_tap_zones, single_tap_zones |-> p.single_tap_zones,
            sliders |-> p.sliders ]
  BY DEF Profile, EngineSettings
<1> HIDE DEF p, m
<1>7. p \in ConfigType
  BY <1>2, <1>3, <1>4, <1>5, <1>6 DEF ConfigType
<1> QED BY <1>3, <1>5, <1>7 DEF EngineAccepts, p, m

-----------------------------------------------------------------------------
(* Where a finger is taken, and the room it has to move                    *)

Width(p, z) ==
  IF z = "Left" THEN p.left ELSE IF z = "Right" THEN p.right
  ELSE IF z = "Top" THEN p.top ELSE p.bottom

\* No edge reaches the middle of the pad.
Narrow(p) == \A z \in Zones : Width(p, z) \in Nat /\ 2 * Width(p, z) < Span

\* A finger that moves from (x, y) to the position "to" of one axis goes at least n that way.
Travels(d, x, y, to, n) ==
  CASE d = "Right" -> to - x >= n
    [] d = "Left"  -> x - to >= n
    [] d = "Down"  -> to - y >= n
    [] d = "Up"    -> y - to >= n

LEMMA NarrowFields ==
  ASSUME NEW p, Narrow(p)
  PROVE  /\ Span \in Nat /\ Span > 0
         /\ p.left \in Nat /\ p.right \in Nat /\ p.top \in Nat /\ p.bottom \in Nat
         /\ 2 * p.left < Span /\ 2 * p.right < Span /\ 2 * p.top < Span /\ 2 * p.bottom < Span
<1>1. Span \in Nat /\ Span > 0
  BY SettingsAssumption, DefaultsAssumption DEF WidthIsValid
<1>2. Width(p, "Left") = p.left /\ Width(p, "Right") = p.right
      /\ Width(p, "Top") = p.top /\ Width(p, "Bottom") = p.bottom
  BY DEF Width
<1> QED BY <1>1, <1>2 DEF Narrow, Zones

\* In an edge that takes fingers there is room to move in every direction for less
\* than the edge is wide, and along the edge for half the pad.
LEMMA RoomToMove ==
  ASSUME NEW p, Narrow(p), NEW z \in Zones, Width(p, z) > 0,
         NEW n \in Nat, NEW d \in Directions,
         n < Width(p, z) \/ (2 * n <= Span /\ d \in Axis(z))
  PROVE  \E x, y, to \in 0..Span : ZoneForPosition(p, x, y) = z /\ Travels(d, x, y, to, n)
<1>0. /\ Span \in Nat /\ Span > 0
      /\ p.left \in Nat /\ p.right \in Nat /\ p.top \in Nat /\ p.bottom \in Nat
      /\ 2 * p.left < Span /\ 2 * p.right < Span /\ 2 * p.top < Span /\ 2 * p.bottom < Span
  BY NarrowFields
<1>1. ASSUME z = "Left"
      PROVE  \E x, y, to \in 0..Span : ZoneForPosition(p, x, y) = z /\ Travels(d, x, y, to, n)
  <2>1. p.left > 0 /\ (n < p.left \/ (2 * n <= Span /\ d \in {"Up", "Down"}))
    BY <1>1 DEF Width, Axis, IsVertical
  <2>2. /\ ZoneForPosition(p, 0, 0) = z /\ ZoneForPosition(p, 0, Span) = z
        /\ ZoneForPosition(p, p.left - 1, 0) = z
    BY <1>0, <1>1, <2>1 DEF ZoneForPosition
  <2>3. CASE d = "Right"
    <3>1. Travels(d, 0, 0, Span, n)
      BY <1>0, <2>1, <2>3 DEF Travels
    <3> QED BY <1>0, <2>2, <3>1
  <2>4. CASE d = "Left"
    <3>1. Travels(d, p.left - 1, 0, 0, n)
      BY <1>0, <2>1, <2>4 DEF Travels
    <3>2. p.left - 1 \in 0..Span
      BY <1>0, <2>1
    <3> QED BY <1>0, <2>2, <3>1, <3>2
  <2>5. CASE d = "Down"
    <3>1. Travels(d, 0, 0, Span, n)
      BY <1>0, <2>1, <2>5 DEF Travels
    <3> QED BY <1>0, <2>2, <3>1
  <2>6. CASE d = "Up"
    <3>1. Travels(d, 0, Span, 0, n)
      BY <1>0, <2>1, <2>6 DEF Travels
    <3> QED BY <1>0, <2>2, <3>1
  <2> QED BY <2>3, <2>4, <2>5, <2>6 DEF Directions
<1>2. ASSUME z = "Right"
      PROVE  \E x, y, to \in 0..Span : ZoneForPosition(p, x, y) = z /\ Travels(d, x, y, to, n)
  <2>1. p.right > 0 /\ (n < p.right \/ (2 * n <= Span /\ d \in {"Up", "Down"}))
    BY <1>2 DEF Width, Axis, IsVertical
  <2>2. /\ ZoneForPosition(p, Span, 0) = z /\ ZoneForPosition(p, Span, Span) = z
        /\ ZoneForPosition(p, Span - p.right + 1, 0) = z
    BY <1>0, <1>2, <2>1 DEF ZoneForPosition
  <2>3. CASE d = "Right"
    <3>1. Travels(d, Span - p.right + 1, 0, Span, n)
      BY <1>0, <2>1, <2>3 DEF Travels
    <3>2. Span - p.right + 1 \in 0..Span
      BY <1>0, <2>1
    <3> QED BY <1>0, <2>2, <3>1, <3>2
  <2>4. CASE d = "Left"
    <3>1. Travels(d, Span, 0, 0, n)
      BY <1>0, <2>1, <2>4 DEF Travels
    <3> QED BY <1>0, <2>2, <3>1
  <2>5. CASE d = "Down"
    <3>1. Travels(d, Span, 0, Span, n)
      BY <1>0, <2>1, <2>5 DEF Travels
    <3> QED BY <1>0, <2>2, <3>1
  <2>6. CASE d = "Up"
    <3>1. Travels(d, Span, Span, 0, n)
      BY <1>0, <2>1, <2>6 DEF Travels
    <3> QED BY <1>0, <2>2, <3>1
  <2> QED BY <2>3, <2>4, <2>5, <2>6 DEF Directions
<1>3. ASSUME z = "Top"
      PROVE  \E x, y, to \in 0..Span : ZoneForPosition(p, x, y) = z /\ Travels(d, x, y, to, n)
  <2>1. p.top > 0 /\ (n < p.top \/ (2 * n <= Span /\ d \in {"Left", "Right"}))
    BY <1>3 DEF Width, Axis, IsVertical
  <2>2. /\ ZoneForPosition(p, p.left, 0) = z /\ ZoneForPosition(p, Span - p.right, 0) = z
        /\ ZoneForPosition(p, p.left, p.top - 1) = z
    BY <1>0, <1>3, <2>1 DEF ZoneForPosition
  <2>e. p.left \in 0..Span /\ Span - p.right \in 0..Span /\ p.top - 1 \in 0..Span
    BY <1>0, <2>1
  <2>3. CASE d = "Right"
    <3>1. Travels(d, p.left, 0, Span, n)
      BY <1>0, <2>1, <2>3 DEF Travels
    <3> QED BY <1>0, <2>2, <2>e, <3>1
  <2>4. CASE d = "Left"
    <3>1. Travels(d, Span - p.right, 0, 0, n)
      BY <1>0, <2>1, <2>4 DEF Travels
    <3> QED BY <1>0, <2>2, <2>e, <3>1
  <2>5. CASE d = "Down"
    <3>1. Travels(d, p.left, 0, Span, n)
      BY <1>0, <2>1, <2>5 DEF Travels
    <3> QED BY <1>0, <2>2, <2>e, <3>1
  <2>6. CASE d = "Up"
    <3>1. Travels(d, p.left, p.top - 1, 0, n)
      BY <1>0, <2>1, <2>6 DEF Travels
    <3> QED BY <1>0, <2>2, <2>e, <3>1
  <2> QED BY <2>3, <2>4, <2>5, <2>6 DEF Directions
<1>4. ASSUME z = "Bottom"
      PROVE  \E x, y, to \in 0..Span : ZoneForPosition(p, x, y) = z /\ Travels(d, x, y, to, n)
  <2>1. p.bottom > 0 /\ (n < p.bottom \/ (2 * n <= Span /\ d \in {"Left", "Right"}))
    BY <1>4 DEF Width, Axis, IsVertical
  <2>2. /\ ZoneForPosition(p, p.left, Span) = z /\ ZoneForPosition(p, Span - p.right, Span) = z
        /\ ZoneForPosition(p, p.left, Span - p.bottom + 1) = z
    BY <1>0, <1>4, <2>1 DEF ZoneForPosition
  <2>e. p.left \in 0..Span /\ Span - p.right \in 0..Span /\ Span - p.bottom + 1 \in 0..Span
    BY <1>0, <2>1
  <2>3. CASE d = "Right"
    <3>1. Travels(d, p.left, Span, Span, n)
      BY <1>0, <2>1, <2>3 DEF Travels
    <3> QED BY <1>0, <2>2, <2>e, <3>1
  <2>4. CASE d = "Left"
    <3>1. Travels(d, Span - p.right, Span, 0, n)
      BY <1>0, <2>1, <2>4 DEF Travels
    <3> QED BY <1>0, <2>2, <2>e, <3>1
  <2>5. CASE d = "Down"
    <3>1. Travels(d, p.left, Span - p.bottom + 1, Span, n)
      BY <1>0, <2>1, <2>5 DEF Travels
    <3> QED BY <1>0, <2>2, <2>e, <3>1
  <2>6. CASE d = "Up"
    <3>1. Travels(d, p.left, Span, 0, n)
      BY <1>0, <2>1, <2>6 DEF Travels
    <3> QED BY <1>0, <2>2, <2>e, <3>1
  <2> QED BY <2>3, <2>4, <2>5, <2>6 DEF Directions
<1> QED BY <1>1, <1>2, <1>3, <1>4 DEF Zones

\* An edge takes fingers if and only if it has a width.
LEMMA ClaimingZonesOf ==
  ASSUME NEW p, Narrow(p)
  PROVE  ClaimingZones(p) = {z \in Zones : Width(p, z) > 0}
<1>0. /\ Span \in Nat /\ Span > 0
      /\ p.left \in Nat /\ p.right \in Nat /\ p.top \in Nat /\ p.bottom \in Nat
  BY NarrowFields
<1>1. ASSUME NEW z \in ClaimingZones(p)
      PROVE  z \in Zones /\ Width(p, z) > 0
  <2>1. PICK x \in 0..Span, y \in 0..Span : z = ZoneForPosition(p, x, y) /\ z # "None"
    BY DEF ClaimingZones
  <2> QED BY <1>0, <2>1 DEF ZoneForPosition, Width, Zones
<1>2. ASSUME NEW z \in Zones, Width(p, z) > 0
      PROVE  z \in ClaimingZones(p)
  <2>1. \E x, y, to \in 0..Span :
          ZoneForPosition(p, x, y) = z /\ Travels("Up", x, y, to, 0)
    BY <1>2, RoomToMove DEF Directions
  <2>2. z # "None"
    BY DEF Zones
  <2> QED BY <2>1, <2>2 DEF ClaimingZones
<1> QED BY <1>1, <1>2

-----------------------------------------------------------------------------
(* What a finger that moves is reported as                                 *)

\* A finger at (x, y), and the same finger after it moved along one axis.
At(x, y) ==
  [NewContact(0, 1, TRUE) EXCEPT !.start_x = x, !.start_y = y, !.current_x = x, !.current_y = y]
MovedTo(d, x, y, to) ==
  IF d \in {"Left", "Right"}
  THEN [At(x, y) EXCEPT !.current_x = to, !.contact_phase = "Motion"]
  ELSE [At(x, y) EXCEPT !.current_y = to, !.contact_phase = "Motion"]

LEMMA AtFields ==
  ASSUME NEW x, NEW y
  PROVE  /\ At(x, y).start_x = x /\ At(x, y).start_y = y
         /\ At(x, y).current_x = x /\ At(x, y).current_y = y
         /\ At(x, y).contact_phase = "TapCandidate" /\ ~At(x, y).gesture_rejected
         /\ At(x, y).started_at = 1 /\ At(x, y).tap_sequence_eligible
BY DEF At, NewContact

LEMMA MovedFields ==
  ASSUME NEW x, NEW y, NEW to, NEW d
  PROVE  /\ MovedTo(d, x, y, to).start_x = x /\ MovedTo(d, x, y, to).start_y = y
         /\ MovedTo(d, x, y, to).contact_phase = "Motion"
         /\ ~MovedTo(d, x, y, to).gesture_rejected
         /\ d \in {"Left", "Right"} =>
              MovedTo(d, x, y, to).current_x = to /\ MovedTo(d, x, y, to).current_y = y
         /\ d \notin {"Left", "Right"} =>
              MovedTo(d, x, y, to).current_x = x /\ MovedTo(d, x, y, to).current_y = to
BY DEF MovedTo, At, NewContact

LEMMA ContactsAreAt ==
  ASSUME NEW p, NEW z, NEW x \in 0..Span, NEW y \in 0..Span, ZoneForPosition(p, x, y) = z
  PROVE  At(x, y) \in Contacts(p, z)
<1> DEFINE q == <<x, y>>
<1>1. q \in {r \in (0..Span) \X (0..Span) : ZoneForPosition(p, r[1], r[2]) = z}
  OBVIOUS
<1>2. At(x, y) = [NewContact(0, 1, TRUE) EXCEPT !.start_x = q[1], !.start_y = q[2],
                                                !.current_x = q[1], !.current_y = q[2]]
  BY DEF At
<1> QED BY <1>1, <1>2 DEF Contacts

LEMMA MovedIsMoved ==
  ASSUME NEW x, NEW y, NEW to \in 0..Span, NEW d
  PROVE  MovedTo(d, x, y, to) \in Moved(At(x, y))
BY DEF MovedTo, Moved

\* Far enough in one direction, a finger is reported to have swiped that way.
LEMMA SwipeIsReported ==
  ASSUME NEW p, p.swipe_min_distance \in Nat \ {0}, Span \in Nat,
         NEW x \in 0..Span, NEW y \in 0..Span, NEW to \in 0..Span, NEW d \in Directions,
         Travels(d, x, y, to, p.swipe_min_distance)
  PROVE  ClassifyGesture(p, MovedTo(d, x, y, to), 1) = d
<1> DEFINE m == MovedTo(d, x, y, to)
           dx == OrElse(m.current_x, m.start_x) - m.start_x
           dy == OrElse(m.current_y, m.start_y) - m.start_y
<1>1. /\ m.start_x = x /\ m.start_y = y /\ m.contact_phase = "Motion"
      /\ ~m.gesture_rejected
      /\ d \in {"Left", "Right"} => m.current_x = to /\ m.current_y = y
      /\ d \notin {"Left", "Right"} => m.current_x = x /\ m.current_y = to
  BY MovedFields
<1> HIDE DEF m
<1>2. dx = (IF d \in {"Left", "Right"} THEN to - x ELSE 0)
      /\ dy = (IF d \in {"Left", "Right"} THEN 0 ELSE to - y)
  BY <1>1 DEF OrElse, None
<1> HIDE DEF dx, dy
<1>3. DirectionForDisplacement(p, dx, dy) = d
  <2>1. CASE d = "Right"
    BY <1>2, <2>1 DEF Travels, DirectionForDisplacement, Distance
  <2>2. CASE d = "Left"
    BY <1>2, <2>2 DEF Travels, DirectionForDisplacement, Distance
  <2>3. CASE d = "Down"
    BY <1>2, <2>3 DEF Travels, DirectionForDisplacement, Distance
  <2>4. CASE d = "Up"
    BY <1>2, <2>4 DEF Travels, DirectionForDisplacement, Distance
  <2> QED BY <2>1, <2>2, <2>3, <2>4 DEF Directions
<1>4. m.start_x # None /\ m.start_y # None
  BY <1>1 DEF None
<1>5. ClassifyGesture(p, m, 1) = DirectionForDisplacement(p, dx, dy)
  BY <1>1, <1>4 DEF ClassifyGesture, dx, dy
<1> QED BY <1>3, <1>5 DEF m

\* A swipe that is shorter than the edge is wide can be made in it, if no slider is there.
LEMMA SwipesCanFire ==
  ASSUME NEW p, Narrow(p), p.swipe_min_distance \in Nat \ {0}, NEW z \in Zones,
         Width(p, z) > 0, p.swipe_min_distance < Width(p, z), p.sliders[z] = 0,
         NEW d \in Directions
  PROVE  CanSwipe(p, z, d)
<1>1. PICK x \in 0..Span, y \in 0..Span, to \in 0..Span :
        ZoneForPosition(p, x, y) = z /\ Travels(d, x, y, to, p.swipe_min_distance)
  BY RoomToMove
<1>2. At(x, y) \in Contacts(p, z) /\ MovedTo(d, x, y, to) \in Moved(At(x, y))
  BY <1>1, ContactsAreAt, MovedIsMoved
<1>3. ClassifyGesture(p, MovedTo(d, x, y, to), 1) = d
  BY <1>1, SwipeIsReported, NarrowFields
<1> QED BY <1>2, <1>3 DEF CanSwipe

\* A slider whose step is half an axis or less can be moved both ways.
LEMMA StepsCanFire ==
  ASSUME NEW p, Narrow(p), NEW z \in Zones, Width(p, z) > 0,
         p.sliders[z] \in Nat \ {0}, 2 * p.sliders[z] <= Span, NEW d \in Axis(z)
  PROVE  CanStep(p, z, d)
<1>0. d \in Directions /\ (IsVertical(z) <=> d \in {"Up", "Down"})
      /\ (~IsVertical(z) <=> d \in {"Left", "Right"})
  BY DEF Axis, Directions
<1>1. PICK x \in 0..Span, y \in 0..Span, to \in 0..Span :
        ZoneForPosition(p, x, y) = z /\ Travels(d, x, y, to, p.sliders[z])
  BY <1>0, RoomToMove
<1> DEFINE c == At(x, y)
           m == MovedTo(d, x, y, to)
<1>2. c \in Contacts(p, z) /\ m \in Moved(c)
  BY <1>1, ContactsAreAt, MovedIsMoved
<1>3. SliderPosition(z, c) = IF IsVertical(z) THEN y ELSE x
  BY AtFields DEF SliderPosition
<1>4. SliderPosition(z, m) = to
  BY <1>0, MovedFields DEF SliderPosition
<1> HIDE DEF c, m
<1>5. /\ Distance(SliderPosition(z, c), SliderPosition(z, m)) >= p.sliders[z]
      /\ SliderDirection(z, SliderPosition(z, m) >= SliderPosition(z, c)) = d
  <2>1. CASE d = "Right"
    BY <1>0, <1>1, <1>3, <1>4, <2>1, NarrowFields DEF Travels, Distance, SliderDirection
  <2>2. CASE d = "Left"
    BY <1>0, <1>1, <1>3, <1>4, <2>2, NarrowFields DEF Travels, Distance, SliderDirection
  <2>3. CASE d = "Down"
    BY <1>0, <1>1, <1>3, <1>4, <2>3, NarrowFields DEF Travels, Distance, SliderDirection
  <2>4. CASE d = "Up"
    BY <1>0, <1>1, <1>3, <1>4, <2>4, NarrowFields DEF Travels, Distance, SliderDirection
  <2> QED BY <1>0, <2>1, <2>2, <2>3, <2>4 DEF Directions
<1> QED BY <1>2, <1>5 DEF CanStep

\* A finger that is lifted after the shortest tap has tapped, and one put down again at
\* once and at the same place has tapped twice.
LEMMA TapsCanFire ==
  ASSUME NEW p, Narrow(p), NEW z \in Zones, Width(p, z) > 0,
         p.swipe_min_distance \in Nat \ {0},
         p.tap_min_duration \in Nat, p.tap_max_duration \in Nat,
         p.tap_min_duration < p.tap_max_duration,
         p.double_tap_timeout \in Nat \ {0}, p.double_tap_max_distance \in Nat \ {0}
  PROVE  /\ z \in p.single_tap_zones => CanTap(p, z)
         /\ z \in p.double_tap_zones => CanDoubleTap(p, z)
<1>1. PICK x \in 0..Span, y \in 0..Span, to \in 0..Span :
        ZoneForPosition(p, x, y) = z /\ Travels("Up", x, y, to, 0)
  BY RoomToMove DEF Directions
<1> DEFINE c == At(x, y)
<1>2. c \in Contacts(p, z)
  BY <1>1, ContactsAreAt
<1>3. /\ c.start_x = x /\ c.start_y = y /\ c.current_x = x /\ c.current_y = y
      /\ c.contact_phase = "TapCandidate" /\ ~c.gesture_rejected
      /\ c.started_at = 1 /\ c.tap_sequence_eligible
  BY AtFields
<1> HIDE DEF c
<1>4. x # None /\ y # None /\ x \in Int /\ y \in Int
  BY NarrowFields DEF None
<1>5. ClassifyGesture(p, c, 1 + p.tap_min_duration) = "Tap"
  <2>1. TapDurationIsValid(p, 1, 1 + p.tap_min_duration)
    BY DEF TapDurationIsValid
  <2>2. DirectionForDisplacement(p, 0, 0) = "None"
    BY DEF DirectionForDisplacement, Distance
  <2>3. OrElse(c.current_x, c.start_x) - c.start_x = 0 /\ OrElse(c.current_y, c.start_y) - c.start_y = 0
    BY <1>3, <1>4 DEF OrElse
  <2> QED BY <1>3, <1>4, <2>1, <2>2, <2>3 DEF ClassifyGesture
<1>6. ASSUME NEW pending, pending.gesture.zone = z, pending.released_at = 1,
             pending.x = x, pending.y = y
      PROVE  ContactMatchesPendingTap(p, pending, c, z)
  <2>1. (x - x) * (x - x) + (y - y) * (y - y) = 0
    <3>1. x - x = 0 /\ y - y = 0
      BY <1>4
    <3> QED BY <3>1
  <2>2. p.double_tap_max_distance * p.double_tap_max_distance \in Nat
    OBVIOUS
  <2> QED BY <1>3, <1>4, <1>6, <2>1, <2>2 DEF ContactMatchesPendingTap, None
<1>7. [NoTap EXCEPT !.gesture.zone = z, !.released_at = 1, !.x = c.start_x, !.y = c.start_y].gesture.zone = z
      /\ [NoTap EXCEPT !.gesture.zone = z, !.released_at = 1, !.x = c.start_x, !.y = c.start_y].released_at = 1
      /\ [NoTap EXCEPT !.gesture.zone = z, !.released_at = 1, !.x = c.start_x, !.y = c.start_y].x = x
      /\ [NoTap EXCEPT !.gesture.zone = z, !.released_at = 1, !.x = c.start_x, !.y = c.start_y].y = y
  BY <1>3 DEF NoTap
<1>8. ContactMatchesPendingTap(p,
        [NoTap EXCEPT !.gesture.zone = z, !.released_at = 1, !.x = c.start_x, !.y = c.start_y], c, z)
  BY <1>6, <1>7
<1>9. z \in p.single_tap_zones => CanTap(p, z)
  BY <1>2, <1>5 DEF CanTap
<1>10. z \in p.double_tap_zones => CanDoubleTap(p, z)
  BY <1>2, <1>8 DEF CanDoubleTap
<1> QED BY <1>9, <1>10

-----------------------------------------------------------------------------
(* The properties                                                          *)

LEMMA NarrowProfile ==
  ASSUME NEW f, NEW w, Makes(f, w)
  PROVE  /\ Narrow(Profile(Made(f, w)))
         /\ \A z \in Zones : /\ Width(Profile(Made(f, w)), z) = ActiveWidth(Made(f, w), z)
                             /\ Width(Profile(Made(f, w)), z) > 0 <=> z \in ZonesOf(f)
<1> DEFINE m == Made(f, w)
           p == Profile(m)
<1>1. /\ p.left = ActiveWidth(m, "Left") /\ p.right = ActiveWidth(m, "Right")
      /\ p.top = ActiveWidth(m, "Top") /\ p.bottom = ActiveWidth(m, "Bottom")
  BY ProfileFields
<1>2. \A z \in Zones : /\ ActiveWidth(m, z) \in Nat /\ 2 * ActiveWidth(m, z) < Span
                       /\ ActiveWidth(m, z) > 0 <=> z \in ZonesOf(f)
  BY ActiveWidths
<1> HIDE DEF p, m
<1>3. \A z \in Zones : Width(p, z) = ActiveWidth(m, z)
  BY <1>1 DEF Width, Zones
<1>4. Narrow(p)
  BY <1>2, <1>3 DEF Narrow
<1>5. \A z \in Zones : Width(p, z) > 0 <=> z \in ZonesOf(f)
  BY <1>2, <1>3
<1> QED BY <1>3, <1>4, <1>5 DEF p, m

\* Without --edge-width, the configuration is the one of the file.
LEMMA MadeWithout ==
  ASSUME NEW f
  PROVE  Made(f, None) = Parsed(f)
BY DEF Made, OverrideConfig

LEMMA MadeLists ==
  ASSUME NEW f, NEW w
  PROVE  /\ Made(f, w).sliders = Parsed(f).sliders
         /\ Made(f, w).gestures = Parsed(f).gestures
<1>1. ASSUME w # None
      PROVE  /\ Made(f, w).sliders = Parsed(f).sliders
             /\ Made(f, w).gestures = Parsed(f).gestures
  <2> DEFINE c == Parsed(f)
  <2>1. Made(f, w) = [c EXCEPT !.options.edge_width = w, !.file_widths = [z \in Zones |-> None]]
    BY <1>1 DEF Made, OverrideConfig
  <2>2. DOMAIN c = {"file_widths", "options", "gestures", "sliders"}
    BY ParsedFields
  <2> HIDE DEF c
  <2>3. Made(f, w).gestures = c.gestures /\ Made(f, w).sliders = c.sliders
    BY <2>1, <2>2
  <2> QED BY <2>3 DEF c
<1> QED BY <1>1, MadeWithout

\* The settings of a profile, spelled out.
Settled(p) ==
  [ left |-> p.left, right |-> p.right, top |-> p.top, bottom |-> p.bottom,
    swipe_min_distance |-> p.swipe_min_distance,
    tap_min_duration |-> p.tap_min_duration, tap_max_duration |-> p.tap_max_duration,
    double_tap_timeout |-> p.double_tap_timeout,
    double_tap_max_distance |-> p.double_tap_max_distance,
    double_tap_zones |-> p.double_tap_zones, single_tap_zones |-> p.single_tap_zones,
    sliders |-> p.sliders ]

\* Overriding the profile and overriding the configuration come to the same.
LEMMA OverridesAgree ==
  ASSUME NEW f, NEW w, Makes(f, w)
  PROVE  Profile(Made(f, w)) = OverrideProfile(Profile(Parsed(f)), TRUE, w)
<1>1. CASE w = None
  BY <1>1, MadeWithout DEF OverrideProfile
<1>2. ASSUME w # None
      PROVE  Profile(Made(f, w)) = OverrideProfile(Profile(Parsed(f)), TRUE, w)
  <2> DEFINE c == Parsed(f)
             m == Made(f, w)
             q == Profile(c)
             p == Profile(m)
             o == OverrideProfile(q, TRUE, w)
             over(active) == IF active = 0 THEN 0 ELSE w
  <2>1. o = [q EXCEPT !.left = over(@), !.right = over(@), !.top = over(@), !.bottom = over(@)]
    BY <1>2 DEF OverrideProfile
  <2>2. q = Settled(q) /\ p = Settled(p)
    <3>1. ASSUME NEW k
          PROVE  Profile(k) = Settled(Profile(k))
      BY DEF Settled, Profile, EngineSettings
    <3> QED BY <3>1
  <2>3. o = [Settled(q) EXCEPT !.left = over(@), !.right = over(@),
                               !.top = over(@), !.bottom = over(@)]
    <3> HIDE DEF q, o
    <3> QED BY <2>1, <2>2
  <2>4. \A z \in Zones : ActiveWidth(m, z) = over(ActiveWidth(c, z))
    <3>1. ASSUME NEW z \in Zones
          PROVE  ActiveWidth(m, z) = over(ActiveWidth(c, z))
      <4>1. BoundZones(m) = ZonesOf(f)
        BY BoundZonesOf
      <4>2. m.file_widths[z] = None
        BY <1>2, MadeFields
      <4>3. m.options.edge_width = w
        BY <1>2, MadeFields
      <4>4. ActiveWidth(m, z) = IF z \notin ZonesOf(f) THEN 0 ELSE w
        <5> HIDE DEF m
        <5> QED BY <4>1, <4>2, <4>3 DEF ActiveWidth
      <4>5. Makes(f, None)
        BY DEF Makes
      <4>6. ActiveWidth(Made(f, None), z) \in Nat
            /\ (ActiveWidth(Made(f, None), z) > 0 <=> z \in ZonesOf(f))
        BY <4>5, ActiveWidths
      <4>7. ActiveWidth(c, z) \in Nat /\ (ActiveWidth(c, z) > 0 <=> z \in ZonesOf(f))
        BY <4>6, MadeWithout
      <4> HIDE DEF m, c
      <4> QED BY <4>4, <4>7
    <3> QED BY <3>1
  <2>5. /\ p.left = over(q.left) /\ p.right = over(q.right)
        /\ p.top = over(q.top) /\ p.bottom = over(q.bottom)
    <3>1. /\ q.left = ActiveWidth(c, "Left") /\ q.right = ActiveWidth(c, "Right")
          /\ q.top = ActiveWidth(c, "Top") /\ q.bottom = ActiveWidth(c, "Bottom")
      BY ProfileFields
    <3>2. /\ p.left = ActiveWidth(m, "Left") /\ p.right = ActiveWidth(m, "Right")
          /\ p.top = ActiveWidth(m, "Top") /\ p.bottom = ActiveWidth(m, "Bottom")
      BY ProfileFields
    <3> HIDE DEF p, q, m, c
    <3> QED BY <2>4, <3>1, <3>2 DEF Zones
  <2>6. /\ m.options.swipe_min_distance = c.options.swipe_min_distance
        /\ m.options.tap_min_duration = c.options.tap_min_duration
        /\ m.options.tap_max_duration = c.options.tap_max_duration
        /\ m.options.double_tap_timeout = c.options.double_tap_timeout
        /\ m.options.double_tap_max_distance = c.options.double_tap_max_distance
    <3>1. \A key \in Options \ {"edge_width"} : m.options[key] = Given(f, key)
      BY MadeFields
    <3>2. \A key \in Options : c.options[key] = Given(f, key)
      BY ParsedFields
    <3> HIDE DEF m, c
    <3> QED BY <3>1, <3>2, OptionNames
  <2>7. m.gestures = c.gestures /\ m.sliders = c.sliders
    BY MadeLists
  <2>8. /\ GestureZones(m, "DoubleTap") = GestureZones(c, "DoubleTap")
        /\ GestureZones(m, "Tap") = GestureZones(c, "Tap")
        /\ [z \in Zones |-> StepOf(m, z)] = [z \in Zones |-> StepOf(c, z)]
    <3>1. \A d : GestureZones(m, d) = GestureZones(c, d)
      <4> HIDE DEF m, c
      <4> QED BY <2>7 DEF GestureZones
    <3>2. \A z \in Zones : StepOf(m, z) = StepOf(c, z)
      <4> HIDE DEF m, c
      <4> QED BY <2>7 DEF StepOf
    <3> HIDE DEF m, c
    <3> QED BY <3>1, <3>2
  <2>9. /\ p.swipe_min_distance = q.swipe_min_distance
        /\ p.tap_min_duration = q.tap_min_duration /\ p.tap_max_duration = q.tap_max_duration
        /\ p.double_tap_timeout = q.double_tap_timeout
        /\ p.double_tap_max_distance = q.double_tap_max_distance
        /\ p.double_tap_zones = q.double_tap_zones
        /\ p.single_tap_zones = q.single_tap_zones /\ p.sliders = q.sliders
    <3>1. /\ p.swipe_min_distance = m.options.swipe_min_distance
          /\ p.tap_min_duration = m.options.tap_min_duration
          /\ p.tap_max_duration = m.options.tap_max_duration
          /\ p.double_tap_timeout = m.options.double_tap_timeout
          /\ p.double_tap_max_distance = m.options.double_tap_max_distance
          /\ p.double_tap_zones = GestureZones(m, "DoubleTap")
          /\ p.single_tap_zones = GestureZones(m, "Tap")
          /\ p.sliders = [z \in Zones |-> StepOf(m, z)]
      BY ProfileFields
    <3>2. /\ q.swipe_min_distance = c.options.swipe_min_distance
          /\ q.tap_min_duration = c.options.tap_min_duration
          /\ q.tap_max_duration = c.options.tap_max_duration
          /\ q.double_tap_timeout = c.options.double_tap_timeout
          /\ q.double_tap_max_distance = c.options.double_tap_max_distance
          /\ q.double_tap_zones = GestureZones(c, "DoubleTap")
          /\ q.single_tap_zones = GestureZones(c, "Tap")
          /\ q.sliders = [z \in Zones |-> StepOf(c, z)]
      BY ProfileFields
    <3> HIDE DEF p, q, m, c
    <3> QED BY <2>6, <2>8, <3>1, <3>2
  <2>10. o = Settled(p)
    <3> HIDE DEF p, q, o, m, c
    <3> QED BY <2>3, <2>5, <2>9 DEF Settled
  <2> QED BY <2>2, <2>10
<1> QED BY <1>1, <1>2

\* What one accepted file makes has the edges of its bindings.
LEMMA MadeEdges ==
  ASSUME NEW f, NEW w, Makes(f, w), NEW p, p = Profile(Made(f, w))
  PROVE  /\ ClaimingZones(p) = ZonesOf(f)
         /\ p.left + p.right < Span /\ p.top + p.bottom < Span
<1>1. Narrow(p) /\ \A z \in Zones : Width(p, z) > 0 <=> z \in ZonesOf(f)
  BY NarrowProfile
<1>2. ClaimingZones(p) = {z \in Zones : Width(p, z) > 0}
  BY <1>1, ClaimingZonesOf
<1>3. ZonesOf(f) \subseteq Zones
  BY ZonesOfAccepted DEF Makes
<1>4. ClaimingZones(p) = ZonesOf(f)
  BY <1>1, <1>2, <1>3
<1>5. p.left + p.right < Span /\ p.top + p.bottom < Span
  BY <1>1, NarrowFields
<1> QED BY <1>4, <1>5

\* Without a file, fingers are taken at all four edges.
LEMMA BuiltInEdges ==
  ASSUME NEW w \in Widths \cup {None}
  PROVE  ClaimingZones(OverrideProfile(BuiltInProfile, FALSE, w)) = Zones
<1> DEFINE p == OverrideProfile(BuiltInProfile, FALSE, w)
           d == IF w = None THEN Defaults.edge_width ELSE w
<1>1. d \in Nat /\ d > 0 /\ 2 * d < Span
  BY SettingsAssumption, DefaultsAssumption DEF WidthIsValid
<1>2. p.left = d /\ p.right = d /\ p.top = d /\ p.bottom = d
  <2>1. /\ BuiltInProfile.left = Defaults.edge_width /\ BuiltInProfile.right = Defaults.edge_width
        /\ BuiltInProfile.top = Defaults.edge_width /\ BuiltInProfile.bottom = Defaults.edge_width
        /\ {"left", "right", "top", "bottom"} \subseteq DOMAIN BuiltInProfile
    BY DEF BuiltInProfile, EngineSettings, Zones
  <2>2. CASE w = None
    BY <2>1, <2>2 DEF OverrideProfile
  <2>3. CASE w # None
    BY <2>1, <2>3 DEF OverrideProfile
  <2> QED BY <2>2, <2>3
<1> HIDE DEF p, d
<1>3. \A z \in Zones : Width(p, z) = d
  BY <1>2 DEF Width
<1>4. Narrow(p)
  BY <1>1, <1>3 DEF Narrow
<1>5. ClaimingZones(p) = {z \in Zones : Width(p, z) > 0}
  BY <1>4, ClaimingZonesOf
<1>6. ClaimingZones(p) = Zones
  BY <1>1, <1>3, <1>5
<1> QED BY <1>6 DEF p

\* What a file binds takes fingers at its edge, and nothing else does, however many
\* edits made the file and whatever --edge-width is; a profile and a configuration
\* that are overridden come to the same settings.
THEOREM EdgesAreBound == TSpec => []EdgesFollowBindings
<1>1. TInv => EdgesFollowBindings
  <2> SUFFICES ASSUME TInv PROVE EdgesFollowBindings
    OBVIOUS
  <2>1. width \in Widths \cup {None}
    BY DEF TInv
  <2>2. ClaimingZones(OverrideProfile(BuiltInProfile, FALSE, width)) = Zones
    BY <2>1, BuiltInEdges
  <2>3. ASSUME taken # NoConfig
        PROVE  Makes(source, width) /\ taken = Made(source, width)
    BY <2>1, <2>3 DEF TInv, TakenFrom, Makes, Made
  <2>4. ASSUME taken # NoConfig
        PROVE  /\ ClaimingZones(Profile(taken)) = ZonesOf(source)
               /\ Profile(taken).left + Profile(taken).right < Span
               /\ Profile(taken).top + Profile(taken).bottom < Span
               /\ Profile(taken) = OverrideProfile(Profile(Parsed(source)), TRUE, width)
    BY <2>3, <2>4, MadeEdges, OverridesAgree
  <2> QED BY <2>2, <2>4 DEF EdgesFollowBindings, ZonesOf
<1> QED BY <1>1, SettingsInvariant, PTL

LEMMA GesturesCanFire ==
  ASSUME NEW f, NEW w, Makes(f, w), NEW p, p = Profile(Made(f, w)),
         \A z \in BoundZones(Made(f, w)) : p.swipe_min_distance < ActiveWidth(Made(f, w), z),
         NEW i \in DOMAIN f.gestures
  PROVE  CanReport(p, f.gestures[i].zone, f.gestures[i].direction)
<1> DEFINE m == Made(f, w)
           z == f.gestures[i].zone
           d == f.gestures[i].direction
<1>1. GestureIsValid(f.gestures[i]) /\ ~HasConflict(f)
  BY DEF Makes, IsAccepted
<1>2. z \in Zones /\ d \in Directions \cup {"Tap", "DoubleTap"}
  BY <1>1 DEF GestureIsValid
<1>3. z \in ZonesOf(f)
  BY DEF ZonesOf
<1>4. /\ Narrow(p) /\ Width(p, z) > 0 /\ Width(p, z) = ActiveWidth(m, z)
  BY <1>2, <1>3, NarrowProfile
<1>5. p.swipe_min_distance < Width(p, z)
  <2>1. z \in BoundZones(m)
    BY <1>3, BoundZonesOf
  <2>2. p.swipe_min_distance < ActiveWidth(m, z)
    BY <2>1
  <2> HIDE DEF m, z
  <2> QED BY <2>2, <1>4
<1>6. /\ p.swipe_min_distance \in Nat \ {0}
      /\ p.tap_min_duration \in Nat /\ p.tap_max_duration \in Nat
      /\ p.tap_min_duration < p.tap_max_duration
      /\ p.double_tap_timeout \in Nat \ {0} /\ p.double_tap_max_distance \in Nat \ {0}
  BY ProfileNumbers
<1>7. /\ p.double_tap_zones = GestureZones(m, "DoubleTap")
      /\ p.single_tap_zones = GestureZones(m, "Tap")
      /\ p.sliders = [y \in Zones |-> StepOf(m, y)]
  BY ProfileFields
<1>8. z \in GestureZones(m, d)
  BY GestureZonesOf DEF Makes
<1>9. ASSUME d = "Tap"
      PROVE  CanTap(p, z)
  <2>1. z \in p.single_tap_zones
    BY <1>7, <1>8, <1>9
  <2> HIDE DEF z
  <2> QED BY <1>2, <1>4, <1>6, <2>1, TapsCanFire
<1>10. ASSUME d = "DoubleTap"
       PROVE  CanDoubleTap(p, z)
  <2>1. z \in p.double_tap_zones
    BY <1>7, <1>8, <1>10
  <2> HIDE DEF z
  <2> QED BY <1>2, <1>4, <1>6, <2>1, TapsCanFire
<1>11. ASSUME d \in Directions
       PROVE  CanSwipe(p, z, d)
  <2>1. \A j \in DOMAIN f.sliders : f.sliders[j].zone # z
    BY <1>1, <1>11 DEF HasConflict
  <2>2. StepOf(m, z) = 0
    BY <1>2, <2>1, StepsAreValid
  <2>3. p.sliders[z] = 0
    <3> HIDE DEF z, m
    <3> QED BY <1>2, <1>7, <2>2
  <2> HIDE DEF z, d
  <2> QED BY <1>2, <1>4, <1>5, <1>6, <1>11, <2>3, SwipesCanFire
<1> HIDE DEF z, d
<1>12. CanReport(p, z, d)
  BY <1>2, <1>9, <1>10, <1>11 DEF CanReport, Directions
<1> QED BY <1>12 DEF z, d

LEMMA SlidersCanFire ==
  ASSUME NEW f, NEW w, Makes(f, w), NEW p, p = Profile(Made(f, w)),
         NEW i \in DOMAIN f.sliders, NEW d \in Axis(f.sliders[i].zone)
  PROVE  /\ 2 * Made(f, w).sliders[i].step <= Span => CanStep(p, f.sliders[i].zone, d)
         /\ IsCommand(f.sliders[i].action[d])
<1> DEFINE m == Made(f, w)
           z == f.sliders[i].zone
<1>1. SliderIsValid(f.sliders[i])
  BY DEF Makes, IsAccepted
<1>2. z \in Zones /\ IsCommand(f.sliders[i].action[d])
  BY <1>1 DEF SliderIsValid
<1>3. z \in ZonesOf(f)
  BY DEF ZonesOf
<1>4. Narrow(p) /\ Width(p, z) > 0
  BY <1>2, <1>3, NarrowProfile
<1>5. p.sliders = [y \in Zones |-> StepOf(m, y)]
  BY ProfileFields
<1>6. StepOf(m, z) = m.sliders[i].step
  BY SliderIsFound
<1>7. m.sliders[i].step \in Nat \ {0}
  BY StepsAreValid
<1>8. p.sliders[z] = m.sliders[i].step
  <2> HIDE DEF m, z
  <2> QED BY <1>2, <1>5, <1>6
<1>9. ASSUME 2 * m.sliders[i].step <= Span
      PROVE  CanStep(p, z, d)
  <2> HIDE DEF m
  <2> QED BY <1>2, <1>4, <1>7, <1>8, <1>9, StepsCanFire
<1> QED BY <1>2, <1>9

\* Whatever file was accepted, the engine takes its settings, and every gesture and
\* both ways of every slider in it can be made at its edge and run what was bound.
THEOREM BindingsFire == TSpec => []BindingsCanFire
<1>1. TInv => BindingsCanFire
  <2> SUFFICES ASSUME TInv, taken # NoConfig PROVE BindingsCanFire
    BY DEF BindingsCanFire
  <2> DEFINE p == Profile(taken)
  <2>1. Makes(source, width) /\ taken = Made(source, width)
    BY DEF TInv, TakenFrom, Makes, Made
  <2>2. EngineAccepts(p)
    BY <2>1, AcceptedByEngine
  <2>3. ASSUME NEW i \in DOMAIN source.gestures
        PROVE  /\ (\A z \in BoundZones(taken) : p.swipe_min_distance < ActiveWidth(taken, z))
                    => CanReport(p, source.gestures[i].zone, source.gestures[i].direction)
               /\ GestureAction(taken, source.gestures[i].zone, source.gestures[i].direction)
                    = source.gestures[i].action
    BY <2>1, GesturesCanFire, GestureIsFound
  <2>4. ASSUME NEW i \in DOMAIN source.sliders, NEW d \in Axis(source.sliders[i].zone)
        PROVE  /\ 2 * taken.sliders[i].step <= Span => CanStep(p, source.sliders[i].zone, d)
               /\ SliderAction(taken, source.sliders[i].zone, d) = source.sliders[i].action[d]
               /\ IsCommand(source.sliders[i].action[d])
    BY <2>1, SlidersCanFire, SliderIsFound
  <2> QED BY <2>2, <2>3, <2>4 DEF BindingsCanFire
<1> QED BY <1>1, SettingsInvariant, PTL

-----------------------------------------------------------------------------
(* The system, as doctor, status and the daemon see it.                    *)

NodeState ==
  [present : BOOLEAN, open : BOOLEAN, mt : BOOLEAN, direct : BOOLEAN,
   pointer : BOOLEAN, own : BOOLEAN]

\* Every node is one, and the daemon's own touchpad is known for what it is.
NodesInv ==
  /\ nodes \in [Numbers \cup {Own} -> NodeState]
  /\ nodes[Own].present => nodes[Own].own

\* The touchpad a daemon reads can be opened as long as nothing has changed.
ReadyInv ==
  untouched =>
    /\ service = "active" /\ settings.state = "bound" /\ uinput
    /\ CanOpen(nodes, Resolve(settings.device, nodes).path)

Consistent ==
  /\ NodesInv /\ ReadyInv
  /\ uinput \in BOOLEAN /\ settings \in Contents
  /\ manager \in {"answers", "refuses", "missing"}
  /\ service \in {"not-found", "inactive", "activating", "failed", "active"}
  /\ untouched \in BOOLEAN

-----------------------------------------------------------------------------
(* Discovery.                                                              *)

\* There is a number left for the daemon's own touchpad.
LEMMA OwnIsNew == Own \in Nat /\ Own \notin Numbers
<1> DEFINE card == Cardinality(Numbers)
           span == 0..card
<1>1. card \in Nat /\ IsFiniteSet(Numbers)
  BY NumbersAssumption, FS_CardinalityType
<1>2. IsFiniteSet(span) /\ Cardinality(span) = card + 1
  <2> HIDE DEF card
  <2> QED BY <1>1, FS_Interval DEF span
<1>3. \E n \in span : n \notin Numbers
  <2> SUFFICES ASSUME span \subseteq Numbers PROVE FALSE
    OBVIOUS
  <2>1. Cardinality(span) <= card
    <3> HIDE DEF span
    <3> QED BY <1>1, FS_Subset
  <2> HIDE DEF card, span
  <2> QED BY <1>1, <1>2, <2>1
<1>4. Own \in span /\ Own \notin Numbers
  BY <1>3 DEF Own
<1> HIDE DEF card
<1> QED BY <1>1, <1>4

LEMMA ContentsFields ==
  ASSUME settings \in Contents
  PROVE  /\ settings.device \in Devices
         /\ settings.state \in {"missing", "not a file", "invalid", "unbound", "bound"}
BY DEF Contents, Devices

\* Candidates are nodes that can be opened, and none is the daemon's own.
LEMMA CandidateView ==
  ASSUME NEW ns, NEW n \in TouchpadCandidates(ns)
  PROVE  /\ n \in DOMAIN ns /\ n \in EventNodes(ns) /\ n \in Summaries(ns)
         /\ CanOpen(ns, n) /\ ns[n].mt /\ ~ns[n].own
BY DEF TouchpadCandidates, Summaries, EventNodes, ClassifyDevice, CanOpen

\* A device is resolved exactly if there is one candidate.
LEMMA ResolveAutoView ==
  ASSUME NEW ns, IsFiniteSet(TouchpadCandidates(ns)), DOMAIN ns \subseteq Nat
  PROVE  /\ ResolveAuto(ns).error = "none" <=> ResolveAuto(ns).path # NoDevice
         /\ ResolveAuto(ns).path # NoDevice =>
              TouchpadCandidates(ns) = {ResolveAuto(ns).path}
         /\ \A n : TouchpadCandidates(ns) = {n} => ResolveAuto(ns).path = n
<1> DEFINE found == TouchpadCandidates(ns)
<1>1. Cardinality(found) \in Nat
  BY FS_CardinalityType
<1>2. Cardinality(found) = 1 <=> \E n : found = {n}
  BY FS_Singleton
<1>3. \A n \in found : n \in Nat /\ n # NoDevice
  BY CandidateView DEF NoDevice
<1>4. CASE EventNodes(ns) = {} \/ Summaries(ns) = {}
  <2>1. found = {}
    BY <1>4, CandidateView
  <2>2. ResolveAuto(ns).path = NoDevice /\ ResolveAuto(ns).error # "none"
    BY <1>4 DEF ResolveAuto
  <2> QED BY <2>1, <2>2
<1>5. CASE EventNodes(ns) # {} /\ Summaries(ns) # {}
  <2>1. CASE Cardinality(found) = 1
    <3>1. PICK n : found = {n}
      BY <1>2, <2>1
    <3>2. (CHOOSE m \in found : TRUE) = n
      BY <3>1
    <3>3. ResolveAuto(ns).path = n /\ ResolveAuto(ns).error = "none"
      <4>1. ResolveAuto(ns) = [path |-> CHOOSE m \in found : TRUE, error |-> "none"]
        BY <1>5, <2>1 DEF ResolveAuto
      <4> HIDE DEF found
      <4> QED BY <3>2, <4>1
    <3> QED BY <1>3, <3>1, <3>3
  <2>2. CASE Cardinality(found) # 1
    <3>1. ResolveAuto(ns).path = NoDevice /\ ResolveAuto(ns).error # "none"
      <4> HIDE DEF found
      <4>1. Cardinality(found) = 0 \/ Cardinality(found) > 1
        BY <1>1, <2>2
      <4> QED BY <1>1, <1>5, <2>2, <4>1 DEF ResolveAuto, found
    <3> QED BY <1>2, <2>2, <3>1
  <2> QED BY <2>1, <2>2
<1> QED BY <1>4, <1>5

\* What resolving the device of the file, or of --device, comes to.
LEMMA Discovery ==
  ASSUME NodesInv, NEW device \in Devices
  PROVE  LET found == Resolve(device, nodes)
         IN /\ device # AutoDevice => found.path = device /\ found.error = "none"
            /\ found.error = "none" <=> found.path # NoDevice
            /\ device = AutoDevice /\ found.path # NoDevice =>
                 CanOpen(nodes, found.path) /\ nodes[found.path].mt
            /\ ~CanOpen(nodes, NoDevice)
<1>1. DOMAIN nodes = Numbers \cup {Own} /\ DOMAIN nodes \subseteq Nat
  BY OwnIsNew, NumbersAssumption DEF NodesInv
<1>2. ~CanOpen(nodes, NoDevice)
  BY <1>1 DEF CanOpen, NoDevice
<1>3. CASE device # AutoDevice
  <2>1. device # NoDevice
    BY <1>3, NumbersAssumption DEF Devices, NoDevice
  <2> QED BY <1>2, <1>3, <2>1 DEF Resolve
<1>4. CASE device = AutoDevice
  <2>1. IsFiniteSet(TouchpadCandidates(nodes))
    <3>1. IsFiniteSet(Numbers \cup {Own})
      BY NumbersAssumption, FS_AddElement
    <3>2. TouchpadCandidates(nodes) \subseteq Numbers \cup {Own}
      BY <1>1, CandidateView
    <3> QED BY <3>1, <3>2, FS_Subset
  <2> DEFINE found == ResolveAuto(nodes)
  <2>2. /\ found.error = "none" <=> found.path # NoDevice
        /\ found.path # NoDevice => TouchpadCandidates(nodes) = {found.path}
    BY <1>1, <2>1, ResolveAutoView
  <2>3. Resolve(device, nodes) = found
    BY <1>4 DEF Resolve
  <2> HIDE DEF found
  <2>4. found.path # NoDevice => CanOpen(nodes, found.path) /\ nodes[found.path].mt
    BY <2>2, CandidateView
  <2> QED BY <1>2, <1>4, <2>2, <2>3, <2>4
<1> QED BY <1>3, <1>4

\* The three copies of the choice come to the same: doctor selects what the
\* daemon resolves, and status, which opens nothing again, is content exactly if
\* that can be opened.
LEMMA CopiesCoincide ==
  ASSUME NodesInv
  PROVE  /\ AutoSelection(nodes) = ResolveAuto(nodes).path
         /\ AutoLineIsOk(nodes) <=> CanOpen(nodes, ResolveAuto(nodes).path)
<1> DEFINE found == TouchpadCandidates(nodes)
           path == ResolveAuto(nodes).path
<1>1. DOMAIN nodes = Numbers \cup {Own} /\ DOMAIN nodes \subseteq Nat
  BY OwnIsNew, NumbersAssumption DEF NodesInv
<1>2. IsFiniteSet(found)
  <2>1. IsFiniteSet(Numbers \cup {Own})
    BY NumbersAssumption, FS_AddElement
  <2>2. found \subseteq Numbers \cup {Own}
    BY <1>1, CandidateView
  <2> QED BY <2>1, <2>2, FS_Subset
<1>3. Cardinality(found) = 1 <=> \E n : found = {n}
  BY <1>2, FS_Singleton
<1>4. /\ path # NoDevice => found = {path}
      /\ \A n : found = {n} => path = n
  BY <1>1, <1>2, ResolveAutoView
<1>5. \A n \in found : n # NoDevice /\ CanOpen(nodes, n)
  BY <1>1, CandidateView DEF NoDevice
<1>6. ~CanOpen(nodes, NoDevice)
  BY <1>1 DEF CanOpen, NoDevice
<1>7. AutoSelection(nodes) = IF Cardinality(found) = 1 THEN CHOOSE n \in found : TRUE ELSE NoDevice
  BY DEF AutoSelection
<1>8. AutoLineIsOk(nodes) <=> Cardinality(found) = 1
  BY DEF AutoLineIsOk
<1> HIDE DEF found, path
<1>9. CASE Cardinality(found) = 1
  <2>1. PICK n : found = {n}
    BY <1>3, <1>9
  <2>2. (CHOOSE m \in found : TRUE) = n
    BY <2>1
  <2> QED BY <1>4, <1>5, <1>7, <1>8, <1>9, <2>1, <2>2 DEF path
<1>10. CASE Cardinality(found) # 1
  <2>1. path = NoDevice
    BY <1>3, <1>4, <1>10
  <2> QED BY <1>6, <1>7, <1>8, <1>10, <2>1 DEF path
<1> QED BY <1>9, <1>10

\* doctor looks at the device that a daemon with the same --device resolves.
LEMMA PathIsResolved ==
  ASSUME NodesInv, NEW override
  PROVE  TouchpadPath(override) = Resolve(SelectedDevice(override), nodes).path
BY CopiesCoincide DEF TouchpadPath, Resolve

-----------------------------------------------------------------------------
(* The checks.                                                             *)

LEMMA FailuresOfBoth ==
  ASSUME NEW checks, NEW others
  PROVE  Failures(checks \cup others) = Failures(checks) \cup Failures(others)
BY DEF Failures

\* The section Config fails exactly if there is nothing a daemon could use.
LEMMA ConfigFailures ==
  ASSUME settings \in Contents, NEW override
  PROVE  /\ Failures(ConfigChecks(override)) = {} <=> settings.state = "bound"
         /\ \A c \in Failures(ConfigChecks(override)) : c.label # "uinput"
<1> DEFINE there == settings.state \notin {"missing", "not a file"}
           path == Ok("Config", "path", there)
           content == Ok("Config", "file", IsLoaded)
           bindings == Ok("Config", "bindings", settings.state = "bound")
           device == Check("Config", "device",
                           IF override = NoDevice /\ IsLoaded THEN "Ok" ELSE "Warn")
<1>1. \A c : c \in ConfigChecks(override) <=>
        c = path \/ (there /\ c = content) \/ (IsLoaded /\ c = bindings) \/ c = device
  BY DEF ConfigChecks
<1>2. /\ path.status = "Fail" <=> ~there
      /\ content.status = "Fail" <=> ~IsLoaded
      /\ bindings.status = "Fail" <=> settings.state # "bound"
      /\ device.status # "Fail"
      /\ "uinput" \notin {path.label, content.label, bindings.label, device.label}
  BY DEF Ok, Check
<1>3. /\ IsLoaded => there
      /\ settings.state = "bound" => IsLoaded
  BY DEF IsLoaded
<1> HIDE DEF there, path, content, bindings, device
<1>4. \A c : c \in Failures(ConfigChecks(override)) <=>
        \/ ~there /\ c = path
        \/ there /\ ~IsLoaded /\ c = content
        \/ IsLoaded /\ settings.state # "bound" /\ c = bindings
  BY <1>1, <1>2 DEF Failures
<1> QED BY <1>2, <1>3, <1>4

\* The section Device fails exactly if the touchpad or /dev/uinput cannot be
\* opened.
LEMMA DeviceFailures ==
  ASSUME Consistent, NEW override \in Overrides
  PROVE  LET opens == CanOpen(nodes, TouchpadPath(override))
             failed == Failures(DeviceChecks(override))
         IN /\ failed = {} <=> opens /\ uinput
            /\ (\E c \in failed : c.label # "uinput") <=> ~opens
<1> DEFINE device == SelectedDevice(override)
           path == TouchpadPath(override)
           opens == CanOpen(nodes, path)
           touchpad == IF device # AutoDevice THEN Check("Device", "touchpad", "Warn")
                       ELSE Ok("Device", "touchpad", path # NoDevice)
           input == Ok("Device", "input", opens)
           output == Ok("Device", "uinput", uinput)
<1>1. device \in Devices
  BY ContentsFields DEF Consistent, SelectedDevice, Overrides, Devices
<1>2. path = Resolve(device, nodes).path
  BY PathIsResolved DEF Consistent
<1>3. opens => path # NoDevice
  BY <1>1, Discovery DEF Consistent
<1>4. DeviceChecks(override) = {touchpad, input, output}
  BY DEF DeviceChecks
<1> HIDE DEF device, path
<1>5. opens \in BOOLEAN /\ uinput \in BOOLEAN
  BY DEF Consistent, CanOpen
<1> HIDE DEF opens
<1>6. /\ input.status = "Fail" <=> ~opens
      /\ output.status = "Fail" <=> ~uinput
      /\ touchpad.status = "Fail" => path = NoDevice
      /\ input.label # "uinput" /\ output.label = "uinput"
  BY <1>5 DEF Ok, Check
<1> HIDE DEF touchpad, input, output
<1>7. Failures(DeviceChecks(override)) = {c \in {touchpad, input, output} : c.status = "Fail"}
  BY <1>4 DEF Failures
<1>8. /\ Failures(DeviceChecks(override)) = {} <=> opens /\ uinput
      /\ (\E c \in Failures(DeviceChecks(override)) : c.label # "uinput") <=> ~opens
  BY <1>3, <1>6, <1>7
<1> QED BY <1>8 DEF opens, path

\* What the lines of status that fail are about.
LEMMA StatusFailures ==
  ASSUME NodesInv, NEW override
  PROVE  LET lines == StatusLines(override)
             opens == CanOpen(nodes, TouchpadPath(override))
         IN /\ Failures(lines) \ {ServiceLine} # {} <=>
                 ~(settings.state = "bound" /\ opens)
            /\ ServiceLine \in Failures(lines) <=>
                 manager = "answers" /\ service # "active"
            /\ (\E l \in lines : l.status = "Warn") <=> manager # "answers"
<1> DEFINE opens == CanOpen(nodes, TouchpadPath(override))
           config == Ok("Config", "Config", IsLoaded)
           device == DeviceLine(override)
           zones == Ok("Zones", "Zones", settings.state = "bound")
           actions == Ok("Actions", "Actions", settings.state = "bound")
           lines == StatusLines(override)
<1>1. \A l : l \in lines <=>
        \/ l = ServiceLine \/ l = config
        \/ IsLoaded /\ (l = device \/ l = zones \/ l = actions)
  BY DEF StatusLines
<1>2. IsLoaded => device = Ok("Device", "Device", opens)
  <2> DEFINE meant == IF override # NoDevice THEN override ELSE settings.device
  <2>1. IsLoaded => TouchpadPath(override)
                      = IF meant = AutoDevice THEN ResolveAuto(nodes).path ELSE meant
    BY CopiesCoincide DEF TouchpadPath, SelectedDevice
  <2>2. device = Ok("Device", "Device", IF meant = AutoDevice THEN AutoLineIsOk(nodes)
                                        ELSE CanOpen(nodes, meant))
    BY DEF DeviceLine
  <2>3. AutoLineIsOk(nodes) = CanOpen(nodes, ResolveAuto(nodes).path)
    <3>1. AutoLineIsOk(nodes) \in BOOLEAN /\ CanOpen(nodes, ResolveAuto(nodes).path) \in BOOLEAN
      BY DEF AutoLineIsOk, CanOpen
    <3> QED BY <3>1, CopiesCoincide
  <2> HIDE DEF meant, device
  <2>4. CASE meant = AutoDevice
    BY <2>1, <2>2, <2>3, <2>4
  <2>5. CASE meant # AutoDevice
    BY <2>1, <2>2, <2>5
  <2> QED BY <2>4, <2>5
<1> HIDE DEF device, lines
<1>3. opens \in BOOLEAN
  BY DEF CanOpen
<1> HIDE DEF opens
<1>4. /\ ServiceLine.label = "Service"
      /\ ServiceLine.status = "Fail" <=> manager = "answers" /\ service # "active"
      /\ ServiceLine.status = "Warn" <=> manager # "answers"
  BY DEF ServiceLine, Check
<1>5. /\ config.label = "Config" /\ zones.label = "Zones" /\ actions.label = "Actions"
      /\ config.status = IF IsLoaded THEN "Ok" ELSE "Fail"
      /\ zones.status = IF settings.state = "bound" THEN "Ok" ELSE "Fail"
      /\ actions.status = zones.status
  BY DEF Ok, Check
<1>6. IsLoaded => device.label = "Device" /\ device.status = IF opens THEN "Ok" ELSE "Fail"
  BY <1>2, <1>3 DEF Ok, Check
<1>7. settings.state = "bound" => IsLoaded
  BY DEF IsLoaded
<1> HIDE DEF config, zones, actions
<1>8. \A l : l \in Failures(lines) <=>
        \/ l = ServiceLine /\ manager = "answers" /\ service # "active"
        \/ l = config /\ ~IsLoaded
        \/ l = device /\ IsLoaded /\ ~opens
        \/ (l = zones \/ l = actions) /\ IsLoaded /\ settings.state # "bound"
  BY <1>1, <1>4, <1>5, <1>6 DEF Failures
<1>9. ServiceLine # config /\ ServiceLine # zones /\ (IsLoaded => ServiceLine # device)
  BY <1>4, <1>5, <1>6
<1>10. Failures(lines) \ {ServiceLine} # {} <=> ~(settings.state = "bound" /\ opens)
  BY <1>7, <1>8, <1>9
<1>11. ServiceLine \in Failures(lines) <=> manager = "answers" /\ service # "active"
  BY <1>4, <1>5, <1>6, <1>8, <1>9
<1>12. (\E l \in lines : l.status = "Warn") <=> manager # "answers"
  BY <1>1, <1>4, <1>5, <1>6
<1> QED BY <1>10, <1>11, <1>12 DEF lines, opens

-----------------------------------------------------------------------------
(* The invariant.                                                          *)

LEMMA NodeType ==
  /\ Absent \in NodeState /\ ~Absent.present
  /\ \A open \in BOOLEAN : Node(OwnPad, open) \in NodeState /\ Node(OwnPad, open).own
  /\ \A kind \in NodeKinds, open \in BOOLEAN : Node(kind, open) \in NodeState
BY KindsAssumption DEF Absent, Node, OwnPad, NodeState

LEMMA InitConsistent == GInit => Consistent
<1> SUFFICES ASSUME GInit PROVE Consistent
  OBVIOUS
<1>1. NodesInv
  <2>1. nodes = [n \in Numbers \cup {Own} |-> Absent]
    BY DEF GInit
  <2> QED BY <2>1, NodeType DEF NodesInv
<1>2. settings \in Contents
  BY DEF GInit, Contents
<1> QED BY <1>1, <1>2 DEF GInit, Consistent, ReadyInv

\* A pad of the daemon's own changes nothing of what it reads.
LEMMA OwnPadIsIgnored ==
  ASSUME NodesInv, NEW device \in Devices, NEW pad \in NodeState, pad.own,
         Resolve(device, nodes).error = "none",
         CanOpen(nodes, Resolve(device, nodes).path)
  PROVE  LET more == [nodes EXCEPT ![Own] = pad]
         IN CanOpen(more, Resolve(device, more).path)
<1> DEFINE more == [nodes EXCEPT ![Own] = pad]
           path == Resolve(device, nodes).path
<1>1. /\ DOMAIN nodes = Numbers \cup {Own} /\ DOMAIN nodes \subseteq Nat
      /\ DOMAIN more = DOMAIN nodes /\ more[Own] = pad
      /\ \A n \in Numbers : more[n] = nodes[n]
  BY OwnIsNew, NumbersAssumption DEF NodesInv
<1>2. nodes[Own].present => nodes[Own].own
  BY DEF NodesInv
<1> HIDE DEF more
<1>3. TouchpadCandidates(more) = TouchpadCandidates(nodes)
  BY <1>1, <1>2 DEF TouchpadCandidates, Summaries, EventNodes
<1>4. CASE device # AutoDevice
  <2>1. Resolve(device, more).path = device /\ path = device
    BY <1>4 DEF Resolve
  <2>2. device \in Numbers
    BY <1>4 DEF Devices
  <2>3. CanOpen(nodes, device)
    BY <2>1
  <2>4. CanOpen(more, device)
    BY <1>1, <2>2, <2>3 DEF CanOpen
  <2> QED BY <2>1, <2>4 DEF more
<1>5. CASE device = AutoDevice
  <2> HIDE DEF path
  <2>1. IsFiniteSet(TouchpadCandidates(nodes))
    <3>1. IsFiniteSet(Numbers \cup {Own})
      BY NumbersAssumption, FS_AddElement
    <3>2. TouchpadCandidates(nodes) \subseteq Numbers \cup {Own}
      BY <1>1, CandidateView
    <3> QED BY <3>1, <3>2, FS_Subset
  <2>2. TouchpadCandidates(nodes) = {path}
    BY <1>1, <1>5, <2>1, ResolveAutoView DEF Resolve, path
  <2>3. ResolveAuto(more).path = path
    BY <1>1, <1>3, <2>1, <2>2, ResolveAutoView
  <2>4. CanOpen(more, path)
    BY <1>3, <2>2, CandidateView
  <2> QED BY <1>5, <2>3, <2>4 DEF Resolve, more
<1> QED BY <1>4, <1>5

LEMMA StepConsistent == Consistent /\ [GNext]_gvars => Consistent'
<1> SUFFICES ASSUME Consistent, [GNext]_gvars PROVE Consistent'
  OBVIOUS
<1> USE DEF Consistent
<1>1. CASE Install
  BY <1>1 DEF Install, NodesInv, ReadyInv
<1>2. CASE Start
  <2> DEFINE device == settings.device
             error == StartError(nodes, uinput)
  <2>1. CASE error = "none"
    <3>1. PICK open \in BOOLEAN : nodes' = [nodes EXCEPT ![Own] = Node(OwnPad, open)]
      BY <1>2, <2>1 DEF Start
    <3>2. /\ service' = "active" /\ untouched' = TRUE
          /\ uinput' = uinput /\ settings' = settings /\ manager' = manager
      BY <1>2, <2>1 DEF Start
    <3>3. /\ settings.state = "bound" /\ uinput
          /\ Resolve(device, nodes).error = "none"
          /\ CanOpen(nodes, Resolve(device, nodes).path)
      BY <2>1 DEF StartError
    <3>4. device \in Devices
      BY ContentsFields
    <3>5. Node(OwnPad, open) \in NodeState /\ Node(OwnPad, open).own
      BY NodeType
    <3>6. CanOpen(nodes', Resolve(device, nodes').path)
      <4> HIDE DEF device
      <4> QED BY <3>1, <3>3, <3>4, <3>5, OwnPadIsIgnored
    <3>7. NodesInv'
      BY <3>1, <3>5 DEF NodesInv
    <3> QED BY <3>2, <3>3, <3>6, <3>7 DEF ReadyInv
  <2>2. CASE error # "none"
    BY <1>2, <2>2 DEF Start, NodesInv, ReadyInv
  <2> QED BY <2>1, <2>2
<1>3. CASE Stop
  <2>1. NodesInv'
    BY <1>3, NodeType DEF Stop, NodesInv
  <2> QED BY <1>3, <2>1 DEF Stop, ReadyInv
<1>4. CASE ChangeDevices
  <2>1. NodesInv' /\ uinput' \in BOOLEAN
    <3>1. ASSUME NEW n \in Numbers, NEW node \in NodeState,
                 nodes' = [nodes EXCEPT ![n] = node]
          PROVE  NodesInv'
      BY <3>1, OwnIsNew DEF NodesInv
    <3>2. CASE uinput' = ~uinput /\ UNCHANGED nodes
      BY <3>2 DEF NodesInv
    <3> QED BY <1>4, <3>1, <3>2, NodeType DEF ChangeDevices
  <2> QED BY <1>4, <2>1 DEF ChangeDevices, ReadyInv
<1>5. CASE EditFile
  BY <1>5 DEF EditFile, NodesInv, ReadyInv
<1>6. CASE UNCHANGED gvars
  BY <1>6 DEF gvars, NodesInv, ReadyInv
<1> QED BY <1>1, <1>2, <1>3, <1>4, <1>5, <1>6 DEF GNext

\* Whatever is plugged in, edited, started and stopped, the devices are known
\* for what they are, and a daemon that is left alone can read its touchpad.
THEOREM StaysConsistent == GSpec => []Consistent
BY InitConsistent, StepConsistent, PTL DEF GSpec

-----------------------------------------------------------------------------
(* What doctor, status and the daemon say.                                 *)

\* The device that is meant, for doctor, status and, without --device, the
\* daemon.
LEMMA SameDevice ==
  ASSUME settings \in Contents, NEW override \in Overrides
  PROVE  /\ SelectedDevice(override) \in Devices
         /\ settings.state = "bound" => SelectedDevice(NoDevice) = settings.device
         /\ settings.device \in Devices
BY ContentsFields DEF SelectedDevice, Overrides, Devices, IsLoaded

\* doctor has no failure in its sections Config and Device exactly where a
\* daemon could start (run_doctor; DaemonOptions::load and the startup), but
\* for a device given by its path that is no touchpad.
THEOREM DoctorIsRight == GSpec => []DoctorForeseesStart
<1>1. Consistent => DoctorForeseesStart
  <2> SUFFICES ASSUME Consistent PROVE DoctorForeseesStart
    OBVIOUS
  <2> DEFINE found == Resolve(settings.device, nodes)
             opens == CanOpen(nodes, TouchpadPath(NoDevice))
             failed == Failures(ConfigChecks(NoDevice) \cup DeviceChecks(NoDevice))
             error == StartError(nodes, uinput)
  <2>1. NoDevice \in Overrides /\ settings \in Contents /\ NodesInv
    BY DEF Overrides, Consistent
  <2>2. failed = {} <=> settings.state = "bound" /\ opens /\ uinput
    <3>1. failed = Failures(ConfigChecks(NoDevice)) \cup Failures(DeviceChecks(NoDevice))
      BY FailuresOfBoth
    <3> QED BY <2>1, <3>1, ConfigFailures, DeviceFailures
  <2>3. settings.state = "bound" => TouchpadPath(NoDevice) = found.path
    BY <2>1, SameDevice, PathIsResolved
  <2>4. settings.device \in Devices
    BY <2>1, SameDevice
  <2>5. /\ settings.device # AutoDevice => found.path = settings.device /\ found.error = "none"
        /\ found.error = "none" <=> found.path # NoDevice
        /\ settings.device = AutoDevice /\ found.path # NoDevice =>
             CanOpen(nodes, found.path) /\ nodes[found.path].mt
        /\ ~CanOpen(nodes, NoDevice)
    BY <2>1, <2>4, Discovery
  <2>6. settings.state # "bound" => error # "none"
    BY DEF StartError
  <2>7. settings.state = "bound" =>
          (error = "none" <=> /\ found.error = "none" /\ CanOpen(nodes, found.path)
                              /\ nodes[found.path].mt /\ uinput)
    BY DEF StartError
  <2> HIDE DEF failed, error
  <2>8. ASSUME ~(settings.device \in Numbers /\ ~nodes[settings.device].mt)
        PROVE  failed = {} <=> error = "none"
    <3>1. CASE settings.state # "bound"
      BY <2>2, <2>6, <3>1
    <3>2. CASE settings.state = "bound"
      <4>1. opens = CanOpen(nodes, found.path)
        BY <2>3, <3>2
      <4> HIDE DEF opens, found
      <4>2. opens => found.error = "none" /\ nodes[found.path].mt
        BY <2>4, <2>5, <2>8, <4>1 DEF Devices
      <4> QED BY <2>2, <2>7, <3>2, <4>1, <4>2
    <3> QED BY <3>1, <3>2
  <2> QED BY <2>8 DEF DoctorForeseesStart, failed, error
<1> QED BY <1>1, StaysConsistent, PTL

\* The checks of a service that is not failed for status.
LEMMA ServiceFailures ==
  ASSUME manager = "answers" => service = "active"
  PROVE  Failures(ServiceChecks) \subseteq {Ok("Session", "systemd", manager = "answers")}
<1> DEFINE unit == Check("Service", "unit",
                     IF manager # "answers" THEN "Warn"
                     ELSE CASE service = "active" -> "Ok"
                            [] service \in {"not-found", "inactive", "failed"} -> "Fail"
                            [] service = "activating" -> "Warn")
<1>1. ServiceChecks = {Ok("Session", "systemd", manager = "answers"), unit}
  BY DEF ServiceChecks
<1>2. unit.status # "Fail"
  <2>1. CASE manager # "answers"
    BY <2>1 DEF Check
  <2>2. CASE manager = "answers"
    <3>1. service = "active"
      BY <2>2
    <3> QED BY <2>2, <3>1 DEF Check
  <2> QED BY <2>1, <2>2
<1> HIDE DEF unit
<1> QED BY <1>1, <1>2 DEF Failures

\* Whatever way access was given, no check of it fails.
LEMMA AccessFailures ==
  ASSUME NEW override, TouchpadPath(override) # NoDevice,
         CanOpen(nodes, TouchpadPath(override)), uinput,
         NEW tags \in {"yes", "no"}, NEW acl \in Answers, NEW seat \in Answers
  PROVE  Failures(AccessChecks(override, tags, acl, seat)) = {}
<1>1. GapStatus(CanOpen(nodes, TouchpadPath(override)) /\ uinput) = "Warn"
  BY DEF GapStatus
<1>2. PICK t \in {"Ok", "Warn"}, a \in {"Ok", "Warn"}, s \in {"Ok", "Warn"} :
        AccessChecks(override, tags, acl, seat)
          = {Check("Access", "udev tags", t), Check("Access", "acl", a),
             Check("Session", "seat", s)}
  <2> DEFINE tag == IF tags = "yes" THEN "Ok" ELSE "Warn"
             list == IF acl = "yes" THEN "Ok" ELSE "Warn"
             place == IF seat = "yes" THEN "Ok" ELSE "Warn"
  <2>1. AccessChecks(override, tags, acl, seat)
          = {Check("Access", "udev tags", tag), Check("Access", "acl", list),
             Check("Session", "seat", place)}
    BY <1>1 DEF AccessChecks, Answers
  <2> QED BY <2>1
<1>3. \A section, label : \A status \in {"Ok", "Warn"} :
        Check(section, label, status).status # "Fail"
  BY DEF Check
<1> QED BY <1>2, <1>3 DEF Failures

LEMMA CommandFailures ==
  ASSUME CanRun(settings.command, ShellPath)
  PROVE  Failures(CommandChecks) = {}
BY DEF CommandChecks, Failures, Check

\* status and doctor come to the same result, whatever --device they are given
\* (collect_status_report and run_doctor), and both see a daemon that runs.
THEOREM ReportsAreAlike == GSpec => []ReportsAgree
<1>1. ASSUME Consistent, NEW override \in Overrides
      PROVE  LET result == StatusResult(StatusLines(override))
                 failed == Failures(ConfigChecks(override) \cup DeviceChecks(override))
             IN /\ result = "Misconfigured" <=> \E c \in failed : c.label # "uinput"
                /\ ExitCode(result) = 0 =>
                     Failures(ServiceChecks) \subseteq {Ok("Session", "systemd", FALSE)}
  <2> DEFINE lines == StatusLines(override)
             result == StatusResult(lines)
             opens == CanOpen(nodes, TouchpadPath(override))
             failed == Failures(ConfigChecks(override) \cup DeviceChecks(override))
  <2>1. settings \in Contents /\ NodesInv
    BY <1>1 DEF Consistent
  <2>2. (\E c \in failed : c.label # "uinput") <=> ~(settings.state = "bound" /\ opens)
    <3>1. failed = Failures(ConfigChecks(override)) \cup Failures(DeviceChecks(override))
      BY FailuresOfBoth
    <3>2. /\ Failures(ConfigChecks(override)) = {} <=> settings.state = "bound"
          /\ \A c \in Failures(ConfigChecks(override)) : c.label # "uinput"
      BY <2>1, ConfigFailures
    <3>3. (\E c \in Failures(DeviceChecks(override)) : c.label # "uinput") <=> ~opens
      BY <1>1, DeviceFailures
    <3> HIDE DEF failed, opens
    <3> QED BY <3>1, <3>2, <3>3
  <2>3. /\ Failures(lines) \ {ServiceLine} # {} <=> ~(settings.state = "bound" /\ opens)
        /\ ServiceLine \in Failures(lines) <=> manager = "answers" /\ service # "active"
    BY <2>1, StatusFailures
  <2> HIDE DEF failed, lines, opens
  <2>4. result = "Misconfigured" <=> Failures(lines) \ {ServiceLine} # {}
    BY DEF StatusResult
  <2>5. ExitCode(result) = 0 => ServiceLine \notin Failures(lines)
    BY DEF StatusResult, ExitCode
  <2>6. ASSUME ExitCode(result) = 0
        PROVE  Failures(ServiceChecks) \subseteq {Ok("Session", "systemd", FALSE)}
    <3>1. manager = "answers" => service = "active"
      BY <2>3, <2>5, <2>6
    <3>2. Failures(ServiceChecks) \subseteq {Ok("Session", "systemd", manager = "answers")}
      BY <3>1, ServiceFailures
    <3>3. CASE manager = "answers"
      <4>1. Ok("Session", "systemd", manager = "answers").status = "Ok"
        BY <3>3 DEF Ok, Check
      <4>2. Failures(ServiceChecks) = {}
        BY <3>2, <4>1 DEF Failures
      <4> QED BY <4>2
    <3>4. CASE manager # "answers"
      <4>1. Ok("Session", "systemd", manager = "answers") = Ok("Session", "systemd", FALSE)
        BY <3>4 DEF Ok
      <4> QED BY <3>2, <4>1
    <3> QED BY <3>3, <3>4
  <2> QED BY <2>2, <2>3, <2>4, <2>6 DEF failed, lines, opens
<1>2. ASSUME Consistent, untouched, manager = "answers",
             CanRun(settings.command, ShellPath)
      PROVE  RunningIsReported
  <2>1. /\ service = "active" /\ settings.state = "bound" /\ uinput
        /\ CanOpen(nodes, Resolve(settings.device, nodes).path)
        /\ settings \in Contents /\ NodesInv /\ NoDevice \in Overrides
    BY <1>2 DEF Consistent, ReadyInv, Overrides
  <2>2. TouchpadPath(NoDevice) = Resolve(settings.device, nodes).path
    BY <2>1, SameDevice, PathIsResolved
  <2>3. CanOpen(nodes, TouchpadPath(NoDevice)) /\ TouchpadPath(NoDevice) # NoDevice
    <3>1. settings.device \in Devices /\ NodesInv
      BY <1>2, <2>1, SameDevice DEF Consistent
    <3> QED BY <2>1, <2>2, <3>1, Discovery
  <2>4. StatusResult(StatusLines(NoDevice)) = "Running"
    <3> DEFINE lines == StatusLines(NoDevice)
    <3>1. /\ Failures(lines) \ {ServiceLine} = {} /\ ServiceLine \notin Failures(lines)
          /\ ~\E l \in lines : l.status = "Warn"
      BY <1>2, <2>1, <2>3, StatusFailures
    <3> HIDE DEF lines
    <3>2. Failures(lines) = {}
      BY <3>1
    <3>3. StatusResult(lines) = "Running"
      BY <3>1, <3>2 DEF StatusResult
    <3> QED BY <3>3 DEF lines
  <2>5. ASSUME NEW tags \in {"yes", "no"}, NEW acl \in Answers, NEW seat \in Answers
        PROVE  Failures(Doctor(NoDevice, tags, acl, seat)) = {}
    <3>1. Failures(ConfigChecks(NoDevice)) = {} /\ Failures(DeviceChecks(NoDevice)) = {}
      BY <1>2, <2>1, <2>3, ConfigFailures, DeviceFailures
    <3>2. Failures(CommandChecks) = {}
      BY <1>2, CommandFailures
    <3>3. Failures(AccessChecks(NoDevice, tags, acl, seat)) = {}
      BY <2>1, <2>3, AccessFailures
    <3>4. Failures(ServiceChecks) = {}
      <4>1. Ok("Session", "systemd", manager = "answers").status = "Ok"
        BY <1>2 DEF Ok, Check
      <4>2. Failures(ServiceChecks) \subseteq {Ok("Session", "systemd", manager = "answers")}
        BY <2>1, ServiceFailures
      <4> QED BY <4>1, <4>2 DEF Failures
    <3>5. ASSUME NEW A, NEW B, Failures(A) = {}, Failures(B) = {}
          PROVE  Failures(A \cup B) = {}
      BY <3>5, FailuresOfBoth
    <3> DEFINE settled == ConfigChecks(NoDevice) \cup CommandChecks
               opened == settled \cup DeviceChecks(NoDevice)
               allowed == opened \cup AccessChecks(NoDevice, tags, acl, seat)
    <3>6. Failures(settled) = {}
      BY <3>1, <3>2, <3>5
    <3>7. Failures(opened) = {}
      <4> HIDE DEF settled
      <4> QED BY <3>1, <3>5, <3>6
    <3>8. Failures(allowed) = {}
      <4> HIDE DEF opened
      <4> QED BY <3>3, <3>5, <3>7
    <3>9. Failures(allowed \cup ServiceChecks) = {}
      <4> HIDE DEF allowed
      <4> QED BY <3>4, <3>5, <3>8
    <3> QED BY <3>9 DEF Doctor
  <2> QED BY <2>4, <2>5 DEF RunningIsReported
<1>3. Consistent => ReportsAgree
  BY <1>1, <1>2 DEF ReportsAgree
<1> QED BY <1>3, StaysConsistent, PTL

\* A node that comes, or can now be opened, takes no candidate away.
LEMMA MoreCandidates ==
  ASSUME NodesInv, NEW n \in Numbers, NEW k \in NodeKinds
  PROVE  LET more == [nodes EXCEPT ![n] = IF @.present THEN [@ EXCEPT !.open = TRUE]
                                                       ELSE Node(k, TRUE)]
         IN DOMAIN more = DOMAIN nodes /\ TouchpadCandidates(nodes) \subseteq TouchpadCandidates(more)
<1> DEFINE node == IF nodes[n].present THEN [nodes[n] EXCEPT !.open = TRUE] ELSE Node(k, TRUE)
           more == [nodes EXCEPT ![n] = node]
<1>1. /\ DOMAIN more = DOMAIN nodes /\ more[n] = node /\ nodes[n] \in NodeState
      /\ \A m \in DOMAIN nodes : m # n => more[m] = nodes[m]
  BY DEF NodesInv
<1>2. nodes[n].present => /\ node.present /\ node.open /\ node.mt = nodes[n].mt
                          /\ node.direct = nodes[n].direct /\ node.pointer = nodes[n].pointer
                          /\ node.own = nodes[n].own
  BY <1>1 DEF NodeState
<1> HIDE DEF node, more
<1>3. TouchpadCandidates(nodes) \subseteq TouchpadCandidates(more)
  <2> SUFFICES ASSUME NEW m \in TouchpadCandidates(nodes)
               PROVE  m \in TouchpadCandidates(more)
    OBVIOUS
  <2>1. CASE m # n
    <3>1. more[m] = nodes[m]
      BY <1>1, <2>1, CandidateView
    <3> QED BY <1>1, <3>1 DEF TouchpadCandidates, Summaries, EventNodes
  <2>2. CASE m = n
    BY <1>1, <1>2, <2>2 DEF TouchpadCandidates, Summaries, EventNodes, ClassifyDevice
  <2> QED BY <2>1, <2>2
<1> QED BY <1>1, <1>3 DEF more, node

\* A startup that is given up (should_retry) would not have been helped by
\* waiting for a device or a permission.
THEOREM GivingUpIsFinal == GSpec => []GivingUpIsRight
<1>1. Consistent => GivingUpIsRight
  <2> SUFFICES ASSUME Consistent, NEW n \in Numbers, NEW k \in NodeKinds,
                      StartError(nodes, uinput) # "none",
                      ~ShouldRetry(StartError(nodes, uinput))
               PROVE  StartError([nodes EXCEPT ![n] = IF @.present THEN [@ EXCEPT !.open = TRUE]
                                                                  ELSE Node(k, TRUE)], TRUE)
                        # "none"
    BY DEF GivingUpIsRight
  <2> DEFINE more == [nodes EXCEPT ![n] = IF @.present THEN [@ EXCEPT !.open = TRUE]
                                                       ELSE Node(k, TRUE)]
             device == settings.device
  <2>1. NodesInv /\ settings \in Contents /\ device \in Devices
    BY SameDevice DEF Consistent, Overrides
  <2>2. /\ DOMAIN more = DOMAIN nodes
        /\ TouchpadCandidates(nodes) \subseteq TouchpadCandidates(more)
    BY <2>1, MoreCandidates
  <2>3. StartError(nodes, uinput) \in {"configuration", "AmbiguousTouchpads"}
    BY DEF ShouldRetry
  <2> HIDE DEF more
  <2>4. CASE settings.state # "bound"
    BY <2>4 DEF StartError, more
  <2>5. CASE settings.state = "bound"
    <3>1. DOMAIN nodes \subseteq Nat /\ IsFiniteSet(DOMAIN nodes)
      BY <2>1, OwnIsNew, NumbersAssumption, FS_AddElement DEF NodesInv
    <3>2. /\ IsFiniteSet(TouchpadCandidates(nodes)) /\ IsFiniteSet(TouchpadCandidates(more))
      <4>1. /\ TouchpadCandidates(nodes) \subseteq DOMAIN nodes
            /\ TouchpadCandidates(more) \subseteq DOMAIN nodes
        BY <2>2, CandidateView
      <4> QED BY <3>1, <4>1, FS_Subset
    <3>3. Resolve(device, nodes).error = "AmbiguousTouchpads"
      <4>1. \/ StartError(nodes, uinput) = Resolve(device, nodes).error
            \/ StartError(nodes, uinput) \in
                 {"OpenDevice", "CapabilitiesUnavailable", "CreateVirtualDevice", "none"}
        BY <2>5 DEF StartError
      <4>2. StartError(nodes, uinput) = "AmbiguousTouchpads"
            \/ StartError(nodes, uinput) = "configuration"
        BY <2>3
      <4>3. Resolve(device, nodes).error # "configuration"
        <5>1. Cardinality(TouchpadCandidates(nodes)) \in Nat
          BY <3>2, FS_CardinalityType
        <5>2. ResolveAuto(nodes).error # "configuration"
          BY <5>1 DEF ResolveAuto
        <5> QED BY <5>2 DEF Resolve
      <4> HIDE DEF device
      <4> QED BY <4>1, <4>2, <4>3
    <3>4. device = AutoDevice
      BY <3>3 DEF Resolve
    <3>5. /\ Cardinality(TouchpadCandidates(nodes)) # 0
          /\ Cardinality(TouchpadCandidates(nodes)) # 1
      BY <3>3, <3>4 DEF Resolve, ResolveAuto
    <3>6. \A m : TouchpadCandidates(more) # {m}
      <4> SUFFICES ASSUME NEW m, TouchpadCandidates(more) = {m} PROVE FALSE
        OBVIOUS
      <4>1. TouchpadCandidates(nodes) = {} \/ TouchpadCandidates(nodes) = {m}
        BY <2>2
      <4> QED BY <3>5, <4>1, FS_EmptySet, FS_Singleton
    <3>7. ResolveAuto(more).error # "none"
      BY <2>2, <3>1, <3>2, <3>6, ResolveAutoView
    <3>8. StartError(more, TRUE) # "none"
      BY <2>5, <3>4, <3>7 DEF StartError, Resolve
    <3> QED BY <3>8 DEF more
  <2> QED BY <2>4, <2>5
<1> QED BY <1>1, StaysConsistent, PTL

=============================================================================
