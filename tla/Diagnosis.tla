------------------------------- MODULE Diagnosis -------------------------------
(***************************************************************************)
(* What edgepad doctor and edgepad status tell of a system, and what the   *)
(* daemon makes of it: device discovery (src/device.rs, config/device.rs), *)
(* the checks (src/doctor, src/status.rs) and a startup attempt, while     *)
(* devices, permissions, the file and the service change.                  *)
(*                                                                         *)
(* A report is taken at one moment.  Of a startup attempt only what a      *)
(* report could foresee is here; module Daemon has the rest.               *)
(***************************************************************************)
EXTENDS Integers, FiniteSets

CONSTANTS
  Numbers,     \* of the event nodes under /dev/input
  NodeKinds,   \* bound: what can be plugged in, as [mt, direct, pointer, own]
  Commands,    \* bound: what a binding can run: [path, dirs], or LogAction
  ShellPath    \* PATH of a user who runs doctor

ASSUME NumbersAssumption == Numbers \subseteq Nat /\ IsFiniteSet(Numbers)
ASSUME KindsAssumption ==
  NodeKinds \subseteq [mt : BOOLEAN, direct : BOOLEAN, pointer : BOOLEAN, own : BOOLEAN]

VARIABLES
  nodes,     \* event nodes: [present, open, mt, direct, pointer, own]
  uinput,    \* /dev/uinput can be opened
  settings,  \* the configuration file: [state, device, command]
  service,   \* systemd's state of the user service
  manager,   \* systemctl --user: "answers", "refuses" or "missing"
  running,   \* the daemon's touchpad, or NoDevice
  untouched  \* history: nothing was changed since the daemon is ready

gvars == <<nodes, uinput, settings, service, manager, running, untouched>>

NoDevice == -1
AutoDevice == -2
Own == CHOOSE n \in 0..Cardinality(Numbers) : n \notin Numbers  \* of the daemon's pad
Devices == Numbers \cup {AutoDevice}
LogAction == [path |-> "log", dirs |-> {}]

\* What can be at the file's path.  Only a valid file has a device, only one
\* with bindings a command; elsewhere the fields say nothing.
Contents ==
  [state : {"missing", "not a file", "invalid"}, device : {AutoDevice}, command : {LogAction}]
  \cup [state : {"unbound"}, device : Devices, command : {LogAction}]
  \cup [state : {"bound"}, device : Devices, command : Commands]

Absent ==
  [present |-> FALSE, open |-> FALSE, mt |-> FALSE, direct |-> FALSE,
   pointer |-> FALSE, own |-> FALSE]
Node(kind, open) ==
  [present |-> TRUE, open |-> open, mt |-> kind.mt, direct |-> kind.direct,
   pointer |-> kind.pointer, own |-> kind.own]

\* create_virtual_touchpad under DEFAULT_VIRTUAL_TOUCHPAD_NAME
OwnPad == [mt |-> TRUE, direct |-> FALSE, pointer |-> TRUE, own |-> TRUE]

-----------------------------------------------------------------------------
(* Discovery                                                               *)

ClassifyDevice(node) ==
  IF node.mt /\ node.direct THEN "Touchscreen"
  ELSE IF node.mt /\ node.pointer THEN "Touchpad" ELSE "Other"

EventNodes(ns) == {n \in DOMAIN ns : ns[n].present}
Summaries(ns) == {n \in EventNodes(ns) : ns[n].open}

TouchpadCandidates(ns) ==
  {n \in Summaries(ns) : ClassifyDevice(ns[n]) = "Touchpad" /\ ~ns[n].own}

\* resolve_auto_touchpad of the daemon: [path, error].  doctor and status have
\* copies of it, AutoSelection and AutoLineIsOk.
ResolveAuto(ns) ==
  LET found(n) == [path |-> n, error |-> "none"]
      failed(error) == [path |-> NoDevice, error |-> error]
  IN IF EventNodes(ns) = {} THEN failed("NoEventDevices")
     ELSE IF Summaries(ns) = {} THEN failed("NoReadableEventDevices")
     ELSE CASE Cardinality(TouchpadCandidates(ns)) = 0 -> failed("NoTouchpadCandidates")
            [] Cardinality(TouchpadCandidates(ns)) = 1 ->
                 found(CHOOSE n \in TouchpadCandidates(ns) : TRUE)
            [] Cardinality(TouchpadCandidates(ns)) > 1 -> failed("AmbiguousTouchpads")

\* DeviceConfig::resolve
Resolve(device, ns) ==
  IF device = AutoDevice THEN ResolveAuto(ns) ELSE [path |-> device, error |-> "none"]

CanOpen(ns, n) == n \in DOMAIN ns /\ ns[n].present /\ ns[n].open

-----------------------------------------------------------------------------
(* doctor                                                                  *)

Check(section, label, status) == [section |-> section, label |-> label, status |-> status]
Ok(section, label, holds) == Check(section, label, IF holds THEN "Ok" ELSE "Fail")

IsLoaded == settings.state \in {"unbound", "bound"}

\* select_device
SelectedDevice(override) ==
  IF override # NoDevice THEN override ELSE IF IsLoaded THEN settings.device ELSE AutoDevice

ConfigChecks(override) ==
  {Ok("Config", "path", settings.state \notin {"missing", "not a file"})}
  \cup (IF settings.state \in {"missing", "not a file"} THEN {}
        ELSE {Ok("Config", "file", IsLoaded)})
  \cup (IF IsLoaded THEN {Ok("Config", "bindings", settings.state = "bound")} ELSE {})
  \cup {Check("Config", "device", IF override = NoDevice /\ IsLoaded THEN "Ok" ELSE "Warn")}

\* action_executable_status.  "dirs" is where a bare name is installed, or where
\* a path is good: an absolute one everywhere.
CanRun(command, path) ==
  CASE command.path = "log" -> TRUE
    [] command.path = "bare" -> command.dirs \cap path # {}
    [] command.path \in {"absolute", "relative"} -> command.dirs # {}

\* command_check
CommandChecks ==
  IF settings.state # "bound" THEN {}
  ELSE {Check("Actions", "command",
              IF ~CanRun(settings.command, ShellPath) THEN "Fail"
              ELSE IF settings.command.path = "relative" THEN "Warn" ELSE "Ok")}

\* Mutant: of several touchpads one is taken.
FirstCandidate(ns) ==
  IF TouchpadCandidates(ns) = {} THEN NoDevice ELSE CHOOSE n \in TouchpadCandidates(ns) : TRUE

\* auto_selection, doctor's own copy of the choice: no node, none readable, no
\* touchpad and several are one failure here.
AutoSelection(ns) ==
  IF Cardinality(TouchpadCandidates(ns)) = 1
  THEN CHOOSE n \in TouchpadCandidates(ns) : TRUE ELSE NoDevice

TouchpadPath(override) ==
  LET device == SelectedDevice(override)
  IN IF device = AutoDevice THEN AutoSelection(nodes) ELSE device

DeviceChecks(override) ==
  LET device == SelectedDevice(override)
  IN {IF device # AutoDevice THEN Check("Device", "touchpad", "Warn")
      ELSE Ok("Device", "touchpad", TouchpadPath(override) # NoDevice),
      Ok("Device", "input", CanOpen(nodes, TouchpadPath(override))),
      Ok("Device", "uinput", uinput)}

\* access_model_gap_status: group membership can grant access without logind.
GapStatus(bothOpen) == IF bothOpen THEN "Warn" ELSE "Fail"

\* tags_check, acl_check and seat_check of what the other tools answer
AccessChecks(override, tags, acl, seat) ==
  LET none == TouchpadPath(override) = NoDevice
      gap == GapStatus(CanOpen(nodes, TouchpadPath(override)) /\ uinput)
      managed(answer, error) ==
        IF none THEN "Fail"
        ELSE CASE answer = "yes" -> "Ok" [] answer = "no" -> gap [] answer = "error" -> error
  IN {Check("Access", "udev tags", managed(tags, "Fail")),
      Check("Access", "acl", managed(acl, "Warn")),
      Check("Session", "seat", IF seat = "yes" THEN "Ok" ELSE gap)}

\* unit_check of observe_user_service, if check_systemd_user is content
ServiceChecks ==
  {Ok("Session", "systemd", manager = "answers"),
   Check("Service", "unit",
         IF manager # "answers" THEN "Warn"
         ELSE CASE service = "active" -> "Ok"
                [] service \in {"not-found", "inactive", "failed"} -> "Fail"
                [] service = "activating" -> "Warn")}

Doctor(override, tags, acl, seat) ==
  ConfigChecks(override) \cup CommandChecks \cup DeviceChecks(override)
  \cup AccessChecks(override, tags, acl, seat) \cup ServiceChecks

Failures(checks) == {c \in checks : c.status = "Fail"}

-----------------------------------------------------------------------------
(* status                                                                  *)

\* line_for_observation
ServiceLine ==
  Check("Service", "Service",
        IF manager # "answers" THEN "Warn" ELSE IF service = "active" THEN "Ok" ELSE "Fail")

\* Mutant: a touchpad among others will do.
HasCandidate(ns) == TouchpadCandidates(ns) # {}

\* auto_device_status_line, the third copy.  The touchpad was opened to list it
\* and is not opened again.
AutoLineIsOk(ns) == Cardinality(TouchpadCandidates(ns)) = 1

\* device_status_line.  An absent override is the file's device.
DeviceLine(override) ==
  LET device == IF override # NoDevice THEN override ELSE settings.device
  IN Ok("Device", "Device",
        IF device = AutoDevice THEN AutoLineIsOk(nodes) ELSE CanOpen(nodes, device))

StatusLines(override) ==
  {ServiceLine, Ok("Config", "Config", IsLoaded)}
  \cup (IF IsLoaded
        THEN {DeviceLine(override), Ok("Zones", "Zones", settings.state = "bound"),
              Ok("Actions", "Actions", settings.state = "bound")}
        ELSE {})

StatusResult(lines) ==
  IF Failures(lines) \ {ServiceLine} # {} THEN "Misconfigured"
  ELSE IF Failures(lines) # {} THEN "NotRunning"
  ELSE IF \E l \in lines : l.status = "Warn" THEN "NeedsAttention" ELSE "Running"

ExitCode(result) == IF result \in {"Running", "NeedsAttention"} THEN 0 ELSE 2

-----------------------------------------------------------------------------
(* The daemon                                                              *)

\* DaemonOptions::load, Resolve, open_proxy_device and the virtual touchpad
StartError(ns, canCreate) ==
  LET found == Resolve(settings.device, ns)
  IN IF settings.state # "bound" THEN "configuration"
     ELSE IF found.error # "none" THEN found.error
     ELSE IF ~CanOpen(ns, found.path) THEN "OpenDevice"
     ELSE IF ~ns[found.path].mt THEN "CapabilitiesUnavailable"
     ELSE IF ~canCreate THEN "CreateVirtualDevice" ELSE "none"

\* Mutant: only a missing device is waited for, not its permissions.
RetryDiscovery(error) == error \in {"NoEventDevices", "NoTouchpadCandidates"}

\* DaemonStartupError::should_retry
ShouldRetry(error) == error \notin {"none", "configuration", "AmbiguousTouchpads"}

GInit ==
  /\ nodes = [n \in Numbers \cup {Own} |-> Absent]
  /\ uinput = FALSE
  /\ settings = [state |-> "missing", device |-> AutoDevice, command |-> LogAction]
  /\ service = "not-found" /\ manager \in {"answers", "refuses", "missing"}
  /\ running = NoDevice /\ untouched = FALSE

Install ==
  /\ service = "not-found"
  /\ service' = "inactive"
  /\ UNCHANGED <<nodes, uinput, settings, manager, running, untouched>>

\* One attempt.  Its pad can be readable for the user, or not.
Start ==
  /\ service \in {"inactive", "activating", "failed"}
  /\ LET error == StartError(nodes, uinput)
     IN IF error = "none"
        THEN /\ \E open \in BOOLEAN : nodes' = [nodes EXCEPT ![Own] = Node(OwnPad, open)]
             /\ running' = Resolve(settings.device, nodes).path
             /\ service' = "active" /\ untouched' = TRUE
        ELSE /\ service' \in {"failed"} \cup (IF ShouldRetry(error) THEN {"activating"} ELSE {})
             /\ UNCHANGED <<nodes, running, untouched>>
  /\ UNCHANGED <<uinput, settings, manager>>

\* The daemon ends, and its pad with it.
Stop ==
  /\ service \in {"active", "activating"}
  /\ service' \in {"inactive", "failed"}
  /\ nodes' = [nodes EXCEPT ![Own] = Absent]
  /\ running' = NoDevice /\ untouched' = FALSE
  /\ UNCHANGED <<uinput, settings, manager>>

\* Devices come and go, and udev gives or takes permissions.
ChangeDevices ==
  /\ \/ \E n \in Numbers : \E node \in {Absent} \cup {Node(k, o) : k \in NodeKinds, o \in BOOLEAN} :
          nodes' = [nodes EXCEPT ![n] = node] /\ UNCHANGED uinput
     \/ uinput' = ~uinput /\ UNCHANGED nodes
  /\ untouched' = FALSE
  /\ UNCHANGED <<settings, service, manager, running>>

EditFile ==
  /\ settings' \in Contents
  /\ untouched' = FALSE
  /\ UNCHANGED <<nodes, uinput, service, manager, running>>

GNext == Install \/ Start \/ Stop \/ ChangeDevices \/ EditFile

GSpec == GInit /\ [][GNext]_gvars

-----------------------------------------------------------------------------
(* Properties                                                              *)

Overrides == Devices \cup {NoDevice}
Answers == {"yes", "no", "error"}

\* doctor has no failure in its sections Config and Device exactly where a
\* daemon could start, in every state of the devices and of a daemon that runs
\* already, with a pad of its own.  (A device chosen by its path is only opened:
\* one that is no touchpad is the case doctor does not see.)
DoctorForeseesStart ==
  LET checks == ConfigChecks(NoDevice) \cup DeviceChecks(NoDevice)
      chosen == settings.device \in Numbers /\ ~nodes[settings.device].mt
  IN ~chosen => (Failures(checks) = {} <=> StartError(nodes, uinput) = "none")

\* A daemon that runs undisturbed: no check of doctor fails, whatever way access
\* to the devices was given, and status says that it runs.
RunningIsReported ==
  /\ StatusResult(StatusLines(NoDevice)) = "Running"
  /\ \A tags \in {"yes", "no"}, acl \in Answers, seat \in Answers :
       Failures(Doctor(NoDevice, tags, acl, seat)) = {}

\* status and doctor, which have their checks twice over, come to the same
\* result, whatever --device they are given: what is misconfigured for one has
\* a failed check of the other, and a service that runs for one is not failed
\* for the other.  Both see a daemon that runs, with its own touchpad among the
\* devices, as running.
ReportsAgree ==
  /\ \A o \in Overrides :
       LET result == StatusResult(StatusLines(o))
           failed == Failures(ConfigChecks(o) \cup DeviceChecks(o))
       IN /\ result = "Misconfigured" <=> \E c \in failed : c.label # "uinput"
          /\ ExitCode(result) = 0 =>
               Failures(ServiceChecks) \subseteq {Ok("Session", "systemd", FALSE)}
  /\ untouched /\ manager = "answers" /\ CanRun(settings.command, ShellPath) =>
       RunningIsReported

\* A startup that is given up would not have been helped by waiting: whatever
\* devices and permissions might have come still.
GivingUpIsRight ==
  LET error == StartError(nodes, uinput)
  IN running = NoDevice /\ error # "none" /\ ~ShouldRetry(error) =>
       \A n \in Numbers, k \in NodeKinds :
         LET more == [nodes EXCEPT ![n] = IF @.present THEN [@ EXCEPT !.open = TRUE]
                                                       ELSE Node(k, TRUE)]
         IN StartError(more, TRUE) # "none"

=============================================================================
