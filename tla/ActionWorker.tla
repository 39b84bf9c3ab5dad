----------------------------- MODULE ActionWorker -----------------------------
(***************************************************************************)
(* The action dispatcher and its worker thread (src/actions.rs,            *)
(* src/actions/worker.rs, process.rs): the input thread offers commands to *)
(* a bounded channel without ever waiting, the worker runs them one at a   *)
(* time as processes, and shutdown cancels the running one and waits for   *)
(* the worker, but not for ever.  One action per step the two threads and  *)
(* the process can interleave at.                                          *)
(***************************************************************************)
EXTENDS Integers, Sequences

CONSTANTS
  Sources,        \* gestures and slider steps that are dispatched
  Commands,       \* argument vectors
  Bindings,       \* configurations: source -> command, "Log" or "Unmatched"
  Capacity,       \* of the channel (DAEMON_ACTION_QUEUE_CAPACITY)
  Polls,          \* polls of the join until ACTION_WORKER_SHUTDOWN_TIMEOUT
  MayEscape,      \* a process can leave its group or its user
  MayPanic,       \* the runner can panic
  MaxDispatches   \* bound: gestures stop after so many

ASSUME CapacityAssumption == Capacity \in Nat \ {0}
ASSUME PollsAssumption == Polls \in Nat
ASSUME BindingsAssumption ==
  Bindings \subseteq [Sources -> Commands \cup {"Log", "Unmatched"}]
ASSUME CommandsAssumption == {"Log", "Unmatched", "none"} \cap Commands = {}
ASSUME MayAssumption == MayEscape \in BOOLEAN /\ MayPanic \in BOOLEAN
ASSUME DispatchesAssumption == MaxDispatches \in Nat

VARIABLES
  bindings,   \* ActionDispatcher.bindings and sliders
  queue,      \* the channel's buffer
  open,       \* the sender has not been dropped
  requested,  \* ActionShutdownToken
  input,      \* where the input thread is
  polls,      \* how often it has polled the join
  worker,     \* where the worker thread is
  command,    \* the command the worker holds
  child,      \* its process
  stats,      \* ActionDispatcherStats
  dispatched, \* number of gestures so far
  accepted,   \* history: commands the channel took
  started     \* history: commands the worker started

inputVars == <<bindings, open, requested, input, polls, dispatched>>
avars == <<inputVars, queue, worker, command, child, stats, accepted, started>>

Stats ==
  {"matched", "unmatched", "log", "queued", "dropped", "started", "succeeded",
   "failed", "panics", "timeouts"}
Counted(counters) ==
  stats' = [n \in Stats |-> IF n \in counters THEN stats[n] + 1 ELSE stats[n]]

\* The channel's other end is gone once the worker has returned or panicked.
Gone == worker \in {"ended", "panicked"}

AInit ==
  /\ bindings \in Bindings
  /\ queue = <<>> /\ open = TRUE /\ requested = FALSE
  /\ input = "ready" /\ polls = 0
  /\ worker = "check" /\ command = "none" /\ child = "none"
  /\ stats = [n \in Stats |-> 0]
  /\ dispatched = 0
  /\ accepted = <<>> /\ started = <<>>

-----------------------------------------------------------------------------
(* The input thread                                                        *)

\* dispatch_gesture, dispatch_slider_step, and try_send in enqueue; a command
\* that was sent is counted in a step of its own.
Dispatch(source) ==
  /\ input = "ready" /\ dispatched < MaxDispatches
  /\ dispatched' = dispatched + 1
  /\ LET c == bindings[source]
         refused == Gone \/ Len(queue) >= Capacity
     IN CASE c = "Unmatched" ->
               /\ Counted({"unmatched"})
               /\ UNCHANGED <<queue, input, accepted>>
          [] c = "Log" ->
               /\ Counted({"matched", "log"})
               /\ UNCHANGED <<queue, input, accepted>>
          [] c \in Commands /\ refused ->
               /\ Counted({"matched", "dropped"})
               /\ UNCHANGED <<queue, input, accepted>>
          [] c \in Commands /\ ~refused ->
               /\ Counted({"matched"})
               /\ queue' = Append(queue, c)
               /\ accepted' = Append(accepted, c)
               /\ input' = "sent"
  /\ UNCHANGED <<bindings, open, requested, polls, worker, command, child, started>>

CountQueued ==
  /\ input = "sent"
  /\ Counted({"queued"})
  /\ input' = "ready"
  /\ UNCHANGED <<bindings, open, requested, polls, dispatched, queue, worker, command,
                 child, accepted, started>>

\* reconfigure; what is queued keeps its argv.
Rebind(new) ==
  /\ input = "ready" /\ new # bindings
  /\ bindings' = new
  /\ UNCHANGED <<open, requested, input, polls, dispatched, queue, worker, command,
                 child, stats, accepted, started>>

\* shutdown, or the dispatcher is dropped.
RequestShutdown ==
  /\ input = "ready"
  /\ requested' = TRUE
  /\ input' = "closing"
  /\ UNCHANGED <<bindings, open, polls, dispatched, queue, worker, command, child, stats,
                 accepted, started>>

CloseChannel ==
  /\ input = "closing"
  /\ open' = FALSE
  /\ input' = "joining"
  /\ UNCHANGED <<bindings, requested, polls, dispatched, queue, worker, command, child,
                 stats, accepted, started>>

PollJoin ==
  /\ input = "joining" /\ ~Gone /\ polls < Polls
  /\ polls' = polls + 1
  /\ UNCHANGED <<bindings, open, requested, input, dispatched, queue, worker, command,
                 child, stats, accepted, started>>

\* Mutant: the timeout does not end the wait.
KeepWaiting ==
  /\ input = "joining" /\ ~Gone /\ polls >= Polls
  /\ polls' = 0
  /\ UNCHANGED <<bindings, open, requested, input, dispatched, queue, worker, command,
                 child, stats, accepted, started>>

GiveUp ==
  /\ input = "joining" /\ ~Gone /\ polls >= Polls
  /\ Counted({"timeouts"})
  /\ input' = "left"
  /\ UNCHANGED <<bindings, open, requested, polls, dispatched, queue, worker, command,
                 child, accepted, started>>

\* Mutant: how the worker ended is ignored.
JoinUncounted ==
  /\ input = "joining" /\ Gone
  /\ input' = "joined"
  /\ UNCHANGED <<bindings, open, requested, polls, dispatched, queue, worker, command,
                 child, stats, accepted, started>>

Join ==
  /\ input = "joining" /\ Gone
  /\ Counted(IF worker = "panicked" THEN {"panics"} ELSE {})
  /\ input' = "joined"
  /\ UNCHANGED <<bindings, open, requested, polls, dispatched, queue, worker, command,
                 child, accepted, started>>

-----------------------------------------------------------------------------
(* The worker thread                                                       *)

\* Returning drops the receiver, and what the channel still holds with it.
WorkerAt(pc) ==
  /\ worker' = pc
  /\ UNCHANGED inputVars

Check ==
  /\ worker = "check"
  /\ WorkerAt(IF requested THEN "ended" ELSE "receive")
  /\ UNCHANGED <<queue, command, child, stats, accepted, started>>

Receive ==
  /\ worker = "receive" /\ queue # <<>>
  /\ WorkerAt("recheck")
  /\ command' = Head(queue)
  /\ queue' = Tail(queue)
  /\ UNCHANGED <<child, stats, accepted, started>>

\* recv fails only on an empty channel without a sender.
Disconnected ==
  /\ worker = "receive" /\ queue = <<>> /\ ~open
  /\ WorkerAt("ended")
  /\ UNCHANGED <<queue, command, child, stats, accepted, started>>

\* Mutant: the flag is tested once per command, before the wait for it.
NoRecheck ==
  /\ worker = "recheck"
  /\ WorkerAt("start")
  /\ UNCHANGED <<queue, command, child, stats, accepted, started>>

Recheck ==
  /\ worker = "recheck"
  /\ WorkerAt(IF requested THEN "ended" ELSE "start")
  /\ UNCHANGED <<queue, command, child, stats, accepted, started>>

StartCommand ==
  /\ worker = "start"
  /\ WorkerAt("spawn")
  /\ Counted({"started"})
  /\ started' = Append(started, command)
  /\ UNCHANGED <<queue, command, child, accepted>>

\* The runner returned: with "succeeded" or "failed".
Return(outcome) ==
  /\ WorkerAt("check")
  /\ Counted({outcome})
  /\ command' = "none" /\ child' = "none"
  /\ UNCHANGED <<queue, accepted, started>>

Exited == child \in {"success", "failure"}
Outcome == IF child = "success" THEN "succeeded" ELSE "failed"

SpawnFails == worker = "spawn" /\ Return("failed")

RunnerPanics ==
  /\ worker = "spawn" /\ MayPanic
  /\ WorkerAt("panicked")
  /\ UNCHANGED <<queue, command, child, stats, accepted, started>>

Spawn ==
  /\ worker = "spawn"
  /\ WorkerAt("poll")
  /\ child' = "running"
  /\ UNCHANGED <<queue, command, stats, accepted, started>>

\* One iteration of the loop in ProcessCommandRunner::run; a poll that finds
\* neither an exit nor a request only sleeps.
PollChild ==
  /\ worker = "poll"
  /\ \/ Exited /\ Return(Outcome)
     \/ /\ ~Exited /\ requested
        /\ WorkerAt("interrupt")
        /\ UNCHANGED <<queue, command, child, stats, accepted, started>>

\* interrupt_action_command looks once more, then kills the process group.
Interrupt ==
  /\ worker = "interrupt"
  /\ \/ Exited /\ Return(Outcome)
     \/ /\ ~Exited
        /\ WorkerAt("kill")
        /\ UNCHANGED <<queue, command, child, stats, accepted, started>>

\* Mutant: the killed process is not waited for.
KillAndReturn ==
  /\ worker = "kill"
  /\ WorkerAt("check")
  /\ Counted({"failed"})
  /\ child' = IF child = "running" THEN "dying" ELSE child
  /\ command' = "none"
  /\ UNCHANGED <<queue, accepted, started>>

\* The signal reaches the group, also when its only member is a zombie by now:
\* that command counts as interrupted.
Kill ==
  /\ worker = "kill" /\ child # "escaped"
  /\ WorkerAt("reap killed")
  /\ child' = IF child = "running" THEN "dying" ELSE child
  /\ UNCHANGED <<queue, command, stats, accepted, started>>

\* No such group, or one the daemon may not signal.
KillMisses ==
  /\ worker = "kill" /\ child = "escaped"
  /\ \/ /\ WorkerAt("reap")
        /\ UNCHANGED <<queue, command, child, stats, accepted, started>>
     \/ /\ WorkerAt("check")
        /\ Counted({"failed"})
        /\ command' = "none"
        /\ UNCHANGED <<queue, child, accepted, started>>

Reap ==
  /\ worker \in {"reap", "reap killed"} /\ Exited
  /\ Return(IF worker = "reap" THEN Outcome ELSE "failed")

-----------------------------------------------------------------------------
(* The process                                                             *)

ChildStep(from, to) ==
  /\ child \in from /\ child' = to
  /\ UNCHANGED <<inputVars, queue, worker, command, stats, accepted, started>>

Exit == \E status \in {"success", "failure"} : ChildStep({"running", "escaped"}, status)
Die == ChildStep({"dying"}, "failure")
Escape == MayEscape /\ ChildStep({"running"}, "escaped")

-----------------------------------------------------------------------------
InputStep == CountQueued \/ CloseChannel \/ PollJoin \/ GiveUp \/ Join

WorkerStep ==
  \/ Check \/ Receive \/ Disconnected \/ Recheck \/ StartCommand
  \/ Spawn \/ SpawnFails \/ RunnerPanics
  \/ PollChild \/ Interrupt \/ Kill \/ KillMisses \/ Reap

ANext ==
  \/ \E source \in Sources : Dispatch(source)
  \/ \E new \in Bindings : Rebind(new)
  \/ RequestShutdown
  \/ InputStep \/ WorkerStep
  \/ Exit \/ Die \/ Escape

\* Both threads are scheduled, and a process that got SIGKILL ends.  Nothing
\* makes a command finish, a gesture happen or the daemon stop.
AFairness == WF_avars(InputStep) /\ WF_avars(WorkerStep) /\ WF_avars(Die)

ASpec == AInit /\ [][ANext]_avars /\ AFairness

-----------------------------------------------------------------------------
(* Properties                                                              *)

ATypeOK ==
  /\ bindings \in Bindings
  /\ queue \in Seq(Commands) /\ accepted \in Seq(Commands) /\ started \in Seq(Commands)
  /\ open \in BOOLEAN /\ requested \in BOOLEAN
  /\ input \in {"ready", "sent", "closing", "joining", "joined", "left"}
  /\ polls \in 0..Polls
  /\ worker \in {"check", "receive", "recheck", "start", "spawn", "poll", "interrupt",
                 "kill", "reap", "reap killed", "ended", "panicked"}
  /\ command \in Commands \cup {"none"}
  /\ child \in {"none", "running", "escaped", "dying", "success", "failure"}
  /\ stats \in [Stats -> Nat]
  /\ dispatched \in Nat

\* Commands run one by one in the order of their gestures, each as bound when
\* its gesture came; once shutdown is requested, no command starts but one
\* whose last test of the request came before it.
Order == INSTANCE ActionOrder WITH committed <- worker = "start", stopping <- requested
KeepsOrder == Order!OrderSpec

\* No gesture goes uncounted although two threads count: after a join every
\* command that was matched was logged, dropped, discarded with the channel
\* or run to a result, and only a panic leaves one without.
StatsBalance ==
  input = "joined" =>
    /\ dispatched = stats["matched"] + stats["unmatched"]
    /\ stats["matched"] = stats["log"] + stats["dropped"] + stats["queued"]
    /\ stats["queued"] = Len(accepted)
    /\ stats["started"] = Len(started)
    /\ stats["started"] = stats["succeeded"] + stats["failed"] + stats["panics"]

\* When shutdown could join the worker no action process is left behind.
JoinedLeavesNothing ==
  input = "joined" => child \notin {"running", "dying"}

\* However long a command runs, and whatever it does, shutdown returns; and the
\* command cannot hold the worker, which ends unless its process got away.
ShutdownReturns ==
  /\ requested ~> input \in {"joined", "left"}
  /\ requested ~> Gone \/ child = "escaped"

=============================================================================
