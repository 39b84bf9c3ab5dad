---------------------------- MODULE AroundProofs -----------------------------
(***************************************************************************)
(* Proofs about what surrounds the engine while the proxy runs.  First     *)
(* ActionWorker: types, and that the dispatcher with its bounded channel,  *)
(* worker thread and cancellation implements ActionOrder for every set of  *)
(* sources, commands and configurations, every capacity and every number   *)
(* of dispatches, panics and escaped processes.  Then the promises of      *)
(* Takeover, for any places and any number of touches.                     *)
(***************************************************************************)
EXTENDS ActionWorker, Takeover, SequenceTheorems, TLAPS

-----------------------------------------------------------------------------
(* The dispatcher and its worker.                                          *)

\* The worker has taken a command out of the channel and not started it.
Holding == worker \in {"recheck", "start"}
Held == IF Holding THEN 1 ELSE 0

\* While the worker lives, what was accepted is what was started, then the
\* command it holds, then what is queued, in that order.
Accounted ==
  /\ Len(accepted) = Len(started) + Held + Len(queue)
  /\ Holding => command = accepted[Len(started) + 1]
  /\ \A i \in 1..Len(queue) : queue[i] = accepted[Len(started) + Held + i]

OrderInv ==
  /\ ATypeOK
  /\ Holding => command \in Commands
  /\ input \in {"ready", "sent"} => ~requested
  /\ ~Gone => Accounted

-----------------------------------------------------------------------------
LEMMA CountedType ==
  ASSUME stats \in [Stats -> Nat], NEW C, Counted(C)
  PROVE  stats' \in [Stats -> Nat]
BY DEF Counted

\* What a step that leaves the queue and both histories alone has to keep.
LEMMA Unmoved ==
  ASSUME OrderInv, ATypeOK',
         UNCHANGED <<queue, accepted, started, command>>,
         Holding' <=> Holding, Gone' <=> Gone,
         input' \in {"ready", "sent"} => ~requested'
  PROVE  OrderInv'
BY DEF OrderInv, Accounted, Held

\* The same for a worker that holds nothing before or after.
LEMMA EmptyHanded ==
  ASSUME OrderInv, ATypeOK', UNCHANGED <<queue, accepted, started>>,
         UNCHANGED inputVars, ~Holding, ~Holding', ~Gone
  PROVE  OrderInv'
BY DEF OrderInv, Accounted, Held, inputVars

LEMMA InitOrder == AInit => OrderInv
<1> SUFFICES ASSUME AInit PROVE OrderInv
  OBVIOUS
<1>1. /\ <<>> \in Seq(Commands) /\ Len(<<>>) = 0
      /\ polls \in 0..Polls
      /\ stats \in [Stats -> Nat]
  BY EmptySeq, PollsAssumption DEF AInit
<1>2. ATypeOK
  BY <1>1 DEF AInit, ATypeOK
<1>3. ~Holding /\ Held = 0
  BY DEF AInit, Held, Holding
<1>4. Accounted
  <2>1. 1..Len(queue) = {}
    BY <1>1 DEF AInit
  <2> QED
    BY <1>1, <1>3, <2>1 DEF AInit, Accounted
<1> QED
  BY <1>2, <1>3, <1>4 DEF AInit, OrderInv

-----------------------------------------------------------------------------
(* The input thread                                                        *)

LEMMA DispatchKeeps ==
  ASSUME OrderInv, NEW source \in Sources, Dispatch(source)
  PROVE  OrderInv'
<1>0. ATypeOK
  BY DEF OrderInv
<1>1. bindings[source] \in Commands \cup {"Log", "Unmatched"}
  BY <1>0, BindingsAssumption DEF ATypeOK
<1>2. stats' \in [Stats -> Nat]
  <2>1. \E C : Counted(C)
    BY <1>1, CommandsAssumption DEF Dispatch
  <2> QED BY <1>0, <2>1, CountedType DEF ATypeOK
<1>3. /\ UNCHANGED <<worker, command, started, requested, Holding, Gone>>
      /\ UNCHANGED <<bindings, open, polls, child>>
      /\ input = "ready" /\ input' \in {"ready", "sent"}
  BY <1>1, CommandsAssumption DEF Dispatch, Holding, Gone
<1>6. dispatched' \in Nat
  <2>1. dispatched' = dispatched + 1
    BY DEF Dispatch
  <2>2. dispatched \in Nat
    BY <1>0 DEF ATypeOK
  <2> QED BY <2>1, <2>2
<1>4. CASE UNCHANGED <<queue, accepted>>
  <2>1. ATypeOK'
    BY <1>0, <1>2, <1>3, <1>4, <1>6 DEF ATypeOK
  <2> QED
    BY <1>3, <1>4, <2>1, Unmoved DEF OrderInv
<1>5. CASE /\ bindings[source] \in Commands /\ ~Gone
           /\ queue' = Append(queue, bindings[source])
           /\ accepted' = Append(accepted, bindings[source])
  <2>0. queue' \in Seq(Commands) /\ accepted' \in Seq(Commands)
    BY <1>0, <1>5, AppendProperties DEF ATypeOK
  <2>1. ATypeOK'
    BY <1>0, <1>2, <1>3, <1>6, <2>0 DEF ATypeOK
  <2>2. Accounted
    BY <1>5 DEF OrderInv
  <2>3. Accounted'
    <3> DEFINE c == bindings[source]
    <3>1. /\ Len(queue') = Len(queue) + 1 /\ queue'[Len(queue) + 1] = c
          /\ \A i \in 1..Len(queue) : queue'[i] = queue[i]
          /\ Len(accepted') = Len(accepted) + 1 /\ accepted'[Len(accepted) + 1] = c
          /\ \A i \in 1..Len(accepted) : accepted'[i] = accepted[i]
      <4>1. queue \in Seq(Commands) /\ accepted \in Seq(Commands) /\ c \in Commands
        BY <1>0, <1>5 DEF ATypeOK
      <4>2. queue' = Append(queue, c) /\ accepted' = Append(accepted, c)
        BY <1>5
      <4> HIDE DEF c
      <4> QED
        BY <4>1, <4>2, AppendProperties
    <3>2. /\ Held' = Held /\ Held \in {0, 1} /\ Holding' = Holding
          /\ Holding => Held = 1
          /\ Len(queue) \in Nat /\ Len(started) \in Nat
      BY <1>0, <1>3, LenProperties DEF Held, Holding, ATypeOK
    <3>3. Len(accepted') = Len(started') + Held' + Len(queue')
      BY <1>3, <2>2, <3>1, <3>2 DEF Accounted
    <3>4. ASSUME Holding' PROVE command' = accepted'[Len(started') + 1]
      BY <1>3, <2>2, <3>1, <3>2, <3>4 DEF Accounted
    <3>5. ASSUME NEW i \in 1..Len(queue')
          PROVE  queue'[i] = accepted'[Len(started') + Held' + i]
      <4>1. CASE i \in 1..Len(queue)
        <5> DEFINE j == Len(started) + Held + i
        <5>1. j \in 1..Len(accepted) /\ Len(started') + Held' + i = j
          BY <1>3, <2>2, <3>2, <4>1 DEF Accounted
        <5>2. queue[i] = accepted[j]
          BY <2>2, <4>1 DEF Accounted
        <5> HIDE DEF j
        <5> QED
          BY <3>1, <4>1, <5>1, <5>2
      <4>2. CASE i = Len(queue) + 1
        <5>1. Len(started') + Held' + i = Len(accepted) + 1
          <6>1. Len(accepted) = Len(started) + Held + Len(queue)
            BY <2>2 DEF Accounted
          <6>2. Len(started') = Len(started)
            BY <1>3
          <6> HIDE DEF Held
          <6> QED
            BY <3>2, <4>2, <6>1, <6>2
        <5> QED
          BY <3>1, <4>2, <5>1
      <4> QED BY <3>1, <3>2, <4>1, <4>2
    <3> QED
      BY <3>3, <3>4, <3>5 DEF Accounted
  <2> QED
    BY <1>3, <2>1, <2>3 DEF OrderInv
<1> QED
  BY <1>1, <1>4, <1>5, CommandsAssumption DEF Dispatch

LEMMA RebindKeeps ==
  ASSUME OrderInv, NEW new \in Bindings, Rebind(new)
  PROVE  OrderInv'
<1>1. ATypeOK'
  BY DEF OrderInv, Rebind, ATypeOK
<1> QED
  BY <1>1, Unmoved DEF OrderInv, Rebind, Holding, Gone

LEMMA RequestKeeps ==
  ASSUME OrderInv, RequestShutdown
  PROVE  OrderInv'
<1>1. ATypeOK'
  BY DEF OrderInv, RequestShutdown, ATypeOK
<1> QED
  BY <1>1, Unmoved DEF RequestShutdown, Holding, Gone

LEMMA InputStepKeeps ==
  ASSUME OrderInv, InputStep
  PROVE  OrderInv'
<1>0. ATypeOK
  BY DEF OrderInv
<1>1. CASE CountQueued
  <2>1. stats' \in [Stats -> Nat]
    BY <1>0, <1>1, CountedType DEF CountQueued, ATypeOK
  <2>2. ATypeOK'
    BY <1>0, <1>1, <2>1 DEF CountQueued, ATypeOK
  <2> QED
    BY <1>1, <2>2, Unmoved DEF OrderInv, CountQueued, Holding, Gone
<1>2. CASE CloseChannel
  <2>1. ATypeOK'
    BY <1>0, <1>2 DEF CloseChannel, ATypeOK
  <2> QED
    BY <1>2, <2>1, Unmoved DEF CloseChannel, Holding, Gone
<1>3. CASE PollJoin
  <2>0. polls' \in 0..Polls
    <3>1. polls \in 0..Polls
      BY <1>0 DEF ATypeOK
    <3>2. polls < Polls /\ polls' = polls + 1
      BY <1>3 DEF PollJoin
    <3> QED
      BY <3>1, <3>2, PollsAssumption
  <2>1. ATypeOK'
    BY <1>0, <1>3, <2>0 DEF PollJoin, ATypeOK
  <2> QED
    BY <1>3, <2>1, Unmoved DEF PollJoin, Holding, Gone
<1>4. CASE GiveUp
  <2>1. stats' \in [Stats -> Nat]
    BY <1>0, <1>4, CountedType DEF GiveUp, ATypeOK
  <2>2. ATypeOK'
    BY <1>0, <1>4, <2>1 DEF GiveUp, ATypeOK
  <2> QED
    BY <1>4, <2>2, Unmoved DEF GiveUp, Holding, Gone
<1>5. CASE Join
  <2>1. stats' \in [Stats -> Nat]
    BY <1>0, <1>5, CountedType DEF Join, ATypeOK
  <2>2. ATypeOK'
    BY <1>0, <1>5, <2>1 DEF Join, ATypeOK
  <2> QED
    BY <1>5, <2>2, Unmoved DEF Join, Holding, Gone
<1> QED
  BY <1>1, <1>2, <1>3, <1>4, <1>5 DEF InputStep

-----------------------------------------------------------------------------
(* The worker                                                              *)

\* A worker that is gone owes no account.
LEMMA GoneKeeps ==
  ASSUME OrderInv, ATypeOK', UNCHANGED inputVars, Gone', ~Holding'
  PROVE  OrderInv'
BY DEF OrderInv, inputVars

LEMMA ReturnKeeps ==
  ASSUME OrderInv, NEW o, Return(o), ~Holding, ~Gone
  PROVE  OrderInv'
<1>1. stats' \in [Stats -> Nat]
  BY CountedType DEF OrderInv, ATypeOK, Return
<1>2. ATypeOK'
  BY <1>1 DEF OrderInv, ATypeOK, Return, WorkerAt, inputVars
<1>3. ~Holding' /\ UNCHANGED <<inputVars, queue, accepted, started>>
  BY DEF Return, WorkerAt, Holding
<1> QED
  BY <1>2, <1>3, EmptyHanded

LEMMA ReceiveKeeps ==
  ASSUME OrderInv, Receive
  PROVE  OrderInv'
<1>1. /\ ATypeOK /\ Accounted /\ queue # <<>> /\ ~Holding /\ Holding'
      /\ UNCHANGED <<inputVars, accepted, started>>
  BY DEF OrderInv, Receive, WorkerAt, Holding, Gone
<1>2. /\ command' = queue[1] /\ command' \in Commands
      /\ queue' \in Seq(Commands) /\ Len(queue') = Len(queue) - 1
      /\ \A i \in 1..Len(queue') : queue'[i] = queue[i + 1]
  BY <1>1 DEF Receive, ATypeOK
<1>3. ATypeOK'
  BY <1>1, <1>2 DEF ATypeOK, Receive, WorkerAt, inputVars
<1>4. Accounted'
  <2>1. Held = 0 /\ Held' = 1
    BY <1>1 DEF Held
  <2>2. Len(queue) \in Nat \ {0} /\ Len(started) \in Nat
    BY <1>1, EmptySeq, LenProperties DEF ATypeOK
  <2>3. command' = accepted'[Len(started') + 1]
    BY <1>1, <1>2, <2>1, <2>2 DEF Accounted
  <2>4. Len(accepted') = Len(started') + Held' + Len(queue')
    BY <1>1, <1>2, <2>1, <2>2 DEF Accounted
  <2>5. ASSUME NEW i \in 1..Len(queue')
        PROVE  queue'[i] = accepted'[Len(started') + Held' + i]
    <3>1. i + 1 \in 1..Len(queue) /\ i \in Nat
      BY <1>2, <2>2
    <3>2. queue[i + 1] = accepted[Len(started) + Held + (i + 1)]
      BY <1>1, <3>1 DEF Accounted
    <3> QED
      BY <1>1, <1>2, <2>1, <2>2, <3>1, <3>2
  <2> QED
    BY <2>3, <2>4, <2>5 DEF Accounted
<1> QED
  BY <1>1, <1>2, <1>3, <1>4 DEF OrderInv, inputVars

LEMMA StartKeeps ==
  ASSUME OrderInv, StartCommand
  PROVE  OrderInv'
<1>1. /\ ATypeOK /\ Accounted /\ Holding /\ ~Holding' /\ command \in Commands
      /\ UNCHANGED <<inputVars, queue, accepted>>
      /\ started' = Append(started, command)
  BY DEF OrderInv, StartCommand, WorkerAt, Holding, Gone
<1>2. stats' \in [Stats -> Nat]
  BY <1>1, CountedType DEF StartCommand, ATypeOK
<1>3. ATypeOK'
  BY <1>1, <1>2 DEF ATypeOK, StartCommand, WorkerAt, inputVars
<1>4. Accounted'
  <2>1. /\ Held = 1 /\ Held' = 0 /\ Len(started') = Len(started) + 1
        /\ Len(started) \in Nat /\ Len(queue) \in Nat
    BY <1>1, AppendProperties, LenProperties DEF Held, ATypeOK
  <2> QED
    BY <1>1, <2>1 DEF Accounted
<1> QED
  BY <1>1, <1>3, <1>4 DEF OrderInv, inputVars

LEMMA WorkerStepKeeps ==
  ASSUME OrderInv, WorkerStep
  PROVE  OrderInv'
<1>0. ATypeOK
  BY DEF OrderInv
<1>1. CASE Check
  <2>1. ATypeOK'
    BY <1>0, <1>1 DEF Check, WorkerAt, inputVars, ATypeOK
  <2>2. CASE requested
    BY <1>1, <2>1, <2>2, GoneKeeps DEF Check, WorkerAt, Gone, Holding
  <2>3. CASE ~requested
    BY <1>1, <2>1, <2>3, EmptyHanded DEF Check, WorkerAt, Gone, Holding
  <2> QED BY <2>2, <2>3
<1>2. CASE Receive
  BY <1>2, ReceiveKeeps
<1>3. CASE Disconnected
  <2>1. ATypeOK'
    BY <1>0, <1>3 DEF Disconnected, WorkerAt, inputVars, ATypeOK
  <2> QED
    BY <1>3, <2>1, GoneKeeps DEF Disconnected, WorkerAt, Gone, Holding
<1>4. CASE Recheck
  <2>1. ATypeOK'
    BY <1>0, <1>4 DEF Recheck, WorkerAt, inputVars, ATypeOK
  <2>2. CASE requested
    BY <1>4, <2>1, <2>2, GoneKeeps DEF Recheck, WorkerAt, Gone, Holding
  <2>3. CASE ~requested
    BY <1>4, <2>1, <2>3, Unmoved
    DEF OrderInv, Recheck, WorkerAt, Gone, Holding, inputVars
  <2> QED BY <2>2, <2>3
<1>5. CASE StartCommand
  BY <1>5, StartKeeps
<1>6. CASE Spawn
  <2>1. ATypeOK'
    BY <1>0, <1>6 DEF Spawn, WorkerAt, inputVars, ATypeOK
  <2> QED
    BY <1>6, <2>1, EmptyHanded DEF Spawn, WorkerAt, Gone, Holding
<1>7. CASE SpawnFails
  BY <1>7, ReturnKeeps DEF SpawnFails, Holding, Gone
<1>8. CASE RunnerPanics
  <2>1. ATypeOK'
    BY <1>0, <1>8 DEF RunnerPanics, WorkerAt, inputVars, ATypeOK
  <2> QED
    BY <1>8, <2>1, GoneKeeps DEF RunnerPanics, WorkerAt, Gone, Holding
<1>9. CASE PollChild
  <2>1. CASE Return(Outcome)
    BY <1>9, <2>1, ReturnKeeps DEF PollChild, Holding, Gone
  <2>2. CASE ~Return(Outcome)
    <3>1. ATypeOK'
      BY <1>0, <1>9, <2>2 DEF PollChild, WorkerAt, inputVars, ATypeOK
    <3> QED
      BY <1>9, <2>2, <3>1, EmptyHanded DEF PollChild, WorkerAt, Gone, Holding
  <2> QED BY <2>1, <2>2
<1>10. CASE Interrupt
  <2>1. CASE Return(Outcome)
    BY <1>10, <2>1, ReturnKeeps DEF Interrupt, Holding, Gone
  <2>2. CASE ~Return(Outcome)
    <3>1. ATypeOK'
      BY <1>0, <1>10, <2>2 DEF Interrupt, WorkerAt, inputVars, ATypeOK
    <3> QED
      BY <1>10, <2>2, <3>1, EmptyHanded DEF Interrupt, WorkerAt, Gone, Holding
  <2> QED BY <2>1, <2>2
<1>11. CASE Kill
  <2>1. ATypeOK'
    BY <1>0, <1>11 DEF Kill, WorkerAt, inputVars, ATypeOK
  <2> QED
    BY <1>11, <2>1, EmptyHanded DEF Kill, WorkerAt, Gone, Holding
<1>12. CASE KillMisses
  <2>1. stats' \in [Stats -> Nat]
    BY <1>0, <1>12, CountedType DEF KillMisses, ATypeOK
  <2>2. ATypeOK'
    BY <1>0, <1>12, <2>1 DEF KillMisses, WorkerAt, inputVars, ATypeOK
  <2> QED
    BY <1>12, <2>2, EmptyHanded DEF KillMisses, WorkerAt, Gone, Holding
<1>13. CASE Reap
  BY <1>13, ReturnKeeps DEF Reap, Holding, Gone
<1> QED
  BY <1>1, <1>2, <1>3, <1>4, <1>5, <1>6, <1>7, <1>8, <1>9, <1>10, <1>11, <1>12, <1>13
  DEF WorkerStep

LEMMA ChildKeeps ==
  ASSUME OrderInv, Exit \/ Die \/ Escape
  PROVE  OrderInv'
<1>1. /\ UNCHANGED <<inputVars, queue, worker, command, stats, accepted, started>>
      /\ child' \in {"success", "failure", "escaped"}
  BY DEF Exit, Die, Escape, ChildStep
<1>2. ATypeOK'
  BY <1>1 DEF OrderInv, ATypeOK, inputVars
<1> QED
  BY <1>1, <1>2, Unmoved DEF OrderInv, inputVars, Holding, Gone

LEMMA StutterKeeps ==
  ASSUME OrderInv, UNCHANGED avars
  PROVE  OrderInv'
<1>1. ATypeOK'
  BY DEF OrderInv, ATypeOK, avars, inputVars
<1> QED
  BY <1>1, Unmoved DEF OrderInv, avars, inputVars, Holding, Gone

\* The strengthening is inductive.
THEOREM OrderInvariant == ASpec => []OrderInv
<1>1. ASSUME OrderInv, [ANext]_avars
      PROVE  OrderInv'
  BY <1>1, DispatchKeeps, RebindKeeps, RequestKeeps, InputStepKeeps, WorkerStepKeeps,
     ChildKeeps, StutterKeeps DEF ANext
<1> QED
  BY <1>1, InitOrder, PTL DEF ASpec

\* Input thread, worker and process keep their types at every interleaving.
THEOREM ActionTypes == ASpec => []ATypeOK
<1>1. OrderInv => ATypeOK
  BY DEF OrderInv
<1> QED
  BY <1>1, OrderInvariant, PTL

-----------------------------------------------------------------------------
(* Refinement                                                              *)

LEMMA RefineInit == AInit => Order!OrderInit
BY DEF AInit, Order!OrderInit

LEMMA RefineQuiet ==
  ASSUME UNCHANGED <<accepted, started>>,
         (worker' = "start") <=> (worker = "start"),
         requested' = requested \/ requested' = TRUE
  PROVE  [Order!OrderNext]_(Order!orderVars)
BY DEF Order!OrderNext, Order!Request, Order!orderVars

LEMMA RefineDispatch ==
  ASSUME OrderInv, NEW source \in Sources, Dispatch(source)
  PROVE  [Order!OrderNext]_(Order!orderVars)
<1>1. bindings[source] \in Commands \cup {"Log", "Unmatched"}
  BY BindingsAssumption DEF OrderInv, ATypeOK
<1>2. UNCHANGED <<started, worker, requested>> /\ ~requested
  BY DEF Dispatch, OrderInv
<1>3. CASE UNCHANGED accepted
  BY <1>2, <1>3, RefineQuiet
<1>4. CASE bindings[source] \in Commands /\ accepted' = Append(accepted, bindings[source])
  BY <1>2, <1>4 DEF Order!OrderNext, Order!Accept
<1> QED
  BY <1>1, <1>3, <1>4, CommandsAssumption DEF Dispatch

LEMMA RefineRecheck ==
  ASSUME OrderInv, Recheck
  PROVE  [Order!OrderNext]_(Order!orderVars)
<1>1. UNCHANGED <<accepted, started, requested>> /\ worker = "recheck"
  BY DEF Recheck, WorkerAt, inputVars
<1>2. CASE requested
  BY <1>1, <1>2, RefineQuiet DEF Recheck, WorkerAt
<1>3. CASE ~requested
  <2>1. worker' = "start"
    BY <1>3 DEF Recheck, WorkerAt
  <2>2. Len(started) < Len(accepted)
    BY <1>1 DEF OrderInv, Accounted, Held, Holding, Gone, ATypeOK
  <2> QED
    BY <1>1, <1>3, <2>1, <2>2 DEF Order!OrderNext, Order!Commit
<1> QED BY <1>2, <1>3

LEMMA RefineStart ==
  ASSUME OrderInv, StartCommand
  PROVE  [Order!OrderNext]_(Order!orderVars)
<1>1. /\ UNCHANGED <<accepted, requested>> /\ worker = "start" /\ worker' = "spawn"
      /\ started' = Append(started, command)
  BY DEF StartCommand, WorkerAt, inputVars
<1>2. command = accepted[Len(started) + 1]
  BY <1>1 DEF OrderInv, Accounted, Holding, Gone
<1> QED
  BY <1>1, <1>2 DEF Order!OrderNext, Order!Start

LEMMA RefineStep ==
  ASSUME OrderInv, [ANext]_avars
  PROVE  [Order!OrderNext]_(Order!orderVars)
<1>1. CASE \E source \in Sources : Dispatch(source)
  BY <1>1, RefineDispatch
<1>2. CASE \E new \in Bindings : Rebind(new)
  BY <1>2, RefineQuiet DEF Rebind
<1>3. CASE RequestShutdown
  BY <1>3, RefineQuiet DEF RequestShutdown
<1>4. CASE InputStep
  BY <1>4, RefineQuiet
  DEF InputStep, CountQueued, CloseChannel, PollJoin, GiveUp, Join
<1>5. CASE WorkerStep
  <2>1. CASE Recheck
    BY <2>1, RefineRecheck
  <2>2. CASE StartCommand
    BY <2>2, RefineStart
  <2>3. CASE ~Recheck /\ ~StartCommand
    <3>1. /\ UNCHANGED <<inputVars, accepted, started>>
          /\ worker # "start" /\ worker' # "start"
      BY <1>5, <2>3
      DEF WorkerStep, Check, Receive, Disconnected, Spawn, SpawnFails, RunnerPanics,
          PollChild, Interrupt, Kill, KillMisses, Reap, Return, WorkerAt
    <3> QED
      BY <3>1, RefineQuiet DEF inputVars
  <2> QED BY <2>1, <2>2, <2>3
<1>6. CASE Exit \/ Die \/ Escape
  BY <1>6, RefineQuiet DEF Exit, Die, Escape, ChildStep, inputVars
<1>7. CASE UNCHANGED avars
  BY <1>7, RefineQuiet DEF avars, inputVars
<1> QED
  BY <1>1, <1>2, <1>3, <1>4, <1>5, <1>6, <1>7 DEF ANext

\* The dispatcher implements ActionOrder: commands start in the order of their
\* gestures, each once and as bound then, and none that still waited for its
\* last test starts after the request for shutdown.
THEOREM OrderIsKept == ASpec => KeepsOrder
<1>1. AInit => Order!OrderInit
  BY RefineInit
<1>2. OrderInv /\ [ANext]_avars => [Order!OrderNext]_(Order!orderVars)
  BY RefineStep
<1> QED
  BY <1>1, <1>2, OrderInvariant, PTL DEF ASpec, KeepsOrder, Order!OrderSpec

-----------------------------------------------------------------------------
(* No process is left behind                                               *)

\* A live process has a worker that waits for it, and join saw a worker end.
Attended ==
  /\ child \in {"running", "dying"} =>
       worker \in {"poll", "interrupt", "kill", "reap", "reap killed"}
  /\ input = "joined" => Gone

LEMMA AttendedStep ==
  ASSUME OrderInv, Attended, [ANext]_avars
  PROVE  Attended'
<1>1. CASE \E source \in Sources : Dispatch(source)
  <2>1. PICK source \in Sources : Dispatch(source)
    BY <1>1
  <2>2. UNCHANGED <<worker, child>> /\ input = "ready"
    BY <2>1 DEF Dispatch
  <2>3. input' \in {"ready", "sent"}
    <3>1. bindings[source] \in Commands \cup {"Log", "Unmatched"}
      BY BindingsAssumption DEF OrderInv, ATypeOK
    <3> QED
      BY <2>1, <2>2, <3>1, CommandsAssumption DEF Dispatch
  <2> QED
    BY <2>2, <2>3 DEF Attended, Gone
<1>2. CASE \E new \in Bindings : Rebind(new)
  BY <1>2 DEF Attended, Gone, Rebind
<1>3. CASE RequestShutdown
  BY <1>3 DEF Attended, Gone, RequestShutdown
<1>4. CASE InputStep
  BY <1>4 DEF Attended, Gone, InputStep, CountQueued, CloseChannel, PollJoin, GiveUp, Join
<1>5. CASE WorkerStep
  <2>1. input' = input /\ ~Gone
    BY <1>5
    DEF WorkerStep, Check, Receive, Disconnected, Recheck, StartCommand, Spawn,
        SpawnFails, RunnerPanics, PollChild, Interrupt, Kill, KillMisses, Reap, Return,
        WorkerAt, inputVars, Gone
  <2>2. CASE UNCHANGED child
    BY <1>5, <2>1, <2>2
    DEF Attended, Gone, WorkerStep, Check, Receive, Disconnected, Recheck, StartCommand,
        Spawn, SpawnFails, RunnerPanics, PollChild, Interrupt, Kill, KillMisses, Reap,
        Return, WorkerAt, Exited
  <2>3. CASE child' = "none"
    BY <2>1, <2>3 DEF Attended
  <2>4. CASE Spawn \/ Kill
    BY <2>1, <2>4 DEF Attended, Spawn, Kill, WorkerAt
  <2> QED
    BY <1>5, <2>2, <2>3, <2>4
    DEF WorkerStep, Check, Receive, Disconnected, Recheck, StartCommand, SpawnFails,
        RunnerPanics, PollChild, Interrupt, KillMisses, Reap, Return
<1>6. CASE Exit \/ Die \/ Escape
  BY <1>6 DEF Attended, Gone, Exit, Die, Escape, ChildStep, inputVars
<1>7. CASE UNCHANGED avars
  BY <1>7 DEF Attended, Gone, avars, inputVars
<1> QED
  BY <1>1, <1>2, <1>3, <1>4, <1>5, <1>6, <1>7 DEF ANext

\* Once shutdown has joined the worker no process of an action is running or
\* dying in its group, at whatever point the request found it.
THEOREM NothingIsLeft == ASpec => []JoinedLeavesNothing
<1>1. AInit => Attended
  BY DEF AInit, Attended
<1>2. Attended => JoinedLeavesNothing
  BY DEF Attended, JoinedLeavesNothing, Gone
<1> QED
  BY <1>1, <1>2, AttendedStep, OrderInvariant, PTL DEF ASpec

-----------------------------------------------------------------------------
(* The counters                                                            *)

\* A command that was sent is counted in a step of its own.
Uncounted == IF input = "sent" THEN 1 ELSE 0

\* A command that was counted as started and whose end is not yet: it runs, or
\* the runner panicked and nobody has joined the worker.
Running == worker \in {"spawn", "poll", "interrupt", "kill", "reap", "reap killed"}
Unfinished ==
  IF Running \/ (worker = "panicked" /\ input # "joined") THEN 1 ELSE 0

GesturesCounted == dispatched = stats["matched"] + stats["unmatched"]
CommandsCounted ==
  stats["matched"] = stats["log"] + stats["dropped"] + stats["queued"] + Uncounted
AcceptedCounted == Len(accepted) = stats["queued"] + Uncounted
StartsCounted == stats["started"] = Len(started)
OutcomesCounted ==
  stats["started"] =
    stats["succeeded"] + stats["failed"] + stats["panics"] + Unfinished

Balanced ==
  /\ GesturesCounted /\ CommandsCounted /\ AcceptedCounted
  /\ StartsCounted /\ OutcomesCounted

\* A step that counts nothing moves no command from one account to another.
LEMMA BalanceUnmoved ==
  ASSUME Balanced, UNCHANGED <<stats, dispatched, accepted, started>>,
         Uncounted' = Uncounted, Unfinished' = Unfinished
  PROVE  Balanced'
BY DEF Balanced, GesturesCounted, CommandsCounted, AcceptedCounted,
     StartsCounted, OutcomesCounted

LEMMA CounterTypes ==
  ASSUME ATypeOK
  PROVE  /\ Uncounted \in {0, 1} /\ Unfinished \in {0, 1}
         /\ dispatched \in Nat /\ Len(accepted) \in Nat /\ Len(started) \in Nat
         /\ \A m \in Stats : stats[m] \in Nat
         /\ stats["matched"] \in Nat /\ stats["unmatched"] \in Nat
         /\ stats["log"] \in Nat /\ stats["queued"] \in Nat
         /\ stats["dropped"] \in Nat /\ stats["started"] \in Nat
         /\ stats["succeeded"] \in Nat /\ stats["failed"] \in Nat
         /\ stats["panics"] \in Nat
<1>1. \A m \in Stats : stats[m] \in Nat
  BY DEF ATypeOK
<1>2. Uncounted \in {0, 1} /\ Unfinished \in {0, 1}
  BY DEF Uncounted, Unfinished
<1>3. dispatched \in Nat /\ Len(accepted) \in Nat /\ Len(started) \in Nat
  BY LenProperties DEF ATypeOK
<1> QED BY <1>1, <1>2, <1>3 DEF Stats

LEMMA MovesOver ==
  ASSUME NEW a \in Nat, NEW b \in Nat, NEW c \in Nat
  PROVE  a + b + c + 1 = a + b + (c + 1) + 0
OBVIOUS

\* What one count does to the counters.
LEMMA CountedOne ==
  ASSUME stats \in [Stats -> Nat], NEW n \in Stats, Counted({n})
  PROVE  /\ stats'[n] = stats[n] + 1
         /\ \A m \in Stats \ {n} : stats'[m] = stats[m]
         /\ \A m \in Stats : stats[m] \in Nat
BY DEF Counted

LEMMA DispatchBalance ==
  ASSUME OrderInv, Balanced, NEW source \in Sources, Dispatch(source)
  PROVE  Balanced'
<1> DEFINE c == bindings[source]
<1>0. ATypeOK
  BY DEF OrderInv
<1>1. /\ UNCHANGED <<worker, started>> /\ dispatched' = dispatched + 1
      /\ dispatched \in Nat /\ Uncounted = 0
      /\ \A m \in Stats : stats[m] \in Nat
  BY <1>0 DEF Dispatch, ATypeOK, Uncounted
<1>2. Unfinished' = Unfinished
  <2>1. input = "ready" /\ input' \in {"ready", "sent"}
    BY <1>0, BindingsAssumption, CommandsAssumption DEF Dispatch, ATypeOK
  <2> QED BY <1>1, <2>1 DEF Unfinished, Running
<1>3. CASE c = "Unmatched"
  <2>1. Counted({"unmatched"}) /\ UNCHANGED <<accepted, input>>
    BY <1>3, CommandsAssumption DEF Dispatch
  <2>2. /\ stats'["unmatched"] = stats["unmatched"] + 1 /\ stats'["matched"] = stats["matched"]
        /\ stats'["log"] = stats["log"] /\ stats'["queued"] = stats["queued"]
        /\ stats'["dropped"] = stats["dropped"] /\ stats'["started"] = stats["started"]
        /\ stats'["succeeded"] = stats["succeeded"] /\ stats'["failed"] = stats["failed"]
        /\ stats'["panics"] = stats["panics"]
    BY <1>0, <2>1 DEF Counted, Stats, ATypeOK
  <2>3. Uncounted' = 0
    BY <1>1, <2>1 DEF Uncounted
  <2>4. GesturesCounted'
    BY <1>0, <1>1, <1>2, CounterTypes, <2>1, <2>2, <2>3 DEF Balanced, GesturesCounted
  <2>5. CommandsCounted'
    BY <1>0, <1>1, <1>2, CounterTypes, <2>1, <2>2, <2>3 DEF Balanced, CommandsCounted
  <2>6. AcceptedCounted'
    BY <1>0, <1>1, <1>2, CounterTypes, <2>1, <2>2, <2>3 DEF Balanced, AcceptedCounted
  <2>7. StartsCounted'
    BY <1>0, <1>1, <1>2, CounterTypes, <2>1, <2>2, <2>3 DEF Balanced, StartsCounted
  <2>8. OutcomesCounted'
    BY <1>0, <1>1, <1>2, CounterTypes, <2>1, <2>2, <2>3 DEF Balanced, OutcomesCounted
  <2> QED BY <2>4, <2>5, <2>6, <2>7, <2>8 DEF Balanced
<1>4. CASE c = "Log"
  <2>1. Counted({"matched", "log"}) /\ UNCHANGED <<accepted, input>>
    BY <1>4, CommandsAssumption DEF Dispatch
  <2>2. /\ stats'["matched"] = stats["matched"] + 1 /\ stats'["log"] = stats["log"] + 1
        /\ stats'["unmatched"] = stats["unmatched"] /\ stats'["queued"] = stats["queued"]
        /\ stats'["dropped"] = stats["dropped"] /\ stats'["started"] = stats["started"]
        /\ stats'["succeeded"] = stats["succeeded"] /\ stats'["failed"] = stats["failed"]
        /\ stats'["panics"] = stats["panics"]
    BY <1>0, <2>1 DEF Counted, Stats, ATypeOK
  <2>3. Uncounted' = 0
    BY <1>1, <2>1 DEF Uncounted
  <2>4. GesturesCounted'
    BY <1>0, <1>1, <1>2, CounterTypes, <2>1, <2>2, <2>3 DEF Balanced, GesturesCounted
  <2>5. CommandsCounted'
    BY <1>0, <1>1, <1>2, CounterTypes, <2>1, <2>2, <2>3 DEF Balanced, CommandsCounted
  <2>6. AcceptedCounted'
    BY <1>0, <1>1, <1>2, CounterTypes, <2>1, <2>2, <2>3 DEF Balanced, AcceptedCounted
  <2>7. StartsCounted'
    BY <1>0, <1>1, <1>2, CounterTypes, <2>1, <2>2, <2>3 DEF Balanced, StartsCounted
  <2>8. OutcomesCounted'
    BY <1>0, <1>1, <1>2, CounterTypes, <2>1, <2>2, <2>3 DEF Balanced, OutcomesCounted
  <2> QED BY <2>4, <2>5, <2>6, <2>7, <2>8 DEF Balanced
<1>5. CASE c \in Commands /\ (Gone \/ Len(queue) >= Capacity)
  <2>1. Counted({"matched", "dropped"}) /\ UNCHANGED <<accepted, input>>
    BY <1>5, CommandsAssumption DEF Dispatch
  <2>2. /\ stats'["matched"] = stats["matched"] + 1 /\ stats'["dropped"] = stats["dropped"] + 1
        /\ stats'["unmatched"] = stats["unmatched"] /\ stats'["log"] = stats["log"]
        /\ stats'["queued"] = stats["queued"] /\ stats'["started"] = stats["started"]
        /\ stats'["succeeded"] = stats["succeeded"] /\ stats'["failed"] = stats["failed"]
        /\ stats'["panics"] = stats["panics"]
    BY <1>0, <2>1 DEF Counted, Stats, ATypeOK
  <2>3. Uncounted' = 0
    BY <1>1, <2>1 DEF Uncounted
  <2>4. GesturesCounted'
    BY <1>0, <1>1, <1>2, CounterTypes, <2>1, <2>2, <2>3 DEF Balanced, GesturesCounted
  <2>5. CommandsCounted'
    BY <1>0, <1>1, <1>2, CounterTypes, <2>1, <2>2, <2>3 DEF Balanced, CommandsCounted
  <2>6. AcceptedCounted'
    BY <1>0, <1>1, <1>2, CounterTypes, <2>1, <2>2, <2>3 DEF Balanced, AcceptedCounted
  <2>7. StartsCounted'
    BY <1>0, <1>1, <1>2, CounterTypes, <2>1, <2>2, <2>3 DEF Balanced, StartsCounted
  <2>8. OutcomesCounted'
    BY <1>0, <1>1, <1>2, CounterTypes, <2>1, <2>2, <2>3 DEF Balanced, OutcomesCounted
  <2> QED BY <2>4, <2>5, <2>6, <2>7, <2>8 DEF Balanced
<1>6. CASE c \in Commands /\ ~(Gone \/ Len(queue) >= Capacity)
  <2>1. /\ Counted({"matched"}) /\ accepted' = Append(accepted, c) /\ input' = "sent"
    BY <1>6, CommandsAssumption DEF Dispatch
  <2>2. /\ stats'["matched"] = stats["matched"] + 1 /\ stats'["unmatched"] = stats["unmatched"]
        /\ stats'["log"] = stats["log"] /\ stats'["queued"] = stats["queued"]
        /\ stats'["dropped"] = stats["dropped"] /\ stats'["started"] = stats["started"]
        /\ stats'["succeeded"] = stats["succeeded"] /\ stats'["failed"] = stats["failed"]
        /\ stats'["panics"] = stats["panics"]
    BY <1>0, <2>1 DEF Counted, Stats, ATypeOK
  <2>3. Len(accepted') = Len(accepted) + 1
    BY <1>0, <1>6, <2>1, AppendProperties DEF ATypeOK
  <2>4. Uncounted' = 1
    BY <2>1 DEF Uncounted
  <2>5. GesturesCounted'
    BY <1>0, <1>1, <1>2, CounterTypes, <2>1, <2>2, <2>3, <2>4 DEF Balanced, GesturesCounted
  <2>6. CommandsCounted'
    BY <1>0, <1>1, <1>2, CounterTypes, <2>1, <2>2, <2>3, <2>4 DEF Balanced, CommandsCounted
  <2>7. AcceptedCounted'
    BY <1>0, <1>1, <1>2, CounterTypes, <2>1, <2>2, <2>3, <2>4 DEF Balanced, AcceptedCounted
  <2>8. StartsCounted'
    BY <1>0, <1>1, <1>2, CounterTypes, <2>1, <2>2, <2>3, <2>4 DEF Balanced, StartsCounted
  <2>9. OutcomesCounted'
    BY <1>0, <1>1, <1>2, CounterTypes, <2>1, <2>2, <2>3, <2>4 DEF Balanced, OutcomesCounted
  <2> QED BY <2>5, <2>6, <2>7, <2>8, <2>9 DEF Balanced
<1> QED
  BY <1>0, <1>3, <1>4, <1>5, <1>6, BindingsAssumption DEF ATypeOK

LEMMA InputBalance ==
  ASSUME OrderInv, Attended, Balanced, InputStep
  PROVE  Balanced'
<1>0. ATypeOK
  BY DEF OrderInv
<1>1. CASE CountQueued
  <2>1. /\ stats'["queued"] = stats["queued"] + 1 /\ stats'["matched"] = stats["matched"]
        /\ stats'["unmatched"] = stats["unmatched"] /\ stats'["log"] = stats["log"]
        /\ stats'["dropped"] = stats["dropped"] /\ stats'["started"] = stats["started"]
        /\ stats'["succeeded"] = stats["succeeded"] /\ stats'["failed"] = stats["failed"]
        /\ stats'["panics"] = stats["panics"]
    BY <1>0, <1>1 DEF CountQueued, Counted, Stats, ATypeOK
  <2>2. Uncounted = 1 /\ Uncounted' = 0 /\ Unfinished' = Unfinished
    BY <1>1 DEF CountQueued, Uncounted, Unfinished, Running
  <2>3. GesturesCounted'
    BY <1>0, <1>1, <2>1, <2>2, CounterTypes DEF Balanced, GesturesCounted, CountQueued
  <2>4. CommandsCounted'
    <3>1. stats["matched"] = stats["log"] + stats["dropped"] + stats["queued"] + 1
      BY <2>2 DEF Balanced, CommandsCounted
    <3>0. stats["log"] \in Nat /\ stats["dropped"] \in Nat /\ stats["queued"] \in Nat
      BY <1>0, CounterTypes
    <3>2. stats["log"] + stats["dropped"] + stats["queued"] + 1
          = stats["log"] + stats["dropped"] + (stats["queued"] + 1) + 0
      BY <3>0, MovesOver
    <3> QED
      BY <2>1, <2>2, <3>1, <3>2 DEF CommandsCounted
  <2>5. AcceptedCounted'
    BY <1>0, <1>1, <2>1, <2>2, CounterTypes DEF Balanced, AcceptedCounted, CountQueued
  <2>6. StartsCounted'
    BY <1>0, <1>1, <2>1, <2>2, CounterTypes DEF Balanced, StartsCounted, CountQueued
  <2>7. OutcomesCounted'
    BY <1>0, <1>1, <2>1, <2>2, CounterTypes DEF Balanced, OutcomesCounted, CountQueued
  <2> QED BY <2>3, <2>4, <2>5, <2>6, <2>7 DEF Balanced
<1>2. CASE CloseChannel
  <2>1. Uncounted' = Uncounted /\ Unfinished' = Unfinished
    BY <1>2 DEF CloseChannel, Uncounted, Unfinished, Running
  <2> QED BY <1>2, <2>1, BalanceUnmoved DEF CloseChannel
<1>3. CASE PollJoin
  <2>1. Uncounted' = Uncounted /\ Unfinished' = Unfinished
    BY <1>3 DEF PollJoin, Uncounted, Unfinished, Running
  <2> QED BY <1>3, <2>1, BalanceUnmoved DEF PollJoin
<1>4. CASE GiveUp
  <2>1. /\ stats'["matched"] = stats["matched"] /\ stats'["unmatched"] = stats["unmatched"]
        /\ stats'["log"] = stats["log"] /\ stats'["queued"] = stats["queued"]
        /\ stats'["dropped"] = stats["dropped"] /\ stats'["started"] = stats["started"]
        /\ stats'["succeeded"] = stats["succeeded"] /\ stats'["failed"] = stats["failed"]
        /\ stats'["panics"] = stats["panics"]
    BY <1>0, <1>4 DEF GiveUp, Counted, Stats, ATypeOK
  <2>2. Uncounted' = Uncounted /\ Unfinished' = Unfinished
    BY <1>4 DEF GiveUp, Uncounted, Unfinished, Running
  <2>3. GesturesCounted'
    BY <1>0, <1>4, <2>1, <2>2, CounterTypes DEF Balanced, GesturesCounted, GiveUp
  <2>4. CommandsCounted'
    BY <1>0, <1>4, <2>1, <2>2, CounterTypes DEF Balanced, CommandsCounted, GiveUp
  <2>5. AcceptedCounted'
    BY <1>0, <1>4, <2>1, <2>2, CounterTypes DEF Balanced, AcceptedCounted, GiveUp
  <2>6. StartsCounted'
    BY <1>0, <1>4, <2>1, <2>2, CounterTypes DEF Balanced, StartsCounted, GiveUp
  <2>7. OutcomesCounted'
    BY <1>0, <1>4, <2>1, <2>2, CounterTypes DEF Balanced, OutcomesCounted, GiveUp
  <2> QED BY <2>3, <2>4, <2>5, <2>6, <2>7 DEF Balanced
<1>5. CASE Join
  <2>1. Uncounted = 0 /\ Uncounted' = 0 /\ Unfinished' = 0 /\ Gone
    BY <1>5 DEF Join, Uncounted, Unfinished, Running, Gone
  <2>2. CASE worker = "panicked"
    <3>1. /\ stats'["panics"] = stats["panics"] + 1 /\ stats'["matched"] = stats["matched"]
          /\ stats'["unmatched"] = stats["unmatched"] /\ stats'["log"] = stats["log"]
          /\ stats'["queued"] = stats["queued"] /\ stats'["dropped"] = stats["dropped"]
          /\ stats'["started"] = stats["started"] /\ stats'["succeeded"] = stats["succeeded"]
          /\ stats'["failed"] = stats["failed"]
      BY <1>0, <1>5, <2>2 DEF Join, Counted, Stats, ATypeOK
    <3>2. Unfinished = 1
      BY <1>5, <2>2 DEF Join, Unfinished
    <3>3. GesturesCounted'
      BY <1>0, <1>5, <2>1, <3>1, <3>2, CounterTypes DEF Balanced, GesturesCounted, Join
    <3>4. CommandsCounted'
      BY <1>0, <1>5, <2>1, <3>1, <3>2, CounterTypes DEF Balanced, CommandsCounted, Join
    <3>5. AcceptedCounted'
      BY <1>0, <1>5, <2>1, <3>1, <3>2, CounterTypes DEF Balanced, AcceptedCounted, Join
    <3>6. StartsCounted'
      BY <1>0, <1>5, <2>1, <3>1, <3>2, CounterTypes DEF Balanced, StartsCounted, Join
    <3>7. OutcomesCounted'
      <4>1. stats["started"] =
              stats["succeeded"] + stats["failed"] + stats["panics"] + 1
        BY <3>2 DEF Balanced, OutcomesCounted
      <4>0. /\ stats["succeeded"] \in Nat /\ stats["failed"] \in Nat
            /\ stats["panics"] \in Nat
        BY <1>0, CounterTypes
      <4>2. stats["succeeded"] + stats["failed"] + stats["panics"] + 1
            = stats["succeeded"] + stats["failed"] + (stats["panics"] + 1) + 0
        BY <4>0, MovesOver
      <4> QED
        BY <2>1, <3>1, <4>1, <4>2 DEF OutcomesCounted
    <3> QED BY <3>3, <3>4, <3>5, <3>6, <3>7 DEF Balanced
  <2>3. CASE worker # "panicked"
    <3>1. /\ stats'["matched"] = stats["matched"] /\ stats'["unmatched"] = stats["unmatched"]
          /\ stats'["log"] = stats["log"] /\ stats'["queued"] = stats["queued"]
          /\ stats'["dropped"] = stats["dropped"] /\ stats'["started"] = stats["started"]
          /\ stats'["succeeded"] = stats["succeeded"] /\ stats'["failed"] = stats["failed"]
          /\ stats'["panics"] = stats["panics"]
      BY <1>0, <1>5, <2>3 DEF Join, Counted, Stats, ATypeOK
    <3>2. Unfinished = 0
      BY <2>1, <2>3 DEF Unfinished, Running, Gone
    <3>3. GesturesCounted'
      BY <1>0, <1>5, <2>1, <3>1, <3>2, CounterTypes DEF Balanced, GesturesCounted, Join
    <3>4. CommandsCounted'
      BY <1>0, <1>5, <2>1, <3>1, <3>2, CounterTypes DEF Balanced, CommandsCounted, Join
    <3>5. AcceptedCounted'
      BY <1>0, <1>5, <2>1, <3>1, <3>2, CounterTypes DEF Balanced, AcceptedCounted, Join
    <3>6. StartsCounted'
      BY <1>0, <1>5, <2>1, <3>1, <3>2, CounterTypes DEF Balanced, StartsCounted, Join
    <3>7. OutcomesCounted'
      BY <2>1, <3>1, <3>2 DEF Balanced, OutcomesCounted
    <3> QED BY <3>3, <3>4, <3>5, <3>6, <3>7 DEF Balanced
  <2> QED BY <2>2, <2>3
<1> QED
  BY <1>1, <1>2, <1>3, <1>4, <1>5 DEF InputStep

\* The runner's answer moves one command from "unfinished" to its outcome.
LEMMA ReturnBalance ==
  ASSUME OrderInv, Balanced, NEW o \in {"succeeded", "failed"}, Counted({o}),
         Running, ~Running', worker' # "panicked",
         UNCHANGED <<input, dispatched, accepted, started>>
  PROVE  Balanced'
<1>0. ATypeOK
  BY DEF OrderInv
<1>1. /\ stats'[o] = stats[o] + 1
      /\ \A m \in Stats \ {o} : stats'[m] = stats[m]
  BY <1>0, CountedOne DEF ATypeOK, Stats
<1>2. /\ Unfinished = 1 /\ Unfinished' = 0 /\ Uncounted' = Uncounted
  BY DEF Unfinished, Uncounted
<1>3. CASE o = "succeeded"
  <2>1. /\ stats'["succeeded"] = stats["succeeded"] + 1
        /\ stats'["matched"] = stats["matched"] /\ stats'["unmatched"] = stats["unmatched"]
        /\ stats'["log"] = stats["log"] /\ stats'["queued"] = stats["queued"]
        /\ stats'["dropped"] = stats["dropped"] /\ stats'["started"] = stats["started"]
        /\ stats'["failed"] = stats["failed"] /\ stats'["panics"] = stats["panics"]
    BY <1>1, <1>3 DEF Stats
  <2>2. GesturesCounted'
    BY <1>0, <1>2, <2>1, CounterTypes DEF Balanced, GesturesCounted
  <2>3. CommandsCounted'
    BY <1>0, <1>2, <2>1, CounterTypes DEF Balanced, CommandsCounted
  <2>4. AcceptedCounted'
    BY <1>0, <1>2, <2>1, CounterTypes DEF Balanced, AcceptedCounted
  <2>5. StartsCounted'
    BY <1>0, <1>2, <2>1, CounterTypes DEF Balanced, StartsCounted
  <2>6. OutcomesCounted'
    BY <1>0, <1>2, <2>1, CounterTypes DEF Balanced, OutcomesCounted
  <2> QED BY <2>2, <2>3, <2>4, <2>5, <2>6 DEF Balanced
<1>4. CASE o = "failed"
  <2>1. /\ stats'["failed"] = stats["failed"] + 1
        /\ stats'["matched"] = stats["matched"] /\ stats'["unmatched"] = stats["unmatched"]
        /\ stats'["log"] = stats["log"] /\ stats'["queued"] = stats["queued"]
        /\ stats'["dropped"] = stats["dropped"] /\ stats'["started"] = stats["started"]
        /\ stats'["succeeded"] = stats["succeeded"] /\ stats'["panics"] = stats["panics"]
    BY <1>1, <1>4 DEF Stats
  <2>2. GesturesCounted'
    BY <1>0, <1>2, <2>1, CounterTypes DEF Balanced, GesturesCounted
  <2>3. CommandsCounted'
    BY <1>0, <1>2, <2>1, CounterTypes DEF Balanced, CommandsCounted
  <2>4. AcceptedCounted'
    BY <1>0, <1>2, <2>1, CounterTypes DEF Balanced, AcceptedCounted
  <2>5. StartsCounted'
    BY <1>0, <1>2, <2>1, CounterTypes DEF Balanced, StartsCounted
  <2>6. OutcomesCounted'
    <3>1. stats["started"] =
            stats["succeeded"] + stats["failed"] + stats["panics"] + 1
      BY <1>2 DEF Balanced, OutcomesCounted
    <3>2. stats["succeeded"] + stats["failed"] + stats["panics"] + 1
          = stats["succeeded"] + (stats["failed"] + 1) + stats["panics"] + 0
      BY <1>0, CounterTypes
    <3> QED
      BY <1>2, <2>1, <3>1, <3>2 DEF OutcomesCounted
  <2> QED BY <2>2, <2>3, <2>4, <2>5, <2>6 DEF Balanced
<1> QED BY <1>3, <1>4

LEMMA WorkerBalance ==
  ASSUME OrderInv, Attended, Balanced, WorkerStep
  PROVE  Balanced'
<1>0. ATypeOK
  BY DEF OrderInv
<1>1. UNCHANGED inputVars /\ UNCHANGED accepted /\ ~Gone
  BY DEF WorkerStep, Check, Receive, Disconnected, Recheck, StartCommand, Spawn,
     SpawnFails, RunnerPanics, PollChild, Interrupt, Kill, KillMisses, Reap, Return,
     WorkerAt, Gone
<1>2. UNCHANGED <<input, dispatched>> /\ Uncounted' = Uncounted /\ input # "joined"
  BY <1>1 DEF inputVars, Uncounted, Attended
<1>3. CASE Check \/ Receive \/ Disconnected \/ Recheck
  <2>1. /\ UNCHANGED <<stats, started>>
        /\ ~Running /\ ~Running' /\ worker # "panicked" /\ worker' # "panicked"
    BY <1>3 DEF Check, Receive, Disconnected, Recheck, WorkerAt, Running
  <2>2. Unfinished' = Unfinished
    BY <2>1 DEF Unfinished
  <2> QED BY <1>1, <1>2, <2>1, <2>2, BalanceUnmoved
<1>4. CASE StartCommand
  <2>1. /\ stats'["started"] = stats["started"] + 1 /\ stats'["matched"] = stats["matched"]
        /\ stats'["unmatched"] = stats["unmatched"] /\ stats'["log"] = stats["log"]
        /\ stats'["queued"] = stats["queued"] /\ stats'["dropped"] = stats["dropped"]
        /\ stats'["succeeded"] = stats["succeeded"] /\ stats'["failed"] = stats["failed"]
        /\ stats'["panics"] = stats["panics"]
    BY <1>0, <1>4 DEF StartCommand, Counted, Stats, ATypeOK
  <2>2. Len(started') = Len(started) + 1
    <3>1. started' = Append(started, command) /\ command \in Commands
      BY <1>4 DEF StartCommand, OrderInv, Holding
    <3> QED BY <1>0, <3>1, AppendProperties DEF ATypeOK
  <2>3. Unfinished = 0 /\ Unfinished' = 1
    BY <1>4 DEF StartCommand, WorkerAt, Unfinished, Running
  <2>4. GesturesCounted'
    BY <1>0, <1>1, <1>2, <2>1, <2>2, <2>3, CounterTypes DEF Balanced, GesturesCounted
  <2>5. CommandsCounted'
    BY <1>0, <1>1, <1>2, <2>1, <2>2, <2>3, CounterTypes DEF Balanced, CommandsCounted
  <2>6. AcceptedCounted'
    BY <1>0, <1>1, <1>2, <2>1, <2>2, <2>3, CounterTypes DEF Balanced, AcceptedCounted
  <2>7. StartsCounted'
    BY <1>0, <1>1, <1>2, <2>1, <2>2, <2>3, CounterTypes DEF Balanced, StartsCounted
  <2>8. OutcomesCounted'
    BY <1>0, <1>1, <1>2, <2>1, <2>2, <2>3, CounterTypes DEF Balanced, OutcomesCounted
  <2> QED BY <2>4, <2>5, <2>6, <2>7, <2>8 DEF Balanced
<1>5. CASE /\ UNCHANGED <<stats, started>> /\ Running
           /\ worker' \in {"poll", "interrupt", "kill", "reap", "reap killed", "panicked"}
  <2>1. Unfinished = 1 /\ Unfinished' = 1
    BY <1>2, <1>5 DEF Unfinished, Running
  <2> QED BY <1>1, <1>2, <1>5, <2>1, BalanceUnmoved
<1>6. CASE /\ \E o \in {"succeeded", "failed"} : Counted({o})
           /\ Running /\ worker' = "check" /\ UNCHANGED started
  BY <1>1, <1>2, <1>6, ReturnBalance DEF Running
<1>7. CASE Spawn \/ RunnerPanics \/ Kill
  BY <1>5, <1>7 DEF Spawn, RunnerPanics, Kill, WorkerAt, Running
<1>8. CASE PollChild \/ Interrupt
  BY <1>5, <1>6, <1>8 DEF PollChild, Interrupt, Return, WorkerAt, Running, Outcome
<1>9. CASE SpawnFails \/ Reap
  BY <1>6, <1>9 DEF SpawnFails, Reap, Return, WorkerAt, Running, Outcome
<1>10. CASE KillMisses
  BY <1>5, <1>6, <1>10 DEF KillMisses, WorkerAt, Running
<1> QED
  BY <1>3, <1>4, <1>7, <1>8, <1>9, <1>10 DEF WorkerStep

LEMMA BalanceStep ==
  ASSUME OrderInv, Attended, Balanced, [ANext]_avars
  PROVE  Balanced'
<1>1. CASE \E source \in Sources : Dispatch(source)
  BY <1>1, DispatchBalance
<1>2. CASE InputStep
  BY <1>2, InputBalance
<1>3. CASE WorkerStep
  BY <1>3, WorkerBalance
<1>4. CASE \/ \E new \in Bindings : Rebind(new)
           \/ RequestShutdown \/ Exit \/ Die \/ Escape \/ UNCHANGED avars
  <2>1. /\ UNCHANGED <<stats, dispatched, accepted, started, worker>>
        /\ \/ UNCHANGED input
           \/ input = "ready" /\ input' = "closing"
    BY <1>4 DEF Rebind, RequestShutdown, Exit, Die, Escape, ChildStep, avars, inputVars
  <2>2. Uncounted' = Uncounted /\ Unfinished' = Unfinished
    BY <2>1 DEF Uncounted, Unfinished, Running
  <2> QED BY <2>1, <2>2, BalanceUnmoved
<1> QED
  BY <1>1, <1>2, <1>3, <1>4 DEF ANext

\* No gesture goes uncounted although two threads count: after a join every
\* command that was matched was logged, dropped, queued or run to a result, and
\* only a panic leaves one without, at every capacity and interleaving.
THEOREM CountersBalance == ASpec => []StatsBalance
<1>1. AInit => Balanced
  BY EmptySeq DEF AInit, Balanced, GesturesCounted, CommandsCounted, AcceptedCounted,
     StartsCounted, OutcomesCounted, Stats, Uncounted, Unfinished, Running
<1>2. OrderInv /\ Attended /\ Balanced => StatsBalance
  <2> SUFFICES ASSUME OrderInv, Attended, Balanced, input = "joined"
               PROVE  StatsBalance
    BY DEF StatsBalance
  <2>1. Uncounted = 0 /\ Unfinished = 0
    BY DEF Uncounted, Unfinished, Running, Attended, Gone
  <2>2. ATypeOK
    BY DEF OrderInv
  <2> QED
    BY <2>1, <2>2, CounterTypes DEF Balanced, GesturesCounted, CommandsCounted, AcceptedCounted,
     StartsCounted, OutcomesCounted, StatsBalance
<1>3. AInit => Attended
  BY DEF AInit, Attended
<1>4. ASpec => []Attended
  BY <1>3, AttendedStep, OrderInvariant, PTL DEF ASpec
<1> QED
  BY <1>1, <1>2, <1>4, BalanceStep, OrderInvariant, PTL DEF ASpec

-----------------------------------------------------------------------------
(* Taking the touchpad and giving it back.                                 *)

Before == {"open", "check", "build", "grab"}
During == {"read slots", "ready", "run", "settle", "rest"}
Stages == Before \cup During \cup {"ungrab", "leave", "ended"}
Events == Places \cup {None}

TypeInv ==
  /\ finger \in Events /\ touches \in 0..MaxTouches
  /\ stage \in Stages
  /\ grabbed \in BOOLEAN /\ raced \in BOOLEAN
  /\ inbox \in Seq(Events)
  /\ desk \in [physical : BOOLEAN, virtual : BOOLEAN]

\* The grab is taken and given back in order.
GrabInv ==
  /\ stage \in Before \cup {"ended"} => ~grabbed
  /\ stage \in During => grabbed

\* The first error of all that come before the cleanup ends the way there.
ErrorInv ==
  /\ result = failures
  /\ stage \in Before \cup {"read slots", "ready", "run"} => failures = {}

\* Before the grab the desktop has the physical finger, and unless one comes
\* down too late there is none when the grab is taken.
PhysicalInv ==
  /\ stage \in Before => (desk.physical <=> finger # None)
  /\ stage \in {"build", "grab"} /\ ~raced => finger = None
  /\ stage \in During /\ ~raced => ~desk.physical

\* The virtual touchpad has a contact in a run only, unless it refused to be
\* made neutral.
VirtualInv == desk.virtual => stage \in {"run", "settle"} \/ "settle" \in failures

\* From the idle check on the events tell of the finger, or the virtual touchpad
\* has it already.
InboxInv ==
  /\ stage \in {"check", "build", "grab", "read slots", "ready", "run"} =>
       (inbox # <<>> => inbox[Len(inbox)] = finger)
  /\ stage \in {"build", "grab", "read slots", "ready", "run"} =>
       (inbox = <<>> => (desk.virtual <=> finger \in Central))
  /\ stage = "open" => inbox = <<>>

TInv ==
  TypeInv /\ GrabInv /\ ErrorInv /\ PhysicalInv /\ VirtualInv /\ InboxInv

USE DEF None

-----------------------------------------------------------------------------
(* Queues                                                                  *)

\* What is appended is the last, and the queue is not empty then.
LEMMA AppendLast ==
  ASSUME NEW S, NEW q \in Seq(S), NEW x \in S
  PROVE  /\ Append(q, x) \in Seq(S) /\ Append(q, x) # <<>>
         /\ Append(q, x)[Len(Append(q, x))] = x
OBVIOUS

\* The tail ends as the queue does, or was its only element.
LEMMA TailLast ==
  ASSUME NEW S, NEW q \in Seq(S), q # <<>>
  PROVE  /\ Tail(q) \in Seq(S) /\ Head(q) \in S
         /\ Tail(q) # <<>> => Tail(q)[Len(Tail(q))] = q[Len(q)]
         /\ Tail(q) = <<>> => Head(q) = q[Len(q)]
<1>1. Tail(q) \in Seq(S) /\ Head(q) \in S /\ Len(q) \in Nat /\ Len(q) >= 1
  OBVIOUS
<1>2. Len(Tail(q)) = Len(q) - 1
  BY <1>1
<1>3. CASE Tail(q) # <<>>
  <2>1. Len(q) - 1 \in 1..Len(Tail(q))
    BY <1>1, <1>2, <1>3
  <2>2. Tail(q)[Len(q) - 1] = q[Len(q)]
    BY <1>1, <2>1
  <2> QED BY <1>1, <1>2, <1>3, <2>2
<1>4. CASE Tail(q) = <<>>
  <2>1. Len(Tail(q)) = 0
    <3>1. Len(<<>>) = 0
      OBVIOUS
    <3> QED BY <3>1, <1>4, Zenon
  <2>2. Len(q) = 1
    <3> DEFINE n == Len(q)
    <3>1. n \in Nat /\ n - 1 = 0
      BY <1>1, <1>2, <2>1
    <3> HIDE DEF n
    <3>2. n = 1
      BY ONLY <3>1
    <3> QED BY <3>2 DEF n
  <2> QED BY <1>1, <1>4, <2>2
<1> QED BY <1>3, <1>4

-----------------------------------------------------------------------------
(* The finger                                                              *)

LEMMA DeliveredKeeps ==
  ASSUME TInv, NEW event \in Events, Delivered(event), finger' = event
  PROVE  /\ GrabInv' /\ ErrorInv' /\ VirtualInv' /\ InboxInv'
         /\ inbox' \in Seq(Events) /\ desk' \in [physical : BOOLEAN, virtual : BOOLEAN]
         /\ desk'.virtual = desk.virtual
         /\ desk'.physical = (IF grabbed THEN desk.physical ELSE event # None)
<1> USE DEF TInv, Delivered
<1>1. /\ desk' \in [physical : BOOLEAN, virtual : BOOLEAN]
      /\ desk'.virtual = desk.virtual
      /\ desk'.physical = (IF grabbed THEN desk.physical ELSE event # None)
  BY DEF TypeInv
<1>2. GrabInv'
  BY DEF GrabInv
<1>3. ErrorInv'
  BY DEF ErrorInv
<1>4. VirtualInv'
  BY <1>1 DEF VirtualInv
<1>5. inbox' \in Seq(Events) /\ InboxInv'
  <2>1. CASE IsOpen
    <3>1. inbox' = Append(inbox, event)
      BY <2>1
    <3>2. inbox' \in Seq(Events) /\ inbox' # <<>> /\ inbox'[Len(inbox')] = event
      BY <3>1, AppendLast DEF TypeInv
    <3> QED BY <2>1, <3>2 DEF InboxInv, IsOpen
  <2>2. CASE ~IsOpen
    BY <2>2 DEF IsOpen, InboxInv, TypeInv
  <2> QED BY <2>1, <2>2
<1> QED BY <1>1, <1>2, <1>3, <1>4, <1>5

LEMMA FingerKeeps ==
  ASSUME TInv, Lift \/ \E place \in Places : Touch(place)
  PROVE  TInv'
<1>1. PICK event \in Events :
        /\ Delivered(event) /\ finger' = event
        /\ touches' \in 0..MaxTouches
        /\ raced' = (raced \/ (event # None /\ stage \in {"build", "grab"}))
        /\ stage' = stage /\ grabbed' = grabbed
  <2>1. CASE Lift
    <3>1. None \in Events
      BY DEF Events
    <3> QED BY <2>1, <3>1 DEF Lift, Delivered, TInv, TypeInv
  <2>2. CASE \E place \in Places : Touch(place)
    <3>1. PICK place \in Places : Touch(place)
      BY <2>2
    <3>2. place \in Events /\ place # None
      BY PlacesAssumption DEF Events
    <3>3. touches' \in 0..MaxTouches
      BY <3>1, TouchesAssumption DEF Touch, TInv, TypeInv
    <3> QED BY <3>1, <3>2, <3>3 DEF Touch, Delivered
  <2> QED BY <2>1, <2>2
<1>2. /\ GrabInv' /\ ErrorInv' /\ VirtualInv' /\ InboxInv'
      /\ inbox' \in Seq(Events) /\ desk' \in [physical : BOOLEAN, virtual : BOOLEAN]
      /\ desk'.physical = (IF grabbed THEN desk.physical ELSE event # None)
  BY <1>1, DeliveredKeeps
<1>3. TypeInv'
  BY <1>1, <1>2 DEF TInv, TypeInv
<1>4. PhysicalInv'
  BY <1>1, <1>2 DEF TInv, PhysicalInv, GrabInv, Before, During
<1> QED BY <1>2, <1>3, <1>4 DEF TInv

-----------------------------------------------------------------------------
(* The steps of the run                                                    *)

\* A step that changes nothing but the stage, or fails on the way to cleanup.
LEMMA PlainStepKeeps ==
  ASSUME TInv, NEW from \in Stages, NEW next \in Stages, stage = from,
         GoOn(next), UNCHANGED <<grabbed, desk>>,
         \/ from = "open" /\ next = "check"
         \/ from = "check" /\ next = "build" /\ finger = None
         \/ from = "build" /\ next = "grab"
         \/ from = "read slots" /\ next = "ready"
         \/ from = "ready" /\ next = "run"
         \/ from = "rest" /\ next = "ungrab"
  PROVE  TInv'
<1> USE DEF GoOn, world, TInv
<1>1. TypeInv'
  BY DEF TypeInv
<1>2. GrabInv'
  BY DEF GrabInv, Before, During
<1>3. ErrorInv'
  BY DEF ErrorInv, Before
<1>4. PhysicalInv'
  BY DEF PhysicalInv, Before, During
<1>5. VirtualInv'
  BY DEF VirtualInv
<1>6. InboxInv'
  <2>1. finger = None => finger \notin Central
    BY PlacesAssumption
  <2>2. from = "check" => ~desk.virtual
    BY DEF VirtualInv, ErrorInv, Before
  <2> QED BY <2>1, <2>2 DEF InboxInv
<1> QED BY <1>1, <1>2, <1>3, <1>4, <1>5, <1>6

LEMMA FailureKeeps ==
  ASSUME TInv, NEW from \in Stages, NEW next \in Stages, stage = from, NEW what,
         FailsTo(next, what),
         \/ from \in Before /\ next = "leave"
         \/ from \in {"read slots", "ready"} /\ next = "ungrab"
         \/ from = "run" /\ next = "settle"
  PROVE  TInv'
<1> USE DEF FailsTo, world, TInv
<1>1. TypeInv'
  BY DEF TypeInv
<1>2. GrabInv'
  BY DEF GrabInv, Before, During
<1>3. ErrorInv'
  BY DEF ErrorInv, Before
<1>4. PhysicalInv'
  BY DEF PhysicalInv, Before, During
<1>5. VirtualInv'
  BY DEF VirtualInv, Before
<1>6. InboxInv'
  BY DEF InboxInv
<1> QED BY <1>1, <1>2, <1>3, <1>4, <1>5, <1>6

LEMMA GrabKeeps ==
  ASSUME TInv, Grab
  PROVE  TInv'
<1>1. CASE FailsTo("leave", "grab")
  BY <1>1, FailureKeeps DEF Grab, Before, Stages
<1>2. CASE GoOn("read slots") /\ grabbed' = TRUE /\ UNCHANGED desk
  <2> USE <1>2 DEF Grab, GoOn, world, TInv
  <2>1. TypeInv'
    BY DEF TypeInv, Stages, During
  <2>2. GrabInv'
    BY DEF GrabInv, Before, During
  <2>3. ErrorInv'
    BY DEF ErrorInv, Before
  <2>4. PhysicalInv'
    BY DEF PhysicalInv, Before, During
  <2>5. VirtualInv'
    BY DEF VirtualInv
  <2>6. InboxInv'
    BY DEF InboxInv
  <2> QED BY <2>1, <2>2, <2>3, <2>4, <2>5, <2>6
<1> QED BY <1>1, <1>2 DEF Grab

\* Made neutral, the virtual touchpad has no contact at any stage.
LEMMA NeutralKeeps ==
  ASSUME TInv, NEW from \in Stages, NEW next \in Stages, stage = from,
         GoOn(next), desk' = [desk EXCEPT !.virtual = FALSE], UNCHANGED grabbed,
         \/ from = "run" /\ next = "settle"
         \/ from = "settle" /\ next = "rest"
  PROVE  TInv'
<1> USE DEF GoOn, world, TInv
<1>1. /\ desk' \in [physical : BOOLEAN, virtual : BOOLEAN]
      /\ desk'.virtual = FALSE /\ desk'.physical = desk.physical
  BY DEF TypeInv
<1>2. TypeInv'
  BY <1>1 DEF TypeInv
<1>3. GrabInv'
  BY DEF GrabInv, Before, During
<1>4. ErrorInv'
  BY DEF ErrorInv, Before
<1>5. PhysicalInv'
  BY <1>1 DEF PhysicalInv, Before, During
<1>6. VirtualInv'
  BY <1>1 DEF VirtualInv
<1>7. InboxInv'
  BY DEF InboxInv
<1> QED BY <1>2, <1>3, <1>4, <1>5, <1>6, <1>7

LEMMA ForwardKeeps ==
  ASSUME TInv, Forward
  PROVE  TInv'
<1>1. CASE FailsTo("settle", "run")
  BY <1>1, FailureKeeps DEF Forward, Stages, During
<1>2. CASE /\ inbox' = Tail(inbox)
           /\ desk' = [desk EXCEPT !.virtual = Head(inbox) \in Central]
           /\ UNCHANGED <<world, stage, grabbed, result, failures, raced>>
  <2> USE <1>2 DEF Forward, world, TInv
  <2>1. /\ inbox' \in Seq(Events)
        /\ inbox' # <<>> => inbox'[Len(inbox')] = inbox[Len(inbox)]
        /\ inbox' = <<>> => Head(inbox) = inbox[Len(inbox)]
    BY TailLast DEF TypeInv
  <2>2. /\ desk' \in [physical : BOOLEAN, virtual : BOOLEAN]
        /\ desk'.virtual <=> Head(inbox) \in Central
        /\ desk'.physical = desk.physical
    <3> DEFINE central == Head(inbox) \in Central
    <3>1. central \in BOOLEAN
      OBVIOUS
    <3>2. desk' = [desk EXCEPT !.virtual = central]
      OBVIOUS
    <3>3. desk \in [physical : BOOLEAN, virtual : BOOLEAN]
      BY DEF TypeInv
    <3> HIDE DEF central
    <3>4. /\ desk' \in [physical : BOOLEAN, virtual : BOOLEAN]
          /\ desk'.virtual = central /\ desk'.physical = desk.physical
      BY ONLY <3>1, <3>2, <3>3
    <3> QED BY <3>4 DEF central
  <2>3. TypeInv'
    BY <2>1, <2>2 DEF TypeInv
  <2>4. GrabInv'
    BY DEF GrabInv
  <2>5. ErrorInv'
    BY DEF ErrorInv
  <2>6. PhysicalInv'
    BY <2>2 DEF PhysicalInv
  <2>7. VirtualInv'
    BY DEF VirtualInv
  <2>8. InboxInv'
    BY <2>1, <2>2 DEF InboxInv
  <2> QED BY <2>3, <2>4, <2>5, <2>6, <2>7, <2>8
<1> QED BY <1>1, <1>2 DEF Forward

LEMMA SettleKeeps ==
  ASSUME TInv, Settle
  PROVE  TInv'
<1>1. CASE GoOn("rest") /\ desk' = [desk EXCEPT !.virtual = FALSE] /\ UNCHANGED grabbed
  BY <1>1, NeutralKeeps DEF Settle, Stages, During
<1>2. CASE /\ stage' = "rest"
           /\ failures' = failures \cup {"settle"} /\ result' = result \cup {"settle"}
           /\ UNCHANGED <<world, grabbed, inbox, desk, raced>>
  <2> USE <1>2 DEF Settle, world, TInv
  <2>1. TypeInv'
    BY DEF TypeInv, Stages, During
  <2>2. GrabInv'
    BY DEF GrabInv, Before, During
  <2>3. ErrorInv'
    BY DEF ErrorInv, Before
  <2>4. PhysicalInv'
    BY DEF PhysicalInv, Before, During
  <2>5. VirtualInv'
    BY DEF VirtualInv
  <2>6. InboxInv'
    BY DEF InboxInv
  <2> QED BY <2>1, <2>2, <2>3, <2>4, <2>5, <2>6
<1> QED BY <1>1, <1>2 DEF Settle

LEMMA UngrabKeeps ==
  ASSUME TInv, Ungrab
  PROVE  TInv'
<1>1. PICK cleanup : /\ failures' = failures \cup cleanup
                     /\ result' = result \cup cleanup
                     /\ grabbed' \in BOOLEAN
  BY DEF Ungrab, Combined
<1> USE DEF Ungrab, world, TInv
<1>2. TypeInv'
  BY <1>1 DEF TypeInv, Stages
<1>3. GrabInv'
  BY DEF GrabInv, Before, During
<1>4. ErrorInv'
  BY <1>1 DEF ErrorInv, Before
<1>5. PhysicalInv'
  BY DEF PhysicalInv, Before, During
<1>6. VirtualInv'
  BY <1>1 DEF VirtualInv
<1>7. InboxInv'
  BY DEF InboxInv
<1> QED BY <1>2, <1>3, <1>4, <1>5, <1>6, <1>7

LEMMA LeaveKeeps ==
  ASSUME TInv, Leave
  PROVE  TInv'
<1> USE DEF Leave, world, TInv
<1>1. /\ desk' \in [physical : BOOLEAN, virtual : BOOLEAN]
      /\ desk'.virtual = FALSE
  BY DEF TypeInv
<1>2. <<>> \in Seq(Events)
  OBVIOUS
<1>3. TypeInv'
  BY <1>1, <1>2 DEF TypeInv, Stages
<1>4. GrabInv'
  BY DEF GrabInv, Before, During
<1>5. ErrorInv'
  BY DEF ErrorInv, Before
<1>6. PhysicalInv'
  BY DEF PhysicalInv, Before, During
<1>7. VirtualInv'
  BY <1>1 DEF VirtualInv
<1>8. InboxInv'
  BY DEF InboxInv
<1> QED BY <1>3, <1>4, <1>5, <1>6, <1>7, <1>8

-----------------------------------------------------------------------------
(* The theorems                                                            *)

\* The inductive invariant of the takeover.
THEOREM TakeoverInvariant == TSpec => []TInv
<1>1. TInit => TInv
  <2> SUFFICES ASSUME TInit PROVE TInv
    OBVIOUS
  <2> USE DEF TInit
  <2>1. /\ desk \in [physical : BOOLEAN, virtual : BOOLEAN]
        /\ desk.virtual = FALSE /\ desk.physical = (finger # None)
    OBVIOUS
  <2>2. TypeInv
    <3>1. touches \in 0..MaxTouches
      BY TouchesAssumption
    <3>2. inbox \in Seq(Events)
      OBVIOUS
    <3> QED BY <2>1, <3>1, <3>2 DEF TypeInv, Stages, Before, Events
  <2>3. GrabInv /\ ErrorInv
    BY DEF GrabInv, ErrorInv, Before, During
  <2>4. PhysicalInv /\ VirtualInv /\ InboxInv
    BY <2>1 DEF PhysicalInv, VirtualInv, InboxInv, Before, During
  <2> QED BY <2>2, <2>3, <2>4 DEF TInv
<1>2. TInv /\ [TNext]_tvars => TInv'
  <2> SUFFICES ASSUME TInv, [TNext]_tvars PROVE TInv'
    OBVIOUS
  <2> USE DEF Stages, Before, During
  <2>1. CASE Lift \/ \E place \in Places : Touch(place)
    BY <2>1, FingerKeeps
  <2>2. CASE Open
    BY <2>2, PlainStepKeeps, FailureKeeps DEF Open
  <2>3. CASE CheckIdle
    BY <2>3, PlainStepKeeps, FailureKeeps DEF CheckIdle
  <2>4. CASE Build
    BY <2>4, PlainStepKeeps, FailureKeeps DEF Build
  <2>5. CASE Grab
    BY <2>5, GrabKeeps
  <2>6. CASE ReadSlots
    BY <2>6, PlainStepKeeps, FailureKeeps DEF ReadSlots
  <2>7. CASE Ready
    BY <2>7, PlainStepKeeps, FailureKeeps DEF Ready
  <2>8. CASE Forward
    BY <2>8, ForwardKeeps
  <2>9. CASE FinishRun
    BY <2>9, NeutralKeeps, FailureKeeps DEF FinishRun
  <2>10. CASE Settle
    BY <2>10, SettleKeeps
  <2>11. CASE Rest
    BY <2>11, PlainStepKeeps DEF Rest
  <2>12. CASE Ungrab
    BY <2>12, UngrabKeeps
  <2>13. CASE Leave
    BY <2>13, LeaveKeeps
  <2>14. CASE UNCHANGED tvars
    BY <2>14 DEF tvars, world, TInv, TypeInv, GrabInv, ErrorInv, PhysicalInv, VirtualInv,
                 InboxInv
  <2> QED BY <2>1, <2>2, <2>3, <2>4, <2>5, <2>6, <2>7, <2>8, <2>9, <2>10, <2>11, <2>12,
             <2>13, <2>14 DEF TNext, Step
<1> QED BY <1>1, <1>2, PTL DEF TSpec

\* The takeover is at one of its stages, with the grab where it belongs.
THEOREM TakeoverTypes == TSpec => []TTypeOK
<1>1. TInv => TTypeOK
  <2> SUFFICES ASSUME TInv PROVE TTypeOK
    OBVIOUS
  <2>1. \A i \in DOMAIN inbox : inbox[i] \in Events
    BY DEF TInv, TypeInv
  <2>2. grabbed => stage \in During \cup {"ungrab", "leave"}
    BY DEF TInv, TypeInv, GrabInv, Stages
  <2> QED BY <2>1, <2>2 DEF TInv, TypeInv, TTypeOK, Events, During
<1> QED BY <1>1, TakeoverInvariant, PTL

\* A finger is down on both touchpads only when it came down between the idle
\* check and the grab, or when the virtual touchpad refused to be made neutral.
THEOREM OnlyARaceDoubles == TSpec => []TwoStreamsNeedARace
<1>1. TInv => TwoStreamsNeedARace
  BY DEF TInv, PhysicalInv, VirtualInv, TwoStreamsNeedARace, During
<1> QED BY <1>1, TakeoverInvariant, PTL

\* No touch is lost between the desktop's stream and the proxy's.
THEOREM FingerIsFollowed == TSpec => []VirtualFollowsFinger
<1>1. TInv => VirtualFollowsFinger
  BY DEF TInv, InboxInv, VirtualFollowsFinger
<1> QED BY <1>1, TakeoverInvariant, PTL

\* Every failure of the run and of its cleanup reaches the caller.
THEOREM NothingIsHidden == TSpec => []FailuresAreReported
<1>1. TInv => FailuresAreReported
  BY DEF TInv, ErrorInv, FailuresAreReported
<1> QED BY <1>1, TakeoverInvariant, PTL

\* The physical touchpad is given back after the virtual one was made neutral.
THEOREM HandoverIsNeutral == TSpec => NeutralHandover
<1>1. TInv /\ [TNext]_tvars => [grabbed /\ ~grabbed' => ~desk.virtual \/ "settle" \in failures]_tvars
  <2> SUFFICES ASSUME TInv, TNext, grabbed, ~grabbed'
               PROVE  ~desk.virtual \/ "settle" \in failures
    OBVIOUS
  <2>1. stage \in {"ungrab", "leave"}
    <3>1. Ungrab \/ Leave
      BY DEF TNext, Step, Touch, Lift, Delivered, Open, CheckIdle, Build, Grab, ReadSlots,
             Ready, Forward, FinishRun, Settle, Rest, GoOn, FailsTo
    <3> QED BY <3>1 DEF Ungrab, Leave
  <2> QED BY <2>1 DEF TInv, VirtualInv
<1> QED BY <1>1, TakeoverInvariant, PTL DEF TSpec, NeutralHandover

=============================================================================
