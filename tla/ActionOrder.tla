----------------------------- MODULE ActionOrder -----------------------------
(***************************************************************************)
(* What the action dispatcher promises (src/actions.rs): the commands it   *)
(* accepts run one by one in the order of the gestures that asked for      *)
(* them, each at most once and as it was bound when the gesture came.      *)
(* Once shutdown is requested nothing that still waits may start: only a   *)
(* command the worker had committed itself to by then.                     *)
(***************************************************************************)
EXTENDS Naturals, Sequences

CONSTANT Commands

VARIABLES
  accepted,   \* the commands the dispatcher took, oldest first
  started,    \* those that were started
  committed,  \* the next one is about to start
  stopping    \* shutdown was requested
orderVars == <<accepted, started, committed, stopping>>

OrderInit ==
  /\ accepted = <<>> /\ started = <<>>
  /\ committed = FALSE /\ stopping = FALSE

Accept(c) ==
  /\ ~stopping
  /\ accepted' = Append(accepted, c)
  /\ UNCHANGED <<started, committed, stopping>>

Commit ==
  /\ ~stopping /\ ~committed
  /\ Len(started) < Len(accepted)
  /\ committed' = TRUE
  /\ UNCHANGED <<accepted, started, stopping>>

Start ==
  /\ committed
  /\ started' = Append(started, accepted[Len(started) + 1])
  /\ committed' = FALSE
  /\ UNCHANGED <<accepted, stopping>>

Request ==
  /\ stopping' = TRUE
  /\ UNCHANGED <<accepted, started, committed>>

OrderNext == (\E c \in Commands : Accept(c)) \/ Commit \/ Start \/ Request

OrderSpec == OrderInit /\ [][OrderNext]_orderVars

=============================================================================
