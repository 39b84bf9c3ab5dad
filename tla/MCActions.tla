------------------------------ MODULE MCActions ------------------------------
(* Small instances of ActionWorker for TLC.                                 *)
EXTENDS ActionWorker, TLC

CONSTANTS up, down, tap

\* Two configurations that disagree on a swipe; the tap has no binding.
SwipeIs(c) == tap :> "Unmatched" @@ down :> "Log" @@ up :> c
TwoBindings == {SwipeIs("old"), SwipeIs("new")}

=============================================================================
