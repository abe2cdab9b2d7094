---------------------------- MODULE MCScheduler ----------------------------
(***************************************************************************)
(* Small instances of the scheduling protocol for TLC.                     *)
(***************************************************************************)
EXTENDS Scheduler, TLC

CONSTANTS r1, a, b

(* One run of two jobs: a has a condition, b needs a. *)
PairRunOf == (a :> r1) @@ (b :> r1)
PairPosition == (a :> 1) @@ (b :> 2)
PairDependsOn == (a :> <<>>) @@ (b :> <<a>>)
PairCondition == (a :> "github") @@ (b :> "")

=============================================================================
