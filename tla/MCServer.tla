------------------------------ MODULE MCServer ------------------------------
(***************************************************************************)
(* Small instances of the control plane for TLC.                           *)
(***************************************************************************)
EXTENDS Server, TLC

CONSTANTS r1, r2, a, b, c, push

(* A delivery whose run may get the ID r1 (job a, and b, which needs a and *)
(* runs only if a failed) or r2 (job c).                                   *)
MixRunOf == (a :> r1) @@ (b :> r1) @@ (c :> r2)
MixPosition == (a :> 1) @@ (b :> 2) @@ (c :> 1)
MixDependsOn == (a :> <<>>) @@ (b :> <<a>>) @@ (c :> <<>>)
MixCondition == (a :> "") @@ (b :> "failure") @@ (c :> "")
TwoDeliveryOf == (r1 :> push) @@ (r2 :> push)

(* A delivery whose run has one job: a, whose condition the handler finds  *)
(* false, maybe only after the loop has dispatched the job, or c, which    *)
(* has no condition.                                                       *)
SoloRunOf == (a :> r1) @@ (c :> r2)
SoloPosition == (a :> 1) @@ (c :> 1)
SoloDependsOn == (a :> <<>>) @@ (c :> <<>>)
SoloCondition == (a :> "never") @@ (c :> "")

=============================================================================
