----------------------------- MODULE MCPgStore ------------------------------
(***************************************************************************)
(* Small instances of the PostgreSQL store for TLC.                        *)
(***************************************************************************)
EXTENDS PgStore, TLC

CONSTANTS r1, r2, a, b, c, push

(* One run of two jobs, b needs a. *)
PairRunOf == (a :> r1) @@ (b :> r1)
PairPosition == (a :> 1) @@ (b :> 2)
PairDependsOn == (a :> {}) @@ (b :> {a})
PairCondition == (a :> "") @@ (b :> "")
PairDeliveryOf == r1 :> push

(* One run of one job. *)
SoloRunOf == a :> r1
SoloPosition == a :> 1
SoloDependsOn == a :> {}
SoloCondition == a :> ""

(* A delivery that may lead to run r1 (job a) or r2 (job c). *)
TwoRunOf == (a :> r1) @@ (c :> r2)
TwoPosition == (a :> 1) @@ (c :> 1)
TwoDependsOn == (a :> {}) @@ (c :> {})
TwoCondition == (a :> "") @@ (c :> "")
TwoDeliveryOf == (r1 :> push) @@ (r2 :> push)

SessionSymmetry == Permutations(Dispatcher) \cup Permutations(Handler)

=============================================================================
