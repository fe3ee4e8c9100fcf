------------------------- MODULE MCReleaseLifecycle -------------------------
(***************************************************************************)
(* Small instances of ReleaseLifecycle for TLC.  Hashes are numbers.       *)
(***************************************************************************)
EXTENDS ReleaseLifecycle, TLC

CONSTANTS a, b, f

TwoTemplates == {a, b}
OneFence     == {f}
Identity     == [t \in Templates |-> t]

(* No two templates collide.                                               *)
DistinctHash == a :> 1 @@ b :> 2

OneOrTwoSteps == {1, 2}
TwoSteps      == {2}
=============================================================================
