--------------------------- MODULE MCBatchRollout ---------------------------
(***************************************************************************)
(* Small instances of BatchRollout for TLC.                                *)
(***************************************************************************)
EXTENDS BatchRollout

CONSTANTS o1, o2, o3, new

TwoOlds   == {o1, o2}
ThreeOlds == {o1, o2, o3}

(* Old ones in the order of their release; the new one created last.       *)
NewLast == [r \in Sets |-> (o1 :> 1 @@ o2 :> 2 @@ o3 :> 3 @@ new :> 4)[r]]

(* A rollback: the version being released was the first one.               *)
NewFirst == [r \in Sets |-> (o1 :> 2 @@ o2 :> 3 @@ o3 :> 4 @@ new :> 1)[r]]

AsCreated == [r \in Olds |-> Created[r]]

Zero    == Int32(0)
One     == Int32(1)
HalfAll == <<Percent(50), Percent(100)>>
OneAll  == <<Int32(1), Percent(100)>>

(* What users may write too: more than all, nonsense, less than before.    *)
OddPlan == <<Percent(150), Invalid, Int32(1), Percent(100)>>

Three  == {3}
Four   == {4}
TwoToFour == 2 .. 4
=============================================================================
