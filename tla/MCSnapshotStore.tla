--------------------------- MODULE MCSnapshotStore ---------------------------
(***************************************************************************)
(* Two cycles that name the same block, or the second an earlier one; two  *)
(* positions on both sides of a threshold, pages of one position.          *)
(***************************************************************************)
EXTENDS SnapshotStore, TLC

CONSTANTS p1, p2

MCPositions == {p1, p2}
MCFeeds == {{p1}, {p1, p2}}
MCReadings ==
  {<<>>, p1 :> 110, p1 :> 99 @@ p2 :> 110, p1 :> 110 @@ p2 :> 99, p1 :> 99 @@ p2 :> 99}
=============================================================================
