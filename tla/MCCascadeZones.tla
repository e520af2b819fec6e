---------------------------- MODULE MCCascadeZones ----------------------------
(***************************************************************************)
(* Four positions on two collaterals, small and large, from far under      *)
(* water to the threshold of 1.15, and a price drop of the large ones.     *)
(***************************************************************************)
EXTENDS CascadeZones, TLC

MCReadings ==
  {[coll |-> 17, debt |-> 20, hf |-> 85], [coll |-> 22, debt |-> 20, hf |-> 110],
   [coll |-> 23, debt |-> 20, hf |-> 115], [coll |-> 2000, debt |-> 1900, hf |-> 105],
   [coll |-> 700, debt |-> 499, hf |-> 98], [coll |-> 600, debt |-> 499, hf |-> 84]}

Symmetry == Permutations(PositionIds) \cup Permutations(Symbols)
=============================================================================
