---------------------------- MODULE MCPointOfSale ----------------------------
(* PointOfSale for TLC: a cart of both items and one of two pieces.    *)
EXTENDS PointOfSale, TLC

Carts == {<<1, 1>>, <<2, 0>>}

CallSymmetry == Permutations(Call) \cup Permutations(Key)
=============================================================================
