-------------------------- MODULE MCGoEncoderPool --------------------------
(***************************************************************************)
(* Small message types for GoEncoderPool: a leaf, and a message with a     *)
(* scalar, a nested message and one that is not there.                     *)
(***************************************************************************)
EXTENDS GoEncoderPool, TLC

MCFields ==
  [Leaf |-> <<"scalar">>,
   Root |-> <<"scalar", "Leaf", "nil">>]

MCTypes == DOMAIN MCFields

Symmetry == Permutations(Goroutines)
=============================================================================
