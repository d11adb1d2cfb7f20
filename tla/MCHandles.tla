----------------------------- MODULE MCHandles ------------------------------
(* Two or three objects on a small heap; addresses are interchangeable.    *)
EXTENDS Handles, TLC

Symmetry == Permutations(Addresses) \union Permutations(Objects)
=============================================================================
