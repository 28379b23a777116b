---------------------------- MODULE MCPinFrontEnd ----------------------------
(* Values for the constants of PinFrontEnd that a .cfg cannot write. *)
EXTENDS PinFrontEnd

MCThreads == 0..2

BlockSymmetry == Permutations(Bbls)
=============================================================================
