------------------------------ MODULE MCBlocks ------------------------------
(* Instances of Blocks for TLC.                                            *)
EXTENDS Blocks
CONSTANTS p, q
MCModes == {{}, {p}}
=============================================================================
