----------------------------- MODULE MCScullDev -----------------------------
(* Instances of ScullDev for TLC.                                          *)
EXTENDS ScullDev, TLC

CONSTANTS a, b, c, p1, p2

ObjSymmetry == Permutations(Objs)
=============================================================================
