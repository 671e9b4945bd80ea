------------------------------ MODULE MCEduIrq ------------------------------
(* Instances of EduIrq for TLC.                                            *)
EXTENDS EduIrq, TLC

CONSTANTS a, b, c
=============================================================================
