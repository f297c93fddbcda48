------------------------------ MODULE MCHDMezz ------------------------------
(* Instances of HDMezz for TLC.                                            *)
EXTENDS HDMezz
=============================================================================
