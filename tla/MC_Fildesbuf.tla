---------------------------- MODULE MC_Fildesbuf ----------------------------
(* Instantiation of Fildesbuf for TLC: four bytes through a put area of    *)
(* two, so that it grows once and a write can split it.                    *)
EXTENDS Fildesbuf
=============================================================================
