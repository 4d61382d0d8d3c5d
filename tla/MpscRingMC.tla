----------------------------- MODULE MpscRingMC -----------------------------
(***************************************************************************)
(* An instance of MpscRing for TLC.                                        *)
(***************************************************************************)
EXTENDS MpscRing

CONSTANTS p1, p2, p3

MCProducers == {p1, p2, p3}
=============================================================================
