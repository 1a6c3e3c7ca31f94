----------------------------- MODULE MCZoneHeap -----------------------------
(* Model values and bounds for checking ZoneHeap with TLC.                 *)
EXTENDS ZoneHeap, TLC

CONSTANTS z1, z2

MCZoneIds == {z1, z2}
MCSymmetry == Permutations(MCZoneIds)
=============================================================================
