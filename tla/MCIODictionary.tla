--------------------------- MODULE MCIODictionary ---------------------------
(* Model values and bounds for checking IODictionary with TLC.  The hashes *)
(* make keys share a chain at capacity 5 (0 and 5, 1 and 11) and again at *)
(* capacity 11 (0 and 11).                                                 *)
EXTENDS IODictionary, TLC
CONSTANTS k1, k2, k3, k4, o1, o2
MCKeys == {k1, k2, k3, k4}
MCObjects == {o1, o2}
MCHash == (k1 :> 0 @@ k2 :> 5 @@ k3 :> 11 @@ k4 :> 1)
MCObjectSymmetry == Permutations(MCObjects)
=============================================================================
