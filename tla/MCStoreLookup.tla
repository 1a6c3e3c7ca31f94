---------------------------- MODULE MCStoreLookup ----------------------------
(* Names "a", "ab", "b" and a name with a byte above 127; one-page          *)
(* libraries at page-aligned bases, so two of them can be adjacent.        *)
EXTENDS StoreLookup, SysHelper, TLC
MCNameSet == {<<97>>, <<97, 98>>, <<98>>, <<200>>}
MCAddresses == 0..12
MCNameBytes == {95, 90, 97}                 \* '_', 'Z', 'a'
MCComponents == {<<97>>, <<97, 49>>, <<98, 99>>}  \* "a", "a1", "bc"
MCParamCodes == {<<118>>, <<105>>}           \* "v", "i"
MCModuleNames == {<<97>>, <<97, 98>>, <<98>>} \* "a", "ab", "b"
MCConsoleBytes == {14, 15, 17, 65} \* the two escapes, colour byte 17 (blue), "A"

(* The registry lookups and the helper calls interleave; neither touches  *)
(* the other's state.                                                     *)
MCInit == Init /\ HelperInit
MCNext == (Next /\ UNCHANGED helperVars) \/ (HelperCall /\ UNCHANGED vars)
MCSpec == MCInit /\ [][MCNext]_<<vars, helperVars>>
=============================================================================
