---------------------------- MODULE MCWaitqueue ----------------------------
(* Model values and bounds for checking Waitqueue with TLC.                *)
EXTENDS Waitqueue, TLC
CONSTANTS t1, t2, t3, c1, c2, e1, e2, e3
MCThreads == {t1, t2, t3}
MCChannels == {c1, c2}
MCEntries == {e1, e2, e3}
=============================================================================
