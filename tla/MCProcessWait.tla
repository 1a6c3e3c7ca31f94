---------------------------- MODULE MCProcessWait ----------------------------
(* A parent process with a main thread pm and a second thread p2, and a    *)
(* child process with one thread cm.                                       *)
EXTENDS ProcessWait, TLC
CONSTANTS pm, p2, cm, parent, child
MCThreads == {pm, p2, cm}
MCProcesses == {parent, child}
MCThreadsOf == (parent :> <<pm, p2>> @@ child :> <<cm>>)
MCWaitsFor == (pm :> {child} @@ p2 :> {} @@ cm :> {})
=============================================================================
