------------------------------ MODULE MCIoStore ------------------------------
(* Library names a and b with two objects each.  In the cyclic            *)
(* configuration a needs b and b needs a, and two threads add a1 and b1:  *)
(* a cycle loaded from both ends, whose nested loads take a2 and b2.  In   *)
(* the chain configuration a needs b, which needs nothing.                 *)
(*                                                                         *)
(* MCSpec interleaves the library store with the IPC ports: two port      *)
(* objects, made as receive or send-only ports or as rights of each other, *)
(* and two messages; each object has one receiver thread.  The           *)
(* two components share no state; the kernel runs both at once.           *)
EXTENDS IoStore, IPCPort, TLC
CONSTANTS t1, t2, a1, a2, b1, b2, a, b, o1, o2, m1, m2
MCTwoThreads == {t1, t2}
MCLibs == {a1, a2, b1, b2}
MCNames == {a, b}
MCName == (a1 :> a @@ a2 :> a @@ b1 :> b @@ b2 :> b)
MCNeedsCycle == (a :> <<b>> @@ b :> <<a>>)
MCNeedsChain == (a :> <<b>> @@ b :> <<>>)
MCStartCross == (t1 :> a1 @@ t2 :> b1)
MCStartSame == (t1 :> a1 @@ t2 :> a2)
MCPortObjs == {o1, o2}
MCMessages == {m1, m2}
MCReceivers == (o1 :> {t1} @@ o2 :> {t2})
MCInitRights == {{"Send", "Receive"}, {"Send"}} \* a receive port, a send-only port

MCInit == Init /\ IPCInit

MCNext == (Next /\ UNCHANGED ipcVars) \/ (IPCNext /\ UNCHANGED vars)

MCSpec == MCInit /\ [][MCNext]_<<vars, ipcVars>> /\ Fairness

(* The library store alone, the ports left in their initial state. *)
StoreSpec == MCInit /\ [][Next /\ UNCHANGED ipcVars]_<<vars, ipcVars>> /\ Fairness
=============================================================================
