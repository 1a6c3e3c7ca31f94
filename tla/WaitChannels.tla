---------------------------- MODULE WaitChannels ----------------------------
(***************************************************************************)
(* What the wait channels promise (spec, "Wait channels"): wait(channel)   *)
(* suspends the caller on the channel; wakeup(channel) wakes every thread  *)
(* then waiting on it, at once; a woken thread returns from its wait once  *)
(* the scheduler runs it, and the scheduler runs every woken thread.  A    *)
(* thread returns only after a wakeup of the channel it waits on.          *)
(***************************************************************************)
CONSTANTS Threads, Channels, Running, Woken

ASSUME Running \notin Channels /\ Woken \notin Channels /\ Running # Woken

VARIABLE at   \* thread -> Running, the channel it waits on, or Woken

Init == at = [t \in Threads |-> Running]

(* wait(ch): the caller is suspended on ch. *)
Wait(t, ch) == at[t] = Running /\ at' = [at EXCEPT ![t] = ch]

(* wakeup(ch): every thread waiting on ch is woken in one step. *)
Wakeup(t, ch) ==
    /\ at[t] = Running
    /\ at' = [u \in Threads |-> IF at[u] = ch THEN Woken ELSE at[u]]

(* A woken thread returns from wait. *)
Return(t) == at[t] = Woken /\ at' = [at EXCEPT ![t] = Running]

Next ==
    \E t \in Threads :
        \/ \E ch \in Channels : Wait(t, ch) \/ Wakeup(t, ch)
        \/ Return(t)

Spec == Init /\ [][Next]_at /\ \A t \in Threads : WF_at(Return(t))
=============================================================================
