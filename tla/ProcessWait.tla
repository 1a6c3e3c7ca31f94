---------------------------- MODULE ProcessWait ----------------------------
(***************************************************************************)
(* The thread and process syscalls of src/sys/syscall/scthread.c and       *)
(* scprocess.c that block on, or end, a thread: _sc_threadJoin,           *)
(* _sc_threadExit, _sc_exit and _sc_wait, over the wait channels of        *)
(* Waitqueue.tla.                                                          *)
(*                                                                         *)
(* thread_join and the scheduler are not under src/.  From the spec:       *)
(* thread_join(waiter, target) blocks waiter on the channel &target (a     *)
(* Wait done for waiter); a thread is dead once it or its process died;    *)
(* the scheduler reaps a dead thread and, as it does, calls               *)
(* Wakeup(&thread), which faults when nobody is listed (waitqueue.cpp     *)
(* line 137).  After that fault the kernel is halted.  A thread          *)
(* whose block counter is raised by another thread stops at its next       *)
(* preemption; the model stops it at once.  Wakeup is one step here: the   *)
(* interleavings inside it are checked in Waitqueue.tla.                   *)
(***************************************************************************)
EXTENDS Integers, Sequences, SequencesExt

CONSTANTS
    Threads,      \* kernel threads
    Processes,    \* processes
    ThreadsOf,    \* process -> its thread list, mainThread first (thread->next order)
    WaitsFor      \* thread -> the processes whose pid it may pass to wait

ASSUME ThreadsOf \in [Processes -> Seq(Threads)] /\ WaitsFor \in [Threads -> SUBSET Processes]

Proc(t) == CHOOSE p \in Processes : Contains(ThreadsOf[p], t)
MainThread(p) == ThreadsOf[p][1]

VARIABLES
    pc,       \* thread -> "run", "sched" (in sd_schedule), "wait" (in _sc_wait)
    todo,     \* thread -> the threads its _sc_wait loop has still to join
    target,   \* thread -> the main thread its _sc_wait joins to
    blocks,   \* thread -> Thread::blocks
    queue,    \* thread -> the waiters listed on the channel &thread
    tdied,    \* thread -> thread->died
    died,     \* process -> process->died
    reaped,   \* threads the scheduler has reaped
    halted    \* the kernel faulted in Wakeup

vars == <<pc, todo, target, blocks, queue, tdied, died, reaped, halted>>

(* The scheduler skips a thread whose thread or process died. *)
Dead(t) == tdied[t] \/ died[Proc(t)]

(* A running thread that may enter a syscall. *)
Running(t) == pc[t] = "run" /\ blocks[t] = 0 /\ ~Dead(t) /\ ~halted

(* thread_join(waiter, th): block waiter and list it on &th. *)
Join(waiter, th) ==
    /\ blocks' = [blocks EXCEPT ![waiter] = @ + 1]
    /\ queue' = [queue EXCEPT ![th] = Append(@, waiter)]

Init ==
    /\ pc = [t \in Threads |-> "run"]
    /\ todo = [t \in Threads |-> <<>>]
    /\ target = [t \in Threads |-> t]
    /\ blocks = [t \in Threads |-> 0]
    /\ queue = [t \in Threads |-> <<>>]
    /\ tdied = [t \in Threads |-> FALSE]
    /\ died = [p \in Processes |-> FALSE]
    /\ reaped = {}
    /\ halted = FALSE

(* _sc_threadJoin: a reaped thread is not found (EINVAL); otherwise join  *)
(* it and reschedule.                                                     *)
ThreadJoin(t, th) ==
    /\ Running(t) /\ th \notin reaped
    /\ Join(t, th)
    /\ pc' = [pc EXCEPT ![t] = "sched"]
    /\ UNCHANGED <<todo, target, tdied, died, reaped, halted>>

(* _sc_threadExit: mark the thread died and reschedule. *)
ThreadExit(t) ==
    /\ Running(t)
    /\ tdied' = [tdied EXCEPT ![t] = TRUE]
    /\ pc' = [pc EXCEPT ![t] = "sched"]
    /\ UNCHANGED <<todo, target, blocks, queue, died, reaped, halted>>

(* _sc_exit: mark the process died and reschedule. *)
Exit(t) ==
    /\ Running(t)
    /\ died' = [died EXCEPT ![Proc(t)] = TRUE]
    /\ pc' = [pc EXCEPT ![t] = "sched"]
    /\ UNCHANGED <<todo, target, blocks, queue, tdied, reaped, halted>>

(* process_getWithPid finds a process until all its threads are reaped. *)
Exists(p) == Range(ThreadsOf[p]) \ reaped # {}

(* _sc_wait, lines 65-75: a process that is gone or died is EINVAL;       *)
(* otherwise start the loop over the caller's threads.  The died test and *)
(* the joins are separate steps.                                          *)
WaitBegin(t, p) ==
    /\ Running(t)
    /\ Exists(p) /\ ~died[p]
    /\ pc' = [pc EXCEPT ![t] = "wait"]
    /\ todo' = [todo EXCEPT ![t] = ThreadsOf[Proc(t)]]
    /\ target' = [target EXCEPT ![t] = MainThread(p)]
    /\ UNCHANGED <<blocks, queue, tdied, died, reaped, halted>>

(* _sc_wait, lines 77-81: join the next thread of the caller's process to *)
(* the waited-for main thread.                                            *)
WaitJoin(t) ==
    /\ pc[t] = "wait" /\ todo[t] # <<>> /\ ~halted
    /\ Join(Head(todo[t]), target[t])
    /\ todo' = [todo EXCEPT ![t] = Tail(@)]
    /\ UNCHANGED <<pc, target, tdied, died, reaped, halted>>

(* sd_schedule returning (_sc_wait line 83, and the other syscalls): the  *)
(* scheduler picks the thread again once it is unblocked and alive.       *)
Resume(t) ==
    /\ \/ pc[t] = "sched"
       \/ pc[t] = "wait" /\ todo[t] = <<>>
    /\ blocks[t] = 0 /\ ~Dead(t) /\ ~halted
    /\ pc' = [pc EXCEPT ![t] = "run"]
    /\ UNCHANGED <<todo, target, blocks, queue, tdied, died, reaped, halted>>

(* The scheduler reaps a dead thread and wakes &thread: every listed      *)
(* waiter is unblocked; with nobody listed Wakeup faults.                 *)
Reap(th) ==
    /\ Dead(th) /\ th \notin reaped /\ ~halted
    /\ reaped' = reaped \cup {th}
    /\ IF queue[th] = <<>>
       THEN /\ halted' = TRUE
            /\ UNCHANGED <<blocks, queue>>
       ELSE /\ blocks' = [t \in Threads |->
                            blocks[t] - Len(SelectSeq(queue[th], LAMBDA w : w = t))]
            /\ queue' = [queue EXCEPT ![th] = <<>>]
            /\ UNCHANGED halted
    /\ UNCHANGED <<pc, todo, target, tdied, died>>

Next ==
    \/ \E t \in Threads :
          \/ \E th \in Threads : ThreadJoin(t, th)
          \/ ThreadExit(t)
          \/ Exit(t)
          \/ \E p \in WaitsFor[t] : WaitBegin(t, p)
          \/ WaitJoin(t)
          \/ Resume(t)
          \/ Reap(t)

(* The kernel code of a syscall keeps running, the scheduler runs every   *)
(* runnable thread and reaps every dead one.                              *)
Fairness == \A t \in Threads : WF_vars(WaitJoin(t)) /\ WF_vars(Resume(t)) /\ WF_vars(Reap(t))

Spec == Init /\ [][Next]_vars /\ Fairness

-----------------------------------------------------------------------------
(* Properties                                                              *)

(* A wait(pid) that passed its died test returns once the main thread it  *)
(* waits on is dead (spec test: the child calls exit, the parent's wait    *)
(* returns 0), unless the waiting thread died itself or the kernel halted. *)
WaitReturns ==
    \A t \in Threads :
        (pc[t] = "wait" /\ Dead(target[t])) ~> (pc[t] = "run" \/ Dead(t) \/ halted)
=============================================================================
