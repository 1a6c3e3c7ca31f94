----------------------------- MODULE Waitqueue -----------------------------
(***************************************************************************)
(* Wait channels of src/sys/os/waitqueue.cpp.                              *)
(*                                                                         *)
(* A global dictionary maps a channel (any pointer) to an entry holding   *)
(* the threads blocked on it, guarded by the spin-lock _waitLock.  Wait    *)
(* blocks the calling thread and appends it under the lock, then forces a  *)
(* reschedule; Wakeup takes the entry out of the dictionary under the      *)
(* lock and unblocks its threads one by one after releasing it.            *)
(*                                                                         *)
(* Threads run on several CPUs, so the steps of different threads          *)
(* interleave freely.  A locked section touches only state the lock        *)
(* guards (and the caller's own block counter), so it is one step.  The    *)
(* unblock loop of Wakeup runs outside the lock and is one step per        *)
(* thread.  Thread::Block/Unblock and the scheduler are not under src/:    *)
(* from the spec, a thread is runnable iff its block counter is 0 and the  *)
(* scheduler eventually runs every runnable thread.                        *)
(*                                                                         *)
(* Entries are reference-counted objects (the retain count contract of     *)
(* src/libkernel/libio/IOObject.h: alloc returns a count of 1, the object  *)
(* is freed when release brings it to 0; the dictionary retains what it   *)
(* stores and releases what it removes, IODictionary.cpp 261-290).  Entry  *)
(* objects come from the finite pool Entries, the bound on how many can    *)
(* exist at once: a freed entry can be allocated again.                    *)
(***************************************************************************)
EXTENDS Integers, Sequences, SequencesExt, FiniteSets

CONSTANTS
    Threads,            \* kernel threads
    Channels,           \* wait-channel addresses
    WakeEmptyChannels,  \* whether callers may wake a channel no thread waits on
    Entries,            \* WaitqueueEntry objects (bound on those alive at once)
    NoEntry             \* GetObjectForKey found nothing

ASSUME WakeEmptyChannels \in BOOLEAN /\ NoEntry \notin Entries

VARIABLES
    pc,        \* thread -> where it is: "run", "resched" (in Wait), "wake" (in Wakeup), "crashed"
    blocks,    \* thread -> Thread::blocks, the nested block counter
    queue,     \* channel -> the waiters of its WaitqueueEntry; <<>> when the key is absent
    taken,     \* thread -> the waiters its Wakeup took out and has not unblocked yet
    entry,     \* channel -> the WaitqueueEntry the dictionary maps it to, or NoEntry
    held,      \* thread -> the entry its Wakeup holds (the local `entry`), or NoEntry
    rc         \* entry object -> its retain count; 0 when free

vars == <<pc, blocks, queue, taken, entry, held, rc>>

Runnable(t) == blocks[t] = 0

(* IO::Object Retain and Release of entry e in the count function r.     *)
Retain(r, e) == [r EXCEPT ![e] = @ + 1]
Release(r, e) == [r EXCEPT ![e] = @ - 1]

(* WaitqueueEntry::Alloc: an object not currently alive. *)
FreeEntries == {e \in Entries : rc[e] = 0}

(* The channels a running thread may pass to Wakeup. *)
WakeableChannels ==
    IF WakeEmptyChannels THEN Channels ELSE {ch \in Channels : queue[ch] # <<>>}

Init ==
    /\ pc = [t \in Threads |-> "run"]
    /\ blocks = [t \in Threads |-> 0]
    /\ queue = [ch \in Channels |-> <<>>]
    /\ taken = [t \in Threads |-> <<>>]
    /\ entry = [ch \in Channels |-> NoEntry]
    /\ held = [t \in Threads |-> NoEntry]
    /\ rc = [e \in Entries |-> 0]

(* Wait, lines 112-117: GetObjectForKey, and when the channel has no     *)
(* entry, WaitqueueEntry::Alloc (count 1) stored with SetObjectForKey,     *)
(* which retains it.  Nothing releases the reference Alloc returned.      *)
FindOrCreate(ch) ==
    \/ /\ entry[ch] # NoEntry
       /\ UNCHANGED <<entry, rc>>
    \/ /\ entry[ch] = NoEntry
       /\ \E e \in FreeEntries :
             /\ entry' = [entry EXCEPT ![ch] = e]
             /\ rc' = Retain([rc EXCEPT ![e] = 1], e)

(* Mutant of Wait: the call to Block is missing.                         *)
WaitNoBlock(t, ch) ==
    /\ pc[t] = "run" /\ Runnable(t)
    /\ FindOrCreate(ch)
    /\ queue' = [queue EXCEPT ![ch] = Append(@, t)]
    /\ pc' = [pc EXCEPT ![t] = "resched"]
    /\ UNCHANGED <<blocks, taken, held>>

(* Wait, lines 108-124: under _waitLock find or create the entry, block   *)
(* the caller and append it; the lock is released within the step.  The   *)
(* lookup key of lines 108 and 126 is the channel itself.                 *)
Wait(t, ch) ==
    /\ pc[t] = "run" /\ Runnable(t)
    /\ FindOrCreate(ch)
    /\ blocks' = [blocks EXCEPT ![t] = @ + 1]
    /\ queue' = [queue EXCEPT ![ch] = Append(@, t)]
    /\ pc' = [pc EXCEPT ![t] = "resched"]
    /\ UNCHANGED <<taken, held>>

(* Wait, line 127: Scheduler::ForceReschedule returns once the scheduler  *)
(* runs the thread again, which it does only when it is not blocked.      *)
Resume(t) ==
    /\ pc[t] = "resched" /\ Runnable(t)
    /\ pc' = [pc EXCEPT ![t] = "run"]
    /\ UNCHANGED <<blocks, queue, taken, entry, held, rc>>

(* Mutant of WakeupTake: RemoveObjectForKey is missing, so the entry     *)
(* stays in the dictionary after its threads are taken.                   *)
WakeupTakeKeepsEntry(t, ch) ==
    /\ pc[t] = "run" /\ Runnable(t)
    /\ IF entry[ch] = NoEntry
       THEN /\ pc' = [pc EXCEPT ![t] = "crashed"]
            /\ UNCHANGED <<blocks, queue, taken, entry, held, rc>>
       ELSE /\ taken' = [taken EXCEPT ![t] = queue[ch]]
            /\ held' = [held EXCEPT ![t] = entry[ch]]
            /\ rc' = Retain(rc, entry[ch])
            /\ pc' = [pc EXCEPT ![t] = "wake"]
            /\ UNCHANGED <<blocks, queue, entry>>

(* Wakeup, lines 134-140: under _waitLock look the entry up, Retain it    *)
(* and RemoveObjectForKey, whose release of the entry the Retain          *)
(* balances.  With no entry the code calls Retain and then GetBegin on a  *)
(* null pointer: the kernel faults.                                       *)
WakeupTake(t, ch) ==
    /\ pc[t] = "run" /\ Runnable(t)
    /\ IF entry[ch] = NoEntry
       THEN /\ pc' = [pc EXCEPT ![t] = "crashed"]
            /\ UNCHANGED <<blocks, queue, taken, entry, held, rc>>
       ELSE /\ taken' = [taken EXCEPT ![t] = queue[ch]]
            /\ queue' = [queue EXCEPT ![ch] = <<>>]
            /\ held' = [held EXCEPT ![t] = entry[ch]]
            /\ entry' = [entry EXCEPT ![ch] = NoEntry]
            /\ rc' = Release(Retain(rc, entry[ch]), entry[ch])
            /\ pc' = [pc EXCEPT ![t] = "wake"]
            /\ UNCHANGED blocks

(* Mutant of WakeupUnblock: the loop stops one element early.            *)
WakeupUnblockStopsEarly(t) ==
    /\ pc[t] = "wake"
    /\ IF Len(taken[t]) <= 1
       THEN /\ pc' = [pc EXCEPT ![t] = "run"]
            /\ taken' = [taken EXCEPT ![t] = <<>>]
            /\ held' = [held EXCEPT ![t] = NoEntry]
            /\ rc' = Release(rc, held[t])
            /\ UNCHANGED blocks
       ELSE /\ blocks' = [blocks EXCEPT ![Head(taken[t])] = @ - 1]
            /\ taken' = [taken EXCEPT ![t] = Tail(@)]
            /\ UNCHANGED <<pc, held, rc>>
    /\ UNCHANGED <<queue, entry>>

(* Wakeup, lines 143-153: unblock the next thread of the entry, in the    *)
(* order they waited; after the last one release the entry (line 152)     *)
(* and return.                                                            *)
WakeupUnblock(t) ==
    /\ pc[t] = "wake"
    /\ IF taken[t] = <<>>
       THEN /\ pc' = [pc EXCEPT ![t] = "run"]
            /\ held' = [held EXCEPT ![t] = NoEntry]
            /\ rc' = Release(rc, held[t])
            /\ UNCHANGED <<blocks, taken>>
       ELSE /\ blocks' = [blocks EXCEPT ![Head(taken[t])] = @ - 1]
            /\ taken' = [taken EXCEPT ![t] = Tail(@)]
            /\ UNCHANGED <<pc, held, rc>>
    /\ UNCHANGED <<queue, entry>>

Next ==
    \E t \in Threads :
        \/ \E ch \in Channels : Wait(t, ch)
        \/ Resume(t)
        \/ \E ch \in WakeableChannels : WakeupTake(t, ch)
        \/ WakeupUnblock(t)

Fairness == \A t \in Threads : WF_vars(Resume(t)) /\ WF_vars(WakeupUnblock(t))

Spec == Init /\ [][Next]_vars /\ Fairness

-----------------------------------------------------------------------------
(* Properties                                                              *)

TypeOK ==
    /\ pc \in [Threads -> {"run", "resched", "wake", "crashed"}]
    /\ blocks \in [Threads -> Nat]
    /\ queue \in [Channels -> Seq(Threads)]
    /\ taken \in [Threads -> Seq(Threads)]
    /\ entry \in [Channels -> Entries \cup {NoEntry}]
    /\ held \in [Threads -> Entries \cup {NoEntry}]
    /\ rc \in [Entries -> Nat]

(* The number of places that still refer to a thread as a waiter: channel *)
(* entries in the dictionary and entries a Wakeup has taken out.          *)
Listed(t) ==
    LET inQueue == {ch \in Channels : Contains(queue[ch], t)}
        inTaken == {w \in Threads : Contains(taken[w], t)}
    IN inQueue \cup {<<"taken", w>> : w \in inTaken}

(* A thread inside Wait is blocked exactly as long as some entry, in the  *)
(* dictionary or in the hands of a Wakeup, still lists it, and it is      *)
(* listed at most once; a thread that is not inside Wait is listed        *)
(* nowhere.  So Wait returns only after a Wakeup of its channel reached   *)
(* it (no spurious wakeup), and no Wakeup unblocks a thread that is not   *)
(* waiting.                                                               *)
BlockedIffListed ==
    \A t \in Threads :
        /\ pc[t] = "resched" => (blocks[t] > 0 <=> Listed(t) # {})
        /\ pc[t] # "resched" => Listed(t) = {} /\ blocks[t] = 0
        /\ \A ch \in Channels : \A i, j \in 1..Len(queue[ch]) :
              queue[ch][i] = t /\ queue[ch][j] = t => i = j

(* The references to entry e that someone owns: the dictionary's, one    *)
(* per channel it maps to e, and the local `entry` of each Wakeup holding *)
(* it between lines 137 and 152.                                          *)
Holders(e) ==
    {ch \in Channels : entry[ch] = e} \cup {<<"held", t>> : t \in {w \in Threads : held[w] = e}}

(* No entry leaks: every retain of an entry is balanced by a release, so   *)
(* an entry nobody refers to any more has been freed (the retain count     *)
(* contract of IOObject.h lines 80-88).                                    *)
NoEntryLeak ==
    \A e \in Entries : rc[e] <= Cardinality(Holders(e))

(* Where a thread is for the abstract wait channels: inside Wait and      *)
(* listed by the channel's entry, it waits on that channel; inside Wait    *)
(* and listed nowhere, a Wakeup has taken it; anywhere else it runs.       *)
AtOf(t) ==
    IF pc[t] # "resched" THEN "running"
    ELSE IF \E ch \in Channels : Contains(queue[ch], t)
         THEN CHOOSE ch \in Channels : Contains(queue[ch], t)
         ELSE "woken"

(* The wait channels do what the spec promises: a Wakeup wakes exactly    *)
(* the threads waiting on its channel when it takes the entry, although   *)
(* it unblocks them one by one after dropping the lock; no Wait returns   *)
(* before a Wakeup of its channel; and every woken thread returns from    *)
(* Wait (spec section 8).                                                  *)
WC == INSTANCE WaitChannels WITH at <- [t \in Threads |-> AtOf(t)], Running <- "running", Woken <- "woken"
ImplementsWaitChannels == WC!Spec
=============================================================================
