------------------------------ MODULE IPCPort ------------------------------
(***************************************************************************)
(* The IPC port objects of src/sys/os/ipc/IPCPort.cpp.  Port::Init makes a *)
(* port with the given rights and, when they include Receive, an empty    *)
(* message queue (an IO::Array, not under src/: AddObject appends,         *)
(* GetFirstObject reads index 0, RemoveObjectAtIndex(0) drops it).         *)
(* Port::InitAsPortRight makes a port right: it copies the origin's        *)
(* rights and has no queue.  PushMessage, PeekMessage and PopMessage       *)
(* take no lock.                                                           *)
(*                                                                         *)
(* The callers are not under src/.  From the spec (4.4): a send is routed *)
(* to the receiver-side object, so messages are pushed to an object with  *)
(* a queue, by any thread; a receive is a PeekMessage, and after a non- *)
(* NULL result a PopMessage, by one of the port's receiver threads         *)
(* (Receivers).  Each message object is pushed once.                       *)
(***************************************************************************)
EXTENDS Sequences, SequencesExt

CONSTANTS
    PortObjs,    \* Port objects
    Messages,    \* Message objects
    Receivers,   \* port object -> the threads that receive on it
    InitRights,  \* the rights Port::Init is called with
    Null         \* nullptr

Rights == {"Send", "Receive"}

ASSUME InitRights \subseteq SUBSET Rights

IPCThreads == UNION {Receivers[o] : o \in PortObjs}

VARIABLES
    rights,     \* object -> _rights, or Null before its Init
    portQueue,      \* object -> _queue: a sequence of messages, or Null
    peeked,     \* receiver thread -> [obj, msg] from its PeekMessage, or Null
    unsent,     \* messages no thread has pushed yet
    received,   \* object -> messages its receivers popped, in order (history)
    dead        \* objects Dealloc has freed

ipcVars == <<rights, portQueue, peeked, unsent, received, dead>>

Live == {o \in PortObjs : rights[o] # Null} \ dead

IPCInit ==
    /\ rights = [o \in PortObjs |-> Null]
    /\ portQueue = [o \in PortObjs |-> Null]
    /\ peeked = [t \in IPCThreads |-> Null]
    /\ unsent = Messages
    /\ received = [o \in PortObjs |-> <<>>]
    /\ dead = {}

(* Port::Init, lines 30-44: the portQueue exists iff the rights hold Receive. *)
PortInit(o, r) ==
    /\ rights[o] = Null
    /\ rights' = [rights EXCEPT ![o] = r]
    /\ portQueue' = [portQueue EXCEPT ![o] = IF "Receive" \in r THEN <<>> ELSE Null]
    /\ UNCHANGED <<peeked, unsent, received, dead>>

(* Port::InitAsPortRight, lines 45-59: the origin's rights, no portQueue. *)
InitAsPortRight(o, port) ==
    /\ rights[o] = Null /\ port \in Live
    /\ rights' = [rights EXCEPT ![o] = rights[port]]
    /\ portQueue' = [portQueue EXCEPT ![o] = Null]
    /\ UNCHANGED <<peeked, unsent, received, dead>>

(* The receive-side objects: the IOAssert of lines 70, 75 and 84 passes   *)
(* and _queue is an array.                                                *)
Receivable == {o \in Live : "Receive" \in rights[o] /\ portQueue[o] # Null}

(* PushMessage, lines 68-72: append to the portQueue. *)
PushMessage(o, m) ==
    /\ o \in Receivable /\ m \in unsent
    /\ portQueue' = [portQueue EXCEPT ![o] = Append(@, m)]
    /\ unsent' = unsent \ {m}
    /\ UNCHANGED <<rights, peeked, received, dead>>

(* Mutant of PeekMessage: the GetCount() == 0 return is dropped, and the *)
(* first object of an empty array is taken as a message.                 *)
PeekMessageNoEmptyCheck(t, o) ==
    /\ o \in Receivable /\ t \in Receivers[o] /\ peeked[t] = Null
    /\ peeked' = [peeked EXCEPT ![t] = [obj |-> o, msg |-> IF portQueue[o] = <<>> THEN Null ELSE Head(portQueue[o])]]
    /\ UNCHANGED <<rights, portQueue, unsent, received, dead>>

(* PeekMessage, lines 73-81: NULL for an empty portQueue, else its first      *)
(* message, which the receiver keeps until it pops.                       *)
PeekMessage(t, o) ==
    /\ o \in Receivable /\ t \in Receivers[o] /\ peeked[t] = Null
    /\ \/ /\ portQueue[o] = <<>>
          /\ UNCHANGED ipcVars
       \/ /\ portQueue[o] # <<>>
          /\ peeked' = [peeked EXCEPT ![t] = [obj |-> o, msg |-> Head(portQueue[o])]]
          /\ UNCHANGED <<rights, portQueue, unsent, received, dead>>

(* Mutant of PopMessage: the last element is removed instead of index 0. *)
PopMessageLast(t) ==
    /\ t \in IPCThreads /\ peeked[t] # Null
    /\ LET o == peeked[t].obj
       IN /\ portQueue' = [portQueue EXCEPT ![o] = Front(@)]
          /\ received' = [received EXCEPT ![o] = Append(@, peeked[t].msg)]
    /\ peeked' = [peeked EXCEPT ![t] = Null]
    /\ UNCHANGED <<rights, unsent, dead>>

(* PopMessage, lines 82-86: drop index 0; the receiver has now received   *)
(* the message its PeekMessage returned.                                  *)
PopMessage(t) ==
    /\ t \in IPCThreads /\ peeked[t] # Null
    /\ LET o == peeked[t].obj
       IN /\ portQueue' = [portQueue EXCEPT ![o] = Tail(@)]
          /\ received' = [received EXCEPT ![o] = Append(@, peeked[t].msg)]
    /\ peeked' = [peeked EXCEPT ![t] = Null]
    /\ UNCHANGED <<rights, unsent, dead>>

(* Port::Dealloc, lines 61-65, on the release of the last reference:     *)
(* SafeRelease(_queue) frees the array and releases its messages, and the *)
(* object is freed for good.  Its owner releases it after its receivers  *)
(* are done.                                                               *)
PortDealloc(o) ==
    /\ o \in Live
    /\ ~\E t \in IPCThreads : peeked[t] # Null /\ peeked[t].obj = o
    /\ dead' = dead \cup {o}
    /\ portQueue' = [portQueue EXCEPT ![o] = Null]
    /\ UNCHANGED <<rights, peeked, unsent, received>>

IPCNext ==
    \/ \E o \in PortObjs :
          \/ PortDealloc(o)
          \/ \E r \in InitRights : PortInit(o, r)
          \/ \E port \in PortObjs : InitAsPortRight(o, port)
          \/ \E m \in Messages : PushMessage(o, m)
          \/ \E t \in IPCThreads : PeekMessage(t, o)
    \/ \E t \in IPCThreads : PopMessage(t)

IPCSpec == IPCInit /\ [][IPCNext]_ipcVars

-----------------------------------------------------------------------------
(* Properties                                                              *)

IPCTypeOK ==
    /\ rights \in [PortObjs -> (SUBSET Rights) \cup {Null}]
    /\ portQueue \in [PortObjs -> Seq(Messages) \cup {Null}]
    /\ peeked \in [IPCThreads -> [obj : PortObjs, msg : Messages] \cup {Null}]
    /\ unsent \subseteq Messages
    /\ received \in [PortObjs -> Seq(Messages)]
    /\ dead \subseteq PortObjs

(* The ports implement PortChannel: what a port's receivers take, by a    *)
(* PeekMessage and a later PopMessage with pushes to the same portQueue in    *)
(* between, is the oldest message not yet delivered, and every pushed     *)
(* message is delivered once, in push order.                              *)
PC == INSTANCE PortChannel WITH
          Ports <- PortObjs,
          pending <- [o \in PortObjs |-> IF portQueue[o] = Null THEN <<>> ELSE portQueue[o]],
          delivered <- received

ImplementsPortChannel == PC!Spec
=============================================================================
