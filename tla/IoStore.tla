------------------------------ MODULE IoStore ------------------------------
(***************************************************************************)
(* The library registry of src/sys/ioglue/iostore.c (io_storeAddLibrary,   *)
(* io_storeRemoveLibrary) and the dependency loading it drives.            *)
(*                                                                         *)
(* io_storeAddLibrary checks and inserts the library's name under          *)
(* __io_storeLock, then releases the lock before it resolves dependencies  *)
(* and relocates; a failed relocation removes the name again.  The early   *)
(* insert is the registry's guard against loading a dependency cycle      *)
(* twice.  io_libraryResolveDependencies and the relocation passes are     *)
(* not under src/; from the spec: for each DT_NEEDED name in order, a      *)
(* library of that name in the registry becomes a dependency, otherwise    *)
(* the file is loaded (which may fail) and added, recursively, and then    *)
(* looked up again.  Resolution's result is ignored by the caller (line    *)
(* 197); a relocation may fail, and does when a needed library is missing. *)
(*                                                                         *)
(* Each thread adds one library; a nested add of a dependency is a frame   *)
(* on that thread's stack.  Library objects are model values with a name;  *)
(* a load takes a fresh object of the wanted name.                         *)
(***************************************************************************)
EXTENDS Integers, Sequences, FiniteSets

CONSTANTS
    Threads,       \* threads calling io_storeAddLibrary
    Libs,          \* library objects, the ones loaded later included
    Names,         \* library names
    Name,          \* object -> library->name
    Needs,         \* name -> its DT_NEEDED names, in order
    Start,         \* thread -> the library it adds
    RelocCanFail   \* whether a relocation pass may fail with every dependency present

ASSUME /\ Name \in [Libs -> Names] /\ Needs \in [Names -> Seq(Names)]
       /\ Start \in [Threads -> Libs] /\ RelocCanFail \in BOOLEAN

VARIABLES
    store,      \* the libraries in __io_storeLibraries
    relocated,  \* libraries whose relocation passes succeeded
    deps,       \* library -> the libraries its dependency list holds
    frames,     \* thread -> stack of adds in progress, innermost last
    loaded,     \* library objects created so far
    result      \* thread -> what its outermost add returned ("true", "false"), or "none"

vars == <<store, relocated, deps, frames, loaded, result>>

Frame == [lib : Libs, phase : {"add", "resolve", "relocate"}, todo : Seq(Names),
          tried : SUBSET Names]

Top(t) == frames[t][Len(frames[t])]
Stored(n) == {l \in store : Name[l] = n}

Init ==
    /\ store = {} /\ relocated = {}
    /\ deps = [l \in Libs |-> {}]
    /\ frames = [t \in Threads |-> <<[lib |-> Start[t], phase |-> "add",
                                      todo |-> Needs[Name[Start[t]]], tried |-> {}]>>]
    /\ loaded = {Start[t] : t \in Threads}
    /\ result = [t \in Threads |-> "none"]

(* Return from the innermost add with `ok`; the outermost one sets result. *)
Return(t, ok) ==
    /\ frames' = [frames EXCEPT ![t] = SubSeq(@, 1, Len(@) - 1)]
    /\ result' = IF Len(frames[t]) = 1
                 THEN [result EXCEPT ![t] = IF ok THEN "true" ELSE "false"] ELSE result

(* Mutant of AddLibrary: the atree_find test is missing. *)
AddLibraryNoFind(t) ==
    /\ frames[t] # <<>> /\ Top(t).phase = "add"
    /\ store' = store \cup {Top(t).lib}
    /\ frames' = [frames EXCEPT ![t][Len(frames[t])].phase = "resolve"]
    /\ UNCHANGED <<relocated, deps, loaded, result>>

(* Mutant of AddLibrary: the library is not published before its         *)
(* dependencies are resolved.                                             *)
AddLibraryNoEarlyInsert(t) ==
    /\ frames[t] # <<>> /\ Top(t).phase = "add"
    /\ IF Stored(Name[Top(t).lib]) = {}
       THEN /\ frames' = [frames EXCEPT ![t][Len(frames[t])].phase = "resolve"]
            /\ UNCHANGED result
       ELSE Return(t, TRUE)
    /\ UNCHANGED <<store, relocated, deps, loaded>>

(* io_storeAddLibrary, lines 191-195 and 211-212: under the lock, insert   *)
(* the library unless its name is taken, in which case return true.      *)
AddLibrary(t) ==
    /\ frames[t] # <<>> /\ Top(t).phase = "add"
    /\ IF Stored(Name[Top(t).lib]) = {}
       THEN /\ store' = store \cup {Top(t).lib}
            /\ frames' = [frames EXCEPT ![t][Len(frames[t])].phase = "resolve"]
            /\ UNCHANGED result
       ELSE /\ Return(t, TRUE)
            /\ UNCHANGED store
    /\ UNCHANGED <<relocated, deps, loaded>>

(* io_libraryResolveDependencies (line 197), one DT_NEEDED name per step: *)
(* take the registered library of that name, else load a fresh object     *)
(* and add it (a nested frame; the name is looked up again after it       *)
(* returns), else, when loading fails, go on without it.                  *)
ResolveDependency(t) ==
    /\ frames[t] # <<>> /\ Top(t).phase = "resolve"
    /\ LET f == Top(t)
           n == Head(f.todo)
           fresh == {o \in Libs \ loaded : Name[o] = n}
           again == n \in f.tried
       IN /\ f.todo # <<>>
          /\ \/ /\ Stored(n) # {}
                /\ deps' = [deps EXCEPT ![f.lib] = @ \cup Stored(n)]
                /\ frames' = [frames EXCEPT ![t][Len(frames[t])].todo = Tail(@)]
                /\ UNCHANGED loaded
             \/ /\ Stored(n) = {} /\ fresh # {} /\ ~again
                /\ \E o \in fresh :
                     /\ loaded' = loaded \cup {o}
                     /\ frames' = [frames EXCEPT ![t] =
                          Append([@ EXCEPT ![Len(frames[t])].tried = @ \cup {n}],
                                 [lib |-> o, phase |-> "add", todo |-> Needs[n], tried |-> {}])]
                /\ UNCHANGED deps
             \/ /\ Stored(n) = {} /\ (fresh = {} \/ again)
                /\ frames' = [frames EXCEPT ![t][Len(frames[t])].todo = Tail(@)]
                /\ UNCHANGED <<deps, loaded>>
    /\ UNCHANGED <<store, relocated, result>>

DependenciesDone(t) ==
    /\ frames[t] # <<>> /\ Top(t).phase = "resolve" /\ Top(t).todo = <<>>
    /\ frames' = [frames EXCEPT ![t][Len(frames[t])].phase = "relocate"]
    /\ UNCHANGED <<store, relocated, deps, loaded, result>>

(* The outcomes of the two relocation passes of library l. *)
RelocOutcomes(l) ==
    IF \E n \in {Needs[Name[l]][i] : i \in DOMAIN Needs[Name[l]]} : \A d \in deps[l] : Name[d] # n
    THEN {TRUE, FALSE}
    ELSE IF RelocCanFail THEN {TRUE, FALSE} ELSE {TRUE}

(* Mutant of Relocate: the failure path does not call io_storeRemoveLibrary. *)
RelocateKeepsFailed(t) ==
    /\ frames[t] # <<>> /\ Top(t).phase = "relocate"
    /\ \E ok \in RelocOutcomes(Top(t).lib) :
         /\ relocated' = IF ok THEN relocated \cup {Top(t).lib} ELSE relocated
         /\ Return(t, ok)
    /\ UNCHANGED <<store, deps, loaded>>

(* io_storeAddLibrary, lines 199-208: relocate; on failure remove the     *)
(* library by name (io_storeRemoveLibrary, lines 217-219) and return false. *)
Relocate(t) ==
    /\ frames[t] # <<>> /\ Top(t).phase = "relocate"
    /\ \E ok \in RelocOutcomes(Top(t).lib) :
         /\ relocated' = IF ok THEN relocated \cup {Top(t).lib} ELSE relocated
         /\ store' = IF ok THEN store ELSE {l \in store : Name[l] # Name[Top(t).lib]}
         /\ Return(t, ok)
    /\ UNCHANGED <<deps, loaded>>

Next ==
    \E t \in Threads :
        \/ AddLibrary(t)
        \/ ResolveDependency(t)
        \/ DependenciesDone(t)
        \/ Relocate(t)

Fairness == \A t \in Threads : WF_vars(AddLibrary(t) \/ ResolveDependency(t)
                                       \/ DependenciesDone(t) \/ Relocate(t))

Spec == Init /\ [][Next]_vars /\ Fairness

-----------------------------------------------------------------------------
(* Properties                                                              *)

(* The registry is keyed by name: however adds of the same name from      *)
(* different threads, and nested adds of dependencies, interleave, it     *)
(* never holds two libraries of one name (the find and the insert of      *)
(* io_storeAddLibrary are under one hold of the lock).                   *)
NamesUnique ==
    \A l, m \in store : Name[l] = Name[m] => l = m

(* A library in the registry is relocated, or an add of it is still on    *)
(* some thread's stack between insert and relocation: a failed            *)
(* relocation takes the library back out (spec: a library is in the       *)
(* registry iff its relocations succeeded, once its add returns).         *)
RegistryHoldsRelocatedOrPending ==
    \A l \in store :
        l \in relocated \/ \E t \in Threads : \E i \in DOMAIN frames[t] : frames[t][i].lib = l

(* io_storeAddLibrary publishes a library (line 195) before it resolves   *)
(* its dependencies (line 197), so a dependency cycle is cut where it      *)
(* closes: the nested lookup of a name already being added on the thread  *)
(* finds it in the registry, whatever other threads add or remove          *)
(* meanwhile.  No thread has two adds of one name on its stack; without    *)
(* the early insert a cycle a -> b -> a loads a fresh copy at every turn.  *)
NoNestedReload ==
    \A t \in Threads : \A i, j \in DOMAIN frames[t] :
        i < j => Name[frames[t][i].lib] # Name[frames[t][j].lib]

(* No library in the registry depends on one that is no longer in it     *)
(* (spec: removing a library while it is referenced is a bug).            *)
NoDanglingDependency ==
    \A l \in store : deps[l] \subseteq store

(* Once an add has returned true, a library of that name is in the        *)
(* registry (spec: loading a module twice by name is idempotent; the      *)
(* second add returns success).                                           *)
AddSuccessIsDurable ==
    \A t \in Threads : result[t] = "true" => Stored(Name[Start[t]]) # {}
=============================================================================
