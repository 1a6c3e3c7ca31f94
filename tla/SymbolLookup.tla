---------------------------- MODULE SymbolLookup ----------------------------
(***************************************************************************)
(* io_storeLookupSymbol of src/sys/ioglue/iostore.c (lines 35-96): where   *)
(* the linker finds the definition of a symbol a library refers to.        *)
(*                                                                         *)
(* A LOCAL symbol is the library's own.  Otherwise the kernel's table is   *)
(* tried, then the dependency lists breadth first: dependencyTree starts   *)
(* with the library's list, every dependency of a list is asked for the    *)
(* symbol, and the list of a dependency that has dependencies is appended  *)
(* to the tree.  Last the library itself is asked.                        *)
(*                                                                         *)
(* A list is named by the library that owns it.  The loop reads the tree   *)
(* only at increasing indices, so the lists it has finished are dropped    *)
(* and `tree` holds the rest: a state of the loop is the rest of the tree  *)
(* and the position in its first list.  The hash-bucket walk of            *)
(* io_librarySymbolWithName is abstracted to DefinedIn: a library answers  *)
(* with a defined symbol (st_value # 0) iff it is in DefinedIn[symbol].    *)
(***************************************************************************)
EXTENDS Integers, Sequences

CONSTANTS
    Libs,        \* libraries
    Deps,        \* library -> its dependency list, in order
    Symbols,     \* symbol names looked up
    Local,       \* the symbols whose binding is STB_LOCAL
    DefinedIn,   \* symbol -> the libraries whose table defines it
    InKernel,    \* the symbols io_findKernelSymbol finds
    KernelStub,  \* io_kernelLibraryStub()
    None,        \* NULL
    MaxTree      \* bound on the lists in dependencyTree

ASSUME /\ Deps \in [Libs -> Seq(Libs)] /\ DefinedIn \in [Symbols -> SUBSET Libs]
       /\ Local \subseteq Symbols /\ InKernel \subseteq Symbols /\ MaxTree \in Nat

VARIABLES
    library,  \* the library the lookup starts from
    symbol,   \* the symbol it looks up
    pc,       \* "start", "bfs" (the loop and line 87), "done"
    tree,     \* the lists of dependencyTree not yet finished, as their owners
    pos,      \* the position of `dependency` in the first list
    outLib    \* *outLib once the lookup returned, else None

vars == <<library, symbol, pc, tree, pos, outLib>>

Init ==
    /\ library \in Libs /\ symbol \in Symbols
    /\ pc = "start" /\ tree = <<>> /\ pos = 1 /\ outLib = None

(* Lines 37-61: a LOCAL symbol is the library's own, a kernel export the   *)
(* kernel stub's; otherwise the tree starts with the library's list.       *)
LookupStart ==
    /\ pc = "start"
    /\ CASE symbol \in Local -> pc' = "done" /\ outLib' = library /\ UNCHANGED tree
         [] symbol \in InKernel -> pc' = "done" /\ outLib' = KernelStub /\ UNCHANGED tree
         [] OTHER -> pc' = "bfs" /\ tree' = <<library>> /\ UNCHANGED outLib
    /\ UNCHANGED <<library, symbol, pos>>

(* Lines 63-81, one dependency per step: a definition ends the lookup; a   *)
(* dependency with dependencies has its list appended; at the end of a     *)
(* list the loop goes on with the next one.                               *)
BfsStep ==
    /\ pc = "bfs" /\ tree # <<>>
    /\ LET list == Deps[Head(tree)]
       IN IF pos > Len(list)
          THEN /\ tree' = Tail(tree) /\ pos' = 1
               /\ UNCHANGED <<pc, outLib>>
          ELSE LET dep == list[pos]
               IN IF dep \in DefinedIn[symbol]
                  THEN /\ pc' = "done" /\ outLib' = dep
                       /\ UNCHANGED <<tree, pos>>
                  ELSE /\ Deps[dep] # <<>> => Len(tree) < MaxTree
                       /\ tree' = IF Deps[dep] # <<>> THEN Append(tree, dep) ELSE tree
                       /\ pos' = pos + 1
                       /\ UNCHANGED <<pc, outLib>>
    /\ UNCHANGED <<library, symbol>>

(* Lines 84-95: with the tree exhausted, ask the library itself; NULL if   *)
(* it does not define the symbol either.                                  *)
LookupSelf ==
    /\ pc = "bfs" /\ tree = <<>>
    /\ pc' = "done"
    /\ outLib' = IF library \in DefinedIn[symbol] THEN library ELSE None
    /\ UNCHANGED <<library, symbol, tree, pos>>

Next == LookupStart \/ BfsStep \/ LookupSelf

Spec == Init /\ [][Next]_vars /\ WF_vars(Next)

-----------------------------------------------------------------------------
(* Properties                                                              *)

(* Every symbol lookup returns, with a definition or with NULL (spec:      *)
(* dependency graphs may have cycles and must be handled; the symbol       *)
(* search is a breadth-first traversal of that graph).                     *)
LookupReturns == <>(pc = "done")
=============================================================================
