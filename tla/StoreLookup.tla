---------------------------- MODULE StoreLookup ----------------------------
(***************************************************************************)
(* The two lookups of the library registry in src/sys/ioglue/iostore.c    *)
(* that do not change it: the name comparator io_storeAtreeLookup that    *)
(* orders the atree, and io_storeLibraryWithAddress, which walks the tree *)
(* in that order and returns the first library whose range holds an      *)
(* address.                                                               *)
(*                                                                         *)
(* Names are byte strings, written without their terminating 0.  Whether  *)
(* `char` is signed is up to the build (CharIsSigned); the comparator     *)
(* compares chars.  The atree iterator (not under src/) visits keys in    *)
(* ascending comparator order.  The registry is fixed by Init to a set of *)
(* libraries with distinct names and disjoint address ranges, as the      *)
(* loader lays them out; each step looks up one address.                  *)
(***************************************************************************)
EXTENDS Integers, Sequences, FiniteSets, KString

CONSTANTS
    NameSet,        \* library names, as sequences of bytes 1..255
    Bases,          \* candidate library->vmemory values
    PageCounts,     \* candidate library->pages values
    PageSize,       \* VM_PAGE_SIZE
    Addresses,      \* addresses looked up
    LibraryCount,   \* libraries in the registry
    None            \* NULL

ASSUME PageSize > 0

kCompareLesserThan == -1
kCompareEqualTo == 0
kCompareGreaterThan == 1

(* Mutant of AtreeCompareFrom: the walk stops as soon as either string   *)
(* ends, so a name equals each of its prefixes.                         *)
RECURSIVE AtreeCompareFromPrefix(_, _, _)
AtreeCompareFromPrefix(name1, name2, index) ==
    LET c1 == CharValue(Byte(name1, index))
        c2 == CharValue(Byte(name2, index))
    IN IF c1 = 0 \/ c2 = 0 THEN kCompareEqualTo
       ELSE IF c1 = c2 THEN AtreeCompareFromPrefix(name1, name2, index + 1)
       ELSE IF c1 > c2 THEN kCompareGreaterThan ELSE kCompareLesserThan

(* io_storeAtreeLookup from position index on. *)
RECURSIVE AtreeCompareFrom(_, _, _)
AtreeCompareFrom(name1, name2, index) ==
    LET c1 == CharValue(Byte(name1, index))
        c2 == CharValue(Byte(name2, index))
    IN IF c1 = c2
       THEN IF c1 = 0 THEN kCompareEqualTo ELSE AtreeCompareFrom(name1, name2, index + 1)
       ELSE IF c1 > c2 THEN kCompareGreaterThan ELSE kCompareLesserThan

AtreeCompare(name1, name2) == AtreeCompareFrom(name1, name2, 1)

Library == [name : NameSet, vmemory : Bases, pages : PageCounts]

(* library->vmemory + library->pages * VM_PAGE_SIZE *)
Limit(lib) == lib.vmemory + lib.pages * PageSize

(* io_storeLibraryWithAddress, lines 141-159: the first library in name  *)
(* order with vmemory <= address <= vlimit, else NULL.                   *)
StoreLibraryWithAddress(libs, address) ==
    LET hits == {l \in libs : l.vmemory <= address /\ address <= Limit(l)}
        first == {l \in hits : \A m \in hits : AtreeCompare(l.name, m.name) # kCompareGreaterThan}
    IN IF hits = {} THEN None ELSE CHOOSE l \in first : TRUE

Disjoint(libs) ==
    \A l, m \in libs : l # m =>
        /\ l.name # m.name
        /\ (Limit(l) <= m.vmemory \/ Limit(m) <= l.vmemory)

VARIABLES registry, address, found

vars == <<registry, address, found>>

Init ==
    /\ registry \in {libs \in SUBSET Library : Cardinality(libs) = LibraryCount /\ Disjoint(libs)}
    /\ address = None
    /\ found = None

LookUpAddress ==
    \E a \in Addresses :
        /\ address' = a
        /\ found' = StoreLibraryWithAddress(registry, a)
        /\ UNCHANGED registry

Next == LookUpAddress

Spec == Init /\ [][Next]_vars

-----------------------------------------------------------------------------
(* Properties                                                              *)

(* Reference: the order of byte strings by their first differing char,   *)
(* a proper prefix first.                                                *)
RefCompare(n1, n2) ==
    LET diff == {i \in 1..(Len(n1) + 1) : Byte(n1, i) # Byte(n2, i)}
        i == CHOOSE j \in diff : \A k \in diff : j <= k
    IN IF n1 = n2 THEN kCompareEqualTo
       ELSE IF CharValue(Byte(n1, i)) > CharValue(Byte(n2, i)) THEN kCompareGreaterThan
       ELSE kCompareLesserThan

RegisteredNames == {l.name : l \in registry}

(* The comparator's character loop computes the order of the reference   *)
(* definition on every pair of registered names (every pair of names is   *)
(* registered in some state), so the atree sees one strict total order    *)
(* and finds every registered name.                                      *)
AtreeCompareMatchesReference ==
    \A n1, n2 \in RegisteredNames : AtreeCompare(n1, n2) = RefCompare(n1, n2)
=============================================================================
