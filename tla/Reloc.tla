------------------------------- MODULE Reloc -------------------------------
(***************************************************************************)
(* The two relocation passes of the user-space linker, src/bin/linkd/      *)
(* reloc.c: library_relocateNonPLT walks library->rel, library_relocatePLT *)
(* walks library->pltRel, one entry per step, each writing the slot at     *)
(* relocBase + r_offset.                                                   *)
(*                                                                         *)
(* Slot contents and addresses are elf32_address_t, arithmetic modulo      *)
(* 2^32; the model computes modulo 2^Width, which keeps every wrap of the  *)
(* code's arithmetic at a width TLC can hold.  library_lookupSymbol (not   *)
(* under src/) is the constant Lookup: symbol -> the defining library and  *)
(* st_value, or NotFound.  `container` is a local of the loop body that    *)
(* only the symbol cases assign; R_386_RELATIVE reads it, so it holds the  *)
(* container of the last symbol relocation of the same pass, or, before    *)
(* any, an uninitialized value: any of the bases in Garbage.               *)
(***************************************************************************)
EXTENDS Integers, Sequences, SequencesExt

CONSTANTS
    Libs,        \* libraries
    Self,        \* the library being relocated
    RelocBase,   \* library -> relocBase
    Entries,     \* candidate entries of library->rel: [type, offset, sym]
    PltEntries,  \* candidate entries of library->pltRel
    MaxRels,     \* bound on the length of each relocation table
    Lookup,      \* symbol -> [lib, value] from library_lookupSymbol, or NotFound
    NotFound,    \* library_lookupSymbol returned NULL
    Initial,     \* slot offset -> its contents before relocation (the addend)
    Garbage,     \* the bases an uninitialized container may yield
    Unset,       \* container before its first assignment
    Width        \* bits of an address in the model

Word == 2^Width

ASSUME /\ Self \in Libs /\ RelocBase \in [Libs -> 0..Word - 1] /\ Garbage \subseteq 0..Word - 1

VARIABLES
    rel,        \* library->rel .. rellimit
    pltRel,     \* library->pltRel .. pltRellimit
    pass,       \* "nonplt", "plt", "done", "failed" (returned false), "aborted" (assert)
    next,       \* index of `rel` in the current table
    container,  \* the loop's container local
    mem         \* slot offset -> contents

vars == <<rel, pltRel, pass, next, container, mem>>

(* Tables of distinct entries, up to MaxRels long. *)
Tables(E) == {s \in UNION {[1..n -> E] : n \in 0..MaxRels} : IsInjective(s)}

Init ==
    /\ rel \in Tables(Entries) /\ pltRel \in Tables(PltEntries)
    /\ pass = "nonplt" /\ next = 1 /\ container = Unset /\ mem = Initial

(* The slot's address: library->relocBase + rel->r_offset. *)
Address(r) == (RelocBase[Self] + r.offset) % Word

(* target = container->relocBase + symbol->st_value *)
Target(sym) == (RelocBase[Lookup[sym].lib] + Lookup[sym].value) % Word

(* The relocBase the RELATIVE case reads through container. *)
ContainerBases == IF container = Unset THEN Garbage ELSE {RelocBase[container]}

SymbolTypes == {"R_386_32", "R_386_GLOB_DAT", "R_386_PC32"}

(* library_relocateNonPLT, lines 25-76: one entry of library->rel.  A      *)
(* symbol that is not found ends the pass with false; NONE and unknown     *)
(* types leave the slot.                                                  *)
NonPltStep ==
    /\ pass = "nonplt" /\ next <= Len(rel)
    /\ LET r == rel[next]
       IN IF r.type \in SymbolTypes /\ Lookup[r.sym] = NotFound
          THEN pass' = "failed" /\ UNCHANGED <<next, container, mem>>
          ELSE /\ next' = next + 1 /\ UNCHANGED pass
               /\ CASE r.type \in {"R_386_32", "R_386_GLOB_DAT"} ->
                         /\ mem' = [mem EXCEPT ![r.offset] = (Target(r.sym) + @) % Word]
                         /\ container' = Lookup[r.sym].lib
                    [] r.type = "R_386_PC32" ->
                         /\ mem' = [mem EXCEPT ![r.offset] = (@ + Target(r.sym) - Address(r)) % Word]
                         /\ container' = Lookup[r.sym].lib
                    [] r.type = "R_386_RELATIVE" ->
                         /\ \E b \in ContainerBases : mem' = [mem EXCEPT ![r.offset] = (@ + b) % Word]
                         /\ UNCHANGED container
                    [] OTHER -> UNCHANGED <<mem, container>>
    /\ UNCHANGED <<rel, pltRel>>

(* Line 79: the non-PLT pass returned true; the PLT pass starts with its  *)
(* own, unassigned container.                                             *)
NonPltDone ==
    /\ pass = "nonplt" /\ next > Len(rel)
    /\ pass' = "plt" /\ next' = 1 /\ container' = Unset
    /\ UNCHANGED <<rel, pltRel, mem>>

(* library_relocatePLT, lines 84-109: every entry must be R_386_JMP_SLOT  *)
(* (assert); the slot gets the target itself.                             *)
PltStep ==
    /\ pass = "plt" /\ next <= Len(pltRel)
    /\ LET r == pltRel[next]
       IN CASE r.type # "R_386_JMP_SLOT" -> pass' = "aborted" /\ UNCHANGED <<next, container, mem>>
            [] Lookup[r.sym] = NotFound -> pass' = "failed" /\ UNCHANGED <<next, container, mem>>
            [] OTHER -> /\ mem' = [mem EXCEPT ![r.offset] = Target(r.sym)]
                        /\ container' = Lookup[r.sym].lib
                        /\ next' = next + 1 /\ UNCHANGED pass
    /\ UNCHANGED <<rel, pltRel>>

(* Line 111: both passes returned true. *)
PltDone ==
    /\ pass = "plt" /\ next > Len(pltRel)
    /\ pass' = "done"
    /\ UNCHANGED <<rel, pltRel, next, container, mem>>

Next == NonPltStep \/ NonPltDone \/ PltStep \/ PltDone

Spec == Init /\ [][Next]_vars

-----------------------------------------------------------------------------
(* Properties                                                              *)

(* The value the i386 ELF ABI defines for a relocated slot: S + A, S + A - *)
(* P, B + A with B the library's own base, and S for a jump slot.          *)
ElfValue(r) ==
    CASE r.type \in {"R_386_32", "R_386_GLOB_DAT"} -> (Target(r.sym) + Initial[r.offset]) % Word
      [] r.type = "R_386_PC32" -> (Target(r.sym) + Initial[r.offset] - Address(r)) % Word
      [] r.type = "R_386_RELATIVE" -> (RelocBase[Self] + Initial[r.offset]) % Word
      [] r.type = "R_386_JMP_SLOT" -> Target(r.sym)
      [] OTHER -> Initial[r.offset]

(* When both passes return true, every slot holds the value the ABI       *)
(* defines for its relocation, whatever entries came before it in the     *)
(* table (spec: R_386_RELATIVE adds the base to the slot).                *)
RelocatedSlotsMatchElf ==
    pass = "done" => \A r \in Range(rel) \cup Range(pltRel) : mem[r.offset] = ElfValue(r)
=============================================================================
