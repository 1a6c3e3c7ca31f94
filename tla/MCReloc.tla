------------------------------ MODULE MCReloc ------------------------------
(* The library libA, loaded at 16, relocated against libB at 64.  Every *)
(* entry has its own slot; the slots at offsets 0..6 hold addends 1..7.  *)
(* A table is up to two entries long, in any order: a RELATIVE slot, a   *)
(* GLOB_DAT on x (libB, st_value 4), a PC32 on y (libA, st_value 8), a   *)
(* type the switch does not know, and an R_386_32 on z, which no library *)
(* defines; the PLT table jumps to x or y.  An uninitialized container   *)
(* may read as base 0 or 200.                                            *)
EXTENDS Reloc

MCRelocBase == [l \in {"libA", "libB"} |-> IF l = "libA" THEN 16 ELSE 64]

MCLookup == [s \in {"x", "y", "z"} |->
                CASE s = "x" -> [lib |-> "libB", value |-> 4]
                  [] s = "y" -> [lib |-> "libA", value |-> 8]
                  [] OTHER -> NotFound]

MCEntries == {[type |-> "R_386_RELATIVE", offset |-> 0, sym |-> "x"],
              [type |-> "R_386_GLOB_DAT", offset |-> 1, sym |-> "x"],
              [type |-> "R_386_PC32", offset |-> 2, sym |-> "y"],
              [type |-> "R_386_COPY", offset |-> 3, sym |-> "y"],
              [type |-> "R_386_32", offset |-> 4, sym |-> "z"]}

MCPltEntries == {[type |-> "R_386_JMP_SLOT", offset |-> 5, sym |-> "x"],
                 [type |-> "R_386_JMP_SLOT", offset |-> 6, sym |-> "y"]}

MCInitial == [o \in 0..6 |-> o + 1]
=============================================================================
