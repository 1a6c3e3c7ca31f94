------------------------------ MODULE KString ------------------------------
(***************************************************************************)
(* The byte-string routines of the kernel's C library, src/sys/libc/       *)
(* string.c, that the kernel's own code calls: strlen, strcmp and       *)
(* strstr.  A C string is a sequence of non-zero bytes; reading past its   *)
(* end yields the terminating 0.  A returned pointer into str1 is its      *)
(* 1-based position, NULL is 0.  Whether `char` is signed is up to the     *)
(* build (CharIsSigned): strcmp subtracts chars.                           *)
(***************************************************************************)
EXTENDS Integers, Sequences

CONSTANT CharIsSigned   \* whether the build's char is signed

ASSUME CharIsSigned \in BOOLEAN

(* The value a byte has as a `char`. *)
CharValue(c) == IF CharIsSigned /\ c >= 128 THEN c - 256 ELSE c

(* s[i], with the terminating 0 past the end. *)
Byte(s, i) == IF i <= Len(s) THEN s[i] ELSE 0

(* strlen, lines 97-104: walk to the first 0. *)
RECURSIVE StrlenFrom(_, _)
StrlenFrom(s, i) == IF Byte(s, i) = 0 THEN i - 1 ELSE StrlenFrom(s, i + 1)

Strlen(s) == StrlenFrom(s, 1)

(* Mutant of StrcmpFrom: the loop stops when either string ends.         *)
RECURSIVE StrcmpFromPrefix(_, _, _)
StrcmpFromPrefix(s1, s2, i) ==
    IF Byte(s1, i) = 0 \/ Byte(s2, i) = 0 THEN 0
    ELSE IF Byte(s1, i) = Byte(s2, i) THEN StrcmpFromPrefix(s1, s2, i + 1)
    ELSE CharValue(Byte(s2, i)) - CharValue(Byte(s1, i))

(* strcmp, lines 114-130, from position i: equal chars advance, a common *)
(* 0 returns 0, and the first difference returns *str2 - *str1.          *)
RECURSIVE StrcmpFrom(_, _, _)
StrcmpFrom(s1, s2, i) ==
    IF Byte(s1, i) = Byte(s2, i)
    THEN IF Byte(s1, i) = 0 THEN 0 ELSE StrcmpFrom(s1, s2, i + 1)
    ELSE CharValue(Byte(s2, i)) - CharValue(Byte(s1, i))

Strcmp(s1, s2) == StrcmpFrom(s1, s2, 1)

(* Mutant of StrstrFrom: a mismatch does not reset index.                *)
RECURSIVE StrstrFromNoReset(_, _, _, _, _)
StrstrFromNoReset(s1, s2, i, index, start) ==
    IF Byte(s1, i) = 0 THEN 0
    ELSE IF Byte(s1, i) = Byte(s2, index + 1)
         THEN LET st == IF index = 0 THEN i ELSE start
              IN IF index + 1 = Strlen(s2) THEN st
                 ELSE StrstrFromNoReset(s1, s2, i + 1, index + 1, st)
         ELSE StrstrFromNoReset(s1, s2, i + 1, index, start)

(* strstr, lines 162-183, at str1 position i with `index` chars of str2   *)
(* matched from `start`.  A match records its start at index 0 and        *)
(* returns when index reaches strlen(str2); a mismatch sets index to 0     *)
(* and moves on, without comparing the same char with str2[0] again.     *)
RECURSIVE StrstrFrom(_, _, _, _, _)
StrstrFrom(s1, s2, i, index, start) ==
    IF Byte(s1, i) = 0 THEN 0
    ELSE IF Byte(s1, i) = Byte(s2, index + 1)
         THEN LET st == IF index = 0 THEN i ELSE start
              IN IF index + 1 = Strlen(s2) THEN st
                 ELSE StrstrFrom(s1, s2, i + 1, index + 1, st)
         ELSE StrstrFrom(s1, s2, i + 1, 0, start)

Strstr(s1, s2) == StrstrFrom(s1, s2, 1, 0, 0)
=============================================================================
