----------------------------- MODULE SysHelper -----------------------------
(***************************************************************************)
(* The string helpers of src/sys/system/helper.c that build on the kernel  *)
(* string routines: isCPPName (a strstr test), the C++ name demangler      *)
(* demangleCPPName/demangleNext, and sys_multibootModuleWithName (a strcmp *)
(* search).  Strings are byte sequences as in KString; the demangler's     *)
(* output buffer is the sequence of bytes written before its final 0.     *)
(* isdigit and atoi (not under src/) have their C meaning.                 *)
(***************************************************************************)
EXTENDS KString, VideoDevice, SequencesExt

CONSTANTS
    NameBytes,     \* bytes of the names isCPPName is asked about
    MaxNameLen,    \* their length bound
    Components,    \* C++ identifiers, each shorter than 10 bytes
    ParamCodes,    \* mangled builtin parameter types (v, i, ...)
    ModuleNames,   \* names of multiboot modules and of lookups
    ConsoleBytes,  \* bytes of the strings written to the console
    MaxConsoleLen  \* their length bound

Underscore == 95   \* '_'
UpperZ == 90       \* 'Z'
UpperN == 78       \* 'N'
Colon == 58        \* ':'

IsDigit(c) == c \in 48..57

(* atoi of the digits at position i on. *)
RECURSIVE AtoiFrom(_, _, _)
AtoiFrom(s, i, acc) == IF IsDigit(Byte(s, i)) THEN AtoiFrom(s, i + 1, 10 * acc + Byte(s, i) - 48) ELSE acc

RECURSIVE SkipDigits(_, _)
SkipDigits(s, i) == IF IsDigit(Byte(s, i)) THEN SkipDigits(s, i + 1) ELSE i

(* Line 100: skip to the first digit.  Past the terminating 0 the code    *)
(* reads on through memory; the model stops at the 0.                     *)
RECURSIVE SkipNonDigits(_, _)
SkipNonDigits(s, i) == IF IsDigit(Byte(s, i)) \/ i > Len(s) THEN i ELSE SkipNonDigits(s, i + 1)

(* isCPPName, lines 68-71: strstr(name, "_Z") == name. *)
IsCPPName(name) == Strstr(name, <<Underscore, UpperZ>>) = 1

(* demangleNext, lines 73-90: at a digit, read the length with atoi, skip *)
(* the digits and copy that many bytes; returns <<position, buffer>>.     *)
DemangleNext(name, p, buf) ==
    IF IsDigit(Byte(name, p))
    THEN LET len == AtoiFrom(name, p, 0)
             q == SkipDigits(name, p)
         IN <<q + len, buf \o [k \in 1..len |-> Byte(name, q + k - 1)]>>
    ELSE <<p, buf>>

(* Mutant of DemangleComponents: `first` is never cleared, so no "::" is  *)
(* written between components.                                           *)
RECURSIVE DemangleComponentsNoSeparator(_, _, _, _)
DemangleComponentsNoSeparator(name, p, buf, first) ==
    IF IsDigit(Byte(name, p))
    THEN LET r == DemangleNext(name, p, buf)
         IN DemangleComponentsNoSeparator(name, r[1], r[2], first)
    ELSE buf

(* The loops of lines 104-114 and 130-140: while a length follows, write  *)
(* "::" unless this is the first component, then the component.           *)
RECURSIVE DemangleComponents(_, _, _, _)
DemangleComponents(name, p, buf, first) ==
    IF IsDigit(Byte(name, p))
    THEN LET r == DemangleNext(name, p, IF first THEN buf ELSE buf \o <<Colon, Colon>>)
         IN DemangleComponents(name, r[1], r[2], FALSE)
    ELSE buf

(* demangleCPPName, lines 92-147: skip "_Z"; a nested name "N..." skips   *)
(* to its first length, a plain name starts at its length; anything else  *)
(* demangles to the empty string.                                         *)
DemangleCPPName(name) ==
    CASE Byte(name, 3) = UpperN -> DemangleComponents(name, SkipNonDigits(name, 4), <<>>, TRUE)
      [] Byte(name, 3) \in 49..57 -> DemangleComponents(name, 3, <<>>, TRUE)
      [] OTHER -> <<>>

(* sys_multibootModuleWithName, lines 149-161: the first module (1-based  *)
(* index into the module names) whose name strcmp's equal, else 0.        *)
ModuleWithName(modules, name) ==
    LET hits == {i \in DOMAIN modules : Strcmp(modules[i], name) = 0}
    IN IF hits = {} THEN 0 ELSE CHOOSE i \in hits : \A j \in hits : i <= j
-----------------------------------------------------------------------------
(* The callers: each step is one call of a helper with arguments from the  *)
(* bounded sets; `answer` is what it returns.  The demangler is called on  *)
(* the mangled form of `ids`, which the call carries for the reference.   *)

UpperE == 69   \* 'E'

(* Reference: the Itanium C++ ABI mangling of a qualified name with one    *)
(* builtin parameter type: _Z <length><id>, or _Z N <length><id>... E for *)
(* a nested name, then the parameter.                                     *)
SourceName(id) == <<48 + Len(id)>> \o id
Mangle(ids, param) ==
    <<Underscore, UpperZ>>
    \o (IF Len(ids) = 1 THEN SourceName(ids[1])
        ELSE <<UpperN>> \o FlattenSeq([i \in DOMAIN ids |-> SourceName(ids[i])]) \o <<UpperE>>)
    \o param

(* Reference: the identifiers joined with "::". *)
Qualified(ids) == FlattenSeq([i \in DOMAIN ids |-> IF i = 1 THEN ids[i] ELSE <<Colon, Colon>> \o ids[i]])

VARIABLES call, answer

helperVars == <<call, answer>>

Calls ==
    {[routine |-> "isCPPName", name |-> n] : n \in SeqOf(NameBytes, MaxNameLen)}
    \cup {[routine |-> "demangleCPPName", name |-> Mangle(ids, p), ids |-> ids] :
           ids \in SeqOf(Components, 2) \ {<<>>}, p \in ParamCodes}
    \cup {[routine |-> "sys_multibootModuleWithName", modules |-> m, name |-> n] :
           m \in SeqOf(ModuleNames, 2), n \in ModuleNames}
    \cup {[routine |-> "interpret_character", bytes |-> b] :
           b \in SeqOf(ConsoleBytes, MaxConsoleLen) \ {<<>>}}

HelperInit == call = [routine |-> "none"] /\ answer = 0

(* One call of isCPPName, demangleCPPName or sys_multibootModuleWithName, *)
(* or a fresh console device interpreting the bytes of a string.          *)
HelperCall ==
    \E c \in Calls :
        /\ call' = c
        /\ answer' = CASE c.routine = "isCPPName" -> IsCPPName(c.name)
                     [] c.routine = "demangleCPPName" -> DemangleCPPName(c.name)
                     [] c.routine = "interpret_character" -> Interpret(c.bytes)
                     [] OTHER -> ModuleWithName(c.modules, c.name)

-----------------------------------------------------------------------------
(* Properties: each answer against a reference definition.                 *)

(* isCPPName answers whether a name starts with "_Z", although the strstr  *)
(* it calls forgets a partial match on a mismatch (it compares the         *)
(* mismatching char with str2[0] only at the next position): a symbol is   *)
(* demangled exactly when it is a mangled C++ name.                        *)
IsCPPNameMatchesPrefix ==
    call.routine = "isCPPName" =>
        (answer <=> Len(call.name) >= 2 /\ call.name[1] = Underscore /\ call.name[2] = UpperZ)

(* demangleCPPName turns the mangled name of a plain or nested function    *)
(* with a builtin parameter type back into its qualified name, "::"        *)
(* between the components.                                                 *)
DemangleInvertsMangle ==
    call.routine = "demangleCPPName" => answer = Qualified(call.ids)

(* sys_multibootModuleWithName returns the first module whose name is the  *)
(* one asked for, and none when no name equals it: strcmp reports 0 for    *)
(* equal strings only, prefixes included.                                  *)
ModuleLookupFindsFirstEqual ==
    call.routine = "sys_multibootModuleWithName" =>
        LET hits == {i \in DOMAIN call.modules : call.modules[i] = call.name}
        IN answer = IF hits = {} THEN 0 ELSE CHOOSE i \in hits : \A j \in hits : i <= j

(* The console escapes as the spec states them (line 179), for the last    *)
(* byte of a string: a byte outside 14..31 is printed and changes no       *)
(* colour; 14 and 15 are swallowed; a colour byte directly after 14 (15)   *)
(* sets the foreground (background) to its palette entry and keeps the     *)
(* other colour; a colour byte with no escape before it in the string is   *)
(* printed literally.                                                      *)
ConsoleEscapesFollowSpec ==
    call.routine = "interpret_character" =>
        LET s == call.bytes
            n == Len(s)
            c == s[n]
            before == Interpret(Front(s))
            kept == answer.foreground = before.foreground /\ answer.background = before.background
        IN /\ c \notin 14..31 => answer.printed /\ kept
           /\ c \in {14, 15} => ~answer.printed /\ kept
           /\ IsColourByte(c) /\ n >= 2 /\ s[n - 1] = 14 =>
                ~answer.printed /\ answer.foreground = c - 16 /\ answer.background = before.background
           /\ IsColourByte(c) /\ n >= 2 /\ s[n - 1] = 15 =>
                ~answer.printed /\ answer.background = c - 16 /\ answer.foreground = before.foreground
           /\ IsColourByte(c) /\ (\A i \in 1..n - 1 : s[i] \notin {14, 15}) => answer.printed /\ kept
=============================================================================
