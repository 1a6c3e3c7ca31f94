---------------------------- MODULE VideoDevice ----------------------------
(***************************************************************************)
(* The in-band colour escapes of the console, src/sys/video/video.cpp:    *)
(* video_device::interpret_character consumes escape and colour bytes and *)
(* tells its caller (the text device, not under src/) whether to print the *)
(* byte.  The device state is a record; a string is interpreted by folding *)
(* interpret_character over its bytes from the constructor's state.       *)
(***************************************************************************)
EXTENDS Integers, SequencesExt

Black == 0        \* color::black
LightGray == 7    \* color::light_gray

(* The constructor, lines 27-35.  foregroundChange is left uninitialized; *)
(* it is read only while pendingChange holds, which sets it first.        *)
DeviceInit ==
    [foreground |-> LightGray, background |-> Black, pendingChange |-> FALSE,
     foregroundChange |-> FALSE, printed |-> FALSE]

IsColourByte(c) == c \in 16..31

(* Mutant of InterpretCharacter: a colour byte is taken without an escape *)
(* pending.                                                               *)
InterpretCharacterNoPending(dev, c) ==
    CASE c \in {14, 15} ->
           [dev EXCEPT !.pendingChange = TRUE, !.foregroundChange = (c = 14), !.printed = FALSE]
      [] IsColourByte(c) ->
           [dev EXCEPT !.foreground = IF dev.foregroundChange THEN c - 16 ELSE @,
                       !.background = IF dev.foregroundChange THEN @ ELSE c - 16,
                       !.printed = FALSE]
      [] OTHER -> [dev EXCEPT !.printed = TRUE]

(* interpret_character, lines 40-59: 14 and 15 make a change pending and  *)
(* choose foreground or background; with a change pending, 16..31 set     *)
(* that colour through set_colors, keeping the other; any other byte      *)
(* returns false and is printed.  pendingChange is never cleared.         *)
InterpretCharacter(dev, c) ==
    CASE c \in {14, 15} ->
           [dev EXCEPT !.pendingChange = TRUE, !.foregroundChange = (c = 14), !.printed = FALSE]
      [] dev.pendingChange /\ IsColourByte(c) ->
           [dev EXCEPT !.foreground = IF dev.foregroundChange THEN c - 16 ELSE @,
                       !.background = IF dev.foregroundChange THEN @ ELSE c - 16,
                       !.printed = FALSE]
      [] OTHER -> [dev EXCEPT !.printed = TRUE]

(* The device after the bytes of s. *)
Interpret(s) == FoldLeft(InterpretCharacter, DeviceInit, s)
=============================================================================
