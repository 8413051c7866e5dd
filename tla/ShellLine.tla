------------------------------ MODULE ShellLine ------------------------------
(***************************************************************************)
(* The keyboard, the line editor and the screen of the native shell        *)
(* (nativeshell/keytrans.c, input.c, display.c).                           *)
(*                                                                         *)
(* The console has no backspace: to take back a character the shell draws  *)
(* the row again from its copy of it, DisplayBuffer.  The copy, the row on *)
(* the screen and the line that will be run must agree.                    *)
(*                                                                         *)
(* A key that stands for no character, or goes up, changes nothing but the *)
(* state of the Shift keys.  A prompt is one cell; the prompt and the line *)
(* fit on one row, and a line has at most MaxLine characters, fewer than   *)
(* the 127 that CurrentPosition, a CHAR, can count.                        *)
(***************************************************************************)
EXTENDS Integers, SequencesExt

CONSTANTS Letters,     \* the keys that stand for a character
          ShiftKeys,   \* the Shift keys of the keyboard
          MaxLine      \* the characters typed on a line, at most

ASSUME ShellLineAssumption == MaxLine \in 0 .. 127

VARIABLES held,        \* the Shift keys that are down
          shifted,     \* SHIFT_PRESSED of dwControlKeyState
          line,        \* Line, up to CurrentPosition
          display      \* [buffer, row, at]: DisplayBuffer up to LinePos, the
                       \* row of the screen and the characters before the cursor

lineVars == <<held, shifted, line, display>>

Characters == [key : Letters, upper : BOOLEAN]
Sign(name) == [key |-> name, upper |-> FALSE]
Cells == Characters \cup {Sign("prompt"), Sign("blank")}
EmptyRow == [buffer |-> <<>>, row |-> <<>>, at |-> 0]

\* NtDisplayString of text, over what the row shows.
PutText(d, text) ==
    LET end == d.at + Len(text)
    IN  [d EXCEPT !.at = end,
                  !.row = [i \in 1 .. end |-> IF i <= d.at THEN d.row[i]
                                              ELSE text[i - d.at]]
                          \o SubSeq(d.row, end + 1, Len(d.row))]

Return(d) == [d EXCEPT !.at = 0]

(* RtlCliPutChar of a character that stays on the row.                     *)
PutChar(d, c) == [PutText(d, <<c>>) EXCEPT !.buffer = Append(d.buffer, c)]

(* RtlClipBackspace: what is left of the row after its last character.     *)
ClipBackspace(d) == [PutText(d, Front(d.buffer)) EXCEPT !.buffer = Front(d.buffer)]

(* RtlClipDisplayPrompt, on a row of its own.                              *)
Prompt == PutChar(EmptyRow, Sign("prompt"))

LineInit ==
    /\ held = {} /\ shifted = FALSE
    /\ line = <<>> /\ display = Prompt

\* The keys go down and up without the shell to see it.
MoveShift(k) ==
    /\ held' = IF k \in held THEN held \ {k} ELSE held \cup {k}
    /\ UNCHANGED <<shifted, line, display>>

\* A release that the shell does not take in.
ReleaseShiftUnseen(k) ==
    /\ k \in held /\ held' = held \ {k}
    /\ UNCHANGED <<shifted, line, display>>

(* IntUpdateControlKeyState: one flag for both Shift keys.                 *)
PressShift(k) ==
    /\ held' = held \cup {k} /\ shifted' = TRUE
    /\ UNCHANGED <<line, display>>

ReleaseShift(k) ==
    /\ k \in held /\ held' = held \ {k}
    /\ shifted' = FALSE
    /\ UNCHANGED <<line, display>>

(* RtlCliGetLine: a character is stored and shown.                         *)
TypeLetter(l) ==
    /\ Len(line) < MaxLine
    /\ LET c == [key |-> l, upper |-> shifted]
       IN  line' = Append(line, c) /\ display' = PutChar(display, c)
    /\ UNCHANGED <<held, shifted>>

\* A backspace that draws the row once.
BackspaceOnce ==
    /\ line # <<>> /\ line' = Front(line)
    /\ display' = ClipBackspace(Return(display))
    /\ UNCHANGED <<held, shifted>>

(* RtlCliGetLine: the row without its last character, a blank in its       *)
(* place, and the row again, to have the cursor before the blank.          *)
Backspace ==
    /\ line # <<>> /\ line' = Front(line)
    /\ display' = LET blanked == PutChar(ClipBackspace(Return(display)), Sign("blank"))
                  IN  ClipBackspace(Return(blanked))
    /\ UNCHANGED <<held, shifted>>

(* RtlCliGetLine returns and main starts a row: for the output of the      *)
(* command or, after an empty line, for the prompt.                        *)
Enter ==
    /\ line' = <<>>
    /\ display' = IF line = <<>> THEN Prompt ELSE EmptyRow
    /\ UNCHANGED <<held, shifted>>
(***************************************************************************)
(* Properties.                                                             *)
(***************************************************************************)
LineTypeOK ==
    /\ held \subseteq ShiftKeys /\ shifted \in BOOLEAN
    /\ line \in Seq(Characters) /\ Len(line) <= MaxLine
    /\ display \in [buffer : Seq(Cells), row : Seq(Cells), at : Nat]

(* What the operator sees left of the cursor is the prompt and the line    *)
(* that will run, with nothing of an erased character behind it; and the   *)
(* shell's copy of the row is the row.                                     *)
RowShowsLine ==
    /\ display.buffer = <<Sign("prompt")>> \o line
    /\ SubSeq(display.row, 1, display.at) = display.buffer
    /\ \A i \in display.at + 1 .. Len(display.row) : display.row[i] = Sign("blank")
=============================================================================
