------------------------------ MODULE TtyLine -------------------------------
(***************************************************************************)
(* The line disciplines of one terminal (nttty/tty.c): what the driver's   *)
(* input, the program's reads, writes and control calls do to the two      *)
(* character rings.  Calls are taken one at a time (TtyRing has the        *)
(* threads); only a read is a loop of pops, with other calls in between.   *)
(*                                                                         *)
(* The echo of an erase, backspace-space-backspace, is three Rubout        *)
(* characters.  Nothing in the module pops the output ring, so it is the   *)
(* sequence of the characters pushed since the last flush.                 *)
(***************************************************************************)
EXTENDS Integers, SequencesExt

CONSTANTS InSize,     \* NTTY_IBUF_SIZE
          OutSize,    \* NTTY_OBUF_SIZE
          Keys,       \* what the driver passes to `input`
          Prints,     \* what programs write with NttyPutChar
          Texts,      \* and with NttyWrite: sequences of characters
          Termios,    \* the flag sets programs choose
          MaxRead     \* the longest read

CR == "cr"            \* '\r'
NL == "nl"            \* '\n'
Break == "nul"        \* what NttyHandleBreak passes to `input`
Rubout == "rubout"
Nothing == "nothing"

(* The signal characters VINTR, VQUIT and VSUSP, and the editing ones.     *)
Signals == {"intr", "quit", "susp"}
Erase == "erase"
Kill == "kill"
Eof == "eof"

ASSUME SizesAssumption == InSize \in Nat \ {0, 1} /\ OutSize \in Nat /\ MaxRead \in Nat \ {0}
ASSUME CharsAssumption == Nothing \notin Keys \cup Prints /\ Texts \subseteq Seq(Keys \cup Prints)

VARIABLES flags,     \* the bits of c_iflag, c_oflag and c_lflag that the code reads
          disc,      \* line_disc: "cooked" or "raw"
          in,        \* input_buf: [buf, head, tail, count]
          out,       \* output_buf
          reading,   \* how many characters the read under way still wants
          got,       \* the character popped last
          erased     \* history: erases since the input ring was last reset

lineVars == <<flags, disc, in, out, reading, got, erased>>

Chars == Keys \cup {NL, CR, Break}
Slots == 0 .. InSize - 1

(***************************************************************************)
(* The rings.                                                              *)
(***************************************************************************)
Empty(buf) == [buf |-> buf, head |-> 0, tail |-> 0, count |-> 0]

(* NttyPushInputChar: a full ring refuses.                                 *)
Pushed(c) ==
    IF in.count < InSize
    THEN [in EXCEPT !.buf[in.tail] = c, !.tail = (in.tail + 1) % InSize, !.count = @ + 1]
    ELSE in

(* NttyPushOutputChar of one character after another: each is stored if    *)
(* there is room for it, and nobody looks at the answers.                  *)
Printed(s) ==
    LET all == out \o s
    IN  SubSeq(all, 1, Min({Len(all), OutSize}))

(***************************************************************************)
(* What arrives.                                                           *)
(***************************************************************************)
(* ICRNL, and then INLCR on the result.                                    *)
Translated(c) ==
    LET nl == IF "ICRNL" \in flags /\ c = CR THEN NL ELSE c
    IN  IF "INLCR" \in flags /\ nl = NL THEN CR ELSE nl

Cooked == disc = "cooked"
Canonical == Cooked /\ "ICANON" \in flags

IsSignal(c) == Cooked /\ "ISIG" \in flags /\ c \in Signals
IsErase(c) == Canonical /\ c = Erase
IsKill(c) == Canonical /\ c = Kill
IsEof(c) == Canonical /\ c = Eof

(* Signals are not delivered, and the end of file is only told to the      *)
(* driver: neither reaches the ring.                                       *)
Swallow(c) ==
    /\ IsSignal(c) \/ IsEof(c)
    /\ UNCHANGED lineVars

\* An erase that keeps a count of its own.
EraseAlways(c) ==
    /\ IsErase(c)
    /\ in' = [in EXCEPT !.count = @ - 1]
    /\ erased' = (erased + 1) % InSize
    /\ UNCHANGED <<flags, disc, out, reading, got>>

(* VERASE: `count` goes down and `tail` stays.                             *)
EraseChar(c) ==
    /\ IsErase(c)
    /\ IF in.count > 0
       THEN /\ in' = [in EXCEPT !.count = @ - 1]
            /\ erased' = (erased + 1) % InSize
            /\ out' = IF "ECHOE" \in flags THEN Printed(<<Rubout, Rubout, Rubout>>) ELSE out
       ELSE UNCHANGED <<in, erased, out>>
    /\ UNCHANGED <<flags, disc, reading, got>>

\* A kill that leaves `tail` where it was.
KillKeepsTail(c) ==
    /\ IsKill(c)
    /\ in' = [in EXCEPT !.count = 0, !.head = 0]
    /\ erased' = 0
    /\ out' = IF "ECHOK" \in flags THEN Printed(<<NL>>) ELSE out
    /\ UNCHANGED <<flags, disc, reading, got>>

(* VKILL: everything that waits goes, complete lines as well.              *)
KillLine(c) ==
    /\ IsKill(c)
    /\ in' = Empty(in.buf)
    /\ erased' = 0
    /\ out' = IF "ECHOK" \in flags THEN Printed(<<NL>>) ELSE out
    /\ UNCHANGED <<flags, disc, reading, got>>

(* Any other character, and every one in raw mode.  It is echoed also when *)
(* the input ring was full and refused it.                                 *)
Accept(c) ==
    /\ ~ (IsSignal(c) \/ IsErase(c) \/ IsKill(c) \/ IsEof(c))
    /\ LET ch == IF Cooked THEN Translated(c) ELSE c
       IN  /\ in' = Pushed(ch)
           /\ out' = IF Cooked /\ "ECHO" \in flags THEN Printed(<<ch>>) ELSE out
    /\ UNCHANGED <<flags, disc, reading, got, erased>>

(* The line discipline's `input`.                                          *)
Input(c) == Swallow(c) \/ EraseChar(c) \/ KillLine(c) \/ Accept(c)

HandleBreak == Input(Break)

(***************************************************************************)
(* What the program does.                                                  *)
(***************************************************************************)
(* NttyRead, and NttyGetChar, a read of one.                               *)
BeginRead(n) ==
    /\ reading = 0
    /\ reading' = n
    /\ UNCHANGED <<flags, disc, in, out, got, erased>>

\* A pop that moves `head` only.
PopKeepsCount ==
    /\ reading > 0 /\ in.count > 0
    /\ got' = in.buf[in.head]
    /\ in' = [in EXCEPT !.head = (in.head + 1) % InSize]
    /\ reading' = reading - 1
    /\ UNCHANGED <<flags, disc, out, erased>>

Pop ==
    /\ reading > 0 /\ in.count > 0
    /\ got' = in.buf[in.head]
    /\ in' = [in EXCEPT !.head = (in.head + 1) % InSize, !.count = @ - 1]
    /\ reading' = reading - 1
    /\ UNCHANGED <<flags, disc, out, erased>>

(* An empty ring ends the read: it does not wait for a line.               *)
EndRead ==
    /\ reading > 0 /\ in.count = 0
    /\ reading' = 0
    /\ UNCHANGED <<flags, disc, in, out, got, erased>>

(* NttyWrite stores what fits, unprocessed in either mode.                 *)
Write(s) ==
    /\ out' = Printed(s)
    /\ UNCHANGED <<flags, disc, in, reading, got, erased>>

(* NttyPutChar: in cooked mode ONLCR makes a newline two characters.       *)
PutChar(c) ==
    /\ out' = IF Cooked /\ {"OPOST", "ONLCR"} \subseteq flags /\ c = NL
              THEN Printed(<<CR, NL>>)
              ELSE Printed(<<c>>)
    /\ UNCHANGED <<flags, disc, in, reading, got, erased>>

(* NttySetTermios, and the ioctls TCSETS, TCSETSW and TCSETSF: none waits  *)
(* for output and none flushes input.                                      *)
SetTermios(f) ==
    /\ flags' = f
    /\ UNCHANGED <<disc, in, out, reading, got, erased>>

(* NttySetLineDisc, NttySetMode.  CBREAK is cooked.                        *)
SetLineDisc(mode) ==
    /\ disc' = IF mode = "raw" THEN "raw" ELSE "cooked"
    /\ UNCHANGED <<flags, in, out, reading, got, erased>>

(* NttyFlush, and TCFLSH: selector 0 is input, 1 output, anything else     *)
(* both.                                                                   *)
Flush(selector) ==
    /\ IF selector = 1 THEN UNCHANGED <<in, erased>> ELSE in' = Empty(in.buf) /\ erased' = 0
    /\ out' = IF selector = 0 THEN out ELSE <<>>
    /\ UNCHANGED <<flags, disc, reading, got>>

(***************************************************************************)
(* The specification.                                                      *)
(***************************************************************************)
(* NttyInitTermios, in the flags that the code reads.                      *)
DefaultFlags == {"ICRNL", "OPOST", "ONLCR", "ISIG", "ICANON", "ECHO", "ECHOE", "ECHOK"}

LineInit ==
    /\ flags = DefaultFlags
    /\ disc = "cooked"
    /\ in = Empty([i \in Slots |-> Nothing])
    /\ out = <<>>
    /\ reading = 0
    /\ got = Nothing
    /\ erased = 0

LineNext ==
    \/ \E c \in Keys : Input(c)
    \/ HandleBreak
    \/ \E n \in 1 .. MaxRead : BeginRead(n)
    \/ Pop
    \/ EndRead
    \/ \E s \in Texts : Write(s)
    \/ \E c \in Prints : PutChar(c)
    \/ \E f \in Termios : SetTermios(f)
    \/ \E mode \in {"cooked", "raw", "cbreak"} : SetLineDisc(mode)
    \/ \E selector \in 0 .. 2 : Flush(selector)

LineSpec == LineInit /\ [][LineNext]_lineVars

(***************************************************************************)
(* Properties.                                                             *)
(***************************************************************************)
LineTypeOK ==
    /\ flags \in Termios \cup {DefaultFlags} /\ disc \in {"cooked", "raw"}
    /\ in \in [buf : [Slots -> Chars \cup {Nothing}], head : Slots, tail : Slots,
               count : 0 .. InSize]
    /\ out \in Seq(Chars \cup Prints \cup {Rubout}) /\ Len(out) <= OutSize
    /\ reading \in 0 .. MaxRead
    /\ got \in Chars \cup {Nothing} /\ erased \in Slots

(* The distance between `tail` and the end of what waits is the number of  *)
(* erases since the ring was last reset, whatever was typed, read, flushed *)
(* or switched in between: nothing else drives the indices apart, and      *)
(* nothing but a kill or a flush brings them together again.               *)
EraseDebris == (in.tail - in.head - in.count - erased) % InSize = 0

(* What waits, oldest first.                                               *)
Waiting == [i \in 1 .. in.count |-> in.buf[(in.head + i - 1) % InSize]]

Line == INSTANCE TtyQueue
        WITH Size <- InSize, Readers <- {0}, queue <- Waiting, got <- [r \in {0} |-> got]

(* While nothing has been erased since the last kill or flush, each call   *)
(* is a step of the queue or none: reads see what was typed, in order.     *)
QueueUnlessErased ==
    [][erased = 0 /\ erased' = 0
        => [Line!Next]_(Line!vars)]_lineVars
=============================================================================
