-------------------------- MODULE NativeShellProofs --------------------------
(***************************************************************************)
(* The native shell, for all names, files and keys: handles are closed,    *)
(* but for listings that end early, the shell that reads keys has the      *)
(* keyboard unless that was refused, a copy that reports success is a      *)
(* copy, the screen shows the line, and the state has its types.           *)
(***************************************************************************)
EXTENDS NativeShell, SequenceTheorems, TLAPS

OpenCopy == {"copy_size", "copy_read", "copy_write", "copied"}
CopyPcs == {"copy_src", "copy_dst"} \cup OpenCopy

(* Where the shell stands tells which handles it has open; and the         *)
(* keyboard is free for others from StartProgram to ReopenKeyboard, and    *)
(* else the shell's, unless it was refused.                                *)
HandleInv ==
    /\ pc \in Pcs
    /\ pc \in OpenCopy => open = {"src", "dst"}
    /\ pc = "copy_dst" => open = {"src"}
    /\ pc = "rename" => open = {"file"}
    /\ pc = "pager" => open = {"dir"}
    /\ pc \notin OpenCopy \cup {"copy_dst", "rename", "pager"} => open = {}
    /\ keyboard \in {"shell", "program", "nobody"} /\ denied \in BOOLEAN
    /\ pc \in {"create", "child", "reopen"} => keyboard # "shell"
    /\ pc \notin {"create", "child", "reopen"} => keyboard = "shell" \/ denied

LEMMA HandleInit == NativeShellInit => HandleInv
  BY DEF NativeShellInit, HandleInv, Pcs, OpenCopy

\* A command that ends, with the keyboard as it was.
Ended == Done /\ open' = {} /\ UNCHANGED input

LEMMA HandleEnded ==
  ASSUME HandleInv, pc \notin {"create", "child", "reopen"}, Ended PROVE HandleInv'
  BY DEF HandleInv, Ended, Done, input, Pcs, OpenCopy

LEMMA HandleStep == HandleInv /\ [Next]_vars => HandleInv'
<1> SUFFICES ASSUME HandleInv, [Next]_vars PROVE HandleInv'
  OBVIOUS
<1> USE DEF HandleInv, Pcs, OpenCopy, input
<1>1. CASE EditLine \/ ShiftKey \/ StrayShift \/ KeyUnseen
  BY <1>1 DEF EditLine, ShiftKey, StrayShift, KeyUnseen, shellVars
<1>2. CASE RunLine
  BY <1>2 DEF RunLine
<1>3. CASE ShellStep
  <2>1. CASE ShowSomething \/ StartCommand
    BY <2>1, HandleEnded DEF ShowSomething, StartCommand, Go, Over, Closing, Ended
  <2>2. CASE CopyFails \/ CopyClose
    BY <2>2, HandleEnded DEF CopyFails, CopyClose, Over, Closing, Ended
  <2>3. CASE CopyOpenSrc \/ CopyOpenDst \/ CopyGetSize \/ CopyRead \/ CopyWrite
    BY <2>3 DEF CopyOpenSrc, CopyOpenDst, CopyGetSize, CopyRead, CopyWrite, Go
  <2>4. CASE MoveOpen \/ MoveFails \/ Rename
    BY <2>4, HandleEnded DEF MoveOpen, MoveFails, Rename, Go, Over, Closing, Ended
  <2>5. CASE DeleteFile \/ DeleteFails \/ CreateDirectory
    BY <2>5, HandleEnded DEF DeleteFile, DeleteFails, CreateDirectory, Over, Closing, Ended
  <2>6. CASE ListLeaks \/ ListDirectory
    BY <2>6 DEF ListLeaks, ListDirectory, Go, Done
  <2>7. CASE StartProgram \/ CreateProcess \/ ReopenKeyboard
    BY <2>7 DEF StartProgram, CreateProcess, ReopenKeyboard, Done, Go
  <2> QED
    BY <1>3, <2>1, <2>2, <2>3, <2>4, <2>5, <2>6, <2>7 DEF ShellStep
<1>4. CASE Answer
  BY <1>4, HandleEnded DEF Answer, AnswerYes, AnswerNo, Over, Closing, Ended
<1>5. CASE ChildExits \/ OtherProcess \/ OtherKeyboard
  BY <1>5 DEF ChildExits, OtherProcess, OtherKeyboard, Go
<1>6. CASE UNCHANGED vars
  BY <1>6 DEF vars, shellVars
<1> QED
  BY <1>1, <1>2, <1>3, <1>4, <1>5, <1>6 DEF Next

LEMMA HandleInvariant == Spec => []HandleInv
  BY HandleInit, HandleStep, PTL DEF Spec

LEMMA ClosedAll == ASSUME NEW closed, Closing(closed), open \subseteq closed PROVE leaked' = leaked
  BY DEF Closing

\* Copy, move, del and md end with all their handles closed, on every path.
LEMMA EndsClose ==
  ASSUME HandleInv, ShowSomething \/ CopyFails \/ CopyClose \/ MoveFails \/ Rename
                    \/ DeleteFile \/ DeleteFails \/ CreateDirectory
  PROVE  leaked' = leaked
<1> USE DEF HandleInv, OpenCopy, Over
<1>1. CASE ShowSomething \/ DeleteFile \/ DeleteFails \/ CreateDirectory
  BY <1>1, ClosedAll DEF ShowSomething, DeleteFile, DeleteFails, CreateDirectory
<1>2. CASE CopyFails \/ CopyClose
  BY <1>2, ClosedAll DEF CopyFails, CopyClose
<1>3. CASE MoveFails \/ Rename
  BY <1>3, ClosedAll DEF MoveFails, Rename
<1> QED
  BY <1>1, <1>2, <1>3

\* 'n' closes nothing, and what it had open is the directory.
LEMMA AnswerNoLeaks ==
  ASSUME HandleInv, AnswerNo PROVE leaked' = leaked \cup {job.src} /\ Done /\ files' = files
  BY DEF HandleInv, AnswerNo, Over, Closing

LEMMA AnswerYesCloses == ASSUME HandleInv, AnswerYes PROVE leaked' = leaked
  BY ClosedAll DEF HandleInv, AnswerYes, Over

\* Which steps leave a handle open for good.
LEMMA WhatLeaks ==
  ASSUME HandleInv, [Next]_vars, leaked' # leaked PROVE ListLeaks \/ AnswerNo
<1>1. CASE EditLine \/ ShiftKey \/ StrayShift \/ KeyUnseen \/ RunLine \/ UNCHANGED vars
  BY <1>1 DEF EditLine, ShiftKey, StrayShift, KeyUnseen, RunLine, vars, shellVars
<1>2. CASE ChildExits \/ OtherProcess \/ OtherKeyboard
  BY <1>2 DEF ChildExits, OtherProcess, OtherKeyboard
<1>3. CASE Answer
  BY <1>3, AnswerYesCloses DEF Answer
<1>4. CASE ShellStep
  <2>1. CASE StartCommand \/ CopyOpenSrc \/ CopyOpenDst \/ CopyGetSize \/ CopyRead \/ CopyWrite
    BY <2>1 DEF StartCommand, CopyOpenSrc, CopyOpenDst, CopyGetSize, CopyRead, CopyWrite
  <2>2. CASE MoveOpen \/ ListDirectory \/ StartProgram \/ CreateProcess \/ ReopenKeyboard
    BY <2>2 DEF MoveOpen, ListDirectory, StartProgram, CreateProcess, ReopenKeyboard
  <2> QED
    BY <1>4, <2>1, <2>2, EndsClose DEF ShellStep
<1> QED
  BY <1>1, <1>2, <1>3, <1>4 DEF Next

(* KeyboardOwned: main.c gives the keyboard up for a program, whether or   *)
(* not one starts, and reads keys without it only after a refused open.    *)
THEOREM ShellOwnsKeyboard == Spec => []KeyboardOwned
<1>1. HandleInv => KeyboardOwned
  BY DEF HandleInv, KeyboardOwned
<1> QED
  BY <1>1, HandleInvariant, PTL

(***************************************************************************)
(* A copy.                                                                 *)
(***************************************************************************)
AnyEntry == {Absent, Directory} \cup {File(s) : s \in Seq(Chunks)}

\* Where the shell works on named files.
Named == CopyPcs \cup {"move_open", "rename", "del"}

(* The destination has the chunks of the source that have been copied, and *)
(* the size that was read is still the size of the source.                 *)
CopyInv ==
    /\ files \in [Names -> AnyEntry]
    /\ pc \in Named => job.src \in Names /\ job.dst \in Names
    /\ job \in [src : Names \cup {"none"}, dst : Names \cup {"none"},
                size : Nat, copied : Nat, pages : Nat]
    /\ pc \in {"copy_src", "copy_dst", "copy_size"} => job.copied = 0
    /\ pc \in OpenCopy =>
          /\ job.src # job.dst
          /\ job.copied \in 0 .. Len(files[job.src].data)
          /\ files[job.dst] = File(SubSeq(files[job.src].data, 1, job.copied))
    /\ pc \in {"copy_read", "copy_write", "copied"} =>
          job.size = Len(files[job.src].data)
    /\ pc = "copy_write" => job.copied < Len(files[job.src].data)
    /\ pc = "copied" => job.copied = job.size /\ job.copied > 0

LEMMA EntriesAreAny == Entries \subseteq AnyEntry
<1>1. ASSUME NEW s \in BoundedSeq(Chunks, MaxChunks) PROVE s \in Seq(Chunks)
  <2>1. PICK m \in 0 .. MaxChunks : s \in [1 .. m -> Chunks]
    BY <1>1 DEF BoundedSeq, SeqOf
  <2> QED
    BY <2>1
<1> QED
  BY <1>1 DEF Entries, Contents, AnyEntry

\* What every entry holds is a sequence, empty unless the entry is a file.
LEMMA EntryData ==
  ASSUME NEW e \in AnyEntry
  PROVE  /\ e.data \in Seq(Chunks)
         /\ Len(e.data) > 0 => e = File(e.data)
<1>1. CASE e \in {Absent, Directory}
  <2>1. e.data = <<>>
    BY <1>1 DEF Absent, Directory
  <2> QED
    BY <2>1
<1>2. CASE \E s \in Seq(Chunks) : e = File(s)
  BY <1>2 DEF File
<1> QED
  BY <1>1, <1>2 DEF AnyEntry

LEMMA EmptyPrefix == ASSUME NEW S, NEW s \in Seq(S) PROVE SubSeq(s, 1, 0) = <<>>
  OBVIOUS

LEMMA WholePrefix == ASSUME NEW S, NEW s \in Seq(S) PROVE SubSeq(s, 1, Len(s)) = s
  OBVIOUS

LEMMA LongerPrefix ==
  ASSUME NEW S, NEW s \in Seq(S), NEW k \in Nat, k < Len(s)
  PROVE  Append(SubSeq(s, 1, k), s[k + 1]) = SubSeq(s, 1, k + 1)
  OBVIOUS

LEMMA CopyInit == NativeShellInit => CopyInv
  BY EntriesAreAny DEF NativeShellInit, CopyInv, Named, CopyPcs, OpenCopy, NoJob, Job

\* A step that leaves files and job alone and does not begin to work on files.
LEMMA StandStill ==
  CopyInv /\ UNCHANGED <<files, job>> /\ (pc' = pc \/ pc' \notin Named) => CopyInv'
  BY DEF CopyInv, Named, CopyPcs, OpenCopy

\* A step that ends a command.
LEMMA Ending ==
  CopyInv /\ pc' = "line" /\ job' = NoJob /\ files' \in [Names -> AnyEntry] => CopyInv'
  BY DEF CopyInv, Named, CopyPcs, OpenCopy, NoJob, Job

LEMMA DirectoryIsAny == Directory \in AnyEntry /\ Absent \in AnyEntry
  BY DEF AnyEntry

LEMMA FileIsAny == ASSUME NEW s \in Seq(Chunks) PROVE File(s) \in AnyEntry /\ File(s).data = s
  BY DEF AnyEntry, File

LEMMA CopyStep == HandleInv /\ CopyInv /\ [Next]_vars => CopyInv'
<1> SUFFICES ASSUME HandleInv, CopyInv, [Next]_vars PROVE CopyInv'
  OBVIOUS
<1> DEFINE src == files[job.src].data
<1>1. CASE EditLine \/ ShiftKey \/ StrayShift \/ KeyUnseen \/ OtherKeyboard \/ UNCHANGED vars
  BY <1>1, StandStill DEF EditLine, ShiftKey, StrayShift, KeyUnseen, OtherKeyboard, shellVars, vars
<1>2. CASE RunLine \/ StartProgram \/ CreateProcess \/ ChildExits
  BY <1>2, StandStill DEF RunLine, StartProgram, CreateProcess, ChildExits, Go, Named,
     CopyPcs, OpenCopy
<1>3. CASE Done /\ UNCHANGED files
  BY <1>3, Ending DEF Done, CopyInv
<1>4. CASE DeleteFile \/ CreateDirectory \/ Rename
  <2>1. files' \in [Names -> AnyEntry]
    <3>1. CASE DeleteFile \/ CreateDirectory
      BY <1>4, <3>1, DirectoryIsAny DEF DeleteFile, CreateDirectory, CopyInv
    <3>2. CASE Rename
      BY <3>2, DirectoryIsAny DEF Rename, CopyInv, Named
    <3> QED
      BY <1>4, <3>1, <3>2
  <2> QED
    BY <1>4, <2>1, Ending DEF DeleteFile, CreateDirectory, Rename, Closing, Done
<1>5. CASE ListLeaks \/ ReopenKeyboard
  BY <1>3, <1>5 DEF ListLeaks, ReopenKeyboard
<1>6. CASE AnswerYes /\ ~Done
  BY <1>6 DEF AnswerYes, Over, Closing, CopyInv, Named, CopyPcs, OpenCopy
<1>7. CASE StartCommand
  <2>1. PICK n, m \in Names : job' = Job(n, m)
    BY <1>7 DEF StartCommand
  <2>2. UNCHANGED files /\ pc' \in {"copy_src", "move_open", "del"}
    BY <1>7 DEF StartCommand, Go
  <2> QED
    BY <2>1, <2>2 DEF Job, CopyInv, Named, CopyPcs, OpenCopy
<1>8. CASE ListDirectory
  <2>1. PICK n \in Names, pages \in 1 .. MaxPages :
           job' = [Job(n, "none") EXCEPT !.pages = pages]
    BY <1>8 DEF ListDirectory
  <2>2. job' = [src |-> n, dst |-> "none", size |-> 0, copied |-> 0, pages |-> pages]
    BY <2>1 DEF Job
  <2>3. UNCHANGED files /\ pc' = "pager"
    BY <1>8 DEF ListDirectory, Go
  <2>4. pages \in Nat
    BY NativeShellAssumption
  <2> QED
    BY <2>2, <2>3, <2>4 DEF CopyInv, Named, CopyPcs, OpenCopy
<1>9. CASE CopyOpenSrc \/ MoveOpen
  BY <1>9 DEF CopyOpenSrc, MoveOpen, Go, CopyInv, Named, CopyPcs, OpenCopy
<1>10. CASE CopyOpenDst
  <2>1. job.src # job.dst /\ files' \in [Names -> AnyEntry]
    <3>1. job.src # job.dst
      BY <1>10 DEF CopyOpenDst, Exclusive, HandleInv
    <3>2. File(<<>>) \in AnyEntry
      <4>1. <<>> \in Seq(Chunks)
        OBVIOUS
      <4> QED
        BY <4>1, FileIsAny
    <3> QED
      BY <1>10, <3>1, <3>2 DEF CopyOpenDst, CopyInv
  <2>2. src \in Seq(Chunks) /\ SubSeq(src, 1, 0) = <<>>
    BY <1>10, EntryData, EmptyPrefix DEF CopyOpenDst, CopyInv, Named, CopyPcs
  <2>3. files'[job.dst] = File(<<>>) /\ files'[job.src] = files[job.src]
    BY <1>10, <2>1 DEF CopyOpenDst, CopyInv, Named, CopyPcs
  <2>4. Len(src) \in Nat
    BY <2>2
  <2> QED
    <3>1. pc = "copy_dst" /\ pc' = "copy_size" /\ job' = job /\ job.copied = 0
          /\ job.src \in Names /\ job.dst \in Names
      BY <1>10 DEF CopyOpenDst, Go, CopyInv, Named, CopyPcs
    <3>2. files'[job'.dst] = File(SubSeq(files'[job'.src].data, 1, job'.copied))
      BY <2>2, <2>3, <3>1
    <3>3. job'.copied \in 0 .. Len(files'[job'.src].data)
      BY <2>3, <2>4, <3>1
    <3> QED
      BY <2>1, <3>1, <3>2, <3>3 DEF CopyInv, Named, CopyPcs, OpenCopy
<1>11. CASE CopyGetSize
  <2>1. Len(src) \in Nat
    BY <1>11, EntryData DEF CopyGetSize, CopyInv, Named, CopyPcs, OpenCopy
  <2> QED
    BY <1>11, <2>1 DEF CopyGetSize, Go, CopyInv, Named, CopyPcs, OpenCopy
<1>12. CASE CopyRead
  BY <1>12 DEF CopyRead, Go, CopyInv, Named, CopyPcs, OpenCopy
<1>13. CASE CopyWrite
  <2> DEFINE part == SubSeq(src, 1, job.copied)
             more == SubSeq(src, 1, job.copied + 1)
  <2>1. src \in Seq(Chunks) /\ job.src # job.dst /\ job.src \in Names /\ job.dst \in Names
        /\ job.copied \in Nat /\ job.copied < Len(src) /\ job.size = Len(src)
        /\ files[job.dst] = File(part)
    BY <1>13, EntryData DEF CopyWrite, CopyInv, Named, CopyPcs, OpenCopy
  <2>2. Append(part, src[job.copied + 1]) = more /\ more \in Seq(Chunks)
    BY <2>1, LongerPrefix
  <2>3. files'[job.dst] = File(more) /\ files'[job.src] = files[job.src]
        /\ files' \in [Names -> AnyEntry]
    <3>1. files' = [files EXCEPT ![job.dst] = File(more)]
      <4>1. files[job.dst].data = part
        BY <2>1 DEF File
      <4>2. files' = [files EXCEPT ![job.dst] =
                        File(Append(files[job.dst].data, src[job.copied + 1]))]
        BY <1>13 DEF CopyWrite
      <4> QED
        BY <2>2, <4>1, <4>2
    <3> QED
      BY <2>1, <2>2, <3>1, FileIsAny DEF CopyInv
  <2>4. job' = [job EXCEPT !.copied = job.copied + 1] /\ UNCHANGED open
        /\ pc' = IF job.copied + 1 = job.size THEN "copied" ELSE "copy_read"
    BY <1>13 DEF CopyWrite, Go
  <2>5. job'.src = job.src /\ job'.dst = job.dst /\ job'.copied = job.copied + 1
        /\ job'.size = job.size
    BY <2>4 DEF CopyInv
  <2>6. job' \in [src : Names \cup {"none"}, dst : Names \cup {"none"},
                 size : Nat, copied : Nat, pages : Nat]
    BY <2>4, <2>1 DEF CopyInv
  <2>7. Len(src) \in Nat
    BY <2>1
  <2> HIDE DEF part, more
  <2>8. files'[job'.dst] = File(SubSeq(files'[job'.src].data, 1, job'.copied))
    BY <2>3, <2>5 DEF more
  <2> QED
    BY <2>1, <2>3, <2>4, <2>5, <2>6, <2>7, <2>8 DEF CopyInv, Named, CopyPcs, OpenCopy
<1>14. CASE OtherProcess
  <2>1. PICK n \in Names, e \in Entries : ~Exclusive(n) /\ files' = [files EXCEPT ![n] = e]
    BY <1>14 DEF OtherProcess
  <2>2. files' \in [Names -> AnyEntry]
    BY <2>1, EntriesAreAny DEF CopyInv
  <2>3. ASSUME pc \in OpenCopy
        PROVE  files'[job.src] = files[job.src] /\ files'[job.dst] = files[job.dst]
    BY <2>1, <2>3 DEF Exclusive, HandleInv, CopyInv, Named, CopyPcs
  <2>4. UNCHANGED <<pc, job>>
    BY <1>14 DEF OtherProcess
  <2> QED
    BY <2>2, <2>3, <2>4 DEF CopyInv, Named, CopyPcs, OpenCopy
<1> QED
  <2>1. ASSUME ShellStep PROVE CopyInv'
    BY <2>1, <1>2, <1>3, <1>4, <1>5, <1>7, <1>8, <1>9, <1>10, <1>11, <1>12, <1>13
       DEF ShellStep, ShowSomething, CopyFails, CopyClose, MoveFails, DeleteFails, Over, Closing
  <2>2. ASSUME Answer PROVE CopyInv'
    BY <2>2, <1>3, <1>6 DEF Answer, AnswerYes, AnswerNo, Over, Closing
  <2> QED
    BY <2>1, <2>2, <1>1, <1>2, <1>14 DEF Next

LEMMA CopyInvariant == Spec => []CopyInv
<1>1. NativeShellInit => HandleInv /\ CopyInv
  BY HandleInit, CopyInit
<1>2. HandleInv /\ CopyInv /\ [Next]_vars => (HandleInv /\ CopyInv)'
  BY HandleStep, CopyStep
<1> QED
  BY <1>1, <1>2, PTL DEF Spec

(* CopyFaithful: when the loop of NtFileCopyFile has ended with success,   *)
(* the destination is another file than the source and equals it, with any *)
(* other processes at work.                                                *)
THEOREM CopyIsFaithful == Spec => []CopyFaithful
<1>1. CopyInv => CopyFaithful
  <2> SUFFICES ASSUME CopyInv, pc = "copied"
               PROVE  job.src # job.dst /\ files[job.dst] = files[job.src]
    BY DEF CopyFaithful
  <2> DEFINE src == files[job.src]
  <2>1. src \in AnyEntry /\ job.src # job.dst /\ job.copied = Len(src.data) /\ job.copied > 0
        /\ files[job.dst] = File(SubSeq(src.data, 1, job.copied))
    BY DEF CopyInv, Named, CopyPcs, OpenCopy
  <2>2. src.data \in Seq(Chunks) /\ src = File(src.data)
    BY <2>1, EntryData
  <2> QED
    BY <2>1, <2>2, WholePrefix
<1> QED
  BY <1>1, CopyInvariant, PTL

LEMMA KeepingStep == HandleInv /\ CopyInv /\ Next /\ pc' # pc => KeepsFiles
<1> SUFFICES ASSUME HandleInv, CopyInv, Next, pc' # pc PROVE KeepsFiles
  OBVIOUS
<1>1. ASSUME UNCHANGED files PROVE KeepsFiles
  BY <1>1 DEF KeepsFiles
<1>2. CASE CopyOpenDst
  BY <1>2 DEF CopyOpenDst, Exclusive, KeepsFiles, HandleInv, CopyInv
<1>3. CASE CopyWrite
  BY <1>3 DEF CopyWrite, KeepsFiles, CopyInv, OpenCopy
<1>4. CASE Rename
  <2>1. job.src \in Names
    BY <1>4 DEF Rename, CopyInv, Named
  <2>2. CASE job.dst \in Names
    BY <1>4, <2>1, <2>2 DEF Rename, Exists, KeepsFiles, CopyInv
  <2>3. CASE job.dst \notin Names
    BY <1>4, <2>3 DEF Rename, CopyInv, Named
  <2> QED
    BY <2>2, <2>3
<1>5. CASE DeleteFile
  BY <1>5 DEF DeleteFile, KeepsFiles, CopyInv
<1>6. CASE CreateDirectory
  BY <1>6 DEF CreateDirectory, Exists, KeepsFiles, CopyInv
<1>7. CASE EditLine \/ ShiftKey \/ StrayShift \/ KeyUnseen \/ RunLine \/ ChildExits \/ OtherKeyboard
  BY <1>1, <1>7 DEF EditLine, ShiftKey, StrayShift, KeyUnseen, RunLine, ChildExits, OtherKeyboard,
     shellVars
<1>8. CASE StartCommand \/ CopyOpenSrc \/ CopyGetSize \/ CopyRead \/ MoveOpen
  BY <1>1, <1>8 DEF StartCommand, CopyOpenSrc, CopyGetSize, CopyRead, MoveOpen
<1>9. CASE ListLeaks \/ ListDirectory \/ StartProgram \/ CreateProcess \/ ReopenKeyboard
  BY <1>1, <1>9 DEF ListLeaks, ListDirectory, StartProgram, CreateProcess, ReopenKeyboard
<1>10. CASE Answer
  BY <1>1, <1>10 DEF Answer, AnswerYes, AnswerNo, Over
<1>11. CASE OtherProcess
  BY <1>11 DEF OtherProcess
<1>12. ASSUME ShellStep PROVE KeepsFiles
  BY <1>1, <1>2, <1>3, <1>4, <1>5, <1>6, <1>8, <1>9, <1>12
     DEF ShellStep, ShowSomething, CopyFails, CopyClose, MoveFails, DeleteFails, Over
<1> QED
  BY <1>7, <1>10, <1>11, <1>12 DEF Next

(* FilesKept: copy, move and md destroy no file but the destination of a   *)
(* copy, which is never its source; a rename that would replace a file     *)
(* leaves everything where it is.                                          *)
THEOREM ShellKeepsFiles == Spec => FilesKept
<1>1. HandleInv /\ CopyInv /\ [Next]_vars => [pc' # pc => KeepsFiles]_vars
  BY KeepingStep
<1> QED
  BY <1>1, HandleInvariant, CopyInvariant, PTL DEF Spec, FilesKept

(***************************************************************************)
(* The screen.                                                             *)
(***************************************************************************)
Displays == [buffer : Seq(Cells), row : Seq(Cells), at : Nat]

\* The screen and its copy show the cells `b` left of the cursor, and nothing after.
Shows(d, b) ==
    /\ d \in Displays
    /\ d.buffer = b /\ d.at = Len(b) /\ Len(b) <= Len(d.row)
    /\ \A i \in 1 .. Len(b) : d.row[i] = b[i]
    /\ \A i \in Len(b) + 1 .. Len(d.row) : d.row[i] = Sign("blank")

(* Outside the prompt no line is kept, and there the screen is left alone. *)
ScreenInv ==
    /\ line \in Seq(Characters) /\ Len(line) <= MaxLine
    /\ display \in Displays
    /\ pc # "line" => line = <<>>
    /\ pc = "line" => Shows(display, <<Sign("prompt")>> \o line)

\* NtDisplayString of text that fits between what is shown and what is not.
LEMMA PutTextIs ==
  ASSUME NEW d \in Displays, d.at <= Len(d.row), NEW text \in Seq(Cells),
         NEW e, e = PutText(d, text)
  PROVE  /\ e \in Displays
         /\ e.buffer = d.buffer /\ e.at = d.at + Len(text)
         /\ Len(e.row) = IF e.at > Len(d.row) THEN e.at ELSE Len(d.row)
         /\ \A i \in 1 .. Len(e.row) :
               e.row[i] = IF d.at < i /\ i <= e.at THEN text[i - d.at] ELSE d.row[i]
<1> DEFINE end == d.at + Len(text)
           begin == [i \in 1 .. end |-> IF i <= d.at THEN d.row[i] ELSE text[i - d.at]]
           rest == SubSeq(d.row, end + 1, Len(d.row))
           new == begin \o rest
<1>1. e = [d EXCEPT !.at = end, !.row = new]
  BY DEF PutText
<1>2. d.row \in Seq(Cells) /\ d.at \in 0 .. Len(d.row) /\ d.buffer \in Seq(Cells)
      /\ end \in Nat /\ d.at <= end
  BY DEF Displays
<1>3. /\ begin \in Seq(Cells) /\ Len(begin) = end
      /\ \A i \in 1 .. end : begin[i] = IF d.at < i THEN text[i - d.at] ELSE d.row[i]
  <2>1. \A i \in 1 .. end : (IF i <= d.at THEN d.row[i] ELSE text[i - d.at]) \in Cells
    <3> SUFFICES ASSUME NEW i \in 1 .. end
                 PROVE  (IF i <= d.at THEN d.row[i] ELSE text[i - d.at]) \in Cells
      OBVIOUS
    <3>1. CASE i <= d.at
      BY <1>2, <3>1
    <3>2. CASE ~(i <= d.at)
      BY <1>2, <3>2
    <3> QED
      BY <3>1, <3>2
  <2>2. begin \in [1 .. end -> Cells]
    BY <2>1
  <2>3. \A i \in 1 .. end : begin[i] = IF d.at < i THEN text[i - d.at] ELSE d.row[i]
    BY <1>2
  <2> HIDE DEF begin
  <2>4. end \in Nat
    BY <1>2
  <2> HIDE DEF end
  <2> QED
    BY <2>2, <2>3, <2>4
<1>4. /\ rest \in Seq(Cells)
      /\ Len(rest) = IF end < Len(d.row) THEN Len(d.row) - end ELSE 0
      /\ \A i \in 1 .. Len(d.row) - end : rest[i] = d.row[end + i]
  <2> HIDE DEF end
  <2>1. \A i \in end + 1 .. Len(d.row) : d.row[i] \in Cells
    BY <1>2
  <2> QED
    BY <1>2, <2>1, SubSeqProperties
<1>5. end = d.at + Len(text)
  OBVIOUS
<1> HIDE DEF end, begin, rest
<1>6. /\ new \in Seq(Cells)
      /\ Len(new) = Len(begin) + Len(rest)
      /\ \A i \in 1 .. Len(begin) + Len(rest) :
            new[i] = IF i <= Len(begin) THEN begin[i] ELSE rest[i - Len(begin)]
  <2>1. begin \in Seq(Cells) /\ rest \in Seq(Cells)
    BY <1>3, <1>4
  <2> QED
    BY ONLY <2>1, ConcatProperties DEF new
<1> HIDE DEF new
<1>7. Len(d.row) \in Nat /\ Len(new) = IF end > Len(d.row) THEN end ELSE Len(d.row)
  BY <1>2, <1>3, <1>4, <1>6
<1>8. ASSUME NEW i \in 1 .. Len(new)
      PROVE  new[i] = IF d.at < i /\ i <= end THEN text[i - d.at] ELSE d.row[i]
  <2>1. CASE i <= end
    BY <1>2, <1>3, <1>4, <1>6, <1>8, <2>1
  <2>2. CASE ~(i <= end)
    <3>1. new[i] = rest[i - end] /\ i - end \in 1 .. Len(d.row) - end
      BY <1>2, <1>3, <1>4, <1>6, <1>7, <1>8, <2>2, SMTT(30)
    <3>2. rest[i - end] = d.row[end + (i - end)] /\ end + (i - end) = i
      BY <1>2, <1>4, <3>1
    <3> QED
      BY <2>2, <3>1, <3>2
  <2> QED
    BY <2>1, <2>2
<1>9. e.at = end /\ e.row = new /\ e.buffer = d.buffer /\ e \in Displays
  BY <1>1, <1>2, <1>6 DEF Displays
<1> QED
  BY <1>5, <1>7, <1>8, <1>9

LEMMA Appended ==
  ASSUME NEW S, NEW s \in Seq(S), NEW x \in S
  PROVE  /\ Append(s, x) \in Seq(S) /\ Len(Append(s, x)) = Len(s) + 1
         /\ Append(s, x)[Len(s) + 1] = x /\ Front(Append(s, x)) = s
         /\ \A i \in 1 .. Len(s) : Append(s, x)[i] = s[i]
  BY DEF Front

LEMMA Fronted ==
  ASSUME NEW S, NEW s \in Seq(S), s # <<>>
  PROVE  /\ Front(s) \in Seq(S) /\ Len(s) \in Nat \ {0} /\ Len(Front(s)) = Len(s) - 1
         /\ \A i \in 1 .. Len(s) - 1 : Front(s)[i] = s[i]
<1>1. Len(s) \in Nat \ {0}
  BY EmptySeq
<1>2. PICK f : f = Front(s)
  OBVIOUS
<1>3. /\ f \in Seq(S) /\ Len(f) = IF 1 <= Len(s) - 1 THEN Len(s) - 1 - 1 + 1 ELSE 0
      /\ \A i \in 1 .. Len(s) - 1 - 1 + 1 : f[i] = s[1 + i - 1]
  <2>1. \A i \in 1 .. Len(s) - 1 : s[i] \in S
    BY <1>1
  <2>2. Len(s) - 1 \in Int /\ 1 \in Int
    BY <1>1
  <2> QED
    BY ONLY <1>2, <2>1, <2>2, SubSeqProperties DEF Front
<1>4. Len(f) = Len(s) - 1
  <2>1. PICK n \in Nat \ {0} : n = Len(s)
    BY <1>1
  <2>2. Len(f) = IF 1 <= n - 1 THEN n - 1 - 1 + 1 ELSE 0
    BY <1>3, <2>1
  <2> QED
    BY ONLY <2>1, <2>2
<1>5. \A i \in 1 .. Len(s) - 1 : f[i] = s[i]
  BY <1>1, <1>3
<1> QED
  BY <1>1, <1>2, <1>3, <1>4, <1>5

\* RtlCliPutChar shows one cell more.
LEMMA ShownChar ==
  ASSUME NEW b \in Seq(Cells), NEW d, Shows(d, b), NEW c \in Cells
  PROVE  Shows(PutChar(d, c), Append(b, c))
<1>1. /\ d \in Displays /\ d.buffer = b /\ d.at = Len(b) /\ Len(b) <= Len(d.row)
      /\ \A i \in 1 .. Len(b) : d.row[i] = b[i]
      /\ \A i \in Len(b) + 1 .. Len(d.row) : d.row[i] = Sign("blank")
  BY DEF Shows
<1>2. PICK text : text = <<c>>
  OBVIOUS
<1>13. text \in Seq(Cells) /\ Len(text) = 1 /\ text[1] = c
  BY <1>2
<1>3. PICK e : e = PutText(d, text)
  OBVIOUS
<1>4. /\ e \in Displays /\ e.at = d.at + Len(text)
      /\ Len(e.row) = IF e.at > Len(d.row) THEN e.at ELSE Len(d.row)
      /\ \A i \in 1 .. Len(e.row) :
            e.row[i] = IF d.at < i /\ i <= e.at THEN text[i - d.at] ELSE d.row[i]
  <2>1. d \in Displays /\ d.at <= Len(d.row) /\ text \in Seq(Cells)
    BY <1>1, <1>13
  <2> QED
    BY ONLY <1>3, <2>1, PutTextIs
<1>14. e.at = Len(b) + 1
  BY <1>1, <1>4, <1>13
<1>5. /\ Append(b, c) \in Seq(Cells) /\ Len(Append(b, c)) = Len(b) + 1
      /\ Append(b, c)[Len(b) + 1] = c
      /\ \A i \in 1 .. Len(b) : Append(b, c)[i] = b[i]
  BY Appended
<1>6. PutChar(d, c) = [e EXCEPT !.buffer = Append(b, c)]
  BY <1>1, <1>2, <1>3 DEF PutChar
<1>7. PICK f : f = PutChar(d, c)
  OBVIOUS
<1>8. f \in Displays /\ f.buffer = Append(b, c) /\ f.at = Len(b) + 1 /\ f.row = e.row
  BY <1>1, <1>4, <1>5, <1>6, <1>7, <1>14 DEF Displays
<1>9. Len(b) \in Nat /\ Len(d.row) \in Nat
  BY <1>1 DEF Displays
<1>10. Len(b) + 1 <= Len(f.row)
  BY <1>1, <1>4, <1>8, <1>9, <1>14
<1>11. \A i \in 1 .. Len(b) + 1 : f.row[i] = Append(b, c)[i]
  <2> SUFFICES ASSUME NEW i \in 1 .. Len(b) + 1 PROVE f.row[i] = Append(b, c)[i]
    OBVIOUS
  <2>1. CASE i = Len(b) + 1
    <3>1. f.row[i] = text[i - d.at] /\ i - d.at = 1
      BY <1>1, <1>4, <1>8, <1>9, <1>14, <1>10, <2>1
    <3> QED
      BY <1>13, <1>5, <2>1, <3>1
  <2>2. CASE i # Len(b) + 1
    BY <1>1, <1>4, <1>5, <1>8, <1>9, <1>14, <1>10, <2>2
  <2> QED
    BY <2>1, <2>2
<1>12. \A i \in Len(b) + 2 .. Len(f.row) : f.row[i] = Sign("blank")
  BY <1>1, <1>4, <1>8, <1>9, <1>14
<1> QED
  BY <1>5, <1>7, <1>8, <1>9, <1>10, <1>11, <1>12 DEF Shows

\* The row again up to its last cell: the row is the same, the cursor before that cell.
LEMMA Redrawn ==
  ASSUME NEW b \in Seq(Cells), b # <<>>, NEW d, Shows(d, b),
         NEW e, e = ClipBackspace(Return(d))
  PROVE  /\ e \in Displays /\ e.row = d.row
         /\ e.buffer = Front(b) /\ e.at = Len(b) - 1
<1>1. /\ d \in Displays /\ d.buffer = b /\ d.at = Len(b) /\ Len(b) <= Len(d.row)
      /\ \A i \in 1 .. Len(b) : d.row[i] = b[i]
  BY DEF Shows
<1>2. /\ Front(b) \in Seq(Cells) /\ Len(b) \in Nat \ {0} /\ Len(Front(b)) = Len(b) - 1
      /\ \A i \in 1 .. Len(b) - 1 : Front(b)[i] = b[i]
  BY Fronted
<1>3. PICK r : r = Return(d)
  OBVIOUS
<1>4. r \in Displays /\ r.at = 0 /\ r.buffer = b /\ r.row = d.row /\ d.row \in Seq(Cells)
  BY <1>1, <1>3 DEF Return, Displays
<1>5. PICK f : f = PutText(r, Front(b))
  OBVIOUS
<1>6. r.at <= Len(r.row) /\ Len(d.row) \in Nat
  BY <1>4
<1>7. /\ f \in Displays /\ f.at = r.at + Len(Front(b))
      /\ Len(f.row) = IF f.at > Len(r.row) THEN f.at ELSE Len(r.row)
      /\ \A i \in 1 .. Len(f.row) :
            f.row[i] = IF r.at < i /\ i <= f.at THEN Front(b)[i - r.at] ELSE r.row[i]
  BY <1>2, <1>4, <1>5, <1>6, PutTextIs, SMTT(30)
<1>8. Len(f.row) = Len(d.row) /\ f.at = Len(b) - 1
  BY <1>1, <1>2, <1>4, <1>6, <1>7
<1>9. \A i \in 1 .. Len(f.row) : f.row[i] = d.row[i]
  BY <1>1, <1>2, <1>4, <1>6, <1>7, <1>8
<1>10. f.row \in Seq(Cells)
  BY <1>7 DEF Displays
<1>11. f.row = d.row
  BY <1>4, <1>8, <1>9, <1>10, SeqEqual
<1>12. e = [f EXCEPT !.buffer = Front(b)]
  BY <1>3, <1>4, <1>5 DEF ClipBackspace
<1> QED
  BY <1>2, <1>7, <1>8, <1>11, <1>12 DEF Displays

\* The row again, a blank, and the row again: one cell less is shown.
LEMMA ShownBackspace ==
  ASSUME NEW b \in Seq(Cells), b # <<>>, NEW d, Shows(d, b),
         NEW blanked, blanked = PutChar(ClipBackspace(Return(d)), Sign("blank"))
  PROVE  Shows(ClipBackspace(Return(blanked)), Front(b))
<1>1. /\ d \in Displays /\ d.buffer = b /\ d.at = Len(b) /\ Len(b) <= Len(d.row)
      /\ \A i \in 1 .. Len(b) : d.row[i] = b[i]
      /\ \A i \in Len(b) + 1 .. Len(d.row) : d.row[i] = Sign("blank")
  BY DEF Shows
<1>2. /\ Front(b) \in Seq(Cells) /\ Len(b) \in Nat \ {0} /\ Len(Front(b)) = Len(b) - 1
      /\ \A i \in 1 .. Len(b) - 1 : Front(b)[i] = b[i]
  BY Fronted
<1>3. PICK g : g = ClipBackspace(Return(d))
  OBVIOUS
<1>4. g \in Displays /\ g.row = d.row /\ g.buffer = Front(b) /\ g.at = Len(b) - 1
  BY <1>3, Redrawn
<1>5. PICK blank \in Cells : blank = Sign("blank")
  BY DEF Cells
<1>6. PICK text : text = <<blank>>
  OBVIOUS
<1>7. text \in Seq(Cells) /\ Len(text) = 1 /\ text[1] = blank
  BY <1>6
<1>8. PICK e : e = PutText(g, text)
  OBVIOUS
<1>9. Len(d.row) \in Nat /\ g.at <= Len(g.row)
  BY <1>1, <1>2, <1>4 DEF Displays
<1>10. /\ e \in Displays /\ e.at = g.at + Len(text)
       /\ Len(e.row) = IF e.at > Len(g.row) THEN e.at ELSE Len(g.row)
       /\ \A i \in 1 .. Len(e.row) :
             e.row[i] = IF g.at < i /\ i <= e.at THEN text[i - g.at] ELSE g.row[i]
  <2>1. g \in Displays /\ g.at <= Len(g.row) /\ text \in Seq(Cells)
    BY <1>4, <1>7, <1>9
  <2> QED
    BY ONLY <1>8, <2>1, PutTextIs
<1>11. e.at = Len(b) /\ Len(e.row) = Len(d.row)
  BY <1>1, <1>2, <1>4, <1>7, <1>9, <1>10
<1>12. e.row[Len(b)] = blank
  <2>1. Len(b) \in 1 .. Len(e.row) /\ Len(b) - g.at = 1 /\ g.at < Len(b)
    BY <1>1, <1>2, <1>4, <1>9, <1>11
  <2> QED
    BY <2>1, <1>7, <1>10, <1>11
<1>13. \A i \in 1 .. Len(e.row) : i # Len(b) => e.row[i] = d.row[i]
  BY <1>1, <1>2, <1>4, <1>9, <1>10, <1>11
<1>14. /\ Append(Front(b), blank) \in Seq(Cells) /\ Len(Append(Front(b), blank)) = Len(b)
       /\ Append(Front(b), blank)[Len(b)] = blank /\ Front(Append(Front(b), blank)) = Front(b)
       /\ \A i \in 1 .. Len(b) - 1 : Append(Front(b), blank)[i] = b[i]
  <2>1. /\ Append(Front(b), blank) \in Seq(Cells)
        /\ Len(Append(Front(b), blank)) = Len(Front(b)) + 1
        /\ Append(Front(b), blank)[Len(Front(b)) + 1] = blank
        /\ Front(Append(Front(b), blank)) = Front(b)
        /\ \A i \in 1 .. Len(Front(b)) : Append(Front(b), blank)[i] = Front(b)[i]
    BY <1>2, <1>5, Appended
  <2> QED
    BY <1>2, <2>1
<1>15. PICK n : n = Append(Front(b), blank)
  OBVIOUS
<1>16. blanked = [e EXCEPT !.buffer = n]
  BY <1>3, <1>4, <1>5, <1>6, <1>8, <1>15 DEF PutChar
<1>17. /\ blanked \in Displays /\ blanked.buffer = n
       /\ blanked.at = e.at /\ blanked.row = e.row
  BY <1>10, <1>14, <1>15, <1>16 DEF Displays
<1>18. Shows(blanked, n)
  <2>1. \A i \in 1 .. Len(b) : blanked.row[i] = n[i]
    <3> SUFFICES ASSUME NEW i \in 1 .. Len(b) PROVE blanked.row[i] = n[i]
      OBVIOUS
    <3>1. CASE i = Len(b)
      BY <1>12, <1>14, <1>15, <1>17, <3>1
    <3>2. CASE i # Len(b)
      BY <1>1, <1>2, <1>9, <1>11, <1>13, <1>14, <1>15, <1>17, <3>2
    <3> QED
      BY <3>1, <3>2
  <2>2. \A i \in Len(b) + 1 .. Len(blanked.row) : blanked.row[i] = Sign("blank")
    BY <1>1, <1>2, <1>9, <1>11, <1>13, <1>17, SMTT(30)
  <2>3. Len(n) = Len(b)
    BY <1>14, <1>15
  <2> QED
    BY <1>1, <1>11, <1>17, <2>1, <2>2, <2>3 DEF Shows
<1>19. PICK h : h = ClipBackspace(Return(blanked))
  OBVIOUS
<1>20. h \in Displays /\ h.row = blanked.row /\ h.buffer = Front(n) /\ h.at = Len(n) - 1
  <2>1. n \in Seq(Cells) /\ n # <<>>
    <3>1. n \in Seq(Cells) /\ Len(n) = Len(b)
      BY <1>14, <1>15
    <3> QED
      BY <1>2, <3>1
  <2> QED
    BY <1>18, <1>19, <2>1, Redrawn
<1>21. h.buffer = Front(b) /\ h.at = Len(b) - 1 /\ h.row = e.row
  BY <1>14, <1>15, <1>17, <1>20
<1>22. \A i \in 1 .. Len(b) - 1 : h.row[i] = Front(b)[i]
  BY <1>1, <1>2, <1>9, <1>11, <1>13, <1>21
<1>23. \A i \in Len(b) .. Len(h.row) : h.row[i] = Sign("blank")
  <2> SUFFICES ASSUME NEW i \in Len(b) .. Len(h.row) PROVE h.row[i] = Sign("blank")
    OBVIOUS
  <2>1. CASE i = Len(b)
    BY <1>5, <1>12, <1>21, <2>1
  <2>2. CASE i # Len(b)
    BY <1>1, <1>2, <1>9, <1>11, <1>13, <1>21, <2>2
  <2> QED
    BY <2>1, <2>2
<1>24. Len(b) - 1 <= Len(h.row) /\ Len(b) - 1 + 1 = Len(b)
  BY <1>1, <1>2, <1>9, <1>11, <1>21
<1>25. Shows(h, Front(b))
  BY <1>2, <1>20, <1>21, <1>22, <1>23, <1>24 DEF Shows
<1> QED
  BY <1>19, <1>25

\* What the prompt and a line are, cell by cell.
LEMMA PromptAndLine ==
  ASSUME NEW l \in Seq(Characters), NEW p, p = <<Sign("prompt")>>
  PROVE  /\ p \o l \in Seq(Cells) /\ p \o l # <<>>
         /\ \A c \in Characters : Append(p \o l, c) = p \o Append(l, c)
         /\ l # <<>> => Front(p \o l) = p \o Front(l)
<1>1. p \in Seq(Cells) /\ Len(p) = 1 /\ l \in Seq(Cells) /\ Characters \subseteq Cells
  BY SeqMonotonic DEF Cells
<1>2. /\ p \o l \in Seq(Cells) /\ Len(p \o l) = 1 + Len(l)
      /\ \A i \in 1 .. 1 + Len(l) : (p \o l)[i] = IF i <= 1 THEN p[i] ELSE l[i - 1]
  <2>1. /\ p \o l \in Seq(Cells) /\ Len(p \o l) = Len(p) + Len(l)
        /\ \A i \in 1 .. Len(p) + Len(l) :
              (p \o l)[i] = IF i <= Len(p) THEN p[i] ELSE l[i - Len(p)]
    BY ONLY <1>1, ConcatProperties
  <2> QED
    BY <1>1, <2>1
<1>3. p \o l # <<>>
  BY <1>2
<1>4. \A s \in Seq(Characters), c \in Characters : Append(p \o s, c) = p \o Append(s, c)
  <2> SUFFICES ASSUME NEW s \in Seq(Characters), NEW c \in Characters
               PROVE  Append(p \o s, c) = p \o Append(s, c)
    OBVIOUS
  <2>1. s \in Seq(Cells) /\ <<c>> \in Seq(Cells) /\ p \o s \in Seq(Cells)
    BY <1>1, SeqMonotonic, ConcatProperties
  <2> QED
    BY <1>1, <2>1, AppendIsConcat, ConcatAssociative
<1>5. ASSUME l # <<>> PROVE Front(p \o l) = p \o Front(l)
  <2>1. PICK s \in Seq(Characters), c \in Characters : l = Append(s, c)
    BY <1>5, SequenceEmptyOrAppend
  <2>2. p \o s \in Seq(Cells) /\ c \in Cells
    <3>1. s \in Seq(Cells)
      BY <1>1, SeqMonotonic
    <3> QED
      BY <1>1, <3>1, ConcatProperties
  <2>3. Front(l) = s /\ Front(Append(p \o s, c)) = p \o s
    BY <2>1, <2>2, Appended
  <2> QED
    BY <1>4, <2>1, <2>3
<1> QED
  BY <1>2, <1>3, <1>4, <1>5

LEMMA ShownPrompt == Shows(Prompt, <<Sign("prompt")>>) /\ EmptyRow \in Displays
<1>1. PICK c \in Cells : c = Sign("prompt")
  BY DEF Cells
<1>2. PICK none : none = <<>>
  OBVIOUS
<1>3. none \in Seq(Cells) /\ Len(none) = 0
  BY <1>2, EmptySeq
<1>4. EmptyRow = [buffer |-> none, row |-> none, at |-> 0]
  BY <1>2 DEF EmptyRow
<1>5. EmptyRow \in Displays
  BY <1>3, <1>4 DEF Displays
<1>6. Shows(EmptyRow, none)
  BY <1>3, <1>4, <1>5 DEF Shows
<1>7. Shows(PutChar(EmptyRow, c), Append(none, c))
  BY <1>3, <1>6, ShownChar
<1>8. Append(none, c) = <<c>>
  BY <1>2
<1> QED
  BY <1>1, <1>5, <1>7, <1>8 DEF Prompt

LEMMA ScreenInit == NativeShellInit => ScreenInv
<1> SUFFICES ASSUME NativeShellInit PROVE ScreenInv
  OBVIOUS
<1>1. line = <<>> /\ display = Prompt /\ pc = "line"
  BY DEF NativeShellInit, LineInit
<1>2. line \in Seq(Characters) /\ Len(line) = 0 /\ 0 <= MaxLine
  BY <1>1, EmptySeq, ShellLineAssumption
<1>3. PICK p : p = <<Sign("prompt")>>
  OBVIOUS
<1>4. p \in Seq(Cells)
  BY <1>3 DEF Cells
<1>5. p \o line = p
  BY <1>1, <1>4, ConcatEmptySeq
<1>6. Shows(display, p)
  BY <1>1, <1>3, ShownPrompt
<1>7. display \in Displays
  BY <1>6 DEF Shows
<1> QED
  BY <1>2, <1>3, <1>5, <1>6, <1>7 DEF ScreenInv

\* The row and the line stay, and the shell is where it was, or not at the prompt.
LEMMA ScreenKept ==
  ScreenInv /\ line' = line /\ display' = display /\ (pc' = pc \/ (pc # "line" /\ pc' # "line"))
    => ScreenInv'
  BY DEF ScreenInv

\* A command ends: a prompt on a row of its own.
LEMMA ScreenDone == ScreenInv /\ pc # "line" /\ Done => ScreenInv'
<1> SUFFICES ASSUME ScreenInv, pc # "line", Done PROVE ScreenInv'
  OBVIOUS
<1>1. line = <<>> /\ line' = line /\ display' = Prompt /\ pc' = "line"
  BY DEF ScreenInv, Done
<1>2. line' \in Seq(Characters) /\ Len(line') <= MaxLine
  BY <1>1 DEF ScreenInv
<1>3. PICK p : p = <<Sign("prompt")>>
  OBVIOUS
<1>4. p \in Seq(Cells)
  BY <1>3 DEF Cells
<1>5. p \o line' = p
  BY <1>1, <1>4, ConcatEmptySeq
<1>6. Shows(display', p)
  BY <1>1, <1>3, ShownPrompt
<1>7. display' \in Displays
  BY <1>6 DEF Shows
<1> QED
  BY <1>1, <1>2, <1>3, <1>5, <1>6, <1>7 DEF ScreenInv

\* The Shift keys that are down, and their flag.
KeysInv == held \subseteq ShiftKeys /\ shifted \in BOOLEAN

\* Only the Shift keys move the keys and their flag.
LEMMA OnlyShiftMoves ==
  ASSUME [Next]_vars
  PROVE  UNCHANGED <<held, shifted>> \/ ShiftKey \/ StrayShift \/ KeyUnseen
<1>1. CASE EditLine
  BY <1>1 DEF EditLine, TypeLetter, Backspace
<1>2. CASE RunLine \/ ShellStep \/ Answer
  <2>1. ASSUME Done \/ UNCHANGED lineVars PROVE UNCHANGED <<held, shifted>>
    BY <2>1 DEF Done, lineVars
  <2>2. CASE RunLine
    BY <2>2 DEF RunLine, Enter
  <2>3. CASE Answer
    BY <2>1, <2>3 DEF Answer, AnswerYes, AnswerNo, Over, Closing
  <2>4. CASE ShellStep
    BY <2>1, <2>4 DEF ShellStep, ShowSomething, StartCommand, CopyFails, CopyOpenSrc,
       CopyOpenDst, CopyGetSize, CopyRead, CopyWrite, CopyClose, MoveOpen, MoveFails, Rename,
       DeleteFile, DeleteFails, CreateDirectory, ListLeaks, ListDirectory, StartProgram,
       CreateProcess, ReopenKeyboard, Go, Over, Closing
  <2> QED
    BY <1>2, <2>2, <2>3, <2>4
<1>3. CASE ChildExits \/ OtherProcess \/ OtherKeyboard \/ UNCHANGED vars
  BY <1>3 DEF ChildExits, OtherProcess, OtherKeyboard, Go, vars, lineVars
<1> QED
  BY <1>1, <1>2, <1>3 DEF Next

LEMMA KeysStep == KeysInv /\ [Next]_vars => KeysInv'
<1> SUFFICES ASSUME KeysInv, [Next]_vars PROVE KeysInv'
  OBVIOUS
<1>1. CASE ShiftKey
  <2>1. PICK k \in ShiftKeys : PressShift(k) \/ ReleaseShift(k)
    BY <1>1 DEF ShiftKey
  <2> QED
    BY <2>1 DEF PressShift, ReleaseShift, KeysInv
<1>2. CASE KeyUnseen
  <2>1. PICK k \in ShiftKeys : MoveShift(k)
    BY <1>2 DEF KeyUnseen
  <2> QED
    BY <2>1 DEF MoveShift, KeysInv
<1>4. CASE StrayShift
  BY <1>4 DEF StrayShift, KeysInv
<1>3. CASE UNCHANGED <<held, shifted>>
  BY <1>3 DEF KeysInv
<1> QED
  BY <1>1, <1>2, <1>3, <1>4, OnlyShiftMoves

(* ShiftSticksUnseen: while the shell has the keyboard, the flag never     *)
(* outlives the Shift keys, whatever runs and whatever is typed; it can    *)
(* from main.c:327 to 338, where the keyboard is closed whether or not a   *)
(* program runs, and after a refused open.                                 *)
THEOREM ShellShiftSticks == Spec => ShiftSticksUnseen
<1>1. [Next]_vars => [shifted' /\ held' = {} =>
                        (shifted /\ held = {}) \/ keyboard # "shell"]_vars
  <2> SUFFICES ASSUME [Next]_vars, shifted', held' = {}
               PROVE  (shifted /\ held = {}) \/ keyboard # "shell"
    OBVIOUS
  <2>1. CASE ShiftKey
    <3>1. PICK k \in ShiftKeys : PressShift(k) \/ ReleaseShift(k)
      BY <2>1 DEF ShiftKey
    <3>2. k \in held' \/ shifted' = FALSE
      BY <3>1 DEF PressShift, ReleaseShift
    <3> QED
      BY <3>2
  <2>2. CASE StrayShift \/ KeyUnseen
    BY <2>2 DEF StrayShift, KeyUnseen
  <2>3. CASE UNCHANGED <<held, shifted>>
    BY <2>3
  <2> QED
    BY <2>1, <2>2, <2>3, OnlyShiftMoves
<1> QED
  BY <1>1, PTL DEF Spec, ShiftSticksUnseen

LEMMA ScreenTyped ==
  ASSUME KeysInv, ScreenInv, pc = "line", pc' = pc, NEW l \in Letters, TypeLetter(l)
  PROVE  ScreenInv'
<1>1. PICK c : c = [key |-> l, upper |-> shifted]
  OBVIOUS
<1>2. Len(line) < MaxLine /\ line' = Append(line, c) /\ display' = PutChar(display, c)
  BY <1>1 DEF TypeLetter
<1>3. c \in Characters /\ c \in Cells
  BY <1>1 DEF KeysInv, Characters, Cells
<1>4. line \in Seq(Characters) /\ Len(line) \in Nat
  BY DEF ScreenInv
<1>5. line' \in Seq(Characters) /\ Len(line') = Len(line) + 1
  BY <1>2, <1>3, <1>4, AppendProperties
<1>6. PICK p : p = <<Sign("prompt")>>
  OBVIOUS
<1>7. p \o line \in Seq(Cells) /\ Append(p \o line, c) = p \o line'
  BY <1>2, <1>3, <1>4, <1>6, PromptAndLine
<1>8. Shows(display, p \o line)
  BY <1>6 DEF ScreenInv
<1>9. Shows(display', p \o line')
  BY <1>2, <1>3, <1>7, <1>8, ShownChar
<1>10. display' \in Displays
  BY <1>9 DEF Shows
<1>11. Len(line') <= MaxLine
  BY <1>2, <1>4, <1>5, ShellLineAssumption
<1> QED
  BY <1>5, <1>6, <1>9, <1>10, <1>11 DEF ScreenInv

LEMMA ScreenErased ==
  ASSUME ScreenInv, pc = "line", pc' = pc, Backspace PROVE ScreenInv'
<1>1. PICK blanked : blanked = PutChar(ClipBackspace(Return(display)), Sign("blank"))
  OBVIOUS
<1>2. line # <<>> /\ line' = Front(line) /\ display' = ClipBackspace(Return(blanked))
  BY <1>1 DEF Backspace
<1>3. line \in Seq(Characters) /\ Len(line) \in Nat
  BY DEF ScreenInv
<1>4. line' \in Seq(Characters) /\ Len(line') = Len(line) - 1
  BY <1>2, <1>3, Fronted
<1>5. PICK p : p = <<Sign("prompt")>>
  OBVIOUS
<1>6. p \o line \in Seq(Cells) /\ p \o line # <<>> /\ Front(p \o line) = p \o line'
  BY <1>2, <1>3, <1>5, PromptAndLine
<1>7. Shows(display, p \o line)
  BY <1>5 DEF ScreenInv
<1>8. Shows(display', p \o line')
  BY <1>1, <1>2, <1>6, <1>7, ShownBackspace
<1>9. display' \in Displays
  BY <1>8 DEF Shows
<1>10. Len(line') <= MaxLine
  BY <1>3, <1>4, ShellLineAssumption DEF ScreenInv
<1> QED
  BY <1>4, <1>5, <1>8, <1>9, <1>10 DEF ScreenInv

LEMMA ScreenEntered == ASSUME ScreenInv, RunLine PROVE ScreenInv'
<1>1. /\ line' = <<>> /\ display' = IF line = <<>> THEN Prompt ELSE EmptyRow
      /\ pc' = IF line = <<>> THEN "line" ELSE "run"
  BY DEF RunLine, Enter
<1>2. line' \in Seq(Characters) /\ Len(line') <= MaxLine
  BY <1>1, EmptySeq, ShellLineAssumption
<1>3. PICK p : p = <<Sign("prompt")>>
  OBVIOUS
<1>4. p \in Seq(Cells)
  BY <1>3 DEF Cells
<1>5. p \o line' = p
  BY <1>1, <1>4, ConcatEmptySeq
<1>6. Shows(Prompt, p) /\ EmptyRow \in Displays
  BY <1>3, ShownPrompt
<1>7. pc' = "line" => Shows(display', p \o line')
  BY <1>1, <1>5, <1>6
<1>8. display' \in Displays
  BY <1>1, <1>6 DEF Shows
<1> QED
  BY <1>1, <1>2, <1>3, <1>7, <1>8 DEF ScreenInv

LEMMA ScreenStep == KeysInv /\ ScreenInv /\ [Next]_vars => ScreenInv'
<1> SUFFICES ASSUME KeysInv, ScreenInv, [Next]_vars PROVE ScreenInv'
  OBVIOUS
<1>1. CASE EditLine
  <2>1. pc = "line" /\ pc' = pc
    BY <1>1 DEF EditLine, shellVars
  <2> QED
    BY <1>1, <2>1, ScreenTyped, ScreenErased DEF EditLine
<1>2. CASE RunLine
  BY <1>2, ScreenEntered
<1>3. CASE ShiftKey \/ StrayShift \/ KeyUnseen
  <2>1. line' = line /\ display' = display /\ pc' = pc
    BY <1>3 DEF ShiftKey, StrayShift, KeyUnseen, PressShift, ReleaseShift, MoveShift, shellVars
  <2> QED
    BY <2>1 DEF ScreenInv
<1>4. CASE ChildExits \/ OtherProcess \/ OtherKeyboard \/ UNCHANGED vars
  <2>1. line' = line /\ display' = display
    BY <1>4 DEF ChildExits, OtherProcess, OtherKeyboard, Go, vars, lineVars
  <2>2. pc' = pc \/ (pc # "line" /\ pc' # "line")
    <3>1. CASE ChildExits
      BY <3>1 DEF ChildExits, Go
    <3>2. ASSUME OtherProcess \/ OtherKeyboard PROVE pc' = pc
      BY <3>2 DEF OtherProcess, OtherKeyboard
    <3>3. ASSUME UNCHANGED vars PROVE pc' = pc
      BY <3>3 DEF vars, shellVars
    <3> QED
      BY <1>4, <3>1, <3>2, <3>3
  <2> QED
    BY <2>1, <2>2 DEF ScreenInv
<1>5. CASE Answer
  BY <1>5, ScreenKept, ScreenDone DEF Answer, AnswerYes, AnswerNo, Over, Closing, lineVars
<1>6. CASE ShellStep
  <2>1. ASSUME UNCHANGED lineVars, pc # "line", pc' # "line" PROVE ScreenInv'
    BY <2>1, ScreenKept DEF lineVars
  <2>2. ASSUME pc # "line", Done PROVE ScreenInv'
    BY <2>2, ScreenDone
  <2>3. CASE ShowSomething \/ CopyFails \/ CopyClose \/ MoveFails \/ DeleteFails
    BY <2>2, <2>3 DEF ShowSomething, CopyFails, CopyClose, MoveFails, DeleteFails, Over, Closing
  <2>4. CASE Rename \/ DeleteFile \/ CreateDirectory \/ ListLeaks \/ ReopenKeyboard
    BY <2>2, <2>4 DEF Rename, DeleteFile, CreateDirectory, ListLeaks, ReopenKeyboard, Closing
  <2>5. CASE StartCommand \/ CopyOpenSrc \/ CopyOpenDst \/ CopyGetSize \/ CopyRead \/ CopyWrite
    BY <2>1, <2>5 DEF StartCommand, CopyOpenSrc, CopyOpenDst, CopyGetSize, CopyRead, CopyWrite, Go
  <2>6. CASE MoveOpen \/ ListDirectory \/ StartProgram \/ CreateProcess
    BY <2>1, <2>6 DEF MoveOpen, ListDirectory, StartProgram, CreateProcess, Go
  <2> QED
    BY <1>6, <2>3, <2>4, <2>5, <2>6 DEF ShellStep
<1> QED
  BY <1>1, <1>2, <1>3, <1>4, <1>5, <1>6 DEF Next

LEMMA ScreenInvariant == Spec => [](KeysInv /\ ScreenInv)
<1>1. NativeShellInit => KeysInv /\ ScreenInv
  BY ScreenInit DEF NativeShellInit, LineInit, KeysInv
<1>2. KeysInv /\ ScreenInv /\ [Next]_vars => (KeysInv /\ ScreenInv)'
  BY KeysStep, ScreenStep
<1> QED
  BY <1>1, <1>2, PTL DEF Spec

(* ScreenShowsLine: whatever was typed and erased, and whatever commands   *)
(* ran, the row shows the prompt and the line, and display.c's copy of the *)
(* row is the row.                                                         *)
THEOREM ShellShowsLine == Spec => []ScreenShowsLine
<1>1. ScreenInv => ScreenShowsLine
  <2> SUFFICES ASSUME ScreenInv, pc = "line" PROVE RowShowsLine
    BY DEF ScreenShowsLine
  <2>1. PICK b : b = <<Sign("prompt")>> \o line
    OBVIOUS
  <2>2. Shows(display, b)
    BY <2>1 DEF ScreenInv
  <2>3. b \in Seq(Cells) /\ Len(b) \in Nat
    BY <2>2 DEF Shows, Displays
  <2>4. /\ display.row \in Seq(Cells) /\ display.buffer = b /\ display.at = Len(b)
        /\ Len(b) <= Len(display.row)
        /\ \A i \in 1 .. Len(b) : display.row[i] = b[i]
        /\ \A i \in Len(b) + 1 .. Len(display.row) : display.row[i] = Sign("blank")
    BY <2>2 DEF Shows, Displays
  <2>5. PICK shown : shown = SubSeq(display.row, 1, Len(b))
    OBVIOUS
  <2>6. \A i \in 1 .. Len(b) : display.row[i] \in Cells
    BY <2>3, <2>4
  <2>7. /\ shown \in Seq(Cells) /\ Len(shown) = IF 1 <= Len(b) THEN Len(b) - 1 + 1 ELSE 0
        /\ \A i \in 1 .. Len(b) - 1 + 1 : shown[i] = display.row[1 + i - 1]
    <3>1. 1 \in Int /\ Len(b) \in Int
      BY <2>3
    <3> QED
      BY ONLY <2>5, <2>6, <3>1, SubSeqProperties
  <2>8. Len(shown) = Len(b) /\ \A i \in 1 .. Len(b) : shown[i] = b[i]
    BY <2>3, <2>4, <2>7
  <2>9. shown = b
    BY <2>3, <2>7, <2>8, SeqEqual
  <2>10. \A i \in display.at + 1 .. Len(display.row) : display.row[i] = Sign("blank")
    BY <2>4
  <2>11. SubSeq(display.row, 1, display.at) = display.buffer
    BY <2>4, <2>5, <2>9
  <2> QED
    BY ONLY <2>1, <2>4, <2>10, <2>11 DEF RowShowsLine
<1> QED
  BY <1>1, ScreenInvariant, PTL

(***************************************************************************)
(* Types, and the directories that stay open.                              *)
(***************************************************************************)
(* What has leaked is a directory, and so is what the pager is showing;    *)
(* what is being renamed has not leaked.                                   *)
FilesInv ==
    /\ files \in [Names -> Entries]
    /\ \A n \in leaked : n \in Names /\ files[n] = Directory
    /\ job.size <= MaxChunks /\ job.copied <= MaxChunks /\ job.pages <= MaxPages
    /\ pc = "rename" => job.src \notin leaked
    /\ pc = "pager" => job.src \in Names /\ files[job.src] = Directory

LEMMA EntryBound ==
  ASSUME NEW e \in Entries
  PROVE  Len(e.data) \in Nat /\ Len(e.data) <= MaxChunks /\ (e \in Contents => e # Directory)
<1>1. CASE e \in {Absent, Directory}
  <2>1. Len(e.data) = 0
    BY <1>1 DEF Absent, Directory
  <2>2. e \notin Contents
    BY <1>1 DEF Contents, File, Absent, Directory
  <2> QED
    BY <2>1, <2>2, NativeShellAssumption
<1>2. CASE e \in Contents
  <2>1. PICK m \in 0 .. MaxChunks : \E s \in [1 .. m -> Chunks] : e = File(s)
    BY <1>2 DEF Contents, BoundedSeq, SeqOf
  <2>4. PICK s \in [1 .. m -> Chunks] : e = File(s)
    BY <2>1
  <2>2. e.data = s /\ e # Directory
    BY <2>4 DEF File, Directory
  <2>3. Len(s) = m
    OBVIOUS
  <2> QED
    BY <2>2, <2>3, NativeShellAssumption
<1> QED
  BY <1>1, <1>2 DEF Entries

LEMMA FileIsEntry ==
  ASSUME NEW s \in Seq(Chunks), Len(s) <= MaxChunks
  PROVE  File(s) \in Entries /\ File(s) # Directory
<1>1. Len(s) \in 0 .. MaxChunks /\ s \in [1 .. Len(s) -> Chunks]
  BY NativeShellAssumption
<1>2. s \in BoundedSeq(Chunks, MaxChunks)
  BY <1>1 DEF BoundedSeq, SeqOf
<1> QED
  BY <1>2 DEF Entries, Contents, File, Directory

LEMMA FilesInit == NativeShellInit => FilesInv
  BY NativeShellAssumption DEF NativeShellInit, FilesInv, NoJob, Job

\* A step after which no command is at work.
LEMMA FilesAtPrompt ==
  ASSUME FilesInv, files' \in [Names -> Entries],
         \A n \in leaked' : n \in Names /\ files'[n] = Directory,
         pc' = "line", job' = NoJob
  PROVE  FilesInv'
  BY NativeShellAssumption DEF FilesInv, NoJob, Job

\* A step over the same files.
LEMMA FilesUntouched ==
  ASSUME FilesInv, files' = files, leaked' = leaked, job' = job,
         pc' \in {"rename", "pager"} => pc' = pc
  PROVE  FilesInv'
  BY DEF FilesInv

LEMMA FilesStep == HandleInv /\ CopyInv /\ CopyInv' /\ FilesInv /\ [Next]_vars => FilesInv'
<1> SUFFICES ASSUME HandleInv, CopyInv, CopyInv', FilesInv, [Next]_vars PROVE FilesInv'
  OBVIOUS
<1>1. CASE EditLine \/ ShiftKey \/ StrayShift \/ KeyUnseen \/ OtherKeyboard \/ UNCHANGED vars
  BY <1>1, FilesUntouched DEF EditLine, ShiftKey, StrayShift, KeyUnseen, OtherKeyboard, shellVars,
     vars
<1>2. CASE RunLine \/ StartProgram \/ CreateProcess \/ ChildExits \/ CopyRead
  BY <1>2, FilesUntouched DEF RunLine, StartProgram, CreateProcess, ChildExits, CopyRead, Go
<1>3. CASE Done /\ UNCHANGED <<files, leaked>>
  BY <1>3, FilesAtPrompt DEF Done, FilesInv
<1>4. CASE StartCommand
  <2>1. PICK n, m \in Names : job' = Job(n, m)
    BY <1>4 DEF StartCommand
  <2>2. UNCHANGED <<files, leaked>> /\ pc' \in {"copy_src", "move_open", "del"}
    BY <1>4 DEF StartCommand, Go
  <2>3. job'.size = 0 /\ job'.copied = 0 /\ job'.pages = 0
    BY <2>1 DEF Job
  <2> QED
    BY <2>2, <2>3, NativeShellAssumption DEF FilesInv
<1>5. CASE CopyOpenSrc
  BY <1>5, FilesUntouched DEF CopyOpenSrc, Go
<1>6. CASE CopyOpenDst
  <2>1. files' = [files EXCEPT ![job.dst] = File(<<>>)] /\ files[job.dst] # Directory
        /\ leaked' = leaked /\ job' = job /\ pc' = "copy_size"
    BY <1>6 DEF CopyOpenDst, IsDirectory, Go
  <2>2. PICK none : none = <<>>
    OBVIOUS
  <2>3. none \in Seq(Chunks) /\ Len(none) <= MaxChunks
    BY <2>2, NativeShellAssumption
  <2>4. File(<<>>) \in Entries
    BY <2>2, <2>3, FileIsEntry
  <2> QED
    BY <2>1, <2>4 DEF FilesInv
<1>7. CASE CopyGetSize
  <2>1. job.src \in Names
    BY <1>7 DEF CopyGetSize, CopyInv, Named, CopyPcs, OpenCopy
  <2>2. Len(files[job.src].data) <= MaxChunks
    BY <2>1, EntryBound DEF FilesInv
  <2>3. /\ job' = [job EXCEPT !.size = Len(files[job.src].data)]
        /\ UNCHANGED <<files, leaked>> /\ pc' = "copy_read"
    BY <1>7 DEF CopyGetSize, Go
  <2>4. job'.size = Len(files[job.src].data) /\ job'.copied = job.copied /\ job'.pages = job.pages
    BY <2>3 DEF CopyInv
  <2> QED
    BY <2>2, <2>3, <2>4 DEF FilesInv
<1>8. CASE CopyWrite
  <2>1. /\ job.src \in Names /\ job.dst \in Names /\ job.src # job.dst /\ pc = "copy_write"
        /\ pc' \in {"copied", "copy_read"} /\ leaked' = leaked
        /\ job' = [job EXCEPT !.copied = job.copied + 1]
    BY <1>8 DEF CopyWrite, Go, CopyInv, Named, CopyPcs, OpenCopy
  <2>2. job'.src = job.src /\ job'.dst = job.dst /\ job'.size = job.size /\ job'.pages = job.pages
    BY <2>1 DEF CopyInv
  <2>3. PICK e : files' = [files EXCEPT ![job.dst] = e]
    BY <1>8 DEF CopyWrite
  <2>4. files'[job.src] = files[job.src] /\ files'[job.dst] = e
    BY <2>1, <2>3 DEF CopyInv
  <2>5. PICK src : src = files[job.src].data
    OBVIOUS
  <2>6. src \in Seq(Chunks) /\ Len(src) <= MaxChunks
    BY <2>1, <2>5, EntryData, EntryBound DEF CopyInv, FilesInv
  <2>7. job'.copied \in 0 .. Len(src) /\ e = File(SubSeq(src, 1, job'.copied))
    BY <2>1, <2>2, <2>4, <2>5 DEF CopyInv, OpenCopy
  <2>8. PICK part : part = SubSeq(src, 1, job'.copied)
    OBVIOUS
  <2>9. part \in Seq(Chunks) /\ Len(part) = job'.copied
    BY <2>6, <2>7, <2>8
  <2>10. job'.copied <= MaxChunks
    BY <2>6, <2>7, NativeShellAssumption
  <2>11. e \in Entries
    BY <2>7, <2>8, <2>9, <2>10, FileIsEntry
  <2>12. files[job.dst] # Directory
    BY <2>1 DEF CopyInv, OpenCopy, File, Directory
  <2> QED
    BY <2>1, <2>2, <2>3, <2>10, <2>11, <2>12 DEF FilesInv
<1>9. CASE MoveOpen
  BY <1>9 DEF MoveOpen, Go, FilesInv
<1>10. CASE Rename
  <2>1. files' = [files EXCEPT ![job.src] = Absent, ![job.dst] = files[job.src]]
        /\ files[job.dst] = Absent /\ leaked' = leaked /\ pc = "rename"
        /\ job.src \in Names /\ job.dst \in Names /\ pc' = "line" /\ job' = NoJob
    BY <1>10, EndsClose DEF Rename, Exists, Closing, Done, CopyInv, Named
  <2>2. Absent \in Entries /\ Absent # Directory
    BY DEF Entries, Absent, Directory
  <2>3. \A n \in leaked : n # job.src /\ n # job.dst
    BY <2>1, <2>2 DEF FilesInv
  <2>4. files' \in [Names -> Entries]
    BY <2>1, <2>2 DEF FilesInv
  <2>5. \A n \in leaked' : n \in Names /\ files'[n] = Directory
    BY <2>1, <2>3 DEF FilesInv
  <2> QED
    BY <2>1, <2>4, <2>5, FilesAtPrompt
<1>11. CASE DeleteFile
  <2>1. files' = [files EXCEPT ![job.src] = Absent] /\ job.src \notin leaked /\ leaked' = leaked
        /\ pc' = "line" /\ job' = NoJob
    BY <1>11, EndsClose DEF DeleteFile, Pinned, Closing, Done
  <2>2. Absent \in Entries
    BY DEF Entries
  <2> QED
    BY <2>1, <2>2, FilesAtPrompt DEF FilesInv
<1>12. CASE CreateDirectory
  <2>1. PICK n \in Names : files' = [files EXCEPT ![n] = Directory]
    BY <1>12 DEF CreateDirectory
  <2>2. leaked' = leaked /\ pc' = "line" /\ job' = NoJob
    BY <1>12, EndsClose DEF CreateDirectory, Closing, Done
  <2>3. Directory \in Entries
    BY DEF Entries
  <2> QED
    BY <2>1, <2>2, <2>3, FilesAtPrompt DEF FilesInv
<1>13. CASE ListLeaks
  <2>1. PICK n \in Names : IsDirectory(n) /\ leaked' = leaked \cup {n}
    BY <1>13 DEF ListLeaks
  <2>2. files' = files /\ pc' = "line" /\ job' = NoJob
    BY <1>13 DEF ListLeaks, Done
  <2> QED
    BY <2>1, <2>2, FilesAtPrompt DEF IsDirectory, FilesInv
<1>14. CASE ListDirectory
  <2>1. PICK n \in Names, pages \in 1 .. MaxPages :
           IsDirectory(n) /\ job' = [Job(n, "none") EXCEPT !.pages = pages]
    BY <1>14 DEF ListDirectory
  <2>2. job' = [src |-> n, dst |-> "none", size |-> 0, copied |-> 0, pages |-> pages]
    BY <2>1 DEF Job
  <2>3. UNCHANGED <<files, leaked>> /\ pc' = "pager"
    BY <1>14 DEF ListDirectory, Go
  <2>4. pages <= MaxPages /\ 0 <= MaxChunks
    BY NativeShellAssumption
  <2> QED
    BY <2>1, <2>2, <2>3, <2>4 DEF IsDirectory, FilesInv
<1>15. CASE Answer
  <2>1. CASE AnswerNo
    <3>1. files' = files /\ pc = "pager" /\ leaked' = leaked \cup {job.src}
          /\ pc' = "line" /\ job' = NoJob
      BY <2>1, AnswerNoLeaks DEF AnswerNo, Done
    <3> QED
      BY <3>1, FilesAtPrompt DEF FilesInv
  <2>2. CASE AnswerYes /\ ~Done
    <3>1. /\ UNCHANGED <<pc, files, leaked>> /\ job.pages > 1
          /\ job' = [job EXCEPT !.pages = job.pages - 1]
      BY <2>2 DEF AnswerYes, Over, Closing
    <3>2. /\ job'.src = job.src /\ job'.size = job.size /\ job'.copied = job.copied
          /\ job'.pages = job.pages - 1
      BY <3>1 DEF CopyInv
    <3>3. job'.pages <= MaxPages
      <4>1. job.pages \in Nat /\ job.pages <= MaxPages
        BY DEF CopyInv, FilesInv
      <4> QED
        BY <3>2, <4>1, NativeShellAssumption
    <3> QED
      BY <3>1, <3>2, <3>3 DEF FilesInv
  <2>3. CASE AnswerYes /\ Done
    <3>1. files' = files /\ leaked' = leaked
      BY <2>3, AnswerYesCloses DEF AnswerYes, Over
    <3> QED
      BY <1>3, <2>3, <3>1
  <2> QED
    BY <1>15, <2>1, <2>2, <2>3 DEF Answer
<1>16. CASE OtherProcess
  <2>1. PICK n \in Names, e \in Entries :
           (Pinned(n) => files[n] \in Contents /\ e \in Contents) /\ files' = [files EXCEPT ![n] = e]
    BY <1>16 DEF OtherProcess
  <2>2. UNCHANGED <<pc, leaked, job>>
    BY <1>16 DEF OtherProcess
  <2>3. files[n] = Directory => ~Pinned(n)
    BY <2>1, EntryBound DEF FilesInv
  <2>4. \A m \in leaked : m # n
    BY <2>3 DEF FilesInv, Pinned
  <2>5. pc = "pager" => job.src # n
    BY <2>3 DEF FilesInv, Pinned, HandleInv
  <2> QED
    BY <2>1, <2>2, <2>4, <2>5 DEF FilesInv
<1>17. CASE ShowSomething \/ CopyFails \/ CopyClose \/ MoveFails \/ DeleteFails \/ ReopenKeyboard
  <2>1. CASE ReopenKeyboard
    BY <1>3, <2>1 DEF ReopenKeyboard
  <2>2. CASE ~ReopenKeyboard
    BY <1>3, <1>17, <2>2, EndsClose
       DEF ShowSomething, CopyFails, CopyClose, MoveFails, DeleteFails, Over, Closing
  <2> QED
    BY <2>1, <2>2
<1> QED
  <2>1. ASSUME ShellStep PROVE FilesInv'
    BY <2>1, <1>2, <1>4, <1>5, <1>6, <1>7, <1>8, <1>9, <1>10, <1>11, <1>12, <1>13, <1>14, <1>17
       DEF ShellStep
  <2> QED
    BY <2>1, <1>1, <1>2, <1>15, <1>16 DEF Next

LEMMA FilesInvariant == Spec => [](HandleInv /\ CopyInv /\ FilesInv)
<1>1. NativeShellInit => HandleInv /\ CopyInv /\ FilesInv
  BY HandleInit, CopyInit, FilesInit
<1>2. HandleInv /\ CopyInv /\ FilesInv /\ [Next]_vars => (HandleInv /\ CopyInv /\ FilesInv)'
  BY HandleStep, CopyStep, FilesStep
<1> QED
  BY <1>1, <1>2, PTL DEF Spec

(* HandlesReturned: on every path of ntfile.c, those of each failure       *)
(* included, copy, move, del and md close what they opened; what stays     *)
(* open is a directory, after 'n' or a listing without memory.             *)
THEOREM ShellReturnsHandles == Spec => HandlesReturned
<1> DEFINE Leak == leaked' # leaked =>
       pc \in {"run", "pager"} /\ \E n \in Names : IsDirectory(n) /\ leaked' = leaked \cup {n}
<1>1. HandleInv /\ FilesInv /\ [Next]_vars => [Leak]_vars
  <2> SUFFICES ASSUME HandleInv, FilesInv, [Next]_vars, leaked' # leaked
               PROVE  pc \in {"run", "pager"}
                      /\ \E n \in Names : IsDirectory(n) /\ leaked' = leaked \cup {n}
    OBVIOUS
  <2>1. CASE ListLeaks
    BY <2>1 DEF ListLeaks
  <2>2. CASE AnswerNo
    BY <2>2, AnswerNoLeaks DEF AnswerNo, FilesInv, IsDirectory
  <2> QED
    BY <2>1, <2>2, WhatLeaks
<1> QED
  BY <1>1, FilesInvariant, PTL DEF Spec, HandlesReturned

(* TypeOK: every variable of the shell has its type, and a directory that  *)
(* dir has left open stays a directory: no command and no process can take *)
(* it away.                                                                *)
THEOREM ShellTypeCorrect == Spec => []TypeOK
<1>1. HandleInv /\ CopyInv /\ FilesInv /\ KeysInv /\ ScreenInv => TypeOK
  <2> SUFFICES ASSUME HandleInv, CopyInv, FilesInv, KeysInv, ScreenInv PROVE TypeOK
    OBVIOUS
  <2>1. LineTypeOK
    BY DEF KeysInv, ScreenInv, Displays, LineTypeOK
  <2>2. open \subseteq {"src", "dst", "file", "dir"}
    BY DEF HandleInv, OpenCopy, Pcs
  <2>3. keyboard \in {"shell", "program", "nobody"} /\ denied \in BOOLEAN /\ pc \in Pcs
    BY DEF HandleInv, Pcs
  <2>4. files \in [Names -> Entries] /\ leaked \subseteq {n \in Names : IsDirectory(n)}
    BY DEF FilesInv, IsDirectory
  <2>5. job \in [src : Names \cup {"none"}, dst : Names \cup {"none"},
                 size : 0 .. MaxChunks, copied : 0 .. MaxChunks, pages : 0 .. MaxPages]
    BY NativeShellAssumption DEF CopyInv, FilesInv
  <2> QED
    BY <2>1, <2>2, <2>3, <2>4, <2>5 DEF TypeOK
<1> QED
  BY <1>1, FilesInvariant, ScreenInvariant, PTL
=============================================================================
