----------------------------- MODULE NativeShell -----------------------------
(***************************************************************************)
(* The native shell (nativeshell/main.c, ntfile.c, file.c, process.c): it  *)
(* reads a line, runs it as a command over files, or as a program, and     *)
(* prompts again.  Other processes use the same files between any two of   *)
(* its calls to the kernel.                                                *)
(*                                                                         *)
(* A name stands for a full path.  A file is a sequence of chunks, as many *)
(* bytes as one read takes.  What the line says is left open: any command, *)
(* over any names.  Left out: the texts, the commands that only show       *)
(* something, the current directory, stopping the machine, and events,     *)
(* process handles and memory, which nothing in the shell runs out of.     *)
(*                                                                         *)
(* A shell whose last attempt to open the keyboard was refused does not    *)
(* know: each of its reads fails, on a handle that nobody has set, and it  *)
(* takes what its own stack holds for a key.                               *)
(***************************************************************************)
EXTENDS ShellLine

CONSTANTS Names,       \* the full paths that commands name
          Chunks,      \* the contents of a chunk
          MaxChunks,   \* the chunks of a file, at most
          MaxPages     \* the questions of the pager, at most

ASSUME NativeShellAssumption == MaxChunks \in Nat /\ MaxPages \in Nat

VARIABLES pc,          \* the next call of the shell; "line" reads keys
          files,       \* what each name stands for
          open,        \* the handles of the command: src, dst, file, dir
          leaked,      \* the names with a handle that is never closed
          job,         \* the arguments and the locals of the command
          keyboard,    \* who has opened the keyboard: shell, program, nobody
          denied       \* history: the shell's last attempt to failed

input == <<keyboard, denied>>
shellVars == <<pc, files, open, leaked, job, input>>
vars == <<lineVars, shellVars>>

Absent == [kind |-> "absent", data |-> <<>>]
Directory == [kind |-> "directory", data |-> <<>>]
File(s) == [kind |-> "file", data |-> s]
Contents == {File(s) : s \in BoundedSeq(Chunks, MaxChunks)}
Entries == Contents \cup {Absent, Directory}
Exists(n) == files[n] # Absent
IsDirectory(n) == files[n] = Directory

Job(n, m) == [src |-> n, dst |-> m, size |-> 0, copied |-> 0, pages |-> 0]
NoJob == Job("none", "none")

NativeShellInit ==
    /\ LineInit
    /\ pc = "line" /\ files \in [Names -> Entries]
    /\ open = {} /\ leaked = {} /\ job = NoJob
    /\ keyboard \in {"shell", "program", "nobody"} /\ denied = (keyboard # "shell")

\* A source that is opened shared.
ExclusiveDst(n) == "dst" \in open /\ n = job.dst

(* NtFileOpenFile shares with nobody.                                      *)
Exclusive(n) == \/ "src" \in open /\ n = job.src
                \/ "dst" \in open /\ n = job.dst

(* No handle of the shell allows that a name is deleted under it.          *)
Pinned(n) == \/ Exclusive(n) \/ n \in leaked
             \/ open \cap {"file", "dir"} # {} /\ n = job.src

Go(to) == pc' = to /\ UNCHANGED <<input, lineVars>>

(* The command is over: a new row and the prompt.                          *)
Done ==
    /\ pc' = "line" /\ display' = Prompt
    /\ job' = NoJob
    /\ UNCHANGED <<held, shifted, line>>

(* The command is over, and has closed these of its handles; nothing       *)
(* closes one later that it forgot.                                        *)
Closing(closed) ==
    /\ Done /\ open' = {}
    /\ leaked' = leaked \cup {IF h = "dst" THEN job.dst ELSE job.src : h \in open \ closed}
    /\ UNCHANGED input

Over(closed) == Closing(closed) /\ UNCHANGED files
(***************************************************************************)
(* The line.                                                               *)
(***************************************************************************)
EditLine ==
    /\ pc = "line"
    /\ \/ \E l \in Letters : TypeLetter(l)
       \/ Backspace
    /\ UNCHANGED shellVars

ShiftKey ==
    /\ pc \in {"line", "pager"} /\ keyboard = "shell"
    /\ \E k \in ShiftKeys : PressShift(k) \/ ReleaseShift(k)
    /\ UNCHANGED shellVars

(* What RtlCliGetChar makes of KeyboardData when the read failed, whose    *)
(* status it ignores: any key, which here is a Shift key.                  *)
StrayShift ==
    /\ pc \in {"line", "pager"} /\ keyboard # "shell"
    /\ shifted' \in BOOLEAN /\ UNCHANGED <<held, line, display, shellVars>>

\* A key goes down or up while the keyboard is not the shell's.
KeyUnseen ==
    /\ keyboard # "shell" /\ \E k \in ShiftKeys : MoveShift(k)
    /\ UNCHANGED shellVars

RunLine ==
    /\ pc = "line" /\ Enter
    /\ pc' = IF line = <<>> THEN "line" ELSE "run"
    /\ UNCHANGED <<files, open, leaked, job, input>>

(* RtlClipProcessMessage: a command with names that exist begins; one that *)
(* shows something, or whose names do not exist, is over at once.          *)
ShowSomething == pc = "run" /\ Over({})

StartCommand ==
    /\ pc = "run"
    /\ \E n, m \in Names :
          /\ Exists(n) /\ job' = Job(n, m)
          /\ \/ Go("copy_src")
             \/ Go("move_open")
             \/ Go("del")
    /\ UNCHANGED <<files, open, leaked>>
(***************************************************************************)
(* copy: NtFileCopyFile.                                                   *)
(***************************************************************************)
Copying == pc \in {"copy_src", "copy_dst", "copy_size", "copy_read", "copy_write"}

\* A copy that begins again when it fails.
CopyRetries ==
    /\ Copying /\ Go("copy_src")
    /\ open' = {} /\ job' = Job(job.src, job.dst)
    /\ UNCHANGED <<files, leaked>>

\* A copy that closes only its source when it fails.
CopyFailsOpen ==
    \/ pc = "copy_src" /\ Over({})
    \/ Copying /\ pc # "copy_src" /\ Over({"src"})

(* Any call may fail; what is in the destination by then stays.            *)
CopyFails ==
    \/ pc = "copy_src" /\ Over({})
    \/ pc = "copy_dst" /\ Over({"src"})
    \/ pc \in {"copy_size", "copy_read", "copy_write"} /\ Over({"src", "dst"})

CopyOpenSrc ==
    /\ pc = "copy_src" /\ Exists(job.src) /\ job.src \notin leaked
    /\ open' = {"src"} /\ Go("copy_dst")
    /\ UNCHANGED <<files, leaked, job>>

(* FILE_OVERWRITE_IF: the destination is made, or loses what it had.       *)
CopyOpenDst ==
    /\ pc = "copy_dst" /\ ~Exclusive(job.dst) /\ ~IsDirectory(job.dst)
    /\ files' = [files EXCEPT ![job.dst] = File(<<>>)]
    /\ open' = {"src", "dst"} /\ Go("copy_size")
    /\ UNCHANGED <<leaked, job>>

CopyGetSize ==
    /\ pc = "copy_size"
    /\ job' = [job EXCEPT !.size = Len(files[job.src].data)]
    /\ Go("copy_read")
    /\ UNCHANGED <<files, open, leaked>>

(* A read at the end of the file fails, and of a directory too.            *)
CopyRead ==
    /\ pc = "copy_read" /\ job.copied < Len(files[job.src].data)
    /\ Go("copy_write")
    /\ UNCHANGED <<files, open, leaked, job>>

CopyWrite ==
    /\ pc = "copy_write"
    /\ files' = [files EXCEPT ![job.dst] =
                 File(Append(@.data, files[job.src].data[job.copied + 1]))]
    /\ job' = [job EXCEPT !.copied = @ + 1]
    /\ Go(IF job.copied + 1 = job.size THEN "copied" ELSE "copy_read")
    /\ UNCHANGED <<open, leaked>>

CopyClose == pc = "copied" /\ Over({"src", "dst"})
(***************************************************************************)
(* move, del, md.                                                          *)
(***************************************************************************)
(* NtFileMoveFile opens what it moves, and others may still write it.      *)
MoveOpen ==
    /\ pc = "move_open" /\ Exists(job.src) /\ job.src \notin leaked
    /\ open' = {"file"} /\ Go("rename")
    /\ UNCHANGED <<files, leaked, job>>

MoveFails ==
    \/ pc = "move_open" /\ Over({})
    \/ pc = "rename" /\ Over({"file"})

\* A rename that replaces what has the name.
RenameOver ==
    /\ pc = "rename" /\ job.dst \notin leaked
    /\ files' = [files EXCEPT ![job.src] = Absent, ![job.dst] = files[job.src]]
    /\ Closing({"file"})

(* FileRenameInformation without ReplaceIfExists.  When it fails nothing   *)
(* is moved, and nobody is told (MoveFails).                               *)
Rename ==
    /\ pc = "rename" /\ ~Exists(job.dst)
    /\ files' = [files EXCEPT ![job.src] = Absent, ![job.dst] = files[job.src]]
    /\ Closing({"file"})

(* NtFileDeleteFile, of a directory too, if it is empty; or it fails.      *)
DeleteFile ==
    /\ pc = "del" /\ Exists(job.src) /\ ~Pinned(job.src)
    /\ files' = [files EXCEPT ![job.src] = Absent]
    /\ Closing({})

DeleteFails == pc = "del" /\ Over({})

(* NtFileCreateDirectory: that the name exists counts as success, whatever *)
(* it stands for.                                                          *)
CreateDirectory ==
    /\ pc = "run"
    /\ \E n \in Names : ~Exists(n) /\ files' = [files EXCEPT ![n] = Directory]
    /\ Closing({})
(***************************************************************************)
(* dir: RtlCliListDirectory, which asks after each 21 entries.             *)
(***************************************************************************)
(* Without memory or an event it returns with the directory open.          *)
ListLeaks ==
    /\ pc = "run"
    /\ \E n \in Names : IsDirectory(n) /\ leaked' = leaked \cup {n}
    /\ Done /\ UNCHANGED <<files, open, input>>

ListDirectory ==
    /\ pc = "run"
    /\ \E n \in Names, pages \in 1 .. MaxPages :
          IsDirectory(n) /\ job' = [Job(n, "none") EXCEPT !.pages = pages]
    /\ open' = {"dir"} /\ Go("pager")
    /\ UNCHANGED <<files, leaked>>

(* At the end the directory is closed.                                     *)
AnswerYes ==
    /\ pc = "pager"
    /\ \/ /\ job.pages > 1
          /\ job' = [job EXCEPT !.pages = @ - 1]
          /\ UNCHANGED <<pc, files, open, leaked, input, lineVars>>
       \/ job.pages = 1 /\ Over({"dir"})

(* 'n' returns with the directory open.                                    *)
AnswerNo == pc = "pager" /\ Over({})
(***************************************************************************)
(* Anything else is the name of a program.                                 *)
(***************************************************************************)
(* The keyboard is closed; a shell that has none closes nothing.           *)
StartProgram ==
    /\ pc = "run" /\ \E n \in Names : Exists(n)
    /\ pc' = "create" /\ keyboard' = IF keyboard = "shell" THEN "nobody" ELSE keyboard
    /\ UNCHANGED <<files, open, leaked, job, denied, lineVars>>

\* A shell that goes back to its prompt when there is no process.
CreateProcessOver ==
    /\ pc = "create"
    /\ \/ Go("child") /\ UNCHANGED <<files, open, leaked, job>>
       \/ Over({})

(* CreateNativeProcess, and the wait for what it made, or neither.         *)
CreateProcess ==
    /\ pc = "create" /\ (Go("child") \/ Go("reopen"))
    /\ UNCHANGED <<files, open, leaked, job>>

(* The program ends; what it started may stay.                             *)
ChildExits ==
    /\ pc = "child" /\ Go("reopen")
    /\ UNCHANGED <<files, open, leaked, job>>

(* RtlCliOpenInputDevice, whether the program ran or not: it fails if      *)
(* another has the keyboard, and may fail if not, and nobody is told.      *)
ReopenKeyboard ==
    /\ pc = "reopen"
    /\ \/ keyboard = "nobody" /\ keyboard' = "shell" /\ denied' = FALSE
       \/ denied' = TRUE /\ UNCHANGED keyboard
    /\ Done /\ UNCHANGED <<files, open, leaked>>
(***************************************************************************)
(* Other processes make, write and delete what the shell's handles let     *)
(* them, and open the keyboard when nobody has it.                         *)
(***************************************************************************)
OtherProcess ==
    /\ \E n \in Names, e \in Entries :
          /\ ~Exclusive(n)
          /\ Pinned(n) => files[n] \in Contents /\ e \in Contents
          /\ files' = [files EXCEPT ![n] = e]
    /\ UNCHANGED <<pc, open, leaked, job, input, lineVars>>

OtherKeyboard ==
    /\ \/ keyboard = "nobody" /\ keyboard' = "program"
       \/ keyboard = "program" /\ keyboard' = "nobody"
    /\ UNCHANGED <<pc, files, open, leaked, job, denied, lineVars>>

ShellStep ==
    \/ ShowSomething \/ StartCommand
    \/ CopyFails \/ CopyOpenSrc \/ CopyOpenDst \/ CopyGetSize \/ CopyRead
    \/ CopyWrite \/ CopyClose
    \/ MoveOpen \/ MoveFails \/ Rename \/ DeleteFile \/ DeleteFails \/ CreateDirectory
    \/ ListLeaks \/ ListDirectory \/ StartProgram \/ CreateProcess \/ ReopenKeyboard

Answer == AnswerYes \/ AnswerNo

Next ==
    \/ EditLine \/ ShiftKey \/ StrayShift \/ KeyUnseen \/ RunLine
    \/ ShellStep \/ Answer
    \/ ChildExits \/ OtherProcess \/ OtherKeyboard

(* The shell is never waiting for anything but a key and a program; the    *)
(* operator answers the pager, if the shell has the keyboard, and a        *)
(* program ends.                                                           *)
Spec ==
    /\ NativeShellInit /\ [][Next]_vars
    /\ WF_vars(ShellStep) /\ WF_vars(keyboard = "shell" /\ Answer) /\ WF_vars(ChildExits)
(***************************************************************************)
(* Properties.                                                             *)
(***************************************************************************)
Pcs == {"line", "run", "copy_src", "copy_dst", "copy_size", "copy_read", "copy_write",
        "copied", "move_open", "rename", "del", "pager", "create", "child", "reopen"}

(* The types; and a directory whose handle has leaked stays a directory,   *)
(* which no command or process can remove any more.                        *)
TypeOK ==
    /\ LineTypeOK
    /\ pc \in Pcs /\ files \in [Names -> Entries]
    /\ open \subseteq {"src", "dst", "file", "dir"}
    /\ leaked \subseteq {n \in Names : IsDirectory(n)}
    /\ job \in [src : Names \cup {"none"}, dst : Names \cup {"none"},
                size : 0 .. MaxChunks, copied : 0 .. MaxChunks, pages : 0 .. MaxPages]
    /\ keyboard \in {"shell", "program", "nobody"} /\ denied \in BOOLEAN

(* RtlCliGetLine redraws the row for each backspace: at the prompt the     *)
(* screen shows the prompt and the line that Enter will run.               *)
ScreenShowsLine == pc = "line" => RowShowsLine

(* The one SHIFT_PRESSED flag of keytrans.c outlives the keys that set it  *)
(* only if they went up while the keyboard was not the shell's: from       *)
(* main.c:327 on, and after a refused open.                                *)
ShiftSticksUnseen ==
    [][shifted' /\ held' = {} => (shifted /\ held = {}) \/ keyboard # "shell"]_vars

(* When NtFileCopyFile has written as many bytes as the source has, the    *)
(* two files are the same, whatever other processes did meanwhile.         *)
CopyFaithful ==
    pc = "copied" => job.src # job.dst /\ files[job.dst] = files[job.src]

\* Nothing is lost but in the destination of a copy, or what del names.
KeepsFiles ==
    \A n \in Names : files[n] \notin {Absent, files'[n]} =>
       \/ pc \in {"copy_dst", "copy_write"} /\ n = job.dst /\ n # job.src
       \/ pc = "del" /\ n = job.src
       \/ \E m \in Names : files[m] = Absent /\ files'[m] = files[n]

(* A step of the shell never destroys a file or changes what is in it,     *)
(* unless del names it or it is the destination of a copy, and not its     *)
(* source: what move takes from one name it gives to another, and it       *)
(* replaces nothing.                                                       *)
FilesKept == [][pc' # pc => KeepsFiles]_vars

(* Whatever fails on the way, copy, move, del and md close all that they   *)
(* opened (ntfile.c:149-205); what the shell keeps open for good are       *)
(* directories, each of a listing that 'n' or a lack of memory ended.      *)
HandlesReturned ==
    [][leaked' # leaked =>
          pc \in {"run", "pager"} /\ \E n \in Names : IsDirectory(n) /\ leaked' = leaked \cup {n}]_vars

(* From main.c:327 to 338, whether or not there was a program, the         *)
(* keyboard is free for others; and whenever the shell reads keys it has   *)
(* it, unless its last attempt to open it was refused.                     *)
KeyboardOwned ==
    IF pc \in {"create", "child", "reopen"} THEN keyboard # "shell"
                                          ELSE keyboard = "shell" \/ denied

(* Every command comes back to the prompt: no copy, listing or program     *)
(* keeps the shell for good, but for the pager of a shell that was refused *)
(* the keyboard.                                                           *)
CommandsEnd == pc = "run" ~> pc = "line" \/ (pc = "pager" /\ keyboard # "shell")
=============================================================================
