# FreeNT: a verification development

FreeNT turns an NT kernel with Native Mode programs into a small system of its
own: a C runtime without Win32, a POSIX descriptor layer, terminals, a DLL
loader, a native shell, and the scripts and the installer that put them on a
machine.  This directory holds TLA+ models of the parts that keep state, the
TLC configurations that check them on small instances, and theorems about them
that TLAPS proves for every value of their constants.  Paths below are
relative to the repository.

`PROJECT.json` is the index: components, runs, what each definition models
line by line (`map`), the hazards of the code, findings and theorems.

## 1. The system

| Component | State it keeps | Operations | Hard behaviour |
|---|---|---|---|
| FreeDLL heap (`freedll/src/heap.c`) | chunk headers in the heap's memory, a list of heaps | allocate, free, reallocate, create, destroy | splits and merges must keep three link fields in step; wrap-around; no lock |
| FreeDLL process life (`freedll/src/dllmain.c`, `heap.c`) | the list of heaps, TLS callbacks, exit functions, FLS slots | attach, detach, register, slot and heap calls | tables with limits, functions that register others while the loop over their table runs, heaps made before the list begins |
| FreeDLL C functions (`crt_*.c`, `rtl.c`, ...) | `strtok`'s position | string, conversion and format functions | |
| NTPOSIX (`ntposix/ntposix.c`) | table of descriptors | open, close, read, write, lseek, dup, fstat, exit | kernel calls that fail in the middle, a full table, 64 bits in a `long` |
| NTTTY rings (`nttty/tty.c`) | two character rings per device, a mutant each | push, pop, flush | checks before the mutant is taken |
| NTTTY line disciplines (`nttty/tty.c`) | termios flags, discipline, echo | driver input, read, write, ioctl, flush, break | editing a ring from its end while it is read from its front |
| NTTTY devices (`nttty/tty.c`) | list of devices, `device_count` | initialise, create, close, shut down | a count raised without the lock, creations that fail half-way or overlap a shutdown |
| NTDYLIB (`ntdylib/src`) | list of modules, reference counts, images, bound imports | load, find, unload, look up, cleanup | DllMain runs inside a call and makes further calls; imports outlive their providers; images move |
| Transformation (`scripts/transform`) | registry, services, packages, backup, flag | transform, roll back | steps that fail or are interrupted, scripts run again |
| ISO builder (`scripts/build_freent_iso.sh`) | working directory, the ISO | seven steps | any command may fail or be killed; what is left meets the next run |
| Installer (`installer/src/installer.c`) | the disk, registry hives, boot store | screens, nine steps | no step looks at the answer of the one before |
| Native shell (`nativeshell`) | line, display buffer, Shift flag, handles, the files | edit and run a line, copy, move, delete, list, start programs | two buffers and a screen in step, files shared with other processes, handles on every way out |
| NTVM, native stubs, Liberty, image scripts, patches, NDK headers | none of their own | | |

How they meet.  Every library allocates from the FreeDLL process heap.  NTDYLIB
loads DLLs into that process and calls their entry points, which call NTDYLIB
again.  The terminal's driver side (`NttyInput`) and the program's side
(`NttyRead`, `NttyWrite`, `NttyFlush`) share the rings and run on different
threads.  NTPOSIX owns its descriptors and calls nothing but the kernel.  The
transformation scripts share only what they leave on the machine: registry keys, the
backup, the flag.  The installer runs from the ISO that the builder made and finds only
what the builder put on it.

What makes each component correct: the heap never hands one byte to two callers
and never loses one; a terminal delivers what was typed, once and in order; a
descriptor is a kernel handle, one to one, and duplicates share an offset; a
module lives exactly as long as somebody holds it; whoever registered for the end of the
process is called, once; a script or an installer that reports success has done what it
says.

## 2. Modules

| Module | Models | Kind |
|---|---|---|
| `BlockAllocator` | what a heap promises its callers | abstract |
| `Heap`, `HeapProofs`, `MCHeap` | the chunk list of one heap | component, proofs, instance |
| `TtyQueue` | a bounded first-in first-out queue | abstract |
| `TtyRing`, `TtyRingProofs`, `MCTtyRing` | one ring and the threads at it | component, proofs, instance |
| `TtyLine`, `TtyProofs`, `MCTtyLine` | a terminal's disciplines over both rings | component, proofs, instance |
| `LinkedList` | what a walk along links meets | operators |
| `TtyDevices`, `TtyProofs`, `MCTtyDevices` | the life of devices among threads, over `LinkedList` | component, proofs, instance |
| `Descriptors` | the descriptor table of POSIX | abstract |
| `PosixFd`, `PosixFdProofs`, `MCPosixFd` | NTPOSIX slots over kernel handles | component, proofs, instance |
| `NtdylibImage` | what the loader makes of one file: sections, relocations, exports | operators |
| `Ntdylib`, `NtdylibProofs`, `MCNtdylib` | the modules with nested DllMains, over `NtdylibImage` | component, proofs, instance |
| `HeapList` | the heaps of a process, over `LinkedList` | component |
| `Runtime`, `RuntimeProofs`, `MCRuntime` | FreeDLL from attach to detach, over `HeapList` | composition, proofs, instance |
| `Transform`, `SetupProofs`, `MCTransform` | both transformation scripts | component, proofs, instance |
| `IsoBuild` | the script that makes the medium | component |
| `Installer` | screens and steps of the installer | component |
| `Deployment`, `SetupProofs`, `MCDeployment` | from a build to an installed system, over both | composition, proofs, instance |
| `ShellLine` | keyboard, line editor and screen of the native shell | component |
| `NativeShell`, `NativeShellProofs`, `MCNativeShell` | its commands among other processes, over `ShellLine` | composition, proofs, instance |

`Heap`, `TtyRing`, `TtyLine` and `PosixFd` each INSTANCE their abstract
specification with a refinement mapping, and the runs check it as a PROPERTY.
Definitions that a comment introduces as "a push that ..." with `\*` are
alternative forms of the definition next to them, with a plausible bug;
`PROJECT.json` pairs each with the property that detects it.  `TtyProofs` and `SetupProofs`
each hold the proofs of two components, whose definitions have names of their own for that:
`Init`, `Next`, `Spec` and `TypeOK` are those of `TtyDevices` and of `Transform`, and
`LineInit`, `LineSpec`, `DeployInit`, `DeploySpec` and so on those of the others.

### Heap

`heap` is a record of functions from header addresses to the fields of a
`HEAP_CHUNK_HEADER`: `size`, `next`, `prev`, and the set `free`.  Addresses are
byte offsets in the heap, so tiling and overlap are real arithmetic, and sizes
are taken modulo `Word`, as `SIZE_T` is.  `held` records what callers asked for.
`Allocate` walks to the first chunk that fits and splits it, or not
(`heap.c:154-215`); `Free` merges with the next chunk and then with the previous
one (217-263); `ReallocateInPlace` and `ReallocateByMoving` are 265-296, with the
allocation that may fail.  The signatures that `RtlFreeHeap` compares are always
those it wrote, as callers free what they hold.

### TtyRing, TtyLine

`TtyRing` cuts a push, a pop and a flush into the steps other threads can see:
the check of `count` without the mutant, the wait, the move of an index, the
update of `count`, the release.  A refused call changes nothing.  `TtyLine` takes
calls one at a time and has what the disciplines do: signals, erase, kill, end of
file, translation, echo, the two control calls that switch termios and discipline,
and reads as loops of pops with other calls in between.

### TtyDevices

`device_count` is raised in two steps without the lock and lowered in two steps under it, as
the code's `++` and `--` compile to; the list is changed under `list_lock` only.  A creation
may fail after it took its number: its memory goes, the number stays spent.
The list is the links themselves, and who is on it is what every walk from the head meets
(`Walk`, the least set that no walk leaves).  `fresh` remembers the devices that took their id while nobody else was at the count and
since when nobody lowered it: the ids of others do repeat.  `late` are the devices that a
creation linked after the sweep of a shutdown.

### PosixFd

Slots are `NP_FD` records.  The kernel is external and modelled as this layer uses
it: handles name file objects, `NtDuplicateObject` makes a second handle of one
object, every call may fail, and a file is its size.  `ret` is the answer as a
`long` of the Windows build (32 bits).  Path conversion is reduced to whether it
succeeds.

### NtdylibImage, Ntdylib

`frames` is the stack of the DllMains that run; while it is not empty, further
loads and unloads happen inside the call that made them.  The stretches between
two callbacks call nobody and are one step each.  A base name that could not be
allocated makes a module no search finds (`named`).  A name with a path is never
found either, as `NtdylibFindModuleByName` compares it whole with base names.
`late` marks modules that were handed out in the middle of their own
DLL_PROCESS_DETACH: the code frees them although somebody holds them, and the
properties say exactly that nobody else is affected.

`NtdylibImage` has no state.  It takes a file as a record of cells, sections, relocation
blocks, imports and exports, and says what the loader makes of it at an address: zeroes,
headers, sections with their zeroed tails, and the distance from `ImageBase` added, modulo a
DWORD, to every cell that an entry of type 1 names.  The loops are given by what they do to
each cell: the last section that writes it decides (`MapImage`), and the distance is added as
often as there are entries for it in the blocks that the walk comes to (`Walked`, `Patched`).  The constants are those of `ntdylib.h`
and not those of the format: the signature spells TE, type 1 is the 32-bit relocation, the
64-bit one has the value of padding and so never applies, and the table is looked for in
directory 2.  A file of the model's instance is therefore one that this loader takes; one
file is as compilers make it, and is refused.  `Ntdylib` maps such files at addresses that
are free, keeps what each image holds, and binds imports in the same step that links the
module, as the code does: the module itself and those it finds in the list first, then what
Windows has loaded.  A descriptor for whose name there is no memory stays unbound
(`starved`).  `from` remembers who provided each descriptor, and `"gone"` that the provider
was freed.  Sections are protected before relocations and imports are written, so a load may
fault; the process ends and starts afresh (`LoadFaults`).

`WellMade` says what a file that this loader takes is assumed to be, in terms of the file alone:
the format has each cell in one place, or nowhere when it is zero; the tail of a section beyond its
contents has nothing; a cell that holds an address has one entry in the table, before an empty block
(`Fixups`), and the others have none; an import has a cell that no other import has.  `pointers` and
`values` are the linker's side of it, what each cell was meant to hold, and `Linked` is that cell in
an image linked for another address.  A file that breaks these rules is not excluded by the code,
only by the properties' subject: what "correctly loaded" means is then undefined.

Callers are taken to unload only what a load gave them, and the kernel to release
memory although the code passes no region size (`exports.c:343`).  Whether to relocate is
asked of headers in the freed copy of the file (`loader.c:656`); the model takes the word
found there not to be the image's address by accident, and then every outcome is the same,
since `NtdylibProcessRelocs` computes the distance again from the mapped headers.  The kernel
is taken to grant the preferred base whenever it is free and among `Bases`.

### HeapList, Runtime

`HeapList` has the heaps as addresses, which the system may give out again, their links, and
the two globals.  `Runtime` puts `DllMain` over it: each call of a registered function is a
step of `loop`, at the position the code's index has then, and between two steps anybody may
register.  `promised` is what was registered since the attach, `called` what the loop has
called.  One thread registers at a time; the two accesses of a registration are one step.

### IsoBuild, Installer, Deployment

`IsoBuild` takes the script command by command where a failure leaves something different
behind; `Kill` ends it anywhere, and the trap, which is set after step 3 only, may fail to
remove.  An image is the set of files that matter to what is installed from it.  `Installer` has
C: as two trees, the hive, the boot entry, and which of the volumes C: and S: exist; a command does
all of its work, a part, or none (`Advance`), and `fault` remembers whether one that could have worked
did not.  A tree remembers where its NT components came from, and a copy over a tree leaves of those
that were there all, some or none, as `dism` and `xcopy /Y` replace what has the same name (`Copied`).
What a command can do at all follows from the disk: `rename` onto an existing directory does nothing;
`diskpart` stops at its first line when no disk is selected, and only its script makes C: and S:;
`bcdboot` needs `C:\WNT\Boot` and S:; the patches reach the target's hive only while it is loaded, and
only if they were found.  `run_command` may end the program behind a command whose output it keeps
(`Overrun`), as it looks for the end of a text where none is.  `Deployment` lets the installer start
from the ISO that the builder left, on another machine.

### Transform

One action per function that the main part of either script calls.  Every step may
fail at any point, so it leaves a part of its work undone; whether that becomes an
entry in `$Errors`, a warning or nothing at all is the script's, and differs from
step to step.  `reg export` and `sc` fail without an exception, so a failed backup
goes unseen.  `Crash` stops a script anywhere.  `ShellIn` and `UserinitIn` are what
the patterns of `Restore-Explorer` read from the text of a `.reg` file, where a
quoted path reads as its first backslash and a plain one keeps doubled backslashes.
A dry run skips every step and is left out; a script runs alone.

### ShellLine, NativeShell

`line` is `Line` up to `CurrentPosition`; `display` has `DisplayBuffer` up to `LinePos`
and, beside it, what `NtDisplayString` makes of the row, so that a backspace is the code's
sequence of carriage returns, two redraws and a blank (`input.c:219-225`), and not its
intention.  `NativeShell` takes the commands call by call: each call to the kernel is an
action and may fail, and `OtherProcess` makes, writes and deletes files between any two of
them, as far as the share modes of the shell's handles let it (`Exclusive`, `Pinned`).  A
copy of an empty file and of a directory empties the destination and then fails, as the
first read does; a rename that fails is not reported; a listing that is left with `n`
keeps its directory open for good (`leaked`).  Each ending names the handles that the code closes there (`Over`), and what else is open
then is open for good.  From `main.c:327` to 338 the keyboard is closed, and others may open it; keys
move unseen then (`KeyUnseen`).  Opening it again may fail, which the shell does not notice
(`input.c:71-89` returns another call's status and an unset handle): it then takes what its stack holds for
keys (`denied`, `StrayShift`).  What a line says is left open: any command over any names.  Lines stay
below the 127 characters that `CurrentPosition`, a `CHAR`, can count.

## 3. Runs

| Run | Instance | What it shows |
|---|---|---|
| `heap` | 332 bytes, three request sizes | the list tiles the heap, blocks are disjoint, held pointers are valid, free neighbours are merged, and all is a behaviour of `BlockAllocator` |
| `tty_ring` | 3 cells, one producer, one consumer that flushes | the ring is a queue although its checks are unlocked |
| `tty_ring_many` | 2 cells, three producers | indices agree when nobody is inside, overshoot is bounded, every waiting call returns |
| `tty_line` | rings of 2, three termios settings, both disciplines | index drift equals the number of erases, reads see a queue until something is erased |
| `tty_devices` | 3 threads, 3 cells, counts to 4 | open devices that took their ids alone have different ones; the list has what callers hold, but for what a shutdown missed |
| `posix_fd` | 2 slots, 3 handles, 3 flag sets | one handle per slot, errors change nothing but in two named cases, refinement of `Descriptors` |
| `ntdylib` | 3 modules, 3 files, 3 addresses, DllMains three deep | list, counts, images and holders agree; an image is the file as linked for its address; an import goes to the newest provider there was, while it lives |
| `runtime` | 3 addresses, tables of 2, one slot for 2 clients | the list of heaps stays a list, everybody owed a call gets it in order, a slot has one owner, `DllMain` returns |
| `install` | 2 builds of 2 sets of artifacts on 5 hosts, then one installation on 7 kinds of disks | the medium is made of this build alone; an installation brings only that, and in kernel mode all of it; what of the last screen's list is so when no command failed |
| `transform` | 2 values, 2 services, 2 profiles | a run without errors did what it reports |
| `transform_twice` (violation) | as above | a second transformation replaces the backup, and a rollback without errors leaves another shell |
| `native_shell` | 2 names, files of at most two chunks, lines of three, 2 Shift keys | screen, buffer and line agree; the Shift flag sticks only if keys went up while the keyboard was not the shell's; a copy is a copy, no other file is lost, handles are closed on every way out but a listing's, the keyboard comes back unless refused, every command ends |

Bounds.  332 bytes hold seven of the smallest chunks: enough for a free chunk with a
free neighbour on both sides and a held block beyond, and too few for everything callers
ask, so that failing calls and unsplit grants happen; one request is rounded up, one
fits a reused chunk exactly, one only a merged chunk.  Rings of two or three cells fill
and wrap within a few calls, and a `ULONG` of 8 or 12 values shows a wrapped counter at
once.  Two slots with three handles make the table fill while the kernel still grants
handles, and a `long` of three non-negative values lets two seeks pass it. Three modules
let the plugin be mapped twice under one name beside an importer that must choose, and
let a DllMain load, be loaded, and unload a third; of the three addresses one is the
plugin's base, one the helper's, and a DWORD of 64 values wraps between them, so that
images move up and down.  The helper holds an address in read-only memory and faults
anywhere else, and it alone is loaded as a data file.  `MaxShort` lets one allocation
fail in each load.  Two nested calls are the shortest in which a module is taken and
released inside its own detach, three go one beyond.  `MaxHeld`, `MaxDepth`, `MaxShort`,
`MaxSize` are bounds of the models alone.  Two profiles, one that disables nothing, and
one service that only rollback touches are all the cases the scripts tell apart.  Two
names are a source and a destination, or the same; two chunks of two kinds show an order
and a lost end; three characters allow erasing in the middle of typing; all file systems
are initial.

Three threads at the list of devices are one at the lock, one at the count and one that shuts
down; three cells let a device be freed, its cell be given out again and a third stay.  A
count of four wraps nothing, but lets ids repeat after closes.  Two entries of a table
let the function registered during the loop find it full or not; three addresses make a list
with a middle.  The second build is what meets the leavings of the first; the hosts are the branches
of step 7.  The disks are: without C:; empty; with Windows, with and without S:; and what three kinds of
earlier installations leave, one of them cut off and one beside the Windows it could not rename.

Symmetry is declared for handles, objects, modules, threads and cells, which are only compared,
in runs without liveness.  `posix_fd` switches the deadlock check off because a process ends with
`exit`, `install` because an installation ends with its last screen; elsewhere it is on.

Fairness appears in three runs.  In `tty_ring_many`, a thread that holds the mutant executes a
few instructions without waiting, so it goes on (`WF` of its steps); the kernel's mutant
hands itself to its waiters in turn, so one that waits is served although the mutant is
taken in between (`SF` of `Acquire`).  In `native_shell` the shell runs its own calls (`WF` of
`ShellStep`), a program that was started ends, and the operator answers the pager, if the shell
has the keyboard to read the answer with: without the last two the shell waits by design.  In `runtime` a loop of `DllMain` that has begun goes on
(`WF` of `Loop`): it is one thread's code, and the functions that it calls return.  Nobody is made
to call anything.

## 4. Proofs

Each theorem is about the specification with all constants arbitrary, under the named
assumptions of its module, which TLC evaluates in the runs.

**Heap** (`HeapProofs`), assuming `NoWrap`, that no sum computed from a request wraps
(the code's own rounding does, see section 5).  The tiling of the heap is not inductive: it
says nothing of `Prev`, of alignment, or of who holds a chunk, and merges follow `Prev`.
`HeapInv` adds the links in both directions, that no two free chunks are neighbours, and
that held pointers and used chunks are one to one.  Splitting and merging are proved
once as lemmas on `SplitAt` and `Absorb`; every action is a composition of them.
`HeapRefines` then shows that each step is one of `BlockAllocator` or none.
That a heap with nothing held is one chunk again (`EmptyHeapIsWhole`) follows from
`HeapInv` and is proved without a run of its own.

**Ring** (`TtyRingProofs`), assuming `OneReader`: one producer, and one consumer that
alone flushes.  The refinement needs that what an unlocked check found is still true
when the mutant is granted (`ChecksHold`): nobody else raises `count`, respectively
lowers it.  `Indices` says where `tail` stands also when the ring is half moved, and
`StoredNext` that the character about to be counted is in its cell.

For any threads (`SharedInv`), the call that owns the mutant determines what `count` is going
to be (`Settled`), and with that value the indices agree at every moment; a count may wrap, as the
number of `ULONG` values is a multiple of the size.  The overshoot needs `SoleConsumer`, one
consumer that alone may flush and fewer producers than would wrap the count: the producers
that have passed the check and not counted yet (`Entered`) are what it is bounded by.

**Devices** (`TtyProofs`), no further assumption.  Whoever raises the count will write a
number above the id of every fresh device, and if its own device is fresh it is alone
(`FreshInv`).  That the list has what callers hold is a statement about the end of every walk, and
links may dangle; `DevInv` makes it inductive.  At most one thread is between taking and releasing
`list_lock`, and none else changes links (`LockInv`); `DownInv` has what a shutdown excludes; a
device that a call has is no other call's and is off the list before it is linked and after it is
taken out (`OwnInv`); and the links from the head meet no device twice (`IsList`), so that
linking at the head adds one element to what walks meet, and taking out removes one.  Those two
facts are lemmas on `Walk`, proved from its definition as a least set, as the library's induction
is out of reach.

**Line disciplines** (`TtyProofs`), for rings of any sizes greater than one.  `EraseDebris` says by a
remainder how far the indices are apart; without it, `Drift`, the distance is one of three multiples
of the size and the invariant is linear.  `QueueUnlessErased` is the refinement of `TtyQueue`: what
waits is read off the ring from `head`, and each call is a push, a pop, a flush or nothing on it.

**Descriptors** (`PosixFdProofs`), no further assumption.  `FdInv` is the property that
slots and handles are one to one, with the fact that every open object has a file that
exists.  `FdIsPosixTable` maps slots to descriptions, and `FdErrors` is an action
property over every early return.

**Transformation** (`SetupProofs`), no further assumption.  The claims hold at the
end of a script only; `Progress` says what holds after each step of a run that has noted
no error, and that a backup of another shell than Windows's has been marked, whichever
crash or failure came before.

**Building and installing** (`SetupProofs`), for any builds, hosts and old disks that satisfy
`InstallerAssumption`, and any interruption.  `MediumInv` follows the working directory through the
script: what is there at each step of a build that began in an empty one, and that an ISO which
is kept was made of what the script says.  `BroughtInv` says of C:\WNT that what it has of FreeNT's is
the medium's or was there.  For the installer the claims hold on the last screen only;
`SoundInv` has what is true before each step when no command failed and there is a C:, by mode:
`KernelInv`, that the copy of the running system and of the files beside the installer is
complete from step 2 on; `ImageInv`, that what step 4 removes stays removed and that a C: without
C:\WNT has one after step 3; `EntryInv`, which boot entries are written.  `KeptInv` says that until
step 3 C:\WNT is as a run with an image found it, diskpart included.  The theorems hold for every old disk, as the conditions are
part of what they state; what does not hold of the installer's own claims is in section 5.

**Native shell** (`NativeShellProofs`), no further assumption than that the bounds are
numbers.  `HandleInv` ties the open handles to the place in the code, and the keyboard to it and to
whether it was refused; so `HandlesReturned` comes down to what each ending closes (`EndsClose`).  For
the copy, `CopyInv` says that the destination has the first `copied` chunks of the source and
that the size read is still its size.  Only exclusive handles keep other processes from
breaking it, which is where the proof uses `HandleInv`.  For the screen, the invariant says what
row, buffer and line are between two keys; a backspace is followed through its carriage returns
and redraws by lemmas on the row.  Types need that a directory whose handle is leaked cannot
be removed or replaced by anybody.  The Shift flag needs only that nothing but the Shift keys, and a
read without a keyboard, moves keys and flag (`OnlyShiftMoves`), which is a fact about every other action.

**Loader** (`NtdylibProofs`), for any modules, well made files, failures and depth of
DllMains.  That counts equal holders is not inductive.  `Accounted` adds that a module has at most one
DLL_PROCESS_DETACH running and no reference while it runs, and that a module that is gone has
neither holders nor DllMains, so that its address can be given out again; a module handed out in
its own detach leaves the accounts (`late`).  The frames of the stack are counted by lemmas on the
places of a value in a sequence, and the list stays free of duplicates (`Once`).

What an import is bound to was the newest module of its name when the importer came.  That is
inductive once it is said of the list as it is now (`ImportInv`): the order of two modules in the list
never changes while both live, as new ones go to the head (`PlacePushed`) and an unload takes out one
(`PlaceRemoved`), so "newest of those older than the importer" stays true; and the address is that
of a module that neither moves nor changes while it lives.  A provider that is freed leaves
`"gone"`, and the same structure allocated again is not mistaken for it.

What an image holds is followed cell by cell: `MappedLinked`, that copying and zeroing leave what
the file has for the cell, for sections in any order that may overlap; `FixupsPatched`, that the walk
over the blocks comes to every entry; `RelocatedLinked`, that one addition modulo the word moves a
pointer up or down.  `ImageInv` carries it from the load to the unload, together with the types, which
need that every address that an export search gives is a number (`ExportTyped`).

**Process life** (`RuntimeProofs`), no further assumption.  `DllInv` says where the loop stands in its
table and what it has called; both tables are what was promised, but for what `atexit` is told while
its own loop runs.  A slot has one owner because the counter never falls.  The list of heaps is compared with its history
(`listed`); `ListInv` adds that the history names no heap twice, and `WalkIsListed` that what a walk along the
links meets is then exactly what is listed, for the reason that a heap not met would have a first one
among them in the history.

A number or an element "that comes first" is needed in several of these proofs (`Least`, `Greatest`);
it comes from the well-foundedness of the naturals, which is a theorem of the library without an
operator as a parameter.

Every safety invariant and action property that a passing run checks is also proved, under the
assumptions named above.  Only
model-checked: the three liveness properties (`CallsReturn`, `CommandsEnd`, `CallsEnd`), as the prover
does neither fairness nor ENABLED, and `ShellRestored`, which a rollback violates.  What recursive definitions of the community modules
compute for every input is not proved either; the modules that are proved about use none.

## 5. Findings

* `transform_twice`: the backup is taken again on every run, and the pattern that reads
  it back cuts a quoted path at its first backslash.

Seen while modelling, and part of the models:

* Heap: `RtlAllocateHeap` rounds up without a check for wrap-around, so that a request of
  `SIZE_MAX` is granted nearly nothing.
* Terminals: the erase character lowers the count of the input ring and not its tail, so that the erased
  character is read and the next one held back; nothing pops the output ring, so that after `OBUF_SIZE`
  characters all output is dropped until a flush while `NttyWrite` and echo report success, and a newline
  with one free cell leaves its CR alone; `NttyWrite` bypasses output translation; a
  creation that fails leaves its mutants and events open.
* Loader: `STATUS_END_OF_FILE` is 0xC0000014 (`ntdylib.h:111`) where NT's, and `ntposix.c:103`'s, is
  0xC0000011, so `loader.c:166` takes the end of every file for an error and no file is loaded; the
  model takes the end to be told as the code expects it, or there would be nothing to check.  The signature
  that `NtdylibParseHeaders` compares spells TE, so no PE file is loaded;
  relocations are looked for in the directory of resources and only type 1 applies, so real images
  stay as they are; a DLL loaded by path twice is mapped twice; imports take no reference to their
  provider (`"gone"`).
* Descriptors: a seek past the largest `long` moves and answers with a truncated, negative number
  (`ToLong`).
* Scripts: the identity values are deleted by the rollback and never restored from
  `CurrentVersion.reg`; `Userinit` comes back with doubled backslashes.
* Shell: `move` reports no failed rename, and `copy` fails for an empty file.  That the keyboard could not be
  opened again is not noticed (`input.c:71-89`, `main.c:338`), and reads without it go on, over key data that
  nobody has set.

What the installer says of itself and does not do.  `InstallClaims` is the part that it does; each of
the following is what `Installer` has where the code is, whatever was chosen:

* "All data on the target disk will be erased" (`installer.c:449`, `installer/README.md:85`): the
  line that selects the disk goes to a buffer and not to the script (`installer.c:140-172`), so `clean` fails, and with
  it the rest.  Nothing is partitioned, and S: is never made, which only line 493's script would.  Over what was
  there, `dism` (562) and `xcopy /Y` (517) replace the files of the same names, the hives included.
* "FreeNT registry patches applied" (`installer.c:1010` and 1017, `installer/README.md:99`): the patches are looked for in
  `patches\patches` under the installer's directory and are not found.  Started without a directory it finds
  them, and they land under `SYSTEM\Session Manager` and `SOFTWARE\CurrentVersion` inside the target's SYSTEM
  hive, where nothing reads them, or fail because the hive is not loaded.  Only `add.reg` goes into WinPE's own registry.
* "FreeNT boot configuration written" (`installer.c:1011` and 1018): for UEFI, `bcdboot` copies from
  `C:\WNT\Boot`, which step 4 has removed when there was an image, to S:, which exists only if it
  did before.
* Steps 6 and 7 (`installer.c:926`, 959-985): `native.exe` and `freent.exe` are never beside the installer, where they are
  looked for; the medium has them in the system directory, which only kernel mode copies.
* The list of what step 4 removes has no NULL at its end, so the loop reads on behind it; `run_command`
  takes `strlen` of a buffer whose end it has just overwritten (`installer.c:66-67`).

## 6. Not modelled, and the plan

Code without state of its own: the Rtl helpers, the native stubs, Liberty and NTVM (three calls on
one record, which nobody makes).  Data and declarations: the registry patches, and the headers of the
kernel's interface, which are more than half of the repository's lines.  Formatting and layout,
and what the scripts ask of DISM, 7-Zip and diskpart beyond what comes of it.

`freent_qsort` exchanges pointers where elements should change places and compares past both ends of
the array: what it computes depends on the memory around it.  `create_freent_wim.ps1` does not parse
(`"$capability: $_"`, line 783), and `install_freent.ps1` stops at its first package, as `scripts\src` is no
directory: neither has a behaviour to model.  Lines of the shell beyond 127 characters are written in front of
the buffer, where what lies is up to the linker.

What could follow, in this order:

1. `TtyLine`: an erase that races a pop, with the steps of `TtyRing`.
2. The native shell's current directory and the splitting of a line into arguments.
3. `Ntdylib`: DllMains that look up exports of a module that is being detached; several threads in the
   loader, which takes no lock.
4. `strtok` and `bsearch` against reference definitions over bounded inputs.

A hazard in `PROJECT.json` without a property says why it has none.
