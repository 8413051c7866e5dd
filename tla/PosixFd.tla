------------------------------ MODULE PosixFd -------------------------------
(***************************************************************************)
(* The descriptor layer of ntposix/ntposix.c: a table of NPOSIX_MAX_FDS    *)
(* slots over the handles of the kernel.                                   *)
(*                                                                         *)
(* The kernel is external and modelled as the layer uses it: a handle      *)
(* names a file object, which has a file, an access and an offset;         *)
(* NtDuplicateObject makes a second handle of the same object; a write     *)
(* without FILE_WRITE_DATA but with FILE_APPEND_DATA goes to the end of    *)
(* the file.  A file is its size.  `long` has LongMax + 1 values from 0    *)
(* on and as many below.                                                   *)
(***************************************************************************)
EXTENDS Integers

CONSTANTS MaxFds,      \* NPOSIX_MAX_FDS
          Handles,     \* the kernel's handle values
          Objects,     \* the kernel's file objects
          Files,
          OpenFlags,   \* the flags callers pass to open
          Counts,      \* the lengths callers read and write
          Distances,   \* the offsets callers pass to lseek
          LongMax,     \* the largest `long`
          MaxSize,     \* bound on sizes and offsets
          Null         \* no handle, no object, no flags

ASSUME FdAssumption ==
    /\ MaxFds \in Nat \ {0} /\ LongMax \in Nat /\ MaxSize \in Nat
    /\ Null \notin Handles \cup Objects \cup OpenFlags
    /\ Counts \subseteq Nat \ {0} /\ Distances \subseteq -(LongMax + 1) .. LongMax

ASSUME FlagsAssumption ==
    OpenFlags \subseteq
        [mode : {"O_RDONLY", "O_WRONLY", "O_RDWR"},
         create : BOOLEAN, trunc : BOOLEAN, append : BOOLEAN]

VARIABLES fds,       \* Fds: the slots
          object,    \* the object of each open handle
          desc,      \* the file, access and offset of each object
          size,      \* the size of each file, -1 where there is none
          ret        \* what the last call returned

kernel == <<object, desc, size>>
vars == <<fds, kernel, ret>>

Fd == 0 .. MaxFds - 1
FdArgs == -1 .. MaxFds             \* what callers pass as a descriptor
Offsets == 0 .. MaxSize
Free == [handle |-> Null, flags |-> Null, used |-> FALSE]

Unused == {i \in Fd : ~fds[i].used}
IsFirst(i) == i \in Unused /\ \A j \in 0 .. i - 1 : j \notin Unused

(* An object lives as long as it has a handle.                             *)
Gone == [file |-> Null, access |-> {}, offset |-> 0]
Living(obj) == [o \in Objects |-> IF \E h \in Handles : obj[h] = o THEN desc[o] ELSE Gone]

FdHandle(fd) == IF fd \in Fd /\ fds[fd].used THEN fds[fd].handle ELSE Null

NewHandle(h) == h \in Handles /\ object[h] = Null
NewObject(o) == o \in Objects /\ \A h \in Handles : object[h] # o

(* The statuses of the kernel as nt_to_errno translates them: ENOENT,      *)
(* EACCES, EINVAL, and EIO for every other.                                *)
Errnos == {2, 13, 22, 5}

(* The answer as a `long`, which has 32 bits.                              *)
ToLong(n) == ((n + LongMax + 1) % (2 * (LongMax + 1))) - LongMax - 1

Answer(n) == ret' = n /\ UNCHANGED <<fds, kernel>>
KernelFails == \E e \in Errnos : Answer(-e)

Access(fl) ==
    (IF fl.mode = "O_WRONLY" THEN {"write"} ELSE
     IF fl.mode = "O_RDWR" THEN {"read", "write"} ELSE {"read"})
    \cup (IF fl.append THEN {"append"} ELSE {})

(* NtCreateFile: FILE_OVERWRITE_IF, FILE_OPEN_IF, FILE_OPEN.               *)
SizeOpened(f, fl) ==
    IF fl.trunc THEN 0 ELSE IF size[f] = -1 THEN 0 ELSE size[f]
Opens(f, fl) == fl.trunc \/ fl.create \/ size[f] # -1

Init ==
    /\ fds = [i \in Fd |-> Free]
    /\ object = [h \in Handles |-> Null]
    /\ desc = [o \in Objects |-> Gone]
    /\ size = [f \in Files |-> -1]
    /\ ret = 0

\* A full table whose caller forgets the new handle.
InstallLeaks(h, o, fl) ==
    \/ \E i \in Fd :
          /\ IsFirst(i)
          /\ fds' = [fds EXCEPT ![i] = [handle |-> h, flags |-> fl, used |-> TRUE]]
          /\ object' = [object EXCEPT ![h] = o]
          /\ ret' = i
    \/ /\ Unused = {}
       /\ ret' = -24
       /\ object' = [object EXCEPT ![h] = o]
       /\ UNCHANGED fds

(* fd_alloc takes the first slot that is not used; where there is none,    *)
(* its callers close the new handle and answer EMFILE.                     *)
Install(h, o, fl) ==
    \/ \E i \in Fd :
          /\ IsFirst(i)
          /\ fds' = [fds EXCEPT ![i] = [handle |-> h, flags |-> fl, used |-> TRUE]]
          /\ object' = [object EXCEPT ![h] = o]
          /\ ret' = i
    \/ /\ Unused = {}
       /\ ret' = -24
       /\ UNCHANGED <<fds, object>>

OpenRefused == Answer(-22)         \* make_nt_path

Open(f, fl) ==
    \/ OpenRefused
    \/ KernelFails
    \/ \E h \in Handles, o \in Objects :
          /\ Opens(f, fl)
          /\ NewHandle(h) /\ NewObject(o)
          /\ size' = [size EXCEPT ![f] = SizeOpened(f, fl)]
          /\ desc' = IF Unused = {} THEN desc ELSE
                      [desc EXCEPT ![o] = [file |-> f, access |-> Access(fl), offset |-> 0]]
          /\ Install(h, o, fl)

\* A close that keeps the slot.
CloseKeepsSlot(fd) ==
    \/ FdHandle(fd) = Null /\ Answer(-9)
    \/ /\ FdHandle(fd) # Null
       /\ object' = [object EXCEPT ![FdHandle(fd)] = Null]
       /\ desc' = Living(object')
       /\ ret' = 0
       /\ UNCHANGED <<fds, size>>

Close(fd) ==
    \/ FdHandle(fd) = Null /\ Answer(-9)
    \/ /\ FdHandle(fd) # Null
       /\ object' = [object EXCEPT ![FdHandle(fd)] = Null]
       /\ desc' = Living(object')
       /\ fds' = [fds EXCEPT ![fd] = Free]
       /\ ret' = 0
       /\ UNCHANGED size

\* A dup whose new handle is an object of its own.
DupReopens(fd) ==
    \/ FdHandle(fd) = Null /\ Answer(-9)
    \/ FdHandle(fd) # Null /\ KernelFails
    \/ /\ FdHandle(fd) # Null
       /\ \E h \in Handles, o \in Objects :
             /\ NewHandle(h) /\ NewObject(o)
             /\ desc' = [desc EXCEPT ![o] = desc[object[FdHandle(fd)]]]
             /\ Install(h, o, fds[fd].flags)
       /\ UNCHANGED size

Dup(fd) ==
    \/ FdHandle(fd) = Null /\ Answer(-9)
    \/ FdHandle(fd) # Null /\ KernelFails
    \/ /\ FdHandle(fd) # Null
       /\ \E h \in Handles : NewHandle(h) /\ Install(h, object[FdHandle(fd)], fds[fd].flags)
       /\ UNCHANGED <<desc, size>>

(* The object moves to k and the call returns n.                           *)
Moved(o, k, n) ==
    /\ k <= MaxSize
    /\ desc' = [desc EXCEPT ![o].offset = k]
    /\ ret' = ToLong(n)
    /\ UNCHANGED <<fds, object>>

(* NtReadFile at the object's offset; the end of the file answers 0.       *)
Read(fd, n) ==
    \/ FdHandle(fd) = Null /\ Answer(-9)
    \/ FdHandle(fd) # Null /\ KernelFails
    \/ /\ FdHandle(fd) # Null
       /\ LET o == object[FdHandle(fd)]
              left == size[desc[o].file] - desc[o].offset
              m == IF left < n THEN left ELSE n
          IN /\ "read" \in desc[o].access
             /\ \/ left <= 0 /\ Answer(0)
                \/ left > 0 /\ Moved(o, desc[o].offset + m, m) /\ UNCHANGED size

(* NtWriteFile where the access makes it write.                            *)
Place(o) == IF "write" \in desc[o].access THEN desc[o].offset ELSE size[desc[o].file]

Write(fd, n) ==
    \/ FdHandle(fd) = Null /\ Answer(-9)
    \/ FdHandle(fd) # Null /\ KernelFails
    \/ /\ FdHandle(fd) # Null
       /\ LET o == object[FdHandle(fd)]
              end == Place(o) + n
          IN /\ desc[o].access \cap {"write", "append"} # {}
             /\ Moved(o, end, n)
             /\ size' = [size EXCEPT ![desc[o].file] = IF @ < end THEN end ELSE @]

(* Where lseek wants to go.                                                *)
Target(o, d, whence) ==
    CASE whence = "SEEK_SET" -> d
      [] whence = "SEEK_CUR" -> desc[o].offset + d
      [] whence = "SEEK_END" -> size[desc[o].file] + d

Whences == {"SEEK_SET", "SEEK_CUR", "SEEK_END"}

\* A seek that looks for a negative offset after it has moved.
LseekLateCheck(fd, d, whence) ==
    \/ FdHandle(fd) = Null /\ Answer(-9)
    \/ FdHandle(fd) # Null /\ KernelFails
    \/ /\ FdHandle(fd) # Null /\ whence \in Whences
       /\ LET o == object[FdHandle(fd)]
              k == Target(o, d, whence)
          IN \/ k < 0 /\ desc' = [desc EXCEPT ![o].offset = 0] /\ ret' = -22
                /\ UNCHANGED <<fds, object>>
             \/ k >= 0 /\ Moved(o, k, k)
       /\ UNCHANGED size

Lseek(fd, d, whence) ==
    \/ FdHandle(fd) = Null /\ Answer(-9)
    \/ FdHandle(fd) # Null /\ KernelFails
    \/ FdHandle(fd) # Null /\ whence \notin Whences /\ Answer(-22)
    \/ /\ FdHandle(fd) # Null /\ whence \in Whences
       /\ LET o == object[FdHandle(fd)]
              k == Target(o, d, whence)
          IN \/ k < 0 /\ Answer(-22)
             \/ k >= 0 /\ Moved(o, k, k) /\ UNCHANGED size

(* fstat answers EINVAL, not EBADF, where there is no descriptor.          *)
Fstat(fd) ==
    \/ FdHandle(fd) = Null /\ Answer(-22)
    \/ FdHandle(fd) # Null /\ (KernelFails \/ Answer(0))

(* nposix_exit, and the next process: the kernel closes the handles.       *)
Exit ==
    /\ fds' = [i \in Fd |-> Free]
    /\ object' = [h \in Handles |-> Null]
    /\ desc' = Living(object')
    /\ ret' = 0
    /\ UNCHANGED size

Next ==
    \/ \E f \in Files, fl \in OpenFlags : Open(f, fl)
    \/ \E fd \in FdArgs : Close(fd) \/ Dup(fd) \/ Fstat(fd)
    \/ \E fd \in FdArgs, n \in Counts : Read(fd, n) \/ Write(fd, n)
    \/ \E fd \in FdArgs, d \in Distances, whence \in Whences \cup {"other"} :
          Lseek(fd, d, whence)
    \/ Exit

Spec == Init /\ [][Next]_vars

(***************************************************************************)
(* Properties.                                                             *)
(***************************************************************************)
TypeOK ==
    /\ fds \in [Fd -> [handle : Handles \cup {Null}, flags : OpenFlags \cup {Null},
                       used : BOOLEAN]]
    /\ object \in [Handles -> Objects \cup {Null}]
    /\ desc \in [Objects -> [file : Files \cup {Null}, access : SUBSET {"read", "write", "append"},
                             offset : Offsets]]
    /\ size \in [Files -> {-1} \cup Offsets]
    /\ ret \in Int

OpenFds == {i \in Fd : fds[i].used}

(* Every open handle is in exactly one used slot, and every used slot has  *)
(* one: whatever calls fail, no handle is lost and none is closed twice.   *)
HandlesInTable ==
    /\ \A i \in OpenFds : fds[i].handle \in Handles /\ object[fds[i].handle] # Null
    /\ \A i, j \in OpenFds : fds[i].handle = fds[j].handle => i = j
    /\ \A h \in Handles : object[h] # Null => \E i \in OpenFds : fds[i].handle = h

(* A negative answer means that the call changed nothing, with two         *)
(* exceptions: the file of an open that then finds the table full may have *)
(* been created or emptied, and offsets beyond LongMax come back negative. *)
ErrorsChangeNothing ==
    [][ret' < 0 =>
         /\ UNCHANGED <<fds, object>>
         /\ size' = size \/ ret' = -24 \/ \E o \in Objects : desc'[o].offset > LongMax
         /\ \A h \in Handles : object[h] # Null =>
               desc'[object[h]] = desc[object[h]] \/ desc'[object[h]].offset > LongMax]_vars

(* The layer is the descriptor table of POSIX: lowest free descriptor,     *)
(* offsets shared by the duplicates of a descriptor and by nobody else,    *)
(* nothing taken by a call that fails.                                     *)
Table == INSTANCE Descriptors
         WITH Descriptions <- Objects,
              table <- [i \in OpenFds |-> object[fds[i].handle]],
              offset <- [o \in Objects |-> desc[o].offset]

ImplementsDescriptors == Table!Spec

=============================================================================
