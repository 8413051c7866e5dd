--------------------------- MODULE PosixFdProofs ----------------------------
(***************************************************************************)
(* Theorems about the descriptor layer, for every size of the table, every *)
(* set of handles, files and flags, and every width of `long`.             *)
(*                                                                         *)
(* FdInv is inductive: the handles and the slots are one to one            *)
(* (HandlesInTable), and the object of an open handle has a file that      *)
(* exists.                                                                 *)
(***************************************************************************)
EXTENDS PosixFd, TLAPS

FilesKnown ==
    \A h \in Handles : object[h] # Null =>
        desc[object[h]].file \in Files /\ size[desc[object[h]].file] \in Nat

FdInv == TypeOK /\ HandlesInTable /\ FilesKnown

(* A `long` holds every number up to LongMax, and the answer is a number.  *)
LEMMA LongAnswers ==
    \A n \in Nat : ToLong(n) \in Int /\ (n <= LongMax => ToLong(n) = n)
<1> SUFFICES ASSUME NEW n \in Nat
             PROVE  ToLong(n) \in Int /\ (n <= LongMax => ToLong(n) = n)
  OBVIOUS
<1> DEFINE w == 2 * (LongMax + 1)
           m == n + LongMax + 1
<1>1. w \in Nat \ {0} /\ m \in Nat /\ LongMax \in Nat
  BY FdAssumption
<1>2. m < w => m % w = m
  BY <1>1 DEF w, m
<1>3. m % w \in Int
  BY <1>1
<1>4. ToLong(n) = (m % w) - LongMax - 1
  BY DEF ToLong, w, m
<1>5. n <= LongMax => m < w /\ m - LongMax - 1 = n
  BY <1>1 DEF w, m
<1> HIDE DEF w, m
<1> QED
  BY <1>1, <1>2, <1>3, <1>4, <1>5

(* What FdHandle finds is the handle of a used slot.                       *)
LEMMA HandleFound ==
    ASSUME FdInv, NEW fd, FdHandle(fd) # Null
    PROVE  /\ fd \in OpenFds /\ fd \in Fd /\ FdHandle(fd) = fds[fd].handle
           /\ FdHandle(fd) \in Handles /\ object[FdHandle(fd)] \in Objects
           /\ fds[fd].flags \in OpenFlags \cup {Null}
<1>1. fd \in Fd /\ fds[fd].used /\ FdHandle(fd) = fds[fd].handle
  BY DEF FdHandle
<1>2. fd \in OpenFds
  BY <1>1 DEF OpenFds
<1> QED
  BY <1>1, <1>2 DEF FdInv, HandlesInTable, TypeOK

(* fd_alloc and the close of its callers keep slots and handles one to one *)
LEMMA InstallInv ==
    ASSUME FdInv, NEW h \in Handles, object[h] = Null, NEW o \in Objects,
           NEW fl \in OpenFlags \cup {Null}, Install(h, o, fl)
    PROVE  /\ fds' \in [Fd -> [handle : Handles \cup {Null}, flags : OpenFlags \cup {Null},
                               used : BOOLEAN]]
           /\ object' \in [Handles -> Objects \cup {Null}]
           /\ ret' \in Int
           /\ HandlesInTable'
<1>0. o # Null
  BY FdAssumption
<1>1. CASE ret' = -24 /\ UNCHANGED <<fds, object>>
  BY <1>1 DEF FdInv, TypeOK, HandlesInTable, OpenFds
<1>2. ASSUME NEW i \in Fd, IsFirst(i),
             fds' = [fds EXCEPT ![i] = [handle |-> h, flags |-> fl, used |-> TRUE]],
             object' = [object EXCEPT ![h] = o], ret' = i
      PROVE  /\ fds' \in [Fd -> [handle : Handles \cup {Null}, flags : OpenFlags \cup {Null},
                                 used : BOOLEAN]]
             /\ object' \in [Handles -> Objects \cup {Null}]
             /\ ret' \in Int
             /\ HandlesInTable'
  <2>1. /\ fds \in [Fd -> [handle : Handles \cup {Null}, flags : OpenFlags \cup {Null},
                           used : BOOLEAN]]
        /\ object \in [Handles -> Objects \cup {Null}]
    BY DEF FdInv, TypeOK
  <2>2. /\ fds' \in [Fd -> [handle : Handles \cup {Null}, flags : OpenFlags \cup {Null},
                            used : BOOLEAN]]
        /\ object' \in [Handles -> Objects \cup {Null}]
    BY <1>2, <2>1
  <2>3. i \in Int
    BY FdAssumption DEF Fd
  <2>4. i \notin OpenFds /\ OpenFds' = OpenFds \cup {i}
    BY <1>2, <2>1 DEF OpenFds, IsFirst, Unused
  <2>5. /\ fds'[i].handle = h /\ object'[h] = o
        /\ \A j \in OpenFds : fds'[j] = fds[j]
        /\ \A g \in Handles : g # h => object'[g] = object[g]
    BY <1>2, <2>1, <2>4 DEF OpenFds
  <2>6. \A j \in OpenFds : fds[j].handle # h
    BY DEF FdInv, HandlesInTable
  <2>7. HandlesInTable'
    BY <1>0, <2>4, <2>5, <2>6 DEF FdInv, HandlesInTable
  <2> QED
    BY <1>2, <2>2, <2>3, <2>7
<1> QED
  BY <1>1, <1>2 DEF Install

(* An empty table satisfies the invariant.                                 *)
LEMMA InitFdInv == Init => FdInv
<1> SUFFICES ASSUME Init PROVE FdInv
  OBVIOUS
<1>1. TypeOK
  BY FdAssumption DEF Init, TypeOK, Free, Gone, Offsets
<1>2. HandlesInTable /\ FilesKnown
  BY DEF Init, HandlesInTable, FilesKnown, OpenFds, Free
<1> QED
  BY <1>1, <1>2 DEF FdInv

(* A call that only answers keeps the invariant.                           *)
LEMMA AnswerInv == ASSUME FdInv, NEW n \in Int, Answer(n) PROVE FdInv'
  BY DEF Answer, FdInv, TypeOK, HandlesInTable, FilesKnown, OpenFds, kernel

(* A call that the kernel refuses keeps the invariant.                     *)
LEMMA KernelFailsInv == ASSUME FdInv, KernelFails PROVE FdInv'
  BY AnswerInv DEF KernelFails, Errnos

(* Open: the new object has a file, and every other object keeps its own.  *)
LEMMA OpenInv ==
    ASSUME FdInv, NEW f \in Files, NEW fl \in OpenFlags, Open(f, fl) PROVE FdInv'
<1>1. CASE OpenRefused \/ KernelFails
  BY <1>1, AnswerInv, KernelFailsInv DEF OpenRefused
<1>2. ASSUME NEW h \in Handles, NEW o \in Objects, NewHandle(h), NewObject(o),
             size' = [size EXCEPT ![f] = SizeOpened(f, fl)],
             desc' = IF Unused = {} THEN desc ELSE
                     [desc EXCEPT ![o] = [file |-> f, access |-> Access(fl), offset |-> 0]],
             Install(h, o, fl)
      PROVE  FdInv'
  <2>1. /\ fds' \in [Fd -> [handle : Handles \cup {Null}, flags : OpenFlags \cup {Null},
                            used : BOOLEAN]]
        /\ object' \in [Handles -> Objects \cup {Null}]
        /\ ret' \in Int
        /\ HandlesInTable'
    BY <1>2, InstallInv DEF NewHandle
  <2>2. size' \in [Files -> {-1} \cup Offsets]
    <3>1. SizeOpened(f, fl) \in Offsets
      BY FdAssumption DEF SizeOpened, Offsets, FdInv, TypeOK
    <3> QED
      BY <1>2, <3>1 DEF FdInv, TypeOK
  <2>3. Access(fl) \in SUBSET {"read", "write", "append"} /\ 0 \in Offsets
    BY FdAssumption DEF Access, Offsets
  <2>4. desc' \in [Objects -> [file : Files \cup {Null},
                              access : SUBSET {"read", "write", "append"}, offset : Offsets]]
    BY <1>2, <2>3 DEF FdInv, TypeOK
  <2>5. FilesKnown'
    <3> SUFFICES ASSUME NEW g \in Handles, object'[g] # Null
                 PROVE  /\ desc'[object'[g]].file \in Files
                        /\ size'[desc'[object'[g]].file] \in Nat
      BY DEF FilesKnown
    <3>0. \A e \in Files : size[e] \in Nat => size'[e] \in Nat
      BY <1>2, <2>2, FdAssumption DEF SizeOpened, FdInv, TypeOK
    <3>00. size'[f] \in Nat
      BY <1>2, FdAssumption DEF SizeOpened, FdInv, TypeOK, Offsets
    <3>1. CASE UNCHANGED object /\ Unused = {}
      BY <1>2, <3>0, <3>1 DEF FdInv, FilesKnown
    <3>2. CASE object' = [object EXCEPT ![h] = o] /\ Unused # {}
      <4>1. desc \in [Objects -> [file : Files \cup {Null},
                              access : SUBSET {"read", "write", "append"}, offset : Offsets]]
            /\ object \in [Handles -> Objects \cup {Null}]
        BY DEF FdInv, TypeOK
      <4>2. CASE g = h
        BY <1>2, <3>00, <3>2, <4>1, <4>2
      <4>3. CASE g # h
        BY <1>2, <3>0, <3>2, <4>1, <4>3 DEF NewObject, FdInv, FilesKnown
      <4> QED
        BY <4>2, <4>3
    <3> QED
      BY <1>2, <3>1, <3>2 DEF Install, IsFirst
  <2> QED
    BY <2>1, <2>2, <2>4, <2>5 DEF FdInv, TypeOK
<1> QED
  BY <1>1, <1>2 DEF Open

(* Close empties the slot and drops the only handle in it.                 *)
LEMMA CloseInv == ASSUME FdInv, NEW fd, Close(fd) PROVE FdInv'
<1>1. CASE Answer(-9)
  BY <1>1, AnswerInv
<1>2. CASE /\ FdHandle(fd) # Null
           /\ object' = [object EXCEPT ![FdHandle(fd)] = Null]
           /\ desc' = Living(object')
           /\ fds' = [fds EXCEPT ![fd] = Free]
           /\ ret' = 0
           /\ UNCHANGED size
  <2> DEFINE h == FdHandle(fd)
  <2>1. /\ fd \in OpenFds /\ fd \in Fd /\ h = fds[fd].handle /\ h \in Handles
    BY <1>2, HandleFound
  <2>2. /\ fds \in [Fd -> [handle : Handles \cup {Null}, flags : OpenFlags \cup {Null},
                           used : BOOLEAN]]
        /\ object \in [Handles -> Objects \cup {Null}]
        /\ desc \in [Objects -> [file : Files \cup {Null},
                                 access : SUBSET {"read", "write", "append"}, offset : Offsets]]
    BY DEF FdInv, TypeOK
  <2>3. /\ object' = [object EXCEPT ![h] = Null] /\ fds' = [fds EXCEPT ![fd] = Free]
        /\ desc' = Living(object') /\ size' = size /\ ret' = 0
    BY <1>2
  <2> HIDE DEF h
  <2>4. /\ object' \in [Handles -> Objects \cup {Null}]
        /\ fds' \in [Fd -> [handle : Handles \cup {Null}, flags : OpenFlags \cup {Null},
                            used : BOOLEAN]]
    BY <2>1, <2>2, <2>3 DEF Free
  <2>5. desc' \in [Objects -> [file : Files \cup {Null},
                              access : SUBSET {"read", "write", "append"}, offset : Offsets]]
    BY <2>2, <2>3, FdAssumption DEF Living, Gone, Offsets
  <2>6. OpenFds' = OpenFds \ {fd}
    BY <2>1, <2>2, <2>3 DEF OpenFds, Free
  <2>7. /\ \A j \in OpenFds' : fds'[j] = fds[j] /\ fds[j].handle # h
        /\ \A g \in Handles : object'[g] = IF g = h THEN Null ELSE object[g]
    BY <2>1, <2>2, <2>3, <2>6 DEF OpenFds, FdInv, HandlesInTable
  <2>8. HandlesInTable'
    BY <2>1, <2>6, <2>7 DEF FdInv, HandlesInTable
  <2>9. FilesKnown'
    BY <2>2, <2>3, <2>4, <2>7 DEF FdInv, FilesKnown, Living
  <2>10. size' \in [Files -> {-1} \cup Offsets] /\ ret' \in Int
    BY <2>3 DEF FdInv, TypeOK
  <2>11. TypeOK'
    BY <2>4, <2>5, <2>10 DEF TypeOK
  <2> QED
    BY <2>8, <2>9, <2>11 DEF FdInv
<1> QED
  BY <1>1, <1>2 DEF Close

(* A duplicate has a handle of its own to the same object.                 *)
LEMMA DupInv == ASSUME FdInv, NEW fd, Dup(fd) PROVE FdInv'
<1>1. CASE Answer(-9) \/ KernelFails
  BY <1>1, AnswerInv, KernelFailsInv
<1>2. ASSUME FdHandle(fd) # Null, UNCHANGED <<desc, size>>,
             NEW h \in Handles, NewHandle(h), Install(h, object[FdHandle(fd)], fds[fd].flags)
      PROVE  FdInv'
  <2> DEFINE o == object[FdHandle(fd)]
  <2>1. /\ fd \in Fd /\ FdHandle(fd) \in Handles /\ o \in Objects
        /\ fds[fd].flags \in OpenFlags \cup {Null}
    BY <1>2, HandleFound
  <2>2. /\ fds' \in [Fd -> [handle : Handles \cup {Null}, flags : OpenFlags \cup {Null},
                            used : BOOLEAN]]
        /\ object' \in [Handles -> Objects \cup {Null}]
        /\ ret' \in Int
        /\ HandlesInTable'
    BY <1>2, <2>1, InstallInv DEF NewHandle
  <2>3. \A g \in Handles : object'[g] \in {object[g], o}
    BY <1>2 DEF Install, FdInv, TypeOK
  <2>4. desc[o].file \in Files /\ size[desc[o].file] \in Nat
    BY <2>1, FdAssumption DEF FdInv, FilesKnown
  <2>5. FilesKnown'
    BY <1>2, <2>3, <2>4 DEF FdInv, FilesKnown
  <2> QED
    BY <1>2, <2>2, <2>5 DEF FdInv, TypeOK
<1> QED
  BY <1>1, <1>2 DEF Dup

(* Moving an object's offset, whatever happens to its file's size.         *)
LEMMA MovedInv ==
    ASSUME FdInv, NEW o \in Objects, NEW k \in Nat, NEW n \in Nat, Moved(o, k, n),
           size' \in [Files -> {-1} \cup Offsets],
           \A f \in Files : size[f] \in Nat => size'[f] \in Nat
    PROVE  FdInv'
<1>1. k \in Offsets /\ ret' \in Int /\ UNCHANGED <<fds, object>>
  BY LongAnswers, FdAssumption DEF Moved, Offsets
<1>2. desc \in [Objects -> [file : Files \cup {Null},
                            access : SUBSET {"read", "write", "append"}, offset : Offsets]]
  BY DEF FdInv, TypeOK
<1>3. /\ desc' \in [Objects -> [file : Files \cup {Null},
                               access : SUBSET {"read", "write", "append"}, offset : Offsets]]
      /\ \A p \in Objects : desc'[p].file = desc[p].file
  BY <1>1, <1>2 DEF Moved
<1>4. TypeOK'
  BY <1>1, <1>3 DEF FdInv, TypeOK
<1>5. HandlesInTable'
  BY <1>1 DEF FdInv, HandlesInTable, OpenFds
<1>6. FilesKnown'
  BY <1>1, <1>3 DEF FdInv, TypeOK, FilesKnown
<1> QED
  BY <1>4, <1>5, <1>6 DEF FdInv

(* The object of a descriptor in use: its file has a size, its offset is   *)
(* a number.                                                               *)
LEMMA ObjectFound ==
    ASSUME FdInv, NEW fd, FdHandle(fd) # Null
    PROVE  LET o == object[FdHandle(fd)]
           IN /\ o \in Objects /\ desc[o].file \in Files
              /\ desc[o].offset \in Nat /\ desc[o].offset \in Offsets
              /\ size[desc[o].file] \in Nat
<1>1. FdHandle(fd) \in Handles /\ object[FdHandle(fd)] \in Objects
  BY HandleFound
<1>2. object[FdHandle(fd)] # Null
  BY <1>1, FdAssumption
<1> DEFINE o == object[FdHandle(fd)]
<1>3. desc[o].file \in Files /\ desc[o].offset \in Offsets
  BY <1>1, <1>2 DEF FdInv, FilesKnown, TypeOK
<1>4. size[desc[o].file] \in Nat
  BY <1>1, <1>2 DEF FdInv, FilesKnown
<1> QED
  BY <1>1, <1>3, <1>4, FdAssumption DEF Offsets

(* Where lseek goes is a number that its check makes a natural one.        *)
LEMMA SeekTarget ==
    ASSUME NEW o, desc[o].offset \in Nat, size[desc[o].file] \in Nat, NEW d \in Int,
           NEW whence \in Whences, Target(o, d, whence) >= 0
    PROVE  Target(o, d, whence) \in Nat
<1>1. CASE whence = "SEEK_SET"
  BY <1>1 DEF Target
<1>2. CASE whence = "SEEK_CUR"
  BY <1>2 DEF Target
<1>3. CASE whence = "SEEK_END"
  BY <1>3 DEF Target
<1> QED
  BY <1>1, <1>2, <1>3 DEF Whences

(* A read moves the offset forward, not beyond the end of the file.        *)
LEMMA ReadInv == ASSUME FdInv, NEW fd, NEW n \in Counts, Read(fd, n) PROVE FdInv'
<1>1. CASE Answer(-9) \/ KernelFails \/ Answer(0)
  BY <1>1, AnswerInv, KernelFailsInv
<1> DEFINE o == object[FdHandle(fd)]
           left == size[desc[o].file] - desc[o].offset
           m == IF left < n THEN left ELSE n
<1>2. ASSUME FdHandle(fd) # Null, left > 0, Moved(o, desc[o].offset + m, m), UNCHANGED size
      PROVE  FdInv'
  <2>1. o \in Objects /\ desc[o].offset \in Nat /\ size[desc[o].file] \in Nat
    BY <1>2, ObjectFound
  <2>2. n \in Nat
    BY FdAssumption
  <2>3. left \in Int
    BY <2>1
  <2>4. m \in Nat
    <3> HIDE DEF left
    <3> QED
      BY <1>2, <2>2, <2>3
  <2>5. size' \in [Files -> {-1} \cup Offsets]
    BY <1>2 DEF FdInv, TypeOK
  <2> HIDE DEF o, m
  <2>6. desc[o].offset + m \in Nat
    BY <2>1, <2>4
  <2> QED
    BY <1>2, <2>1, <2>4, <2>5, <2>6, MovedInv
<1> QED
  BY <1>1, <1>2 DEF Read

(* A write moves the offset and may lengthen the file.                     *)
LEMMA WriteInv == ASSUME FdInv, NEW fd, NEW n \in Counts, Write(fd, n) PROVE FdInv'
<1>1. CASE Answer(-9) \/ KernelFails
  BY <1>1, AnswerInv, KernelFailsInv
<1> DEFINE o == object[FdHandle(fd)]
           end == Place(o) + n
<1>2. ASSUME FdHandle(fd) # Null, Moved(o, end, n),
             size' = [size EXCEPT ![desc[o].file] = IF @ < end THEN end ELSE @]
      PROVE  FdInv'
  <2>1. /\ o \in Objects /\ desc[o].offset \in Nat /\ desc[o].file \in Files
        /\ size[desc[o].file] \in Nat
    BY <1>2, ObjectFound
  <2>2. n \in Nat /\ n >= 1
    BY FdAssumption
  <2>3. Place(o) \in Nat
    <3> HIDE DEF o
    <3> QED
      BY <2>1 DEF Place
  <2>4. end \in Nat /\ end \in Offsets
    BY <1>2, <2>2, <2>3, FdAssumption DEF Moved, Offsets
  <2>5. size' \in [Files -> {-1} \cup Offsets]
    <3> HIDE DEF o, end
    <3> QED
      BY <1>2, <2>1, <2>4 DEF FdInv, TypeOK
  <2>6. \A f \in Files : size[f] \in Nat => size'[f] \in Nat
    <3> HIDE DEF o, end
    <3> QED
      BY <1>2, <2>1, <2>4 DEF FdInv, TypeOK
  <2> HIDE DEF o, end
  <2> QED
    BY <1>2, <2>1, <2>2, <2>4, <2>5, <2>6, MovedInv
<1> QED
  BY <1>1, <1>2 DEF Write

(* A seek moves the offset to a natural number or nowhere.                 *)
LEMMA LseekInv ==
    ASSUME FdInv, NEW fd, NEW d \in Distances, NEW whence, Lseek(fd, d, whence) PROVE FdInv'
<1>1. CASE Answer(-9) \/ KernelFails \/ Answer(-22)
  BY <1>1, AnswerInv, KernelFailsInv
<1> DEFINE o == object[FdHandle(fd)]
           k == Target(o, d, whence)
<1>2. ASSUME FdHandle(fd) # Null, whence \in Whences, k >= 0, Moved(o, k, k), UNCHANGED size
      PROVE  FdInv'
  <2>1. o \in Objects /\ desc[o].offset \in Nat /\ size[desc[o].file] \in Nat
    BY <1>2, ObjectFound
  <2>2. d \in Int
    BY FdAssumption
  <2>3. k \in Nat
    <3> HIDE DEF o
    <3> QED
      BY <1>2, <2>1, <2>2, SeekTarget
  <2>4. size' \in [Files -> {-1} \cup Offsets]
    BY <1>2 DEF FdInv, TypeOK
  <2> HIDE DEF o, k
  <2> QED
    BY <1>2, <2>1, <2>3, <2>4, MovedInv
<1> QED
  BY <1>1, <1>2 DEF Lseek

(* The end of the process leaves an empty table and no handle.             *)
LEMMA ExitInv == ASSUME FdInv, Exit PROVE FdInv'
<1>1. TypeOK'
  BY FdAssumption DEF FdInv, TypeOK, Exit, Free, Living, Gone, Offsets
<1>2. HandlesInTable' /\ FilesKnown'
  BY DEF Exit, HandlesInTable, FilesKnown, OpenFds, Free
<1> QED
  BY <1>1, <1>2 DEF FdInv

(* Every step of the layer keeps the invariant.                            *)
LEMMA NextFdInv == ASSUME FdInv, [Next]_vars PROVE FdInv'
<1>1. CASE UNCHANGED vars
  BY <1>1 DEF vars, kernel, FdInv, TypeOK, HandlesInTable, FilesKnown, OpenFds
<1>2. ASSUME NEW f \in Files, NEW fl \in OpenFlags, Open(f, fl) PROVE FdInv'
  BY <1>2, OpenInv
<1>3. ASSUME NEW fd \in FdArgs, Close(fd) \/ Dup(fd) PROVE FdInv'
  BY <1>3, CloseInv, DupInv
<1>4. ASSUME NEW fd \in FdArgs, Fstat(fd) PROVE FdInv'
  BY <1>4, AnswerInv, KernelFailsInv DEF Fstat
<1>5. ASSUME NEW fd \in FdArgs, NEW n \in Counts, Read(fd, n) \/ Write(fd, n) PROVE FdInv'
  BY <1>5, ReadInv, WriteInv
<1>6. ASSUME NEW fd \in FdArgs, NEW d \in Distances, NEW whence, Lseek(fd, d, whence)
      PROVE  FdInv'
  BY <1>6, LseekInv
<1>7. CASE Exit
  BY <1>7, ExitInv
<1> QED
  BY <1>1, <1>2, <1>3, <1>4, <1>5, <1>6, <1>7 DEF Next

(* The inductive invariant of the descriptor layer.                        *)
THEOREM FdInvariant == Spec => []FdInv
<1>1. FdInv /\ [Next]_vars => FdInv'
  BY NextFdInv
<1> QED
  BY InitFdInv, <1>1, PTL DEF Spec

(* Types, and the wrapped answers of lseek, read and write.                *)
THEOREM FdTypeCorrect == Spec => []TypeOK
<1>1. FdInv => TypeOK
  BY DEF FdInv
<1> QED
  BY <1>1, FdInvariant, PTL

(* No handle is lost and none is closed twice, however calls fail: slots   *)
(* in use and open handles are one to one.                                 *)
THEOREM FdHandlesInTable == Spec => []HandlesInTable
<1>1. FdInv => HandlesInTable
  BY DEF FdInv
<1> QED
  BY <1>1, FdInvariant, PTL

(***************************************************************************)
(* The table of POSIX.  Table!vars is <<Entries, Places>>.                 *)
(***************************************************************************)
Entries == [i \in OpenFds |-> object[fds[i].handle]]
Places == [o \in Objects |-> desc[o].offset]

LivingNamed ==
    \A o \in Objects :
        (\E h \in Handles : object[h] = o) <=> (\E i \in OpenFds : Entries[i] = o)

(* The objects that live are those that some descriptor names.             *)
LEMMA LivingAreNamed == FdInv => LivingNamed
  BY FdAssumption DEF FdInv, HandlesInTable, Entries, LivingNamed

(* Closing and leaving: what is still named keeps its place.               *)
LEMMA LivingPlaces ==
    ASSUME FdInv, FdInv', desc' = Living(object')
    PROVE  Places' = [o \in Objects |->
                        IF \E i \in DOMAIN Entries' : Entries'[i] = o THEN Places[o] ELSE 0]
<1>1. \A o \in Objects :
        (\E h \in Handles : object'[h] = o) <=> (\E i \in OpenFds' : Entries'[i] = o)
  <2>1. FdInv' => LivingNamed'
    BY LivingAreNamed, PTL
  <2> QED
    BY <2>1 DEF LivingNamed
<1>2. DOMAIN Entries' = OpenFds'
  BY DEF Entries
<1>3. \A o \in Objects :
        desc'[o].offset = IF \E h \in Handles : object'[h] = o THEN desc[o].offset ELSE 0
  BY DEF Living, Gone
<1> QED
  BY <1>1, <1>2, <1>3 DEF Places

(* A new entry is the lowest that is free.                                 *)
LEMMA InstallEntry ==
    ASSUME FdInv, NEW h \in Handles, object[h] = Null, NEW o \in Objects,
           NEW fl \in OpenFlags \cup {Null}, NEW i \in Fd, IsFirst(i),
           fds' = [fds EXCEPT ![i] = [handle |-> h, flags |-> fl, used |-> TRUE]],
           object' = [object EXCEPT ![h] = o]
    PROVE  /\ i \in 0 .. MaxFds - 1 /\ i \notin DOMAIN Entries
           /\ \A j \in 0 .. i - 1 : j \in DOMAIN Entries
           /\ Entries' = [j \in DOMAIN Entries \cup {i} |-> IF j = i THEN o ELSE Entries[j]]
<1>1. fds \in [Fd -> [handle : Handles \cup {Null}, flags : OpenFlags \cup {Null},
                     used : BOOLEAN]]
      /\ object \in [Handles -> Objects \cup {Null}]
  BY DEF FdInv, TypeOK
<1>2. DOMAIN Entries = OpenFds
  BY DEF Entries
<1>3. i \notin OpenFds /\ OpenFds' = OpenFds \cup {i}
  BY <1>1 DEF OpenFds, IsFirst, Unused
<1>4. \A j \in OpenFds : fds'[j] = fds[j] /\ fds[j].handle \in Handles /\ fds[j].handle # h
  BY <1>1, <1>3 DEF OpenFds, FdInv, HandlesInTable
<1>5. \A j \in OpenFds : object'[fds'[j].handle] = Entries[j]
  BY <1>1, <1>4 DEF Entries
<1>6. object'[fds'[i].handle] = o
  BY <1>1
<1>7. Entries' = [j \in OpenFds' |-> object'[fds'[j].handle]]
  BY DEF Entries
<1>8. Entries' = [j \in DOMAIN Entries \cup {i} |-> IF j = i THEN o ELSE Entries[j]]
  BY <1>2, <1>3, <1>5, <1>6, <1>7
<1>9. \A j \in 0 .. i - 1 : j \in OpenFds
  BY FdAssumption DEF IsFirst, Unused, OpenFds, Fd
<1> QED
  BY <1>2, <1>3, <1>8, <1>9 DEF Fd

(* An answer alone is a stutter of the abstract table.                     *)
LEMMA AnswerStutters ==
    ASSUME NEW n, Answer(n) PROVE UNCHANGED <<Entries, Places>>
  BY DEF Answer, kernel, Entries, Places, OpenFds

(* A call that the kernel refuses is a stutter.                            *)
LEMMA KernelFailsStutters == ASSUME KernelFails PROVE UNCHANGED <<Entries, Places>>
  BY AnswerStutters DEF KernelFails

(* Open is an open, or a stutter where it fails.                           *)
LEMMA OpenRefines ==
    ASSUME FdInv, NEW f \in Files, NEW fl \in OpenFlags, Open(f, fl)
    PROVE  [Table!Next]_(Table!vars)
<1>1. CASE OpenRefused \/ KernelFails
  BY <1>1, AnswerStutters, KernelFailsStutters DEF OpenRefused, Table!vars, Entries, Places
<1>2. ASSUME NEW h \in Handles, NEW o \in Objects, NewHandle(h), NewObject(o),
             desc' = IF Unused = {} THEN desc ELSE
                     [desc EXCEPT ![o] = [file |-> f, access |-> Access(fl), offset |-> 0]],
             Install(h, o, fl)
      PROVE  [Table!Next]_(Table!vars)
  <2>1. CASE Unused = {} /\ UNCHANGED <<fds, object>>
    <3>1. UNCHANGED <<Entries, Places>>
      BY <1>2, <2>1 DEF Entries, Places, OpenFds
    <3> QED
      BY <3>1 DEF Table!vars, Entries, Places
  <2>2. ASSUME NEW i \in Fd, IsFirst(i),
               fds' = [fds EXCEPT ![i] = [handle |-> h, flags |-> fl, used |-> TRUE]],
               object' = [object EXCEPT ![h] = o]
        PROVE  [Table!Next]_(Table!vars)
    <3>1. /\ i \in 0 .. MaxFds - 1 /\ i \notin DOMAIN Entries
          /\ \A j \in 0 .. i - 1 : j \in DOMAIN Entries
          /\ Entries' = [j \in DOMAIN Entries \cup {i} |-> IF j = i THEN o ELSE Entries[j]]
      BY <1>2, <2>2, InstallEntry DEF NewHandle
    <3>2. o \notin {Entries[j] : j \in DOMAIN Entries}
      BY <1>2 DEF NewObject, Entries, FdInv, HandlesInTable
    <3>3. Places' = [Places EXCEPT ![o] = 0]
      <4>1. desc' = [desc EXCEPT ![o] = [file |-> f, access |-> Access(fl), offset |-> 0]]
        BY <1>2, <2>2 DEF IsFirst
      <4> QED
        BY <4>1 DEF Places, FdInv, TypeOK
    <3>4. Table!Open(i, o)
      BY <3>1, <3>2, <3>3
         DEF Table!Open, Table!IsLowest, Table!InUse, Table!WithEntry, Entries, Places
    <3> QED
      BY <3>1, <3>4 DEF Table!Next
  <2> QED
    BY <1>2, <2>1, <2>2 DEF Install
<1> QED
  BY <1>1, <1>2 DEF Open

(* Dup is a dup, or a stutter where it fails.                              *)
LEMMA DupRefines ==
    ASSUME FdInv, NEW fd, Dup(fd) PROVE [Table!Next]_(Table!vars)
<1>1. CASE Answer(-9) \/ KernelFails
  BY <1>1, AnswerStutters, KernelFailsStutters DEF Table!vars, Entries, Places
<1>2. ASSUME FdHandle(fd) # Null, UNCHANGED <<desc, size>>,
             NEW h \in Handles, NewHandle(h), Install(h, object[FdHandle(fd)], fds[fd].flags)
      PROVE  [Table!Next]_(Table!vars)
  <2> DEFINE o == object[FdHandle(fd)]
             fl == fds[fd].flags
  <2>1. /\ fd \in OpenFds /\ o \in Objects /\ fds[fd].flags \in OpenFlags \cup {Null}
        /\ o = Entries[fd] /\ fd \in DOMAIN Entries
    BY <1>2, HandleFound DEF Entries
  <2>2. Places' = Places
    BY <1>2 DEF Places
  <2>3. CASE UNCHANGED <<fds, object>>
    BY <2>2, <2>3 DEF Table!vars, Entries, Places, OpenFds
  <2>4. ASSUME NEW i \in Fd, IsFirst(i),
               fds' = [fds EXCEPT ![i] = [handle |-> h, flags |-> fl, used |-> TRUE]],
               object' = [object EXCEPT ![h] = o]
        PROVE  [Table!Next]_(Table!vars)
    <3>0. /\ object[h] = Null /\ o \in Objects /\ fl \in OpenFlags \cup {Null}
          /\ fds' = [fds EXCEPT ![i] = [handle |-> h, flags |-> fl, used |-> TRUE]]
          /\ object' = [object EXCEPT ![h] = o]
      BY <1>2, <2>1, <2>4 DEF NewHandle
    <3> HIDE DEF o, fl
    <3>1. /\ i \in 0 .. MaxFds - 1 /\ i \notin DOMAIN Entries
          /\ \A j \in 0 .. i - 1 : j \in DOMAIN Entries
          /\ Entries' = [j \in DOMAIN Entries \cup {i} |-> IF j = i THEN o ELSE Entries[j]]
      BY <2>4, <3>0, InstallEntry
    <3>2. Table!Dup(fd, i)
      BY <2>1, <2>2, <3>1 DEF Table!Dup, Table!IsLowest, Table!WithEntry, Entries, Places
    <3> QED
      BY <2>1, <3>1, <3>2 DEF Table!Next, Entries
  <2> QED
    BY <1>2, <2>3, <2>4 DEF Install
<1> QED
  BY <1>1, <1>2 DEF Dup

(* Close is a close, or a stutter for a bad descriptor.                    *)
LEMMA CloseRefines ==
    ASSUME FdInv, FdInv', NEW fd, Close(fd) PROVE [Table!Next]_(Table!vars)
<1>1. CASE Answer(-9)
  BY <1>1, AnswerStutters DEF Table!vars, Entries, Places
<1>2. CASE /\ FdHandle(fd) # Null
           /\ object' = [object EXCEPT ![FdHandle(fd)] = Null]
           /\ desc' = Living(object')
           /\ fds' = [fds EXCEPT ![fd] = Free]
           /\ ret' = 0
           /\ UNCHANGED size
  <2> DEFINE h == FdHandle(fd)
  <2>1. /\ fd \in OpenFds /\ fd \in Fd /\ h = fds[fd].handle /\ h \in Handles
    BY <1>2, HandleFound
  <2>2. /\ fds \in [Fd -> [handle : Handles \cup {Null}, flags : OpenFlags \cup {Null},
                           used : BOOLEAN]]
        /\ object \in [Handles -> Objects \cup {Null}]
    BY DEF FdInv, TypeOK
  <2>3. /\ object' = [object EXCEPT ![h] = Null] /\ fds' = [fds EXCEPT ![fd] = Free]
        /\ desc' = Living(object')
    BY <1>2
  <2> HIDE DEF h
  <2>4. OpenFds' = OpenFds \ {fd}
    BY <2>1, <2>2, <2>3 DEF OpenFds, Free
  <2>5. \A j \in OpenFds' : fds'[j] = fds[j] /\ fds[j].handle # h /\ fds[j].handle \in Handles
    BY <2>1, <2>2, <2>3, <2>4 DEF OpenFds, FdInv, HandlesInTable
  <2>6. \A j \in OpenFds' : object'[fds'[j].handle] = Entries[j]
    BY <2>2, <2>3, <2>4, <2>5 DEF Entries
  <2>7. Entries' = [j \in DOMAIN Entries \ {fd} |-> Entries[j]]
    BY <2>4, <2>6 DEF Entries
  <2>8. Places' = [o \in Objects |->
                     IF \E i \in DOMAIN Entries' : Entries'[i] = o THEN Places[o] ELSE 0]
    BY <2>3, LivingPlaces
  <2>9. Table!Close(fd) /\ fd \in DOMAIN Entries
    BY <2>1, <2>7, <2>8 DEF Table!Close, Table!Named, Entries, Places
  <2> QED
    BY <2>9 DEF Table!Next, Entries
<1> QED
  BY <1>1, <1>2 DEF Close

(* Reads, writes and seeks are moves of one description.                   *)
LEMMA MovedRefines ==
    ASSUME FdInv, NEW fd, FdHandle(fd) # Null, NEW k \in Nat, NEW n,
           Moved(object[FdHandle(fd)], k, n)
    PROVE  [Table!Next]_(Table!vars)
<1>1. /\ fd \in OpenFds /\ object[FdHandle(fd)] \in Objects
      /\ object[FdHandle(fd)] = Entries[fd] /\ fd \in DOMAIN Entries
  BY HandleFound DEF Entries
<1>2. k \in Offsets
  BY FdAssumption DEF Moved, Offsets
<1>3. Entries' = Entries
  BY DEF Moved, Entries, OpenFds
<1>4. Places' = [Places EXCEPT ![Entries[fd]] = k]
  BY <1>1 DEF Moved, Places, FdInv, TypeOK
<1>5. Table!Move(fd, k)
  BY <1>3, <1>4 DEF Table!Move, Entries, Places
<1> QED
  BY <1>1, <1>2, <1>5 DEF Table!Next, Entries

(* A read is a move of its description.                                    *)
LEMMA ReadRefines ==
    ASSUME FdInv, NEW fd, NEW n \in Counts, Read(fd, n) PROVE [Table!Next]_(Table!vars)
<1>1. CASE Answer(-9) \/ KernelFails \/ Answer(0)
  BY <1>1, AnswerStutters, KernelFailsStutters DEF Table!vars, Entries, Places
<1> DEFINE o == object[FdHandle(fd)]
           left == size[desc[o].file] - desc[o].offset
           m == IF left < n THEN left ELSE n
<1>2. ASSUME FdHandle(fd) # Null, left > 0, Moved(o, desc[o].offset + m, m)
      PROVE  [Table!Next]_(Table!vars)
  <2>1. desc[o].offset \in Nat /\ size[desc[o].file] \in Nat /\ n \in Nat
    BY <1>2, ObjectFound, FdAssumption
  <2>2. left \in Int
    BY <2>1
  <2>3. m \in Nat
    <3> HIDE DEF left
    <3> QED
      BY <1>2, <2>1, <2>2
  <2> HIDE DEF m
  <2>4. desc[o].offset + m \in Nat
    BY <2>1, <2>3
  <2> QED
    BY <1>2, <2>4, MovedRefines
<1> QED
  BY <1>1, <1>2 DEF Read

(* A write is a move of its description.                                   *)
LEMMA WriteRefines ==
    ASSUME FdInv, NEW fd, NEW n \in Counts, Write(fd, n) PROVE [Table!Next]_(Table!vars)
<1>1. CASE Answer(-9) \/ KernelFails
  BY <1>1, AnswerStutters, KernelFailsStutters DEF Table!vars, Entries, Places
<1> DEFINE o == object[FdHandle(fd)]
           end == Place(o) + n
<1>2. ASSUME FdHandle(fd) # Null, Moved(o, end, n)
      PROVE  [Table!Next]_(Table!vars)
  <2>1. /\ desc[o].offset \in Nat /\ n \in Nat /\ n >= 1
        /\ size[desc[o].file] \in Nat
    BY <1>2, ObjectFound, FdAssumption
  <2>2. end \in Nat
    <3> HIDE DEF o
    <3> QED
      BY <2>1 DEF Place
  <2> HIDE DEF end
  <2> QED
    BY <1>2, <2>2, MovedRefines
<1> QED
  BY <1>1, <1>2 DEF Write

(* A seek is a move of its description.                                    *)
LEMMA LseekRefines ==
    ASSUME FdInv, NEW fd, NEW d \in Distances, NEW whence, Lseek(fd, d, whence)
    PROVE  [Table!Next]_(Table!vars)
<1>1. CASE Answer(-9) \/ KernelFails \/ Answer(-22)
  BY <1>1, AnswerStutters, KernelFailsStutters DEF Table!vars, Entries, Places
<1> DEFINE o == object[FdHandle(fd)]
           k == Target(o, d, whence)
<1>2. ASSUME FdHandle(fd) # Null, whence \in Whences, k >= 0, Moved(o, k, k)
      PROVE  [Table!Next]_(Table!vars)
  <2>1. desc[o].offset \in Nat /\ size[desc[o].file] \in Nat /\ d \in Int
    BY <1>2, ObjectFound, FdAssumption
  <2>2. k \in Nat
    <3> HIDE DEF o
    <3> QED
      BY <1>2, <2>1, SeekTarget
  <2> HIDE DEF k
  <2> QED
    BY <1>2, <2>2, MovedRefines
<1> QED
  BY <1>1, <1>2 DEF Lseek

(* The end of the process closes every descriptor.                         *)
LEMMA ExitRefines == ASSUME FdInv, FdInv', Exit PROVE [Table!Next]_(Table!vars)
<1>1. OpenFds' = {}
  BY DEF Exit, OpenFds, Free
<1>2. Entries' = [fd \in {} |-> 0]
  BY <1>1 DEF Entries
<1>3. Places' = [o \in Objects |->
                   IF \E i \in DOMAIN Entries' : Entries'[i] = o THEN Places[o] ELSE 0]
  BY LivingPlaces DEF Exit
<1>4. Table!Exit
  BY <1>2, <1>3 DEF Table!Exit, Table!Named, Entries, Places
<1> QED
  BY <1>4 DEF Table!Next

(* The tables start empty.                                                 *)
LEMMA InitRefines == Init => Table!Init
<1> SUFFICES ASSUME Init PROVE Table!Init
  OBVIOUS
<1>1. Entries = [fd \in {} |-> 0]
  BY DEF Init, Entries, OpenFds, Free
<1>2. Places = [o \in Objects |-> 0]
  BY DEF Init, Places, Gone
<1> QED
  BY <1>1, <1>2 DEF Table!Init, Entries, Places

(* Every step of the layer is a step of the abstract table or a stutter.   *)
LEMMA NextRefines == ASSUME FdInv, FdInv', [Next]_vars PROVE [Table!Next]_(Table!vars)
<1>1. CASE UNCHANGED vars
  BY <1>1 DEF vars, kernel, Table!vars, OpenFds
<1>2. ASSUME NEW f \in Files, NEW fl \in OpenFlags, Open(f, fl)
      PROVE  [Table!Next]_(Table!vars)
  BY <1>2, OpenRefines
<1>3. ASSUME NEW fd \in FdArgs, Close(fd) \/ Dup(fd) PROVE [Table!Next]_(Table!vars)
  BY <1>3, CloseRefines, DupRefines
<1>4. ASSUME NEW fd \in FdArgs, Fstat(fd) PROVE [Table!Next]_(Table!vars)
  BY <1>4, AnswerStutters, KernelFailsStutters DEF Fstat, Table!vars, Entries, Places
<1>5. ASSUME NEW fd \in FdArgs, NEW n \in Counts, Read(fd, n) \/ Write(fd, n)
      PROVE  [Table!Next]_(Table!vars)
  BY <1>5, ReadRefines, WriteRefines
<1>6. ASSUME NEW fd \in FdArgs, NEW d \in Distances, NEW whence, Lseek(fd, d, whence)
      PROVE  [Table!Next]_(Table!vars)
  BY <1>6, LseekRefines
<1>7. CASE Exit
  BY <1>7, ExitRefines
<1> QED
  BY <1>1, <1>2, <1>3, <1>4, <1>5, <1>6, <1>7 DEF Next

(* The slots over kernel handles are the descriptor table of POSIX.        *)
THEOREM FdIsPosixTable == Spec => ImplementsDescriptors
<1>1. FdInv /\ FdInv' /\ [Next]_vars => [Table!Next]_(Table!vars)
  BY NextRefines
<1> QED
  BY InitRefines, <1>1, FdInvariant, PTL DEF Spec, ImplementsDescriptors, Table!Spec

(***************************************************************************)
(* Negative answers.                                                       *)
(***************************************************************************)
ErrorStep ==
    ret' < 0 =>
        /\ UNCHANGED <<fds, object>>
        /\ size' = size \/ ret' = -24 \/ \E o \in Objects : desc'[o].offset > LongMax
        /\ \A h \in Handles : object[h] # Null =>
              desc'[object[h]] = desc[object[h]] \/ desc'[object[h]].offset > LongMax

(* A call that only answers changes nothing else.                          *)
LEMMA AnswerErrors == ASSUME NEW n, Answer(n) PROVE ErrorStep
  BY DEF Answer, kernel, ErrorStep

(* A call that the kernel refuses changes nothing else.                    *)
LEMMA KernelErrors == ASSUME KernelFails PROVE ErrorStep
  BY AnswerErrors DEF KernelFails

(* An answer that is not the number itself tells of a place beyond LongMax *)
LEMMA MovedErrors ==
    ASSUME FdInv, NEW o \in Objects, NEW k \in Nat, NEW n \in Nat, n <= k, Moved(o, k, n)
    PROVE  ErrorStep
<1> SUFFICES ASSUME ret' < 0
             PROVE  /\ UNCHANGED <<fds, object>> /\ desc'[o].offset > LongMax
                    /\ \A p \in Objects : p # o => desc'[p] = desc[p]
  BY DEF ErrorStep, FdInv, TypeOK
<1>1. n > LongMax
  BY LongAnswers, FdAssumption DEF Moved
<1>2. k > LongMax
  BY <1>1, FdAssumption
<1> QED
  BY <1>2 DEF Moved, FdInv, TypeOK

(* No step answers with an error and changes what it should not.           *)
LEMMA NextErrors == ASSUME FdInv, Next PROVE ErrorStep
<1>1. ASSUME NEW f \in Files, NEW fl \in OpenFlags, Open(f, fl) PROVE ErrorStep
  <2>1. CASE OpenRefused \/ KernelFails
    BY <2>1, AnswerErrors, KernelErrors DEF OpenRefused
  <2>2. ASSUME NEW h \in Handles, NEW o \in Objects, Install(h, o, fl),
               desc' = IF Unused = {} THEN desc ELSE
                     [desc EXCEPT ![o] = [file |-> f, access |-> Access(fl), offset |-> 0]]
        PROVE  ErrorStep
    BY <2>2, FdAssumption DEF Install, ErrorStep, Fd
  <2> QED
    BY <1>1, <2>1, <2>2 DEF Open
<1>2. ASSUME NEW fd, Close(fd) PROVE ErrorStep
  BY <1>2, AnswerErrors DEF Close, ErrorStep
<1>3. ASSUME NEW fd, Dup(fd) PROVE ErrorStep
  <2>1. CASE Answer(-9) \/ KernelFails
    BY <2>1, AnswerErrors, KernelErrors
  <2>2. ASSUME NEW h, NEW o, NEW fl, Install(h, o, fl), UNCHANGED <<desc, size>>
        PROVE  ErrorStep
    BY <2>2, FdAssumption DEF Install, ErrorStep, Fd
  <2> QED
    BY <1>3, <2>1, <2>2 DEF Dup
<1>4. ASSUME NEW fd, Fstat(fd) PROVE ErrorStep
  BY <1>4, AnswerErrors, KernelErrors DEF Fstat
<1>5. ASSUME NEW fd, NEW n \in Counts, Read(fd, n) PROVE ErrorStep
  <2> DEFINE o == object[FdHandle(fd)]
             left == size[desc[o].file] - desc[o].offset
             m == IF left < n THEN left ELSE n
  <2>1. CASE Answer(-9) \/ KernelFails \/ Answer(0)
    BY <2>1, AnswerErrors, KernelErrors
  <2>2. ASSUME FdHandle(fd) # Null, left > 0, Moved(o, desc[o].offset + m, m) PROVE ErrorStep
    <3>1. o \in Objects /\ desc[o].offset \in Nat /\ size[desc[o].file] \in Nat /\ n \in Nat
      BY <2>2, ObjectFound, FdAssumption
    <3>2. left \in Int
      BY <3>1
    <3>3. m \in Nat
      <4> HIDE DEF left
      <4> QED
        BY <2>2, <3>1, <3>2
    <3> HIDE DEF o, m
    <3>4. desc[o].offset + m \in Nat /\ m <= desc[o].offset + m
      BY <3>1, <3>3
    <3> QED
      BY <2>2, <3>1, <3>3, <3>4, MovedErrors
  <2> QED
    BY <1>5, <2>1, <2>2 DEF Read
<1>6. ASSUME NEW fd, NEW n \in Counts, Write(fd, n) PROVE ErrorStep
  <2> DEFINE o == object[FdHandle(fd)]
             end == Place(o) + n
  <2>1. CASE Answer(-9) \/ KernelFails
    BY <2>1, AnswerErrors, KernelErrors
  <2>2. ASSUME FdHandle(fd) # Null, Moved(o, end, n) PROVE ErrorStep
    <3>1. o \in Objects /\ desc[o].offset \in Nat /\ size[desc[o].file] \in Nat /\ n \in Nat
      BY <2>2, ObjectFound, FdAssumption
    <3> HIDE DEF o
    <3>2. end \in Nat /\ n <= end
      BY <3>1 DEF Place
    <3> HIDE DEF end
    <3> QED
      BY <2>2, <3>1, <3>2, MovedErrors
  <2> QED
    BY <1>6, <2>1, <2>2 DEF Write
<1>7. ASSUME NEW fd, NEW d \in Distances, NEW whence, Lseek(fd, d, whence) PROVE ErrorStep
  <2> DEFINE o == object[FdHandle(fd)]
             k == Target(o, d, whence)
  <2>1. CASE Answer(-9) \/ KernelFails \/ Answer(-22)
    BY <2>1, AnswerErrors, KernelErrors
  <2>2. ASSUME FdHandle(fd) # Null, whence \in Whences, k >= 0, Moved(o, k, k) PROVE ErrorStep
    <3>1. /\ o \in Objects /\ desc[o].offset \in Nat /\ size[desc[o].file] \in Nat
          /\ d \in Int
      BY <2>2, ObjectFound, FdAssumption
    <3>2. k \in Nat
      BY <2>2, <3>1, SeekTarget
    <3> HIDE DEF o, k
    <3> QED
      BY <2>2, <3>1, <3>2, MovedErrors
  <2> QED
    BY <1>7, <2>1, <2>2 DEF Lseek
<1>8. CASE Exit
  BY <1>8 DEF Exit, ErrorStep
<1> QED
  BY <1>1, <1>2, <1>3, <1>4, <1>5, <1>6, <1>7, <1>8 DEF Next

(* Whoever gets a negative answer finds handles, files and offsets as they *)
(* were, but for the two exceptions that ErrorsChangeNothing names.        *)
THEOREM FdErrors == Spec => ErrorsChangeNothing
<1>1. FdInv /\ [Next]_vars => [ErrorStep]_vars
  BY NextErrors
<1>2. [ErrorStep]_vars =>
        [ret' < 0 =>
          /\ UNCHANGED <<fds, object>>
          /\ size' = size \/ ret' = -24 \/ \E o \in Objects : desc'[o].offset > LongMax
          /\ \A h \in Handles : object[h] # Null =>
                desc'[object[h]] = desc[object[h]] \/ desc'[object[h]].offset > LongMax]_vars
  BY DEF ErrorStep
<1> QED
  BY <1>1, <1>2, FdInvariant, PTL DEF Spec, ErrorsChangeNothing
=============================================================================
