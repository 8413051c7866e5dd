---------------------------- MODULE NtdylibImage ----------------------------
(***************************************************************************)
(* What NTDYLIB makes of one file (ntdylib/src/loader.c, exports.c): the   *)
(* check of its headers, the sections it maps, the relocations it applies, *)
(* and the addresses of its exports.  Nothing here has a state.            *)
(*                                                                         *)
(* A file is a record:                                                     *)
(*   sig       the signature of its NT headers                             *)
(*   base      ImageBase, the address it is linked for                     *)
(*   size      SizeOfImage, headers SizeOfHeaders, in cells                *)
(*   raw       its contents, cell by cell from 0                           *)
(*   sections  records [rva, raw, rawsize, vsize, write]                   *)
(*   relocs    blocks [page, size, entries] of entries [type, offset]      *)
(*   exports   [base, functions, names]; names are records [name, index]   *)
(*   imports   descriptors [dll, thunks] of thunks [name, ordinal, slot]   *)
(*   entry     whether it has an entry point                               *)
(*   pointers, values  what the linker meant each cell to hold             *)
(* A cell is a DWORD, or an address in the table of imports.  The file's   *)
(* relocs are what the loader takes for them: the contents of directory 2. *)
(***************************************************************************)
EXTENDS Integers, Sequences, SequencesExt, FiniteSets

CONSTANT DWord    \* 2^32, made small

ASSUME DWordAssumption == DWord \in Nat \ {0}

\* The constants of ntdylib.h, whatever the PE format says of them.
Signature == "TE"
HighLow == 1
Absolute == 0
NoOrdinal == 65535

(* NtdylibParseHeaders: the signature is all that is looked at.            *)
ParseHeaders(f) == f.sig = Signature

Cells(f) == 0 .. f.size - 1

\* The part of a section that is copied, and the part it occupies.
Copied(s) == IF s.rawsize = 0 THEN s.vsize ELSE s.rawsize
Virtual(s) == IF s.vsize = 0 THEN Copied(s) ELSE s.vsize
Within(s, a) == a \in s.rva .. s.rva + Virtual(s) - 1

(* NtdylibMapImageSections: what the loop copies of a section, and what it *)
(* zeroes.                                                                 *)
Copies(s, a) == s.raw > 0 /\ a \in s.rva .. s.rva + Copied(s) - 1
Zeroes(s, a) == a \in s.rva + Copied(s) .. s.rva + Virtual(s) - 1

(* The image as it is mapped: zeroes, the headers, then the sections; the  *)
(* last that writes a cell stays.                                          *)
MapImage(f) ==
    LET Writers(a) == {i \in DOMAIN f.sections :
                          Copies(f.sections[i], a) \/ Zeroes(f.sections[i], a)}
        Final(a) == f.sections[CHOOSE i \in Writers(a) : \A j \in Writers(a) : j <= i]
    IN [a \in Cells(f) |->
           IF Writers(a) = {} THEN IF a < f.headers THEN f.raw[a] ELSE 0
           ELSE IF Copies(Final(a), a) THEN f.raw[Final(a).raw + a - Final(a).rva]
           ELSE 0]

\* A section without the write bit is protected before anything is patched.
ReadOnly(f, a) == \E i \in DOMAIN f.sections :
                      Within(f.sections[i], a) /\ ~f.sections[i].write

(* The entries NtdylibProcessRelocs comes to: those of the blocks before   *)
(* one of size 0.                                                          *)
Walked(f) ==
    UNION {{<<i, j>> : j \in DOMAIN f.relocs[i].entries} :
              i \in {k \in DOMAIN f.relocs : \A l \in 1 .. k : f.relocs[l].size > 0}}

\* A loop that stops one entry short in each block.
PatchedShort(f, a) ==
    {e \in Walked(f) :
        LET block == f.relocs[e[1]]
            entry == block.entries[e[2]]
        IN e[2] < Len(block.entries) /\ entry.type = HighLow /\ block.page + entry.offset = a}

(* The entries that patch a cell.  Absolute entries are padding, and those *)
(* of other types are passed over.                                         *)
Patched(f, a) ==
    {e \in Walked(f) :
        LET block == f.relocs[e[1]]
            entry == block.entries[e[2]]
        IN /\ entry.type # Absolute /\ entry.type = HighLow
           /\ block.page + entry.offset = a}

(* NtdylibProcessRelocs: each adds the distance from the preferred base.   *)
Relocate(f, mem, at) ==
    [a \in Cells(f) |->
        IF at = f.base \/ Patched(f, a) = {} THEN mem[a]
        ELSE (mem[a] + Cardinality(Patched(f, a)) * (at - f.base)) % DWord]

\* Whether relocating writes to a page that was made read-only.
RelocFaults(f, at) ==
    at # f.base /\ \E a \in Cells(f) : Patched(f, a) # {} /\ ReadOnly(f, a)

ByRva(at, rva) == IF rva = 0 THEN 0 ELSE at + rva

(* NtdylibFindExport of an image at an address: the name's first entry     *)
(* that has a function, then the ordinal; 0 when there is none.            *)
FindExport(exports, at, name, ordinal) ==
    LET count == Len(exports.functions)
        hit == SelectInSeq(exports.names, LAMBDA n : n.name = name /\ n.index < count)
        index == ordinal - exports.base
    IN CASE hit > 0 -> ByRva(at, exports.functions[exports.names[hit].index + 1])
         [] hit = 0 /\ ordinal # NoOrdinal /\ index \in 0 .. count - 1
              -> ByRva(at, exports.functions[index + 1])
         [] OTHER -> 0

(***************************************************************************)
(* The files.                                                              *)
(***************************************************************************)
(* What the linker wrote into a cell of a file, for the image at `at`: the *)
(* address of another cell, or a value that does not depend on the place.  *)
Linked(f, at, a) ==
    IF a \in DOMAIN f.pointers THEN (at + f.pointers[a]) % DWord ELSE f.values[a]

Thunks(f) == UNION {{<<i, j>> : j \in DOMAIN f.imports[i].thunks} : i \in DOMAIN f.imports}
Thunk(f, k) == f.imports[k[1]].thunks[k[2]]
IsSlot(f, a) == \E k \in Thunks(f) : Thunk(f, k).slot = a

\* Where in the file the format has the contents of a cell.
Stored(f, a) ==
    {o \in {a} : a < f.headers}
    \cup {s.raw + a - s.rva : s \in {t \in ToSet(f.sections) :
                                       t.rawsize > 0 /\ a \in t.rva .. t.rva + t.rawsize - 1}}

\* The entries that the file has for a cell, in the blocks before an empty one.
Fixups(f, a) ==
    {e \in UNION {{i} \X DOMAIN f.relocs[i].entries : i \in DOMAIN f.relocs} :
        /\ \A l \in 1 .. e[1] : f.relocs[l].size > 0
        /\ f.relocs[e[1]].entries[e[2]].type = HighLow
        /\ f.relocs[e[1]].page + f.relocs[e[1]].entries[e[2]].offset = a}

TypedExports(e) ==
    /\ e.base \in Nat /\ e.functions \in Seq(Nat)
    /\ e.names \in Seq([name : STRING, index : Nat])

TypedFile(f) ==
    /\ f.base \in Nat /\ f.size \in Nat /\ f.headers \in Nat
    /\ f.sections \in Seq([rva : Nat, raw : Nat, rawsize : Nat, vsize : Nat, write : BOOLEAN])
    /\ f.relocs \in Seq([page : Nat, size : Nat, entries : Seq([type : Nat, offset : Nat])])
    /\ \A o \in DOMAIN f.raw : f.raw[o] \in Nat
    /\ DOMAIN f.imports \subseteq Nat
    /\ TypedExports(f.exports)

(* A file as a linker makes it, in the constants of ntdylib.h: it has each *)
(* cell once, or not at all when it is zero, as what follows the contents  *)
(* of a section; each cell that holds an address has one entry in the      *)
(* table; and each import has a cell of its own.                           *)
WellMade(f) ==
    /\ TypedFile(f)
    /\ \A s \in ToSet(f.sections) :
          /\ s.raw > 0 <=> s.rawsize > 0
          /\ \A a \in s.rva + s.rawsize .. s.rva + s.vsize - 1 : Stored(f, a) = {}
    /\ \A a \in Cells(f) :
          /\ Stored(f, a) \subseteq DOMAIN f.raw
          /\ ~IsSlot(f, a) =>
                /\ \A o, p \in Stored(f, a) : o = p
                /\ \A o \in Stored(f, a) : f.raw[o] = Linked(f, f.base, a)
                /\ Stored(f, a) = {} => Linked(f, f.base, a) = 0
                /\ a \notin DOMAIN f.pointers => Fixups(f, a) = {}
                /\ a \in DOMAIN f.pointers =>
                      f.pointers[a] \in Nat /\ \E e \in Fixups(f, a) : Fixups(f, a) = {e}
    /\ \A k, l \in Thunks(f) : /\ Thunk(f, k).slot \in Cells(f)
                               /\ Thunk(f, k).slot = Thunk(f, l).slot => k = l
=============================================================================
