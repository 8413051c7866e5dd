------------------------------ MODULE Ntdylib -------------------------------
(***************************************************************************)
(* The modules of NTDYLIB (ntdylib/src): loading, finding and unloading of *)
(* DLLs, their reference counts, the images in memory, what their imports  *)
(* are bound to, and the DllMain callbacks.                                *)
(*                                                                         *)
(* A DllMain runs in the middle of NtdylibLoadDll or NtdylibUnloadDll and  *)
(* may call both, so calls nest: `frames` is the stack of the DllMains     *)
(* that run.  Nothing takes a lock; the model is of one thread.  The code  *)
(* up to the entry point, and from the unlink on, calls nobody and is one  *)
(* step.                                                                   *)
(*                                                                         *)
(* Callers unload only what a load of theirs returned.  The end of a file  *)
(* is taken to be told with the status that ntdylib.h has for it (NT's is  *)
(* another, and with it no file would ever be loaded).  The file system    *)
(* and the kernel may refuse a load anywhere; a name without a path finds  *)
(* no file.  Whether to relocate is asked of headers that were freed by    *)
(* then: they are taken to answer anything but the address of the image,   *)
(* and relocating an image at its own base changes nothing.                *)
(***************************************************************************)
EXTENDS NtdylibImage, FiniteSets, Functions, TLC

CONSTANTS Modules,     \* addresses of module structures
          Files,       \* the DLLs on disk, by path
          Content,     \* what each holds (see NtdylibImage)
          Base,        \* the base name of each file, in lower case
          System,      \* the DLLs Windows has loaded: [base, exports] by name
          Bases,       \* addresses where the kernel can put an image
          DataFlags,   \* whether callers pass NTDLL_LOAD_LIBRARY_AS_DATAFILE, by file
          MaxShort,    \* bound on the allocations that fail in one load
          MaxDepth,    \* bound on nested calls
          MaxHeld      \* bound on the loads of a module not yet undone

ASSUME NtdylibAssumption ==
    /\ DataFlags \in [Files -> SUBSET BOOLEAN] /\ Bases \subseteq Nat \ {0}
    /\ \A f \in Files : ParseHeaders(Content[f]) => WellMade(Content[f])
    /\ \A b \in DOMAIN System : TypedExports(System[b].exports) /\ System[b].base \in Nat
    /\ {"system", "nobody", "gone"} \cap Modules = {}
    /\ MaxShort \in Nat /\ MaxDepth \in Nat /\ MaxHeld \in Nat

VARIABLES attached,   \* g_ntdylib_initialized of dllmain.c
          ready,      \* g_NtdylibInitialized of loader.c
          list,       \* g_LoadedModules, the newest first
          mods,       \* the module structures that are allocated
          images,     \* the mapped images: a data file's? where, and what
          frames,     \* the DllMains that run, the innermost first
          held,       \* loads of each module that callers have not undone
          late,       \* modules that were handed out while being detached
          twice       \* some module was freed a second time

vars == <<attached, ready, list, mods, images, frames, held, late, twice>>

NoModules == [m \in {} |-> 0]
NoneHeld == [m \in Modules |-> 0]
Alive == DOMAIN mods
Listed == ToSet(list)
Entry == {f \in Files : Content[f].entry}
Running(at, m) == \E i \in DOMAIN frames : frames[i] = [at |-> at, mod |-> m]
Fresh == Modules \ (Alive \cup DOMAIN images \cup late)
Without(f, S) == Restrict(f, DOMAIN f \ S)
With(f, m, v) == [n \in DOMAIN f \cup {m} |-> IF n = m THEN v ELSE f[n]]
Counting(module, n) == [module EXCEPT !.refs = n]

Init ==
    /\ attached = FALSE /\ ready = FALSE
    /\ list = <<>> /\ mods = NoModules /\ images = NoModules
    /\ frames = <<>> /\ held = NoneHeld
    /\ late = {} /\ twice = FALSE

(* Every entry into the loader initialises it first.                       *)
NtdylibInit == ready' = TRUE

(* NtdylibDllMain, DLL_PROCESS_ATTACH.                                     *)
ProcessAttach ==
    /\ ~attached
    /\ attached' = TRUE /\ NtdylibInit
    /\ list' = IF ready THEN list ELSE <<>>
    /\ UNCHANGED <<mods, images, frames, held, late, twice>>

\* A cleanup that leaves the images mapped.
CleanupKeepsImages ==
    /\ attached /\ frames = <<>>
    /\ attached' = FALSE /\ ready' = FALSE
    /\ list' = <<>>
    /\ mods' = NoModules
    /\ held' = NoneHeld
    /\ UNCHANGED <<images, frames, late, twice>>

(* DLL_PROCESS_DETACH: NtdylibCleanup frees images and structures without  *)
(* a DllMain.  The process ends, and with it those who held the modules.   *)
Cleanup ==
    /\ attached /\ frames = <<>>
    /\ attached' = FALSE /\ ready' = FALSE
    /\ list' = <<>>
    /\ images' = Without(images, Listed)
    /\ mods' = Without(mods, Listed)
    /\ held' = NoneHeld
    /\ UNCHANGED <<frames, late, twice>>

(* NtdylibFindModuleByName: the first module of the list with the name, if *)
(* there is one.  It compares the WHOLE name it is given with the base     *)
(* names, so that a name with a path finds nothing.  A module whose        *)
(* BaseName could not be allocated is not found either.                    *)
Finds(m, b) == mods[m].named /\ Base[mods[m].file] = b
FindModule(b) ==
    {list[i] : i \in {j \in DOMAIN list : /\ Finds(list[j], b)
                                         /\ \A k \in 1 .. j - 1 : ~Finds(list[k], b)}}
Found(f, path) == IF path THEN {} ELSE FindModule(Base[f])

\* A load that finds its module and does not count itself.
LoadAgainUncounted(f, path) ==
    /\ \E m \in Found(f, path) :
          /\ held[m] < MaxHeld
          /\ held' = [held EXCEPT ![m] = @ + 1]
          /\ late' = IF Running("detach", m) THEN late \cup {m} ELSE late
    /\ NtdylibInit
    /\ UNCHANGED <<attached, list, mods, images, frames, twice>>

(* NtdylibLoadDll of a module that is in the list already.                 *)
LoadAgain(f, path) ==
    /\ \E m \in Found(f, path) :
          /\ held[m] < MaxHeld
          /\ mods' = [mods EXCEPT ![m] = Counting(@, mods[m].refs + 1)]
          /\ held' = [held EXCEPT ![m] = @ + 1]
          /\ late' = IF Running("detach", m) THEN late \cup {m} ELSE late
    /\ NtdylibInit
    /\ UNCHANGED <<attached, list, images, frames, twice>>

(* A file that cannot be opened, read or given memory.                     *)
LoadFails(f, path) ==
    /\ Found(f, path) = {}
    /\ NtdylibInit
    /\ UNCHANGED <<attached, list, mods, images, frames, held, late, twice>>

(* A file that is read, and whose headers are not what the loader expects. *)
LoadRefused(f, path) ==
    /\ path /\ ~ParseHeaders(Content[f])
    /\ NtdylibInit
    /\ UNCHANGED <<attached, list, mods, images, frames, held, late, twice>>

(* Where the kernel puts an image: at its base, when that is free, or else *)
(* where it likes.  (A base that others occupy is not among Bases.)        *)
Offered(f) ==
    LET free == Bases \ {images[m].base : m \in DOMAIN images}
    IN IF Content[f].base \in free THEN {Content[f].base} ELSE free

\* A search that takes the module that was loaded first.
OldestProvider(dll, m, f, named) ==
    IF \E n \in Listed : Finds(n, dll)
    THEN list[SelectLastInSeq(list, LAMBDA n : Finds(n, dll))]
    ELSE IF named /\ Base[f] = dll THEN m
    ELSE IF dll \in DOMAIN System THEN "system"
    ELSE "nobody"

(* Where NtdylibResolveImports looks for a DLL that module m imports from: *)
(* in the list, which m heads by then, and among Windows' own.             *)
Provider(dll, m, f, named) ==
    IF named /\ Base[f] = dll THEN m
    ELSE IF FindModule(dll) # {} THEN CHOOSE n \in FindModule(dll) : TRUE
    ELSE IF dll \in DOMAIN System THEN "system"
    ELSE "nobody"

(* The structure of a new module; `starved` are the import descriptors for *)
(* which there was no memory, which go without a provider.                 *)
Structure(f, named, at, m, starved) ==
    LET imports == Content[f].imports
    IN [file |-> f, refs |-> 1, named |-> named, base |-> at,
        from |-> [i \in DOMAIN imports |-> IF i \in starved THEN "nobody"
                                           ELSE Provider(imports[i].dll, m, f, named)]]

\* The address a provider, module or Windows' own, gives for a thunk.
Export(f, k, exports, base) ==
    LET thunk == Thunk(Content[f], k) IN FindExport(exports, base, thunk.name, thunk.ordinal)

Address(new, m, k) ==
    LET n == new.from[k[1]]
        module == IF n = m THEN new ELSE mods[n]
        dll == System[Content[new.file].imports[k[1]].dll]
    IN CASE n = "nobody" -> 0
         [] n = "system" -> Export(new.file, k, dll.exports, dll.base)
         [] OTHER -> Export(new.file, k, Content[module.file].exports, module.base)

\* The thunks whose cells NtdylibResolveImports writes; others it leaves alone.
Resolved(new, m) == {k \in Thunks(Content[new.file]) : Address(new, m, k) # 0}

Mapped == [f \in Files |-> MapImage(Content[f])]

(* The finished image: mapped, relocated, and with its imports bound.      *)
ImageOf(new, m) ==
    LET f == Content[new.file]
        mem == Relocate(f, Mapped[new.file], new.base)
        At(a) == {k \in Resolved(new, m) : Thunk(f, k).slot = a}
    IN [a \in Cells(f) |-> IF At(a) = {} THEN mem[a]
                           ELSE Address(new, m, CHOOSE k \in At(a) : TRUE)]

\* Sections are protected before relocations and imports are written.
Faults(new, m) ==
    \/ RelocFaults(Content[new.file], new.base)
    \/ \E k \in Resolved(new, m) : ReadOnly(Content[new.file], Thunk(Content[new.file], k).slot)

(* The process that faults ends; the next one starts afresh.               *)
Crash ==
    /\ attached' = FALSE /\ ready' = FALSE
    /\ list' = <<>> /\ mods' = NoModules /\ images' = NoModules
    /\ frames' = <<>> /\ held' = NoneHeld
    /\ late' = {} /\ twice' = FALSE

(* The new module is linked, bound to its providers, and then its DllMain  *)
(* is called, whose answer is ignored; without one the load returns.       *)
LoadNew(f, path, data, named) ==
    /\ path /\ ParseHeaders(Content[f]) /\ Len(frames) < MaxDepth
    /\ \E m \in Fresh, at \in Offered(f), starved \in SUBSET DOMAIN Content[f].imports :
          LET new == Structure(f, named, at, m, starved)
          IN /\ Cardinality(starved) + (IF named THEN 0 ELSE 1) <= MaxShort
             /\ ~Faults(new, m)
             /\ list' = <<m>> \o list
             /\ mods' = With(mods, m, new)
             /\ images' = With(images, m, [data |-> data, base |-> at, mem |-> ImageOf(new, m)])
             /\ IF f \in Entry
                THEN frames' = <<[at |-> "attach", mod |-> m]>> \o frames /\ UNCHANGED held
                ELSE held' = [held EXCEPT ![m] = 1] /\ UNCHANGED frames
    /\ NtdylibInit
    /\ UNCHANGED <<attached, late, twice>>

(* A load that writes where the section's protection forbids it.           *)
LoadFaults(f, path) ==
    /\ path /\ ParseHeaders(Content[f])
    /\ \E m \in Fresh, at \in Offered(f), named \in BOOLEAN :
          Faults(Structure(f, named, at, m, {}), m)
    /\ Crash

(* The DllMain of a load returns, and the load returns the module.         *)
AttachReturns ==
    /\ frames # <<>> /\ Head(frames).at = "attach"
    /\ LET m == Head(frames).mod
       IN held[m] < MaxHeld /\ held' = [held EXCEPT ![m] = @ + 1]
    /\ frames' = Tail(frames)
    /\ UNCHANGED <<attached, ready, list, mods, images, late, twice>>

\* What was bound to a module that goes is bound to nothing that counts.
Forget(module, m) ==
    [module EXCEPT !.from = [i \in DOMAIN @ |-> IF @[i] = m THEN "gone" ELSE @[i]]]

\* An unload that leaves the list to the next load.
FreeListed(m) ==
    /\ images' = IF m \in DOMAIN images /\ images[m].data THEN images ELSE Without(images, {m})
    /\ mods' = [n \in Alive \ {m} |-> Forget(mods[n], m)]
    /\ twice' = (twice \/ m \notin Alive)
    /\ UNCHANGED list

Position(m) == CHOOSE i \in DOMAIN list : list[i] = m

(* The end of NtdylibUnloadDll: unlink, free the image unless the caller   *)
(* had asked for a data file, free the structure.                          *)
Free(m) ==
    /\ list' = IF m \in Listed THEN RemoveAt(list, Position(m)) ELSE list
    /\ images' = IF m \in DOMAIN images /\ images[m].data THEN images ELSE Without(images, {m})
    /\ mods' = [n \in Alive \ {m} |-> Forget(mods[n], m)]
    /\ twice' = (twice \/ m \notin Alive)

\* An unload that frees a module others still hold.
UnloadAtOnce(m) ==
    /\ held[m] > 0 /\ m \in Alive
    /\ held' = [held EXCEPT ![m] = @ - 1]
    /\ Free(m)
    /\ UNCHANGED <<attached, ready, frames, late>>

(* NtdylibUnloadDll: one reference less, and the last one calls DllMain.   *)
Unload(m) ==
    /\ held[m] > 0 /\ m \in Alive
    /\ held' = [held EXCEPT ![m] = @ - 1]
    /\ \/ /\ mods[m].refs > 1
          /\ mods' = [mods EXCEPT ![m] = Counting(@, mods[m].refs - 1)]
          /\ UNCHANGED <<list, images, frames, twice>>
       \/ /\ mods[m].refs <= 1 /\ mods[m].file \in Entry /\ Len(frames) < MaxDepth
          /\ mods' = [mods EXCEPT ![m] = Counting(@, 0)]
          /\ frames' = <<[at |-> "detach", mod |-> m]>> \o frames
          /\ UNCHANGED <<list, images, twice>>
       \/ /\ mods[m].refs <= 1 /\ mods[m].file \notin Entry
          /\ Free(m)
          /\ UNCHANGED frames
    /\ UNCHANGED <<attached, ready, late>>

(* The DllMain of an unload returns, and the module goes, whatever the     *)
(* DllMain has loaded meanwhile.                                           *)
DetachReturns ==
    /\ frames # <<>> /\ Head(frames).at = "detach"
    /\ Free(Head(frames).mod)
    /\ frames' = Tail(frames)
    /\ UNCHANGED <<attached, ready, held, late>>

Next ==
    \/ ProcessAttach \/ Cleanup
    \/ \E f \in Files, path \in BOOLEAN :
          \/ LoadAgain(f, path) \/ LoadFails(f, path)
          \/ LoadRefused(f, path) \/ LoadFaults(f, path)
          \/ \E data \in DataFlags[f], named \in BOOLEAN : LoadNew(f, path, data, named)
    \/ \E m \in Modules : Unload(m)
    \/ AttachReturns \/ DetachReturns

Spec == Init /\ [][Next]_vars

(***************************************************************************)
(* Properties.                                                             *)
(***************************************************************************)
TypeOK ==
    /\ attached \in BOOLEAN /\ ready \in BOOLEAN /\ twice \in BOOLEAN
    /\ list \in Seq(Modules) /\ Alive \subseteq Modules /\ late \subseteq Modules
    /\ \A m \in Alive :
          /\ mods[m].file \in Files /\ mods[m].refs \in Nat
          /\ mods[m].named \in BOOLEAN /\ mods[m].base \in Bases
          /\ ToSet(mods[m].from) \subseteq Modules \cup {"system", "nobody", "gone"}
    /\ DOMAIN images \subseteq Modules
    /\ \A m \in DOMAIN images :
          /\ images[m].data \in BOOLEAN /\ images[m].base \in Bases
          /\ \A a \in DOMAIN images[m].mem : images[m].mem[a] \in Nat
    /\ frames \in Seq([at : {"attach", "detach"}, mod : Modules])
    /\ held \in [Modules -> Nat]

(* The list holds every module that is alive, once, and no other: nothing  *)
(* finds a freed module, and none is lost.  Every image belongs to one of  *)
(* them, but for those of data files, which an unload leaves behind.       *)
ListSound ==
    /\ Listed = Alive /\ Len(list) = Cardinality(Alive)
    /\ Alive \subseteq DOMAIN images
    /\ \A m \in DOMAIN images : m \in Alive \/ images[m].data

Attaching(m) == {i \in DOMAIN frames : frames[i] = [at |-> "attach", mod |-> m]}

(* The reference count of a module is the number of loads that callers     *)
(* have not undone and of those that have not returned yet, however loads  *)
(* and unloads nest in DllMains.                                           *)
RefsCounted ==
    \A m \in Alive \ late :
        mods[m].refs = held[m] + Cardinality(Attaching(m))

(* What a caller holds is alive, and nothing is freed twice, as long as    *)
(* nobody was given a module in the middle of its own DLL_PROCESS_DETACH.  *)
HandlesLive ==
    /\ \A m \in Modules \ late : held[m] > 0 => m \in Alive
    /\ \A i \in DOMAIN frames : frames[i].mod \in Alive \/ frames[i].mod \in late
    /\ twice => late # {}

(* Every image is the file as it would have been linked for the place      *)
(* where it lies, outside its table of imports: sections, zeroed tails     *)
(* and relocations up or down leave nothing out and touch nothing else.    *)
ImagesLinked ==
    TypeOK /\ \A m \in Alive :
        LET f == Content[mods[m].file] IN
            \A a \in Cells(f) : ~IsSlot(f, a) => images[m].mem[a] = Linked(f, images[m].base, a)

(* NtdylibGetProcAddress, by name or by ordinal as a thunk has it.         *)
GetProcAddress(n, f, k) == Export(f, k, Content[mods[n].file].exports, mods[n].base)

\* The modules of a name that were loaded before m or are m.
Older(m, dll) == {n \in Listed : Position(m) <= Position(n) /\ Finds(n, dll)}

(* As long as its provider lives, an import is bound to the newest module  *)
(* of the name that the list held when the importer was loaded, at the     *)
(* address that NtdylibGetProcAddress gives for it now; it is bound to     *)
(* Windows only when the list held none.                                   *)
ImportsNewest ==
    \A m \in Alive : \A k \in Thunks(Content[mods[m].file]) :
        LET f == mods[m].file
            n == mods[m].from[k[1]]
            older == Older(m, Content[f].imports[k[1]].dll)
        IN /\ n = "system" => older = {}
           /\ n \in Modules =>
                /\ n \in older /\ \A o \in older : Position(n) <= Position(o)
                /\ GetProcAddress(n, f, k) # 0
                      => images[m].mem[Thunk(Content[f], k).slot] = GetProcAddress(n, f, k)
=============================================================================
