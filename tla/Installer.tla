----------------------------- MODULE Installer ------------------------------
(***************************************************************************)
(* The installer (installer/src/installer.c), from its start in WinPE to   *)
(* its last screen, over the volume C: it works on.  A start is made from  *)
(* the medium that was booted, "medium", an image of IsoBuild.             *)
(*                                                                         *)
(* No step looks at the answer of a command (run_command returns it, and   *)
(* nobody reads it): each may do all of its work, or a part, or none.  The *)
(* machine may be switched off between steps, and what is on C: stays.     *)
(* There may be no C: at all: then nothing that a command writes there     *)
(* comes to be.                                                            *)
(*                                                                         *)
(* A tree (C:\Windows, C:\WNT) is a set: the NT components it got, by      *)
(* where from, the Microsoft components that step 4 removes, the files in  *)
(* Boot, and FreeNT's artifacts; "dir" is in every tree that exists.  An   *)
(* NT component in two of them is the same file name twice, so that a copy *)
(* of one over a tree may leave nothing of another.                        *)
(*                                                                         *)
(* Left out: drawing, keys that choose nothing, the text of the lists of   *)
(* disks and images, temporary files, and step 7's reg import of add.reg,  *)
(* which goes into the registry of WinPE and not into the target's.        *)
(***************************************************************************)
EXTENDS IsoBuild, Sequences

CONSTANTS MaxInstalls, \* bound: how often the installer is started
          OldDisks     \* what the disk may hold before

VARIABLES ipc,         \* off; shell: WinPE's prompt; or the next step
          installs,    \* how many times the installer was started
          medium,      \* the image that WinPE runs from
          config,      \* config, and whether _pgmptr has a directory
          loaded,      \* HKLM\FreeNT_System, in WinPE, is the target's hive
          disk,        \* C:\Windows, C:\WNT, its hive, the boot entry, and
                       \* which of the volumes C: and S: there are
          before,      \* history: disk when this run began
          fault        \* history: a command failed that could have worked

installVars == <<ipc, installs, medium, config, loaded, disk, before, fault>>

NTs == {"old", "image", "winpe"}
Item == NTs \cup {"dir", "ms", "boot"} \cup Artifacts

\* In kernel mode nothing reads the path of an image.
Configs == {c \in [style : {"U", "B"}, wim : {"none", "image", "wrong"},
                   kernel : BOOLEAN, path : BOOLEAN] : c.kernel => c.wim = "none"}

Tree(items) == {T \in SUBSET items : T # {} => "dir" \in T}
Exists(tree) == "dir" \in tree
FreeNT == {"freedll", "ntdylib", "freent", "liberty"}
Beside(image) == {a \in Artifacts : <<"beside", a>> \in image}
InSystem(image) == {a \in Artifacts : <<"system", a>> \in image}

(* The keys of the patches in their .reg files, with HKEY_LOCAL_MACHINE    *)
(* left away, and where the booted target looks for Session Manager in     *)
(* its SYSTEM hive.                                                        *)
PatchKeys == {<<"SOFTWARE", "CurrentVersion">>, <<"SYSTEM", "Session Manager">>}
SessionManager == <<"Session Manager">>

\* Nothing writes artifacts of FreeNT into C:\Windows.
Disk == [volumes : SUBSET {"C", "S"}, Windows : Tree(Item \ Artifacts), WNT : Tree(Item),
         hive : SUBSET (PatchKeys \cup {SessionManager}),
         entry : {"none", "efi", "mbr"}]

ASSUME InstallerAssumption == MaxInstalls \in Nat /\ OldDisks \subseteq Disk

InstallInit ==
    /\ ipc = "off" /\ installs = 0 /\ medium = {}
    /\ config = [style |-> "U", wim |-> "none", kernel |-> FALSE, path |-> TRUE]
    /\ loaded = FALSE
    /\ disk \in OldDisks /\ before = disk /\ fault = FALSE

(* Most steps: on to the next, with a command failed in spite of the       *)
(* conditions it needs, or not.                                            *)
Advance(from, to, failed) ==
    /\ ipc = from /\ ipc' = to
    /\ fault' = (fault \/ failed)
    /\ UNCHANGED <<installs, medium, before>>

(* WinPE boots from the medium and winpeshl starts the installer with its  *)
(* whole path; without it there is the prompt.                             *)
Boot(image) ==
    /\ ipc = "off" /\ image # {}
    /\ medium' = image /\ ipc' = "shell"
    /\ UNCHANGED <<installs, config, loaded, disk, before, fault>>

(* main: the command line, with the defaults.  Only at the prompt may the  *)
(* program be called without a directory, or with arguments.               *)
StartInstaller ==
    /\ ipc \in {"shell", "done"} /\ "installer" \in Beside(medium)
    /\ installs < MaxInstalls /\ installs' = installs + 1
    /\ config' \in Configs
    /\ ipc' = "style" /\ before' = disk /\ fault' = FALSE
    /\ UNCHANGED <<medium, loaded, disk>>

(* screen_partition_style, and the choice of a disk before it: its number  *)
(* is kept for a script that never names it.                               *)
ChooseStyle ==
    /\ Advance("style", IF config.kernel THEN "summary" ELSE "wim", FALSE)
    /\ \E style \in {"U", "B"} : config' = [config EXCEPT !.style = style]
    /\ UNCHANGED <<loaded, disk>>

(* screen_dism_config: keep, type, scan or skip.  A scan that finds        *)
(* nothing keeps the path.  The screen does not come in kernel mode.       *)
ChooseImage ==
    /\ \/ Advance("wim", "summary", FALSE)
          /\ \E wim \in {config.wim, "none", "image", "wrong"} :
                config' = [config EXCEPT !.wim = wim]
       \/ Advance("wim", "wim", FALSE)
          /\ \E wim \in {config.wim, "image"} : config' = [config EXCEPT !.wim = wim]
    /\ UNCHANGED <<loaded, disk>>

Summary ==
    /\ Advance("summary", "partition", FALSE)
    /\ UNCHANGED <<config, loaded, disk>>

\* Q, on each of these screens.
Quit ==
    /\ \E from \in {"style", "summary"} : Advance(from, "shell", FALSE)
    /\ UNCHANGED <<config, loaded, disk>>

(* run_diskpart: the line "select disk" goes to a buffer and never to the  *)
(* script, which begins with clean; only the UEFI script makes S:.         *)
DiskpartScript ==
    <<"clean", "convert">> \o (IF config.style = "U" THEN <<"assign S">> ELSE <<>>)
    \o <<"assign C">>

(* diskpart stops at the first command that fails, and each of these needs *)
(* a disk that is selected, which clean makes empty.                       *)
Diskpart(s, d) ==
    IF Head(s) # "select" THEN d
    ELSE [volumes |-> {"C"} \cup {v \in {"S"} : \E i \in DOMAIN s : s[i] = "assign S"},
          Windows |-> {}, WNT |-> {}, hive |-> {}, entry |-> "none"]

\* Step 1.
Partition ==
    /\ Advance("partition", "image", FALSE)
    /\ disk' = Diskpart(DiskpartScript, disk)
    /\ UNCHANGED <<config, loaded>>

\* What of T can be copied to C:.
Reach(T) == IF "C" \in disk.volumes THEN T ELSE {}

(* What a command may leave of a tree that copies T over it: the first     *)
(* file makes the directory, and an NT takes the place of what has the     *)
(* names of its files, which may be all of another's or only some.         *)
Copied(tree, T) ==
    IF T = {} THEN {tree}
    ELSE {(tree \ R) \cup T \cup {"dir"} :
             R \in SUBSET IF T \cap NTs = {} THEN {} ELSE (tree \cap NTs) \ T}

\* The running system, as step 2 copies it.
Live == {"winpe", "ms", "boot"} \cup InSystem(medium)

(* Step 2 in kernel mode: xcopy of the running system, whose files in use, *)
(* as its hives, may stop it anywhere, as a hive that is loaded does; then,*)
(* one by one, of what is beside the installer.                            *)
CopyKernel ==
    LET System == Reach(Live)
        Own == Reach((FreeNT \cup {"native"}) \cap Beside(medium)) IN
    /\ config.kernel
    /\ \E T \in SUBSET System, U \in SUBSET Own :
          /\ Advance("image", "load", T # System \/ U # Own)
          /\ \E tree \in Copied(disk.WNT, T \cup U),
                h \in {disk.hive} \cup IF "winpe" \in T /\ ~loaded THEN {{}} ELSE {} :
                disk' = [disk EXCEPT !.WNT = tree, !.hive = h]
    /\ UNCHANGED <<config, loaded>>

(* Step 2 with an image: dism over what is in C:\Windows; without a path   *)
(* the step is passed over.                                                *)
ApplyImage ==
    LET Files == Reach(IF config.wim = "image" THEN {"image", "ms", "boot"} ELSE {}) IN
    /\ ~config.kernel
    /\ \E T \in SUBSET Files :
          /\ Advance("image", "rename", T # Files)
          /\ \E tree \in Copied(disk.Windows, T) : disk' = [disk EXCEPT !.Windows = tree]
    /\ UNCHANGED <<config, loaded>>

(* Step 3: neither MoveFileEx nor rename puts a directory in the place of  *)
(* another.                                                                *)
RenameWindows ==
    /\ \/ /\ Exists(disk.Windows) /\ ~Exists(disk.WNT)
          /\ Advance("rename", "remove", FALSE)
          /\ disk' = [disk EXCEPT !.WNT = disk.Windows, !.Windows = {}, !.hive = {}]
       \/ Advance("rename", "remove", Exists(disk.Windows) /\ ~Exists(disk.WNT))
          /\ UNCHANGED disk
    /\ UNCHANGED <<config, loaded>>

(* Step 4: files, then directories, C:\WNT\Boot among them.  The array of  *)
(* files has no NULL at its end: the loop reads on, and comes to an end    *)
(* behind it, or the program does.                                         *)
RemoveMicrosoft ==
    /\ \E T \in SUBSET ({"ms", "boot"} \cap disk.WNT) :
          /\ \/ Advance("remove", "load", {"ms", "boot"} \cap disk.WNT # T)
             \/ "boot" \notin T /\ Advance("remove", "shell", FALSE)
          /\ disk' = [disk EXCEPT !.WNT = @ \ T]
    /\ UNCHANGED <<config, loaded>>

(* Step 5: reg load of the target's SYSTEM hive, under a name that a hive  *)
(* may still have that was not unloaded.                                   *)
LoadHive ==
    /\ \/ /\ disk.WNT \cap NTs # {}
          /\ Advance("load", "patch", FALSE) /\ loaded' = TRUE
       \/ Advance("load", "patch", disk.WNT \cap NTs # {} /\ ~loaded) /\ UNCHANGED loaded
    /\ UNCHANGED <<config, disk>>

\* The keys' first line in the copies of the patches.
Redirect(key) == <<"FreeNT_System">> \o key

(* The patches are looked for in patches\patches under the directory of    *)
(* the program; only when it was started without one, in patches.          *)
PatchHive ==
    LET Found == ~config.path /\ <<"beside", "patches">> \in medium
        Keys == IF Found /\ loaded THEN {Tail(Redirect(k)) : k \in PatchKeys} ELSE {} IN
    /\ \E K \in SUBSET Keys :
          /\ Advance("patch", "unload", K # Keys)
          /\ disk' = [disk EXCEPT !.hive = @ \cup K]
    /\ UNCHANGED <<config, loaded>>

UnloadHive ==
    /\ \E still \in {FALSE, loaded} :
          Advance("unload", "components", still) /\ loaded' = still
    /\ UNCHANGED <<config, disk>>

(* Steps 6 and 7 copy beside the installer's own name.                     *)
CopyOwn(from, to, names) ==
    /\ \E T \in SUBSET Reach(names) :
          /\ Advance(from, to, T # Reach(names))
          /\ \E tree \in Copied(disk.WNT, T) : disk' = [disk EXCEPT !.WNT = tree]
    /\ UNCHANGED <<config, loaded>>

\* A step 6 that takes the image to have brought FreeNT's files.
CopyComponentsUnlessImage ==
    CopyOwn("components", "native",
            IF config.kernel \/ config.wim = "image" THEN {} ELSE FreeNT \cap Beside(medium))

(* Step 6, not in kernel mode; freent.exe too is looked for beside the     *)
(* installer.                                                              *)
CopyComponents ==
    CopyOwn("components", "native", IF config.kernel THEN {} ELSE FreeNT \cap Beside(medium))

\* Step 7: native.exe from beside the installer.
CopyNative == CopyOwn("native", "boot", {"native"} \cap Beside(medium))

(* The boot configuration: bcdboot copies from C:\WNT\Boot to S:, and      *)
(* bootsect and bootrec write to C:.                                       *)
WriteBoot ==
    LET Can == IF config.style = "U" THEN "S" \in disk.volumes /\ "boot" \in disk.WNT
                                     ELSE "C" \in disk.volumes
        Entry == IF config.style = "U" THEN "efi" ELSE "mbr" IN
    /\ \/ Can /\ Advance("boot", "done", FALSE) /\ disk' = [disk EXCEPT !.entry = Entry]
       \/ Advance("boot", "done", Can) /\ UNCHANGED disk
    /\ UNCHANGED <<config, loaded>>

(* run_command looks for the end of the output behind what it has just     *)
(* copied over it, in memory that nobody has set, and stores there: the    *)
(* program goes on or, after a command whose output it keeps, ends.        *)
Overrun ==
    /\ \E from \in {"rename", "remove", "load", "patch", "unload", "boot"} :
          Advance(from, "shell", FALSE)
    /\ UNCHANGED <<config, loaded, disk>>

\* The machine stops, or restarts: WinPE forgets, the disk does not.
SwitchOff ==
    /\ ipc # "off" /\ ipc' = "off" /\ loaded' = FALSE
    /\ UNCHANGED <<installs, medium, config, disk, before, fault>>

InstallNext ==
    \/ StartInstaller \/ ChooseStyle \/ ChooseImage \/ Summary \/ Quit
    \/ Partition \/ CopyKernel \/ ApplyImage \/ RenameWindows \/ RemoveMicrosoft
    \/ LoadHive \/ PatchHive \/ UnloadHive \/ CopyComponents \/ CopyNative
    \/ WriteBoot \/ Overrun \/ SwitchOff
(***************************************************************************)
(* Properties.                                                             *)
(***************************************************************************)
InstallTypeOK ==
    /\ ipc \in {"off", "shell", "style", "wim", "summary", "partition", "image", "rename",
                "remove", "load", "patch", "unload", "components", "native", "boot", "done"}
    /\ installs \in 0..MaxInstalls /\ medium \in Image /\ config \in Configs
    /\ loaded \in BOOLEAN /\ disk \in Disk /\ before \in Disk /\ fault \in BOOLEAN

(* "Installation complete!" (installer.c:1002) and the list under it: what *)
(* of it is so when no command failed for a reason of its own and there is *)
(* a C:.  In kernel mode that does not depend on what C: had before, so an *)
(* installation that was cut off is completed by another.  With an image   *)
(* it takes a C: without C:\WNT, which nothing can be renamed to otherwise. *)
(* The patches, and the boot entry for UEFI with an image, are not in it.  *)
InstallClaims ==
    ipc = "done" /\ ~fault /\ "C" \in disk.volumes =>
        /\ FreeNT \cap Beside(medium) \subseteq disk.WNT
        /\ config.kernel => {"winpe"} \cup InSystem(medium) \subseteq disk.WNT
        /\ ~config.kernel => "ms" \notin disk.WNT
        /\ ~config.kernel /\ ~Exists(before.WNT) =>
              ~Exists(disk.Windows) /\ (config.wim = "image" => "image" \in disk.WNT)
        /\ config.style = "B" => disk.entry = "mbr"
        /\ config.style = "U" /\ config.kernel /\ "S" \in disk.volumes => disk.entry = "efi"
=============================================================================
