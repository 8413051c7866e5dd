---------------------------- MODULE SetupProofs -----------------------------
(***************************************************************************)
(* How FreeNT gets onto a machine.  What the closing screens of the        *)
(* transformation scripts claim holds for every set of values, services,   *)
(* packages and profiles, after every history of runs, failures and        *)
(* crashes; and what the medium holds, and what an installation from it    *)
(* brings to the target and claims of it, holds for every set of builds,   *)
(* hosts and old disks.                                                    *)
(***************************************************************************)
EXTENDS Transform, Deployment, SequenceTheorems, TLAPS

(***************************************************************************)
(* The transformation scripts.                                             *)
(***************************************************************************)
(* What a script has done so far is done if it has noted no error, and a   *)
(* backup that holds another shell than Windows's has been marked.         *)
Progress ==
    /\ ~errors =>
          /\ pc \in {"t_vital", "t_explorer", "t_disable", "t_final", "t_done"} => env
          /\ pc \in {"t_disable", "t_final", "t_done"} => shell = "freent"
          /\ pc \in {"r_explorer", "r_enable", "r_vital", "r_marker", "r_done"} => ~env
          /\ pc \in {"r_enable", "r_vital", "r_marker", "r_done"} => shell = "explorer" \/ again
    /\ backup.shell \in {"none", "explorer"} \/ again

TransformInv == TypeOK /\ Progress

(* Setting some entries of a function to a value of its range keeps its    *)
(* type.                                                                   *)
LEMMA PartlyTyped ==
    ASSUME NEW D, NEW R, NEW f \in [D -> R], NEW S, NEW v \in R, NEW g \in Partly(f, S, v)
    PROVE  g \in [D -> R]
BY DEF Partly

(* What a restore reads from any backup is a shell and a Userinit.         *)
LEMMA BackupRead ==
    ASSUME NEW b
    PROVE  /\ ShellIn(b) \in Shells /\ UserinitIn(b) \in Userinits
           /\ b.shell \in {"none", "explorer"} => ShellIn(b) = "explorer"
BY DEF ShellIn, UserinitIn, Shells, Userinits

(* The steps of a transformation keep the types.                           *)
LEMMA TransformTypes ==
    ASSUME TypeOK,
           \/ BackupOriginalState \/ ModifySystemIdentity \/ InstallVitalUtilities
           \/ ReplaceExplorer \/ DisableComponents \/ FinalizeTransformation
    PROVE  TypeOK'
<1>1. CASE BackupOriginalState
  <2>1. backup' \in [shell : Shells, userinit : Userinits] \cup {NoBackup}
    BY <1>1 DEF BackupOriginalState, TypeOK
  <2>2. again' \in BOOLEAN
    BY <1>1 DEF BackupOriginalState, TypeOK
  <2> QED BY <1>1, <2>1, <2>2 DEF BackupOriginalState, TypeOK, Step, winlogon, names, parts, Pcs
<1>2. CASE ModifySystemIdentity
  <2>1. identity' \in [Values -> {"windows", "freent", "absent"}]
    BY <1>2, PartlyTyped DEF ModifySystemIdentity, TypeOK
  <2> QED BY <1>2, <2>1 DEF ModifySystemIdentity, TypeOK, Step, winlogon, parts, records, Pcs
<1>3. CASE InstallVitalUtilities
  BY <1>3 DEF InstallVitalUtilities, TypeOK, Step, winlogon, names, records, Pcs
<1>4. CASE ReplaceExplorer
  <2>1. shell' \in Shells /\ userinit' \in Userinits
    BY <1>4 DEF ReplaceExplorer, TypeOK, winlogon, Shells, Userinits
  <2>2. pc' \in Pcs /\ errors' \in BOOLEAN /\ profile' \in Profiles
    BY <1>4 DEF ReplaceExplorer, TypeOK, Step, Pcs
  <2> QED
    BY <1>4, <2>1, <2>2 DEF ReplaceExplorer, TypeOK, names, parts, records
<1>5. CASE DisableComponents
  <2>1. start' \in [Services -> {"original", "disabled", "auto"}]
    BY <1>5, PartlyTyped DEF DisableComponents, TypeOK
  <2>2. packages' \subseteq Packages
    BY <1>5 DEF DisableComponents, TypeOK
  <2> QED BY <1>5, <2>1, <2>2 DEF DisableComponents, TypeOK, Step, winlogon, names, records, Pcs
<1>6. CASE FinalizeTransformation
  BY <1>6 DEF FinalizeTransformation, TypeOK, Step, winlogon, parts, Pcs
<1> QED BY <1>1, <1>2, <1>3, <1>4, <1>5, <1>6

(* The steps of a rollback keep the types.                                 *)
LEMMA RollbackTypes ==
    ASSUME TypeOK,
           \/ RestoreSystemIdentity \/ RestoreExplorer \/ EnableComponents
           \/ RemoveVitalUtilities \/ RemoveTransformationMarker
    PROVE  TypeOK'
<1>1. CASE RestoreSystemIdentity
  <2>1. identity' \in [Values -> {"windows", "freent", "absent"}]
    BY <1>1, PartlyTyped DEF RestoreSystemIdentity, TypeOK
  <2> QED BY <1>1, <2>1 DEF RestoreSystemIdentity, TypeOK, Step, winlogon, parts, records, Pcs
<1>2. CASE RestoreExplorer
  <2>1. shell' \in Shells /\ userinit' \in Userinits
    BY <1>2, BackupRead DEF RestoreExplorer, TypeOK, winlogon
  <2> QED BY <1>2, <2>1 DEF RestoreExplorer, TypeOK, Step, names, parts, records, Pcs
<1>3. CASE EnableComponents
  <2>1. start' \in [Services -> {"original", "disabled", "auto"}]
    BY <1>3, PartlyTyped DEF EnableComponents, TypeOK
  <2> QED BY <1>3, <2>1 DEF EnableComponents, TypeOK, Step, winlogon, names, records, Pcs
<1>4. CASE RemoveVitalUtilities
  BY <1>4 DEF RemoveVitalUtilities, TypeOK, Step, winlogon, names, records, Pcs
<1>5. CASE RemoveTransformationMarker
  BY <1>5 DEF RemoveTransformationMarker, TypeOK, Step, winlogon, names, parts, Pcs
<1> QED BY <1>1, <1>2, <1>3, <1>4, <1>5

(* Every step keeps the types.                                             *)
LEMMA StepTypes == TypeOK /\ [Next]_vars => TypeOK'
<1> SUFFICES ASSUME TypeOK, [Next]_vars PROVE TypeOK'
  OBVIOUS
<1> USE DEF machine, winlogon, names, parts, records
<1>1. CASE StartTransform \/ StartRollback \/ Crash
  BY <1>1 DEF StartTransform, StartRollback, Crash, AtRest, TypeOK, Pcs
<1>2. CASE vars' = vars
  BY <1>2 DEF vars, script, TypeOK
<1> QED BY <1>1, <1>2, TransformTypes, RollbackTypes DEF Next

(* The steps of a transformation keep the progress they made.              *)
LEMMA TransformProgress ==
    ASSUME TypeOK, Progress,
           \/ BackupOriginalState \/ ModifySystemIdentity \/ InstallVitalUtilities
           \/ ReplaceExplorer \/ DisableComponents \/ FinalizeTransformation
    PROVE  Progress'
<1> USE DEF Progress, Step, winlogon, names, parts, records
<1>1. CASE BackupOriginalState
  <2>1. pc' = "t_identity"
    BY <1>1 DEF BackupOriginalState
  <2>2. ASSUME UNCHANGED <<backup, again>> PROVE Progress'
    BY <2>1, <2>2
  <2>3. ASSUME backup' = [shell |-> shell, userinit |-> userinit],
               again' = (again \/ shell # "explorer")
        PROVE  Progress'
    <3>1. backup'.shell = shell
      BY <2>3
    <3>2. shell = "explorer" \/ again'
      BY <2>3
    <3> QED BY <2>1, <3>1, <3>2
  <2> QED BY <1>1, <2>2, <2>3 DEF BackupOriginalState
<1>2. CASE ModifySystemIdentity
  BY <1>2 DEF ModifySystemIdentity, TypeOK
<1>3. CASE InstallVitalUtilities
  BY <1>3 DEF InstallVitalUtilities, TypeOK
<1>4. CASE ReplaceExplorer
  BY <1>4 DEF ReplaceExplorer, TypeOK
<1>5. CASE DisableComponents
  BY <1>5 DEF DisableComponents
<1>6. CASE FinalizeTransformation
  BY <1>6 DEF FinalizeTransformation
<1> QED BY <1>1, <1>2, <1>3, <1>4, <1>5, <1>6

(* The steps of a rollback keep theirs; the shell that is restored is      *)
(* Windows's unless the backup is marked.                                  *)
LEMMA RollbackProgress ==
    ASSUME TypeOK, Progress,
           \/ RestoreSystemIdentity \/ RestoreExplorer \/ EnableComponents
           \/ RemoveVitalUtilities \/ RemoveTransformationMarker
    PROVE  Progress'
<1> USE DEF Progress, Step, winlogon, names, parts, records
<1>1. CASE RestoreSystemIdentity
  BY <1>1 DEF RestoreSystemIdentity, TypeOK
<1>2. CASE RestoreExplorer
  BY <1>2, BackupRead DEF RestoreExplorer, TypeOK
<1>3. CASE EnableComponents
  BY <1>3 DEF EnableComponents
<1>4. CASE RemoveVitalUtilities
  BY <1>4 DEF RemoveVitalUtilities
<1>5. CASE RemoveTransformationMarker
  BY <1>5 DEF RemoveTransformationMarker
<1> QED BY <1>1, <1>2, <1>3, <1>4, <1>5

(* A start or a crash makes no claim, so every step keeps the progress.    *)
LEMMA StepProgress == TypeOK /\ Progress /\ [Next]_vars => Progress'
<1> SUFFICES ASSUME TypeOK, Progress, [Next]_vars PROVE Progress'
  OBVIOUS
<1>1. CASE StartTransform \/ StartRollback \/ Crash
  BY <1>1 DEF StartTransform, StartRollback, Crash, Progress,
              machine, winlogon, names, parts, records
<1>2. CASE vars' = vars
  BY <1>2 DEF vars, script, machine, winlogon, names, parts, records, Progress
<1> QED BY <1>1, <1>2, TransformProgress, RollbackProgress DEF Next

(* The inductive invariant: types, the progress of a script that noted no  *)
(* error, and the mark of a backup that is not of Windows's shell.         *)
THEOREM TransformInvariant == Spec => []TransformInv
<1>1. Init => TransformInv
  <2>1. Init => TypeOK
    BY DEF Init, TypeOK, Pcs, Shells, Userinits
  <2>2. Init => Progress
    BY DEF Init, Progress, NoBackup
  <2> QED BY <2>1, <2>2 DEF TransformInv
<1>2. TransformInv /\ [Next]_vars => TransformInv'
  BY StepTypes, StepProgress DEF TransformInv
<1> QED BY <1>1, <1>2, PTL DEF Spec

(* Every piece of the machine's state stays in its range.                  *)
THEOREM TransformTypeCorrect == Spec => []TypeOK
<1>1. TransformInv => TypeOK
  BY DEF TransformInv
<1> QED BY <1>1, TransformInvariant, PTL

(* A transformation that reports success has replaced the shell and set    *)
(* the environment.                                                        *)
THEOREM TransformHonest == Spec => []TransformClaim
<1>1. TransformInv => TransformClaim
  BY DEF TransformInv, Progress, TransformClaim
<1> QED BY <1>1, TransformInvariant, PTL

(* A rollback that reports success has removed the environment and has put *)
(* Windows's shell back, unless a replaced shell was backed up.            *)
THEOREM RollbackHonest == Spec => []RollbackClaim
<1>1. TransformInv => RollbackClaim
  BY DEF TransformInv, Progress, RollbackClaim
<1> QED BY <1>1, TransformInvariant, PTL

(***************************************************************************)
(* The medium.                                                             *)
(***************************************************************************)
Sure(b) == WinPE \cup Injected(b) \cup LaunchIni
May(b) == Sure(b) \cup Tried(b)

(* What a run that began with an empty directory has there at each step.   *)
FreshWork ==
    /\ bpc = "extract" => work = Empty
    /\ bpc \in {"torito", "find", "apply"} => work.wim \subseteq WinPE /\ work.root = {}
    /\ bpc = "inject" => work.root = WinPE
    /\ bpc = "ini" => /\ WinPE \cup Injected(built) \subseteq work.root
                      /\ work.root \subseteq WinPE \cup Injected(built) \cup Tried(built)
    /\ bpc = "capture" => Sure(built) \subseteq work.root /\ work.root \subseteq May(built)
    /\ bpc \in {"remove", "make"} => Sure(built) \subseteq work.wim /\ work.wim \subseteq May(built)

\* What the property says of an ISO that is there.
GoodIso ==
    iso # NoIso /\ iso.fresh =>
        Sure(iso.built) \subseteq iso.image /\ iso.image \subseteq May(iso.built)

MediumInv ==
    /\ fresh => FreshWork
    /\ bpc = "apply" => work.wim # {}
    /\ bpc = "capture" => LaunchIni \subseteq work.root
    /\ bpc \in {"remove", "make"} => LaunchIni \subseteq work.wim
    /\ GoodIso /\ (bpc = "done" => iso # NoIso /\ iso.built = built)

(***************************************************************************)
(* The installation.                                                       *)
(***************************************************************************)
Asking == {"style", "wim", "summary", "partition", "image"}
Patching == {"load", "patch", "unload", "components"}
Ending == {"native", "boot", "done"}

(* The route of an installation in kernel mode.                            *)
RouteInv == ipc \in {"wim", "rename", "remove"} => ~config.kernel

(* Step 1 changes nothing, and C:\WNT is as it was until the rename.       *)
KeptInv ==
    /\ ipc \in Asking => disk = before
    /\ ipc = "rename" => disk.WNT = before.WNT

(* FreeNT's files in C:\WNT were there, or are of the medium.              *)
BroughtInv ==
    disk.WNT \cap Artifacts \subseteq before.WNT \cup Beside(medium) \cup InSystem(medium)

(* A run in which no command failed that could have worked.                *)
Sound == ~fault /\ "C" \in disk.volumes

(* In kernel mode the copy of step 2 lasts.                                *)
KernelInv ==
    config.kernel /\ ipc \in Patching \cup Ending =>
        Live \cup (FreeNT \cap Beside(medium)) \subseteq disk.WNT

(* With an image: step 4 leaves nothing of Microsoft's, and step 6 all of  *)
(* FreeNT's that is beside the installer; and the image is in C:\Windows,  *)
(* then in C:\WNT, if that was free for the rename.                        *)
ImageInv ==
    ~config.kernel =>
        /\ ipc \in Patching \cup Ending => {"ms", "boot"} \cap disk.WNT = {}
        /\ ipc \in Ending => FreeNT \cap Beside(medium) \subseteq disk.WNT
        /\ ~Exists(before.WNT) =>
              /\ ipc = "rename" /\ config.wim = "image" => "image" \in disk.Windows
              /\ ipc \in {"remove"} \cup Patching \cup Ending =>
                    ~Exists(disk.Windows) /\ (config.wim = "image" => "image" \in disk.WNT)

(* The boot entry is written at the end.                                   *)
EntryInv ==
    ipc = "done" =>
        /\ config.style = "B" => disk.entry = "mbr"
        /\ config.style = "U" /\ config.kernel /\ "S" \in disk.volumes => disk.entry = "efi"

(* InstallClaims, step by step.                                            *)
SoundInv == Sound => KernelInv /\ ImageInv /\ EntryInv

InstallInv == RouteInv /\ KeptInv /\ BroughtInv /\ SoundInv

(* WinPE is booted from an ISO that no later build replaces.               *)
TakenInv ==
    /\ medium # {} => medium = iso.image /\ builds = MaxBuilds /\ Resting
    /\ ipc # "off" => medium # {}

DeployInv == DeployTypeOK /\ MediumInv /\ TakenInv /\ InstallInv

(***************************************************************************)
(* The steps of the build.                                                 *)
(***************************************************************************)
LEMMA StoredMedium ==
  \A b : /\ LaunchIni # {} /\ LaunchIni \subseteq Sure(b) /\ Sure(b) \subseteq May(b)
         /\ WinPE \cup Injected(b) \subseteq Sure(b)
  BY DEF Sure, May, LaunchIni

\* Everything has its place in an image.
LEMMA ImageParts ==
  ASSUME NEW b \in Builds \cup {{}}
  PROVE  WinPE \in Image /\ LaunchIni \in Image /\ Injected(b) \in Image /\ Tried(b) \in Image
<1>1. b \subseteq Artifacts
  BY IsoBuildAssumption
<1>2. \A a \in b : a \in Names
  BY <1>1 DEF Names
<1>3. WinPE \in Image /\ LaunchIni \in Image
  BY DEF WinPE, LaunchIni, Image, Names, Places, Artifacts
<1>4. Injected(b) \in Image
  BY <1>2 DEF Injected, Image, Places, Names, Artifacts
<1>5. Tried(b) \in Image
  BY <1>2 DEF Tried, Image, Places, Names, Artifacts
<1> QED
  BY <1>3, <1>4, <1>5

\* Whatever rm -rf leaves.
LEMMA LeftoverTypes ==
  ASSUME NEW w \in [wim : Image, boot : BOOLEAN, root : Image], NEW v \in {Empty} \cup Leftovers(w)
  PROVE  v \in [wim : Image, boot : BOOLEAN, root : Image]
         /\ v.wim \subseteq w.wim /\ v.root \subseteq w.root
<1>1. {} \in Image
  BY DEF Image
<1>2. CASE v = Empty
  BY <1>1, <1>2 DEF Empty
<1>3. CASE v \in Leftovers(w)
  <2>1. PICK i \in {{}, w.wim}, b \in {FALSE, w.boot}, P \in SUBSET Places :
           v = [wim |-> i, boot |-> b, root |-> {f \in w.root : f[1] \in P}]
    BY <1>3 DEF Leftovers
  <2>2. {f \in w.root : f[1] \in P} \in Image
    BY DEF Image
  <2> QED
    BY <1>1, <2>1, <2>2
<1> QED
  BY <1>2, <1>3

BuildVars == <<bpc, builds, host, built, work, fresh, iso>>

LEMMA BuildTypes ==
  ASSUME BuildTypeOK, BuildNext
  PROVE  BuildTypeOK'
<1> USE DEF BuildTypeOK, Goto
<1>0. work.wim \in Image /\ work.root \in Image /\ {} \in Image
  BY DEF Image
<1>1. CASE StartBuild
  <2>1. builds' \in 0 .. MaxBuilds
    BY <1>1, IsoBuildAssumption DEF StartBuild
  <2>2. bpc' \in {"clean", "failed"} /\ host' \in Hosts /\ built' \in Builds
    BY <1>1 DEF StartBuild
  <2> QED
    BY <1>1, <2>1, <2>2 DEF StartBuild
<1>2. CASE CleanWork
  BY <1>2, LeftoverTypes DEF CleanWork
<1>3. CASE ExtractIso
  <2>1. WinPE \in Image
    BY ImageParts
  <2> QED
    BY <1>3, <2>1 DEF ExtractIso
<1>4. CASE ExtractBootImage
  BY <1>4 DEF ExtractBootImage
<1>5. CASE FindWim
  BY <1>5 DEF FindWim
<1>6. CASE ApplyWim
  <2>1. work.root \cup work.wim \in Image
    BY <1>0 DEF Image
  <2> QED
    BY <1>6, <2>1 DEF ApplyWim
<1>7. CASE Inject
  <2>1. PICK T \in SUBSET Tried(built) :
           work' = [work EXCEPT !.root = @ \cup Injected(built) \cup T]
    BY <1>7 DEF Inject
  <2>2. work.root \cup Injected(built) \cup T \in Image
    BY <1>0, ImageParts DEF Image
  <2> QED
    BY <1>7, <2>1, <2>2 DEF Inject
<1>8. CASE ConfigureLaunch
  <2>1. work.root \cup LaunchIni \in Image
    BY <1>0, ImageParts DEF Image
  <2> QED
    BY <1>8, <2>1 DEF ConfigureLaunch
<1>9. CASE CaptureWim
  BY <1>0, <1>9 DEF CaptureWim
<1>10. CASE RemoveOutput
  BY <1>0, <1>10 DEF RemoveOutput, NoIso
<1>11. CASE MakeIso
  BY <1>0, <1>11, LeftoverTypes DEF MakeIso
<1>12. CASE FailTrapped
  BY <1>12, LeftoverTypes DEF FailTrapped
<1>13. CASE Kill
  BY <1>13 DEF Kill
<1> QED
  BY <1>1, <1>2, <1>3, <1>4, <1>5, <1>6, <1>7, <1>8, <1>9, <1>10, <1>11, <1>12, <1>13 DEF BuildNext

LEMMA MediumIsFresh == MediumInv => FreshMedium
  BY DEF MediumInv, GoodIso, FreshMedium, Sure, May

LEMMA MediumStep ==
  ASSUME BuildTypeOK, MediumInv, BuildNext
  PROVE  MediumInv'
<1> USE DEF BuildTypeOK, Goto, MediumInv
<1>1. /\ fresh => FreshWork
      /\ bpc = "apply" => work.wim # {}
      /\ bpc = "capture" => LaunchIni \subseteq work.root
      /\ bpc \in {"remove", "make"} => LaunchIni \subseteq work.wim
      /\ GoodIso /\ (bpc = "done" => iso # NoIso /\ iso.built = built)
  OBVIOUS
<1>3. ASSUME iso' = iso PROVE GoodIso'
  BY <1>1, <1>3 DEF GoodIso
<1>4. ASSUME iso' = iso, bpc' \in {"idle", "clean", "failed"}
      PROVE  MediumInv'
  BY <1>3, <1>4 DEF FreshWork
<1>5. CASE StartBuild \/ Kill
  BY <1>4, <1>5 DEF StartBuild, Kill
<1>6. CASE FailTrapped
  BY <1>4, <1>6 DEF FailTrapped
<1>7. CASE CleanWork
  BY <1>3, <1>7 DEF CleanWork, FreshWork
<1>8. CASE ExtractIso
  <2>1. fresh' = fresh /\ iso' = iso
    BY <1>8 DEF ExtractIso
  <2>2. CASE bpc' = "failed"
    BY <1>4, <2>1, <2>2
  <2>3. CASE bpc' = "torito"
    <3>1. work' = [work EXCEPT !.wim = IF host.wim THEN WinPE ELSE @] /\ bpc = "extract"
      BY <1>8, <2>3 DEF ExtractIso
    <3>2. fresh => work = [wim |-> {}, boot |-> FALSE, root |-> {}]
      BY <1>1, <3>1 DEF FreshWork, Empty
    <3>3. fresh => work'.wim \subseteq WinPE /\ work'.root = {}
      BY <3>1, <3>2
    <3> QED
      BY <1>3, <2>1, <2>3, <3>3 DEF FreshWork
  <2> QED
    BY <1>8, <2>2, <2>3 DEF ExtractIso
<1>9. CASE ExtractBootImage
  <2>1. fresh' = fresh /\ iso' = iso /\ work'.wim = work.wim /\ work'.root = work.root /\ bpc = "torito"
    BY <1>9 DEF ExtractBootImage
  <2>2. bpc' \in {"find", "failed"}
    BY <1>9 DEF ExtractBootImage
  <2>3. fresh => work.wim \subseteq WinPE /\ work.root = {}
    BY <1>1, <2>1 DEF FreshWork
  <2> QED
    BY <1>3, <2>1, <2>2, <2>3 DEF FreshWork
<1>10. CASE FindWim
  <2>1. fresh' = fresh /\ iso' = iso /\ work' = work /\ bpc = "find"
        /\ bpc' = IF work.wim = {} THEN "failed" ELSE "apply"
    BY <1>10 DEF FindWim
  <2>2. fresh => work.wim \subseteq WinPE /\ work.root = {}
    BY <1>1, <2>1 DEF FreshWork
  <2> QED
    BY <1>3, <2>1, <2>2 DEF FreshWork
<1>11. CASE ApplyWim
  <2>1. fresh' = fresh /\ iso' = iso /\ bpc = "apply"
    BY <1>11 DEF ApplyWim
  <2>2. CASE bpc' = "failed"
    BY <1>4, <2>1, <2>2
  <2>3. CASE bpc' = "inject"
    <3>1. work' = [work EXCEPT !.root = @ \cup work.wim]
      BY <1>11, <2>3 DEF ApplyWim
    <3>2. fresh => work.wim = WinPE /\ work.root = {}
      BY <1>1, <2>1 DEF FreshWork, WinPE
    <3>3. fresh => work'.root = WinPE
      BY <3>1, <3>2
    <3> QED
      BY <1>3, <2>1, <2>3, <3>3 DEF FreshWork
  <2> QED
    BY <1>11, <2>2, <2>3 DEF ApplyWim
<1>12. CASE Inject
  <2>1. PICK T \in SUBSET Tried(built) :
           work' = [work EXCEPT !.root = @ \cup Injected(built) \cup T]
    BY <1>12 DEF Inject
  <2>2. fresh' = fresh /\ iso' = iso /\ built' = built /\ bpc = "inject" /\ bpc' = "ini"
        /\ work'.root = work.root \cup Injected(built) \cup T
    BY <1>12, <2>1 DEF Inject
  <2>3. fresh => work.root = WinPE
    BY <1>1, <2>2 DEF FreshWork
  <2> QED
    BY <1>3, <2>2, <2>3 DEF FreshWork
<1>13. CASE ConfigureLaunch
  <2>1. fresh' = fresh /\ iso' = iso /\ built' = built /\ bpc = "ini" /\ bpc' = "capture"
        /\ work'.root = work.root \cup LaunchIni
    BY <1>13 DEF ConfigureLaunch
  <2>2. fresh => /\ WinPE \cup Injected(built) \subseteq work.root
                 /\ work.root \subseteq WinPE \cup Injected(built) \cup Tried(built)
    BY <1>1, <2>1 DEF FreshWork
  <2>3. fresh => Sure(built) \subseteq work'.root /\ work'.root \subseteq May(built)
    BY <2>1, <2>2 DEF Sure, May
  <2> QED
    BY <1>3, <2>1, <2>3 DEF FreshWork
<1>14. CASE CaptureWim
  <2>1. fresh' = fresh /\ iso' = iso /\ built' = built /\ bpc = "capture" /\ bpc' = "remove"
        /\ work'.wim = work.root
    BY <1>14 DEF CaptureWim
  <2> QED
    BY <1>1, <1>3, <2>1 DEF FreshWork
<1>15. CASE RemoveOutput
  <2>1. fresh' = fresh /\ iso' = NoIso /\ built' = built /\ work' = work
        /\ bpc = "remove" /\ bpc' = "make"
    BY <1>15 DEF RemoveOutput
  <2> QED
    BY <1>1, <2>1 DEF FreshWork, GoodIso
<1>16. CASE MakeIso
  <2>1. fresh' = fresh /\ built' = built /\ bpc = "make" /\ bpc' = "done"
        /\ iso' = [image |-> work.wim, built |-> built, fresh |-> fresh]
    BY <1>16 DEF MakeIso
  <2>2. iso' # NoIso
    BY <1>1, <2>1, StoredMedium DEF NoIso
  <2>3. GoodIso'
    BY <1>1, <2>1 DEF FreshWork, GoodIso
  <2> QED
    BY <2>1, <2>2, <2>3 DEF FreshWork
<1> QED
  BY <1>5, <1>6, <1>7, <1>8, <1>9, <1>10, <1>11, <1>12, <1>13, <1>14, <1>15, <1>16 DEF BuildNext

(***************************************************************************)
(* The steps of the installation.                                          *)
(***************************************************************************)
(* What the trees may hold.                                                *)
LEMMA CopiedTree ==
  ASSUME NEW items, "dir" \in items, NEW tree \in Tree(items), NEW T \in SUBSET items,
         NEW c \in Copied(tree, T)
  PROVE  /\ c \in Tree(items) /\ T \subseteq c /\ c \subseteq tree \cup T \cup {"dir"}
         /\ T \cap NTs = {} => tree \subseteq c
<1>1. CASE T = {}
  BY <1>1 DEF Copied
<1>2. CASE T # {}
  <2>1. PICK R \in SUBSET (IF T \cap NTs = {} THEN {} ELSE (tree \cap NTs) \ T) :
           c = (tree \ R) \cup T \cup {"dir"}
    BY <1>2 DEF Copied
  <2>2. tree \subseteq items
    BY DEF Tree
  <2> QED
    BY <2>1, <2>2 DEF Tree
<1> QED
  BY <1>1, <1>2

LEMMA RemovedTree ==
  ASSUME NEW items, NEW tree \in Tree(items), NEW T \in SUBSET {"ms", "boot"}
  PROVE  tree \ T \in Tree(items)
  BY DEF Tree

LEMMA DiskFields ==
  disk \in Disk => /\ disk.volumes \in SUBSET {"C", "S"}
                   /\ disk.Windows \in Tree(Item \ Artifacts) /\ disk.WNT \in Tree(Item)
                   /\ disk.hive \in SUBSET (PatchKeys \cup {SessionManager})
                   /\ disk.entry \in {"none", "efi", "mbr"}
                   /\ disk = [volumes |-> disk.volumes, Windows |-> disk.Windows,
                              WNT |-> disk.WNT, hive |-> disk.hive, entry |-> disk.entry]
  BY DEF Disk

LEMMA ItemParts ==
  ASSUME NEW image \in Image
  PROVE  /\ InSystem(image) \subseteq Artifacts /\ Beside(image) \subseteq Artifacts
         /\ {"dir", "ms", "boot", "winpe", "image", "old"} \cup Artifacts = Item
         /\ {"dir", "ms", "boot", "winpe", "image", "old"} \cap Artifacts = {}
         /\ FreeNT \cup {"native"} \subseteq Artifacts
  BY DEF InSystem, Beside, Item, NTs, Artifacts, FreeNT

(* Steps between the screens.                                              *)
LEMMA StillAsking ==
  ASSUME InstallTypeOK, InstallInv, UNCHANGED <<disk, before, medium>>,
         ipc \in Asking, ipc' \in Asking, ipc' = "wim" => ~config'.kernel
  PROVE  InstallInv'
<1>1. RouteInv' /\ KeptInv' /\ BroughtInv'
  BY DEF InstallInv, RouteInv, KeptInv, BroughtInv, Asking
<1>2. SoundInv'
  BY DEF SoundInv, KernelInv, ImageInv, EntryInv, Asking, Patching, Ending
<1> QED
  BY <1>1, <1>2 DEF InstallInv

(* The run ends, or stops.                                                 *)
LEMMA NotRunning ==
  ASSUME BroughtInv', ipc' \in {"off", "shell"}
  PROVE  InstallInv'
<1>1. SoundInv'
  BY DEF SoundInv, KernelInv, ImageInv, EntryInv, Patching, Ending
<1> QED
  BY <1>1 DEF InstallInv, RouteInv, KeptInv, Asking

LEMMA StartStep ==
  ASSUME InstallTypeOK, InstallInv, StartInstaller
  PROVE  InstallTypeOK' /\ InstallInv'
<1>1. /\ config' \in Configs /\ ipc' = "style" /\ before' = disk /\ fault' = FALSE
      /\ medium' = medium /\ loaded' = loaded /\ disk' = disk
      /\ installs < MaxInstalls /\ installs' = installs + 1
  BY DEF StartInstaller
<1>2. InstallTypeOK'
  <2>1. installs' \in 0 .. MaxInstalls
    BY <1>1, InstallerAssumption DEF InstallTypeOK
  <2> QED
    BY <1>1, <2>1 DEF InstallTypeOK
<1>3. RouteInv' /\ KeptInv' /\ BroughtInv'
  BY <1>1 DEF RouteInv, KeptInv, BroughtInv, Asking
<1>4. SoundInv'
  BY <1>1 DEF SoundInv, KernelInv, ImageInv, EntryInv, Patching, Ending
<1> QED
  BY <1>2, <1>3, <1>4 DEF InstallInv

LEMMA ScreenStep ==
  ASSUME InstallTypeOK, InstallInv, ChooseStyle \/ ChooseImage \/ Summary \/ Quit
  PROVE  InstallTypeOK' /\ InstallInv'
<1> USE DEF Advance
<1>1. UNCHANGED <<disk, before, medium, loaded, installs>> /\ fault' = fault
  BY DEF ChooseStyle, ChooseImage, Summary, Quit, InstallTypeOK
<1>2. CASE ChooseStyle
  <2>1. PICK style \in {"U", "B"} : config' = [config EXCEPT !.style = style]
    BY <1>2 DEF ChooseStyle
  <2>2. config' \in Configs /\ config'.kernel = config.kernel
    BY <2>1 DEF InstallTypeOK, Configs
  <2>3. ipc = "style" /\ ipc' \in {"summary", "wim"} /\ (ipc' = "wim" => ~config.kernel)
    BY <1>2 DEF ChooseStyle
  <2>4. InstallTypeOK'
    BY <1>1, <2>2, <2>3 DEF InstallTypeOK
  <2>5. InstallInv'
    BY <1>1, <2>2, <2>3, StillAsking DEF Asking
  <2> QED
    BY <2>4, <2>5
<1>3. CASE ChooseImage
  <2>1. ipc = "wim" /\ ipc' \in {"summary", "wim"}
    BY <1>3 DEF ChooseImage
  <2>2. ~config.kernel
    BY <2>1 DEF InstallInv, RouteInv
  <2>3. PICK wim \in {config.wim, "none", "image", "wrong"} : config' = [config EXCEPT !.wim = wim]
    BY <1>3 DEF ChooseImage
  <2>4. config' \in Configs /\ config'.kernel = config.kernel
    BY <2>2, <2>3 DEF InstallTypeOK, Configs
  <2>5. InstallTypeOK'
    BY <1>1, <2>1, <2>4 DEF InstallTypeOK
  <2>6. InstallInv'
    BY <1>1, <2>1, <2>2, <2>4, StillAsking DEF Asking
  <2> QED
    BY <2>5, <2>6
<1>4. CASE Summary
  <2>1. InstallTypeOK'
    BY <1>1, <1>4 DEF Summary, InstallTypeOK
  <2>2. InstallInv'
    BY <1>1, <1>4, StillAsking DEF Summary, Asking
  <2> QED
    BY <2>1, <2>2
<1>5. CASE Quit
  <2>1. InstallTypeOK'
    BY <1>1, <1>5 DEF Quit, InstallTypeOK
  <2>2. BroughtInv'
    BY <1>1 DEF InstallInv, BroughtInv
  <2> QED
    BY <1>5, <2>1, <2>2, NotRunning DEF Quit
<1> QED
  BY <1>2, <1>3, <1>4, <1>5

(* diskpart stops at its first line.                                       *)
LEMMA PartitionStep ==
  ASSUME InstallTypeOK, InstallInv, Partition
  PROVE  InstallTypeOK' /\ InstallInv'
<1>1. ipc = "partition" /\ ipc' = "image" /\ fault' = (fault \/ FALSE)
      /\ UNCHANGED <<before, medium, installs, config, loaded>>
  BY DEF Partition, Advance
<1>2. disk' = disk
  <2>1. Head(DiskpartScript) # "select"
    BY DEF DiskpartScript
  <2> QED
    BY <2>1 DEF Partition, Diskpart
<1>3. InstallTypeOK'
  BY <1>1, <1>2 DEF InstallTypeOK
<1> QED
  BY <1>1, <1>2, <1>3, StillAsking DEF Asking

LEMMA EndStep ==
  ASSUME InstallTypeOK, InstallInv, SwitchOff \/ Overrun
  PROVE  InstallTypeOK' /\ InstallInv'
<1>1. /\ UNCHANGED <<disk, before, medium, installs, config>> /\ ipc' \in {"off", "shell"}
      /\ loaded' \in BOOLEAN /\ fault' = fault
  BY DEF SwitchOff, Overrun, Advance, InstallTypeOK
<1>2. InstallTypeOK'
  BY <1>1 DEF InstallTypeOK
<1>3. BroughtInv'
  BY <1>1 DEF InstallInv, BroughtInv
<1> QED
  BY <1>1, <1>2, <1>3, NotRunning

LEMMA CopyKernelStep ==
  ASSUME InstallTypeOK, InstallInv, CopyKernel
  PROVE  InstallTypeOK' /\ InstallInv'
<1> DEFINE Own == (FreeNT \cup {"native"}) \cap Beside(medium)
<1>0. PICK T \in SUBSET Reach(Live), U \in SUBSET Reach(Own) :
         /\ Advance("image", "load", T # Reach(Live) \/ U # Reach(Own))
         /\ \E tree \in Copied(disk.WNT, T \cup U), h \in {disk.hive, {}} :
               disk' = [disk EXCEPT !.WNT = tree, !.hive = h]
  BY DEF CopyKernel
<1>1. PICK tree \in Copied(disk.WNT, T \cup U), h \in {disk.hive, {}} :
         disk' = [disk EXCEPT !.WNT = tree, !.hive = h]
  BY <1>0
<1>2. /\ config.kernel /\ ipc = "image" /\ ipc' = "load"
      /\ fault' = (fault \/ T # Reach(Live) \/ U # Reach(Own))
      /\ UNCHANGED <<before, medium, installs, config, loaded>>
  BY <1>0 DEF CopyKernel, Advance
<1>3. medium \in Image /\ disk \in Disk /\ fault \in BOOLEAN
  BY DEF InstallTypeOK
<1>4. /\ T \subseteq Live /\ U \subseteq Own /\ Live \cup Own \subseteq Item /\ "dir" \in Item
      /\ Live \cap Artifacts = InSystem(medium) /\ Own \subseteq Beside(medium)
  <2>1. T \subseteq Live /\ U \subseteq Own
    BY DEF Reach
  <2> QED
    BY <1>3, <2>1, ItemParts DEF Live
<1>5. tree \in Tree(Item) /\ T \cup U \subseteq tree /\ tree \subseteq disk.WNT \cup T \cup U \cup {"dir"}
  BY <1>3, <1>4, DiskFields, CopiedTree
<1>6. disk'.WNT = tree /\ disk'.volumes = disk.volumes /\ disk' \in Disk
  BY <1>1, <1>3, <1>5, DiskFields DEF Disk
<1>7. InstallTypeOK'
  BY <1>2, <1>6 DEF InstallTypeOK
<1>8. RouteInv' /\ KeptInv'
  BY <1>2 DEF RouteInv, KeptInv, Asking
<1>9. BroughtInv'
  <2>1. "dir" \notin Artifacts
    BY DEF Artifacts
  <2> QED
    BY <1>2, <1>4, <1>5, <1>6, <2>1 DEF InstallInv, BroughtInv
<1>10. SoundInv'
  <2> SUFFICES ASSUME Sound' PROVE KernelInv' /\ ImageInv' /\ EntryInv'
    BY DEF SoundInv
  <2>1. T = Live /\ U = Own
    BY <1>2, <1>3, <1>6 DEF Sound, Reach
  <2>2. KernelInv'
    BY <1>2, <1>5, <1>6, <2>1 DEF KernelInv, Live
  <2>3. ImageInv' /\ EntryInv'
    BY <1>2 DEF ImageInv, EntryInv
  <2> QED
    BY <2>2, <2>3
<1> QED
  BY <1>7, <1>8, <1>9, <1>10 DEF InstallInv

LEMMA ApplyImageStep ==
  ASSUME InstallTypeOK, InstallInv, ApplyImage
  PROVE  InstallTypeOK' /\ InstallInv'
<1> DEFINE Files == IF config.wim = "image" THEN {"image", "ms", "boot"} ELSE {}
<1>0. PICK T \in SUBSET Reach(Files) :
         /\ Advance("image", "rename", T # Reach(Files))
         /\ \E tree \in Copied(disk.Windows, T) : disk' = [disk EXCEPT !.Windows = tree]
  BY DEF ApplyImage
<1>1. PICK tree \in Copied(disk.Windows, T) : disk' = [disk EXCEPT !.Windows = tree]
  BY <1>0
<1>2. /\ ~config.kernel /\ ipc = "image" /\ ipc' = "rename" /\ fault' = (fault \/ T # Reach(Files))
      /\ UNCHANGED <<before, medium, installs, config, loaded>>
  BY <1>0 DEF ApplyImage, Advance
<1>3. medium \in Image /\ disk \in Disk /\ fault \in BOOLEAN
  BY DEF InstallTypeOK
<1>4. T \subseteq Item \ Artifacts /\ "dir" \in Item \ Artifacts
  <2>1. T \subseteq {"image", "ms", "boot"}
    BY DEF Reach
  <2> QED
    BY <2>1 DEF Item, NTs, Artifacts
<1>5. tree \in Tree(Item \ Artifacts) /\ T \subseteq tree
  BY <1>3, <1>4, DiskFields, CopiedTree
<1>6. disk'.Windows = tree /\ disk'.WNT = disk.WNT /\ disk'.volumes = disk.volumes /\ disk' \in Disk
  BY <1>1, <1>3, <1>5, DiskFields DEF Disk
<1>7. InstallTypeOK'
  BY <1>2, <1>6 DEF InstallTypeOK
<1>8. RouteInv' /\ KeptInv' /\ BroughtInv'
  BY <1>2, <1>6 DEF InstallInv, RouteInv, KeptInv, BroughtInv, Asking
<1>9. SoundInv'
  <2> SUFFICES ASSUME Sound' PROVE KernelInv' /\ ImageInv' /\ EntryInv'
    BY DEF SoundInv
  <2>1. T = Files
    BY <1>2, <1>3, <1>6 DEF Sound, Reach
  <2>2. ImageInv'
    BY <1>2, <1>5, <1>6, <2>1 DEF ImageInv, Patching, Ending
  <2>3. KernelInv' /\ EntryInv'
    BY <1>2 DEF KernelInv, EntryInv
  <2> QED
    BY <2>2, <2>3
<1> QED
  BY <1>7, <1>8, <1>9 DEF InstallInv

LEMMA RenameStep ==
  ASSUME InstallTypeOK, InstallInv, RenameWindows
  PROVE  InstallTypeOK' /\ InstallInv'
<1>1. /\ ipc = "rename" /\ ipc' = "remove" /\ ~config.kernel /\ disk.WNT = before.WNT
      /\ UNCHANGED <<before, medium, installs, config, loaded>>
      /\ fault' \in BOOLEAN /\ (fault => fault') /\ disk \in Disk /\ fault \in BOOLEAN
  BY DEF RenameWindows, Advance, InstallInv, RouteInv, KeptInv, InstallTypeOK
<1>2. ASSUME Sound, ~Exists(before.WNT), config.wim = "image" PROVE "image" \in disk.Windows
  BY <1>1, <1>2 DEF InstallInv, SoundInv, ImageInv
<1>3. RouteInv' /\ KeptInv' /\ KernelInv' /\ EntryInv'
  BY <1>1 DEF RouteInv, KeptInv, KernelInv, EntryInv, Asking
<1>4. CASE Exists(disk.Windows) /\ ~Exists(disk.WNT) /\ disk' = [disk EXCEPT !.WNT = disk.Windows, !.Windows = {}, !.hive = {}]
  <2>1. disk.Windows \in Tree(Item) /\ {} \in Tree(Item \ Artifacts) /\ disk.Windows \cap Artifacts = {}
    BY <1>1, DiskFields DEF Tree
  <2>2. /\ disk'.Windows = {} /\ disk'.WNT = disk.Windows /\ disk'.volumes = disk.volumes
        /\ disk' \in Disk
    BY <1>1, <1>4, <2>1, DiskFields DEF Disk
  <2>3. InstallTypeOK'
    BY <1>1, <2>2 DEF InstallTypeOK
  <2>4. BroughtInv'
    BY <2>1, <2>2 DEF BroughtInv
  <2>5. Sound' => ImageInv'
    BY <1>1, <1>2, <2>2 DEF Sound, ImageInv, Patching, Ending, Exists
  <2> QED
    BY <1>3, <2>3, <2>4, <2>5 DEF InstallInv, SoundInv
<1>5. CASE disk' = disk /\ fault' = (fault \/ (Exists(disk.Windows) /\ ~Exists(disk.WNT)))
  <2>1. InstallTypeOK'
    BY <1>1, <1>5 DEF InstallTypeOK
  <2>2. BroughtInv'
    BY <1>1, <1>5 DEF InstallInv, BroughtInv
  <2>3. Sound' => ImageInv'
    <3> SUFFICES ASSUME Sound', ~Exists(before.WNT)
                 PROVE  ~Exists(disk.Windows) /\ config.wim # "image"
      BY <1>1, <1>5 DEF ImageInv, Patching, Ending
    <3>1. ~Exists(disk.Windows)
      BY <1>1, <1>5 DEF Sound
    <3>2. disk.Windows = {}
      BY <1>1, <3>1, DiskFields DEF Tree, Exists
    <3> QED
      BY <1>1, <1>2, <1>5, <3>1, <3>2 DEF Sound
  <2> QED
    BY <1>3, <2>1, <2>2, <2>3 DEF InstallInv, SoundInv
<1> QED
  BY <1>4, <1>5 DEF RenameWindows, Advance

LEMMA RemoveStep ==
  ASSUME InstallTypeOK, InstallInv, RemoveMicrosoft
  PROVE  InstallTypeOK' /\ InstallInv'
<1>1. PICK T \in SUBSET ({"ms", "boot"} \cap disk.WNT) :
         /\ \/ Advance("remove", "load", {"ms", "boot"} \cap disk.WNT # T)
            \/ "boot" \notin T /\ Advance("remove", "shell", FALSE)
         /\ disk' = [disk EXCEPT !.WNT = @ \ T]
  BY DEF RemoveMicrosoft
<1>2. /\ ipc = "remove" /\ ipc' \in {"load", "shell"} /\ ~config.kernel
      /\ UNCHANGED <<before, medium, installs, config, loaded>>
      /\ fault' \in BOOLEAN /\ (fault => fault') /\ disk \in Disk /\ fault \in BOOLEAN
      /\ ipc' = "load" /\ ~fault' => T = {"ms", "boot"} \cap disk.WNT
  BY <1>1 DEF RemoveMicrosoft, Advance, InstallInv, RouteInv, InstallTypeOK
<1>3. /\ disk'.Windows = disk.Windows /\ disk'.WNT = disk.WNT \ T
      /\ disk'.volumes = disk.volumes /\ disk' \in Disk
  <2>1. disk.WNT \ T \in Tree(Item)
    BY <1>2, DiskFields, RemovedTree
  <2> QED
    BY <1>1, <1>2, <2>1, DiskFields DEF Disk
<1>4. InstallTypeOK'
  BY <1>2, <1>3 DEF InstallTypeOK
<1>5. BroughtInv'
  BY <1>2, <1>3 DEF InstallInv, BroughtInv
<1>6. CASE ipc' = "shell"
  BY <1>4, <1>5, <1>6, NotRunning
<1>7. CASE ipc' = "load"
  <2>1. RouteInv' /\ KeptInv' /\ KernelInv' /\ EntryInv'
    BY <1>2, <1>7 DEF RouteInv, KeptInv, KernelInv, EntryInv, Asking
  <2>2. ASSUME Sound' PROVE ImageInv'
    <3>1. ImageInv
      BY <1>2, <1>3, <2>2 DEF Sound, InstallInv, SoundInv
    <3>2. {"ms", "boot"} \cap disk'.WNT = {} /\ ("image" \in disk.WNT => "image" \in disk'.WNT)
      BY <1>2, <1>3, <1>7, <2>2 DEF Sound
    <3> QED
      BY <1>2, <1>3, <1>7, <3>1, <3>2 DEF ImageInv, Patching, Ending
  <2> QED
    BY <1>4, <1>5, <2>1, <2>2 DEF InstallInv, SoundInv
<1> QED
  BY <1>2, <1>6, <1>7

(* A step of steps 5 to 7, which adds to C:\WNT.                           *)
LEMMA AddingStep ==
  ASSUME InstallTypeOK, InstallInv,
         UNCHANGED <<before, medium, config, installs>>, loaded' \in BOOLEAN,
         fault' \in BOOLEAN, fault => fault',
         ipc \in Patching \cup {"native"}, ipc' \in Patching \cup Ending, ipc' # "done",
         disk' \in Disk, disk'.Windows = disk.Windows, disk'.volumes = disk.volumes,
         disk.WNT \subseteq disk'.WNT,
         disk'.WNT \subseteq disk.WNT \cup Beside(medium) \cup {"dir"},
         ~config.kernel /\ ~fault' /\ ipc' \in Ending /\ "C" \in disk.volumes =>
            ipc \in Ending \/ FreeNT \cap Beside(medium) \subseteq disk'.WNT
  PROVE  InstallTypeOK' /\ InstallInv'
<1>1. /\ ipc \notin {"off", "shell", "style", "wim", "summary", "partition", "image", "rename", "remove"}
      /\ ipc' \notin {"off", "shell", "style", "wim", "summary", "partition", "image", "rename", "remove"}
  BY DEF Patching, Ending
<1>2. InstallTypeOK'
  BY DEF InstallTypeOK, Patching, Ending
<1>3. RouteInv' /\ KeptInv'
  BY <1>1 DEF RouteInv, KeptInv, Asking
<1>4. BroughtInv'
  <2>1. "dir" \notin Artifacts
    BY DEF Artifacts
  <2> QED
    BY <2>1 DEF InstallInv, BroughtInv
<1>5. SoundInv'
  <2> SUFFICES ASSUME Sound' PROVE KernelInv' /\ ImageInv' /\ EntryInv'
    BY DEF SoundInv
  <2>1. KernelInv /\ ImageInv /\ ~fault' /\ "C" \in disk.volumes
    BY DEF Sound, InstallInv, SoundInv, InstallTypeOK
  <2>2. KernelInv'
    BY <2>1 DEF KernelInv, Patching, Ending, Live
  <2>3. ImageInv'
    <3>1. {"ms", "boot"} \cap disk'.WNT \subseteq {"ms", "boot"} \cap disk.WNT
      <4>1. medium \in Image
        BY DEF InstallTypeOK
      <4> QED
        BY <4>1, ItemParts
    <3> QED
      BY <1>1, <2>1, <3>1 DEF ImageInv, Patching, Ending
  <2>4. EntryInv'
    BY DEF EntryInv
  <2> QED
    BY <2>2, <2>3, <2>4
<1> QED
  BY <1>2, <1>3, <1>4, <1>5 DEF InstallInv

(* The name of the loaded hive goes in front of a key, and Tail takes it   *)
(* away again.                                                             *)
LEMMA TailOfRedirect == \A k \in PatchKeys : Tail(Redirect(k)) = k
<1>1. ASSUME NEW S, NEW x \in S, NEW s \in Seq(S) PROVE Tail(<<x>> \o s) = s
  <2>1. <<x>> \in Seq(S) /\ Len(<<x>>) = 1
    OBVIOUS
  <2>2. /\ <<x>> \o s \in Seq(S) /\ Len(<<x>> \o s) = 1 + Len(s)
        /\ \A i \in 1..Len(s) : (<<x>> \o s)[i + 1] = s[i]
    BY <2>1, ConcatProperties
  <2>3. <<x>> \o s # <<>> /\ Len(s) \in Nat
    BY <2>2
  <2>4. /\ Tail(<<x>> \o s) \in Seq(S) /\ Len(Tail(<<x>> \o s)) = Len(s)
        /\ \A i \in 1..Len(s) : Tail(<<x>> \o s)[i] = (<<x>> \o s)[i + 1]
    BY <2>2, <2>3, HeadTailProperties
  <2> QED
    BY <2>2, <2>4, SeqEqual
<1> DEFINE Words == {"FreeNT_System", "SOFTWARE", "CurrentVersion", "SYSTEM", "Session Manager"}
<1>2. <<"SOFTWARE", "CurrentVersion">> \in Seq(Words) /\ <<"SYSTEM", "Session Manager">> \in Seq(Words)
  OBVIOUS
<1>3. PatchKeys \subseteq Seq(Words) /\ "FreeNT_System" \in Words
  BY <1>2 DEF PatchKeys
<1> HIDE DEF Words
<1> QED
  BY <1>1, <1>3 DEF Redirect

LEMMA HiveStep ==
  ASSUME InstallTypeOK, InstallInv, LoadHive \/ PatchHive \/ UnloadHive
  PROVE  InstallTypeOK' /\ InstallInv'
<1> USE DEF Advance
<1>1. /\ UNCHANGED <<before, medium, config, installs>> /\ loaded' \in BOOLEAN
      /\ fault' \in BOOLEAN /\ (fault => fault') /\ disk \in Disk
      /\ ipc \in {"load", "patch", "unload"} /\ ipc' \in {"patch", "unload", "components"}
  BY DEF LoadHive, PatchHive, UnloadHive, InstallTypeOK
<1>2. /\ disk' \in Disk /\ disk'.Windows = disk.Windows /\ disk'.volumes = disk.volumes
      /\ disk'.WNT = disk.WNT
  <2>1. CASE LoadHive \/ UnloadHive
    BY <1>1, <2>1 DEF LoadHive, UnloadHive
  <2>2. CASE PatchHive
    <3>1. PICK K \in SUBSET PatchKeys : disk' = [disk EXCEPT !.hive = @ \cup K]
      BY <2>2, TailOfRedirect DEF PatchHive
    <3>2. disk.hive \cup K \in SUBSET (PatchKeys \cup {SessionManager})
      BY <1>1, DiskFields
    <3> QED
      BY <1>1, <3>1, <3>2, DiskFields DEF Disk
  <2> QED
    BY <2>1, <2>2
<1>3. ipc \in Patching /\ ipc' \in Patching /\ ipc' \notin Ending /\ ipc' # "done"
  BY <1>1 DEF Patching, Ending
<1> QED
  BY <1>1, <1>2, <1>3, AddingStep

LEMMA CopyStep ==
  ASSUME InstallTypeOK, InstallInv, CopyComponents \/ CopyNative
  PROVE  InstallTypeOK' /\ InstallInv'
<1>1. PICK own \in SUBSET Beside(medium) :
         \/ /\ CopyOwn("components", "native", own)
            /\ ~config.kernel => own = FreeNT \cap Beside(medium)
         \/ CopyOwn("native", "boot", own)
  <2>1. CASE CopyComponents
    BY <2>1 DEF CopyComponents
  <2>2. CASE CopyNative
    BY <2>2 DEF CopyNative
  <2> QED
    BY <2>1, <2>2
<1>0. PICK T \in SUBSET Reach(own) :
         /\ fault' = (fault \/ T # Reach(own))
         /\ \E tree \in Copied(disk.WNT, T) : disk' = [disk EXCEPT !.WNT = tree]
         /\ \/ /\ ipc = "components" /\ ipc' = "native"
               /\ ~config.kernel => own = FreeNT \cap Beside(medium)
            \/ ipc = "native" /\ ipc' = "boot"
  BY <1>1 DEF CopyOwn, Advance
<1>2. PICK tree \in Copied(disk.WNT, T) : disk' = [disk EXCEPT !.WNT = tree]
  BY <1>0
<1>3. /\ UNCHANGED <<before, medium, config, installs>> /\ loaded' \in BOOLEAN
      /\ fault \in BOOLEAN /\ disk \in Disk /\ medium \in Image
  BY DEF CopyComponents, CopyNative, CopyOwn, Advance, InstallTypeOK
<1>4. T \subseteq own /\ T \subseteq Item /\ "dir" \in Item /\ T \cap NTs = {}
  <2>1. T \subseteq own
    BY DEF Reach
  <2>2. T \subseteq Artifacts
    BY <1>3, <2>1, ItemParts
  <2> QED
    BY <2>1, <2>2 DEF Item, NTs, Artifacts
<1>5. /\ tree \in Tree(Item) /\ disk.WNT \subseteq tree /\ T \subseteq tree
      /\ tree \subseteq disk.WNT \cup Beside(medium) \cup {"dir"}
  <2>1. disk.WNT \in Tree(Item)
    BY <1>3, DiskFields
  <2>2. /\ tree \in Tree(Item) /\ disk.WNT \subseteq tree /\ T \subseteq tree
        /\ tree \subseteq disk.WNT \cup T \cup {"dir"}
    BY <1>4, <2>1, CopiedTree
  <2> QED
    BY <1>4, <2>2
<1>6. /\ disk'.Windows = disk.Windows /\ disk'.WNT = tree
      /\ disk'.volumes = disk.volumes /\ disk' \in Disk
  BY <1>2, <1>3, <1>5, DiskFields DEF Disk
<1>7. /\ ipc \in Patching \cup {"native"} /\ ipc' \in Patching \cup Ending /\ ipc' # "done"
      /\ ipc = "native" => ipc \in Ending
  BY <1>0 DEF Patching, Ending
<1>8. \/ "C" \in disk.volumes /\ Reach(own) = own
      \/ "C" \notin disk.volumes
  BY DEF Reach
<1>9. ~config.kernel /\ ~fault' /\ ipc' \in Ending /\ "C" \in disk.volumes =>
          ipc \in Ending \/ FreeNT \cap Beside(medium) \subseteq disk'.WNT
  BY <1>0, <1>3, <1>5, <1>6, <1>7, <1>8
<1> QED
  BY <1>0, <1>3, <1>5, <1>6, <1>7, <1>9, AddingStep

LEMMA WriteBootStep ==
  ASSUME InstallTypeOK, InstallInv, WriteBoot
  PROVE  InstallTypeOK' /\ InstallInv'
<1> DEFINE Can == IF config.style = "U" THEN "S" \in disk.volumes /\ "boot" \in disk.WNT
                                       ELSE "C" \in disk.volumes
           Entry == IF config.style = "U" THEN "efi" ELSE "mbr"
<1>1. /\ ipc = "boot" /\ ipc' = "done" /\ disk \in Disk /\ config.style \in {"U", "B"}
      /\ UNCHANGED <<before, medium, installs, config, loaded>>
      /\ \/ Can /\ fault' = (fault \/ FALSE) /\ disk' = [disk EXCEPT !.entry = Entry]
         \/ fault' = (fault \/ Can) /\ disk' = disk
  BY DEF WriteBoot, Advance, InstallTypeOK, Configs
<1>2. /\ disk' \in Disk /\ disk'.Windows = disk.Windows /\ disk'.WNT = disk.WNT
      /\ disk'.volumes = disk.volumes
  BY <1>1, DiskFields DEF Disk
<1>3. InstallTypeOK'
  BY <1>1, <1>2 DEF InstallTypeOK
<1>4. RouteInv' /\ KeptInv' /\ BroughtInv'
  BY <1>1, <1>2 DEF InstallInv, RouteInv, KeptInv, BroughtInv, Asking
<1>5. SoundInv'
  <2> SUFFICES ASSUME Sound' PROVE KernelInv' /\ ImageInv' /\ EntryInv'
    BY DEF SoundInv
  <2>1. /\ KernelInv /\ ImageInv /\ "C" \in disk.volumes
        /\ \/ Can /\ disk' = [disk EXCEPT !.entry = Entry]
           \/ ~Can
    BY <1>1, <1>2 DEF Sound, InstallInv, SoundInv, InstallTypeOK
  <2>2. KernelInv' /\ ImageInv'
    BY <1>1, <1>2, <2>1 DEF KernelInv, ImageInv, Live, Patching, Ending
  <2>3. config.kernel => "boot" \in disk.WNT
    BY <1>1, <2>1 DEF KernelInv, Live, Ending
  <2>4. EntryInv'
    BY <1>1, <1>2, <2>1, <2>3, DiskFields DEF EntryInv
  <2> QED
    BY <2>2, <2>4
<1> QED
  BY <1>3, <1>4, <1>5 DEF InstallInv

LEMMA InstallStep ==
  ASSUME InstallTypeOK, InstallInv, InstallNext
  PROVE  InstallTypeOK' /\ InstallInv'
  BY StartStep, ScreenStep, PartitionStep, CopyKernelStep, ApplyImageStep, RenameStep, RemoveStep,
     HiveStep, CopyStep, WriteBootStep, EndStep DEF InstallNext

LEMMA BootStep ==
  ASSUME InstallTypeOK, InstallInv, NEW image \in Image, Boot(image), medium = {} \/ image = medium
  PROVE  InstallTypeOK' /\ InstallInv'
<1>1. InstallTypeOK'
  BY DEF Boot, InstallTypeOK
<1>2. BroughtInv'
  BY DEF Boot, InstallInv, BroughtInv, Beside, InSystem
<1> QED
  BY <1>1, <1>2, NotRunning DEF Boot

(* What does not change with the state of the installer.                   *)
LEMMA InstallStays ==
  ASSUME InstallTypeOK, InstallInv, UNCHANGED installVars
  PROVE  InstallTypeOK' /\ InstallInv'
<1>1. InstallTypeOK' /\ RouteInv' /\ KeptInv' /\ BroughtInv'
  BY DEF installVars, InstallTypeOK, InstallInv, RouteInv, KeptInv, BroughtInv
<1>2. SoundInv'
  BY DEF installVars, InstallInv, SoundInv, KernelInv, ImageInv, EntryInv, Sound, Live
<1> QED
  BY <1>1, <1>2 DEF InstallInv

(***************************************************************************)
(* From the build to the target.                                           *)
(***************************************************************************)
LEMMA DeployInitInv == DeployInit => DeployInv
<1> SUFFICES ASSUME DeployInit PROVE DeployInv
  OBVIOUS
<1>1. {} \in Image
  BY DEF Image
<1>2. 0 \in 0..MaxBuilds /\ 0 \in 0..MaxInstalls /\ OldDisks \subseteq Disk
  BY IsoBuildAssumption, InstallerAssumption
<1>3. BuildTypeOK
  BY <1>1, <1>2 DEF DeployInit, BuildInit, BuildTypeOK, Empty, NoIso
<1>4. InstallTypeOK
  <2>1. [style |-> "U", wim |-> "none", kernel |-> FALSE, path |-> TRUE] \in Configs
    BY DEF Configs
  <2> QED
    BY <1>1, <1>2, <2>1 DEF DeployInit, InstallInit, InstallTypeOK
<1>5. MediumInv /\ TakenInv
  BY DEF DeployInit, BuildInit, InstallInit, MediumInv, TakenInv, GoodIso, NoIso
<1>6. InstallInv
  BY DEF DeployInit, InstallInit, InstallInv, RouteInv, KeptInv, BroughtInv, SoundInv,
         KernelInv, ImageInv, EntryInv, Asking, Patching, Ending
<1> QED
  BY <1>3, <1>4, <1>5, <1>6 DEF DeployInv, DeployTypeOK

(* No build goes on once an ISO was taken along.                           *)
LEMMA BuildOver ==
  ASSUME Resting, builds = MaxBuilds, MaxBuilds \in Nat, BuildNext
  PROVE  FALSE
<1>1. bpc \in {"idle", "done", "failed"} /\ ~(builds < MaxBuilds)
  BY DEF Resting
<1> QED
  BY <1>1 DEF BuildNext, StartBuild, CleanWork, ExtractIso, ExtractBootImage, FindWim, ApplyWim,
        Inject, ConfigureLaunch, CaptureWim, RemoveOutput, MakeIso, FailTrapped, Kill, Goto, Resting

LEMMA DeployStep == DeployInv /\ [DeployNext]_deployVars => DeployInv'
<1> SUFFICES ASSUME DeployInv, [DeployNext]_deployVars PROVE DeployInv'
  OBVIOUS
<1> USE DEF DeployInv, DeployTypeOK
<1>1. ASSUME ipc = "off", BuildNext, UNCHANGED installVars PROVE DeployInv'
  <2>1. InstallTypeOK' /\ InstallInv'
    BY <1>1, InstallStays
  <2>2. BuildTypeOK' /\ MediumInv'
    BY <1>1, BuildTypes, MediumStep
  <2>3. medium = {}
    BY <1>1, BuildOver, IsoBuildAssumption DEF TakenInv
  <2>4. TakenInv'
    BY <1>1, <2>3 DEF TakenInv, installVars
  <2> QED
    BY <2>1, <2>2, <2>4
<1>2. CASE TakeIso
  <2>1. InstallTypeOK' /\ InstallInv'
    BY <1>2, BootStep DEF TakeIso, BuildTypeOK, TakenInv
  <2>2. {} \in Image /\ MaxBuilds \in 0..MaxBuilds
    BY IsoBuildAssumption DEF Image
  <2>3. BuildTypeOK'
    BY <1>2, <2>2 DEF TakeIso, BuildTypeOK, Empty
  <2>4. MediumInv'
    BY <1>2 DEF TakeIso, MediumInv, GoodIso
  <2>5. TakenInv'
    BY <1>2 DEF TakeIso, Boot, TakenInv, Resting
  <2> QED
    BY <2>1, <2>3, <2>4, <2>5
<1>3. ASSUME UNCHANGED buildVars PROVE BuildTypeOK' /\ MediumInv'
  BY <1>3 DEF buildVars, buildRun, BuildTypeOK, MediumInv, FreshWork, GoodIso
<1>4. ASSUME UNCHANGED buildVars, UNCHANGED medium, ipc' # "off" => medium # {} PROVE TakenInv'
  BY <1>4 DEF buildVars, buildRun, TakenInv, Resting
<1>5. ASSUME Boot(medium), UNCHANGED buildVars PROVE DeployInv'
  <2>1. InstallTypeOK' /\ InstallInv'
    BY <1>5, BootStep DEF InstallTypeOK
  <2>2. TakenInv'
    BY <1>4, <1>5 DEF Boot
  <2> QED
    BY <1>3, <1>5, <2>1, <2>2
<1>6. ASSUME InstallNext, UNCHANGED buildVars PROVE DeployInv'
  <2>1. InstallTypeOK' /\ InstallInv'
    BY <1>6, InstallStep
  <2>2. medium' = medium /\ ipc # "off"
    BY <1>6 DEF InstallNext, StartInstaller, ChooseStyle, ChooseImage, Summary, Quit, Partition, CopyKernel,
          ApplyImage, RenameWindows, RemoveMicrosoft, LoadHive, PatchHive, UnloadHive, CopyComponents,
          CopyNative, CopyOwn, WriteBoot, Overrun, SwitchOff, Advance
  <2>3. TakenInv'
    BY <1>4, <1>6, <2>2 DEF TakenInv
  <2> QED
    BY <1>3, <1>6, <2>1, <2>3
<1>7. CASE UNCHANGED deployVars
  <2>1. UNCHANGED installVars /\ UNCHANGED buildVars
    BY <1>7 DEF deployVars
  <2>2. medium' = medium /\ ipc' = ipc
    BY <2>1 DEF installVars
  <2>3. TakenInv'
    BY <1>4, <2>1, <2>2 DEF TakenInv
  <2> QED
    BY <1>3, <2>1, <2>3, InstallStays
<1> QED
  BY <1>1, <1>2, <1>5, <1>6, <1>7 DEF DeployNext

(* DeployInv: what each step of the build and of the installation leaves,  *)
(* whatever fails, is killed or is switched off.                           *)
THEOREM DeployInvariant == DeploySpec => []DeployInv
  BY DeployInitInv, DeployStep, PTL DEF DeploySpec

(* DeployTypeOK: every step of the build and of the installation keeps the *)
(* types of all they work on.                                              *)
THEOREM DeployTypeCorrect == DeploySpec => []DeployTypeOK
<1>1. DeployInv => DeployTypeOK
  BY DEF DeployInv
<1> QED
  BY <1>1, DeployInvariant, PTL

(* FreshMedium: success is told of an ISO of this run, and an ISO made in  *)
(* an empty directory has its build in place and nothing of earlier runs.  *)
THEOREM MediumIsOfThisBuild == DeploySpec => []FreshMedium
<1>1. DeployInv => FreshMedium
  BY MediumIsFresh DEF DeployInv
<1> QED
  BY <1>1, DeployInvariant, PTL

(* InstallClaims: what of the last screen is true when no command failed,  *)
(* over any disk that has a C:.                                            *)
THEOREM LastScreen == DeploySpec => []InstallClaims
<1>1. DeployInv => InstallClaims
  <2> SUFFICES ASSUME DeployInv, ipc = "done", ~fault, "C" \in disk.volumes PROVE InstallClaims
    BY DEF InstallClaims
  <2>1. KernelInv /\ ImageInv /\ EntryInv /\ ipc \in Ending
    BY DEF DeployInv, InstallInv, SoundInv, Sound, Ending
  <2> QED
    BY <2>1 DEF InstallClaims, KernelInv, ImageInv, EntryInv, Live
<1> QED
  BY <1>1, DeployInvariant, PTL

(* What an ISO made in an empty directory has of FreeNT.                   *)
LEMMA FreshImage ==
  ASSUME MediumInv, BuildTypeOK, iso.fresh
  PROVE  /\ Beside(iso.image) \cup InSystem(iso.image) \subseteq iso.built
         /\ iso.built \ {"installer"} \subseteq InSystem(iso.image)
<1>1. iso # NoIso /\ iso.built \subseteq Artifacts
  BY IsoBuildAssumption DEF NoIso, BuildTypeOK
<1>2. Sure(iso.built) \subseteq iso.image /\ iso.image \subseteq May(iso.built)
  BY <1>1 DEF MediumInv, GoodIso
<1>3. ASSUME NEW a \in Artifacts, NEW place \in {"beside", "system"}, <<place, a>> \in iso.image
      PROVE  a \in iso.built
  <2>1. a \notin {"patches", "add.reg", "windows"}
    BY DEF Artifacts
  <2>2. <<place, a>> \in WinPE \cup Injected(iso.built) \cup LaunchIni \cup Tried(iso.built)
    BY <1>2, <1>3 DEF May, Sure
  <2> QED
    BY <2>1, <2>2 DEF WinPE, Injected, LaunchIni, Tried
<1>4. \A a \in iso.built \ {"installer"} : <<"system", a>> \in iso.image
  BY <1>2 DEF Sure, Injected
<1> QED
  BY <1>1, <1>3, <1>4 DEF Beside, InSystem

(* BuildReachesTarget: of an ISO made in an empty directory, what comes to *)
(* the target is its own build; in kernel mode all of it comes.            *)
THEOREM BuildArrives == DeploySpec => []BuildReachesTarget
<1>1. DeployInv => BuildReachesTarget
  <2> SUFFICES ASSUME DeployInv, iso.fresh PROVE BuildReachesTarget
    BY DEF BuildReachesTarget
  <2>1. /\ Beside(iso.image) \cup InSystem(iso.image) \subseteq iso.built
        /\ iso.built \ {"installer"} \subseteq InSystem(iso.image)
    BY FreshImage DEF DeployInv, DeployTypeOK
  <2>2. medium \in {{}, iso.image} /\ (ipc # "off" => medium = iso.image)
    BY DEF DeployInv, TakenInv
  <2>3. Beside({}) = {} /\ InSystem({}) = {}
    BY DEF Beside, InSystem
  <2>4. disk.WNT \cap Artifacts \subseteq before.WNT \cup iso.built
    BY <2>1, <2>2, <2>3 DEF DeployInv, InstallInv, BroughtInv
  <2>5. ASSUME ipc = "done", ~fault, config.kernel, "C" \in disk.volumes
        PROVE  iso.built \ {"installer"} \subseteq disk.WNT
    <3>1. KernelInv /\ ipc \in Ending
      BY <2>5 DEF DeployInv, InstallInv, SoundInv, Sound, Ending
    <3> QED
      BY <2>1, <2>2, <2>5, <3>1 DEF KernelInv, Live
  <2> QED
    BY <2>4, <2>5 DEF BuildReachesTarget
<1> QED
  BY <1>1, DeployInvariant, PTL
=============================================================================
