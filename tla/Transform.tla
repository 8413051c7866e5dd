------------------------------ MODULE Transform ------------------------------
(***************************************************************************)
(* The scripts that turn Windows into FreeNT and back                      *)
(* (scripts/transform/transform.ps1 and rollback.ps1), over what they      *)
(* change: registry values, services, packages, files.                     *)
(*                                                                         *)
(* One script runs at a time, one step per function its main part calls.   *)
(* A step may fail in the middle, so it leaves any part of its work        *)
(* undone; a crash may stop the script between steps, and as each step may *)
(* stop anywhere, within one.  What a script changes outlives it.          *)
(*                                                                         *)
(* Left out: restore points, warnings, which no state depends on, and the  *)
(* backup of CurrentVersion and of the environment, which nothing reads.   *)
(***************************************************************************)
CONSTANTS Values,      \* the registry values that name the system
          Services,    \* the services that rollback enables
          Packages,    \* the packages of components
          Profiles     \* what each profile disables: [services, packages]

ASSUME TransformAssumption ==
    Profiles \subseteq [services : SUBSET Services, packages : SUBSET Packages]

VARIABLES pc,          \* the next step of the script that runs, or its end
          errors,      \* $Errors is not empty
          profile,     \* what the transformation that runs disables
          shell,       \* Winlogon: Shell
          userinit,    \* Winlogon: Userinit
          identity,    \* the values that name the system
          env,         \* the FREENT variables are set
          start,       \* the start type of each service
          packages,    \* the packages that are installed
          vital,       \* vital-shell.exe is installed
          backup,      \* Winlogon.reg: [shell, userinit]
          flag,        \* TRANSFORMED.flag
          again        \* a replaced shell has been backed up

winlogon == <<shell, userinit>>
names == <<identity, env>>
parts == <<start, packages, vital>>
records == <<backup, flag, again>>
script == <<pc, errors, profile>>
machine == <<winlogon, names, parts, records>>
vars == <<script, machine>>

NoBackup == [shell |-> "none", userinit |-> "none"]
AtRest == pc \in {"rest", "t_done", "r_done"}

\* A function that sets some of the entries of f to v.
Partly(f, S, v) ==
    {[x \in DOMAIN f |-> IF x \in T THEN v ELSE f[x]] : T \in SUBSET S}

Init ==
    /\ pc = "rest" /\ errors = FALSE /\ profile \in Profiles
    /\ shell = "explorer" /\ userinit = "windows"
    /\ identity = [v \in Values |-> "windows"] /\ env = FALSE
    /\ start = [s \in Services |-> "original"] /\ packages = Packages
    /\ vital = FALSE
    /\ backup = NoBackup /\ flag = FALSE /\ again = FALSE

(* The script goes on to the next step, with an error noted or not.        *)
Step(from, to, failed) ==
    /\ pc = from /\ pc' = to
    /\ errors' = (errors \/ failed)
    /\ UNCHANGED profile

(* transform.ps1: confirmed, and not a dry run, which skips every step.    *)
StartTransform ==
    /\ AtRest /\ pc' = "t_backup" /\ errors' = FALSE
    /\ profile' \in Profiles
    /\ UNCHANGED machine

(* rollback.ps1: without the flag it asks once more, and may go on.        *)
StartRollback ==
    /\ AtRest /\ pc' = "r_identity" /\ errors' = FALSE
    /\ UNCHANGED <<profile, machine>>

Crash ==
    /\ ~AtRest /\ pc' = "rest"
    /\ UNCHANGED <<errors, profile, machine>>

(* Backup-OriginalState: reg export /y replaces an earlier backup.  That   *)
(* it failed is a warning at most.                                         *)
BackupOriginalState ==
    /\ Step("t_backup", "t_identity", FALSE)
    /\ \/ UNCHANGED <<backup, again>>
       \/ /\ backup' = [shell |-> shell, userinit |-> userinit]
          /\ again' = (again \/ shell # "explorer")
    /\ UNCHANGED <<winlogon, names, parts, flag>>

\* A failure to set the environment that goes unnoticed.
ModifyIdentityQuietly ==
    /\ Step("t_identity", "t_vital", FALSE)
    /\ identity' \in Partly(identity, Values, "freent")
    /\ env' \in {env, TRUE}
    /\ UNCHANGED <<winlogon, parts, records>>

(* Modify-SystemIdentity: a value that cannot be set is passed over; the   *)
(* environment must be set, or the function throws.                        *)
ModifySystemIdentity ==
    /\ \E failed \in BOOLEAN :
          /\ Step("t_identity", "t_vital", failed)
          /\ env' \in IF failed THEN {env, TRUE} ELSE {TRUE}
    /\ identity' \in Partly(identity, Values, "freent")
    /\ UNCHANGED <<winlogon, parts, records>>

(* Install-VitalUtilities, or -NoVitalUtilities: what is missing is a      *)
(* warning, a directory that cannot be made is an error.                   *)
InstallVitalUtilities ==
    /\ \E failed \in BOOLEAN :
          /\ Step("t_vital", "t_explorer", failed)
          /\ vital' \in IF failed THEN {vital} ELSE {vital, TRUE}
    /\ UNCHANGED <<winlogon, names, start, packages, records>>

(* Replace-Explorer: with the Vital shell, or another that is found; the   *)
(* Shell is set, then Userinit removed if it can be.  Anything that fails  *)
(* is an error, after the Shell is set too.                                *)
ReplaceExplorer ==
    /\ \/ /\ Step("t_explorer", "t_disable", TRUE)
          /\ UNCHANGED winlogon
       \/ /\ \E failed \in BOOLEAN : Step("t_explorer", "t_disable", failed)
          /\ shell' = "freent" /\ userinit' \in {"absent", userinit}
    /\ UNCHANGED <<names, parts, records>>

(* Disable-Components, of the components to disable and of those to        *)
(* remove: what fails is a warning or unseen.                              *)
DisableComponents ==
    /\ Step("t_disable", "t_final", FALSE)
    /\ start' \in Partly(start, profile.services, "disabled")
    /\ packages' \in {packages \ T : T \in SUBSET profile.packages}
    /\ UNCHANGED <<winlogon, names, vital, records>>

(* Finalize-Transformation, whatever the errors so far; a failure to set   *)
(* the environment or to write the flag is a warning.                      *)
FinalizeTransformation ==
    /\ Step("t_final", "t_done", FALSE)
    /\ \/ env' = TRUE /\ flag' \in {flag, TRUE}
       \/ UNCHANGED <<env, flag>>
    /\ UNCHANGED <<winlogon, identity, parts, backup, again>>

(* Restore-SystemIdentity removes the values, whether the backup has them  *)
(* or not; a value that stays goes unseen, the environment is an error.    *)
RestoreSystemIdentity ==
    /\ \E failed \in BOOLEAN :
          /\ Step("r_identity", "r_explorer", failed)
          /\ env' \in IF failed THEN {env, FALSE} ELSE {FALSE}
    /\ identity' \in Partly(identity, Values, "absent")
    /\ UNCHANGED <<winlogon, parts, records>>

(* The pattern "([^"]+)" over the text of a .reg file, where quotes and    *)
(* backslashes are escaped: the quoted path of a FreeNT shell ends at its  *)
(* first backslash, and a path keeps its doubled backslashes.              *)
ShellIn(b) == IF b.shell \in {"none", "explorer"} THEN "explorer" ELSE "broken"
UserinitIn(b) == IF b.userinit \in {"windows", "escaped"} THEN "escaped" ELSE "absent"

\* A restore that needs no flag and says it went well.
RestoreExplorerUnchecked ==
    /\ \/ flag /\ shell' = ShellIn(backup) /\ userinit' = UserinitIn(backup)
       \/ ~flag /\ UNCHANGED winlogon
    /\ Step("r_explorer", "r_enable", FALSE)
    /\ UNCHANGED <<names, parts, records>>

(* Restore-Explorer: not without the flag; from the backup, or with the    *)
(* defaults; anything that fails, at any point, is an error.               *)
RestoreExplorer ==
    /\ \/ Step("r_explorer", "r_enable", TRUE) /\ UNCHANGED winlogon
       \/ /\ flag
          /\ Step("r_explorer", "r_enable", TRUE)
          /\ shell' = ShellIn(backup) /\ UNCHANGED userinit
       \/ /\ flag
          /\ \E failed \in BOOLEAN : Step("r_explorer", "r_enable", failed)
          /\ shell' = ShellIn(backup)
          /\ userinit' \in {UserinitIn(backup)} \cup
                           IF UserinitIn(backup) = "absent" THEN {userinit} ELSE {}
    /\ UNCHANGED <<names, parts, records>>

(* Enable-Components: every service that may have been disabled starts     *)
(* automatically from now on; what fails is a warning.                     *)
EnableComponents ==
    /\ Step("r_enable", "r_vital", FALSE)
    /\ start' \in Partly(start, Services, "auto")
    /\ UNCHANGED <<winlogon, names, packages, vital, records>>

(* Remove-VitalUtilities, if asked to; what fails is a warning.            *)
RemoveVitalUtilities ==
    /\ Step("r_vital", "r_marker", FALSE)
    /\ vital' \in {vital, FALSE}
    /\ UNCHANGED <<winlogon, names, start, packages, records>>

(* Remove-TransformationMarker, whatever the errors so far; what fails is  *)
(* a warning.                                                              *)
RemoveTransformationMarker ==
    /\ Step("r_marker", "r_done", FALSE)
    /\ flag' \in {flag, FALSE}
    /\ UNCHANGED <<winlogon, names, parts, backup, again>>

Next ==
    \/ StartTransform \/ StartRollback \/ Crash
    \/ BackupOriginalState \/ ModifySystemIdentity \/ InstallVitalUtilities
    \/ ReplaceExplorer \/ DisableComponents \/ FinalizeTransformation
    \/ RestoreSystemIdentity \/ RestoreExplorer \/ EnableComponents
    \/ RemoveVitalUtilities \/ RemoveTransformationMarker

Spec == Init /\ [][Next]_vars
(***************************************************************************)
(* Properties.                                                             *)
(***************************************************************************)
Pcs == {"rest", "t_backup", "t_identity", "t_vital", "t_explorer", "t_disable", "t_final",
        "t_done", "r_identity", "r_explorer", "r_enable", "r_vital", "r_marker", "r_done"}
Shells == {"explorer", "freent", "broken"}
Userinits == {"windows", "escaped", "absent"}

TypeOK ==
    /\ pc \in Pcs /\ errors \in BOOLEAN /\ profile \in Profiles
    /\ shell \in Shells /\ userinit \in Userinits
    /\ identity \in [Values -> {"windows", "freent", "absent"}] /\ env \in BOOLEAN
    /\ start \in [Services -> {"original", "disabled", "auto"}]
    /\ packages \subseteq Packages /\ vital \in BOOLEAN
    /\ backup \in [shell : Shells, userinit : Userinits] \cup {NoBackup}
    /\ flag \in BOOLEAN /\ again \in BOOLEAN

(* "Your system has been transformed into FreeNT!" (transform.ps1:708) is  *)
(* true of the shell and of the environment, whatever crashed before and   *)
(* whatever failed with a warning.                                         *)
TransformClaim ==
    pc = "t_done" /\ ~errors => shell = "freent" /\ env

(* A rollback without errors leaves Windows's shell and no FREENT variable,*)
(* whatever was interrupted, failed or run again before; but for a machine *)
(* whose replaced shell has been backed up over the original.              *)
RollbackClaim ==
    pc = "r_done" /\ ~errors => ~env /\ (shell = "explorer" \/ again)

(* "Your system has been restored to its original Windows state!"          *)
(* (rollback.ps1:412), as far as the shell.                                *)
ShellRestored ==
    pc = "r_done" /\ ~errors => shell = "explorer"
=============================================================================
