----------------------------- MODULE Deployment -----------------------------
(***************************************************************************)
(* From a build to an installed system: the medium that the installer runs *)
(* from is the ISO that the build script left.  The two run on different   *)
(* machines, so the steps of one are not taken between those of the other, *)
(* and once an ISO is taken along, no more is seen of the machine that     *)
(* made it.                                                                *)
(***************************************************************************)
EXTENDS Installer

deployVars == <<buildVars, installVars>>

DeployInit == BuildInit /\ InstallInit

(* The first boot from the ISO.                                            *)
TakeIso ==
    /\ Resting /\ iso # NoIso /\ Boot(iso.image)
    /\ builds' = MaxBuilds /\ bpc' = "idle" /\ host' = NoHost /\ built' = {}
    /\ work' = Empty /\ fresh' = FALSE /\ UNCHANGED iso

DeployNext ==
    \/ ipc = "off" /\ BuildNext /\ UNCHANGED installVars
    \/ TakeIso
    \/ Boot(medium) /\ UNCHANGED buildVars
    \/ InstallNext /\ UNCHANGED buildVars

DeploySpec == DeployInit /\ [][DeployNext]_deployVars
(***************************************************************************)
(* Properties.                                                             *)
(***************************************************************************)
DeployTypeOK == BuildTypeOK /\ InstallTypeOK

(* From build/x64 to C:\WNT: an ISO that was made in an empty directory    *)
(* brings to the target nothing of FreeNT's but what its own build had,    *)
(* whatever earlier builds left, failed or were killed over; and an        *)
(* installation in kernel mode in which no command failed brings all of    *)
(* it, over whatever C: had, so that the last screen's "FreeNT DLLs and    *)
(* executables" and "NativeShell" (installer.c:1008-1009) are those.       *)
BuildReachesTarget ==
    iso.fresh =>
        /\ disk.WNT \cap Artifacts \subseteq before.WNT \cup iso.built
        /\ ipc = "done" /\ ~fault /\ config.kernel /\ "C" \in disk.volumes =>
              iso.built \ {"installer"} \subseteq disk.WNT
=============================================================================
