------------------------------ MODULE IsoBuild ------------------------------
(***************************************************************************)
(* The script that makes the installation medium out of a WinPE ISO        *)
(* (scripts/build_freent_iso.sh), which the installer later boots from.    *)
(*                                                                         *)
(* The script runs under set -euo pipefail: every command may fail, which  *)
(* ends it, but for those behind || true.  From step 4 on a trap removes   *)
(* the working directory; a kill removes nothing, and neither the trap nor *)
(* the next run is sure to be allowed to.                                  *)
(*                                                                         *)
(* An image is a set of files <<place, name>>: WinPE's own, the artifacts  *)
(* in System32 and beside the installer, and winpeshl.ini.                 *)
(*                                                                         *)
(* Left out: the options, messages, the import libraries, and the copy of  *)
(* \freent outside the image, which nothing reads.                         *)
(***************************************************************************)
EXTENDS Naturals

CONSTANTS Builds,      \* the sets of artifacts that may be in build/x64
          Hosts,       \* where the script runs, and from which WinPE ISO
          MaxBuilds    \* bound: how many times the script is started

Artifacts == {"freedll", "ntdylib", "freent", "liberty", "installer", "native"}

ASSUME IsoBuildAssumption ==
    /\ Builds \subseteq SUBSET Artifacts
    /\ Hosts \subseteq [xorriso : BOOLEAN, genisoimage : BOOLEAN,
                        torito : 0..2, \* boot images that xorriso reports
                        wim : BOOLEAN] \* there is a boot*.wim
    /\ MaxBuilds \in Nat

VARIABLES bpc,         \* the next step of the script, or how it ended
          builds,      \* how many times it was started
          host, built, \* what the run finds: the host, and build/x64
          work,        \* --workdir: [wim, boot, root]
          fresh,       \* history: the run began with an empty work
          iso          \* --output: [image, built, fresh], the last two history

buildRun == <<bpc, builds, host, built>>
buildVars == <<buildRun, work, fresh, iso>>

Places == {"pe", "system", "beside", "ini"}
Names == Artifacts \cup {"windows", "patches", "add.reg"}
Image == SUBSET (Places \X Names)

WinPE == {<<"pe", "windows">>}
LaunchIni == {<<"ini", "installer">>}
NoIso == [image |-> {}, built |-> {}, fresh |-> FALSE]  \* none, or a torn one
NoHost == [xorriso |-> FALSE, genisoimage |-> FALSE, torito |-> 0, wim |-> FALSE]
Empty == [wim |-> {}, boot |-> FALSE, root |-> {}]
Resting == bpc \in {"idle", "done", "failed"}

\* A step 4 that knows of libraries only.
InjectedLibraries(b) ==
    {<<"system", a>> : a \in b \cap {"freedll", "ntdylib", "liberty"}}
    \cup {<<"beside", a>> : a \in b \cap {"installer"}}
    \cup {<<"beside", "patches">>}

(* Step 4, under set -e: what is built goes to System32; the installer     *)
(* gets a directory of its own, with the patches.                          *)
Injected(b) ==
    {<<"system", a>> : a \in b \ {"installer"}}
    \cup {<<"beside", a>> : a \in b \cap {"installer"}}
    \cup {<<"beside", "patches">>}

(* Step 4, behind || true: three libraries beside the installer, if there  *)
(* is one, and the registry files of the native shell.                     *)
Tried(b) ==
    {<<"beside", a>> : a \in IF "installer" \in b
                             THEN b \cap {"freedll", "ntdylib", "liberty"} ELSE {}}
    \cup {<<"beside", "add.reg">>}

(* What rm -rf leaves of the working directory when it may not remove all; *)
(* a place of wim_root is left whole or not at all.                        *)
Leftovers(w) ==
    {[wim |-> i, boot |-> b, root |-> {f \in w.root : f[1] \in P}] :
        i \in {{}, w.wim}, b \in {FALSE, w.boot}, P \in SUBSET Places}

BuildInit ==
    /\ bpc = "idle" /\ builds = 0 /\ built = {}
    /\ host = NoHost
    /\ work = Empty /\ fresh = FALSE /\ iso = NoIso

Goto(from, to) ==
    /\ bpc = from /\ bpc' = to
    /\ UNCHANGED <<builds, host, built>>

\* Start of the script: the tools it needs, and its arguments.
StartBuild ==
    /\ Resting /\ builds < MaxBuilds /\ builds' = builds + 1
    /\ host' \in Hosts /\ built' \in Builds
    /\ bpc' = IF host'.xorriso \/ host'.genisoimage THEN "clean" ELSE "failed"
    /\ UNCHANGED <<work, fresh, iso>>

\* A run that works on in the directory of the one before.
CleanNothing ==
    /\ Goto("clean", "extract") /\ fresh' = TRUE
    /\ UNCHANGED <<work, iso>>

(* Step 1: remove what an earlier run left, as far as possible; then       *)
(* extract the ISO over it.                                                *)
CleanWork ==
    /\ Goto("clean", "extract")
    /\ work' \in {Empty} \cup Leftovers(work)
    /\ fresh' = (work' = Empty)
    /\ UNCHANGED iso

ExtractIso ==
    /\ \/ /\ Goto("extract", "torito")
          /\ work' = [work EXCEPT !.wim = IF host.wim THEN WinPE ELSE @]
       \/ Goto("extract", "failed") /\ UNCHANGED work
    /\ UNCHANGED <<fresh, iso>>

(* The boot image: without a line of it grep fails, with two the skip of   *)
(* dd is no number, and either ends the script.                            *)
ExtractBootImage ==
    /\ \/ /\ host.xorriso /\ host.torito = 1 /\ Goto("torito", "find")
          /\ work' = [work EXCEPT !.boot = TRUE]
       \/ host.xorriso /\ Goto("torito", "failed") /\ UNCHANGED work
       \/ ~host.xorriso /\ Goto("torito", "find") /\ UNCHANGED work
    /\ UNCHANGED <<fresh, iso>>

\* Step 2.
FindWim ==
    /\ Goto("find", IF work.wim = {} THEN "failed" ELSE "apply")
    /\ UNCHANGED <<work, fresh, iso>>

\* Step 3, over what is in wim_root.
ApplyWim ==
    /\ \/ /\ Goto("apply", "inject")
          /\ work' = [work EXCEPT !.root = @ \cup work.wim]
       \/ /\ Goto("apply", "failed")
          /\ work' \in {work, [work EXCEPT !.root = @ \cup work.wim]}
    /\ UNCHANGED <<fresh, iso>>

Inject ==
    /\ Goto("inject", "ini")
    /\ \E T \in SUBSET Tried(built) :
          work' = [work EXCEPT !.root = @ \cup Injected(built) \cup T]
    /\ UNCHANGED <<fresh, iso>>

\* Step 5.
ConfigureLaunch ==
    /\ Goto("ini", "capture")
    /\ work' = [work EXCEPT !.root = @ \cup LaunchIni]
    /\ UNCHANGED <<fresh, iso>>

\* Step 6: the image replaces boot.wim, and wim_root is removed.
CaptureWim ==
    /\ Goto("capture", "remove")
    /\ work' = [work EXCEPT !.wim = work.root, !.root = {}]
    /\ UNCHANGED <<fresh, iso>>

\* Step 7: the earlier output goes before the new one is made.
RemoveOutput ==
    /\ Goto("remove", "make") /\ iso' = NoIso
    /\ UNCHANGED <<work, fresh>>

(* With the boot image only: genisoimage has none but a stale one, and     *)
(* with xorriso the script does not come here without.  The trap runs.     *)
MakeIso ==
    /\ work.boot /\ Goto("make", "done")
    /\ iso' = [image |-> work.wim, built |-> built, fresh |-> fresh]
    /\ work' \in {Empty} \cup Leftovers(work)
    /\ UNCHANGED fresh

\* A command of steps 4 to 7 fails, or there is no boot image: the trap runs.
FailTrapped ==
    /\ \E from \in {"inject", "ini", "capture", "remove", "make"} : Goto(from, "failed")
    /\ work' \in {Empty} \cup Leftovers(work)
    /\ UNCHANGED <<fresh, iso>>

Kill ==
    /\ ~Resting /\ bpc' = "idle"
    /\ UNCHANGED <<builds, host, built, work, fresh, iso>>

BuildNext ==
    \/ StartBuild \/ CleanWork \/ ExtractIso \/ ExtractBootImage \/ FindWim
    \/ ApplyWim \/ Inject \/ ConfigureLaunch \/ CaptureWim \/ RemoveOutput
    \/ MakeIso \/ FailTrapped \/ Kill
(***************************************************************************)
(* Properties.                                                             *)
(***************************************************************************)
BuildTypeOK ==
    /\ bpc \in {"idle", "clean", "extract", "torito", "find", "apply", "inject", "ini",
                "capture", "remove", "make", "done", "failed"}
    /\ builds \in 0..MaxBuilds /\ host \in Hosts \cup {NoHost} /\ built \in Builds \cup {{}}
    /\ work \in [wim : Image, boot : BOOLEAN, root : Image] /\ fresh \in BOOLEAN
    /\ iso \in [image : Image, built : Builds \cup {{}}, fresh : BOOLEAN]

(* "FreeNT installer ISO created" (build_freent_iso.sh:344) is said of an  *)
(* ISO of this run; and an ISO made in an empty working directory has what *)
(* its run found in build/x64, each in its place, and nothing of what runs *)
(* before it left behind, whatever failed or was killed since.             *)
FreshMedium ==
    /\ bpc = "done" => iso # NoIso /\ iso.built = built
    /\ iso # NoIso /\ iso.fresh =>
          LET Sure == WinPE \cup Injected(iso.built) \cup LaunchIni IN
              Sure \subseteq iso.image /\ iso.image \subseteq Sure \cup Tried(iso.built)
=============================================================================
