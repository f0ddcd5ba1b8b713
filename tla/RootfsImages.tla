---------------------------- MODULE RootfsImages ----------------------------
(***************************************************************************)
(* The scripts of scripts/debian-rootfs: create-rootfs.sh, make-qcow2.sh   *)
(* and make-initrd.sh.                                                     *)
(*                                                                         *)
(* A builder is a working directory with its rootfs directory and its      *)
(* images; it runs one script at a time, again and again.  Builders run    *)
(* concurrently and share /dev/nbd0 and the mount point /mnt/rootfs-temp.  *)
(* Any command may fail, and the user may interrupt any script:            *)
(* create-rootfs.sh goes on after a failure, the other two end (set -e)    *)
(* and leave things as they are.                                           *)
(***************************************************************************)
EXTENDS Naturals

CONSTANTS
    Builders,   \* working directories
    MaxRuns,    \* bound: scripts run in all
    None

ASSUME RootfsAssumption == MaxRuns \in Nat /\ None \notin Builders

VARIABLES
    job,        \* per builder: the line its script is at, or "idle"
    left,       \* scripts still to be run
    \* the rootfs directory
    tree,       \* per builder: "none", "empty", or "filled" (it has proc and sys)
    mounts,     \* per builder: layers mounted on rootfs/proc and rootfs/sys
    \* the images
    image,      \* per builder: debian-arm64.qcow2
    told,       \* per builder: line 49 of make-qcow2.sh was printed for it
    initrd,     \* per builder: debian-arm64.cpio.gz
    packed,     \* per builder: line 24 of make-initrd.sh was printed for it
    \* what the builders share
    nbd,        \* whose image is connected to /dev/nbd0
    node,       \* /dev/nbd0p1 exists
    mnt,        \* whose image is mounted at /mnt/rootfs-temp
    dir,        \* /mnt/rootfs-temp exists
    \* history
    busy,       \* per builder: an umount failed since rootfs was last free of mounts
    cut         \* per builder: the last create-rootfs.sh was interrupted

treeVars == <<tree, mounts, busy, cut>>
imageVars == <<image, told>>
initrdVars == <<initrd, packed>>
sharedVars == <<nbd, node, mnt, dir>>
vars == <<job, left, treeVars, imageVars, initrdVars, sharedVars>>

CreateLines == {"umount13", "umount14", "rm15", "mkdir18", "strap21", "mount30",
                "mount31", "chroot34", "umount41", "umount42", "chown45"}
\* make-qcow2.sh, before it has the device, while it has it, and after.
Holding == {"parted33", "mkfs35", "mkdir39", "mount40", "cp41", "umount45", "disconnect46"}
Qcow2Lines == {"create25", "connect29", "rmdir47", "done49"} \cup Holding
InitrdLines == {"pack21", "done24"}
Lines == {"idle"} \cup CreateLines \cup Qcow2Lines \cup InitrdLines

Kinds == {"proc", "sys"}
ImageStates == {"none", "blank", "table", "fs", "full"}

\* The types of the variables; a mounted image or a partition belongs to a builder,
\* and a partition only shows while an image is connected.
TypeOK ==
    /\ job \in [Builders -> Lines]
    /\ left \in 0..MaxRuns
    /\ tree \in [Builders -> {"none", "empty", "filled"}]
    /\ mounts \in [Builders -> [Kinds -> Nat]]
    /\ image \in [Builders -> ImageStates]
    /\ told \in [Builders -> BOOLEAN]
    /\ initrd \in [Builders -> {"none", "torn", "full"}]
    /\ packed \in [Builders -> BOOLEAN]
    /\ nbd \in Builders \cup {None}
    /\ node \in BOOLEAN /\ (node => nbd # None)
    /\ mnt \in Builders \cup {None}
    /\ dir \in BOOLEAN /\ (mnt # None => dir)
    /\ busy \in [Builders -> BOOLEAN]
    /\ cut \in [Builders -> BOOLEAN]

Init ==
    /\ job = [b \in Builders |-> "idle"]
    /\ left = MaxRuns
    /\ tree = [b \in Builders |-> "none"]
    /\ mounts = [b \in Builders |-> [k \in Kinds |-> 0]]
    /\ image = [b \in Builders |-> "none"]
    /\ told = [b \in Builders |-> FALSE]
    /\ initrd = [b \in Builders |-> "none"]
    /\ packed = [b \in Builders |-> FALSE]
    /\ nbd = None /\ node = FALSE /\ mnt = None /\ dir = FALSE
    /\ busy = [b \in Builders |-> FALSE]
    /\ cut = [b \in Builders |-> FALSE]

-----------------------------------------------------------------------------
GoTo(b, from, to) == job[b] = from /\ job' = [job EXCEPT ![b] = to]

\* The user runs a script; its first command of interest is at line to.
Run(b, to) ==
    /\ left > 0 /\ left' = left - 1
    /\ GoTo(b, "idle", to)

Mounted(b) == \E k \in Kinds : mounts[b][k] > 0

-----------------------------------------------------------------------------
(***************************************************************************)
(* create-rootfs.sh                                                        *)
(***************************************************************************)

\* Fault: lines 13-14 are missing.
StartCreateNoUmount(b) == Run(b, "rm15") /\ UNCHANGED <<treeVars, imageVars, initrdVars, sharedVars>>

StartCreate(b) == Run(b, "umount13") /\ UNCHANGED <<treeVars, imageVars, initrdVars, sharedVars>>

\* A step of create-rootfs.sh, which leaves images and devices alone.
CreateStep(b, from, to) ==
    GoTo(b, from, to) /\ UNCHANGED <<left, imageVars, initrdVars, sharedVars>>

\* umount takes off the top layer, or fails: nothing is mounted, or it is in use.
Umount(b, k, from, to) ==
    /\ CreateStep(b, from, to)
    /\ \/ /\ mounts[b][k] > 0
          /\ mounts' = [mounts EXCEPT ![b][k] = @ - 1]
          /\ busy' = [busy EXCEPT ![b] = @ /\ \E j \in Kinds : mounts'[b][j] > 0]
       \/ /\ busy' = [busy EXCEPT ![b] = @ \/ mounts[b][k] > 0]
          /\ UNCHANGED mounts
    /\ UNCHANGED <<tree, cut>>

UmountOldProc(b) == Umount(b, "proc", "umount13", "umount14")
UmountOldSys(b) == Umount(b, "sys", "umount14", "rm15")

\* rm -rf cannot remove a mount point in use, and the directories above it.
RemoveTree(b) ==
    /\ CreateStep(b, "rm15", "mkdir18")
    /\ tree' = IF Mounted(b) THEN tree ELSE [tree EXCEPT ![b] = "none"]
    /\ UNCHANGED <<mounts, busy, cut>>

MakeTree(b) ==
    /\ CreateStep(b, "mkdir18", "strap21")
    /\ tree' = IF tree[b] = "none" THEN [tree EXCEPT ![b] = "empty"] ELSE tree
    /\ UNCHANGED <<mounts, busy, cut>>

\* multistrap may fail, before or after it has made proc and sys.
Multistrap(b) ==
    /\ CreateStep(b, "strap21", "mount30")
    /\ \E t \in {tree[b], "filled"} : tree' = [tree EXCEPT ![b] = t]
    /\ UNCHANGED <<mounts, busy, cut>>

Mount(b, k, from, to) ==
    /\ CreateStep(b, from, to)
    /\ \/ tree[b] = "filled" /\ mounts' = [mounts EXCEPT ![b][k] = @ + 1]
       \/ UNCHANGED mounts
    /\ UNCHANGED <<tree, busy, cut>>

MountProc(b) == Mount(b, "proc", "mount30", "mount31")
MountSys(b) == Mount(b, "sys", "mount31", "chroot34")

\* Fault: chown comes before the file systems are unmounted.
ConfigureThenChown(b) == CreateStep(b, "chroot34", "chown45") /\ UNCHANGED treeVars

\* dpkg --configure and chpasswd; what they start may keep proc and sys in use.
Configure(b) == CreateStep(b, "chroot34", "umount41") /\ UNCHANGED treeVars

UmountProc(b) == Umount(b, "proc", "umount41", "umount42")
UmountSys(b) == Umount(b, "sys", "umount42", "chown45")

\* chown -R, and what is written into the tree after it.
FinishTree(b) ==
    /\ CreateStep(b, "chown45", "idle")
    /\ cut' = [cut EXCEPT ![b] = FALSE]
    /\ UNCHANGED <<tree, mounts, busy>>

UserInterruptsCreate(b) ==
    /\ job[b] \in CreateLines
    /\ job' = [job EXCEPT ![b] = "idle"]
    /\ cut' = [cut EXCEPT ![b] = TRUE]
    /\ UNCHANGED <<left, tree, mounts, busy, imageVars, initrdVars, sharedVars>>

CreateRootfs(b) ==
    \/ StartCreate(b) \/ UmountOldProc(b) \/ UmountOldSys(b) \/ RemoveTree(b) \/ MakeTree(b)
    \/ Multistrap(b) \/ MountProc(b) \/ MountSys(b) \/ Configure(b)
    \/ UmountProc(b) \/ UmountSys(b) \/ FinishTree(b) \/ UserInterruptsCreate(b)

-----------------------------------------------------------------------------
(***************************************************************************)
(* make-qcow2.sh.  What goes to /dev/nbd0 goes to the image connected      *)
(* there, whosever it is.                                                  *)
(***************************************************************************)

StartQcow2(b) ==
    /\ Run(b, IF tree[b] = "none" THEN "idle" ELSE "create25")
    /\ UNCHANGED <<treeVars, imageVars, initrdVars, sharedVars>>

Qcow2Step(b, from, to) == GoTo(b, from, to) /\ UNCHANGED <<left, treeVars, initrdVars>>

\* qemu-img refuses an image that qemu-nbd has locked.
CreateImage(b) ==
    /\ Qcow2Step(b, "create25", "connect29")
    /\ nbd # b
    /\ image' = [image EXCEPT ![b] = "blank"]
    /\ told' = [told EXCEPT ![b] = FALSE]
    /\ UNCHANGED sharedVars

\* Fault: line 29 goes on when the device is taken.
ConnectOrGoOn(b) ==
    /\ Qcow2Step(b, "connect29", "parted33")
    /\ nbd' = IF nbd = None THEN b ELSE nbd
    /\ UNCHANGED <<imageVars, node, mnt, dir>>

Connect(b) ==
    /\ Qcow2Step(b, "connect29", "parted33")
    /\ nbd = None /\ nbd' = b
    /\ UNCHANGED <<imageVars, node, mnt, dir>>

\* Lines 33-34; the kernel makes the device of the partition some time later.
Partition(b) ==
    /\ Qcow2Step(b, "parted33", "mkfs35")
    /\ nbd # None
    /\ image' = [image EXCEPT ![nbd] = "table"]
    /\ UNCHANGED <<told, sharedVars>>

NodeAppears ==
    /\ nbd # None /\ ~node /\ image[nbd] # "blank"
    /\ node' = TRUE
    /\ UNCHANGED <<job, left, treeVars, imageVars, initrdVars, nbd, mnt, dir>>

\* mkfs.ext4 needs the device, and refuses one that the mount table names.
MakeFs(b) ==
    /\ Qcow2Step(b, "mkfs35", "mkdir39")
    /\ node /\ mnt = None
    /\ image' = [image EXCEPT ![nbd] = "fs"]
    /\ UNCHANGED <<told, sharedVars>>

MakeMountDir(b) ==
    /\ Qcow2Step(b, "mkdir39", "mount40")
    /\ dir' = TRUE
    /\ UNCHANGED <<imageVars, nbd, node, mnt>>

\* Another builder's line 47 may have removed the directory again.
MountImage(b) ==
    /\ Qcow2Step(b, "mount40", "cp41")
    /\ dir /\ node /\ mnt' = nbd
    /\ UNCHANGED <<imageVars, nbd, node, dir>>

\* The * of an empty directory names no file, and cp fails.
Copy(b) ==
    /\ Qcow2Step(b, "cp41", "umount45")
    /\ tree[b] = "filled" /\ mnt # None /\ nbd = mnt
    /\ image' = [image EXCEPT ![mnt] = "full"]
    /\ UNCHANGED <<told, sharedVars>>

\* Fault: the image stays mounted when its device goes.
SkipUmount(b) == Qcow2Step(b, "umount45", "disconnect46") /\ UNCHANGED <<imageVars, sharedVars>>

UmountImage(b) ==
    /\ Qcow2Step(b, "umount45", "disconnect46")
    /\ mnt' = None
    /\ UNCHANGED <<imageVars, nbd, node, dir>>

Disconnect(b) ==
    /\ Qcow2Step(b, "disconnect46", "rmdir47")
    /\ nbd' = None /\ node' = FALSE
    /\ UNCHANGED <<imageVars, mnt, dir>>

\* Fault: rm -rf in place of rmdir, which empties an image that is mounted there by now.
RemoveMountDirForced(b) ==
    \/ /\ Qcow2Step(b, "rmdir47", "done49")
       /\ mnt = None /\ dir' = FALSE
       /\ UNCHANGED <<imageVars, nbd, node, mnt>>
    \/ /\ Qcow2Step(b, "rmdir47", "idle")
       /\ mnt # None /\ image' = [image EXCEPT ![mnt] = "fs"]
       /\ UNCHANGED <<told, sharedVars>>

RemoveMountDir(b) ==
    /\ Qcow2Step(b, "rmdir47", "done49")
    /\ dir /\ mnt = None /\ dir' = FALSE
    /\ UNCHANGED <<imageVars, nbd, node, mnt>>

AnnounceImage(b) ==
    /\ Qcow2Step(b, "done49", "idle")
    /\ told' = [told EXCEPT ![b] = TRUE]
    /\ UNCHANGED <<image, sharedVars>>

\* Fault: without set -e line 49 is printed whatever came before.
Qcow2GoesOn(b) ==
    /\ job[b] \in Qcow2Lines
    /\ job' = [job EXCEPT ![b] = "done49"]
    /\ UNCHANGED <<left, treeVars, imageVars, initrdVars, sharedVars>>

\* set -e: a command that fails, or that the user interrupts, ends the script.
Qcow2Fails(b) ==
    /\ job[b] \in Qcow2Lines
    /\ job' = [job EXCEPT ![b] = "idle"]
    /\ UNCHANGED <<left, treeVars, imageVars, initrdVars, sharedVars>>

MakeQcow2(b) ==
    \/ StartQcow2(b) \/ CreateImage(b) \/ Connect(b) \/ Partition(b) \/ MakeFs(b)
    \/ MakeMountDir(b) \/ MountImage(b) \/ Copy(b) \/ UmountImage(b) \/ Disconnect(b)
    \/ RemoveMountDir(b) \/ AnnounceImage(b) \/ Qcow2Fails(b)

\* By hand the user frees what no script at work is using.
NobodyHolds == \A b \in Builders : job[b] \notin Holding

UserUnmounts ==
    /\ NobodyHolds /\ mnt # None /\ mnt' = None
    /\ UNCHANGED <<job, left, treeVars, imageVars, initrdVars, nbd, node, dir>>

UserDisconnects ==
    /\ NobodyHolds /\ nbd # None /\ nbd' = None /\ node' = FALSE
    /\ UNCHANGED <<job, left, treeVars, imageVars, initrdVars, mnt, dir>>

-----------------------------------------------------------------------------
(***************************************************************************)
(* make-initrd.sh                                                          *)
(***************************************************************************)

StartInitrd(b) ==
    /\ Run(b, IF tree[b] = "none" THEN "idle" ELSE "pack21")
    /\ UNCHANGED <<treeVars, imageVars, initrdVars, sharedVars>>

InitrdStep(b, from, to) ==
    GoTo(b, from, to) /\ UNCHANGED <<left, treeVars, imageVars, sharedVars>>

\* The status of the pipeline is that of gzip: a failing find or cpio goes unseen.
Pack(b) ==
    /\ InitrdStep(b, "pack21", "done24")
    /\ \E made \in {"full", "torn"} : initrd' = [initrd EXCEPT ![b] = made]
    /\ packed' = [packed EXCEPT ![b] = FALSE]

\* cd, the redirection or gzip fails, or the user interrupts the script.
PackFails(b) ==
    /\ InitrdStep(b, "pack21", "idle")
    /\ \/ UNCHANGED initrdVars
       \/ /\ initrd' = [initrd EXCEPT ![b] = "torn"]
          /\ packed' = [packed EXCEPT ![b] = FALSE]

AnnounceInitrd(b) ==
    /\ InitrdStep(b, "done24", "idle")
    /\ packed' = [packed EXCEPT ![b] = TRUE]
    /\ UNCHANGED initrd

MakeInitrd(b) == StartInitrd(b) \/ Pack(b) \/ PackFails(b) \/ AnnounceInitrd(b)

-----------------------------------------------------------------------------
Next ==
    \/ \E b \in Builders : CreateRootfs(b) \/ MakeQcow2(b) \/ MakeInitrd(b)
    \/ NodeAppears \/ UserUnmounts \/ UserDisconnects

Spec == Init /\ [][Next]_vars

-----------------------------------------------------------------------------
(***************************************************************************)
(* Properties.                                                             *)
(***************************************************************************)

\* An image is what make-qcow2.sh has made of it so far: whole once cp has ended.
Content(state) == IF state \in {"none", "full"} THEN state ELSE "torn"

Promise == INSTANCE ImageFile WITH
    content <- [b \in Builders |-> Content(image[b])],
    announced <- told

\* Whatever fails, whoever interrupts whom, and though all builders share one device
\* and one mount point: make-qcow2.sh announces whole images only (line 49), and an
\* announced image stays as it is until its own builder asks for a new one.
ImagesAsPromised == Promise!Spec

\* What make-qcow2.sh writes to /dev/nbd0 and /mnt/rootfs-temp (lines 33-41) reaches
\* the image of the directory it runs in, never that of another builder.
OwnImageOnly ==
    [][\A b \in Builders : image'[b] # image[b] => job'[b] # job[b]]_vars

\* After any interruptions of create-rootfs.sh, its rm -rf (line 15) and chown -R
\* (line 45) meet the host's /proc and /sys in the tree only if an umount failed.
HostSpared ==
    \A b \in Builders : job[b] \in {"rm15", "chown45"} /\ Mounted(b) => busy[b]

\* A create-rootfs.sh that ran to its end leaves nothing mounted for the image scripts
\* to pack, unless an umount failed, whatever earlier runs had left.
NothingMountedLeft ==
    \A b \in Builders : job[b] \notin CreateLines /\ Mounted(b) => busy[b] \/ cut[b]

\* A run of make-qcow2.sh that got past its umount (line 45) leaves the mount point to
\* others: an image that is mounted is one whose script is between lines 40 and 45 or
\* failed there, and that was not announced.
MountPointFreed ==
    mnt # None => job[mnt] \notin {"disconnect46", "rmdir47", "done49"} /\ ~told[mnt]

-----------------------------------------------------------------------------
(***************************************************************************)
(* The inductive invariant behind them.                                    *)
(***************************************************************************)

\* A script between lines 29 and 46 has the device, and so at most one script is.
DeviceHeld == \A b \in Builders : job[b] \in Holding => nbd = b

\* The mount point, from mkfs to umount, and after.
MountHeld ==
    \A b \in Builders :
        /\ job[b] \in {"mkdir39", "mount40"} => mnt = None
        /\ job[b] \in {"cp41", "umount45"} => mnt = b
        /\ job[b] \in {"disconnect46", "rmdir47", "done49"} \/ told[b] => mnt # b

\* An image exists from line 25 on, is whole after line 41, and was announced only
\* when it was whole and until the next line 25.
ImageKnown ==
    \A b \in Builders :
        /\ job[b] \in Qcow2Lines \ {"create25"} => image[b] # "none" /\ ~told[b]
        /\ job[b] \in {"umount45", "disconnect46", "rmdir47", "done49"} => image[b] = "full"
        /\ told[b] => image[b] = "full"

\* The layers mounted in a rootfs directory, as long as no umount failed.
LayersKnown ==
    \A b \in Builders : ~busy[b] =>
        /\ \A k \in Kinds : mounts[b][k] <= 1
        /\ job[b] \in {"umount14", "umount42"} => mounts[b]["proc"] = 0
        /\ job[b] = "mount31" => mounts[b]["sys"] = 0
        /\ job[b] \in {"rm15", "mkdir18", "strap21", "mount30", "chown45"} => ~Mounted(b)
        /\ job[b] \notin CreateLines /\ ~cut[b] => ~Mounted(b)

\* Their conjunction.
IInv == TypeOK /\ DeviceHeld /\ MountHeld /\ ImageKnown /\ LayersKnown

=============================================================================
