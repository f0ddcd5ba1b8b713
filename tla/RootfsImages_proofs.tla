------------------------ MODULE RootfsImages_proofs ------------------------
(* Proofs about RootfsImages, for any builders and any number of runs. *)
EXTENDS RootfsImages, TLAPS

\* The initial state satisfies the inductive invariant.
LEMMA InitIInv == Init => IInv
<1>. SUFFICES ASSUME Init PROVE IInv OBVIOUS
<1>. USE DEF Init
<1>1. TypeOK
  <2>1. left \in 0..MaxRuns BY RootfsAssumption
  <2>2. mounts \in [Builders -> [Kinds -> Nat]] OBVIOUS
  <2>3. job \in [Builders -> Lines] /\ image \in [Builders -> ImageStates]
    BY DEF Lines, ImageStates
  <2>. QED BY <2>1, <2>2, <2>3, Zenon DEF TypeOK
<1>2. DeviceHeld BY DEF DeviceHeld, Holding
<1>3. MountHeld BY RootfsAssumption DEF MountHeld
<1>4. ImageKnown BY DEF ImageKnown, Qcow2Lines, Holding
<1>5. LayersKnown BY DEF LayersKnown, Mounted, Kinds, CreateLines
<1>. QED BY <1>1, <1>2, <1>3, <1>4, <1>5 DEF IInv

-----------------------------------------------------------------------------
(***************************************************************************)
(* Steps that leave one half of the state alone.                           *)
(***************************************************************************)

\* A step of a script that is not make-qcow2.sh leaves the device and the images to
\* whoever has them.
LEMMA OtherScript ==
    ASSUME IInv, NEW b \in Builders, NEW to \in Lines \ (Qcow2Lines \ {"create25"}),
           job' = [job EXCEPT ![b] = to],
           UNCHANGED <<imageVars, sharedVars>>
    PROVE  DeviceHeld' /\ MountHeld' /\ ImageKnown'
<1>. USE DEF imageVars, sharedVars
<1>0. TypeOK BY DEF IInv
<1>1. DeviceHeld' BY <1>0 DEF IInv, DeviceHeld, Holding, Qcow2Lines, TypeOK
<1>2. MountHeld' BY <1>0 DEF IInv, MountHeld, Qcow2Lines, Holding, TypeOK
<1>3. ImageKnown' BY <1>0 DEF IInv, ImageKnown, Qcow2Lines, Holding, TypeOK
<1>. QED BY <1>1, <1>2, <1>3

\* A step outside create-rootfs.sh leaves the mounts in the directory as they are.
LEMMA OutsideCreate ==
    ASSUME IInv, NEW b \in Builders, NEW to \in Lines \ CreateLines,
           job[b] \notin CreateLines, job' = [job EXCEPT ![b] = to], UNCHANGED treeVars
    PROVE  LayersKnown'
<1>. USE DEF treeVars
<1>0. TypeOK BY DEF IInv
<1>. SUFFICES ASSUME NEW c \in Builders, ~busy[c]
              PROVE  /\ \A k \in Kinds : mounts[c][k] <= 1
                     /\ job'[c] \in {"umount14", "umount42"} => mounts[c]["proc"] = 0
                     /\ job'[c] = "mount31" => mounts[c]["sys"] = 0
                     /\ job'[c] \in {"rm15", "mkdir18", "strap21", "mount30", "chown45"}
                          => ~Mounted(c)
                     /\ job'[c] \notin CreateLines /\ ~cut[c] => ~Mounted(c)
  BY DEF LayersKnown, Mounted
<1>1. CASE c = b BY <1>0, <1>1 DEF IInv, LayersKnown, CreateLines, TypeOK
<1>2. CASE c # b BY <1>0, <1>2 DEF IInv, LayersKnown, TypeOK
<1>. QED BY <1>1, <1>2

-----------------------------------------------------------------------------
(***************************************************************************)
(* create-rootfs.sh                                                        *)
(***************************************************************************)

\* umount: with nothing failed before, the top layer is the only one.
LEMMA UmountIInv ==
    ASSUME IInv, NEW b \in Builders, NEW k \in Kinds, NEW from, NEW to, Umount(b, k, from, to),
           \/ k = "proc" /\ from = "umount13" /\ to = "umount14"
           \/ k = "sys" /\ from = "umount14" /\ to = "rm15"
           \/ k = "proc" /\ from = "umount41" /\ to = "umount42"
           \/ k = "sys" /\ from = "umount42" /\ to = "chown45"
    PROVE  IInv'
<1>. USE DEF Umount, CreateStep, GoTo
<1>0. TypeOK BY DEF IInv
<1>k. k \in Kinds /\ Kinds = {"proc", "sys"} BY DEF Kinds
<1>a. to \in CreateLines /\ from \in CreateLines BY DEF CreateLines
<1>1. TypeOK'
  <2>1. job' \in [Builders -> Lines] BY <1>0, <1>a DEF TypeOK, Lines
  <2>2. mounts' \in [Builders -> [Kinds -> Nat]] BY <1>0, <1>k DEF TypeOK
  <2>3. busy' \in [Builders -> BOOLEAN]
    <3>1. CASE busy' = [busy EXCEPT ![b] = @ /\ \E j \in Kinds : mounts'[b][j] > 0]
      BY <3>1, <1>0, Zenon DEF TypeOK
    <3>2. CASE busy' = [busy EXCEPT ![b] = @ \/ mounts[b][k] > 0]
      BY <3>2, <1>0, Zenon DEF TypeOK
    <3>. QED BY <3>1, <3>2
  <2>. QED BY <1>0, <2>1, <2>2, <2>3 DEF TypeOK, imageVars, initrdVars, sharedVars
<1>2. DeviceHeld' /\ MountHeld' /\ ImageKnown'
  <2>1. to \in Lines \ (Qcow2Lines \ {"create25"})
    BY DEF Lines, CreateLines, Qcow2Lines, Holding
  <2>. QED BY <2>1, OtherScript
<1>3. LayersKnown'
  <2>. SUFFICES ASSUME NEW c \in Builders, ~busy'[c]
                PROVE  /\ \A j \in Kinds : mounts'[c][j] <= 1
                       /\ job'[c] \in {"umount14", "umount42"} => mounts'[c]["proc"] = 0
                       /\ job'[c] = "mount31" => mounts'[c]["sys"] = 0
                       /\ job'[c] \in {"rm15", "mkdir18", "strap21", "mount30", "chown45"}
                            => ~Mounted(c)'
                       /\ job'[c] \notin CreateLines /\ ~cut'[c] => ~Mounted(c)'
    BY DEF LayersKnown
  <2>1. CASE c # b
    <3>1. busy'[c] = busy[c] /\ mounts'[c] = mounts[c] /\ job'[c] = job[c] /\ cut' = cut
      BY <2>1, <1>0 DEF TypeOK
    <3>. QED BY <3>1 DEF IInv, LayersKnown, Mounted
  <2>2. CASE c = b
    <3>1. job'[b] = to /\ job[b] = from BY <1>0 DEF TypeOK
    <3>2. CASE /\ mounts[b][k] > 0
               /\ mounts' = [mounts EXCEPT ![b][k] = @ - 1]
               /\ busy' = [busy EXCEPT ![b] = @ /\ \E j \in Kinds : mounts'[b][j] > 0]
      <4>1. busy'[b] <=> busy[b] /\ \E j \in Kinds : mounts'[b][j] > 0
        BY <3>2, <1>0, Zenon DEF TypeOK
      <4>2. CASE busy[b]
        <5>1. \A j \in Kinds : ~(mounts'[b][j] > 0) BY <4>1, <4>2, <2>2
        <5>2. \A j \in Kinds : mounts'[b][j] = 0 BY <5>1, <1>1 DEF TypeOK
        <5>. QED BY <5>2, <2>2, <1>k DEF Mounted
      <4>3. CASE ~busy[b]
        <5>1. \A j \in Kinds : mounts[b][j] <= 1 BY <4>3 DEF IInv, LayersKnown
        <5>2. mounts[b][k] = 1 /\ mounts'[b][k] = 0 BY <5>1, <3>2, <1>0 DEF TypeOK
        <5>3. \A j \in Kinds \ {k} : mounts'[b][j] = mounts[b][j] BY <3>2, <1>0 DEF TypeOK
        <5>4. k = "sys" => mounts[b]["proc"] = 0
          BY <4>3, <3>1 DEF IInv, LayersKnown
        <5>. QED BY <5>1, <5>2, <5>3, <5>4, <3>1, <2>2, <1>k, <1>a DEF Mounted
      <4>. QED BY <4>2, <4>3
    <3>3. CASE mounts' = mounts /\ busy' = [busy EXCEPT ![b] = @ \/ mounts[b][k] > 0]
      <4>1. busy'[b] <=> busy[b] \/ mounts[b][k] > 0 BY <3>3, <1>0, Zenon DEF TypeOK
      <4>2. ~busy[b] /\ ~(mounts[b][k] > 0) BY <4>1, <2>2
      <4>3. mounts[b][k] = 0 BY <4>2, <1>0 DEF TypeOK
      <4>4. k = "sys" => mounts[b]["proc"] = 0
        BY <4>2, <3>1 DEF IInv, LayersKnown
      <4>5. \A j \in Kinds : mounts[b][j] <= 1 BY <4>2 DEF IInv, LayersKnown
      <4>. QED BY <3>3, <4>3, <4>4, <4>5, <3>1, <2>2, <1>k, <1>a DEF Mounted
    <3>. QED BY <3>2, <3>3
  <2>. QED BY <2>1, <2>2
<1>. QED BY <1>1, <1>2, <1>3 DEF IInv

\* mount: only where nothing was mounted, if no umount failed.
LEMMA MountIInv ==
    ASSUME IInv, NEW b \in Builders, NEW k \in Kinds, NEW from, NEW to, Mount(b, k, from, to),
           \/ k = "proc" /\ from = "mount30" /\ to = "mount31"
           \/ k = "sys" /\ from = "mount31" /\ to = "chroot34"
    PROVE  IInv'
<1>. USE DEF Mount, CreateStep, GoTo
<1>0. TypeOK BY DEF IInv
<1>k. k \in Kinds /\ Kinds = {"proc", "sys"} BY DEF Kinds
<1>a. to \in CreateLines /\ from \in CreateLines BY DEF CreateLines
<1>1. TypeOK'
  <2>1. job' \in [Builders -> Lines] BY <1>0, <1>a DEF TypeOK, Lines
  <2>2. mounts' \in [Builders -> [Kinds -> Nat]] BY <1>0, <1>k DEF TypeOK
  <2>. QED BY <1>0, <2>1, <2>2 DEF TypeOK, imageVars, initrdVars, sharedVars
<1>2. DeviceHeld' /\ MountHeld' /\ ImageKnown'
  <2>1. to \in Lines \ (Qcow2Lines \ {"create25"})
    BY DEF Lines, CreateLines, Qcow2Lines, Holding
  <2>. QED BY <2>1, OtherScript
<1>3. LayersKnown'
  <2>. SUFFICES ASSUME NEW c \in Builders, ~busy[c]
                PROVE  /\ \A j \in Kinds : mounts'[c][j] <= 1
                       /\ job'[c] \in {"umount14", "umount42"} => mounts'[c]["proc"] = 0
                       /\ job'[c] = "mount31" => mounts'[c]["sys"] = 0
                       /\ job'[c] \in {"rm15", "mkdir18", "strap21", "mount30", "chown45"}
                            => ~Mounted(c)'
                       /\ job'[c] \notin CreateLines /\ ~cut'[c] => ~Mounted(c)'
    BY DEF LayersKnown
  <2>1. CASE c # b
    <3>1. mounts'[c] = mounts[c] /\ job'[c] = job[c] /\ cut' = cut
      BY <2>1, <1>0 DEF TypeOK
    <3>. QED BY <3>1 DEF IInv, LayersKnown, Mounted
  <2>2. CASE c = b
    <3>1. job'[b] = to /\ job[b] = from BY <1>0 DEF TypeOK
    <3>2. \A j \in Kinds : mounts[b][j] \in Nat /\ mounts[b][j] <= 1
      BY <2>2, <1>0 DEF IInv, LayersKnown, TypeOK
    <3>3. mounts[b][k] = 0 /\ (k = "proc" => mounts[b]["sys"] = 0)
      <4>1. CASE k = "proc"
        <5>1. ~Mounted(b) BY <3>1, <4>1, <2>2 DEF IInv, LayersKnown
        <5>. QED BY <5>1, <3>2, <4>1, <1>k DEF Mounted
      <4>2. CASE k = "sys" BY <3>1, <4>2, <2>2 DEF IInv, LayersKnown
      <4>. QED BY <4>1, <4>2, <1>k
    <3>4. mounts'[b][k] <= 1 /\ \A j \in Kinds \ {k} : mounts'[b][j] = mounts[b][j]
      BY <3>3, <1>0 DEF TypeOK
    <3>. QED BY <3>1, <3>2, <3>3, <3>4, <2>2, <1>k, <1>a
  <2>. QED BY <2>1, <2>2
<1>. QED BY <1>1, <1>2, <1>3 DEF IInv

\* The other steps of create-rootfs.sh, and its interruption.
LEMMA CreateIInv ==
    ASSUME IInv, NEW b \in Builders,
           \/ StartCreate(b) \/ RemoveTree(b) \/ MakeTree(b) \/ Multistrap(b)
           \/ Configure(b) \/ FinishTree(b) \/ UserInterruptsCreate(b)
    PROVE  IInv'
<1>. USE DEF StartCreate, Run, RemoveTree, MakeTree, Multistrap, Configure, FinishTree,
     UserInterruptsCreate, CreateStep, GoTo, treeVars
<1>0. TypeOK BY DEF IInv
<1>a. UNCHANGED <<imageVars, initrdVars, sharedVars, mounts, busy>> OBVIOUS
<1>b. PICK to \in Lines : /\ job' = [job EXCEPT ![b] = to]
                          /\ to \notin Qcow2Lines \ {"create25"}
  <2>1. \E to \in CreateLines \cup {"idle"} : job' = [job EXCEPT ![b] = to]
    BY DEF CreateLines
  <2>2. \A to \in CreateLines \cup {"idle"} : to \in Lines /\ to \notin Qcow2Lines \ {"create25"}
    BY DEF Lines, CreateLines, Qcow2Lines, Holding
  <2>. QED BY <2>1, <2>2
<1>1. TypeOK'
  <2>1. job' \in [Builders -> Lines] BY <1>0, <1>b DEF TypeOK
  <2>2. left' \in 0..MaxRuns BY <1>0, RootfsAssumption DEF TypeOK
  <2>3. tree' \in [Builders -> {"none", "empty", "filled"}]
    <3>0. tree \in [Builders -> {"none", "empty", "filled"}] BY <1>0 DEF TypeOK
    <3>1. CASE RemoveTree(b) \/ MakeTree(b) BY <3>0, <3>1
    <3>2. CASE Multistrap(b) BY <3>0, <3>2
    <3>3. CASE StartCreate(b) \/ Configure(b) \/ FinishTree(b) \/ UserInterruptsCreate(b)
      BY <3>0, <3>3
    <3>. QED BY <3>1, <3>2, <3>3
  <2>4. cut' \in [Builders -> BOOLEAN] BY <1>0 DEF TypeOK
  <2>. QED
    BY <1>0, <1>a, <2>1, <2>2, <2>3, <2>4 DEF TypeOK, imageVars, initrdVars, sharedVars
<1>2. DeviceHeld' /\ MountHeld' /\ ImageKnown'
  BY <1>a, <1>b, OtherScript
<1>3. LayersKnown'
  <2>. SUFFICES ASSUME NEW c \in Builders, ~busy[c]
                PROVE  /\ \A j \in Kinds : mounts[c][j] <= 1
                       /\ job'[c] \in {"umount14", "umount42"} => mounts[c]["proc"] = 0
                       /\ job'[c] = "mount31" => mounts[c]["sys"] = 0
                       /\ job'[c] \in {"rm15", "mkdir18", "strap21", "mount30", "chown45"}
                            => ~Mounted(c)
                       /\ job'[c] \notin CreateLines /\ ~cut'[c] => ~Mounted(c)
    BY <1>a DEF LayersKnown, Mounted
  <2>1. CASE c # b
    <3>1. job'[c] = job[c] /\ cut'[c] = cut[c] BY <2>1, <1>0 DEF TypeOK
    <3>. QED BY <3>1 DEF IInv, LayersKnown
  <2>2. CASE c = b
    BY <2>2, <1>0 DEF IInv, LayersKnown, CreateLines, TypeOK
  <2>. QED BY <2>1, <2>2
<1>. QED BY <1>1, <1>2, <1>3 DEF IInv

-----------------------------------------------------------------------------
(***************************************************************************)
(* make-qcow2.sh, make-initrd.sh, and the shared device.                   *)
(***************************************************************************)

\* The start and the failure of make-qcow2.sh, and all of make-initrd.sh.
LEMMA SideIInv ==
    ASSUME IInv, NEW b \in Builders,
           \/ StartQcow2(b) \/ Qcow2Fails(b)
           \/ StartInitrd(b) \/ Pack(b) \/ PackFails(b) \/ AnnounceInitrd(b)
    PROVE  IInv'
<1>. USE DEF StartQcow2, Qcow2Fails, StartInitrd, Pack, PackFails, AnnounceInitrd,
     InitrdStep, Run, GoTo
<1>0. TypeOK BY DEF IInv
<1>a. UNCHANGED <<treeVars, imageVars, sharedVars>> OBVIOUS
<1>b. PICK to \in {"idle", "create25", "pack21", "done24"} : job' = [job EXCEPT ![b] = to]
  OBVIOUS
<1>c. to \in Lines \ (Qcow2Lines \ {"create25"}) /\ to \notin CreateLines
  BY DEF Lines, CreateLines, Qcow2Lines, InitrdLines, Holding
<1>d. job[b] \notin CreateLines BY DEF CreateLines, Qcow2Lines, Holding
<1>1. TypeOK'
  <2>1. job' \in [Builders -> Lines] BY <1>0, <1>b, <1>c DEF TypeOK
  <2>2. left' \in 0..MaxRuns BY <1>0, RootfsAssumption DEF TypeOK
  <2>3. initrd' \in [Builders -> {"none", "torn", "full"}] BY <1>0 DEF TypeOK, initrdVars
  <2>4. packed' \in [Builders -> BOOLEAN]
    BY <1>0 DEF TypeOK, initrdVars
  <2>. QED BY <1>0, <1>a, <2>1, <2>2, <2>3, <2>4 DEF TypeOK, treeVars, imageVars, sharedVars
<1>2. DeviceHeld' /\ MountHeld' /\ ImageKnown' BY <1>a, <1>b, <1>c, OtherScript
<1>3. LayersKnown' BY <1>a, <1>b, <1>c, <1>d, OutsideCreate
<1>. QED BY <1>1, <1>2, <1>3 DEF IInv

\* A step of make-qcow2.sh from line 25 on.  Whoever has the device has it alone.
LEMMA Qcow2IInv ==
    ASSUME IInv, NEW b \in Builders,
           \/ CreateImage(b) \/ Connect(b) \/ Partition(b) \/ MakeFs(b) \/ MakeMountDir(b)
           \/ MountImage(b) \/ Copy(b) \/ UmountImage(b) \/ Disconnect(b)
           \/ RemoveMountDir(b) \/ AnnounceImage(b)
    PROVE  IInv'
<1>. USE RootfsAssumption DEF Qcow2Step, GoTo, imageVars, sharedVars
<1>0. TypeOK BY DEF IInv
<1>a. UNCHANGED <<left, treeVars, initrdVars>>
  BY DEF CreateImage, Connect, Partition, MakeFs, MakeMountDir, MountImage, Copy, UmountImage,
         Disconnect, RemoveMountDir, AnnounceImage
<1>b. /\ job[b] \in Qcow2Lines
      /\ \E to \in Qcow2Lines \cup {"idle"} : job' = [job EXCEPT ![b] = to]
  BY DEF CreateImage, Connect, Partition, MakeFs, MakeMountDir, MountImage, Copy, UmountImage,
         Disconnect, RemoveMountDir, AnnounceImage, Qcow2Lines, Holding
<1>c. \A to \in Qcow2Lines \cup {"idle"} : to \in Lines \ CreateLines
  BY DEF Lines, CreateLines, Qcow2Lines, Holding
<1>1. LayersKnown'
  <2>1. job[b] \notin CreateLines BY <1>b, <1>c
  <2>. QED BY <1>a, <1>b, <1>c, <2>1, OutsideCreate
<1>t. ASSUME image' \in [Builders -> ImageStates], told' \in [Builders -> BOOLEAN],
             nbd' \in Builders \cup {None}, node' \in BOOLEAN, node' => nbd' # None,
             mnt' \in Builders \cup {None}, dir' \in BOOLEAN, mnt' # None => dir'
      PROVE  TypeOK'
  <2>1. job' \in [Builders -> Lines] BY <1>0, <1>b, <1>c DEF TypeOK
  <2>. QED BY <1>0, <1>a, <1>t, <2>1 DEF TypeOK, treeVars, initrdVars
<1>h. \A c \in Builders \ {b} : job'[c] = job[c] BY <1>0, <1>b DEF TypeOK
<1>o. job[b] \in Holding => nbd = b /\ \A c \in Builders \ {b} : job[c] \notin Holding
  BY DEF IInv, DeviceHeld
<1>2. CASE CreateImage(b)
  <2>. USE <1>2 DEF CreateImage
  <2>0. job[b] = "create25" /\ job'[b] = "connect29" BY <1>0 DEF TypeOK
  <2>1. TypeOK' BY <1>0, <1>t, <1>o, <2>0 DEF TypeOK, ImageStates, Holding
  <2>2. DeviceHeld' BY <1>0, <1>h, <1>o, <2>0 DEF IInv, DeviceHeld, Holding, TypeOK
  <2>3. MountHeld' BY <1>0, <1>h, <1>o, <2>0 DEF IInv, MountHeld, ImageKnown, Qcow2Lines, Holding, TypeOK
  <2>4. ImageKnown' BY <1>0, <1>h, <1>o, <2>0 DEF IInv, ImageKnown, MountHeld, Qcow2Lines, Holding, TypeOK
  <2>. QED BY <1>1, <2>1, <2>2, <2>3, <2>4 DEF IInv
<1>3. CASE Connect(b)
  <2>. USE <1>3 DEF Connect
  <2>0. job[b] = "connect29" /\ job'[b] = "parted33" BY <1>0 DEF TypeOK
  <2>1. TypeOK' BY <1>0, <1>t, <1>o, <2>0 DEF TypeOK, ImageStates, Holding
  <2>2. DeviceHeld' BY <1>0, <1>h, <1>o, <2>0 DEF IInv, DeviceHeld, Holding, TypeOK
  <2>3. MountHeld' BY <1>0, <1>h, <1>o, <2>0 DEF IInv, MountHeld, ImageKnown, Qcow2Lines, Holding, TypeOK
  <2>4. ImageKnown' BY <1>0, <1>h, <1>o, <2>0 DEF IInv, ImageKnown, MountHeld, Qcow2Lines, Holding, TypeOK
  <2>. QED BY <1>1, <2>1, <2>2, <2>3, <2>4 DEF IInv
<1>4. CASE Partition(b)
  <2>. USE <1>4 DEF Partition
  <2>0. job[b] = "parted33" /\ job'[b] = "mkfs35" BY <1>0 DEF TypeOK
  <2>1. TypeOK' BY <1>0, <1>t, <1>o, <2>0 DEF TypeOK, ImageStates, Holding
  <2>2. DeviceHeld' BY <1>0, <1>h, <1>o, <2>0 DEF IInv, DeviceHeld, Holding, TypeOK
  <2>3. MountHeld' BY <1>0, <1>h, <1>o, <2>0 DEF IInv, MountHeld, ImageKnown, Qcow2Lines, Holding, TypeOK
  <2>4. ImageKnown' BY <1>0, <1>h, <1>o, <2>0 DEF IInv, ImageKnown, MountHeld, Qcow2Lines, Holding, TypeOK
  <2>. QED BY <1>1, <2>1, <2>2, <2>3, <2>4 DEF IInv
<1>5. CASE MakeFs(b)
  <2>. USE <1>5 DEF MakeFs
  <2>0. job[b] = "mkfs35" /\ job'[b] = "mkdir39" BY <1>0 DEF TypeOK
  <2>1. TypeOK' BY <1>0, <1>t, <1>o, <2>0 DEF TypeOK, ImageStates, Holding
  <2>2. DeviceHeld' BY <1>0, <1>h, <1>o, <2>0 DEF IInv, DeviceHeld, Holding, TypeOK
  <2>3. MountHeld' BY <1>0, <1>h, <1>o, <2>0 DEF IInv, MountHeld, ImageKnown, Qcow2Lines, Holding, TypeOK
  <2>4. ImageKnown' BY <1>0, <1>h, <1>o, <2>0 DEF IInv, ImageKnown, MountHeld, Qcow2Lines, Holding, TypeOK
  <2>. QED BY <1>1, <2>1, <2>2, <2>3, <2>4 DEF IInv
<1>6. CASE MakeMountDir(b)
  <2>. USE <1>6 DEF MakeMountDir
  <2>0. job[b] = "mkdir39" /\ job'[b] = "mount40" BY <1>0 DEF TypeOK
  <2>1. TypeOK' BY <1>0, <1>t, <1>o, <2>0 DEF TypeOK, ImageStates, Holding
  <2>2. DeviceHeld' BY <1>0, <1>h, <1>o, <2>0 DEF IInv, DeviceHeld, Holding, TypeOK
  <2>3. MountHeld' BY <1>0, <1>h, <1>o, <2>0 DEF IInv, MountHeld, ImageKnown, Qcow2Lines, Holding, TypeOK
  <2>4. ImageKnown' BY <1>0, <1>h, <1>o, <2>0 DEF IInv, ImageKnown, MountHeld, Qcow2Lines, Holding, TypeOK
  <2>. QED BY <1>1, <2>1, <2>2, <2>3, <2>4 DEF IInv
<1>7. CASE MountImage(b)
  <2>. USE <1>7 DEF MountImage
  <2>0. job[b] = "mount40" /\ job'[b] = "cp41" BY <1>0 DEF TypeOK
  <2>1. TypeOK' BY <1>0, <1>t, <1>o, <2>0 DEF TypeOK, ImageStates, Holding
  <2>2. DeviceHeld' BY <1>0, <1>h, <1>o, <2>0 DEF IInv, DeviceHeld, Holding, TypeOK
  <2>3. MountHeld' BY <1>0, <1>h, <1>o, <2>0 DEF IInv, MountHeld, ImageKnown, Qcow2Lines, Holding, TypeOK
  <2>4. ImageKnown' BY <1>0, <1>h, <1>o, <2>0 DEF IInv, ImageKnown, MountHeld, Qcow2Lines, Holding, TypeOK
  <2>. QED BY <1>1, <2>1, <2>2, <2>3, <2>4 DEF IInv
<1>8. CASE Copy(b)
  <2>. USE <1>8 DEF Copy
  <2>0. job[b] = "cp41" /\ job'[b] = "umount45" BY <1>0 DEF TypeOK
  <2>1. TypeOK' BY <1>0, <1>t, <1>o, <2>0 DEF TypeOK, ImageStates, Holding
  <2>2. DeviceHeld' BY <1>0, <1>h, <1>o, <2>0 DEF IInv, DeviceHeld, Holding, TypeOK
  <2>3. MountHeld' BY <1>0, <1>h, <1>o, <2>0 DEF IInv, MountHeld, ImageKnown, Qcow2Lines, Holding, TypeOK
  <2>4. ImageKnown' BY <1>0, <1>h, <1>o, <2>0 DEF IInv, ImageKnown, MountHeld, Qcow2Lines, Holding, TypeOK
  <2>. QED BY <1>1, <2>1, <2>2, <2>3, <2>4 DEF IInv
<1>9. CASE UmountImage(b)
  <2>. USE <1>9 DEF UmountImage
  <2>0. job[b] = "umount45" /\ job'[b] = "disconnect46" BY <1>0 DEF TypeOK
  <2>1. TypeOK' BY <1>0, <1>t, <1>o, <2>0 DEF TypeOK, ImageStates, Holding
  <2>2. DeviceHeld' BY <1>0, <1>h, <1>o, <2>0 DEF IInv, DeviceHeld, Holding, TypeOK
  <2>3. MountHeld' BY <1>0, <1>h, <1>o, <2>0 DEF IInv, MountHeld, ImageKnown, Qcow2Lines, Holding, TypeOK
  <2>4. ImageKnown' BY <1>0, <1>h, <1>o, <2>0 DEF IInv, ImageKnown, MountHeld, Qcow2Lines, Holding, TypeOK
  <2>. QED BY <1>1, <2>1, <2>2, <2>3, <2>4 DEF IInv
<1>10. CASE Disconnect(b)
  <2>. USE <1>10 DEF Disconnect
  <2>0. job[b] = "disconnect46" /\ job'[b] = "rmdir47" BY <1>0 DEF TypeOK
  <2>1. TypeOK' BY <1>0, <1>t, <1>o, <2>0 DEF TypeOK, ImageStates, Holding
  <2>2. DeviceHeld' BY <1>0, <1>h, <1>o, <2>0 DEF IInv, DeviceHeld, Holding, TypeOK
  <2>3. MountHeld' BY <1>0, <1>h, <1>o, <2>0 DEF IInv, MountHeld, ImageKnown, Qcow2Lines, Holding, TypeOK
  <2>4. ImageKnown' BY <1>0, <1>h, <1>o, <2>0 DEF IInv, ImageKnown, MountHeld, Qcow2Lines, Holding, TypeOK
  <2>. QED BY <1>1, <2>1, <2>2, <2>3, <2>4 DEF IInv
<1>11. CASE RemoveMountDir(b)
  <2>. USE <1>11 DEF RemoveMountDir
  <2>0. job[b] = "rmdir47" /\ job'[b] = "done49" BY <1>0 DEF TypeOK
  <2>1. TypeOK' BY <1>0, <1>t, <1>o, <2>0 DEF TypeOK, ImageStates, Holding
  <2>2. DeviceHeld' BY <1>0, <1>h, <1>o, <2>0 DEF IInv, DeviceHeld, Holding, TypeOK
  <2>3. MountHeld' BY <1>0, <1>h, <1>o, <2>0 DEF IInv, MountHeld, ImageKnown, Qcow2Lines, Holding, TypeOK
  <2>4. ImageKnown' BY <1>0, <1>h, <1>o, <2>0 DEF IInv, ImageKnown, MountHeld, Qcow2Lines, Holding, TypeOK
  <2>. QED BY <1>1, <2>1, <2>2, <2>3, <2>4 DEF IInv
<1>12. CASE AnnounceImage(b)
  <2>. USE <1>12 DEF AnnounceImage
  <2>0. job[b] = "done49" /\ job'[b] = "idle" BY <1>0 DEF TypeOK
  <2>1. TypeOK' BY <1>0, <1>t, <1>o, <2>0 DEF TypeOK, ImageStates, Holding
  <2>2. DeviceHeld' BY <1>0, <1>h, <1>o, <2>0 DEF IInv, DeviceHeld, Holding, TypeOK
  <2>3. MountHeld' BY <1>0, <1>h, <1>o, <2>0 DEF IInv, MountHeld, ImageKnown, Qcow2Lines, Holding, TypeOK
  <2>4. ImageKnown' BY <1>0, <1>h, <1>o, <2>0 DEF IInv, ImageKnown, MountHeld, Qcow2Lines, Holding, TypeOK
  <2>. QED BY <1>1, <2>1, <2>2, <2>3, <2>4 DEF IInv
<1>. QED BY <1>2, <1>3, <1>4, <1>5, <1>6, <1>7, <1>8, <1>9, <1>10, <1>11, <1>12

\* The kernel shows the partition, and the user frees what nobody holds.
LEMMA DeviceIInv ==
    ASSUME IInv, NodeAppears \/ UserUnmounts \/ UserDisconnects
    PROVE  IInv'
<1>. USE RootfsAssumption DEF NodeAppears, UserUnmounts, UserDisconnects, NobodyHolds,
     treeVars, imageVars, initrdVars
<1>0. TypeOK BY DEF IInv
<1>1. TypeOK'
  <2>1. /\ nbd' \in Builders \cup {None} /\ mnt' \in Builders \cup {None}
        /\ node' \in BOOLEAN /\ dir' \in BOOLEAN
        /\ (node' => nbd' # None) /\ (mnt' # None => dir')
    <3>1. CASE NodeAppears BY <3>1, <1>0, Zenon DEF TypeOK
    <3>2. CASE UserUnmounts BY <3>2, <1>0, Zenon DEF TypeOK
    <3>3. CASE UserDisconnects BY <3>3, <1>0, Zenon DEF TypeOK
    <3>. QED BY <3>1, <3>2, <3>3
  <2>2. UNCHANGED <<job, left, tree, mounts, busy, cut, image, told, initrd, packed>>
    OBVIOUS
  <2>. QED BY <1>0, <2>1, <2>2 DEF TypeOK
<1>2. DeviceHeld' BY DEF IInv, DeviceHeld
<1>3. MountHeld' BY DEF IInv, MountHeld, Holding
<1>4. ImageKnown' BY DEF IInv, ImageKnown
<1>5. LayersKnown' BY DEF IInv, LayersKnown, Mounted
<1>. QED BY <1>1, <1>2, <1>3, <1>4, <1>5 DEF IInv

-----------------------------------------------------------------------------
(***************************************************************************)
(* Invariants of the specification.                                        *)
(***************************************************************************)

\* Every step preserves the inductive invariant.
LEMMA NextIInv == IInv /\ [Next]_vars => IInv'
<1>. SUFFICES ASSUME IInv, [Next]_vars PROVE IInv' OBVIOUS
<1>1. ASSUME NEW b \in Builders, CreateRootfs(b) PROVE IInv'
  <2>. USE DEF Kinds
  <2>1. CASE UmountOldProc(b) BY <2>1, UmountIInv DEF UmountOldProc
  <2>2. CASE UmountOldSys(b) BY <2>2, UmountIInv DEF UmountOldSys
  <2>3. CASE UmountProc(b) BY <2>3, UmountIInv DEF UmountProc
  <2>4. CASE UmountSys(b) BY <2>4, UmountIInv DEF UmountSys
  <2>5. CASE MountProc(b) BY <2>5, MountIInv DEF MountProc
  <2>6. CASE MountSys(b) BY <2>6, MountIInv DEF MountSys
  <2>. QED BY <1>1, <2>1, <2>2, <2>3, <2>4, <2>5, <2>6, CreateIInv DEF CreateRootfs
<1>2. ASSUME NEW b \in Builders, MakeQcow2(b) PROVE IInv'
  BY <1>2, SideIInv, Qcow2IInv DEF MakeQcow2
<1>3. ASSUME NEW b \in Builders, MakeInitrd(b) PROVE IInv'
  BY <1>3, SideIInv DEF MakeInitrd
<1>4. CASE NodeAppears \/ UserUnmounts \/ UserDisconnects BY <1>4, DeviceIInv
<1>5. CASE UNCHANGED vars
  <2>. USE <1>5 DEF vars, treeVars, imageVars, initrdVars, sharedVars
  <2>1. TypeOK' BY DEF IInv, TypeOK
  <2>2. DeviceHeld' BY DEF IInv, DeviceHeld
  <2>3. MountHeld' BY DEF IInv, MountHeld
  <2>4. ImageKnown' BY DEF IInv, ImageKnown
  <2>5. LayersKnown' BY DEF IInv, LayersKnown, Mounted
  <2>. QED BY <2>1, <2>2, <2>3, <2>4, <2>5 DEF IInv
<1>. QED BY <1>1, <1>2, <1>3, <1>4, <1>5 DEF Next

\* Who has the device and the mount point, what each image is, and what is mounted in
\* each rootfs directory, whatever fails and however the scripts interleave.
THEOREM Inductive == Spec => []IInv
BY InitIInv, NextIInv, PTL DEF Spec

\* rm -rf and chown -R of create-rootfs.sh meet the host's /proc and /sys only if an
\* umount failed.
THEOREM HostSparedHolds == Spec => []HostSpared
<1>1. IInv => HostSpared BY DEF IInv, LayersKnown, HostSpared
<1>. QED BY <1>1, Inductive, PTL

\* create-rootfs.sh leaves nothing mounted, unless it is interrupted or an umount failed.
THEOREM NothingMountedLeftHolds == Spec => []NothingMountedLeft
<1>1. IInv => NothingMountedLeft BY DEF IInv, LayersKnown, NothingMountedLeft
<1>. QED BY <1>1, Inductive, PTL

\* make-qcow2.sh leaves the mount point to others once it is past its umount.
THEOREM MountPointFreedHolds == Spec => []MountPointFreed
<1>1. IInv => MountPointFreed
  <2>. SUFFICES ASSUME IInv, mnt # None
                PROVE  job[mnt] \notin {"disconnect46", "rmdir47", "done49"} /\ ~told[mnt]
    BY DEF MountPointFreed
  <2>1. mnt \in Builders BY DEF IInv, TypeOK
  <2>. QED BY <2>1 DEF IInv, MountHeld
<1>. QED BY <1>1, Inductive, PTL

-----------------------------------------------------------------------------
(***************************************************************************)
(* Steps: what becomes of the images.                                      *)
(***************************************************************************)

\* A step changes an image or its announcement only by one of these five commands,
\* of the builder whose image it is.
LEMMA ImageSteps ==
    ASSUME IInv, [Next]_vars
    PROVE  \/ UNCHANGED imageVars
           \/ \E b \in Builders :
                 \/ /\ CreateImage(b)
                 \/ /\ Partition(b) \/ MakeFs(b) \/ Copy(b)
                    /\ nbd = b
                 \/ AnnounceImage(b)
<1>1. ASSUME NEW b \in Builders, CreateRootfs(b) PROVE UNCHANGED imageVars
  BY <1>1 DEF CreateRootfs, StartCreate, UmountOldProc, UmountOldSys, RemoveTree, MakeTree,
     Multistrap, MountProc, MountSys, Configure, UmountProc, UmountSys, FinishTree,
     UserInterruptsCreate, CreateStep, Umount, Mount
<1>2. ASSUME NEW b \in Builders, MakeQcow2(b), ~UNCHANGED imageVars
      PROVE  \/ CreateImage(b) \/ AnnounceImage(b)
             \/ (Partition(b) \/ MakeFs(b) \/ Copy(b)) /\ nbd = b
  <2>1. CreateImage(b) \/ Partition(b) \/ MakeFs(b) \/ Copy(b) \/ AnnounceImage(b)
    BY <1>2 DEF MakeQcow2, StartQcow2, Connect, MakeMountDir, MountImage, UmountImage,
       Disconnect, RemoveMountDir, Qcow2Fails
  <2>2. Partition(b) \/ MakeFs(b) \/ Copy(b) => job[b] \in Holding
    BY DEF Partition, MakeFs, Copy, Qcow2Step, GoTo, Holding
  <2>. QED BY <2>1, <2>2 DEF IInv, DeviceHeld
<1>3. ASSUME NEW b \in Builders, MakeInitrd(b) PROVE UNCHANGED imageVars
  BY <1>3 DEF MakeInitrd, StartInitrd, Pack, PackFails, AnnounceInitrd, InitrdStep
<1>4. CASE NodeAppears \/ UserUnmounts \/ UserDisconnects
  BY <1>4 DEF NodeAppears, UserUnmounts, UserDisconnects
<1>5. CASE UNCHANGED vars BY <1>5 DEF vars
<1>. QED BY <1>1, <1>2, <1>3, <1>4, <1>5 DEF Next

\* What make-qcow2.sh writes reaches the image of its own builder only.
THEOREM OwnImageOnlyHolds == Spec => OwnImageOnly
<1>1. ASSUME IInv, [Next]_vars
      PROVE  \A b \in Builders : image'[b] # image[b] => job'[b] # job[b]
  <2>. SUFFICES ASSUME NEW c \in Builders, image'[c] # image[c] PROVE job'[c] # job[c]
    OBVIOUS
  <2>0. TypeOK BY <1>1 DEF IInv
  <2>1. PICK b \in Builders :
           \/ CreateImage(b) \/ AnnounceImage(b)
           \/ (Partition(b) \/ MakeFs(b) \/ Copy(b)) /\ nbd = b
    BY <1>1, ImageSteps DEF imageVars
  <2>2. c = b
    BY <2>0, <2>1 DEF CreateImage, AnnounceImage, Partition, MakeFs, Copy, TypeOK
  <2>3. \E from, to \in Lines : from # to /\ GoTo(b, from, to)
    BY <2>1 DEF CreateImage, AnnounceImage, Partition, MakeFs, Copy, Qcow2Step, Lines,
       Qcow2Lines, Holding
  <2>. QED BY <2>0, <2>2, <2>3 DEF GoTo, TypeOK
<1>. QED BY <1>1, Inductive, PTL DEF Spec, OwnImageOnly

\* make-qcow2.sh, run by any number of builders at a time, implements ImageFile: whole
\* images are announced, and announced images are left alone.
THEOREM Refinement == Spec => ImagesAsPromised
<1>1. Init => Promise!Init BY DEF Init, Promise!Init, Content
<1>2. ASSUME IInv, [Next]_vars
      PROVE  [Promise!Next]_<<[b \in Builders |-> Content(image[b])], told>>
  <2>0. TypeOK BY <1>2 DEF IInv
  <2>1. CASE UNCHANGED imageVars BY <2>1 DEF imageVars
  <2>2. ASSUME NEW b \in Builders, CreateImage(b) PROVE Promise!Begin(b)
    BY <2>0, <2>2 DEF CreateImage, Promise!Begin, Content, TypeOK
  <2>3. ASSUME NEW b \in Builders, Partition(b) \/ MakeFs(b) \/ Copy(b), nbd = b
        PROVE  Promise!Build(b)
    <3>1. job[b] \in Qcow2Lines \ {"create25"}
      BY <2>3 DEF Partition, MakeFs, Copy, Qcow2Step, GoTo, Qcow2Lines, Holding
    <3>2. ~told[b] /\ image[b] # "none" BY <1>2, <3>1 DEF IInv, ImageKnown
    <3>3. Content(image[b]) # "none" BY <3>2 DEF Content
    <3>4. \E s \in {"table", "fs", "full"} : image' = [image EXCEPT ![b] = s]
      BY <2>3 DEF Partition, MakeFs, Copy
    <3>5. \E c \in {"torn", "full"} :
             [d \in Builders |-> Content(image'[d])]
               = [[d \in Builders |-> Content(image[d])] EXCEPT ![b] = c]
      BY <2>0, <3>4 DEF Content, TypeOK
    <3>6. told' = told BY <2>3 DEF Partition, MakeFs, Copy
    <3>. QED BY <3>2, <3>3, <3>5, <3>6 DEF Promise!Build
  <2>4. ASSUME NEW b \in Builders, AnnounceImage(b) PROVE Promise!Announce(b)
    <3>1. job[b] = "done49" BY <2>4 DEF AnnounceImage, Qcow2Step, GoTo
    <3>2. image[b] = "full" BY <1>2, <3>1 DEF IInv, ImageKnown
    <3>. QED BY <2>4, <3>2 DEF AnnounceImage, Promise!Announce, Content
  <2>. QED BY <1>2, <2>1, <2>2, <2>3, <2>4, ImageSteps DEF Promise!Next
<1>. QED BY <1>1, <1>2, Inductive, PTL DEF Spec, ImagesAsPromised, Promise!Spec

=============================================================================
