------------------------- MODULE RiscvTarget_proofs -------------------------
(* Proofs about RiscvTarget, for any number of runs and of x86 scripts. *)
EXTENDS RiscvTarget, TLAPS

\* The scripts of the panes are told apart by their run and their kind.
LEMMA Names ==
    /\ \A o, p : Qemu(o) = Qemu(p) <=> o = p
    /\ \A o, p : Gdb(o) = Gdb(p) <=> o = p
    /\ \A o, p : Qemu(o) # Gdb(p)
    /\ \A o : Qemu(o) \in Scripts <=> o \in Runs
    /\ \A o : Gdb(o) \in Scripts <=> o \in Runs
BY DEF Qemu, Gdb, Scripts

\* The initial state satisfies the inductive invariant.
LEMMA InitIInv == Init => IInv
<1>. SUFFICES ASSUME Init PROVE IInv OBVIOUS
<1>. USE RiscvAssumption DEF Init, Owners
<1>1. TypeOK
  <2>1. /\ run \in [Runs -> RunLabels] /\ qemu \in [Owners -> QemuStates]
        /\ gdb \in [Owners -> GdbLabels]
    BY DEF RunLabels, QemuStates, GdbLabels
  <2>2. /\ active \in panes \cup {i \in {Idle} : idle > 0} \cup {i \in {None} : ~sess}
        /\ sess <=> panes # {} \/ idle > 0
    OBVIOUS
  <2>. QED BY <2>1, <2>2 DEF TypeOK
<1>2. PanesKnown BY DEF PanesKnown
<1>3. OneAtATime BY DEF OneAtATime, SettingUp
<1>4. SetupGoesOn BY DEF SetupGoesOn
<1>. QED BY <1>1, <1>2, <1>3, <1>4 DEF IInv

-----------------------------------------------------------------------------
(***************************************************************************)
(* run.sh                                                                  *)
(***************************************************************************)

\* A step of run.sh that changes nothing in the session; one that ends a set-up half-way
\* is known to have done so.
LEMMA RunAlone ==
    ASSUME IInv, NEW r \in Runs, NEW to \in RunLabels \ SettingUp,
           run' = [run EXCEPT ![r] = to],
           to \in {"unstarted", "check", "new"} => run[r] \in {"unstarted", "check"},
           half' \in BOOLEAN, half \/ (sess /\ run[r] \in SettingUp) => half',
           UNCHANGED <<qemuVars, gdbVars, sess, panes, idle, active, torn>>,
           clients' \subseteq Runs
    PROVE  IInv'
<1>. USE DEF qemuVars, gdbVars
<1>0. TypeOK BY DEF IInv
<1>a. run'[r] = to /\ \A s \in Runs \ {r} : run'[s] = run[s] BY <1>0 DEF TypeOK
<1>1. TypeOK' BY <1>0 DEF TypeOK
<1>2. PanesKnown' BY <1>a DEF IInv, PanesKnown, RunLabels, SettingUp
<1>3. OneAtATime' BY <1>a DEF IInv, OneAtATime
<1>4. SetupGoesOn' BY <1>a DEF IInv, SetupGoesOn, SettingUp
<1>. QED BY <1>1, <1>2, <1>3, <1>4 DEF IInv

\* The steps of run.sh that set nothing up.
LEMMA RunIInv ==
    ASSUME IInv, NEW r \in Runs,
           \/ Start(r) \/ HasSession(r) \/ Fails(r) \/ Layout(r) \/ Attach(r)
           \/ UserDetaches(r) \/ UserHangsUp(r) \/ (NewSession(r) /\ sess)
    PROVE  IInv'
<1>0. TypeOK BY DEF IInv
<1>a. UNCHANGED <<qemuVars, gdbVars, sess, panes, idle, active, torn>> /\ clients' \subseteq Runs
  BY <1>0 DEF TypeOK, Start, HasSession, Fails, Layout, Attach, UserDetaches, UserHangsUp,
     NewSession, tmuxVars
<1>c. half' \in BOOLEAN /\ (half \/ (sess /\ run[r] \in SettingUp) => half')
  <2>1. CASE Fails(r) \/ UserHangsUp(r) BY <1>0, <2>1, Zenon DEF TypeOK, Fails, UserHangsUp, LeavesHalf
  <2>2. CASE ~(Fails(r) \/ UserHangsUp(r))
    BY <1>0, <2>2 DEF TypeOK, Start, HasSession, Layout, Attach, UserDetaches, NewSession, GoTo,
       SettingUp, tmuxVars
  <2>. QED BY <2>1, <2>2
<1>b. \E to \in RunLabels \ SettingUp :
         /\ run' = [run EXCEPT ![r] = to]
         /\ to \in {"unstarted", "check", "new"} => run[r] \in {"unstarted", "check"}
  BY DEF Start, HasSession, Fails, Layout, Attach, UserDetaches, UserHangsUp, NewSession,
     GoTo, RunLabels, SettingUp
<1>. QED BY <1>a, <1>b, <1>c, RunAlone

\* A new session is empty, and the run that makes it the only one in set-up, if no
\* earlier session was closed in set-up.
LEMMA NewSessionIInv == ASSUME IInv, NEW r \in Runs, NewSession(r), ~sess PROVE IInv'
<1>. USE DEF NewSession, GoTo, qemuVars, gdbVars
<1>0. TypeOK BY DEF IInv
<1>a. /\ run[r] = "new" /\ run'[r] = "keysqemu" /\ \A s \in Runs \ {r} : run'[s] = run[s]
      /\ run' = [run EXCEPT ![r] = "keysqemu"]
  BY <1>0 DEF TypeOK
<1>b. sess' = TRUE /\ idle' = 1 /\ active' = Idle /\ panes' = panes /\ clients' = clients
      /\ torn' = torn /\ half' = half /\ panes = {}
  BY <1>0 DEF TypeOK
<1>1. TypeOK' BY <1>0, <1>a, <1>b DEF TypeOK, RunLabels, SettingUp
<1>2. PanesKnown' BY <1>a, <1>b DEF IInv, PanesKnown, SettingUp
<1>3. OneAtATime' BY <1>a, <1>b DEF IInv, OneAtATime
<1>4. SetupGoesOn' BY <1>a, <1>b DEF SetupGoesOn
<1>. QED BY <1>1, <1>2, <1>3, <1>4 DEF IInv

\* What is typed goes to a pane at its prompt, if the active one is.
LEMMA TypedPanes ==
    ASSUME TypeOK, sess, NEW y \in Scripts, Typed(y), sess' = sess
    PROVE  /\ panes' \subseteq Scripts /\ idle' \in Nat
           /\ active' \in panes' \cup {i \in {Idle} : idle' > 0} \cup {i \in {None} : ~sess'}
           /\ sess' <=> panes' # {} \/ idle' > 0
           /\ panes' = IF active = Idle THEN panes \cup {y} ELSE panes
           /\ active # Idle => active' = active
<1>1. CASE active = Idle
  <2>1. idle > 0 BY <1>1, RiscvAssumption DEF TypeOK
  <2>. QED BY <1>1, <2>1 DEF Typed, TypeOK
<1>2. CASE active # Idle BY <1>2 DEF Typed, TypeOK
<1>. QED BY <1>1, <1>2

\* Line 16 of run.sh.
LEMMA KeysQemuIInv == ASSUME IInv, NEW r \in Runs, KeysQemu(r) PROVE IInv'
<1>. USE DEF KeysQemu, GoTo, gdbVars
<1>0. TypeOK /\ sess BY DEF IInv
<1>a. /\ run[r] = "keysqemu" /\ run'[r] = "split" /\ \A s \in Runs \ {r} : run'[s] = run[s]
      /\ run' = [run EXCEPT ![r] = "split"]
  BY <1>0 DEF TypeOK
<1>b. /\ panes' \subseteq Scripts /\ idle' \in Nat
      /\ active' \in panes' \cup {i \in {Idle} : idle' > 0} \cup {i \in {None} : ~sess'}
      /\ sess' <=> panes' # {} \/ idle' > 0
      /\ panes' = IF active = Idle THEN panes \cup {Qemu(r)} ELSE panes
  BY <1>0, Names, TypedPanes
<1>c. /\ \A s \in Runs \ {r} : qemu'[s] = qemu[s]
      /\ qemu'[r] = IF active = Idle THEN "typed" ELSE qemu[r]
      /\ qemu' \in [Owners -> QemuStates]
  BY <1>0 DEF TypeOK, Owners, QemuStates
<1>d. \A s \in Runs : Gdb(s) \in panes' <=> Gdb(s) \in panes BY <1>b, Names
<1>e. UNCHANGED <<socket, gdb, target, asked, sess, clients, torn, half>> OBVIOUS
<1>1. TypeOK' BY <1>0, <1>a, <1>b, <1>c, <1>e DEF TypeOK, RunLabels, SettingUp
<1>2. PanesKnown' BY <1>a, <1>b, <1>c, <1>d, <1>e DEF IInv, PanesKnown, SettingUp
<1>3. OneAtATime'
  <2>. SUFFICES ASSUME ~torn
                PROVE  /\ \A s, q \in {p \in Runs : run'[p] \in SettingUp \/ Qemu(p) \in panes'} : s = q
                       /\ \A s \in Runs : qemu'[s] = "up" => socket = s
    BY <1>0, <1>e DEF OneAtATime
  <2>1. \A s \in Runs : run'[s] \in SettingUp \/ Qemu(s) \in panes'
                          => run[s] \in SettingUp \/ Qemu(s) \in panes
    BY <1>a, <1>b, Names DEF SettingUp
  <2>. QED BY <2>1, <1>c DEF IInv, OneAtATime
<1>4. SetupGoesOn' BY <1>a DEF SetupGoesOn
<1>. QED BY <1>1, <1>2, <1>3, <1>4 DEF IInv

\* Line 19 of run.sh.
LEMMA SplitIInv == ASSUME IInv, NEW r \in Runs, Split(r) PROVE IInv'
<1>. USE DEF Split, GoTo, gdbVars, qemuVars
<1>0. TypeOK /\ sess BY DEF IInv
<1>a. /\ run[r] = "split" /\ run'[r] = "keysgdb" /\ \A s \in Runs \ {r} : run'[s] = run[s]
      /\ run' = [run EXCEPT ![r] = "keysgdb"]
  BY <1>0 DEF TypeOK
<1>1. TypeOK' BY <1>0, <1>a DEF TypeOK, RunLabels, SettingUp
<1>2. PanesKnown' BY <1>a DEF IInv, PanesKnown, SettingUp
<1>3. OneAtATime' BY <1>0, <1>a DEF IInv, OneAtATime, SettingUp
<1>4. SetupGoesOn' BY <1>a DEF SetupGoesOn
<1>. QED BY <1>1, <1>2, <1>3, <1>4 DEF IInv

\* Line 20 of run.sh.
LEMMA KeysGdbIInv == ASSUME IInv, NEW r \in Runs, KeysGdb(r) PROVE IInv'
<1>. USE DEF KeysGdb, GoTo, qemuVars
<1>0. TypeOK /\ sess BY DEF IInv
<1>a. /\ run[r] = "keysgdb" /\ run'[r] = "layout" /\ \A s \in Runs \ {r} : run'[s] = run[s]
      /\ run' = [run EXCEPT ![r] = "layout"]
  BY <1>0 DEF TypeOK
<1>b. /\ panes' \subseteq Scripts /\ idle' \in Nat
      /\ active' \in panes' \cup {i \in {Idle} : idle' > 0} \cup {i \in {None} : ~sess'}
      /\ sess' <=> panes' # {} \/ idle' > 0
      /\ panes' = IF active = Idle THEN panes \cup {Gdb(r)} ELSE panes
      /\ active # Idle => active' = active
  BY <1>0, Names, TypedPanes
<1>c. /\ \A s \in Runs \ {r} : gdb'[s] = gdb[s]
      /\ gdb'[r] = IF active = Idle THEN "connect" ELSE gdb[r]
      /\ gdb' \in [Owners -> GdbLabels]
  BY <1>0 DEF TypeOK, Owners, GdbLabels
<1>d. \A s \in Runs : Qemu(s) \in panes' <=> Qemu(s) \in panes BY <1>b, Names
<1>e. UNCHANGED <<qemu, socket, target, asked, sess, clients, torn, half>> OBVIOUS
<1>f. \A s \in Runs \ {r} : Gdb(s) \in panes' <=> Gdb(s) \in panes BY <1>b, Names
<1>1. TypeOK' BY <1>0, <1>a, <1>b, <1>c, <1>e DEF TypeOK, RunLabels, SettingUp
<1>2. PanesKnown' BY <1>a, <1>b, <1>c, <1>d, <1>e, <1>f DEF IInv, PanesKnown, SettingUp
<1>3. OneAtATime' BY <1>0, <1>a, <1>d, <1>e DEF IInv, OneAtATime, SettingUp
<1>4. SetupGoesOn'
  <2>1. CASE active = Idle BY <2>1, <1>b DEF SetupGoesOn
  <2>2. CASE active # Idle BY <2>2, <1>0, <1>a, <1>b, <1>e DEF IInv, SetupGoesOn
  <2>. QED BY <2>1, <2>2
<1>. QED BY <1>1, <1>2, <1>3, <1>4 DEF IInv

-----------------------------------------------------------------------------
(***************************************************************************)
(* QEMU                                                                    *)
(***************************************************************************)

\* A QEMU gets on without leaving its pane.
LEMMA QemuIInv ==
    ASSUME IInv, NEW o \in Owners,
           \/ o \in Runs /\ RmSocket(o)
           \/ o \in X86 /\ StartX86Qemu(o)
           \/ QemuListens(o) \/ UserQuitsQemu(o)
    PROVE  IInv'
<1>0. TypeOK BY DEF IInv
<1>a. UNCHANGED <<run, gdbVars, tmuxVars>>
  BY DEF RmSocket, StartX86Qemu, QemuListens, UserQuitsQemu
<1>b. PICK new \in {"spawned", "up", "dying"} : qemu' = [qemu EXCEPT ![o] = new]
  BY DEF RmSocket, StartX86Qemu, QemuListens, UserQuitsQemu
<1>c. socket' \in Runs \cup {None}
  BY <1>0 DEF TypeOK, RmSocket, StartX86Qemu, QemuListens, UserQuitsQemu
<1>d. o \in Runs => qemu[o] \in {"typed", "spawned", "up"}
  BY RiscvAssumption DEF RmSocket, StartX86Qemu, QemuListens, UserQuitsQemu
<1>e. qemu'[o] = new /\ \A p \in Owners \ {o} : qemu'[p] = qemu[p] BY <1>0, <1>b DEF TypeOK
<1>. USE DEF gdbVars, tmuxVars
<1>1. TypeOK'
  <2>1. qemu' \in [Owners -> QemuStates] BY <1>0, <1>b DEF TypeOK, QemuStates
  <2>. QED BY <1>0, <1>a, <1>c, <2>1 DEF TypeOK
<1>2. PanesKnown' BY <1>a, <1>d, <1>e DEF IInv, PanesKnown, Owners
<1>3. OneAtATime'
  <2>. SUFFICES ASSUME ~torn, NEW s \in Runs, qemu'[s] = "up" PROVE socket' = s
    BY <1>a DEF IInv, OneAtATime
  <2>0. s \in Owners /\ s \notin X86 BY RiscvAssumption DEF Owners
  <2>1. CASE QemuListens(o)
    <3>1. \A p \in Owners : qemu[p] # "up" BY <2>1 DEF QemuListens, PortTaken
    <3>2. s = o BY <2>0, <3>1, <1>e
    <3>. QED BY <2>1, <3>2 DEF QemuListens
  <2>2. CASE o \in Runs /\ RmSocket(o)
    <3>1. s # o /\ qemu[s] = "up" /\ qemu[o] = "typed" BY <2>0, <2>2, <1>0, <1>e DEF RmSocket, TypeOK
    <3>2. Qemu(s) \in panes /\ Qemu(o) \in panes BY <2>2, <3>1 DEF IInv, PanesKnown
    <3>. QED BY <2>2, <3>1, <3>2 DEF IInv, OneAtATime
  <2>3. CASE UserQuitsQemu(o) \/ (o \in X86 /\ StartX86Qemu(o))
    <3>1. socket' = socket /\ qemu[s] = "up"
      BY <2>0, <2>3, <1>0 DEF UserQuitsQemu, StartX86Qemu, TypeOK
    <3>. QED BY <3>1 DEF IInv, OneAtATime
  <2>. QED BY <2>1, <2>2, <2>3
<1>4. SetupGoesOn' BY <1>a DEF IInv, SetupGoesOn
<1>. QED BY <1>1, <1>2, <1>3, <1>4 DEF IInv

\* A QEMU ends, and its pane is back at its prompt.
LEMMA QemuEndsIInv ==
    ASSUME IInv, NEW o \in Owners, QemuBindFails(o) \/ QemuExits(o)
    PROVE  IInv'
<1>0. TypeOK BY DEF IInv
<1>a. UNCHANGED <<run, gdbVars>> BY DEF QemuBindFails, QemuExits
<1>b. /\ qemu' = [qemu EXCEPT ![o] = "dead"] /\ BackToPrompt(Qemu(o))
      /\ qemu[o] \in {"spawned", "dying"}
  BY DEF QemuBindFails, QemuExits
<1>c. socket' \in Runs \cup {None} BY <1>0 DEF TypeOK, QemuBindFails, QemuExits
<1>d. qemu'[o] = "dead" /\ \A p \in Owners \ {o} : qemu'[p] = qemu[p] BY <1>0, <1>b DEF TypeOK
<1>e. /\ panes' = panes \ {Qemu(o)} /\ sess' = sess /\ clients' = clients /\ torn' = torn
      /\ half' = half /\ idle' \in Nat
      /\ active' \in panes' \cup {i \in {Idle} : idle' > 0} \cup {i \in {None} : ~sess'}
      /\ sess' <=> panes' # {} \/ idle' > 0
      /\ active = Idle => active' = Idle
  <2>1. CASE Qemu(o) \in panes
    <3>1. sess BY <2>1, <1>0 DEF TypeOK
    <3>. QED BY <2>1, <3>1, <1>0, <1>b DEF BackToPrompt, TypeOK
  <2>2. CASE Qemu(o) \notin panes BY <2>2, <1>0, <1>b DEF BackToPrompt, TypeOK, tmuxVars
  <2>. QED BY <2>1, <2>2
<1>f. \A p : Gdb(p) \in panes' <=> Gdb(p) \in panes BY <1>e, Names
<1>g. \A p : p # o => (Qemu(p) \in panes' <=> Qemu(p) \in panes) BY <1>e, Names
<1>. USE DEF gdbVars
<1>1. TypeOK'
  <2>1. qemu' \in [Owners -> QemuStates] BY <1>0, <1>b DEF TypeOK, QemuStates
  <2>. QED BY <1>0, <1>a, <1>c, <1>e, <2>1 DEF TypeOK
<1>2. PanesKnown' BY <1>a, <1>d, <1>f, <1>g DEF IInv, PanesKnown, Owners
<1>3. OneAtATime'
  <2>. SUFFICES ASSUME ~torn
                PROVE  \A s \in Runs : qemu'[s] = "up" => socket' = s
    BY <1>a, <1>e DEF IInv, OneAtATime
  <2>. SUFFICES ASSUME NEW s \in Runs, qemu'[s] = "up" PROVE socket' = s OBVIOUS
  <2>0. s \in Owners /\ s # o /\ qemu[s] = "up" BY <1>d DEF Owners
  <2>1. socket = s BY <2>0 DEF IInv, OneAtATime
  <2>2. CASE QemuExits(o) BY <2>0, <2>1, <2>2 DEF QemuExits
  <2>3. CASE QemuBindFails(o)
    <3>1. o \notin Runs
      <4>. SUFFICES ASSUME o \in Runs PROVE FALSE OBVIOUS
      <4>1. qemu[o] = "spawned" BY <2>3 DEF QemuBindFails
      <4>2. Qemu(s) \in panes /\ Qemu(o) \in panes BY <2>0, <4>1 DEF IInv, PanesKnown
      <4>. QED BY <2>0, <4>2 DEF IInv, OneAtATime
    <3>. QED BY <2>1, <2>3, <3>1 DEF QemuBindFails
  <2>. QED BY <2>2, <2>3
<1>4. SetupGoesOn' BY <1>a, <1>e, <1>f DEF IInv, SetupGoesOn
<1>. QED BY <1>1, <1>2, <1>3, <1>4 DEF IInv

-----------------------------------------------------------------------------
(***************************************************************************)
(* run-gdb.sh                                                              *)
(***************************************************************************)

\* What line 45 of run-gdb.sh sends makes no QEMU quit: the negotiation is missing.
LEMMA QuitRefused == ~QmpObeys(QuitCommands)
BY DEF QmpObeys, QuitCommands

\* A debugger gets on, and stays in its pane.
LEMMA GdbIInv ==
    ASSUME IInv, NEW g \in Owners,
           \/ g \in X86 /\ StartX86Gdb(g)
           \/ Connect(g) \/ ConnectFails(g) \/ UserQuitsGdb(g) \/ QmpQuit(g)
    PROVE  IInv'
<1>0. TypeOK BY DEF IInv
<1>a. UNCHANGED <<run, socket, tmuxVars>>
  BY DEF StartX86Gdb, Connect, ConnectFails, UserQuitsGdb, QmpQuit, qemuVars
<1>b. qemu' = qemu
  <2>1. CASE QmpQuit(g)
    <3>1. qemu' = [o \in Owners |-> qemu[o]] BY <2>1, QuitRefused DEF QmpQuit
    <3>. QED BY <3>1, <1>0 DEF TypeOK
  <2>. QED BY <2>1 DEF StartX86Gdb, Connect, ConnectFails, UserQuitsGdb, qemuVars
<1>c. \E new \in GdbLabels :
         /\ gdb' = [gdb EXCEPT ![g] = new]
         /\ g \in Runs => {gdb[g], new} \subseteq {"connect", "session", "qmp", "kill"}
  BY RiscvAssumption DEF StartX86Gdb, Connect, ConnectFails, UserQuitsGdb, QmpQuit, GdbLabels
<1>d. target' \in [Owners -> Owners \cup {None}]
  <2>1. CASE Connect(g) BY <2>1, <1>0 DEF TypeOK, Connect, Reachable
  <2>. QED BY <2>1, <1>0 DEF TypeOK, StartX86Gdb, ConnectFails, UserQuitsGdb, QmpQuit
<1>e. asked' \in [Owners -> Runs \cup {None}]
  BY <1>0 DEF TypeOK, StartX86Gdb, Connect, ConnectFails, UserQuitsGdb, QmpQuit
<1>f. PICK new \in GdbLabels :
         /\ gdb' = [gdb EXCEPT ![g] = new]
         /\ g \in Runs => {gdb[g], new} \subseteq {"connect", "session", "qmp", "kill"}
  BY <1>c
<1>g. gdb'[g] = new /\ \A p \in Owners \ {g} : gdb'[p] = gdb[p] BY <1>0, <1>f DEF TypeOK
<1>. USE DEF tmuxVars
<1>1. TypeOK'
  <2>1. gdb' \in [Owners -> GdbLabels] BY <1>0, <1>f DEF TypeOK
  <2>. QED BY <1>0, <1>a, <1>b, <1>d, <1>e, <2>1 DEF TypeOK
<1>2. PanesKnown'
  <2>. SUFFICES ASSUME NEW r \in Runs
                PROVE  /\ qemu[r] \in {"typed", "spawned", "up"} => Qemu(r) \in panes
                       /\ Gdb(r) \in panes <=> gdb'[r] \in {"connect", "session", "qmp", "kill"}
                       /\ gdb'[r] # "none" => run[r] \notin {"unstarted", "check", "new"} \cup SettingUp
                       /\ gdb'[r] \in {"done", "gone"} => qemu[r] \notin {"typed", "spawned", "up"}
    BY <1>a, <1>b DEF PanesKnown
  <2>1. CASE r = g BY <2>1, <1>f, <1>g DEF IInv, PanesKnown
  <2>2. CASE r # g BY <2>2, <1>g DEF IInv, PanesKnown, Owners
  <2>. QED BY <2>1, <2>2
<1>3. OneAtATime' BY <1>a, <1>b DEF IInv, OneAtATime
<1>4. SetupGoesOn' BY <1>a DEF IInv, SetupGoesOn
<1>. QED BY <1>1, <1>2, <1>3, <1>4 DEF IInv

\* The session ends, and with it all its panes.
LEMMA KillIInv ==
    ASSUME IInv, NEW k, KillSession(k), k = None \/ (k \in Owners /\ gdb[k] = "kill")
    PROVE  IInv'
<1>. USE DEF KillSession
<1>0. TypeOK BY DEF IInv
<1>a. UNCHANGED <<socket, target, asked>> OBVIOUS
<1>b. sess' = FALSE /\ panes' = {} /\ idle' = 0 /\ active' = None /\ clients' = {} /\ half' = FALSE
  OBVIOUS
<1>c. torn' \in BOOLEAN /\ (torn => torn') /\ ((\E r \in Runs : run[r] \in SettingUp) => torn')
  BY <1>0, Zenon DEF TypeOK
<1>d. /\ qemu' \in [Owners -> QemuStates]
      /\ \A r \in Runs : qemu'[r] \notin {"typed", "spawned", "up"}
  <2>1. qemu' \in [Owners -> QemuStates] BY <1>0 DEF TypeOK, QemuStates
  <2>2. \A r \in Runs : qemu'[r] \notin {"typed", "spawned", "up"}
    BY DEF IInv, PanesKnown, Owners
  <2>. QED BY <2>1, <2>2
<1>e. run' \in [Runs -> RunLabels] /\ \A r \in Runs : run'[r] \in {run[r], "ended"}
  BY <1>0 DEF TypeOK, RunLabels
<1>f. /\ gdb' \in [Owners -> GdbLabels]
      /\ \A r \in Runs : gdb'[r] \notin {"connect", "session", "qmp", "kill"}
      /\ \A r \in Runs : gdb'[r] # "none" => gdb[r] # "none"
  <2>1. gdb' \in [Owners -> GdbLabels] BY <1>0 DEF TypeOK, GdbLabels
  <2>2. ASSUME NEW r \in Runs
        PROVE  /\ gdb'[r] \notin {"connect", "session", "qmp", "kill"}
               /\ gdb'[r] # "none" => gdb[r] # "none"
    <3>1. r \in Owners /\ r # None BY RiscvAssumption DEF Owners
    <3>2. gdb'[r] = IF r = k THEN "done" ELSE IF Gdb(r) \in panes THEN "gone" ELSE gdb[r]
      BY <3>1
    <3>. QED BY <3>1, <3>2 DEF IInv, PanesKnown
  <2>. QED BY <2>1, <2>2
<1>1. TypeOK'
  <2>. HIDE DEF KillSession
  <2>1. /\ panes' \subseteq Scripts /\ idle' \in Nat /\ half' \in BOOLEAN
        /\ active' \in panes' \cup {i \in {Idle} : idle' > 0} \cup {i \in {None} : ~sess'}
        /\ clients' \subseteq Runs /\ (sess' <=> panes' # {} \/ idle' > 0)
    <3>1. half' \in BOOLEAN BY <1>b, Zenon
    <3>. QED BY <1>b, <3>1
  <2>. QED BY <1>0, <1>a, <1>c, <1>d, <1>e, <1>f, <2>1 DEF TypeOK
<1>2. PanesKnown' BY <1>b, <1>d, <1>e, <1>f DEF IInv, PanesKnown, SettingUp
<1>3. OneAtATime'
  <2>. SUFFICES ASSUME ~torn' PROVE \A r \in Runs : run'[r] \notin SettingUp
    BY <1>b, <1>d DEF OneAtATime
  <2>. QED BY <1>c, <1>e DEF SettingUp
<1>4. SetupGoesOn' BY <1>b DEF SetupGoesOn
<1>. QED BY <1>1, <1>2, <1>3, <1>4 DEF IInv

-----------------------------------------------------------------------------
(***************************************************************************)
(* Invariants of the specification, and what its steps never do.           *)
(***************************************************************************)

\* Every step preserves the inductive invariant.
LEMMA NextIInv == IInv /\ [Next]_vars => IInv'
<1>. SUFFICES ASSUME IInv, [Next]_vars PROVE IInv' OBVIOUS
<1>1. CASE UserStep
  <2>1. ASSUME NEW r \in Runs, Start(r) \/ UserDetaches(r) \/ UserHangsUp(r) PROVE IInv'
    BY <2>1, RunIInv
  <2>2. ASSUME NEW x \in X86, StartX86Qemu(x) \/ StartX86Gdb(x) PROVE IInv'
    BY <2>2, QemuIInv, GdbIInv DEF Owners
  <2>3. ASSUME NEW o \in Owners, UserQuitsQemu(o) \/ UserQuitsGdb(o) PROVE IInv'
    BY <2>3, QemuIInv, GdbIInv
  <2>4. CASE UserKillsSession BY <2>4, KillIInv DEF UserKillsSession
  <2>. QED BY <1>1, <2>1, <2>2, <2>3, <2>4 DEF UserStep
<1>2. ASSUME NEW r \in Runs, RunStep(r) PROVE IInv'
  BY <1>2, RunIInv, NewSessionIInv, KeysQemuIInv, SplitIInv, KeysGdbIInv DEF RunStep
<1>3. ASSUME NEW r \in Runs, RmSocket(r) PROVE IInv' BY <1>3, QemuIInv DEF Owners
<1>4. ASSUME NEW o \in Owners, QemuStep(o) PROVE IInv'
  BY <1>4, QemuIInv, QemuEndsIInv DEF QemuStep
<1>5. ASSUME NEW o \in Owners, GdbStep(o) PROVE IInv'
  BY <1>5, GdbIInv, KillIInv DEF GdbStep, CloseSession
<1>6. CASE UNCHANGED vars
  <2>. USE <1>6 DEF vars, qemuVars, gdbVars, tmuxVars
  <2>1. TypeOK' BY DEF IInv, TypeOK
  <2>2. PanesKnown' BY DEF IInv, PanesKnown
  <2>3. OneAtATime' BY DEF IInv, OneAtATime
  <2>4. SetupGoesOn' BY DEF IInv, SetupGoesOn
  <2>. QED BY <2>1, <2>2, <2>3, <2>4 DEF IInv
<1>. QED BY <1>1, <1>2, <1>3, <1>4, <1>5, <1>6 DEF Next

\* Who is in the panes of the session, who sets it up and who has the socket, however
\* runs, sessions and users interleave.
THEOREM Inductive == Spec => []IInv
BY InitIInv, NextIInv, PTL DEF Spec

\* The QEMU of a run goes when its run-gdb.sh does.
THEOREM QemuGoesWithGdbHolds == Spec => []QemuGoesWithGdb
<1>1. IInv => QemuGoesWithGdb BY DEF IInv, PanesKnown, QemuGoesWithGdb
<1>. QED BY <1>1, Inductive, PTL

\* The QMP socket is that of the QEMU that runs, unless a session was closed in set-up.
THEOREM SocketStaysHolds == Spec => []SocketStays
<1>1. IInv => SocketStays BY DEF IInv, OneAtATime, SocketStays
<1>. QED BY <1>1, Inductive, PTL

\* A session that no run is setting up has a debugger, unless a run ended while it was
\* setting up this same session.
THEOREM WholeSessionHolds == Spec => []WholeSession
<1>1. IInv => WholeSession BY DEF IInv, SetupGoesOn, WholeSession, SettingUp
<1>. QED BY <1>1, Inductive, PTL

\* A debugger of a session connects to no QEMU of an earlier session.
THEOREM DebugsPresentSessionHolds == Spec => DebugsPresentSession
<1>1. ASSUME IInv, [Next]_vars, NEW r \in Runs, target'[r] # target[r]
      PROVE  target'[r] \in X86 \/ Qemu(target'[r]) \in panes
  <2>1. Connect(r)
    <3>0. TypeOK BY <1>1 DEF IInv
    <3>1. ASSUME NEW g \in Owners, Connect(g) PROVE Connect(r)
      BY <1>1, <3>0, <3>1 DEF Connect, TypeOK, Owners
    <3>. QED
      BY <1>1, <3>1 DEF Next, UserStep, Start, UserDetaches, UserHangsUp, StartX86Qemu, StartX86Gdb,
         UserQuitsQemu, UserQuitsGdb, UserKillsSession, KillSession, RunStep, HasSession,
         NewSession, Fails, KeysQemu, Split, KeysGdb, Layout, Attach, RmSocket, QemuStep,
         QemuListens, QemuBindFails, QemuExits, GdbStep, ConnectFails, QmpQuit, CloseSession,
         vars, gdbVars
  <2>2. PICK o \in Owners : qemu[o] = "up" /\ target' = [target EXCEPT ![r] = o]
    BY <2>1 DEF Connect, Reachable
  <2>3. target'[r] = o BY <2>2, <1>1 DEF IInv, TypeOK, Owners
  <2>. QED BY <2>2, <2>3, <1>1 DEF IInv, PanesKnown, Owners
<1>2. ASSUME IInv, [Next]_vars
      PROVE  \A r \in Runs : target'[r] # target[r]
                               => target'[r] \in X86 \/ Qemu(target'[r]) \in panes
  BY <1>1, <1>2
<1>. QED BY <1>2, Inductive, PTL DEF Spec, DebugsPresentSession

=============================================================================
