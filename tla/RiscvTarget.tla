---------------------------- MODULE RiscvTarget ----------------------------
(***************************************************************************)
(* The scripts of scripts/riscv-target and scripts/x86-target on one host. *)
(*                                                                         *)
(* run.sh makes the tmux session "qemu-gdb", with run-qemu.sh in its left  *)
(* and run-gdb.sh in its right pane, or attaches to the one there is; any  *)
(* failing command ends it (set -e).  run-qemu.sh has a QMP socket at a    *)
(* fixed path, by which run-gdb.sh asks QEMU to quit.  The x86 scripts are *)
(* started by hand and use no session and no socket, but the same port,    *)
(* 1234.                                                                   *)
(***************************************************************************)
EXTENDS Naturals, Sequences

CONSTANTS
    Runs,       \* invocations of run.sh; each types run-qemu.sh and run-gdb.sh once
    X86,        \* the pairs of x86 run-qemu.sh and run-gdb.sh
    None,       \* no QEMU
    Idle        \* a pane whose shell waits at its prompt

Owners == Runs \cup X86

\* A pane's script is named by the run that typed it.
Qemu(r) == <<r, "qemu">>
Gdb(r) == <<r, "gdb">>
Scripts == Runs \X {"qemu", "gdb"}

ASSUME RiscvAssumption ==
    /\ Runs \cap X86 = {} /\ None \notin Owners
    /\ Idle \notin Scripts /\ None \notin Scripts /\ Idle # None

VARIABLES
    run,        \* per run: where run.sh is
    qemu,       \* per owner: its QEMU
    gdb,        \* per owner: its run-gdb.sh
    target,     \* per owner: the QEMU its gdb connected to
    socket,     \* whose QEMU listens at /tmp/qemu-qmp.sock
    \* the tmux session "qemu-gdb"
    sess, panes, idle, active, clients,
    \* history
    torn,       \* a session ended while a run was setting it up
    half,       \* a run ended while it was setting the present session up
    asked       \* per owner: the QEMU that its QMP command reached

tmuxVars == <<sess, panes, idle, active, clients, torn, half>>
qemuVars == <<qemu, socket>>
gdbVars == <<gdb, target, asked>>
vars == <<run, qemuVars, gdbVars, tmuxVars>>

SettingUp == {"keysqemu", "split", "keysgdb"}
RunLabels == {"unstarted", "check", "new", "layout", "attach", "attached", "ended"} \cup SettingUp
QemuStates == {"none", "typed", "spawned", "up", "dying", "dead"}
GdbLabels == {"none", "connect", "session", "qmp", "kill", "done", "gone"}

\* The types of the variables; panes hold scripts that run, and a session has a
\* pane: run.sh and the scripts that end in its panes keep the count right.
TypeOK ==
    /\ run \in [Runs -> RunLabels]
    /\ qemu \in [Owners -> QemuStates]
    /\ gdb \in [Owners -> GdbLabels]
    /\ target \in [Owners -> Owners \cup {None}]
    /\ socket \in Runs \cup {None}
    /\ panes \subseteq Scripts
    /\ idle \in Nat
    /\ active \in panes \cup {i \in {Idle} : idle > 0} \cup {i \in {None} : ~sess}
    /\ clients \subseteq Runs /\ torn \in BOOLEAN /\ half \in BOOLEAN
    /\ sess <=> panes # {} \/ idle > 0
    /\ asked \in [Owners -> Runs \cup {None}]

Init ==
    /\ run = [r \in Runs |-> "unstarted"]
    /\ qemu = [o \in Owners |-> "none"]
    /\ gdb = [o \in Owners |-> "none"]
    /\ target = [o \in Owners |-> None]
    /\ socket = None
    /\ sess = FALSE /\ panes = {} /\ idle = 0 /\ active = None /\ clients = {}
    /\ torn = FALSE /\ half = FALSE
    /\ asked = [o \in Owners |-> None]

-----------------------------------------------------------------------------
(***************************************************************************)
(* run.sh                                                                  *)
(***************************************************************************)

GoTo(r, from, to) == run[r] = from /\ run' = [run EXCEPT ![r] = to]

Start(r) == GoTo(r, "unstarted", "check") /\ UNCHANGED <<qemuVars, gdbVars, tmuxVars>>

HasSession(r) ==
    /\ GoTo(r, "check", IF sess THEN "attach" ELSE "new")
    /\ UNCHANGED <<qemuVars, gdbVars, tmuxVars>>

\* Fault: without set -e a second run goes on after "duplicate session".
NewSessionGoesOn(r) ==
    /\ GoTo(r, "new", "keysqemu")
    /\ IF sess THEN UNCHANGED tmuxVars
       ELSE sess' = TRUE /\ idle' = 1 /\ active' = Idle /\ UNCHANGED <<panes, clients, torn, half>>
    /\ UNCHANGED <<qemuVars, gdbVars>>

\* Line 15; another run may have been faster since line 9.
NewSession(r) ==
    /\ IF sess
         THEN GoTo(r, "new", "ended") /\ UNCHANGED tmuxVars
         ELSE /\ GoTo(r, "new", "keysqemu")
              /\ sess' = TRUE /\ idle' = 1 /\ active' = Idle
              /\ UNCHANGED <<panes, clients, torn, half>>
    /\ UNCHANGED <<qemuVars, gdbVars>>

\* A run that ends in set-up leaves half a session, if there is one.
LeavesHalf(r) == half' = (half \/ (sess /\ run[r] \in SettingUp))

\* set -e: a tmux command that fails ends the run, on a session that is gone or for a
\* reason of its own (a window too small to split, say).
Fails(r) ==
    /\ run[r] \in SettingUp \cup {"new", "layout", "attach"}
    /\ run' = [run EXCEPT ![r] = "ended"]
    /\ LeavesHalf(r)
    /\ UNCHANGED <<qemuVars, gdbVars, sess, panes, idle, active, clients, torn>>

\* What is typed runs if the active pane's shell is at its prompt.
Typed(y) ==
    IF active = Idle
      THEN panes' = panes \cup {y} /\ idle' = idle - 1 /\ active' = y
      ELSE UNCHANGED <<panes, idle, active>>

KeysQemu(r) ==
    /\ sess /\ GoTo(r, "keysqemu", "split")
    /\ Typed(Qemu(r))
    /\ qemu' = IF active = Idle THEN [qemu EXCEPT ![r] = "typed"] ELSE qemu
    /\ UNCHANGED <<socket, gdbVars, sess, clients, torn, half>>

\* Fault: a window too small to split is passed over.
SplitPassedOver(r) ==
    sess /\ GoTo(r, "split", "keysgdb") /\ UNCHANGED <<qemuVars, gdbVars, tmuxVars>>

Split(r) ==
    /\ sess /\ GoTo(r, "split", "keysgdb")
    /\ idle' = idle + 1 /\ active' = Idle
    /\ UNCHANGED <<qemuVars, gdbVars, sess, panes, clients, torn, half>>

KeysGdb(r) ==
    /\ sess /\ GoTo(r, "keysgdb", "layout")
    /\ Typed(Gdb(r))
    /\ gdb' = IF active = Idle THEN [gdb EXCEPT ![r] = "connect"] ELSE gdb
    /\ UNCHANGED <<qemuVars, target, asked, sess, clients, torn, half>>

Layout(r) == sess /\ GoTo(r, "layout", "attach") /\ UNCHANGED <<qemuVars, gdbVars, tmuxVars>>

\* Lines 11 and 24; several clients may be attached.
Attach(r) ==
    /\ sess /\ GoTo(r, "attach", "attached")
    /\ clients' = clients \cup {r}
    /\ UNCHANGED <<qemuVars, gdbVars, sess, panes, idle, active, torn, half>>

UserDetaches(r) ==
    /\ GoTo(r, "attached", "ended")
    /\ clients' = clients \ {r}
    /\ UNCHANGED <<qemuVars, gdbVars, sess, panes, idle, active, torn, half>>

\* The terminal of run.sh goes away.
UserHangsUp(r) ==
    /\ run[r] \notin {"unstarted", "ended"}
    /\ run' = [run EXCEPT ![r] = "ended"]
    /\ clients' = clients \ {r}
    /\ LeavesHalf(r)
    /\ UNCHANGED <<qemuVars, gdbVars, sess, panes, idle, active, torn>>

-----------------------------------------------------------------------------
(***************************************************************************)
(* QEMU and run-qemu.sh                                                    *)
(***************************************************************************)

\* The script of a pane has ended and its shell is back at the prompt.
BackToPrompt(y) ==
    IF y \in panes
      THEN /\ panes' = panes \ {y}
           /\ idle' = idle + 1
           /\ active' = IF active = y THEN Idle ELSE active
           /\ UNCHANGED <<sess, clients, torn, half>>
      ELSE UNCHANGED tmuxVars

PortTaken == \E o \in Owners : qemu[o] \in {"up", "dying"}

\* Line 15 of run-qemu.sh, whoever listens there, and exec.
RmSocket(r) ==
    /\ qemu[r] = "typed"
    /\ qemu' = [qemu EXCEPT ![r] = "spawned"]
    /\ socket' = None
    /\ UNCHANGED <<run, gdbVars, tmuxVars>>

\* The x86 run-qemu.sh, in a terminal of its own.
StartX86Qemu(x) ==
    /\ qemu[x] = "none"
    /\ qemu' = [qemu EXCEPT ![x] = "spawned"]
    /\ UNCHANGED <<run, socket, gdbVars, tmuxVars>>

QemuListens(o) ==
    /\ qemu[o] = "spawned" /\ ~PortTaken
    /\ qemu' = [qemu EXCEPT ![o] = "up"]
    /\ socket' = IF o \in Runs THEN o ELSE socket
    /\ UNCHANGED <<run, gdbVars, tmuxVars>>

\* It has bound the path of the socket by then, and takes it along.
QemuBindFails(o) ==
    /\ qemu[o] = "spawned" /\ PortTaken
    /\ qemu' = [qemu EXCEPT ![o] = "dead"]
    /\ socket' = IF o \in Runs THEN None ELSE socket
    /\ BackToPrompt(Qemu(o))
    /\ UNCHANGED <<run, gdbVars>>

QemuExits(o) ==
    /\ qemu[o] = "dying"
    /\ qemu' = [qemu EXCEPT ![o] = "dead"]
    /\ socket' = IF socket = o THEN None ELSE socket
    /\ BackToPrompt(Qemu(o))
    /\ UNCHANGED <<run, gdbVars>>

UserQuitsQemu(o) ==
    /\ qemu[o] = "up"
    /\ qemu' = [qemu EXCEPT ![o] = "dying"]
    /\ UNCHANGED <<run, socket, gdbVars, tmuxVars>>

-----------------------------------------------------------------------------
(***************************************************************************)
(* run-gdb.sh                                                              *)
(***************************************************************************)

StartX86Gdb(x) ==
    /\ gdb[x] = "none"
    /\ gdb' = [gdb EXCEPT ![x] = "connect"]
    /\ UNCHANGED <<run, qemuVars, target, asked, tmuxVars>>

\* Every QEMU of these scripts is at port 1234; its stub serves one debugger.
Reachable ==
    {o \in Owners : qemu[o] = "up" /\ \A g \in Owners : ~(gdb[g] = "session" /\ target[g] = o)}

Connect(g) ==
    /\ gdb[g] = "connect"
    /\ gdb' = [gdb EXCEPT ![g] = "session"]
    /\ \E o \in Reachable : target' = [target EXCEPT ![g] = o]
    /\ UNCHANGED <<run, qemuVars, asked, tmuxVars>>

ConnectFails(g) ==
    /\ gdb[g] = "connect" /\ Reachable = {}
    /\ gdb' = [gdb EXCEPT ![g] = "session"]
    /\ UNCHANGED <<run, qemuVars, target, asked, tmuxVars>>

\* gdb detaches and QEMU runs on; the x86 script has nothing more to do.
UserQuitsGdb(g) ==
    /\ gdb[g] = "session"
    /\ gdb' = [gdb EXCEPT ![g] = IF g \in Runs THEN "qmp" ELSE "done"]
    /\ UNCHANGED <<run, qemuVars, target, asked, tmuxVars>>

\* What line 45 sends, and when QEMU obeys: a QMP connection starts in capabilities
\* negotiation mode, in which every command but qmp_capabilities is refused.
QuitCommands == <<"quit">>
QmpObeys(cmds) ==
    \E i, j \in DOMAIN cmds : i < j /\ cmds[i] = "qmp_capabilities" /\ cmds[j] = "quit"

\* Lines 19-26 and 45.
QmpQuit(g) ==
    /\ gdb[g] = "qmp"
    /\ gdb' = [gdb EXCEPT ![g] = "kill"]
    /\ LET heard == {o \in {socket} \ {None} : qemu[o] = "up"}
       IN  /\ asked' = [asked EXCEPT ![g] = IF heard = {} THEN None ELSE socket]
           /\ qemu' = [o \in Owners |-> IF o \in heard /\ QmpObeys(QuitCommands)
                                          THEN "dying" ELSE qemu[o]]
    /\ UNCHANGED <<run, socket, target, tmuxVars>>

\* Fault: QEMU survives the end of its session.
KillSessionKeepsQemu(killer) ==
    /\ gdb' = [o \in Owners |-> IF o = killer THEN "done"
                                ELSE IF Gdb(o) \in panes THEN "gone" ELSE gdb[o]]
    /\ run' = [r \in Runs |-> IF r \in clients THEN "ended" ELSE run[r]]
    /\ sess' = FALSE /\ panes' = {} /\ idle' = 0 /\ active' = None /\ clients' = {}
    /\ torn' = (torn \/ \E r \in Runs : run[r] \in SettingUp) /\ half' = FALSE
    /\ UNCHANGED <<qemuVars, target, asked>>

\* The session ends: its panes' scripts are hung up, its clients return.
KillSession(killer) ==
    /\ gdb' = [o \in Owners |-> IF o = killer THEN "done"
                                ELSE IF Gdb(o) \in panes THEN "gone" ELSE gdb[o]]
    /\ qemu' = [o \in Owners |-> IF Qemu(o) \notin panes THEN qemu[o]
                                 ELSE IF qemu[o] \in {"up", "dying"} THEN "dying" ELSE "dead"]
    /\ run' = [r \in Runs |-> IF r \in clients THEN "ended" ELSE run[r]]
    /\ sess' = FALSE /\ panes' = {} /\ idle' = 0 /\ active' = None /\ clients' = {}
    /\ torn' = (torn \/ \E r \in Runs : run[r] \in SettingUp) /\ half' = FALSE
    /\ UNCHANGED <<socket, target, asked>>

\* Fault: line 51 is missing.
GdbScriptEnds(g) ==
    /\ gdb[g] = "kill"
    /\ gdb' = [gdb EXCEPT ![g] = "done"]
    /\ BackToPrompt(Gdb(g))
    /\ UNCHANGED <<run, qemuVars, target, asked>>

\* Line 51.
CloseSession(g) == gdb[g] = "kill" /\ KillSession(g)

\* An attached user closes the session by hand.
UserKillsSession == clients # {} /\ KillSession(None)

-----------------------------------------------------------------------------
RunStep(r) ==
    \/ HasSession(r) \/ NewSession(r) \/ Fails(r) \/ KeysQemu(r) \/ Split(r)
    \/ KeysGdb(r) \/ Layout(r) \/ Attach(r)

QemuStep(o) == QemuListens(o) \/ QemuBindFails(o) \/ QemuExits(o)

GdbStep(g) == Connect(g) \/ ConnectFails(g) \/ QmpQuit(g) \/ CloseSession(g)

UserStep ==
    \/ \E r \in Runs : Start(r) \/ UserDetaches(r) \/ UserHangsUp(r)
    \/ \E x \in X86 : StartX86Qemu(x) \/ StartX86Gdb(x)
    \/ \E o \in Owners : UserQuitsQemu(o) \/ UserQuitsGdb(o)
    \/ UserKillsSession

Next ==
    \/ UserStep
    \/ \E r \in Runs : RunStep(r) \/ RmSocket(r)
    \/ \E o \in Owners : QemuStep(o) \/ GdbStep(o)

Spec == Init /\ [][Next]_vars

\* The scripts and programs run on; a user need not do anything.
Fairness ==
    /\ \A r \in Runs : WF_vars(RunStep(r)) /\ WF_vars(RmSocket(r))
    /\ \A o \in Owners : WF_vars(QemuStep(o)) /\ WF_vars(GdbStep(o))

FairSpec == Spec /\ Fairness

-----------------------------------------------------------------------------
\* When run-gdb.sh of a run has ended, by itself or hung up with its session, the
\* QEMU that the same run typed is going or gone, whatever sessions came and went
\* between lines 16 and 20 of run.sh.
QemuGoesWithGdb ==
    \A r \in Runs : gdb[r] \in {"done", "gone"} => qemu[r] \notin {"typed", "spawned", "up"}

\* A debugger in the session never connects to the QEMU of an earlier session,
\* though all use port 1234: only to one in a pane, or to an x86 one.
DebugsPresentSession ==
    [][\A r \in Runs : target'[r] # target[r] => target'[r] \in X86 \/ Qemu(target'[r]) \in panes]_vars

\* A session that no run is setting up any more had its run-gdb.sh started, so that
\* line 11 attaches to a whole one, whatever sessions and runs came and went: half a
\* session is left only by a run that ends while it sets up that same session, by a
\* tmux command that fails or a hang-up, and nothing but a user ends that session.
WholeSession ==
    sess /\ ~half /\ (\A r \in Runs : run[r] \notin SettingUp)
        => \E r \in Runs : Gdb(r) \in panes

\* Once the user has quit the debugger in a session, run-gdb.sh comes to its end and
\* the QEMU of the same run stops, by QMP (line 45) or with the session (line 51).
QuitEndsSession ==
    \A r \in Runs :
        gdb[r] = "qmp" ~> gdb[r] \in {"done", "gone"} /\ qemu[r] \in {"none", "dead"}

\* The QMP socket is that of the QEMU that runs: no second run-qemu.sh takes it away
\* (its line 15), however runs overlap, unless a session was closed in set-up.
SocketStays == torn \/ \A r \in Runs : qemu[r] = "up" => socket = r

\* run-gdb.sh:2, "on exit gracefully quit QEMU via QMP, then close tmux": a QEMU
\* that the QMP command of line 45 reached is on its way out before line 51.
GracefulQuit ==
    \A r \in Runs : gdb[r] = "kill" /\ asked[r] # None => qemu[asked[r]] # "up"

-----------------------------------------------------------------------------
(***************************************************************************)
(* The inductive invariant behind them.                                    *)
(***************************************************************************)

\* A QEMU that a run typed and that is not on its way out has its pane, and so does a
\* run-gdb.sh, which is typed last.
PanesKnown ==
    \A r \in Runs :
        /\ qemu[r] \in {"typed", "spawned", "up"} => Qemu(r) \in panes
        /\ Gdb(r) \in panes <=> gdb[r] \in {"connect", "session", "qmp", "kill"}
        /\ gdb[r] # "none" => run[r] \notin {"unstarted", "check", "new"} \cup SettingUp
        /\ gdb[r] \in {"done", "gone"} => qemu[r] \notin {"typed", "spawned", "up"}

\* As long as no session was closed in set-up: one run at a time sets up, in a session
\* that is its own, whose only QEMU is its own and has the socket once it is up.
OneAtATime ==
    ~torn =>
        /\ \A r \in Runs : run[r] \in SettingUp => sess
        /\ \A r, s \in {q \in Runs : run[q] \in SettingUp \/ Qemu(q) \in panes} : r = s
        /\ \A r \in Runs : qemu[r] = "up" => socket = r

\* A session without a debugger has a run that is still to type one, and that finds a
\* pane at its prompt if it has nothing else to do before, unless a run ended half-way.
SetupGoesOn ==
    sess => \/ half
            \/ \E r \in Runs : Gdb(r) \in panes \/ run[r] \in {"keysqemu", "split"}
            \/ active = Idle /\ \E r \in Runs : run[r] = "keysgdb"

\* Their conjunction.
IInv == TypeOK /\ PanesKnown /\ OneAtATime /\ SetupGoesOn

=============================================================================
