---------------------------- MODULE LightboxHost ----------------------------
(***************************************************************************)
(* One host on which users run start-kernel.sh, possibly several at once.  *)
(*                                                                         *)
(* A launch is one invocation typed by a user.  The script keeps all its   *)
(* state outside itself: a QEMU process that listens on DEBUG_PORT, a      *)
(* debugger that connects to that port, and, for --terminal=tmux, the one  *)
(* tmux session called "lightbox", whose two panes each source the script  *)
(* again as cli-qemu and as cli-gdb.  Every launch names the same session  *)
(* and ends with a host-wide "killall qemu-system-aarch64", so launches    *)
(* interfere; this module is about what survives the interference.         *)
(*                                                                         *)
(* How the command line is parsed is the subject of module StartKernel;    *)
(* here a launch has already valid arguments.  The ddd.script file is the  *)
(* subject of module DddScript: here gdb and ddd are both "a debugger      *)
(* that connects to DEBUG_PORT".                                           *)
(***************************************************************************)
EXTENDS Naturals

CONSTANTS
    Launches,       \* invocations of start-kernel.sh typed by users
    RandomPorts,    \* what line 155 can draw (10000..19999)
    CliPort,        \* 12880, line 153
    Terminals,      \* values of --terminal in play
    Debuggers,      \* values of --with in play
    Modes,          \* how the script is run
    Nesting,        \* whether it is typed inside a tmux client of the user's
    None,           \* no instance, no client
    Idle            \* a tmux pane whose shell waits at its prompt

\* A script instance is the launch itself, or the copy of the script that its
\* line 192 (left) or line 195 (right) types into a pane of the tmux session.
Inst == Launches \X {"top", "left", "right"}
Top(l) == <<l, "top">>
Left(l) == <<l, "left">>
Right(l) == <<l, "right">>

\* "window" stands for gnome and xfce4, which differ in the terminal program
\* only; "bad" is any value that lines 177-199 do not know.
AllTerminals == {"window", "cli-qemu", "cli-gdb", "tmux", "bad"}

\* "attach" is gdb or ddd; "other" is any other value of --with, which lines
\* 204-236 silently accept without starting a debugger.
AllDebuggers == {"attach", "other"}

\* "sourced": the top-level "return" statements of the script end it.
\* "executed" (./start-kernel.sh): bash refuses them and goes on.
AllModes == {"sourced", "executed"}

ASSUME HostAssumption ==
    /\ Terminals \subseteq AllTerminals
    /\ Debuggers \subseteq AllDebuggers
    /\ Modes \subseteq AllModes
    /\ Nesting \subseteq BOOLEAN
    /\ None \notin Inst
    /\ None \notin Launches
    /\ Idle \notin Inst
    /\ Idle # None

VARIABLES
    \* the script instances
    pc,         \* where each instance is
    mode,       \* per launch: sourced or executed
    term,       \* per launch: TERMINAL
    dbg,        \* per launch: DEBUGGER
    nested,     \* the launches typed inside a tmux client of the user's
    port,       \* per launch: DEBUG_PORT
    target,     \* per instance: the QEMU its debugger connected to
    \* the QEMU processes, named by the instance that starts them
    qemu,
    \* the tmux session "lightbox"
    sess,       \* it exists
    panes,      \* the instances that run in its panes
    idle,       \* number of its panes whose shell is at the prompt
    active,     \* what its active pane runs: an instance, Idle, or None
    client,     \* the launch whose "tmux attach-session" shows it
    \* history
    overlapped  \* launches during which another launch was under way

launchVars == <<mode, term, dbg, nested, port, overlapped>>
tmuxVars == <<sess, panes, idle, active, client>>
vars == <<pc, launchVars, target, qemu, tmuxVars>>

Labels ==
    {"unstarted",
     "launch",      \* lines 1-175 done, about to branch on TERMINAL
     "newsess", "keysleft", "split", "keysright", "attach", "attached",
     "kill197",     \* the tmux launcher, lines 190-197
     "waitqemu",    \* line 183, QEMU in the foreground
     "debug",       \* line 204, debugger started, not yet connected
     "session",     \* the user is in the debugger
     "killall",     \* line 238
     "killsess",    \* line 239
     "done",        \* the script ran to its end
     "gone"}        \* its shell was hung up, or left by line 184 in a pane

Ended == {"done", "gone"}
QemuStates == {"none", "spawned", "up", "dying", "dead"}

\* The types of the variables; in particular the number of panes at their prompt
\* never goes below 0, for send-keys (lines 192 and 195) starts a copy of the
\* script only where a shell waits for one.
TypeOK ==
    /\ pc \in [Inst -> Labels]
    /\ mode \in [Launches -> AllModes]
    /\ term \in [Launches -> AllTerminals]
    /\ dbg \in [Launches -> AllDebuggers]
    /\ nested \subseteq Launches
    /\ port \in [Launches -> RandomPorts \cup {CliPort}]
    /\ target \in [Inst -> Inst \cup {None}]
    /\ qemu \in [Inst -> QemuStates]
    /\ sess \in BOOLEAN
    /\ panes \subseteq Inst
    /\ idle \in Nat
    /\ active \in Inst \cup {Idle, None}
    /\ client \in Launches \cup {None}
    /\ overlapped \subseteq Launches

Init ==
    /\ pc = [x \in Inst |-> "unstarted"]
    /\ mode = [l \in Launches |-> "sourced"]
    /\ term = [l \in Launches |-> "bad"]
    /\ dbg = [l \in Launches |-> "attach"]
    /\ nested = {}
    /\ port = [l \in Launches |-> CliPort]
    /\ target = [x \in Inst |-> None]
    /\ qemu = [x \in Inst |-> "none"]
    /\ sess = FALSE
    /\ panes = {}
    /\ idle = 0
    /\ active = None
    /\ client = None
    /\ overlapped = {}

-----------------------------------------------------------------------------
(***************************************************************************)
(* Helpers.                                                                *)
(***************************************************************************)

\* The panes get --terminal=cli-qemu and --terminal=cli-gdb as last argument.
TermOf(x) ==
    CASE x[2] = "left"  -> "cli-qemu"
      [] x[2] = "right" -> "cli-gdb"
      [] OTHER          -> term[x[1]]

\* Lines 152-156: a fixed port for cli* (an unknown value may begin like that
\* too), a drawn one otherwise.
DebugPorts(t) ==
    CASE t \in {"cli-qemu", "cli-gdb"} -> {CliPort}
      [] t = "bad"                     -> RandomPorts \cup {CliPort}
      [] OTHER                         -> RandomPorts

PortOf(x) == IF x[2] = "top" THEN port[x[1]] ELSE CliPort

UnderWay(l) == pc[Top(l)] \notin Ended \cup {"unstarted"}

\* A listening QEMU keeps its port until its process is gone.
PortTaken(p) == \E q \in Inst : qemu[q] \in {"up", "dying"} /\ PortOf(q) = p

\* QEMU's gdb stub serves one connection.
StubFree(q) == \A y \in Inst : ~(pc[y] = "session" /\ target[y] = q)

Reachable(x) == {q \in Inst : qemu[q] = "up" /\ PortOf(q) = PortOf(x) /\ StubFree(q)}

\* A hang-up or SIGTERM: QEMU starts to shut down, one not yet running never will.
Hup(state) == CASE state = "up"      -> "dying"
                [] state = "spawned" -> "dead"
                [] OTHER             -> state

GoTo(x, label) == pc' = [pc EXCEPT ![x] = label]

\* A step of x that touches nothing outside the script.
Move(x, from, to) ==
    /\ pc[x] = from
    /\ GoTo(x, to)
    /\ UNCHANGED <<launchVars, target, qemu, tmuxVars>>

\* A step of QEMU process q alone.
QemuMove(q, from, to) ==
    /\ qemu[q] = from
    /\ qemu' = [qemu EXCEPT ![q] = to]
    /\ UNCHANGED <<pc, launchVars, target, tmuxVars>>

\* Fault: QEMU survives the hang-up of its pane.
KillSessionKeepsQemu(x, label) ==
    /\ pc' = [y \in Inst |-> IF y = x THEN label
                             ELSE IF y \in panes THEN "gone" ELSE pc[y]]
    /\ UNCHANGED qemu
    /\ sess' = FALSE
    /\ panes' = {}
    /\ idle' = 0
    /\ active' = None
    /\ client' = None

\* "tmux kill-session -t lightbox" run by x: every pane's process is hung up.
\* Without a session the command fails and the script goes on.
KillSession(x, label) ==
    /\ pc' = [y \in Inst |-> IF y = x THEN label
                             ELSE IF y \in panes THEN "gone" ELSE pc[y]]
    /\ qemu' = [y \in Inst |-> IF y \in panes THEN Hup(qemu[y]) ELSE qemu[y]]
    /\ sess' = FALSE
    /\ panes' = {}
    /\ idle' = 0
    /\ active' = None
    /\ client' = None

-----------------------------------------------------------------------------
(***************************************************************************)
(* Lines 1-202: start, and the branch on TERMINAL.                         *)
(***************************************************************************)

Start(l) ==
    /\ pc[Top(l)] = "unstarted"
    /\ \E t \in Terminals, d \in Debuggers, m \in Modes, inTmux \in Nesting :
        /\ term' = [term EXCEPT ![l] = t]
        /\ dbg' = [dbg EXCEPT ![l] = d]
        /\ mode' = [mode EXCEPT ![l] = m]
        /\ nested' = IF inTmux /\ t = "tmux" THEN nested \cup {l} ELSE nested
        /\ \E p \in DebugPorts(t) : port' = [port EXCEPT ![l] = p]
    /\ GoTo(Top(l), "launch")
    /\ overlapped' = LET others == {m \in Launches : UnderWay(m)}
                     IN  overlapped \cup others \cup {m \in {l} : others # {}}
    /\ UNCHANGED <<target, qemu, tmuxVars>>

SpawnQemu(x, label) ==
    /\ pc[x] = "launch"
    /\ qemu' = [qemu EXCEPT ![x] = "spawned"]
    /\ GoTo(x, label)
    /\ UNCHANGED <<launchVars, target, tmuxVars>>

\* gnome-terminal ... & : QEMU comes up in the background.
LaunchWindow(x) == TermOf(x) = "window" /\ SpawnQemu(x, "debug")

LaunchCliQemu(x) == TermOf(x) = "cli-qemu" /\ SpawnQemu(x, "waitqemu")

\* Fault: cli-gdb clears away "stale" QEMUs before it connects.
LaunchCliGdbKillsFirst(x) ==
    /\ TermOf(x) = "cli-gdb" /\ pc[x] = "launch"
    /\ qemu' = [q \in Inst |-> IF qemu[q] = "up" THEN "dying" ELSE qemu[q]]
    /\ GoTo(x, "debug")
    /\ UNCHANGED <<launchVars, target, tmuxVars>>

LaunchCliGdb(x) == TermOf(x) = "cli-gdb" /\ Move(x, "launch", "debug")

\* "return 0" only ends a sourced script.
ReturnLabel(l) == IF mode[l] = "sourced" THEN "done" ELSE "debug"

LaunchBad(l) == term[l] = "bad" /\ Move(Top(l), "launch", ReturnLabel(l))

-----------------------------------------------------------------------------
(***************************************************************************)
(* Lines 187-198: the tmux launcher.                                       *)
(***************************************************************************)

\* Fault: line 189 is missing.
TmuxKeepOld(l) == term[l] = "tmux" /\ Move(Top(l), "launch", "newsess")

TmuxKillOld(l) ==
    /\ pc[Top(l)] = "launch" /\ term[l] = "tmux"
    /\ KillSession(Top(l), "newsess")
    /\ UNCHANGED <<launchVars, target>>

\* "duplicate session: lightbox" when one exists; the script goes on.
TmuxNewSession(l) ==
    /\ pc[Top(l)] = "newsess"
    /\ GoTo(Top(l), "keysleft")
    /\ IF sess THEN UNCHANGED tmuxVars
               ELSE /\ sess' = TRUE
                    /\ idle' = 1
                    /\ active' = Idle
                    /\ UNCHANGED <<panes, client>>
    /\ UNCHANGED <<launchVars, target, qemu>>

\* Fault: the copy starts whatever the active pane is doing.
SendKeysAnyPane(l, y, label) ==
    /\ pc' = [pc EXCEPT ![Top(l)] = label, ![y] = "launch"]
    /\ panes' = panes \cup {y}
    /\ idle' = idle - 1
    /\ active' = y
    /\ UNCHANGED <<sess, client, launchVars, target, qemu>>

\* send-keys types into the active pane: a shell at its prompt runs the
\* command, a program that already runs there swallows the text.
SendKeys(l, y, label) ==
    /\ IF active = Idle
         THEN /\ pc' = [pc EXCEPT ![Top(l)] = label, ![y] = "launch"]
              /\ panes' = panes \cup {y}
              /\ idle' = idle - 1
              /\ active' = y
              /\ UNCHANGED <<sess, client>>
         ELSE /\ GoTo(Top(l), label)
              /\ UNCHANGED tmuxVars
    /\ UNCHANGED <<launchVars, target, qemu>>

TmuxKeysLeft(l) ==
    /\ pc[Top(l)] = "keysleft"
    /\ SendKeys(l, Left(l), "split")

\* No -t: the current session.  Inside a tmux client that is the user's own, and
\* else "lightbox" is the only one on this host.
TmuxSplit(l) ==
    /\ pc[Top(l)] = "split"
    /\ GoTo(Top(l), "keysright")
    /\ IF sess /\ l \notin nested
               THEN /\ idle' = idle + 1
                    /\ active' = Idle
                    /\ UNCHANGED <<sess, panes, client>>
               ELSE UNCHANGED tmuxVars
    /\ UNCHANGED <<launchVars, target, qemu>>

TmuxKeysRight(l) ==
    /\ pc[Top(l)] = "keysright"
    /\ SendKeys(l, Right(l), "attach")

\* Fault: the client is nested, and waits for the user.
TmuxAttachNested(l) ==
    /\ pc[Top(l)] = "attach"
    /\ IF sess THEN GoTo(Top(l), "attached") /\ client' = l
               ELSE GoTo(Top(l), "kill197") /\ UNCHANGED client
    /\ UNCHANGED <<launchVars, target, qemu, sess, panes, idle, active>>

\* -d detaches any other client.  Without a session the command fails, and so it
\* does inside another tmux client.
TmuxAttach(l) ==
    /\ pc[Top(l)] = "attach"
    /\ IF sess /\ l \notin nested
               THEN GoTo(Top(l), "attached") /\ client' = l
               ELSE GoTo(Top(l), "kill197") /\ UNCHANGED client
    /\ UNCHANGED <<launchVars, target, qemu, sess, panes, idle, active>>

TmuxAttachReturns(l) == client # l /\ Move(Top(l), "attached", "kill197")

\* Fault: line 197 is missing.
TmuxReturn(l) == Move(Top(l), "kill197", ReturnLabel(l))

TmuxKillAndReturn(l) ==
    /\ pc[Top(l)] = "kill197"
    /\ KillSession(Top(l), ReturnLabel(l))
    /\ UNCHANGED <<launchVars, target>>

TmuxLauncher(l) ==
    \/ TmuxKillOld(l) \/ TmuxNewSession(l) \/ TmuxKeysLeft(l) \/ TmuxSplit(l)
    \/ TmuxKeysRight(l) \/ TmuxAttach(l) \/ TmuxAttachReturns(l)
    \/ TmuxKillAndReturn(l)

-----------------------------------------------------------------------------
(***************************************************************************)
(* Lines 183-184 and 204-239: QEMU in the foreground, the debugger, and    *)
(* the clean-up.                                                           *)
(***************************************************************************)

\* Fault: line 184 is missing, the pane goes back to its prompt.
CliQemuReturns(x) ==
    /\ qemu[x] = "dead" /\ Move(x, "waitqemu", "done")

\* "exit" after QEMU: in a pane it closes the pane, and the last pane takes
\* the session with it.  tmux then makes another pane the active one.
CliQemuExits(x) ==
    /\ pc[x] = "waitqemu" /\ qemu[x] = "dead"
    /\ IF x \notin panes
         THEN GoTo(x, "done") /\ UNCHANGED tmuxVars
         ELSE /\ GoTo(x, "gone")
              /\ panes' = panes \ {x}
              /\ UNCHANGED idle
              /\ LET left == panes' \cup {i \in {Idle} : idle > 0}
                 IN  IF left = {}
                       THEN sess' = FALSE /\ active' = None /\ client' = None
                       ELSE /\ active' \in IF active = x THEN left ELSE {active}
                            /\ UNCHANGED <<sess, client>>
    /\ UNCHANGED <<launchVars, target, qemu>>

DebuggerOf(x) == dbg[x[1]]

Connect(x) ==
    /\ pc[x] = "debug" /\ DebuggerOf(x) = "attach"
    /\ \E q \in Reachable(x) : target' = [target EXCEPT ![x] = q]
    /\ GoTo(x, "session")
    /\ UNCHANGED <<launchVars, qemu, tmuxVars>>

\* gdb gives up after its connection time-out and stays at its prompt.
ConnectFails(x) ==
    DebuggerOf(x) = "attach" /\ Reachable(x) = {} /\ Move(x, "debug", "session")

NoDebugger(x) == DebuggerOf(x) = "other" /\ Move(x, "debug", "killall")

UserQuitsDebugger(x) == Move(x, "session", "killall")

\* Fault: only the QEMU this instance started is stopped.
KillOwnQemu(x) ==
    /\ pc[x] = "killall"
    /\ qemu' = [qemu EXCEPT ![x] = IF @ = "up" THEN "dying" ELSE @]
    /\ GoTo(x, "killsess")
    /\ UNCHANGED <<launchVars, target, tmuxVars>>

\* Every running QEMU of the user, whoever started it; one that the terminal
\* has not started yet is missed.
KillAllQemu(x) ==
    /\ pc[x] = "killall"
    /\ qemu' = [q \in Inst |-> IF qemu[q] = "up" THEN "dying" ELSE qemu[q]]
    /\ GoTo(x, "killsess")
    /\ UNCHANGED <<launchVars, target, tmuxVars>>

\* Fault: line 239 is missing.
KeepSessionLast(x) == Move(x, "killsess", "done")

KillSessionLast(x) ==
    /\ pc[x] = "killsess"
    /\ KillSession(x, "done")
    /\ UNCHANGED <<launchVars, target>>

-----------------------------------------------------------------------------
(***************************************************************************)
(* The QEMU processes, and what users do.                                  *)
(***************************************************************************)

QemuListens(q) == ~PortTaken(PortOf(q)) /\ QemuMove(q, "spawned", "up")

QemuBindFails(q) == PortTaken(PortOf(q)) /\ QemuMove(q, "spawned", "dead")

QemuExits(q) == QemuMove(q, "dying", "dead")

\* Ctrl-A X on the serial console, or the guest powers off.
UserQuitsQemu(q) == QemuMove(q, "up", "dying")

UserDetaches(l) ==
    /\ client = l
    /\ client' = None
    /\ UNCHANGED <<pc, launchVars, target, qemu, sess, panes, idle, active>>

\* The launch's own terminal goes away (closed window, dropped ssh).  The tmux
\* session and a QEMU in a window of its own live on.
UserHangsUp(l) ==
    /\ UnderWay(l)
    /\ GoTo(Top(l), "gone")
    /\ qemu' = IF pc[Top(l)] = "waitqemu"
                 THEN [qemu EXCEPT ![Top(l)] = Hup(qemu[Top(l)])] ELSE qemu
    /\ client' = IF client = l THEN None ELSE client
    /\ UNCHANGED <<launchVars, target, sess, panes, idle, active>>

-----------------------------------------------------------------------------
LaunchStep(l) == LaunchBad(l) \/ TmuxLauncher(l)

InstStep(x) ==
    \/ LaunchWindow(x) \/ LaunchCliQemu(x) \/ LaunchCliGdb(x)
    \/ CliQemuExits(x) \/ Connect(x) \/ ConnectFails(x) \/ NoDebugger(x)
    \/ KillAllQemu(x) \/ KillSessionLast(x)

QemuStep(q) == QemuListens(q) \/ QemuBindFails(q) \/ QemuExits(q)

UserStep ==
    \/ \E l \in Launches : Start(l) \/ UserDetaches(l) \/ UserHangsUp(l)
    \/ \E x \in Inst : UserQuitsDebugger(x) \/ UserQuitsQemu(x)

Next ==
    \/ UserStep
    \/ \E l \in Launches : LaunchStep(l)
    \/ \E x \in Inst : InstStep(x) \/ QemuStep(x)

Spec == Init /\ [][Next]_vars

\* The scripts, gdb and QEMU run on; a user need not do anything.
Fairness ==
    \A l \in Launches :
        /\ WF_vars(LaunchStep(l) \/ InstStep(Top(l)))
        /\ WF_vars(InstStep(Left(l))) /\ WF_vars(InstStep(Right(l)))
        /\ WF_vars(QemuStep(Top(l))) /\ WF_vars(QemuStep(Left(l)))

FairSpec == Spec /\ Fairness

-----------------------------------------------------------------------------
(***************************************************************************)
(* Properties.                                                             *)
(***************************************************************************)

InDebuggerTail == {"debug", "session", "killall", "killsess", "done"}

\* Once a tmux launcher has run "tmux kill-session" on line 197, neither copy
\* of the script that it typed into the session runs any more, and the QEMU
\* that its left pane started is going or gone - whichever launch's session
\* the keys of lines 192 and 195 happened to reach.
TmuxLeavesNothing ==
    \A l \in Launches :
        term[l] = "tmux" /\ pc[Top(l)] \in InDebuggerTail =>
            /\ pc[Left(l)] \in Ended \cup {"unstarted"}
            /\ pc[Right(l)] \in Ended \cup {"unstarted"}
            /\ qemu[Left(l)] \notin {"spawned", "up"}

\* An instance that got as far as line 239 has stopped the QEMU it debugged,
\* even when that QEMU was started by somebody else: the killall of line 238
\* can only miss a QEMU to which its debugger never connected.
CleanupReaps ==
    \A x \in Inst :
        pc[x] \in {"killsess", "done"} /\ target[x] # None =>
            qemu[target[x]] \in {"dying", "dead"}

\* Whatever earlier launches left behind (a hung-up launcher leaves its session
\* and its panes running), a tmux launch that overlaps no other one gets both
\* its copies of the script started, unless its QEMU ended before line 193 or it was
\* typed inside another tmux client.
SoloPanesStart ==
    \A l \in Launches \ (overlapped \cup nested) :
        /\ term[l] = "tmux"
        /\ pc[Top(l)] \in {"attach", "attached", "kill197"}
        /\ qemu[Left(l)] \notin {"dying", "dead"}
        => pc[Left(l)] # "unstarted" /\ pc[Right(l)] # "unstarted"

\* The debugger of a tmux launch that overlaps no other launch and whose launcher
\* was not hung up never connects to a QEMU that an earlier one left behind on port
\* 12880, unless that QEMU has a window of its own and line 155 drew 12880 for it.
SoloDebugsOwn ==
    (\A m \in Launches : term[m] = "window" => port[m] # CliPort) =>
        \A l \in Launches \ overlapped :
            term[l] = "tmux" /\ pc[Top(l)] # "gone" => target[Right(l)] \in {None, Left(l)}

\* While a tmux launch that overlaps no other one is set up and shown, its QEMU
\* is stopped by its own debugger's clean-up or by the user, by nothing else.
SoloUndisturbed ==
    [][\A l \in Launches :
        (/\ l \notin overlapped' /\ term[l] = "tmux"
         /\ pc[Top(l)] \in {"split", "keysright", "attach", "attached"}
         /\ qemu[Left(l)] = "up" /\ qemu'[Left(l)] # "up")
        => UserQuitsQemu(Left(l)) \/ pc[Right(l)] \in {"killall", "killsess"}]_vars

\* Nothing that the launch typed into tmux is left.
Dismantled(l) ==
    /\ pc[Left(l)] \in Ended \cup {"unstarted"}
    /\ pc[Right(l)] \in Ended \cup {"unstarted"}
    /\ qemu[Left(l)] \in {"none", "dead"}

\* When the user quits the debugger of a tmux launch, both panes end and QEMU exits;
\* the launcher itself returns to the user if no other launch interfered.  A launch
\* typed inside a tmux client of the user's, whose window lines 193 and 196 miss,
\* comes to this end without the user, unless it is hung up.
QuitTearsDown ==
    \A l \in Launches :
        /\ mode[l] = "sourced"
        /\ pc[Right(l)] = "killall" \/ (l \in nested /\ pc[Top(l)] = "launch")
        ~>
        \/ Dismantled(l) /\ (pc[Top(l)] \in Ended \/ l \in overlapped \ nested)
        \/ l \in nested /\ pc[Top(l)] = "gone"

-----------------------------------------------------------------------------
(***************************************************************************)
(* The inductive invariant behind TmuxLeavesNothing and CleanupReaps.      *)
(***************************************************************************)

\* The session's busy panes are exactly the copies of the script under way.
PanesHoldCopies ==
    panes = {x \in Inst : x[2] # "top" /\ pc[x] \notin Ended \cup {"unstarted"}}

\* An active pane at its prompt is one of the counted ones.
IdleCounted == active = Idle => idle > 0

\* A launcher types each copy at most once, at line 192 and at line 195.
CopiesNotYetTyped ==
    \A l \in Launches :
        /\ pc[Top(l)] \in {"unstarted", "launch", "newsess", "keysleft"}
             => pc[Left(l)] = "unstarted"
        /\ pc[Top(l)] \in {"unstarted", "launch", "newsess", "keysleft", "split", "keysright"}
             => pc[Right(l)] = "unstarted"

\* A left copy only ever waits for QEMU, and its QEMU never outlives that wait.
LeftWaitsForQemu ==
    \A l \in Launches :
        /\ pc[Left(l)] \in Ended \cup {"unstarted", "launch", "waitqemu"}
        /\ qemu[Left(l)] \in {"spawned", "up"} => pc[Left(l)] = "waitqemu"
        /\ term[l] = "tmux" => pc[Top(l)] # "waitqemu"

\* An instance starts QEMU at most once.
NoQemuBeforeLaunch ==
    \A x \in Inst : pc[x] \in {"unstarted", "launch"} => qemu[x] = "none"

\* A debugger only ever connected to a QEMU that was up by then.
TargetWasUp ==
    \A x \in Inst : target[x] # None =>
        /\ pc[x] \in {"session", "killall", "killsess"} \cup Ended
        /\ qemu[target[x]] \in {"up", "dying", "dead"}

\* Their conjunction, with the two properties it is for.
IInv ==
    /\ TypeOK
    /\ IdleCounted
    /\ PanesHoldCopies
    /\ CopiesNotYetTyped
    /\ LeftWaitsForQemu
    /\ NoQemuBeforeLaunch
    /\ TargetWasUp
    /\ TmuxLeavesNothing
    /\ CleanupReaps

-----------------------------------------------------------------------------
(***************************************************************************)
(* The inductive invariant behind the properties of a launch that overlaps *)
(* no other one.  It rests on IInv.                                        *)
(***************************************************************************)

\* Nobody else is under way during such a launch.
Alone ==
    \A l, m \in Launches : UnderWay(l) /\ UnderWay(m) => l = m \/ l \in overlapped

\* From line 189 to line 197 such a tmux launch has the session for itself: it made it,
\* and if it is gone then because the left copy, which had it alone, ended with its QEMU.
SessionIsOwn ==
    \A l \in Launches \ overlapped :
        /\ pc[Top(l)] \in {"newsess", "keysleft", "split", "keysright", "attach", "attached", "kill197"}
             => panes \subseteq {Left(l), Right(l)}
        /\ pc[Top(l)] = "newsess" => ~sess
        /\ pc[Top(l)] = "keysleft" => sess /\ active = Idle
        /\ pc[Top(l)] \in {"split", "keysright", "attach", "attached", "kill197"}
             => pc[Left(l)] # "unstarted"
        /\ pc[Top(l)] = "split" => sess \/ qemu[Left(l)] = "dead"
        /\ pc[Top(l)] = "keysright" /\ l \notin nested
             => (sess /\ active = Idle) \/ qemu[Left(l)] = "dead"
        /\ pc[Top(l)] \in {"attach", "attached", "kill197"} /\ l \notin nested
             => pc[Right(l)] # "unstarted" \/ qemu[Left(l)] = "dead"

\* A QEMU outside tmux is in a window of its own, or in the foreground of a launch that
\* waits for it; right copies have none.  A launch has its arguments from its start.
OwnersOfQemu ==
    \A l \in Launches :
        /\ qemu[Right(l)] = "none"
        /\ qemu[Top(l)] \in {"spawned", "up"}
             => term[l] = "window" \/ (term[l] = "cli-qemu" /\ pc[Top(l)] = "waitqemu")
        /\ pc[Top(l)] = "unstarted" => term[l] = "bad"

\* Their conjunction, with the property of the debugger's target.
SoloInv == Alone /\ SessionIsOwn /\ OwnersOfQemu /\ SoloDebugsOwn

=============================================================================
