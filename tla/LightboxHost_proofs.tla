------------------------ MODULE LightboxHost_proofs ------------------------
(* Proofs about LightboxHost, for any number of launches and any ports. *)
EXTENDS LightboxHost, TLAPS

\* The three instances of a launch are distinct, those of two launches too.
LEMMA InstFacts ==
    /\ \A l \in Launches : Top(l) \in Inst /\ Left(l) \in Inst /\ Right(l) \in Inst
    /\ \A l \in Launches : Top(l)[1] = l /\ Left(l)[1] = l /\ Right(l)[1] = l
    /\ \A l \in Launches : Top(l)[2] = "top" /\ Left(l)[2] = "left" /\ Right(l)[2] = "right"
    /\ \A x \in Inst : x[1] \in Launches
    /\ \A x \in Inst : x = Top(x[1]) \/ x = Left(x[1]) \/ x = Right(x[1])
    /\ \A l, m \in Launches : Top(l) # Left(m) /\ Top(l) # Right(m) /\ Left(l) # Right(m)
    /\ \A l, m \in Launches : (Top(l) = Top(m) \/ Left(l) = Left(m) \/ Right(l) = Right(m)) => l = m
  BY DEF Inst, Top, Left, Right

\* The initial state satisfies the inductive invariant.
LEMMA InitIInv == Init => IInv
<1>. SUFFICES ASSUME Init PROVE IInv OBVIOUS
<1>. USE InstFacts DEF Init
<1>1. TypeOK
  BY HostAssumption DEF TypeOK, Labels, QemuStates, AllModes, AllTerminals, AllDebuggers
<1>2. IdleCounted BY HostAssumption DEF IdleCounted
<1>3. PanesHoldCopies BY DEF PanesHoldCopies
<1>4. CopiesNotYetTyped BY DEF CopiesNotYetTyped
<1>5. LeftWaitsForQemu BY DEF LeftWaitsForQemu
<1>6. NoQemuBeforeLaunch BY DEF NoQemuBeforeLaunch
<1>7. TargetWasUp BY DEF TargetWasUp
<1>8. TmuxLeavesNothing BY DEF TmuxLeavesNothing
<1>9. CleanupReaps BY DEF CleanupReaps
<1>. QED BY <1>1, <1>2, <1>3, <1>4, <1>5, <1>6, <1>7, <1>8, <1>9 DEF IInv

\* A step that moves one instance and touches nothing else.  Only a right copy
\* or a launcher of its own leaves line 187 without starting QEMU, and a tmux
\* launcher gets past its session only through line 197.
LEMMA MoveIInv ==
    ASSUME IInv, NEW x \in Inst, NEW from, NEW to, Move(x, from, to),
           \/ from = "launch" /\ to \in {"debug", "done"} /\ x[2] # "left"
                /\ (x[2] = "top" => term[x[1]] # "tmux")
           \/ from = "debug" /\ to \in {"session", "killall"}
           \/ from = "session" /\ to = "killall"
           \/ from = "attached" /\ to = "kill197" /\ x[2] = "top",
           to = "done" => x[2] = "top"
    PROVE  IInv'
<1>. USE InstFacts DEF Move, GoTo, launchVars, tmuxVars
<1>0. TypeOK BY DEF IInv
<1>1. TypeOK' BY <1>0 DEF TypeOK, Labels
<1>2. IdleCounted' BY DEF IInv, IdleCounted
<1>3. PanesHoldCopies' BY <1>0 DEF IInv, PanesHoldCopies, Ended, TypeOK
<1>4. CopiesNotYetTyped' BY <1>0 DEF IInv, CopiesNotYetTyped, TypeOK
<1>5. LeftWaitsForQemu' BY <1>0 DEF IInv, LeftWaitsForQemu, Ended, TypeOK
<1>6. NoQemuBeforeLaunch' BY <1>0 DEF IInv, NoQemuBeforeLaunch, TypeOK
<1>7. TargetWasUp' BY <1>0 DEF IInv, TargetWasUp, Ended, TypeOK
<1>8. TmuxLeavesNothing' 
  BY <1>0 DEF IInv, TmuxLeavesNothing, InDebuggerTail, Ended, TypeOK
<1>9. CleanupReaps' BY <1>0 DEF IInv, CleanupReaps, TargetWasUp, Ended, TypeOK
<1>. QED BY <1>1, <1>2, <1>3, <1>4, <1>5, <1>6, <1>7, <1>8, <1>9 DEF IInv

\* A step of one QEMU process: it never comes back to life.
LEMMA QemuMoveIInv ==
    ASSUME IInv, NEW q \in Inst, NEW from, NEW to, QemuMove(q, from, to),
           <<from, to>> \in {<<"spawned", "up">>, <<"spawned", "dead">>,
                             <<"dying", "dead">>, <<"up", "dying">>}
    PROVE  IInv'
<1>. USE InstFacts DEF QemuMove, launchVars, tmuxVars
<1>0. TypeOK BY DEF IInv
<1>a. \/ from = "spawned" /\ to \in {"up", "dead"}
      \/ from = "dying" /\ to = "dead"
      \/ from = "up" /\ to = "dying"
  OBVIOUS
<1>1. TypeOK' BY <1>0, <1>a DEF TypeOK, QemuStates
<1>2. IdleCounted' BY DEF IInv, IdleCounted
<1>3. PanesHoldCopies' BY DEF IInv, PanesHoldCopies
<1>4. CopiesNotYetTyped' BY DEF IInv, CopiesNotYetTyped
<1>5. LeftWaitsForQemu' BY <1>0, <1>a DEF IInv, LeftWaitsForQemu, TypeOK
<1>6. NoQemuBeforeLaunch' BY <1>0, <1>a DEF IInv, NoQemuBeforeLaunch, TypeOK
<1>7. TargetWasUp' BY <1>0, <1>a DEF IInv, TargetWasUp, TypeOK
<1>8. TmuxLeavesNothing' BY <1>0, <1>a DEF IInv, TmuxLeavesNothing, TypeOK
<1>9. CleanupReaps' BY <1>0, <1>a DEF IInv, CleanupReaps, TypeOK
<1>. QED BY <1>1, <1>2, <1>3, <1>4, <1>5, <1>6, <1>7, <1>8, <1>9 DEF IInv

\* "tmux kill-session", run by the launcher (lines 189 and 197) or at the end
\* of any instance (line 239): every copy of the script goes, and so every
\* QEMU in a pane.
LEMMA KillSessionIInv ==
    ASSUME IInv, NEW x \in Inst, NEW to, KillSession(x, to),
           UNCHANGED <<launchVars, target>>,
           \/ pc[x] = "launch" /\ to = "newsess" /\ x[2] = "top"
           \/ pc[x] = "kill197" /\ to \in {"debug", "done"} /\ x[2] = "top"
           \/ pc[x] = "killsess" /\ to = "done"
    PROVE  IInv'
<1>. USE InstFacts DEF KillSession, launchVars
<1>0. TypeOK BY DEF IInv
<1>1. TypeOK'
  BY <1>0 DEF TypeOK, Labels, QemuStates, Hup
<1>2. IdleCounted' BY HostAssumption DEF IInv, IdleCounted
<1>3. PanesHoldCopies' BY <1>0 DEF IInv, PanesHoldCopies, Ended, TypeOK
<1>4. CopiesNotYetTyped' BY <1>0 DEF IInv, CopiesNotYetTyped, PanesHoldCopies, TypeOK
<1>5. LeftWaitsForQemu'
  BY <1>0 DEF IInv, LeftWaitsForQemu, PanesHoldCopies, Ended, Hup, TypeOK
<1>6. NoQemuBeforeLaunch' BY <1>0 DEF IInv, NoQemuBeforeLaunch, TypeOK
<1>7. TargetWasUp' BY <1>0 DEF IInv, TargetWasUp, Ended, Hup, TypeOK
<1>8. TmuxLeavesNothing'
  <2>. SUFFICES ASSUME NEW l \in Launches, term[l] = "tmux", pc'[Top(l)] \in InDebuggerTail
                PROVE  /\ pc'[Left(l)] \in Ended \cup {"unstarted"}
                       /\ pc'[Right(l)] \in Ended \cup {"unstarted"}
                       /\ qemu'[Left(l)] \notin {"spawned", "up"}
    BY DEF TmuxLeavesNothing
  <2>1. pc'[Left(l)] \in Ended \cup {"unstarted"}
    BY <1>0 DEF IInv, PanesHoldCopies, Ended, TypeOK
  <2>2. pc'[Right(l)] \in Ended \cup {"unstarted"}
    BY <1>0 DEF IInv, PanesHoldCopies, Ended, TypeOK
  <2>3. qemu'[Left(l)] \notin {"spawned", "up"}
    BY <1>0 DEF IInv, LeftWaitsForQemu, PanesHoldCopies, Ended, Hup, TypeOK
  <2>. QED BY <2>1, <2>2, <2>3
<1>9. CleanupReaps' BY <1>0 DEF IInv, CleanupReaps, TargetWasUp, Ended, Hup, TypeOK
<1>. QED BY <1>1, <1>2, <1>3, <1>4, <1>5, <1>6, <1>7, <1>8, <1>9 DEF IInv

\* An instance starts its QEMU: a left copy, or a launch outside tmux.
LEMMA SpawnIInv ==
    ASSUME IInv, NEW x \in Inst, NEW to \in {"debug", "waitqemu"}, SpawnQemu(x, to),
           x[2] # "right", x[2] = "left" => to = "waitqemu",
           x[2] = "top" => term[x[1]] # "tmux"
    PROVE  IInv'
<1>. USE InstFacts DEF SpawnQemu, GoTo, launchVars, tmuxVars
<1>0. TypeOK BY DEF IInv
<1>1. TypeOK' BY <1>0 DEF TypeOK, Labels, QemuStates
<1>2. IdleCounted' BY DEF IInv, IdleCounted
<1>3. PanesHoldCopies' BY <1>0 DEF IInv, PanesHoldCopies, Ended, TypeOK
<1>4. CopiesNotYetTyped' BY <1>0 DEF IInv, CopiesNotYetTyped, TypeOK
<1>5. LeftWaitsForQemu' BY <1>0 DEF IInv, LeftWaitsForQemu, Ended, TypeOK
<1>6. NoQemuBeforeLaunch' BY <1>0 DEF IInv, NoQemuBeforeLaunch, TypeOK
<1>7. TargetWasUp' BY <1>0 DEF IInv, TargetWasUp, NoQemuBeforeLaunch, Ended, TypeOK
<1>8. TmuxLeavesNothing'
  BY <1>0 DEF IInv, TmuxLeavesNothing, InDebuggerTail, Ended, TypeOK
<1>9. CleanupReaps' BY <1>0 DEF IInv, CleanupReaps, NoQemuBeforeLaunch, TypeOK
<1>. QED BY <1>1, <1>2, <1>3, <1>4, <1>5, <1>6, <1>7, <1>8, <1>9 DEF IInv

\* send-keys starts a copy that has not run before, or nothing at all.
LEMMA SendKeysIInv ==
    ASSUME IInv, NEW l \in Launches, NEW y, NEW to, SendKeys(l, y, to),
           \/ pc[Top(l)] = "keysleft" /\ y = Left(l) /\ to = "split"
           \/ pc[Top(l)] = "keysright" /\ y = Right(l) /\ to = "attach"
    PROVE  IInv'
<1>. USE InstFacts DEF SendKeys, GoTo, launchVars, tmuxVars
<1>0. TypeOK BY DEF IInv
<1>a. y \in Inst /\ y # Top(l) /\ y[2] # "top" /\ pc[y] = "unstarted"
  BY DEF IInv, CopiesNotYetTyped
<1>b. qemu[y] = "none" /\ target[y] = None
  BY <1>0, <1>a DEF IInv, NoQemuBeforeLaunch, TargetWasUp, Ended, TypeOK
<1>1. TypeOK' BY <1>0, <1>a DEF IInv, IdleCounted, TypeOK, Labels
<1>2. IdleCounted' BY <1>a, HostAssumption DEF IInv, IdleCounted
<1>3. PanesHoldCopies' BY <1>0, <1>a DEF IInv, PanesHoldCopies, Ended, TypeOK
<1>4. CopiesNotYetTyped' BY <1>0, <1>a DEF IInv, CopiesNotYetTyped, TypeOK
<1>5. LeftWaitsForQemu' BY <1>0, <1>a, <1>b DEF IInv, LeftWaitsForQemu, Ended, TypeOK
<1>6. NoQemuBeforeLaunch' BY <1>0, <1>a, <1>b DEF IInv, NoQemuBeforeLaunch, TypeOK
<1>7. TargetWasUp' BY <1>0, <1>a, <1>b DEF IInv, TargetWasUp, Ended, TypeOK
<1>8. TmuxLeavesNothing'
  BY <1>0, <1>a DEF IInv, TmuxLeavesNothing, InDebuggerTail, Ended, TypeOK
<1>9. CleanupReaps' BY <1>0, <1>a DEF IInv, CleanupReaps, TypeOK
<1>. QED BY <1>1, <1>2, <1>3, <1>4, <1>5, <1>6, <1>7, <1>8, <1>9 DEF IInv

\* A user starts a launch: its instances have not run yet.
LEMMA StartIInv ==
    ASSUME IInv, NEW l \in Launches, Start(l)
    PROVE  IInv'
<1>. USE InstFacts DEF Start, GoTo, UnderWay, tmuxVars
<1>0. TypeOK BY DEF IInv
<1>1. TypeOK'
  BY <1>0, HostAssumption DEF TypeOK, Labels, DebugPorts, AllTerminals, AllDebuggers, AllModes
<1>2. IdleCounted' BY <1>0 DEF IInv, IdleCounted, TypeOK
<1>3. PanesHoldCopies' BY <1>0 DEF IInv, PanesHoldCopies, Ended, TypeOK
<1>4. CopiesNotYetTyped' BY <1>0 DEF IInv, CopiesNotYetTyped, TypeOK
<1>5. LeftWaitsForQemu' BY <1>0 DEF IInv, LeftWaitsForQemu, Ended, TypeOK
<1>6. NoQemuBeforeLaunch' BY <1>0 DEF IInv, NoQemuBeforeLaunch, TypeOK
<1>7. TargetWasUp' BY <1>0 DEF IInv, TargetWasUp, Ended, TypeOK
<1>8. TmuxLeavesNothing'
  BY <1>0 DEF IInv, TmuxLeavesNothing, InDebuggerTail, Ended, TypeOK
<1>9. CleanupReaps' BY <1>0 DEF IInv, CleanupReaps, TypeOK
<1>. QED BY <1>1, <1>2, <1>3, <1>4, <1>5, <1>6, <1>7, <1>8, <1>9 DEF IInv

\* Lines 190, 193 and 196: the session is made, split and attached to.
LEMMA TmuxSetupIInv ==
    ASSUME IInv, NEW l \in Launches, TmuxNewSession(l) \/ TmuxSplit(l) \/ TmuxAttach(l)
    PROVE  IInv'
<1>. USE InstFacts DEF TmuxNewSession, TmuxSplit, TmuxAttach, GoTo, launchVars, tmuxVars
<1>0. TypeOK BY DEF IInv
<1>1. TypeOK'
  <2>1. CASE sess
    <3>1. UNCHANGED <<sess, panes>> BY <2>1
    <3>2. idle' \in {idle, idle + 1} BY <2>1
    <3>3. active' \in {active, Idle} /\ client' \in {client, l} BY <2>1
    <3>. QED BY <1>0, <3>1, <3>2, <3>3 DEF TypeOK, Labels
  <2>2. CASE ~sess
    <3>1. sess' \in BOOLEAN BY <1>0, <2>2, Zenon DEF TypeOK
    <3>2. /\ idle' \in Nat /\ active' \in {active, Idle}
          /\ UNCHANGED <<panes, client>>
      BY <1>0, <2>2 DEF TypeOK
    <3>. QED BY <1>0, <3>1, <3>2 DEF TypeOK, Labels
  <2>. QED BY <2>1, <2>2
<1>2. IdleCounted' BY <1>0 DEF IInv, IdleCounted, TypeOK
<1>3. PanesHoldCopies' BY <1>0 DEF IInv, PanesHoldCopies, Ended, TypeOK
<1>4. CopiesNotYetTyped' BY <1>0 DEF IInv, CopiesNotYetTyped, TypeOK
<1>5. LeftWaitsForQemu' BY <1>0 DEF IInv, LeftWaitsForQemu, Ended, TypeOK
<1>6. NoQemuBeforeLaunch' BY <1>0 DEF IInv, NoQemuBeforeLaunch, TypeOK
<1>7. TargetWasUp' BY <1>0 DEF IInv, TargetWasUp, Ended, TypeOK
<1>8. TmuxLeavesNothing'
  BY <1>0 DEF IInv, TmuxLeavesNothing, InDebuggerTail, Ended, TypeOK
<1>9. CleanupReaps' BY <1>0 DEF IInv, CleanupReaps, TypeOK
<1>. QED BY <1>1, <1>2, <1>3, <1>4, <1>5, <1>6, <1>7, <1>8, <1>9 DEF IInv

\* Line 184: the shell that waited for QEMU exits, and closes its pane.
LEMMA CliQemuExitsIInv ==
    ASSUME IInv, NEW x \in Inst, CliQemuExits(x)
    PROVE  IInv'
<1>. USE InstFacts DEF CliQemuExits, GoTo, launchVars, tmuxVars
<1>0. TypeOK BY DEF IInv
<1>1. TypeOK'
  <2>1. CASE x \notin panes
    BY <1>0, <2>1 DEF TypeOK, Labels
  <2>2. CASE x \in panes
    <3>1. pc' \in [Inst -> Labels] BY <1>0, <2>2 DEF TypeOK, Labels
    <3>2. panes' \subseteq Inst BY <1>0, <2>2 DEF TypeOK
    <3>3. active' \in Inst \cup {Idle, None} BY <1>0, <2>2 DEF TypeOK
    <3>4. sess' \in BOOLEAN /\ client' \in Launches \cup {None} BY <1>0, <2>2 DEF TypeOK
    <3>. QED BY <1>0, <2>2, <3>1, <3>2, <3>3, <3>4 DEF TypeOK
  <2>. QED BY <2>1, <2>2
<1>2. IdleCounted' BY <1>0, HostAssumption DEF IInv, IdleCounted, TypeOK
<1>3. PanesHoldCopies' BY <1>0, SMTT(20) DEF IInv, PanesHoldCopies, Ended, TypeOK
<1>4. CopiesNotYetTyped' BY <1>0 DEF IInv, CopiesNotYetTyped, TypeOK
<1>5. LeftWaitsForQemu' BY <1>0 DEF IInv, LeftWaitsForQemu, Ended, TypeOK
<1>6. NoQemuBeforeLaunch' BY <1>0 DEF IInv, NoQemuBeforeLaunch, TypeOK
<1>7. TargetWasUp' BY <1>0 DEF IInv, TargetWasUp, Ended, TypeOK
<1>8. TmuxLeavesNothing'
  BY <1>0 DEF IInv, TmuxLeavesNothing, LeftWaitsForQemu, InDebuggerTail, Ended, TypeOK
<1>9. CleanupReaps' BY <1>0 DEF IInv, CleanupReaps, TargetWasUp, Ended, TypeOK
<1>. QED BY <1>1, <1>2, <1>3, <1>4, <1>5, <1>6, <1>7, <1>8, <1>9 DEF IInv

\* gdb connects: only to a QEMU that is up.
LEMMA ConnectIInv ==
    ASSUME IInv, NEW x \in Inst, Connect(x)
    PROVE  IInv'
<1>. USE InstFacts DEF Connect, Reachable, GoTo, launchVars, tmuxVars
<1>0. TypeOK BY DEF IInv
<1>1. TypeOK' BY <1>0 DEF TypeOK, Labels
<1>2. IdleCounted' BY <1>0 DEF IInv, IdleCounted, TypeOK
<1>3. PanesHoldCopies' BY <1>0 DEF IInv, PanesHoldCopies, Ended, TypeOK
<1>4. CopiesNotYetTyped' BY <1>0 DEF IInv, CopiesNotYetTyped, TypeOK
<1>5. LeftWaitsForQemu' BY <1>0 DEF IInv, LeftWaitsForQemu, Ended, TypeOK
<1>6. NoQemuBeforeLaunch' BY <1>0 DEF IInv, NoQemuBeforeLaunch, TypeOK
<1>7. TargetWasUp' BY <1>0 DEF IInv, TargetWasUp, Ended, TypeOK
<1>8. TmuxLeavesNothing'
  BY <1>0 DEF IInv, TmuxLeavesNothing, InDebuggerTail, Ended, TypeOK
<1>9. CleanupReaps' BY <1>0 DEF IInv, CleanupReaps, TypeOK
<1>. QED BY <1>1, <1>2, <1>3, <1>4, <1>5, <1>6, <1>7, <1>8, <1>9 DEF IInv

\* Line 238: no QEMU that is up survives.
LEMMA KillAllIInv ==
    ASSUME IInv, NEW x \in Inst, KillAllQemu(x)
    PROVE  IInv'
<1>. USE InstFacts DEF KillAllQemu, GoTo, launchVars, tmuxVars
<1>0. TypeOK BY DEF IInv
<1>1. TypeOK' BY <1>0 DEF TypeOK, Labels, QemuStates
<1>2. IdleCounted' BY <1>0 DEF IInv, IdleCounted, TypeOK
<1>3. PanesHoldCopies' BY <1>0 DEF IInv, PanesHoldCopies, Ended, TypeOK
<1>4. CopiesNotYetTyped' BY <1>0 DEF IInv, CopiesNotYetTyped, TypeOK
<1>5. LeftWaitsForQemu' BY <1>0 DEF IInv, LeftWaitsForQemu, Ended, TypeOK
<1>6. NoQemuBeforeLaunch' BY <1>0 DEF IInv, NoQemuBeforeLaunch, TypeOK
<1>7. TargetWasUp' BY <1>0 DEF IInv, TargetWasUp, Ended, TypeOK
<1>8. TmuxLeavesNothing'
  BY <1>0 DEF IInv, TmuxLeavesNothing, InDebuggerTail, Ended, TypeOK
<1>9. CleanupReaps' BY <1>0 DEF IInv, CleanupReaps, TargetWasUp, Ended, TypeOK
<1>. QED BY <1>1, <1>2, <1>3, <1>4, <1>5, <1>6, <1>7, <1>8, <1>9 DEF IInv

\* A user detaches from the session or loses the launch's terminal.
LEMMA UserTmuxIInv ==
    ASSUME IInv, NEW l \in Launches, UserDetaches(l) \/ UserHangsUp(l)
    PROVE  IInv'
<1>. USE InstFacts DEF UserDetaches, UserHangsUp, UnderWay, Hup, GoTo, launchVars, tmuxVars
<1>0. TypeOK BY DEF IInv
<1>1. TypeOK' BY <1>0 DEF TypeOK, Labels, QemuStates
<1>2. IdleCounted' BY <1>0 DEF IInv, IdleCounted, TypeOK
<1>3. PanesHoldCopies' BY <1>0 DEF IInv, PanesHoldCopies, Ended, TypeOK
<1>4. CopiesNotYetTyped' BY <1>0 DEF IInv, CopiesNotYetTyped, TypeOK
<1>5. LeftWaitsForQemu' BY <1>0 DEF IInv, LeftWaitsForQemu, Ended, TypeOK
<1>6. NoQemuBeforeLaunch' BY <1>0 DEF IInv, NoQemuBeforeLaunch, TypeOK
<1>7. TargetWasUp' BY <1>0 DEF IInv, TargetWasUp, Ended, TypeOK
<1>8. TmuxLeavesNothing'
  BY <1>0 DEF IInv, TmuxLeavesNothing, InDebuggerTail, Ended, TypeOK
<1>9. CleanupReaps' BY <1>0 DEF IInv, CleanupReaps, TypeOK
<1>. QED BY <1>1, <1>2, <1>3, <1>4, <1>5, <1>6, <1>7, <1>8, <1>9 DEF IInv

\* Every step keeps the inductive invariant: one case per action.
LEMMA NextIInv == IInv /\ [Next]_vars => IInv'
<1>. SUFFICES ASSUME IInv, [Next]_vars PROVE IInv' OBVIOUS
<1>. USE InstFacts
<1>1. ASSUME NEW l \in Launches, Start(l) PROVE IInv' BY <1>1, StartIInv
<1>2. ASSUME NEW l \in Launches, UserDetaches(l) \/ UserHangsUp(l) PROVE IInv'
  BY <1>2, UserTmuxIInv
<1>3. ASSUME NEW x \in Inst, UserQuitsDebugger(x) PROVE IInv'
  BY <1>3, MoveIInv DEF UserQuitsDebugger
<1>4. ASSUME NEW q \in Inst, UserQuitsQemu(q) PROVE IInv'
  BY <1>4, QemuMoveIInv DEF UserQuitsQemu
<1>5. ASSUME NEW q \in Inst, QemuStep(q) PROVE IInv'
  BY <1>5, QemuMoveIInv DEF QemuStep, QemuListens, QemuBindFails, QemuExits
<1>6. ASSUME NEW l \in Launches, LaunchBad(l) PROVE IInv'
  BY <1>6, MoveIInv DEF LaunchBad, ReturnLabel
<1>7. ASSUME NEW l \in Launches, TmuxLauncher(l) PROVE IInv'
  <2>1. CASE TmuxKillOld(l) BY <2>1, KillSessionIInv DEF TmuxKillOld
  <2>2. CASE TmuxNewSession(l) BY <2>2, TmuxSetupIInv
  <2>3. CASE TmuxKeysLeft(l) BY <2>3, SendKeysIInv DEF TmuxKeysLeft
  <2>4. CASE TmuxSplit(l) BY <2>4, TmuxSetupIInv
  <2>5. CASE TmuxKeysRight(l) BY <2>5, SendKeysIInv DEF TmuxKeysRight
  <2>6. CASE TmuxAttach(l) BY <2>6, TmuxSetupIInv
  <2>7. CASE TmuxAttachReturns(l) BY <2>7, MoveIInv DEF TmuxAttachReturns
  <2>8. CASE TmuxKillAndReturn(l) 
    BY <2>8, KillSessionIInv DEF TmuxKillAndReturn, ReturnLabel
  <2>. QED BY <1>7, <2>1, <2>2, <2>3, <2>4, <2>5, <2>6, <2>7, <2>8 DEF TmuxLauncher
<1>8. ASSUME NEW x \in Inst, InstStep(x) PROVE IInv'
  <2>1. CASE LaunchWindow(x)
    <3>1. x[2] = "top" /\ term[x[1]] # "tmux" BY <2>1 DEF LaunchWindow, TermOf
    <3>. QED BY <2>1, <3>1, SpawnIInv DEF LaunchWindow
  <2>2. CASE LaunchCliQemu(x)
    <3>1. x[2] # "right" /\ (x[2] = "top" => term[x[1]] # "tmux")
      BY <2>2 DEF LaunchCliQemu, TermOf
    <3>. QED BY <2>2, <3>1, SpawnIInv DEF LaunchCliQemu
  <2>3. CASE LaunchCliGdb(x)
    <3>1. x[2] # "left" /\ (x[2] = "top" => term[x[1]] # "tmux")
      BY <2>3 DEF LaunchCliGdb, TermOf
    <3>. QED BY <2>3, <3>1, MoveIInv DEF LaunchCliGdb
  <2>4. CASE CliQemuExits(x) BY <2>4, CliQemuExitsIInv
  <2>5. CASE Connect(x) BY <2>5, ConnectIInv
  <2>6. CASE ConnectFails(x) BY <2>6, MoveIInv DEF ConnectFails
  <2>7. CASE NoDebugger(x) BY <2>7, MoveIInv DEF NoDebugger
  <2>8. CASE KillAllQemu(x) BY <2>8, KillAllIInv
  <2>9. CASE KillSessionLast(x) BY <2>9, KillSessionIInv DEF KillSessionLast
  <2>. QED BY <1>8, <2>1, <2>2, <2>3, <2>4, <2>5, <2>6, <2>7, <2>8, <2>9 DEF InstStep
<1>9. CASE UNCHANGED vars
  BY <1>9 DEF vars, launchVars, tmuxVars, IInv, TypeOK, IdleCounted, PanesHoldCopies, CopiesNotYetTyped,
     LeftWaitsForQemu, NoQemuBeforeLaunch, TargetWasUp, TmuxLeavesNothing, CleanupReaps
<1>. QED
  BY <1>1, <1>2, <1>3, <1>4, <1>5, <1>6, <1>7, <1>8, <1>9 DEF Next, UserStep, LaunchStep

\* The inductive invariant holds throughout, for any set of launches.
THEOREM Inductive == Spec => []IInv
  BY InitIInv, NextIInv, PTL DEF Spec

\* Every variable keeps its type.
THEOREM TypeCorrect == Spec => []TypeOK
<1>1. IInv => TypeOK BY DEF IInv
<1>. QED BY <1>1, Inductive, PTL

\* After line 197 nothing that the launch typed into tmux runs any more.
THEOREM TmuxLeavesNothingHolds == Spec => []TmuxLeavesNothing
<1>1. IInv => TmuxLeavesNothing BY DEF IInv
<1>. QED BY <1>1, Inductive, PTL

\* After line 238 the QEMU an instance debugged is stopped.
THEOREM CleanupReapsHolds == Spec => []CleanupReaps
<1>1. IInv => CleanupReaps BY DEF IInv
<1>. QED BY <1>1, Inductive, PTL

-----------------------------------------------------------------------------
(***************************************************************************)
(* Launches that overlap no other one.                                     *)
(***************************************************************************)

\* The initial state.
LEMMA InitSolo == Init => SoloInv
<1>. SUFFICES ASSUME Init PROVE SoloInv OBVIOUS
<1>. USE InstFacts DEF Init
<1>1. Alone BY DEF Alone, UnderWay
<1>2. SessionIsOwn BY DEF SessionIsOwn
<1>3. OwnersOfQemu BY DEF OwnersOfQemu
<1>4. SoloDebugsOwn BY DEF SoloDebugsOwn
<1>. QED BY <1>1, <1>2, <1>3, <1>4 DEF SoloInv

\* During a launch that overlaps no other one, and with no launch but its own to type
\* copies, an instance in the debugger's tail is the launch itself or its right copy.
LEMMA OnlyOwn ==
    ASSUME IInv, SoloInv, NEW l \in Launches \ overlapped, NEW x \in Inst,
           pc[Top(l)] \in {"newsess", "keysleft", "split", "keysright", "attach", "attached", "kill197"},
           pc[x] \notin Ended \cup {"unstarted"}
    PROVE  x \in {Top(l), Left(l), Right(l)}
<1>1. UnderWay(l) BY DEF UnderWay, Ended
<1>2. CASE x = Top(x[1])
  <2>1. UnderWay(x[1]) /\ x[1] \in Launches BY <1>2, InstFacts DEF UnderWay
  <2>. QED BY <1>1, <1>2, <2>1 DEF SoloInv, Alone
<1>3. CASE x # Top(x[1])
  <2>1. x[2] # "top" BY <1>3, InstFacts
  <2>2. x \in panes BY <2>1 DEF IInv, PanesHoldCopies
  <2>. QED BY <2>2 DEF SoloInv, SessionIsOwn
<1>. QED BY <1>2, <1>3

\* A user starts a launch.
LEMMA StartSolo == ASSUME IInv, SoloInv, NEW l \in Launches, Start(l) PROVE SoloInv'
<1>. USE InstFacts DEF GoTo, tmuxVars
<1>0. TypeOK BY DEF IInv
<1>a. /\ pc[Top(l)] = "unstarted" /\ pc' = [pc EXCEPT ![Top(l)] = "launch"]
      /\ UNCHANGED <<target, qemu, sess, panes, idle, active, client>>
      /\ overlapped' = overlapped \cup {m \in Launches : UnderWay(m)}
                         \cup {m \in {l} : {n \in Launches : UnderWay(n)} # {}}
  BY DEF Start
<1>b. /\ \A m \in Launches \ {l} : term'[m] = term[m] /\ port'[m] = port[m]
      /\ \A m \in Launches \ {l} : m \in nested' <=> m \in nested
  BY <1>0 DEF Start, TypeOK
<1>c. /\ pc'[Top(l)] = "launch"
      /\ \A x \in Inst \ {Top(l)} : pc'[x] = pc[x]
  BY <1>0, <1>a DEF TypeOK
<1>d. \A m \in Launches \ {l} : pc'[Top(m)] = pc[Top(m)] /\ (UnderWay(m)' <=> UnderWay(m))
  BY <1>c DEF UnderWay
<1>1. Alone'
  <2>. SUFFICES ASSUME NEW k \in Launches, NEW m \in Launches, UnderWay(k)', UnderWay(m)', k # m
                PROVE  k \in overlapped'
    BY DEF Alone
  <2>1. CASE k = l
    <3>1. UnderWay(m) BY <2>1, <1>d
    <3>. QED BY <2>1, <3>1, <1>a
  <2>2. CASE k # l
    <3>1. UnderWay(k) BY <2>2, <1>d
    <3>. QED BY <3>1, <1>a
  <2>. QED BY <2>1, <2>2
<1>2. SessionIsOwn'
  <2>. SUFFICES ASSUME NEW k \in Launches \ overlapped',
                       pc'[Top(k)] \in {"newsess", "keysleft", "split", "keysright", "attach", "attached", "kill197"}
                PROVE  FALSE
    BY DEF SessionIsOwn
  <2>1. k # l BY <1>c
  <2>2. UnderWay(k) BY <2>1, <1>d DEF UnderWay, Ended
  <2>. QED BY <2>2, <1>a
<1>3. OwnersOfQemu'
  <2>1. qemu[Top(l)] = "none" BY <1>a DEF IInv, NoQemuBeforeLaunch
  <2>. QED BY <1>a, <1>b, <1>c, <1>d, <2>1 DEF SoloInv, OwnersOfQemu
<1>4. SoloDebugsOwn'
  <2>. SUFFICES ASSUME \A m \in Launches : term'[m] = "window" => port'[m] # CliPort,
                       NEW k \in Launches \ overlapped', term'[k] = "tmux", pc'[Top(k)] # "gone"
                PROVE  target[Right(k)] \in {None, Left(k)}
    BY <1>a DEF SoloDebugsOwn
  <2>1. CASE k = l
    <3>1. pc[Right(l)] = "unstarted" BY <1>a DEF IInv, CopiesNotYetTyped
    <3>2. target[Right(l)] = None BY <3>1 DEF IInv, TargetWasUp, Ended
    <3>. QED BY <2>1, <3>2
  <2>2. CASE k # l
    <3>1. term[l] = "bad" BY <1>a DEF SoloInv, OwnersOfQemu
    <3>2. \A m \in Launches : term[m] = "window" => port[m] # CliPort
      BY <3>1, <1>b
    <3>. QED BY <2>2, <3>2, <1>a, <1>b, <1>d DEF SoloInv, SoloDebugsOwn
  <2>. QED BY <2>1, <2>2
<1>. QED BY <1>1, <1>2, <1>3, <1>4 DEF SoloInv

\* What every other step keeps: arguments, and who is under way.
LEMMA SameLaunches ==
    ASSUME IInv, SoloInv, UNCHANGED launchVars,
           \A l \in Launches : UnderWay(l)' => UnderWay(l)
    PROVE  Alone'
BY DEF SoloInv, Alone, launchVars

\* The target of a debugger changes only when it connects.
LEMMA SameTargets ==
    ASSUME IInv, SoloInv, UNCHANGED <<launchVars, target>>,
           \A l \in Launches : pc[Top(l)] = "gone" => pc'[Top(l)] = "gone"
    PROVE  SoloDebugsOwn'
BY DEF SoloInv, SoloDebugsOwn, launchVars

\* A step of one instance that touches nothing else.
LEMMA MoveSolo ==
    ASSUME IInv, SoloInv, NEW x \in Inst, NEW from, NEW to, Move(x, from, to),
           \/ from = "launch" /\ to \in {"debug", "done"}
           \/ from = "debug" /\ to \in {"session", "killall"}
           \/ from = "session" /\ to = "killall"
           \/ from = "attached" /\ to = "kill197" /\ x[2] = "top"
    PROVE  SoloInv'
<1>. USE InstFacts DEF Move, GoTo, launchVars, tmuxVars
<1>0. TypeOK BY DEF IInv
<1>a. pc'[x] = to /\ pc[x] = from /\ \A y \in Inst \ {x} : pc'[y] = pc[y] BY <1>0 DEF TypeOK
<1>1. Alone'
  <2>1. \A l \in Launches : UnderWay(l)' => UnderWay(l) BY <1>a DEF UnderWay, Ended
  <2>. QED BY <2>1, SameLaunches
<1>2. SessionIsOwn' BY <1>a DEF SoloInv, SessionIsOwn
<1>3. OwnersOfQemu' BY <1>a DEF SoloInv, OwnersOfQemu
<1>4. SoloDebugsOwn' BY <1>a, SameTargets
<1>. QED BY <1>1, <1>2, <1>3, <1>4 DEF SoloInv

\* A step of one QEMU process.
LEMMA QemuMoveSolo ==
    ASSUME IInv, SoloInv, NEW q \in Inst, NEW from, NEW to, QemuMove(q, from, to),
           \/ from = "spawned" /\ to \in {"up", "dead"}
           \/ from = "dying" /\ to = "dead"
           \/ from = "up" /\ to = "dying"
    PROVE  SoloInv'
<1>. USE InstFacts DEF QemuMove, launchVars, tmuxVars
<1>0. TypeOK BY DEF IInv
<1>a. qemu'[q] = to /\ qemu[q] = from /\ \A y \in Inst \ {q} : qemu'[y] = qemu[y] BY <1>0 DEF TypeOK
<1>1. Alone' BY SameLaunches DEF UnderWay
<1>2. SessionIsOwn' BY <1>a DEF SoloInv, SessionIsOwn
<1>3. OwnersOfQemu' BY <1>a DEF SoloInv, OwnersOfQemu
<1>4. SoloDebugsOwn' BY SameTargets
<1>. QED BY <1>1, <1>2, <1>3, <1>4 DEF SoloInv

\* "tmux kill-session": only the launch itself, on lines 189 and 197, and its right copy,
\* on line 239, run it while the launch is under way.
LEMMA KillSessionSolo ==
    ASSUME IInv, SoloInv, NEW x \in Inst, NEW to, KillSession(x, to),
           UNCHANGED <<launchVars, target>>,
           \/ pc[x] = "launch" /\ to = "newsess" /\ x[2] = "top"
           \/ pc[x] = "kill197" /\ to \in {"debug", "done"} /\ x[2] = "top"
           \/ pc[x] = "killsess" /\ to = "done"
    PROVE  SoloInv'
<1>. USE InstFacts DEF launchVars
<1>0. TypeOK BY DEF IInv
<1>a. /\ pc'[x] = to /\ \A y \in Inst \ {x} : pc'[y] = IF y \in panes THEN "gone" ELSE pc[y]
      /\ \A y \in Inst : qemu'[y] = IF y \in panes THEN Hup(qemu[y]) ELSE qemu[y]
      /\ sess' = FALSE /\ panes' = {}
  BY DEF KillSession
<1>b. \A l \in Launches : Top(l) \notin panes BY DEF IInv, PanesHoldCopies
<1>c. \A l \in Launches : Top(l) # x => pc'[Top(l)] = pc[Top(l)] BY <1>a, <1>b
<1>d. Hup("dead") = "dead" /\ Hup("none") = "none" BY DEF Hup
<1>1. Alone'
  <2>1. \A l \in Launches : UnderWay(l)' => UnderWay(l) BY <1>c DEF UnderWay, Ended
  <2>. QED BY <2>1, SameLaunches
<1>2. SessionIsOwn'
  <2>. SUFFICES ASSUME NEW l \in Launches \ overlapped,
                       pc'[Top(l)] \in {"newsess", "keysleft", "split", "keysright", "attach", "attached", "kill197"}
                PROVE  /\ pc'[Top(l)] \in {"newsess", "attach", "attached", "kill197"}
                       /\ pc'[Top(l)] # "newsess" => pc'[Left(l)] # "unstarted"
                       /\ pc'[Top(l)] # "newsess" /\ l \notin nested
                            => pc'[Right(l)] # "unstarted" \/ qemu'[Left(l)] = "dead"
    BY <1>a DEF SessionIsOwn
  <2>1. CASE x = Top(l) BY <2>1, <1>a
  <2>2. CASE x # Top(l)
    <3>1. pc'[Top(l)] = pc[Top(l)] BY <2>2, <1>c
    <3>2. x \in {Left(l), Right(l)} BY <2>2, <3>1, OnlyOwn DEF Ended
    <3>3. x = Right(l) /\ pc[x] = "killsess" BY <3>2 DEF IInv, LeftWaitsForQemu, Ended
    <3>4. pc[Top(l)] \in {"attach", "attached", "kill197"}
      BY <3>1, <3>3 DEF IInv, CopiesNotYetTyped
    <3>5. pc[Left(l)] # "unstarted" BY <3>4 DEF SoloInv, SessionIsOwn
    <3>6. pc'[Left(l)] # "unstarted" BY <3>5, <1>a
    <3>. QED BY <3>1, <3>3, <3>4, <3>6, <1>a
  <2>. QED BY <2>1, <2>2
<1>3. OwnersOfQemu'
  <2>1. \A l \in Launches : qemu'[Right(l)] = "none" BY <1>a, <1>d DEF SoloInv, OwnersOfQemu
  <2>2. \A l \in Launches : qemu'[Top(l)] = qemu[Top(l)] BY <1>a, <1>b
  <2>. QED BY <2>1, <2>2, <1>a, <1>c DEF SoloInv, OwnersOfQemu
<1>4. SoloDebugsOwn'
  <2>1. \A l \in Launches : pc[Top(l)] = "gone" => pc'[Top(l)] = "gone" BY <1>c
  <2>. QED BY <2>1, SameTargets
<1>. QED BY <1>1, <1>2, <1>3, <1>4 DEF SoloInv

\* An instance starts its QEMU.
LEMMA SpawnSolo ==
    ASSUME IInv, SoloInv, NEW x \in Inst, NEW to, SpawnQemu(x, to),
           \/ to = "debug" /\ x[2] = "top" /\ term[x[1]] = "window"
           \/ to = "waitqemu" /\ x[2] = "top" /\ term[x[1]] = "cli-qemu"
           \/ to = "waitqemu" /\ x[2] = "left"
    PROVE  SoloInv'
<1>. USE InstFacts DEF SpawnQemu, GoTo, launchVars, tmuxVars
<1>0. TypeOK BY DEF IInv
<1>a. /\ pc'[x] = to /\ pc[x] = "launch" /\ \A y \in Inst \ {x} : pc'[y] = pc[y]
      /\ qemu'[x] = "spawned" /\ \A y \in Inst \ {x} : qemu'[y] = qemu[y]
      /\ qemu[x] = "none"
  BY <1>0 DEF TypeOK, IInv, NoQemuBeforeLaunch
<1>1. Alone'
  <2>1. \A l \in Launches : UnderWay(l)' => UnderWay(l) BY <1>a DEF UnderWay, Ended
  <2>. QED BY <2>1, SameLaunches
<1>2. SessionIsOwn' BY <1>a DEF SoloInv, SessionIsOwn
<1>3. OwnersOfQemu' BY <1>a DEF SoloInv, OwnersOfQemu
<1>4. SoloDebugsOwn' BY <1>a, SameTargets
<1>. QED BY <1>1, <1>2, <1>3, <1>4 DEF SoloInv

\* A launcher types a copy: its own, where it found its own session.
LEMMA SendKeysSolo ==
    ASSUME IInv, SoloInv, NEW l \in Launches, NEW y, NEW to, SendKeys(l, y, to),
           \/ pc[Top(l)] = "keysleft" /\ y = Left(l) /\ to = "split"
           \/ pc[Top(l)] = "keysright" /\ y = Right(l) /\ to = "attach"
    PROVE  SoloInv'
<1>. USE InstFacts DEF launchVars
<1>0. TypeOK BY DEF IInv
<1>a. /\ pc'[Top(l)] = to /\ \A x \in Inst \ {Top(l), y} : pc'[x] = pc[x]
      /\ pc'[y] = IF active = Idle THEN "launch" ELSE pc[y]
      /\ panes' = IF active = Idle THEN panes \cup {y} ELSE panes
      /\ UNCHANGED <<sess, qemu, target, launchVars>>
  BY <1>0 DEF SendKeys, GoTo, tmuxVars, TypeOK
<1>b. UnderWay(l) BY DEF UnderWay, Ended
<1>c. \A m \in Launches : Top(m) # y /\ (m # l => pc'[Top(m)] = pc[Top(m)]) BY <1>a
<1>1. Alone'
  <2>1. \A m \in Launches : UnderWay(m)' => UnderWay(m) BY <1>b, <1>c DEF UnderWay
  <2>. QED BY <2>1, <1>a, SameLaunches
<1>2. SessionIsOwn'
  <2>. SUFFICES ASSUME NEW m \in Launches \ overlapped,
                       pc'[Top(m)] \in {"newsess", "keysleft", "split", "keysright", "attach", "attached", "kill197"}
                PROVE  /\ panes' \subseteq {Left(m), Right(m)}
                       /\ pc'[Top(m)] = "newsess" => ~sess
                       /\ pc'[Top(m)] = "keysleft" => sess /\ active' = Idle
                       /\ pc'[Top(m)] \in {"split", "keysright", "attach", "attached", "kill197"}
                            => pc'[Left(m)] # "unstarted"
                       /\ pc'[Top(m)] = "split" => sess \/ qemu[Left(m)] = "dead"
                       /\ pc'[Top(m)] = "keysright" /\ m \notin nested
                            => (sess /\ active' = Idle) \/ qemu[Left(m)] = "dead"
                       /\ pc'[Top(m)] \in {"attach", "attached", "kill197"} /\ m \notin nested
                            => pc'[Right(m)] # "unstarted" \/ qemu[Left(m)] = "dead"
    BY <1>a DEF SessionIsOwn
  <2>1. m = l
    <3>. SUFFICES ASSUME m # l PROVE FALSE OBVIOUS
    <3>1. UnderWay(m) BY <1>c DEF UnderWay, Ended
    <3>. QED BY <3>1, <1>b DEF SoloInv, Alone
  <2>2. panes \subseteq {Left(l), Right(l)} BY <2>1 DEF SoloInv, SessionIsOwn
  <2>3. CASE pc[Top(l)] = "keysleft" /\ y = Left(l) /\ to = "split"
    <3>1. sess /\ active = Idle BY <2>1, <2>3 DEF SoloInv, SessionIsOwn
    <3>. QED BY <2>1, <2>2, <2>3, <3>1, <1>a
  <2>4. CASE pc[Top(l)] = "keysright" /\ y = Right(l) /\ to = "attach"
    <3>1. pc[Left(l)] # "unstarted" /\ (l \notin nested => active = Idle \/ qemu[Left(l)] = "dead")
      BY <2>1, <2>4 DEF SoloInv, SessionIsOwn
    <3>2. pc'[Left(l)] = pc[Left(l)] BY <2>4, <1>a
    <3>. QED BY <2>1, <2>2, <2>4, <3>1, <3>2, <1>a
  <2>. QED BY <2>3, <2>4
<1>3. OwnersOfQemu' BY <1>a, <1>c DEF SoloInv, OwnersOfQemu
<1>4. SoloDebugsOwn'
  <2>1. \A m \in Launches : pc[Top(m)] = "gone" => pc'[Top(m)] = "gone" BY <1>c
  <2>. QED BY <2>1, <1>a, SameTargets
<1>. QED BY <1>1, <1>2, <1>3, <1>4 DEF SoloInv

\* The session is made, split and attached to, by the launch whose own it is.
LEMMA TmuxSetupSolo ==
    ASSUME IInv, SoloInv, NEW l \in Launches, TmuxNewSession(l) \/ TmuxSplit(l) \/ TmuxAttach(l)
    PROVE  SoloInv'
<1>. USE InstFacts DEF launchVars
<1>0. TypeOK BY DEF IInv
<1>a. /\ \A x \in Inst \ {Top(l)} : pc'[x] = pc[x]
      /\ UNCHANGED <<panes, qemu, target, launchVars>>
      /\ pc[Top(l)] \in {"newsess", "split", "attach"}
      /\ pc'[Top(l)] \in {"keysleft", "keysright", "attached", "kill197"}
  BY <1>0 DEF TmuxNewSession, TmuxSplit, TmuxAttach, GoTo, tmuxVars, TypeOK
<1>b. UnderWay(l) BY <1>a DEF UnderWay, Ended
<1>1. Alone'
  <2>1. \A m \in Launches : UnderWay(m)' => UnderWay(m) BY <1>a, <1>b DEF UnderWay
  <2>. QED BY <2>1, <1>a, SameLaunches
<1>2. SessionIsOwn'
  <2>. SUFFICES ASSUME NEW m \in Launches \ overlapped,
                       pc'[Top(m)] \in {"newsess", "keysleft", "split", "keysright", "attach", "attached", "kill197"}
                PROVE  /\ panes \subseteq {Left(m), Right(m)}
                       /\ pc'[Top(m)] = "newsess" => ~sess'
                       /\ pc'[Top(m)] = "keysleft" => sess' /\ active' = Idle
                       /\ pc'[Top(m)] \in {"split", "keysright", "attach", "attached", "kill197"}
                            => pc'[Left(m)] # "unstarted"
                       /\ pc'[Top(m)] = "split" => sess' \/ qemu[Left(m)] = "dead"
                       /\ pc'[Top(m)] = "keysright" /\ m \notin nested
                            => (sess' /\ active' = Idle) \/ qemu[Left(m)] = "dead"
                       /\ pc'[Top(m)] \in {"attach", "attached", "kill197"} /\ m \notin nested
                            => pc'[Right(m)] # "unstarted" \/ qemu[Left(m)] = "dead"
    BY <1>a DEF SessionIsOwn
  <2>1. m = l
    <3>. SUFFICES ASSUME m # l PROVE FALSE OBVIOUS
    <3>1. UnderWay(m) BY <1>a DEF UnderWay, Ended
    <3>. QED BY <3>1, <1>b DEF SoloInv, Alone
  <2>2. panes \subseteq {Left(l), Right(l)} BY <2>1, <1>a DEF SoloInv, SessionIsOwn
  <2>3. pc'[Left(l)] = pc[Left(l)] /\ pc'[Right(l)] = pc[Right(l)] BY <1>a
  <2>4. CASE TmuxNewSession(l)
    <3>1. ~sess /\ pc[Top(l)] = "newsess" BY <2>1, <2>4 DEF SoloInv, SessionIsOwn, TmuxNewSession
    <3>2. sess' /\ active' = Idle /\ pc'[Top(l)] = "keysleft"
      BY <2>4, <3>1, <1>0 DEF TmuxNewSession, GoTo, TypeOK
    <3>. QED BY <2>1, <2>2, <3>2
  <2>5. CASE TmuxSplit(l)
    <3>1. pc[Top(l)] = "split" /\ pc'[Top(l)] = "keysright" BY <2>5, <1>0 DEF TmuxSplit, GoTo, TypeOK
    <3>2. pc[Left(l)] # "unstarted" /\ (sess \/ qemu[Left(l)] = "dead")
      BY <2>1, <3>1 DEF SoloInv, SessionIsOwn
    <3>3. sess /\ l \notin nested => sess' /\ active' = Idle BY <2>5 DEF TmuxSplit
    <3>. QED BY <2>1, <2>2, <2>3, <3>1, <3>2, <3>3
  <2>6. CASE TmuxAttach(l)
    <3>1. pc[Top(l)] = "attach" /\ pc'[Top(l)] \in {"attached", "kill197"}
      BY <2>6, <1>0 DEF TmuxAttach, GoTo, TypeOK
    <3>2. /\ pc[Left(l)] # "unstarted"
          /\ l \notin nested => pc[Right(l)] # "unstarted" \/ qemu[Left(l)] = "dead"
      BY <2>1, <3>1 DEF SoloInv, SessionIsOwn
    <3>. QED BY <2>1, <2>2, <2>3, <3>1, <3>2
  <2>. QED BY <2>4, <2>5, <2>6
<1>3. OwnersOfQemu' BY <1>a DEF SoloInv, OwnersOfQemu
<1>4. SoloDebugsOwn'
  <2>1. \A m \in Launches : pc[Top(m)] = "gone" => pc'[Top(m)] = "gone" BY <1>a
  <2>. QED BY <2>1, <1>a, SameTargets
<1>. QED BY <1>1, <1>2, <1>3, <1>4 DEF SoloInv

\* A shell that waited for QEMU exits; the session goes with the last pane.
LEMMA CliQemuExitsSolo == ASSUME IInv, SoloInv, NEW x \in Inst, CliQemuExits(x) PROVE SoloInv'
<1>. USE InstFacts DEF launchVars
<1>0. TypeOK BY DEF IInv
<1>a. /\ pc[x] = "waitqemu" /\ pc'[x] \in Ended /\ \A y \in Inst \ {x} : pc'[y] = pc[y]
      /\ qemu[x] = "dead" /\ panes' \subseteq panes
      /\ UNCHANGED <<qemu, target, launchVars>>
  BY <1>0 DEF CliQemuExits, GoTo, tmuxVars, TypeOK, Ended
<1>b. x \notin panes => UNCHANGED <<sess, active>> BY DEF CliQemuExits, tmuxVars
<1>c. active = Idle => UNCHANGED <<sess, active>>
  <2>. SUFFICES ASSUME active = Idle, x \in panes PROVE UNCHANGED <<sess, active>> BY <1>b
  <2>1. idle > 0 /\ active # x BY HostAssumption DEF IInv, IdleCounted
  <2>. QED BY <2>1 DEF CliQemuExits
<1>d. sess' => sess
  <2>1. CASE x \in panes
    <3>. DEFINE rest == panes' \cup {i \in {Idle} : idle > 0}
    <3>1. CASE rest = {} BY <3>1, <2>1 DEF CliQemuExits
    <3>2. CASE rest # {} BY <3>2, <2>1 DEF CliQemuExits
    <3>. QED BY <3>1, <3>2
  <2>. QED BY <1>b, <2>1
<1>1. Alone'
  <2>1. \A l \in Launches : UnderWay(l)' => UnderWay(l) BY <1>a DEF UnderWay, Ended
  <2>. QED BY <2>1, <1>a, SameLaunches
<1>2. SessionIsOwn'
  <2>. SUFFICES ASSUME NEW l \in Launches \ overlapped,
                       pc'[Top(l)] \in {"newsess", "keysleft", "split", "keysright", "attach", "attached", "kill197"}
                PROVE  /\ panes' \subseteq {Left(l), Right(l)}
                       /\ pc'[Top(l)] = "newsess" => ~sess'
                       /\ pc'[Top(l)] = "keysleft" => sess' /\ active' = Idle
                       /\ pc'[Top(l)] \in {"split", "keysright", "attach", "attached", "kill197"}
                            => pc'[Left(l)] # "unstarted"
                       /\ pc'[Top(l)] = "split" => sess' \/ qemu[Left(l)] = "dead"
                       /\ pc'[Top(l)] = "keysright" /\ l \notin nested
                            => (sess' /\ active' = Idle) \/ qemu[Left(l)] = "dead"
                       /\ pc'[Top(l)] \in {"attach", "attached", "kill197"} /\ l \notin nested
                            => pc'[Right(l)] # "unstarted" \/ qemu[Left(l)] = "dead"
    BY <1>a DEF SessionIsOwn
  <2>1. x # Top(l) /\ pc'[Top(l)] = pc[Top(l)] BY <1>a DEF Ended
  <2>2. /\ pc[Left(l)] # "unstarted" => pc'[Left(l)] # "unstarted"
        /\ pc[Right(l)] # "unstarted" => pc'[Right(l)] # "unstarted"
    BY <1>a DEF Ended
  <2>3. x \in {Left(l), Right(l)} BY <2>1, <1>a, OnlyOwn DEF Ended
  <2>4. pc[Top(l)] \in {"newsess", "keysleft"} => x # Left(l) /\ x # Right(l)
    BY <1>a DEF IInv, CopiesNotYetTyped
  <2>5. pc[Top(l)] \in {"split", "keysright"} => qemu[Left(l)] = "dead"
    BY <2>3, <1>a DEF IInv, CopiesNotYetTyped
  <2>. QED BY <2>1, <2>2, <2>3, <2>4, <2>5, <1>a DEF SoloInv, SessionIsOwn
<1>3. OwnersOfQemu' BY <1>a DEF SoloInv, OwnersOfQemu, Ended
<1>4. SoloDebugsOwn'
  <2>1. \A m \in Launches : pc[Top(m)] = "gone" => pc'[Top(m)] = "gone" BY <1>a
  <2>. QED BY <2>1, <1>a, SameTargets
<1>. QED BY <1>1, <1>2, <1>3, <1>4 DEF SoloInv

\* gdb connects: the right copy of such a launch finds no QEMU but that of its left copy.
LEMMA ConnectSolo == ASSUME IInv, SoloInv, NEW x \in Inst, Connect(x) PROVE SoloInv'
<1>. USE InstFacts DEF launchVars, tmuxVars
<1>0. TypeOK BY DEF IInv
<1>a. /\ pc[x] = "debug" /\ pc'[x] = "session" /\ \A y \in Inst \ {x} : pc'[y] = pc[y]
      /\ UNCHANGED <<launchVars, qemu, tmuxVars>>
  BY <1>0 DEF Connect, GoTo, TypeOK
<1>b. PICK q \in Reachable(x) : target' = [target EXCEPT ![x] = q] BY DEF Connect
<1>c. q \in Inst /\ qemu[q] = "up" /\ PortOf(q) = PortOf(x) BY DEF Reachable
<1>d. target'[x] = q /\ \A y \in Inst \ {x} : target'[y] = target[y] BY <1>0, <1>b DEF TypeOK
<1>1. Alone'
  <2>1. \A l \in Launches : UnderWay(l)' => UnderWay(l) BY <1>a DEF UnderWay, Ended
  <2>. QED BY <2>1, <1>a, SameLaunches
<1>2. SessionIsOwn' BY <1>a DEF SoloInv, SessionIsOwn
<1>3. OwnersOfQemu' BY <1>a DEF SoloInv, OwnersOfQemu
<1>4. SoloDebugsOwn'
  <2>. SUFFICES ASSUME \A m \in Launches : term[m] = "window" => port[m] # CliPort,
                       NEW l \in Launches \ overlapped, term[l] = "tmux", pc'[Top(l)] # "gone"
                PROVE  target'[Right(l)] \in {None, Left(l)}
    BY <1>a DEF SoloDebugsOwn
  <2>0. pc[Top(l)] # "gone" BY <1>a
  <2>1. CASE x # Right(l) BY <2>0, <2>1, <1>d DEF SoloInv, SoloDebugsOwn
  <2>2. CASE x = Right(l)
    <3>1. pc[Top(l)] \in {"attach", "attached", "kill197"}
      <4>1. pc[Top(l)] \notin {"unstarted", "launch", "newsess", "keysleft", "split", "keysright"}
        BY <2>2, <1>a DEF IInv, CopiesNotYetTyped
      <4>2. pc[Top(l)] \notin InDebuggerTail BY <2>2, <1>a DEF IInv, TmuxLeavesNothing, Ended
      <4>3. pc[Top(l)] # "waitqemu" BY DEF IInv, LeftWaitsForQemu
      <4>4. pc[Top(l)] \in Labels BY <1>0 DEF TypeOK
      <4>. QED BY <2>0, <4>1, <4>2, <4>3, <4>4 DEF Labels, InDebuggerTail
    <3>2. PortOf(q) = CliPort BY <2>2, <1>c DEF PortOf
    <3>3. q = Left(l)
      <4>1. CASE q = Right(q[1]) BY <4>1, <1>c DEF SoloInv, OwnersOfQemu
      <4>2. CASE q = Left(q[1])
        <5>1. pc[q] = "waitqemu" BY <4>2, <1>c DEF IInv, LeftWaitsForQemu
        <5>2. q \in {Top(l), Left(l), Right(l)} BY <3>1, <5>1, <1>c, OnlyOwn DEF Ended
        <5>. QED BY <4>2, <5>2, <1>c
      <4>3. CASE q = Top(q[1])
        <5>1. port[q[1]] = CliPort BY <4>3, <3>2, <1>c DEF PortOf
        <5>2. pc[q] = "waitqemu" BY <4>3, <5>1, <1>c DEF SoloInv, OwnersOfQemu
        <5>3. q \in {Top(l), Left(l), Right(l)} BY <3>1, <5>2, <1>c, OnlyOwn DEF Ended
        <5>. QED BY <4>3, <5>2, <5>3, <3>1, <1>c
      <4>. QED BY <4>1, <4>2, <4>3, <1>c
    <3>. QED BY <2>2, <3>3, <1>d
  <2>. QED BY <2>1, <2>2
<1>. QED BY <1>1, <1>2, <1>3, <1>4 DEF SoloInv

\* Line 238 stops QEMUs and starts none.
LEMMA KillAllSolo == ASSUME IInv, SoloInv, NEW x \in Inst, KillAllQemu(x) PROVE SoloInv'
<1>. USE InstFacts DEF launchVars, tmuxVars
<1>0. TypeOK BY DEF IInv
<1>a. /\ pc[x] = "killall" /\ pc'[x] = "killsess" /\ \A y \in Inst \ {x} : pc'[y] = pc[y]
      /\ \A y \in Inst : qemu'[y] = IF qemu[y] = "up" THEN "dying" ELSE qemu[y]
      /\ UNCHANGED <<launchVars, target, tmuxVars>>
  BY <1>0 DEF KillAllQemu, GoTo, TypeOK
<1>1. Alone'
  <2>1. \A l \in Launches : UnderWay(l)' => UnderWay(l) BY <1>a DEF UnderWay, Ended
  <2>. QED BY <2>1, <1>a, SameLaunches
<1>2. SessionIsOwn' BY <1>a DEF SoloInv, SessionIsOwn
<1>3. OwnersOfQemu' BY <1>a DEF SoloInv, OwnersOfQemu
<1>4. SoloDebugsOwn' BY <1>a, SameTargets
<1>. QED BY <1>1, <1>2, <1>3, <1>4 DEF SoloInv

\* A user detaches, or loses the terminal of the launch.
LEMMA UserTmuxSolo ==
    ASSUME IInv, SoloInv, NEW l \in Launches, UserDetaches(l) \/ UserHangsUp(l)
    PROVE  SoloInv'
<1>. USE InstFacts DEF launchVars
<1>0. TypeOK BY DEF IInv
<1>a. UNCHANGED <<launchVars, target, sess, panes, active>> BY DEF UserDetaches, UserHangsUp
<1>1. CASE UserDetaches(l)
  <2>0. UNCHANGED <<pc, qemu>> BY <1>1 DEF UserDetaches
  <2>1. Alone' BY <2>0, <1>a, SameLaunches DEF UnderWay
  <2>2. SessionIsOwn' BY <2>0, <1>a DEF SoloInv, SessionIsOwn
  <2>3. OwnersOfQemu' BY <2>0, <1>a DEF SoloInv, OwnersOfQemu
  <2>4. SoloDebugsOwn' BY <2>0, <1>a, SameTargets
  <2>. QED BY <2>1, <2>2, <2>3, <2>4 DEF SoloInv
<1>2. CASE UserHangsUp(l)
  <2>0. /\ pc'[Top(l)] = "gone" /\ pc[Top(l)] # "unstarted"
        /\ \A y \in Inst \ {Top(l)} : pc'[y] = pc[y] /\ qemu'[y] = qemu[y]
        /\ qemu'[Top(l)] = IF pc[Top(l)] = "waitqemu" THEN Hup(qemu[Top(l)]) ELSE qemu[Top(l)]
    BY <1>2, <1>0 DEF UserHangsUp, UnderWay, GoTo, TypeOK
  <2>1. Alone'
    <3>1. \A m \in Launches : UnderWay(m)' => UnderWay(m) BY <2>0 DEF UnderWay, Ended
    <3>. QED BY <3>1, <1>a, SameLaunches
  <2>2. SessionIsOwn' BY <2>0, <1>a DEF SoloInv, SessionIsOwn
  <2>3. OwnersOfQemu'
    <3>1. Hup(qemu[Top(l)]) \notin {"spawned", "up"}
      BY <1>0 DEF Hup, TypeOK, QemuStates
    <3>. QED BY <2>0, <3>1, <1>a DEF SoloInv, OwnersOfQemu
  <2>4. SoloDebugsOwn' BY <2>0, <1>a, SameTargets
  <2>. QED BY <2>1, <2>2, <2>3, <2>4 DEF SoloInv
<1>. QED BY <1>1, <1>2

\* Every step keeps the invariant.
LEMMA NextSolo == IInv /\ SoloInv /\ [Next]_vars => SoloInv'
<1>. SUFFICES ASSUME IInv, SoloInv, [Next]_vars PROVE SoloInv' OBVIOUS
<1>. USE InstFacts
<1>1. CASE UserStep
  <2>1. ASSUME NEW x \in Inst, UserQuitsDebugger(x) PROVE SoloInv'
    BY <2>1, MoveSolo DEF UserQuitsDebugger
  <2>2. ASSUME NEW q \in Inst, UserQuitsQemu(q) PROVE SoloInv'
    BY <2>2, QemuMoveSolo DEF UserQuitsQemu
  <2>. QED BY <1>1, <2>1, <2>2, StartSolo, UserTmuxSolo DEF UserStep
<1>2. ASSUME NEW l \in Launches, LaunchStep(l) PROVE SoloInv'
  <2>1. CASE LaunchBad(l) BY <2>1, MoveSolo DEF LaunchBad, ReturnLabel
  <2>2. CASE TmuxKillOld(l) BY <2>2, KillSessionSolo DEF TmuxKillOld
  <2>3. CASE TmuxKeysLeft(l) BY <2>3, SendKeysSolo DEF TmuxKeysLeft
  <2>4. CASE TmuxKeysRight(l) BY <2>4, SendKeysSolo DEF TmuxKeysRight
  <2>5. CASE TmuxAttachReturns(l) BY <2>5, MoveSolo DEF TmuxAttachReturns
  <2>6. CASE TmuxKillAndReturn(l) BY <2>6, KillSessionSolo DEF TmuxKillAndReturn, ReturnLabel
  <2>. QED BY <1>2, <2>1, <2>2, <2>3, <2>4, <2>5, <2>6, TmuxSetupSolo DEF LaunchStep, TmuxLauncher
<1>3. ASSUME NEW x \in Inst, InstStep(x) PROVE SoloInv'
  <2>1. CASE LaunchWindow(x)
    <3>1. x[2] = "top" /\ term[x[1]] = "window" BY <2>1 DEF LaunchWindow, TermOf
    <3>. QED BY <2>1, <3>1, SpawnSolo DEF LaunchWindow
  <2>2. CASE LaunchCliQemu(x)
    <3>1. x[2] = "left" \/ (x[2] = "top" /\ term[x[1]] = "cli-qemu") BY <2>2 DEF LaunchCliQemu, TermOf
    <3>. QED BY <2>2, <3>1, SpawnSolo DEF LaunchCliQemu
  <2>3. CASE LaunchCliGdb(x) BY <2>3, MoveSolo DEF LaunchCliGdb
  <2>4. CASE ConnectFails(x) BY <2>4, MoveSolo DEF ConnectFails
  <2>5. CASE NoDebugger(x) BY <2>5, MoveSolo DEF NoDebugger
  <2>6. CASE KillSessionLast(x) BY <2>6, KillSessionSolo DEF KillSessionLast
  <2>. QED BY <1>3, <2>1, <2>2, <2>3, <2>4, <2>5, <2>6, CliQemuExitsSolo, ConnectSolo, KillAllSolo
         DEF InstStep
<1>4. ASSUME NEW q \in Inst, QemuStep(q) PROVE SoloInv'
  BY <1>4, QemuMoveSolo DEF QemuStep, QemuListens, QemuBindFails, QemuExits
<1>5. CASE UNCHANGED vars
  <2>. USE <1>5 DEF vars, launchVars, tmuxVars
  <2>1. Alone' BY DEF SoloInv, Alone, UnderWay
  <2>2. SessionIsOwn' BY DEF SoloInv, SessionIsOwn
  <2>3. OwnersOfQemu' BY DEF SoloInv, OwnersOfQemu
  <2>4. SoloDebugsOwn' BY DEF SoloInv, SoloDebugsOwn
  <2>. QED BY <2>1, <2>2, <2>3, <2>4 DEF SoloInv
<1>. QED BY <1>1, <1>2, <1>3, <1>4, <1>5 DEF Next

\* A launch that overlaps no other one has the tmux session and port 12880 for itself,
\* whatever earlier launches left behind.
THEOREM SoloInductive == Spec => []SoloInv
BY InitSolo, NextSolo, Inductive, PTL DEF Spec

\* Such a launch gets both its copies of the script started.
THEOREM SoloPanesStartHolds == Spec => []SoloPanesStart
<1>1. SoloInv => SoloPanesStart BY DEF SoloInv, SessionIsOwn, SoloPanesStart
<1>. QED BY <1>1, SoloInductive, PTL

\* Its debugger connects to its own QEMU.
THEOREM SoloDebugsOwnHolds == Spec => []SoloDebugsOwn
<1>1. SoloInv => SoloDebugsOwn BY DEF SoloInv
<1>. QED BY <1>1, SoloInductive, PTL

\* Its QEMU is stopped by its own debugger's clean-up or by the user, by nothing else.
THEOREM SoloUndisturbedHolds == Spec => SoloUndisturbed
<1>1. ASSUME IInv, SoloInv, [Next]_vars, NEW l \in Launches, l \notin overlapped', term[l] = "tmux",
             pc[Top(l)] \in {"split", "keysright", "attach", "attached"},
             qemu[Left(l)] = "up", qemu'[Left(l)] # "up"
      PROVE  UserQuitsQemu(Left(l)) \/ pc[Right(l)] \in {"killall", "killsess"}
  <2>. USE InstFacts
  <2>0. TypeOK BY <1>1 DEF IInv
  <2>1. l \notin overlapped
    <3>1. overlapped \subseteq overlapped'
      BY <1>1 DEF Next, UserStep, Start, UserDetaches, UserHangsUp, UserQuitsDebugger, UserQuitsQemu,
         LaunchStep, LaunchBad, TmuxLauncher, TmuxKillOld, TmuxNewSession, TmuxKeysLeft, TmuxSplit,
         TmuxKeysRight, TmuxAttach, TmuxAttachReturns, TmuxKillAndReturn, SendKeys, InstStep,
         LaunchWindow, LaunchCliQemu, LaunchCliGdb, SpawnQemu, CliQemuExits, Connect, ConnectFails,
         NoDebugger, KillAllQemu, KillSessionLast, QemuStep, QemuListens, QemuBindFails, QemuExits,
         Move, QemuMove, launchVars, vars
    <3>. QED BY <1>1, <3>1
  <2>2. \A x \in Inst : pc[x] \in {"killall", "killsess"} => x = Right(l)
    <3>. SUFFICES ASSUME NEW x \in Inst, pc[x] \in {"killall", "killsess"} PROVE x = Right(l)
      OBVIOUS
    <3>1. x \in {Top(l), Left(l), Right(l)} BY <1>1, <2>1, OnlyOwn DEF Ended
    <3>2. pc[Left(l)] \notin {"killall", "killsess"} BY <1>1 DEF IInv, LeftWaitsForQemu, Ended
    <3>. QED BY <1>1, <3>1, <3>2
  <2>3. \A m \in Launches : pc[Top(m)] \notin {"launch", "kill197"}
    <3>. SUFFICES ASSUME NEW m \in Launches, pc[Top(m)] \in {"launch", "kill197"} PROVE FALSE
      OBVIOUS
    <3>1. Top(m) \in {Top(l), Left(l), Right(l)} BY <1>1, <2>1, OnlyOwn DEF Ended
    <3>. QED BY <1>1, <3>1
  <2>4. CASE \E x \in Inst : KillAllQemu(x) \/ KillSessionLast(x)
    BY <2>2, <2>4 DEF KillAllQemu, KillSessionLast
  <2>5. CASE \E m \in Launches : TmuxKillOld(m) \/ TmuxKillAndReturn(m)
    BY <2>3, <2>5 DEF TmuxKillOld, TmuxKillAndReturn
  <2>6. ASSUME NEW q \in Inst, QemuStep(q) \/ UserQuitsQemu(q) PROVE UserQuitsQemu(Left(l))
    <3>1. q = Left(l)
      BY <1>1, <2>0, <2>6 DEF QemuStep, QemuListens, QemuBindFails, QemuExits, UserQuitsQemu,
         QemuMove, TypeOK
    <3>2. ~QemuStep(q)
      BY <1>1, <3>1 DEF QemuStep, QemuListens, QemuBindFails, QemuExits, QemuMove
    <3>. QED BY <2>6, <3>1, <3>2
  <2>7. \A m \in Launches : ~UserHangsUp(m)
    BY <1>1, <2>0 DEF UserHangsUp, TypeOK
  <2>8. \A x \in Inst : ~LaunchWindow(x) /\ ~LaunchCliQemu(x)
    <3>. SUFFICES ASSUME NEW x \in Inst, NEW to, SpawnQemu(x, to) PROVE FALSE
      BY DEF LaunchWindow, LaunchCliQemu
    <3>1. x = Left(l) BY <1>1, <2>0 DEF SpawnQemu, TypeOK
    <3>. QED BY <1>1, <3>1 DEF SpawnQemu, IInv, NoQemuBeforeLaunch
  <2>9. CASE UNCHANGED qemu BY <1>1, <2>9
  <2>. QED
    BY <1>1, <2>4, <2>5, <2>6, <2>7, <2>8, <2>9 DEF Next, UserStep, Start, UserDetaches,
       UserQuitsDebugger, LaunchStep, LaunchBad, TmuxLauncher, TmuxNewSession, TmuxKeysLeft,
       TmuxSplit, TmuxKeysRight, TmuxAttach, TmuxAttachReturns, SendKeys, InstStep, LaunchCliGdb,
       CliQemuExits, Connect, ConnectFails, NoDebugger, Move, vars
<1>2. ASSUME IInv, SoloInv, [Next]_vars
      PROVE  \A l \in Launches :
                (/\ l \notin overlapped' /\ term[l] = "tmux"
                 /\ pc[Top(l)] \in {"split", "keysright", "attach", "attached"}
                 /\ qemu[Left(l)] = "up" /\ qemu'[Left(l)] # "up")
                => UserQuitsQemu(Left(l)) \/ pc[Right(l)] \in {"killall", "killsess"}
  BY <1>1, <1>2
<1>. QED BY <1>2, Inductive, SoloInductive, PTL DEF Spec, SoloUndisturbed

=============================================================================
