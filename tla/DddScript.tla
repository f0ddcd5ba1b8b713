----------------------------- MODULE DddScript -----------------------------
(***************************************************************************)
(* The file ddd.script (lines 218-235 of start-kernel.sh).                 *)
(*                                                                         *)
(* A launch with --with=ddd writes the debugger's commands one by one to   *)
(* ./ddd.script and has ddd read them from there.  The file has the same   *)
(* name for every launch from one directory, and a launch whose terminal   *)
(* goes away leaves it behind as it is.                                    *)
(***************************************************************************)
EXTENDS Naturals, Sequences

CONSTANTS
    Launches,       \* launches with --with=ddd
    Dirs,           \* the directories they are started from
    NumCommands     \* lines 225-231 append this many commands

ASSUME DddAssumption == NumCommands \in Nat \ {0} /\ Dirs # {}

VARIABLES
    pc,         \* per launch
    dir,        \* per launch: its working directory
    written,    \* per launch: how many of its commands it has appended
    read,       \* per launch: the commands its ddd read
    exists,     \* the directories with a ddd.script
    script,     \* per directory: the contents of ddd.script
    overlapped  \* history: launches that shared a directory with another one

vars == <<pc, dir, written, read, exists, script, overlapped>>

Labels == {"unstarted", "remove", "touch", "write", "ddd", "cleanup", "done", "gone"}

\* The n-th command of launch l: its kernel and port are those of l.
Command(l, n) == <<l, n>>
Commands == Launches \X (1..NumCommands)

UnderWay(l) == pc[l] \notin {"unstarted", "done", "gone"}

\* The first n commands of l, in the order of the script.
FirstCommands(l, n) == [i \in 1..n |-> Command(l, i)]

\* The types of the variables: every line of a ddd.script is a command of some
\* launch (lines 225-231).
TypeOK ==
    /\ pc \in [Launches -> Labels]
    /\ dir \in [Launches -> Dirs]
    /\ written \in [Launches -> 0..NumCommands]
    /\ read \in [Launches -> Seq(Commands)]
    /\ exists \subseteq Dirs
    /\ script \in [Dirs -> Seq(Commands)]
    /\ overlapped \subseteq Launches

Init ==
    /\ pc = [l \in Launches |-> "unstarted"]
    /\ dir \in [Launches -> Dirs]
    /\ written = [l \in Launches |-> 0]
    /\ read = [l \in Launches |-> <<>>]
    /\ exists = {}
    /\ script = [d \in Dirs |-> <<>>]
    /\ overlapped = {}

-----------------------------------------------------------------------------
GoTo(l, from, to) == pc[l] = from /\ pc' = [pc EXCEPT ![l] = to]

\* rm -f: whoever wrote the file.
Remove(d) ==
    /\ exists' = exists \ {d}
    /\ script' = [script EXCEPT ![d] = <<>>]

Start(l) ==
    /\ GoTo(l, "unstarted", "remove")
    /\ overlapped' =
         LET others == {m \in Launches : UnderWay(m) /\ dir[m] = dir[l]}
         IN  overlapped \cup others \cup {m \in {l} : others # {}}
    /\ UNCHANGED <<dir, written, read, exists, script>>

\* Fault: line 222 is missing.
KeepOld(l) ==
    /\ GoTo(l, "remove", "touch")
    /\ UNCHANGED <<dir, written, read, exists, script, overlapped>>

\* Lines 220-222.
RemoveOld(l) ==
    /\ GoTo(l, "remove", "touch")
    /\ Remove(dir[l])
    /\ UNCHANGED <<dir, written, read, overlapped>>

\* Line 223.
Touch(l) ==
    /\ GoTo(l, "touch", "write")
    /\ exists' = exists \cup {dir[l]}
    /\ UNCHANGED <<dir, written, read, script, overlapped>>

\* One of lines 225-231; ">>" creates the file where it is missing.
AppendCommand(l) ==
    /\ pc[l] = "write" /\ written[l] < NumCommands
    /\ written' = [written EXCEPT ![l] = @ + 1]
    /\ exists' = exists \cup {dir[l]}
    /\ script' = [script EXCEPT ![dir[l]] = Append(@, Command(l, written[l] + 1))]
    /\ UNCHANGED <<pc, dir, read, overlapped>>

\* Line 233: ddd passes the file to gdb, which reads what is there by then.
DddReads(l) ==
    /\ written[l] = NumCommands
    /\ GoTo(l, "write", "ddd")
    /\ read' = [read EXCEPT ![l] = script[dir[l]]]
    /\ UNCHANGED <<dir, written, exists, script, overlapped>>

UserQuitsDdd(l) ==
    /\ GoTo(l, "ddd", "cleanup")
    /\ UNCHANGED <<dir, written, read, exists, script, overlapped>>

\* Fault: line 235 is missing.
LeaveScript(l) ==
    /\ GoTo(l, "cleanup", "done")
    /\ UNCHANGED <<dir, written, read, exists, script, overlapped>>

\* Line 235.
RemoveScript(l) ==
    /\ GoTo(l, "cleanup", "done")
    /\ Remove(dir[l])
    /\ UNCHANGED <<dir, written, read, overlapped>>

\* The launch's terminal goes away: nothing of lines 233-235 runs any more.
UserHangsUp(l) ==
    /\ UnderWay(l)
    /\ pc' = [pc EXCEPT ![l] = "gone"]
    /\ UNCHANGED <<dir, written, read, exists, script, overlapped>>

Next ==
    \E l \in Launches :
        \/ Start(l) \/ RemoveOld(l) \/ Touch(l) \/ AppendCommand(l) \/ DddReads(l)
        \/ UserQuitsDdd(l) \/ RemoveScript(l) \/ UserHangsUp(l)

Spec == Init /\ [][Next]_vars

-----------------------------------------------------------------------------
\* The ddd of a launch that shared its directory with no other launch under way
\* reads exactly that launch's commands, whatever hung-up launches had left.
SoloReadsOwn ==
    \A l \in Launches \ overlapped :
        pc[l] \in {"ddd", "cleanup", "done"} => read[l] = FirstCommands(l, NumCommands)

\* However launches interleave, one that ended as it should has no command left
\* in any ddd.script, for a later launch's ddd to run.
NothingLeftBehind ==
    \A d \in Dirs : \A i \in DOMAIN script[d] : pc[script[d][i][1]] # "done"

-----------------------------------------------------------------------------
\* A launch that overlaps no other is the only one under way in its directory,
SoloHasDirectory ==
    \A l, m \in Launches :
        l \notin overlapped /\ l # m /\ UnderWay(l) /\ UnderWay(m) => dir[l] # dir[m]

\* nobody counts commands before line 225,
NotYetWritten ==
    \A l \in Launches : pc[l] \in {"unstarted", "remove", "touch"} => written[l] = 0

\* what it has written so far is all there is,
SoloScript ==
    \A l \in Launches \ overlapped :
        pc[l] \in {"touch", "write"} => script[dir[l]] = FirstCommands(l, written[l])

\* and a command is only ever in the file of its launch's directory.
OwnDirectory ==
    \A d \in Dirs : \A i \in DOMAIN script[d] : dir[script[d][i][1]] = d

\* The inductive invariant behind SoloReadsOwn and NothingLeftBehind.
IInv ==
    /\ TypeOK
    /\ SoloHasDirectory
    /\ NotYetWritten
    /\ SoloScript
    /\ OwnDirectory
    /\ SoloReadsOwn
    /\ NothingLeftBehind

=============================================================================
