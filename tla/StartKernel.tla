---------------------------- MODULE StartKernel ----------------------------
(***************************************************************************)
(* What start-kernel.sh does with its command line: the shell variables it *)
(* sets, the ones it leaves alone, the command line it hands on to its own *)
(* copies in the two tmux panes, and the QEMU and debugger commands that   *)
(* come out.                                                               *)
(*                                                                         *)
(* The script runs in the user's shell when it is sourced and in a child   *)
(* when it is executed; tmux gives each pane a fresh shell.  Processes,    *)
(* ports and the life of the tmux session are in module LightboxHost.      *)
(*                                                                         *)
(* A value is a sequence of words, with blanks between them.  A word has   *)
(* no quote and no ; & | < > ( ) $ * ? and so on: it is read again by bash *)
(* -c (lines 178-183) and by the shells of the panes (lines 192 and 195),  *)
(* which would act on them.                                                *)
(***************************************************************************)
EXTENDS Naturals, SequencesExt

CONSTANTS
    Requests,       \* the command lines users type, sequences of arguments
    Modes,          \* "sourced" (source start-kernel.sh), "executed" (./start-kernel.sh)
    DefaultTerminal,\* "tmux" where tmux is installed, "gnome" elsewhere
    Texts,          \* what a word may be
    TmuxTexts,      \* the words in which "tmux" occurs, "tmux" itself included
    Directories,    \* the kernel directories that exist, as values of --kernel
    AndroidTrees,   \* those with a subdirectory "common"
    Qcow2,          \* the words that end in ".qcow2"
    MaxLaunches     \* bound on the launches of one behaviour

Shells == {"user", "child", "left", "right"}
Panes == {"left", "right"}

\* A word, with the text that replaced the first "tmux" in it, if any did.
Plain(text) == [text |-> text, put |-> ""]

\* An argument --opt=val: opt is the variable the case statement of lines
\* 17-62 assigns, or "bad" when no pattern matches; val is the value as words.
Arg(opt, val) == [opt |-> opt, val |-> val]

\* The shell variables that the options set, by their names in the script.
Reset == {"KERNEL", "INITRD", "CMDLINE", "DEBUGGER", "SHARE_FOLDER",
          "QEMU_EXTRA_PARAM", "TERMINAL"}
Kept == {"ROOTFS", "DTB", "QEMU_DIR"}

\* A value given to no option; "unset" and "empty" are alike to the script.
Empty == <<>>
Default(v) ==
    CASE v = "INITRD"       -> <<Plain("initrd_aarch64.cpio.gz")>>
      [] v = "SHARE_FOLDER" -> <<Plain("host-share")>>
      [] v = "DEBUGGER"     -> <<Plain("gdb")>>
      [] v = "TERMINAL"     -> <<Plain(DefaultTerminal)>>
      [] OTHER              -> Empty

\* An argument as some shell sees it, and as the user typed it.
Option == Reset \cup Kept \cup {"bad"}
Word == [text : Texts, put : {"", "cli-qemu", "cli-gdb"}]
Argument == [opt : Option, val : Seq(Word)]
TypedArgument == [opt : Option, val : Seq([text : Texts, put : {""}])]

ASSUME StartKernelAssumption ==
    /\ MaxLaunches \in Nat
    /\ Modes \subseteq {"sourced", "executed"}
    /\ DefaultTerminal \in {"tmux", "gnome"}
    /\ {"initrd_aarch64.cpio.gz", "host-share", "gdb", DefaultTerminal, "cli-qemu", "cli-gdb",
        "qemu/bin"} \subseteq Texts
    /\ "tmux" \in TmuxTexts
    /\ \A r \in Requests : r \in Seq(TypedArgument)
    /\ Empty \notin Directories /\ AndroidTrees \subseteq Directories
    \* no directory has the name that line 192 or 195 makes of another one's
    /\ \A d \in Directories : \A j \in DOMAIN d :
         d[j].put = "" /\ d[j].text \notin {"cli-qemu", "cli-gdb"}

VARIABLES
    env,        \* per shell: the variables above
    pc,         \* per shell: where its run of the script is
    todo,       \* per shell: the arguments the for loop of line 16 has left
    mode,       \* of the launch
    request,    \* the arguments of the launch
    refused,    \* the shells that printed an error message for the launch
    ran,        \* per shell: the QEMU command it ran, as a set of at most one
    debugged,   \* per shell: the debugger command it ran, likewise
    cleaned,    \* the shells that ran lines 238-239
    launches    \* number of launches so far

vars == <<env, pc, todo, mode, request, refused, ran, debugged, cleaned, launches>>

Labels == {"idle", "parse", "check", "configure", "run", "attached", "debug", "cleanup"}

\* The types of the variables.
TypeOK ==
    /\ pc \in [Shells -> Labels]
    /\ env \in [Shells -> [Reset \cup Kept -> Seq(Word)]]
    /\ todo \in [Shells -> Seq(Argument)]
    /\ mode \in {"sourced", "executed"}
    /\ request \in Seq(TypedArgument)
    /\ refused \subseteq Shells /\ cleaned \subseteq Shells
    /\ DOMAIN ran = Shells /\ DOMAIN debugged = Shells
    /\ launches \in 0..MaxLaunches

Fresh == [v \in Reset \cup Kept |-> Empty]

Init ==
    /\ env = [s \in Shells |-> Fresh]
    /\ pc = [s \in Shells |-> "idle"]
    /\ todo = [s \in Shells |-> <<>>]
    /\ mode = "sourced"
    /\ request = <<>>
    /\ refused = {}
    /\ ran = [s \in Shells |-> {}]
    /\ debugged = [s \in Shells |-> {}]
    /\ cleaned = {}
    /\ launches = 0

-----------------------------------------------------------------------------
(***************************************************************************)
(* The command line handed to the panes (lines 14, 192 and 195).           *)
(***************************************************************************)

\* PARAMS="$@" joins the arguments with blanks and the pane's shell splits the
\* line again at every blank: of a value of several words, all but the first
\* become arguments of their own that match no pattern.
Split(arg) ==
    IF arg.val = Empty THEN <<arg>>
    ELSE [j \in DOMAIN arg.val |-> Arg(IF j = 1 THEN arg.opt ELSE "bad", <<arg.val[j]>>)]

Resplit(args) == FlattenSeq([i \in DOMAIN args |-> Split(args[i])])

HasTmux(arg) == arg.val # Empty /\ arg.val[1].text \in TmuxTexts /\ arg.val[1].put = ""

FirstTmux(args) == SelectInSeq(args, HasTmux)

\* ${PARAMS/tmux/new}: the first occurrence, wherever it is.
Substitute(args, new) ==
    LET put(word) == IF word.text = "tmux" THEN Plain(new) ELSE [text |-> word.text, put |-> new]
    IN  [i \in DOMAIN args |->
            IF i = FirstTmux(args) THEN Arg(args[i].opt, <<put(args[i].val[1])>>) ELSE args[i]]

\* Fault: the name that line 195 passes is not the one of line 185.
CliTerminalMisspelt(pane) == IF pane = "left" THEN "cli-qemu" ELSE "cli-debugger"

CliTerminal(pane) == IF pane = "left" THEN "cli-qemu" ELSE "cli-gdb"

\* Fault: the panes get the launcher's arguments and no --terminal of their own.
PaneArgsNoTerminal(args, pane) == Substitute(Resplit(args), CliTerminal(pane))

PaneArgs(args, pane) ==
    Append(Substitute(Resplit(args), CliTerminal(pane)),
           Arg("TERMINAL", <<Plain(CliTerminal(pane))>>))

-----------------------------------------------------------------------------
(***************************************************************************)
(* The commands (lines 75-175 and 204-233), from the variables e.          *)
(***************************************************************************)

\* [ $TERMINAL == ... ] with no word or with several is an error, so false.
Single(val) == IF Len(val) = 1 /\ val[1].put = "" THEN val[1].text ELSE "none"

Terminal(e) == Single(e["TERMINAL"])

\* Line 81, cd ${KERNEL}: without a word it goes home, where it fails it stays.
KernelDir(e) ==
    CASE e["KERNEL"] = Empty                               -> <<Plain("HOME")>>
      [] Len(e["KERNEL"]) = 1 /\ e["KERNEL"] \in Directories -> e["KERNEL"]
      [] OTHER                                             -> <<Plain("PWD")>>

KernelType(e) == IF e["KERNEL"] \in AndroidTrees THEN "android" ELSE "linux"

\* Fault: only the debugger's side knows the fixed port.
DebugPortGdbOnly(e) == IF Terminal(e) = "cli-gdb" THEN "12880" ELSE "random"

\* Lines 152-156: fixed for cli* ("cli" is any other such word), else drawn.
DebugPort(e) ==
    IF e["TERMINAL"] # Empty /\ e["TERMINAL"][1].text \in {"cli-qemu", "cli-gdb", "cli"}
      THEN "12880" ELSE "random"

\* $(realpath ${V}), unquoted, prints a line for every word of V.  The bash -c of
\* lines 178-183 ends QEMU's command line there, after the first word, and runs
\* the rest as commands of their own.  Which path ends it: the image's (lines 122
\* and 134), the shared folder's (line 150), none.
ImagePath(e) == IF e["ROOTFS"] # Empty THEN e["ROOTFS"] ELSE e["INITRD"]

Cut(e) ==
    CASE Len(ImagePath(e)) > 1      -> "image"
      [] Len(e["SHARE_FOLDER"]) > 1 -> "share"
      [] OTHER                      -> "none"

FirstWord(val) == IF val = Empty THEN Empty ELSE <<Head(val)>>

\* root= is in the -append, which is behind both paths.
Boot(e) ==
    [from |-> IF e["ROOTFS"] # Empty THEN "rootfs" ELSE "initrd",
     image |-> FirstWord(ImagePath(e)),
     device |-> IF e["ROOTFS"] = Empty \/ Cut(e) # "none" THEN "none"
                ELSE IF Last(e["ROOTFS"]).text \in Qcow2 THEN "vda1" ELSE "vda"]

\* Without an image -initrd takes the "-fsdev" that follows for its file.
Share(e) == IF Cut(e) = "image" \/ ImagePath(e) = Empty THEN Empty ELSE FirstWord(e["SHARE_FOLDER"])

\* Line 166 expands DTB_PRAM, which nothing sets, so no -dtb is ever passed.  The
\* extra parameters are words of the line, the kernel's command line is quoted.
QemuCmd(e) ==
    LET behind(x, none) == IF Cut(e) = "none" THEN x ELSE none
    IN  [kernel |-> KernelDir(e), type |-> KernelType(e), dtb |-> Empty, boot |-> Boot(e),
         share |-> Share(e), extra |-> behind(e["QEMU_EXTRA_PARAM"], Empty),
         append |-> behind(e["CMDLINE"], Empty), port |-> behind(DebugPort(e), "none"),
         bin |-> e["QEMU_DIR"], cut |-> Cut(e)]

DebugCmd(e) ==
    [program |-> Single(e["DEBUGGER"]), kernel |-> KernelDir(e),
     type |-> KernelType(e), port |-> DebugPort(e)]

-----------------------------------------------------------------------------
(***************************************************************************)
(* Actions.                                                                *)
(***************************************************************************)

\* "return 0" ends a sourced run; bash refuses it in an executed one.
Return(s, label) == IF s = "child" THEN label ELSE "idle"

GoTo(s, label) == pc' = [pc EXCEPT ![s] = label]

\* Fault: line 3 is missing.
DefaultsKeepCmdline(e) ==
    [v \in Reset \cup Kept |-> IF v \in Reset \ {"CMDLINE"} THEN Default(v) ELSE e[v]]

\* Lines 1-14: what a run that starts in shell s finds in its variables.
Defaults(e) == [v \in Reset \cup Kept |-> IF v \in Reset THEN Default(v) ELSE e[v]]

Invoke(args, m) ==
    LET s == IF m = "sourced" THEN "user" ELSE "child"
    IN  /\ \A t \in Shells : pc[t] = "idle"
        /\ launches < MaxLaunches
        /\ GoTo(s, "parse")
        /\ todo' = [todo EXCEPT ![s] = args]
        /\ env' = [env EXCEPT ![s] = Defaults(IF s = "user" THEN @ ELSE Fresh)]
        /\ mode' = m
        /\ request' = args
        /\ refused' = {}
        /\ ran' = [t \in Shells |-> {}]
        /\ debugged' = [t \in Shells |-> {}]
        /\ cleaned' = {}
        /\ launches' = launches + 1

\* One iteration of the loop of lines 16-63.
ParseArg(s) ==
    /\ pc[s] = "parse" /\ todo[s] # <<>> /\ Head(todo[s]).opt # "bad"
    /\ env' = [env EXCEPT ![s][Head(todo[s]).opt] = Head(todo[s]).val]
    /\ todo' = [todo EXCEPT ![s] = Tail(@)]
    /\ UNCHANGED <<pc, mode, request, refused, ran, debugged, cleaned, launches>>

\* Fault: line 60 is missing.
BadArgGoesOn(s) ==
    /\ pc[s] = "parse" /\ todo[s] # <<>> /\ Head(todo[s]).opt = "bad"
    /\ todo' = [todo EXCEPT ![s] = Tail(@)]
    /\ refused' = refused \cup {s}
    /\ UNCHANGED <<pc, env, mode, request, ran, debugged, cleaned, launches>>

BadArg(s) ==
    /\ pc[s] = "parse" /\ todo[s] # <<>> /\ Head(todo[s]).opt = "bad"
    /\ GoTo(s, Return(s, "parse"))
    /\ todo' = [todo EXCEPT ![s] = Tail(@)]
    /\ refused' = refused \cup {s}
    /\ UNCHANGED <<env, mode, request, ran, debugged, cleaned, launches>>

EndOfArgs(s) ==
    /\ pc[s] = "parse" /\ todo[s] = <<>>
    /\ GoTo(s, "check")
    /\ UNCHANGED <<env, todo, mode, request, refused, ran, debugged, cleaned, launches>>

\* Lines 65-73: no kernel, or not a directory.
CheckKernel(s) ==
    /\ pc[s] = "check"
    /\ IF env[s]["KERNEL"] \in Directories
         THEN GoTo(s, "configure") /\ UNCHANGED refused
         ELSE GoTo(s, Return(s, "configure")) /\ refused' = refused \cup {s}
    /\ UNCHANGED <<env, todo, mode, request, ran, debugged, cleaned, launches>>

\* Lines 75-175.  Of the variables that a later run finds again, only QEMU_DIR
\* is assigned.
Configure(s) ==
    /\ pc[s] = "configure"
    /\ env' = [env EXCEPT ![s]["QEMU_DIR"] = IF @ = Empty THEN <<Plain("qemu/bin")>> ELSE @]
    /\ GoTo(s, "run")
    /\ UNCHANGED <<todo, mode, request, refused, ran, debugged, cleaned, launches>>

\* Line 107: of a QEMU_DIR of several words the first is run, and that is no QEMU.
RunQemu(s) ==
    ran' = [ran EXCEPT ![s] = IF Len(env[s]["QEMU_DIR"]) = 1 THEN {QemuCmd(env[s])} ELSE {}]

RunWindow(s) ==
    /\ pc[s] = "run" /\ Terminal(env[s]) \in {"gnome", "xfce4"}
    /\ RunQemu(s)
    /\ GoTo(s, "debug")
    /\ UNCHANGED <<env, todo, mode, request, refused, debugged, cleaned, launches>>

\* "exit" ends the shell, even the user's: the next launch is from a new one.
RunCliQemu(s) ==
    /\ pc[s] = "run" /\ Terminal(env[s]) = "cli-qemu"
    /\ RunQemu(s)
    /\ env' = [env EXCEPT ![s] = Fresh]
    /\ GoTo(s, "idle")
    /\ UNCHANGED <<todo, mode, request, refused, debugged, cleaned, launches>>

RunCliGdb(s) ==
    /\ pc[s] = "run" /\ Terminal(env[s]) = "cli-gdb"
    /\ GoTo(s, "debug")
    /\ UNCHANGED <<env, todo, mode, request, refused, ran, debugged, cleaned, launches>>

\* Lines 188-196: a fresh shell per pane, and the script sourced in each.  A copy in
\* a pane never gets here (PaneRoles): line 189 would end its own session.
RunTmux(s) ==
    /\ pc[s] = "run" /\ Terminal(env[s]) = "tmux"
    /\ pc' = [t \in Shells |-> IF t \in Panes THEN "parse"
                               ELSE IF t = s THEN "attached" ELSE pc[t]]
    /\ todo' = [t \in Shells |-> IF t \in Panes THEN PaneArgs(request, t) ELSE todo[t]]
    /\ env' = [t \in Shells |-> IF t \in Panes THEN Defaults(Fresh) ELSE env[t]]
    /\ UNCHANGED <<mode, request, refused, ran, debugged, cleaned, launches>>

KillPanes(s, label) ==
    pc' = [t \in Shells |-> IF t = s THEN label ELSE IF t \in Panes THEN "idle" ELSE pc[t]]

\* Fault: line 197 is missing.
TmuxEndsKeepsPanes(s) ==
    /\ pc[s] = "attached"
    /\ GoTo(s, Return(s, "debug"))
    /\ UNCHANGED <<env, todo, mode, request, refused, ran, debugged, cleaned, launches>>

\* Lines 196-198: the user detaches, or the session is over.
TmuxEnds(s) ==
    /\ pc[s] = "attached"
    /\ KillPanes(s, Return(s, "debug"))
    /\ UNCHANGED <<env, todo, mode, request, refused, ran, debugged, cleaned, launches>>

RunBadTerminal(s) ==
    /\ pc[s] = "run"
    /\ Terminal(env[s]) \notin {"gnome", "xfce4", "cli-qemu", "cli-gdb", "tmux"}
    /\ GoTo(s, Return(s, "debug"))
    /\ refused' = refused \cup {s}
    /\ UNCHANGED <<env, todo, mode, request, ran, debugged, cleaned, launches>>

\* Lines 204-236; a debugger that is neither gdb nor ddd is passed over.
Debug(s) ==
    /\ pc[s] = "debug"
    /\ debugged' = [debugged EXCEPT ![s] = {DebugCmd(env[s])}]
    /\ GoTo(s, "cleanup")
    /\ UNCHANGED <<env, todo, mode, request, refused, ran, cleaned, launches>>

Cleanup(s) ==
    /\ pc[s] = "cleanup"
    /\ KillPanes(s, "idle")
    /\ cleaned' = cleaned \cup {s}
    /\ UNCHANGED <<env, todo, mode, request, refused, ran, debugged, launches>>

Step(s) ==
    \/ ParseArg(s) \/ BadArg(s) \/ EndOfArgs(s) \/ CheckKernel(s) \/ Configure(s)
    \/ RunWindow(s) \/ RunCliQemu(s) \/ RunCliGdb(s) \/ RunTmux(s) \/ TmuxEnds(s)
    \/ RunBadTerminal(s) \/ Debug(s) \/ Cleanup(s)

Next ==
    \/ \E args \in Requests, m \in Modes : Invoke(args, m)
    \/ \E s \in Shells : Step(s)

Spec == Init /\ [][Next]_vars

-----------------------------------------------------------------------------
(***************************************************************************)
(* What the user asked for: the last value of each option, or its default. *)
(***************************************************************************)

\* The value of option v after the first n of the arguments args.
ValueAfter(args, n, v) ==
    LET I == {i \in 1..n : args[i].opt = v}
    IN  IF I = {} THEN Default(v) ELSE args[Max(I)].val

FinalEnv(args) == [v \in Reset \cup Kept |-> ValueAfter(args, Len(args), v)]

Asked(v) == FinalEnv(request)[v]

\* No value but that of --terminal has "tmux" in it.
TmuxOnlyInTerminal ==
    \A i \in DOMAIN request : request[i].opt # "TERMINAL" =>
        \A j \in DOMAIN request[i].val : request[i].val[j].text \notin TmuxTexts

\* args are options of the script, and --kernel names a directory (lines 58-73).
Accepts(args) ==
    /\ \A i \in DOMAIN args : args[i].opt # "bad"
    /\ FinalEnv(args)["KERNEL"] \in Directories

\* Every path that args ask for is a single word, without a blank.
WordPaths(args) ==
    LET e == FinalEnv(args)
    IN  /\ \A v \in {"KERNEL", "INITRD", "SHARE_FOLDER"} : Len(e[v]) = 1
        /\ Len(e["ROOTFS"]) <= 1

\* The QEMU command c boots the very directory that args name, as the kind of tree
\* that it is, from the rootfs asked for, or from the initrd asked for unless a
\* rootfs of an earlier launch is in its way (InitrdHonoured below); it is run
\* from the directory asked for and has the shared folder, the extra parameters
\* and the kernel command line asked for, which only a rootfs of an earlier launch
\* with a blank in its name cuts off.
Fits(c, args) ==
    LET e == FinalEnv(args)
        stale == e["ROOTFS"] = Empty /\ c.boot.from = "rootfs"
    IN  /\ c.kernel = e["KERNEL"]
        /\ c.type = "android" <=> e["KERNEL"] \in AndroidTrees
        /\ e["QEMU_DIR"] # Empty => c.bin = e["QEMU_DIR"]
        /\ e["ROOTFS"] # Empty =>
             /\ c.boot.from = "rootfs" /\ c.boot.image = e["ROOTFS"]
             /\ c.boot.device = IF e["ROOTFS"][1].text \in Qcow2 THEN "vda1" ELSE "vda"
        /\ c.boot.from = "initrd" => c.boot.image = e["INITRD"]
        /\ \/ stale /\ c.cut = "image"
           \/ /\ c.share = e["SHARE_FOLDER"]
              /\ c.extra = e["QEMU_EXTRA_PARAM"]
              /\ c.append = e["CMDLINE"]

\* Where lines 58-73 find nothing wrong with the arguments and no path in them has
\* a blank, every QEMU that is run - at once or by a copy of the script in a pane,
\* after whatever launches in the same shell - is the one asked for.
QemuAsAsked ==
    TmuxOnlyInTerminal /\ Accepts(request) /\ WordPaths(request)
        => \A s \in Shells : \A c \in ran[s] : Fits(c, request)

\* The left pane runs QEMU and the right pane the debugger, never the other way
\* round, and neither opens a tmux session of its own - although both get the
\* launcher's --terminal, and a substitution that may hit another argument.
PaneRoles ==
    /\ debugged["left"] = {} /\ ran["right"] = {}
    /\ \A p \in Panes : pc[p] = "run" => Terminal(env[p]) = CliTerminal(p)

\* The debugger in the right pane loads the symbols of the kernel that the left
\* pane boots and connects to its port; and where one pane refuses its arguments
\* the other does not go on alone.
PanesAgree ==
    /\ \A c \in ran["left"], d \in debugged["right"] :
         c.kernel = d.kernel /\ c.type = d.type /\ c.port = d.port
    /\ "left" \in refused => debugged["right"] = {}
    /\ "right" \in refused => ran["left"] = {}

\* A sourced launch that printed an error message (lines 59, 66, 71 and 200)
\* runs no QEMU and no debugger, and above all stops nobody else's.
SourcedErrorIsHarmless ==
    "user" \in refused =>
        \A s \in Shells : ran[s] = {} /\ debugged[s] = {} /\ s \notin cleaned

\* The panes accept what the launcher accepted, although its arguments are joined,
\* substituted and split again on their way (lines 14, 192 and 195), as long as
\* every value is a single word - of plain characters: a ";" or "&" in one would
\* be read by the pane's shell.
SingleWordsReachPanes ==
    /\ TmuxOnlyInTerminal
    /\ \A i \in DOMAIN request : Len(request[i].val) <= 1
    /\ {"user", "child"} \cap refused = {}
    => Panes \cap refused = {}

-----------------------------------------------------------------------------
(***************************************************************************)
(* The invariant of the proofs.                                            *)
(***************************************************************************)

\* The shell of the launch itself, and the arguments that a shell's run got.
Launcher == IF mode = "sourced" THEN "user" ELSE "child"
Given(s) == IF s \in Panes THEN PaneArgs(request, s) ELSE request

\* One launch at a time; its copies run while it is in line 196, and nothing has
\* happened to the world before it gets there.
OneLaunch ==
    /\ \A s \in {"user", "child"} \ {Launcher} : pc[s] = "idle" /\ s \notin refused
    /\ \A p \in Panes : pc[p] # "idle" => pc[Launcher] = "attached"
    /\ pc[Launcher] \in {"parse", "check", "configure", "run"} =>
         /\ \A s \in Shells : ran[s] = {} /\ debugged[s] = {}
         /\ cleaned = {} /\ Panes \cap refused = {}

\* A run has read a first part of its arguments, and its variables have the values
\* that these gave them - ROOTFS, which lines 1-12 leave alone, where they gave it one
\* or the shell is a pane's; but for an error message, none of them was bad.
HasRead(s) ==
    LET args == Given(s)
        n == Len(args) - Len(todo[s])
    IN  /\ n \in Nat
        /\ pc[s] # "parse" => todo[s] = <<>>
        /\ \A i \in 1..Len(todo[s]) : todo[s][i] = args[n + i]
        /\ \A v \in Reset : env[s][v] = ValueAfter(args, n, v)
        /\ \A v \in {"ROOTFS", "QEMU_DIR"} :
             ValueAfter(args, n, v) # Empty => env[s][v] = ValueAfter(args, n, v)
        /\ s \in Panes => env[s]["ROOTFS"] = ValueAfter(args, n, "ROOTFS")
        /\ s \notin refused => \A i \in 1..n : args[i].opt # "bad"

ArgsRead == \A s \in Shells : pc[s] # "idle" => HasRead(s)

\* Only an executed launch goes on after an error message.
Refusals ==
    /\ \A s \in Shells : pc[s] \in Labels \ {"idle", "parse", "check"} /\ s \notin refused
         => env[s]["KERNEL"] \in Directories
    /\ "user" \in refused => \A s \in Shells : pc[s] = "idle" /\ ran[s] = {} /\ debugged[s] = {}
                                              /\ s \notin cleaned
    /\ \A p \in Panes \cap refused : pc[p] = "idle" /\ ~Accepts(Given(p))
    /\ Panes \cap refused # {} /\ {"user", "child"} \cap refused = {} => Accepts(request)

\* The QEMU command c is one that args make.
MadeFrom(c, args) ==
    /\ c.kernel = KernelDir(FinalEnv(args)) /\ c.type = KernelType(FinalEnv(args))
    /\ Accepts(args) /\ WordPaths(args) => Fits(c, args)

\* The commands that were run are those of the arguments of their shell; the panes
\* play their roles, with arguments that they accept.
Commands ==
    /\ \A s \in Shells : \A c \in ran[s] : MadeFrom(c, Given(s))
    /\ \A c \in ran["left"] : c.port = "12880" /\ Accepts(Given("left"))
    /\ \A d \in debugged["right"] :
         /\ d.kernel = KernelDir(FinalEnv(Given("right")))
         /\ d.type = KernelType(FinalEnv(Given("right")))
         /\ d.port = "12880" /\ Accepts(Given("right"))
    /\ debugged["left"] = {} /\ ran["right"] = {}
    /\ pc["left"] \notin {"attached", "debug", "cleanup"} /\ pc["right"] # "attached"

\* The inductive invariant.
IInv == TypeOK /\ OneLaunch /\ ArgsRead /\ Refusals /\ Commands

-----------------------------------------------------------------------------
(***************************************************************************)
(* What the documentation says and the script does not do.                 *)
(***************************************************************************)

\* README.md:125 and :147, "--dtb=<kernel dtb>  # kernel dtb path": QEMU gets
\* the device tree that was asked for (lines 140-147 and 166).
DtbHonoured ==
    \A s \in Shells : \A c \in ran[s] : c.dtb = Asked("DTB")

\* scripts/debian-rootfs/README.md:31, "source start-kernel.sh --kernel=...
\* --initrd=...": without --rootfs the kernel boots from the initrd (line 121).
InitrdHonoured ==
    \A s \in Shells : \A c \in ran[s] :
        Asked("ROOTFS") = Empty => c.boot.from = "initrd" /\ c.boot.image = Asked("INITRD")

=============================================================================
