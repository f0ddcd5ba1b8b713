# Lightbox: a verification project

Lightbox boots a Linux or Android kernel in QEMU under a debugger. The code of its own is a launcher
(`start-kernel.sh`), a VSCode extension with a Run and a Debug button, and scripts for two more targets
and for root file systems. All of it is glue between processes: most of what can go wrong is in the order
in which QEMU, gdb, tmux, VSCode and the user do things, and in what one run leaves to the next.

`PROJECT.json` lists the components, runs, mutants, findings, hazards and theorems, and maps every
definition to the lines it models. Line numbers below are of `src/start-kernel.sh` unless said otherwise.

## Inventory

| Component | State | Operations | Hard parts |
|---|---|---|---|
| Launcher on a host (`start-kernel.sh` 152-239) | processes, TCP port, the tmux session `lightbox`; the script itself keeps nothing | branch on the terminal; set up two panes; attach; run the debugger; `killall` and `kill-session` | concurrent launches share the session, port 12880 and the `killall`; hang-ups leave sessions behind |
| Launcher arguments (1-175, 192, 195) | shell variables, in the user's own shell when sourced | parse, check, build the commands, hand the arguments to the panes | variables that survive a launch; `return` that does not return; joined, substituted and re-split arguments |
| `ddd.script` (218-236) | a file per working directory | remove, touch, append seven times, read by ddd, remove | concurrent launches in a directory; hang-ups |
| VSCode buttons (`extension.ts` 19-50, 114-126) | settings, two context keys | `syncContext` on activation and on every edit | runs overlap at the `await`; messages in both directions |
| VSCode button terminal (52-63, 74-111) | terminal, timer, three listeners, `started` | click, warning, timer, start / end / close events | events of other terminals, missing shell integration, the user closing or switching terminals |
| VSCode command line (27-43, 67-72) | none | expand, quote, join | which texts the shell reads back unchanged; values that look like variables or quotes |
| riscv target (`run.sh`, `run-qemu.sh`, `run-gdb.sh`) | tmux session `qemu-gdb`, QMP socket, port 1234 | set up or attach; QMP quit; `kill-session` | half a session after a failure; runs that both find no session; a QMP command that is refused |
| debian rootfs (`create-rootfs.sh`, `make-qcow2.sh`, `make-initrd.sh`) | directory, mounts, `/dev/nbd0`, `/mnt/rootfs-temp`, image files | build, mount, partition, copy, clean up | any command may fail half-way; reruns after that; builders that share device and mount point |
| x86 target (`run-qemu.sh`, `run-gdb.sh`, `build.sh`) | port 1234 | run, attach | QEMU does not wait for the debugger; the riscv scripts use the same port |
| patches, device tree, prebuilt gdb / qemu / ddd | - | - | data and third-party code |

How they interact: the user or a VSCode button runs the launcher in a terminal. For `--terminal=tmux` the
launcher types its own command line into the two panes of a tmux session, as `cli-qemu` and as `cli-gdb`;
the copies meet at TCP port 12880. Whichever copy ends its debugger stops every QEMU of the user and the
session, by which the launcher gets its terminal back. The rootfs scripts make images that `--rootfs` and
`--initrd` name.

What makes each component correct: the launcher leaves nothing running, gets its own panes and QEMU
whatever earlier launches left, and is not disturbed unless launches overlap; QEMU gets what was asked for,
and the panes agree; ddd runs the commands of its own launch; the buttons come to match the settings; a
button's terminal is closed after a command in it was reported over and for no other reason; a path and its arguments reach
the program unchanged; a riscv session is whole and QEMU goes with its debugger; the rootfs scripts spare the
host's `/proc` and `/sys`, write to the image of their own directory and announce whole images only.

## Modules

| Module | Models | State and actions against the code |
|---|---|---|
| `LightboxHost` | any number of launches on a host | An *instance* is a launch or one of its two copies in panes. `pc` is its line; `qemu`, `panes`, `idle`, `active`, `client` are the processes and the tmux session. One action per command of lines 177-239; `UserX` and `QemuX` are what users and QEMU do in between. |
| `StartKernel` | the command line of a launch | `env` holds the script's variables for the user's shell, an executed child and the two panes. One action per iteration of the option loop, per check, and per branch on `TERMINAL`. `QemuCmd` and `DebugCmd` are the commands that come out. |
| `DddScript` | `ddd.script` | One action per command that touches the file. |
| `ContextSync` | `syncContext` | Settings reach the extension host by the queue `news`, `setContext` calls reach the window by `calls`; `sync` is where each overlapping run is. `Post` is one turn of the loop up to its `await`. |
| `ButtonTerminal` | `runButton` | The window's terminals, the queue of events to the host, and per click the timer, what it `moved`, listeners and `started`. `HostHears` runs the three listeners. |
| `CommandLine` | `expandVars`, `quoteArg` and the typed line (67-72) | Pure operators, checked against `ShellReads`, a reference reader of shell words, and `Asked`, what the settings ask for. `script` and the list `args` are typed symbol by symbol. A variable is one symbol, of a setting or of a folder's name, and what one replace puts in is there for the next; `Pattern` is what `String.replace` makes of `$$` and `$'` in a folder's name. |
| `RiscvTarget` | `scripts/riscv-target`, with the x86 scripts as further users of port 1234 | `run` is the line each `run.sh` is at; `qemu`, `gdb`, `target`, `socket` the programs and the QMP socket; `sess`, `panes`, `idle`, `active`, `clients` the tmux session. One action per tmux command, `Fails` for `set -e` at each, with or without a session; `half` remembers that a run ended while it set up the present session. |
| `ImageFile` | what `make-qcow2.sh` promises | Abstract: an image is given up, built, announced. |
| `RootfsImages` | `create-rootfs.sh`, `make-qcow2.sh`, `make-initrd.sh` | A *builder* is a working directory; `job` is the line its script is at. `tree` and `mounts` are its rootfs directory, `image` and `initrd` its files; `nbd`, `node`, `mnt`, `dir` are shared by all builders. One action per command that changes one of them. `Promise` maps it to `ImageFile`. |
| `*_proofs` | | Theorems about `LightboxHost`, `StartKernel`, `DddScript`, `ContextSync`, `ButtonTerminal`, `CommandLine`, `RiscvTarget` and `RootfsImages`. |
| `MC*` | | Values for constants, symmetry. |

Definitions with a comment that starts "Fault:" are not part of any specification. Each is a plausible bug
in the definition that follows; the mutants of `PROJECT.json` put it in that definition's place, and the
property named there is then violated.

Abstractions. A QEMU process is `spawned` (its terminal is still starting it), `up`, `dying` or `dead`.
gnome and xfce4 are one terminal in `LightboxHost`, gdb and ddd one debugger: they differ in the command
only. The user may have a tmux client of their own, and a launch may be typed in it (`nested`): `split-window`
then splits the user's window and `attach-session` is refused. In `StartKernel` a value is a sequence of words and a
word is one name without characters that a shell acts upon (`;`, `&`, quotes, `$` and so on: lines 178-183,
192 and 195 have shells read the words again); only the places where blanks, the text "tmux", `.qcow2` or the
existence of a directory matter look into it. Where line 122, 134 or 150 passes a path with a blank to `realpath`
unquoted, `bash -c` ends QEMU's command line after the first word, and what is behind is not passed (`Cut`); a
kernel directory with a blank boots that of the working directory (`KernelDir`, line 81). An Android tree has one
`android*` build in `out/` (line 84). Paths made absolute, formatting and messages are left out; that a message
was printed is kept (`refused`). `QemuAsAsked` compares with what was typed, never with what the script
makes of it, and promises nothing for a command line that lines 58-73 refuse, for paths with blanks, or for one
with "tmux" in some other value, which the substitution of lines 192 and 195 may change. All of them are in the runs.
In `RootfsImages` a builder runs one script at a time; a command fails wherever it can, and `busy` and `cut`
remember that an umount failed and that a run was interrupted, so that properties can say exactly what they
excuse. `make-qcow2.sh` writes to `/dev/nbd0`, so its steps change the
image connected there, whosever it is; that this is its own image is a property, not an assumption.

## Runs

| Run | Instance | Shows |
|---|---|---|
| `host` | 2 launches, every terminal, with and without debugger, sourced or executed, inside or outside tmux; 2.1 M states up to symmetry | `TmuxLeavesNothing`: after line 197 none of a launch's copies runs and its QEMU is stopped. `CleanupReaps`: past line 238 the QEMU that was debugged is stopped, whoever had started it. `SoloPanesStart`, `SoloDebugsOwn`, `SoloUndisturbed`: a tmux launch that overlaps no other one gets both panes (unless typed inside tmux), debugs its own QEMU, and nobody else stops it. `IInv` and, on top of it, `SoloInv`: the inductive invariants of the proofs. |
| `host_live` | 2 sourced tmux launches, inside or outside tmux, fairness; 256 k states | `QuitTearsDown`: quitting the debugger ends panes, QEMU and launcher; a launch inside tmux comes to this end by itself. |
| `args` | 67 command lines, two launches, sourced or executed; 2.1 M states | `QemuAsAsked`: of an accepted command line whose paths have no blanks, QEMU gets the directory, image, folder, parameters and kernel command line that were typed, at once or in a pane; `PaneRoles`, `PanesAgree`, `SourcedErrorIsHarmless`; `SingleWordsReachPanes`: the panes accept what the launcher accepted, if every value is one word; `IInv`. |
| `ddd` | 3 launches, 2 directories, 3 commands; 2.8 M states up to symmetry | `SoloReadsOwn`: ddd reads exactly its launch's commands unless launches overlap in the directory. `NothingLeftBehind`. |
| `context` | every initial setting, 3 edits, fairness; 500 k states | `ButtonsMatchSettings`, `NeverBackwards`, `Converges`. |
| `button` | 1 click, 1 terminal of the user's, 2 commands in each, fairness; 457 k states | `NoListenerLeaks`; `DisposesFinishedOnly` and `AutoCloses`: the extension closes a terminal after any command in it that was reported over, and only then; `FloatsFresh`: what floats is the button's terminal if that is open when the timer fires and the user turned to no other, and a terminal of the user's if it is not open yet or closed again; `IInv`. |
| `quote` | all scripts with up to 2 arguments, of 3 symbols together from 6 characters and 3 variables; 6 values for each variable, two of them with variables; 2.5 M states | `PathAndArgArrive`: script and arguments are read back as one word each, in order, expanded once. |
| `targets` | 2 runs of `run.sh`, one pair of x86 scripts, fairness; 495 k states | `WholeSession`: half a session comes only from a run that ended while it set that session up; `QemuGoesWithGdb`, `SocketStays`, `DebugsPresentSession`, `QuitEndsSession`; `IInv`. |
| `rootfs` | 2 builders, 5 scripts between them; 4.6 M states up to symmetry | `ImagesAsPromised` (the refinement), `OwnImageOnly`, `HostSpared`, `NothingMountedLeft`, `MountPointFreed`, and `IInv`, which includes the types. |

Bounds. Two launches are enough for a launch and what an earlier or a concurrent one does to it; the
theorems below remove the bound for the properties they state. One drawn port lets two windows clash; a drawn
port that equals 12880 was checked with `RandomPorts = {12880, 14000}` (6.1 M states, four minutes, the same
verdicts), and is why `SoloDebugsOwn` has an exception. A second click adds nothing to one click and a foreign
terminal: the listeners of a click look at the events of its own terminal only. In `args` the second launch is what finds
variables of the first, and the command lines cover each terminal, errors, repeated and empty options,
values of two words and values with "tmux" in them. `MaxEdits = 3` lets three runs of `syncContext`, and
the one of `activate`, overlap. `MaxRuns = 2` lets a second command run in a terminal after the first. Three
symbols put a quote next to a special or a plain character, two variables next to each other or in two arguments,
and a value next to a character it could combine with; values are up to two symbols themselves. Two runs of `run.sh` are
enough for two that both find no session, and for one after another; the x86 pair adds a QEMU on the port that
no session owns. Five scripts let each of two builders make a tree and an image while one of them does so
again after a failure. Deadlock is not checked: every one of these systems may stop, when nobody starts
another launch, edit, click, command or script.

Three runs show where the code does not do what the documentation says (`findings`):

| Run | What happens |
|---|---|
| `args_dtb` | line 166 expands `DTB_PRAM`; `--dtb` never reaches QEMU |
| `args_stale` | sourced, `--rootfs` of one launch outlives it, and the next launch's `--initrd` is ignored |
| `riscv_qmp` | QEMU refuses the QMP `quit` of `run-gdb.sh`, which its line 2 calls a graceful quit; the `kill-session` stops it |

The models also contain the following, which no run of its own shows; the properties are stated so as to leave
them out:

* an `--append` of two words is split on its way to the panes, and both refuse it (`SingleWordsReachPanes` is
  about single words);
* executed, the `return` of lines 60, 67 and 72 does not end the script, which goes on to start QEMU and to
  the `killall` (`SourcedErrorIsHarmless` is about sourced launches);
* `scripts/vscode/README.md:3` says "in a fresh terminal that is automatically moved into a floating window", but the
  timer moves whichever terminal is active: one of the user's when the fresh one is not open yet, when it is closed
  again (a command that is over within 150 ms, with `autoClose`), or when the user turned to another (`early`, `late`
  and `turned` in `FloatsFresh`, which states this);
* a folder with a later variable in its name, such as `${env:X}`, is expanded again (`VariableInName` in
  `PathAndArgArrive`);
* a path with a blank cuts QEMU's command line, `-S` and `-gdb` included (`WordPaths` in `QemuAsAsked`);
* a `run.sh` that ends while it sets up leaves half a session, to which every later run attaches (`half` in
  `WholeSession`);
* a folder with `$$` or `$'` in its name is not inserted as it is (`PatternInName` in `PathAndArgArrive`);
* a truncated `debian-arm64.cpio.gz` is announced when `find` or `cpio` fails, under `set -e` with the comment
  "Exit on error" (`Pack`; no property is about the archive: one that excuses this would say nothing);
* `create-rootfs.sh` goes on after an `umount` that failed, so that `rm -rf` and `chown -R` then meet the host's
  `/proc` and `/sys` (`busy` in `HostSpared`).

Two more were seen and are outside the models: `run.sh` without a slash is looked up in `PATH`, though
`scripts/vscode/README.md:41` says that relative paths resolve against `cwd`; a raw image with a partition
table, as `README.md:157` names, is booted with `root=/dev/vda`.

## Fairness

`LightboxHost`: the steps of scripts, debuggers and QEMU are weakly fair, as the operating system schedules
them, with one fairness condition per process; nothing a user does is. Hence `QuitTearsDown` starts where the
user has quit the debugger, or where a launch inside tmux begins. `RiscvTarget`: likewise for `run.sh`, the
scripts in the panes, gdb and QEMU.
`ContextSync`: VSCode activates the extension, delivers messages both ways and resumes awaits; edits are not
fair. `ButtonTerminal`: the event loop of the host, the opening of a terminal and the arrival of `dispose`
are fair; commands need not end and users need not act. `RootfsImages` states no fairness: it is about safety.

## Proofs

TLAPS proves, for every value of the constants that satisfies the named assumptions:

* `LightboxHost_proofs`: `TmuxLeavesNothing` and `CleanupReaps`, for any set of launches and ports.
  `TmuxLeavesNothing` is not inductive: line 197 kills what is in the panes, so one has to know that every
  copy under way is in a pane (`PanesHoldCopies`), that a launcher past line 197 will type no copy
  (`CopiesNotYetTyped`), that a left copy is waiting as long as its QEMU is alive (`LeftWaitsForQemu`,
  `NoQemuBeforeLaunch`). `CleanupReaps` needs that a debugger only connected to a QEMU that was up
  (`TargetWasUp`), for the killall misses one that is merely `spawned`. `IdleCounted` is for the type of
  `idle`. Their conjunction, with the types, is `IInv`.
  On top of it `SoloInv` gives `SoloPanesStart`, `SoloDebugsOwn` and the action property `SoloUndisturbed`: of
  the launches that overlap none at most one is under way (`Alone`), the session is its own from line 190 on
  (`SessionIsOwn`), and a QEMU outside tmux has a window
  or is in the foreground of a launch that waits for it (`OwnersOfQemu`), so that line 189 clears away all that
  could be in the way.
* `StartKernel_proofs`: `QemuAsAsked`, `PaneRoles`, `PanesAgree`, `SourcedErrorIsHarmless` and
  `SingleWordsReachPanes`, for all command lines, words, directories and numbers of launches. `IInv` says that each
  run has read a first part of its arguments and has the values these gave (`ArgsRead`), who runs while the
  launch is attached (`OneLaunch`), who may go on after an error message (`Refusals`), and that what was run is the
  command of the shell's whole argument list, and fits it if the list is accepted and its paths have no blanks
  (`Commands`, `MadeFrom`; for that, `ArgsRead` has to know `ROOTFS` too where it is this launch's). What that list is in a pane is decided by lemmas about
  the operators: `FlattenFacts`, `ResplitFacts` (each argument keeps its first word, every further word becomes a
  bad argument), `SubstituteFacts` (one place changes, and its option stays), `PanesAlike` (both panes accept, or
  neither: the substitution is at the same place in both), `AcceptedValues` (a pane that accepts has the
  launcher's values, for a value of several words would have left a bad argument). Inductions over sequences are
  done with sets of naturals: `SetInduction` is about a set that holds 0 and every successor, and needs no operator as a
  parameter. The proof found an assumption that was missing: a directory called `cli-qemu` would be accepted by one
  pane for `--kernel=tmux`, so no directory may have a name that line 192 or 195 makes.
* `DddScript_proofs`: `SoloReadsOwn` and `NothingLeftBehind`, for any launches, directories and number of
  commands. The invariant adds that a launch without overlap is alone in its directory and that the file then
  holds exactly the prefix it has written (`SoloHasDirectory`, `NotYetWritten`, `SoloScript`), and that a
  command is only ever in the file of its launch's directory (`OwnDirectory`).
* `ContextSync_proofs`: `ButtonsMatchSettings` and `NeverBackwards`, for any number of edits. The invariant:
  the last of the news is the present settings; each call belongs to one run that awaits it; the last call
  about Run says what the host knows, and so does the last about Debug unless some run has yet to come to it;
  calls about one button are in the order of the edits they reflect.
* `ButtonTerminal_proofs`: `NoListenerLeaks`, `DisposesFinishedOnly` and `FloatsFresh`, for any clicks, terminals
  of the user's and numbers of commands. The invariant accounts for the reports on their way: a click has listeners
  as long as its terminal is not closed or the report of that is still to come, and without them its terminal is
  closed or being closed (`ListenersKnown`); a report of an end is about a command that has ended (`EndsKnown`); the
  report of a start is ahead of that of its end (`StartsKnown`); a terminal that opened is the active one until the
  user turns to another or it closes (`FreshKnown`), so what a timer moves is known from when it fired. `AutoCloseUnderWay`, that a terminal whose command ended is closed, being
  closed, or has the report of the end coming, is the safety half of `AutoCloses`.
* `CommandLine_proofs`: `PathAndArgArrive`, for settings of every length, any number of arguments and all values of
  the variables. It is a
  statement about the operators, by induction over texts, which is stated for sets (`SeqSets`: a set with the empty
  text and every text that is one character longer than one of its members has them all; it rests on `WFMin` of the
  library, which takes a set). `ReadAppend`, `PutAppend` and `FlattenAppend` say what the recursive functions make of a
  text that is one character longer. Then `PatternLiteral`: a name without a pattern is put in as it is; `OnlyTwice`:
  replacing one variable after another is replacing them at once, if no value has in it a variable that is still to be
  replaced (`Free`, `NamesFree`; `Expanded`); `QuoteReads`: where a word may begin, the shell reads what `quoteArg`
  gives as the one word it was made from; `LineReads`: so it does for the script and one argument after another, by
  induction over the list of arguments.
* `RiscvTarget_proofs`: `QemuGoesWithGdb`, `WholeSession`, `SocketStays` and the action property
  `DebugsPresentSession`, for any runs and x86 scripts. The invariant: a QEMU and a `run-gdb.sh` that go on have
  their panes, and the debugger is typed last (`PanesKnown`); unless a session was closed in set-up, one run at a
  time sets up, in a session whose only QEMU is its own (`OneAtATime`); a session without a debugger has a run that
  is still to type one, unless a run ended while it set up that session (`SetupGoesOn`).
* `RootfsImages_proofs`: `HostSpared`, `NothingMountedLeft`, `MountPointFreed`, the action property
  `OwnImageOnly`, and `ImagesAsPromised`, that the scripts implement `ImageFile`, for any builders and any
  number of runs. The invariant says who has the device (`DeviceHeld`: a script between lines 29 and 46 of
  `make-qcow2.sh` is the one whose image is connected, so at most one is there), who has the mount point
  (`MountHeld`), what each image is at each line (`ImageKnown`), and, as long as no umount failed, how many
  layers are mounted in a rootfs directory at each line of `create-rootfs.sh` (`LayersKnown`: at most one of
  each kind, which is why one `umount` each on lines 13-14 is enough after an interruption). The refinement
  then maps `CreateImage` to `Begin`, the three commands that write to `Build`, line 49 to `Announce` and
  every other step to a stutter (`ImageSteps`).

Assumptions on constants are `HostAssumption` (terminals, debuggers and modes are known ones, null values are
no instance), `StartKernelAssumption` (command lines are sequences of options with words, as typed; the names that
the script itself uses are words; a directory has a name, and not one made by the substitution), `DddAssumption` (at
least one command and one directory), `CommandLineAssumption` (natural bounds; a value is a text, which may have variables in it), `ContextAssumption`, `ButtonAssumption`, `RiscvAssumption` and `RootfsAssumption`
(natural bounds, disjoint sets, and null values that are no run, click or builder).

Model-checked only: the liveness properties `QuitTearsDown`, `Converges`, `AutoCloses` and `QuitEndsSession` (fairness
and ENABLED are out of the prover's reach).

## Not modelled

* Third-party code: `prebuilts/` holds binaries and data of gdb, QEMU and ddd, and QEMU's HTML manual with
  jQuery, underscore and the Sphinx theme. These make up nearly all of the JavaScript in the repository. None of it is
  Lightbox's own or is run by it, so the only JavaScript or TypeScript modelled is `extension.ts`, of which
  everything but imports, types and the empty `deactivate` is covered; the rest of the modelled code is shell.
* `download-rootfs.sh` (a `wget`) and `build.sh` (a `make` and a `cp`): no state of their own.
* How far a guest has booted: `x86-target/run-gdb.sh` may set its breakpoint too late (line 5), and no script
  promises otherwise. The contents of kernels and images, kernel patches, the device tree.
* The `cwd` of a button's terminal (`extension.ts` 65-66): expanded like the rest and handed to VSCode as it is, not
  to a shell.
* What the text of a script that is a command, not a path, should become: undocumented.

## Plan

Done, in this order: `LightboxHost` and its proofs, `StartKernel`, `DddScript`, `ContextSync`,
`ButtonTerminal`, `CommandLine`; `RiscvTarget` with the x86 scripts, `ImageFile`, `RootfsImages` and its proofs,
launches inside tmux, `expandVars`, the unconfigured button.

Then the proofs about `StartKernel`, `ButtonTerminal`, `RiscvTarget` and `CommandLine`, and those of the Solo properties.

Next: an abstract launcher (idle, shown, torn down) that a launch without overlap implements.
