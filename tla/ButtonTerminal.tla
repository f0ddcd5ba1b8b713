--------------------------- MODULE ButtonTerminal ---------------------------
(***************************************************************************)
(* The life of the terminal that a click on Run or Debug opens: runButton  *)
(* in scripts/vscode/src/extension.ts.                                     *)
(*                                                                         *)
(* The extension host asks the VSCode window for a terminal, types the     *)
(* command into it, and goes on without waiting.  A timer later floats     *)
(* "the terminal"; three listeners close it when its command has ended.    *)
(* The window opens terminals in its own time, and reports to the host     *)
(* what happened in any of them, in order.                                 *)
(***************************************************************************)
EXTENDS Naturals, Sequences

CONSTANTS
    Clicks,     \* clicks on the buttons, each with its own terminal
    Others,     \* terminals the user has open anyway
    MaxRuns,    \* bound on the commands run in one terminal
    None        \* no terminal

Terminals == Clicks \cup Others

ASSUME ButtonAssumption ==
    /\ Clicks \cap Others = {} /\ None \notin Terminals
    /\ MaxRuns \in Nat \ {0}

VARIABLES
    \* the window
    term,       \* per terminal: "none", "opening", "open" or "closed"
    moved,      \* per click: the terminal that its timer moved to a floating window
    active,     \* the active terminal
    command,    \* per terminal: "none", "running" or "ended"
    reported,   \* per terminal: shell integration reports that command
    runs,       \* per terminal: number of commands so far
    events,     \* reports on their way to the host
    disposing,  \* dispose calls on their way to the window
    \* the extension host
    timer,      \* per click: "off", "set", and when it was over: "fired" if the
                \* terminal was open then, "early" if it was not yet, "late" if it
                \* was closed again
    autoClose,  \* the clicks whose configuration has autoClose
    listening,  \* the clicks whose listeners are registered
    started,    \* the clicks whose variable "started" is true
    warning,    \* per click: the warning of an unconfigured button, "none", "shown",
                \* "picked" (Open Settings) or "over"
    \* history
    turned      \* the clicks since whose opening another terminal became active

windowVars == <<term, moved, active, command, reported, runs>>
hostVars == <<timer, autoClose, listening, started, warning>>
vars == <<windowVars, events, disposing,
          hostVars, turned>>

Event(kind, t) == [kind |-> kind, terminal |-> t]

\* The types of the variables; the active terminal is an open one, and only a
\* click with autoClose (line 92) has listeners.  A click that finds its button
\* unconfigured (line 53) has no terminal.
TypeOK ==
    /\ term \in [Terminals -> {"none", "opening", "open", "closed"}]
    /\ moved \in [Clicks -> Terminals \cup {None}]
    /\ active \in {None} \cup {t \in Terminals : term[t] = "open"}
    /\ command \in [Terminals -> {"none", "running", "ended"}]
    /\ reported \subseteq Terminals
    /\ runs \in [Terminals -> 0..MaxRuns]
    /\ events \in Seq([kind : {"start", "end", "close"}, terminal : Terminals])
    /\ disposing \subseteq Clicks
    /\ timer \in [Clicks -> {"off", "set", "fired", "early", "late"}]
    /\ listening \subseteq autoClose /\ autoClose \subseteq Clicks
    /\ started \subseteq Clicks /\ turned \subseteq Clicks
    /\ warning \in [Clicks -> {"none", "shown", "picked", "over"}]
    /\ \A c \in Clicks : warning[c] # "none" => term[c] = "none"

Init ==
    /\ term = [t \in Terminals |-> IF t \in Others THEN "open" ELSE "none"]
    /\ moved = [c \in Clicks |-> None]
    /\ active \in {None} \cup Others
    /\ command = [t \in Terminals |-> "none"]
    /\ reported = {}
    /\ runs = [t \in Terminals |-> 0]
    /\ events = <<>>
    /\ disposing = {}
    /\ timer = [c \in Clicks |-> "off"]
    /\ autoClose = {}
    /\ listening = {}
    /\ started = {}
    /\ warning = [c \in Clicks |-> "none"]
    /\ turned = {}

-----------------------------------------------------------------------------
(***************************************************************************)
(* The extension host.                                                     *)
(***************************************************************************)

\* Fault: line 92 is missing.
ClickAlwaysListens(c) ==
    /\ term[c] = "none" /\ warning[c] = "none"
    /\ term' = [term EXCEPT ![c] = "opening"]
    /\ \E floating \in BOOLEAN :
         timer' = [timer EXCEPT ![c] = IF floating THEN "set" ELSE "off"]
    /\ \E auto \in {{}, {c}} : autoClose' = autoClose \cup auto
    /\ listening' = listening \cup {c}
    /\ UNCHANGED <<moved, active, command, reported, runs, events, disposing,
                   started, warning, turned>>

\* Lines 74-111.
Click(c) ==
    /\ term[c] = "none" /\ warning[c] = "none"
    /\ term' = [term EXCEPT ![c] = "opening"]
    /\ \E floating \in BOOLEAN :
         timer' = [timer EXCEPT ![c] = IF floating THEN "set" ELSE "off"]
    /\ \E auto \in {{}, {c}} :
         autoClose' = autoClose \cup auto /\ listening' = listening \cup auto
    /\ UNCHANGED <<moved, active, command, reported, runs, events, disposing,
                   started, warning, turned>>

\* Lines 53-63: a click on a button without a script, what the user does about its
\* warning, and the settings that open.
ClickUnconfigured(c) ==
    /\ term[c] = "none" /\ warning[c] = "none"
    /\ warning' = [warning EXCEPT ![c] = "shown"]
    /\ UNCHANGED <<windowVars, events, disposing, timer, autoClose, listening, started, turned>>

UserAnswers(c) ==
    /\ warning[c] = "shown"
    /\ \E answer \in {"picked", "over"} : warning' = [warning EXCEPT ![c] = answer]
    /\ UNCHANGED <<windowVars, events, disposing, timer, autoClose, listening, started, turned>>

OpenSettings(c) ==
    /\ warning[c] = "picked"
    /\ warning' = [warning EXCEPT ![c] = "over"]
    /\ UNCHANGED <<windowVars, events, disposing, timer, autoClose, listening, started, turned>>

\* Lines 83-88: the command floats whichever terminal is active.
TimerFires(c) ==
    /\ timer[c] = "set"
    /\ timer' = [timer EXCEPT ![c] = CASE term[c] = "opening" -> "early"
                                       [] term[c] = "open"    -> "fired"
                                       [] OTHER               -> "late"]
    /\ moved' = [moved EXCEPT ![c] = active]
    /\ UNCHANGED <<term, active, command, reported, runs, events, disposing,
                   autoClose, listening, started, warning, turned>>

\* Fault: line 103 does not compare the terminals.
EndsAnyTerminal(e) == IF e.kind = "end" THEN listening \cap started ELSE {}

\* Fault: line 103 tests started the wrong way round.
EndsUnstarted(e) == IF e.kind = "end" THEN (listening \ started) \cap {e.terminal} ELSE {}

\* Lines 102-106: the clicks whose terminal the event makes the extension close.
Ends(e) == IF e.kind = "end" THEN listening \cap started \cap {e.terminal} ELSE {}

\* Fault: line 108 is missing.
CleansUpOnEnd(e) == Ends(e)

\* Lines 95-97, 104 and 107-109: the clicks whose listeners it removes.
CleansUp(e) == Ends(e) \cup (IF e.kind = "close" THEN {e.terminal} ELSE {})

\* The listeners of lines 99-109 run for the next event.
HostHears ==
    /\ events # <<>>
    /\ LET e == Head(events)
       IN  /\ started' = IF e.kind = "start" THEN started \cup (listening \cap {e.terminal})
                         ELSE started
           /\ disposing' = disposing \cup Ends(e)
           /\ listening' = listening \ CleansUp(e)
    /\ events' = Tail(events)
    /\ UNCHANGED <<windowVars, timer, autoClose, warning, turned>>

-----------------------------------------------------------------------------
(***************************************************************************)
(* The window.                                                             *)
(***************************************************************************)

Closes(t) ==
    /\ term' = [term EXCEPT ![t] = "closed"]
    /\ command' = [command EXCEPT ![t] = IF @ = "running" THEN "ended" ELSE @]
    /\ active' \in IF active # t THEN {active}
                   ELSE {None} \cup {u \in Terminals \ {t} : term[u] = "open"}
    /\ events' = Append(events, Event("close", t))

\* Fault: line 78, which shows the terminal, is missing.
OpensHidden(c) ==
    /\ term[c] = "opening"
    /\ term' = [term EXCEPT ![c] = "open"]
    /\ UNCHANGED <<moved, active, command, reported, runs, events, disposing, hostVars, turned>>

\* The terminal opens and becomes active, and its shell gets the command.
Opens(c) ==
    /\ term[c] = "opening"
    /\ term' = [term EXCEPT ![c] = "open"]
    /\ active' = c
    /\ turned' = turned \cup {d \in Clicks \ {c} : term[d] = "open"}
    /\ UNCHANGED <<moved, command, reported, runs, events, disposing, hostVars>>

\* The command of the button, or another one of the user's.  Shell integration
\* may be missing, or not ready yet: then neither start nor end is reported.
CommandStarts(t) ==
    /\ term[t] = "open" /\ command[t] # "running" /\ runs[t] < MaxRuns
    /\ command' = [command EXCEPT ![t] = "running"]
    /\ runs' = [runs EXCEPT ![t] = @ + 1]
    /\ \/ /\ reported' = reported \cup {t}
          /\ events' = Append(events, Event("start", t))
       \/ reported' = reported \ {t} /\ UNCHANGED events
    /\ UNCHANGED <<term, moved, active, disposing, hostVars, turned>>

CommandEnds(t) ==
    /\ command[t] = "running"
    /\ command' = [command EXCEPT ![t] = "ended"]
    /\ events' = IF t \in reported THEN Append(events, Event("end", t)) ELSE events
    /\ UNCHANGED <<term, moved, active, reported, runs, disposing, hostVars, turned>>

\* terminal.dispose() arrives; the user may have closed it in the meantime.
Disposed(c) ==
    /\ c \in disposing
    /\ disposing' = disposing \ {c}
    /\ IF term[c] = "open" THEN Closes(c) ELSE UNCHANGED <<term, command, active, events>>
    /\ UNCHANGED <<moved, reported, runs, hostVars, turned>>

UserCloses(t) ==
    /\ term[t] = "open"
    /\ Closes(t)
    /\ UNCHANGED <<moved, reported, runs, disposing, hostVars, turned>>

UserActivates(t) ==
    /\ term[t] = "open" /\ active # t
    /\ active' = t
    /\ turned' = turned \cup {c \in Clicks \ {t} : term[c] = "open"}
    /\ UNCHANGED <<term, moved, command, reported, runs, events, disposing, hostVars>>

Next ==
    \/ \E c \in Clicks :
         \/ Click(c) \/ TimerFires(c) \/ Opens(c) \/ Disposed(c)
         \/ ClickUnconfigured(c) \/ UserAnswers(c) \/ OpenSettings(c)
    \/ \E t \in Terminals :
         CommandStarts(t) \/ CommandEnds(t) \/ UserCloses(t) \/ UserActivates(t)
    \/ HostHears

Spec == Init /\ [][Next]_vars

\* The event loops of the host and of the window run on; users and their
\* commands need not.
Fairness == WF_vars(HostHears) /\ \A c \in Clicks : WF_vars(Opens(c)) /\ WF_vars(Disposed(c))

FairSpec == Spec /\ Fairness

-----------------------------------------------------------------------------
\* No listener outlives its terminal once the host has heard of the closing,
\* whether the user or the extension closed it, before or after its command.
NoListenerLeaks ==
    \A c \in Clicks :
        term[c] = "closed" /\ (\A i \in DOMAIN events : events[i] # Event("close", c))
            => c \notin listening

\* The extension closes a terminal only when a command in that very terminal
\* has started and ended, never for what happens in another one.
DisposesFinishedOnly ==
    \A c \in disposing : command[c] = "ended" \/ runs[c] > 1 \/ term[c] = "closed"

\* With autoClose, a command that shell integration reported and that has ended
\* takes its terminal with it.
AutoCloses ==
    \A c \in Clicks :
        (c \in autoClose \cap reported /\ command[c] = "ended") ~> term[c] = "closed"

\* scripts/vscode/README.md:3, "in a fresh terminal that is automatically moved into
\* a floating window", and what is true of it: the timer of line 83 moves the terminal
\* of its own click when that is open and the user has turned to no other since.  When
\* it is not open yet, or closed again - a command that is over in 150 ms, with
\* autoClose - the promise is broken: never that terminal, but the one that the user
\* happens to be in is moved.
FloatsFresh ==
    \A c \in Clicks :
        /\ timer[c] = "fired" /\ c \notin turned => moved[c] = c
        /\ timer[c] \in {"early", "late"} => moved[c] # c

-----------------------------------------------------------------------------
(***************************************************************************)
(* The inductive invariant behind them.                                    *)
(***************************************************************************)

\* A report that the host has still to hear.
Coming(kind, t) == \E i \in DOMAIN events : events[i] = Event(kind, t)

\* Listeners live as long as their terminal, and a little longer; a terminal whose
\* listeners are gone is closed, or will be.
ListenersKnown ==
    /\ \A c \in listening : term[c] \in {"opening", "open"} \/ Coming("close", c)
    /\ \A c \in autoClose \ listening : c \in disposing \/ term[c] = "closed"
    /\ \A t \in Terminals : Coming("close", t) => term[t] = "closed"

\* Commands run in terminals that opened, and a report of an end, like the call of
\* dispose that it leads to, is about a command that has ended since.
EndsKnown ==
    /\ \A t \in Terminals :
         /\ command[t] # "none" <=> runs[t] > 0
         /\ command[t] # "none" => term[t] \in {"open", "closed"}
         /\ Coming("end", t) => command[t] = "ended" \/ runs[t] > 1 \/ term[t] = "closed"
    /\ DisposesFinishedOnly

\* With autoClose, the host has heard of the start of a reported command, or will, and
\* hears of its end after that.
StartsKnown ==
    \A c \in listening \cap reported :
        /\ command[c] # "none" => c \in started \/ Coming("start", c)
        /\ command[c] = "ended" /\ term[c] = "open" =>
             \E j \in DOMAIN events :
                /\ events[j] = Event("end", c)
                /\ c \in started \/ \E i \in 1..(j - 1) : events[i] = Event("start", c)

\* A terminal that opened is active until the user turns to another one.
FreshKnown ==
    /\ \A c \in Clicks :
         /\ term[c] = "open" /\ c \notin turned => active = c
         /\ term[c] = "none" => timer[c] = "off" /\ c \notin autoClose
    /\ FloatsFresh

\* Their conjunction.
IInv == TypeOK /\ ListenersKnown /\ EndsKnown /\ StartsKnown /\ FreshKnown

=============================================================================
