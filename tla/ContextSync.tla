---------------------------- MODULE ContextSync ----------------------------
(***************************************************************************)
(* When the Run and Debug buttons of the VSCode extension are shown:       *)
(* syncContext in scripts/vscode/src/extension.ts.                         *)
(*                                                                         *)
(* Settings and context keys live in the VSCode window, the extension in   *)
(* the extension host.  Changed settings reach the host as messages, in    *)
(* order; a setContext call is a message back, and "await" resumes some    *)
(* time after it was applied.  Nobody awaits syncContext itself, so any    *)
(* number of its runs may be under way at once.                            *)
(***************************************************************************)
EXTENDS Naturals, Sequences

CONSTANT MaxEdits       \* bound on the edits of the settings

ASSUME ContextAssumption == MaxEdits \in Nat

Ids == {"run", "debug"}

\* The values a setting can have; undefined is the default, "".
Raw == {"empty string", "string", "object without script", "object with script"}

\* Boolean(getConfig(id).script), lines 19-25 and 47.
HasScript(raw) == raw \in {"string", "object with script"}

Syncs == 0..MaxEdits    \* 0: the run that activate starts; n: the one edit n starts

VARIABLES
    settings,   \* in the window: the value of lightbox.run and lightbox.debug
    edits,      \* number of edits so far
    news,       \* changed settings on their way to the host
    host,       \* the host's copy of the settings
    active,     \* activate has run
    sync,       \* per run of syncContext: where it is
    calls,      \* setContext calls on their way to the window
    context,    \* in the window: lightbox.runEnabled and lightbox.debugEnabled
    shown       \* history: the edit that each context key reflects

vars == <<settings, edits, news, host, active, sync, calls, context, shown>>

\* History: the number of the last edit that the host has heard of.
heard == edits - Len(news)

Call == [id : Ids, on : BOOLEAN, sync : Syncs, edit : 0..MaxEdits]

\* The types of the variables; the host never lags by more than the edits made.
TypeOK ==
    /\ settings \in [Ids -> Raw]
    /\ edits \in 0..MaxEdits
    /\ news \in Seq([Ids -> Raw]) /\ Len(news) <= edits
    /\ host \in [Ids -> Raw]
    /\ active \in BOOLEAN
    /\ sync \in [Syncs -> {"none", "run", "resume", "debug", "done"}]
    /\ calls \in Seq(Call)
    /\ context \in [Ids -> BOOLEAN]
    /\ shown \in [Ids -> 0..MaxEdits]

Init ==
    /\ settings \in [Ids -> Raw]
    /\ edits = 0
    /\ news = <<>>
    /\ host = settings
    /\ active = FALSE
    /\ sync = [k \in Syncs |-> "none"]
    /\ calls = <<>>
    /\ context = [id \in Ids |-> FALSE]
    /\ shown = [id \in Ids |-> 0]

-----------------------------------------------------------------------------
\* One turn of the loop of line 46: read the setting, send setContext.
Post(k, id, cfg, edit) ==
    /\ calls' = Append(calls, [id |-> id, on |-> HasScript(cfg[id]), sync |-> k, edit |-> edit])
    /\ sync' = [sync EXCEPT ![k] = id]

UserEdits(new) ==
    /\ edits < MaxEdits /\ new # settings
    /\ settings' = new
    /\ edits' = edits + 1
    /\ news' = Append(news, new)
    /\ UNCHANGED <<host, active, sync, calls, context, shown>>

\* Fault: no syncContext on activation.
ActivateSilently ==
    /\ ~active
    /\ active' = TRUE
    /\ UNCHANGED <<settings, edits, news, host, sync, calls, context, shown>>

\* Lines 114-126: syncContext up to its first await, and the listener.
Activate ==
    /\ ~active
    /\ active' = TRUE
    /\ Post(0, "run", host, heard)
    /\ UNCHANGED <<settings, edits, news, host, context, shown>>

\* Fault: only changes of lightbox.run are listened to.
SettingsArriveRunOnly ==
    /\ news # <<>>
    /\ host' = Head(news)
    /\ news' = Tail(news)
    /\ IF active /\ Head(news)["run"] # host["run"]
         THEN Post(heard + 1, "run", Head(news), heard + 1) ELSE UNCHANGED <<sync, calls>>
    /\ UNCHANGED <<settings, edits, active, context, shown>>

\* Lines 120-124: the host's copy changes and the listener runs syncContext.
SettingsArrive ==
    /\ news # <<>>
    /\ host' = Head(news)
    /\ news' = Tail(news)
    /\ IF active THEN Post(heard + 1, "run", Head(news), heard + 1)
                 ELSE UNCHANGED <<sync, calls>>
    /\ UNCHANGED <<settings, edits, active, context, shown>>

ApplyContext ==
    /\ calls # <<>>
    /\ LET c == Head(calls)
       IN  /\ context' = [context EXCEPT ![c.id] = c.on]
           /\ shown' = [shown EXCEPT ![c.id] = c.edit]
           /\ sync' = [sync EXCEPT ![c.sync] = IF c.id = "run" THEN "resume" ELSE "done"]
    /\ calls' = Tail(calls)
    /\ UNCHANGED <<settings, edits, news, host, active>>

\* Fault: the loop ends after the first button.
ResumeStops(k) ==
    /\ sync[k] = "resume"
    /\ sync' = [sync EXCEPT ![k] = "done"]
    /\ UNCHANGED <<settings, edits, news, host, active, calls, context, shown>>

\* Fault: the second setting is the one the run found when it started, with the edit
\* that started it; what that was is not kept, and may be anything if others followed.
ResumeStale(k) ==
    /\ sync[k] = "resume"
    /\ IF k = 0 THEN Post(k, "debug", host, heard)
       ELSE \E found \in [Ids -> Raw] : (k = heard => found = host) /\ Post(k, "debug", found, k)
    /\ UNCHANGED <<settings, edits, news, host, active, context, shown>>

\* The await of line 48 is over: on to the second button.
Resume(k) ==
    /\ sync[k] = "resume"
    /\ Post(k, "debug", host, heard)
    /\ UNCHANGED <<settings, edits, news, host, active, context, shown>>

Next ==
    \/ \E new \in [Ids -> Raw] : UserEdits(new)
    \/ Activate \/ SettingsArrive \/ ApplyContext
    \/ \E k \in Syncs : Resume(k)

Spec == Init /\ [][Next]_vars

\* VSCode activates the extension (onStartupFinished) and delivers messages.
Fairness ==
    /\ WF_vars(Activate) /\ WF_vars(SettingsArrive) /\ WF_vars(ApplyContext)
    /\ \A k \in Syncs : WF_vars(Resume(k))

FairSpec == Spec /\ Fairness

-----------------------------------------------------------------------------
\* Nothing is on its way and no run of syncContext is about to go on.
Quiet == active /\ news = <<>> /\ calls = <<>> /\ \A k \in Syncs : sync[k] # "resume"

\* Once everything is delivered, each button is shown exactly when its setting
\* has a script, however many runs of syncContext overlapped.
ButtonsMatchSettings ==
    Quiet => \A id \in Ids : context[id] = HasScript(settings[id])

\* A button never goes back to what an earlier edit asked for, although a run
\* of syncContext that a later edit started may overtake an earlier run.
NeverBackwards == [][\A id \in Ids : shown'[id] >= shown[id]]_vars

\* The buttons end up right: edits are finite, and so is what they set off.
Converges == <>[](\A id \in Ids : context[id] = HasScript(settings[id]))

-----------------------------------------------------------------------------
(***************************************************************************)
(* The inductive invariant behind ButtonsMatchSettings and NeverBackwards. *)
(***************************************************************************)

\* The host will have heard of the present settings once all news arrived.
NewsEndAtSettings ==
    IF news = <<>> THEN host = settings ELSE news[Len(news)] = settings

\* Every call belongs to a run of syncContext that awaits it, no two to one run,
\* and a run that awaits its first call has one.
CallsAwaited ==
    /\ \A i \in DOMAIN calls : sync[calls[i].sync] = calls[i].id
    /\ \A i, j \in DOMAIN calls : i # j => calls[i].sync # calls[j].sync
    /\ \A k \in Syncs : sync[k] = "run" =>
         \E i \in DOMAIN calls : calls[i].sync = k /\ calls[i].id = "run"

\* Runs start when the extension is activated and when an edit is heard of.
NotYetStarted ==
    \A k \in Syncs : ~active \/ k > heard => sync[k] = "none"

\* The last call about a button - its context key, if none is on its way - says
\* what the host's copy of the settings says.
UpToDate(id) ==
    /\ \A i \in DOMAIN calls :
         /\ calls[i].id = id
         /\ \A j \in DOMAIN calls : j > i => calls[j].id # id
         => calls[i].on = HasScript(host[id])
    /\ (\A i \in DOMAIN calls : calls[i].id # id) => context[id] = HasScript(host[id])

RunUpToDate == active => UpToDate("run")

\* The second button may lag while a run has yet to come to it.
DebugUpToDate ==
    active => UpToDate("debug") \/ \E k \in Syncs : sync[k] \in {"run", "resume"}

\* Calls about one button are in the order of the edits they reflect.
Ordered ==
    /\ \A i \in DOMAIN calls : shown[calls[i].id] <= calls[i].edit /\ calls[i].edit <= heard
    /\ \A i, j \in DOMAIN calls :
         i < j /\ calls[i].id = calls[j].id => calls[i].edit <= calls[j].edit
    /\ \A id \in Ids : shown[id] <= heard

\* Their conjunction.
IInv ==
    /\ TypeOK
    /\ NewsEndAtSettings
    /\ CallsAwaited
    /\ NotYetStarted
    /\ RunUpToDate
    /\ DebugUpToDate
    /\ Ordered

=============================================================================
