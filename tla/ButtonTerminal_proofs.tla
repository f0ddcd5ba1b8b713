----------------------- MODULE ButtonTerminal_proofs -----------------------
(* Proofs about ButtonTerminal, for any clicks and terminals and any number of *)
(* commands in each. *)
EXTENDS ButtonTerminal, TLAPS

EventSet == [kind : {"start", "end", "close"}, terminal : Terminals]

-----------------------------------------------------------------------------
(***************************************************************************)
(* The queue of reports.                                                   *)
(***************************************************************************)

\* A report put at the end of the queue is all that is new in it.
LEMMA AppendComing ==
    ASSUME events \in Seq(EventSet), NEW k0 \in {"start", "end", "close"}, NEW t0 \in Terminals,
           events' = Append(events, Event(k0, t0))
    PROVE  /\ events' \in Seq(EventSet)
           /\ \A k, t : Coming(k, t)' <=> Coming(k, t) \/ (k = k0 /\ t = t0)
           /\ \A i \in DOMAIN events : i \in DOMAIN events' /\ events'[i] = events[i]
           /\ Len(events) + 1 \in DOMAIN events'
           /\ events'[Len(events) + 1] = Event(k0, t0)
<1>0. Event(k0, t0) \in EventSet BY DEF Event, EventSet
<1>1. /\ events' \in Seq(EventSet) /\ Len(events) \in Nat
      /\ DOMAIN events = 1..Len(events) /\ DOMAIN events' = 1..(Len(events) + 1)
      /\ \A i \in DOMAIN events : events'[i] = events[i]
      /\ events'[Len(events) + 1] = Event(k0, t0)
  BY <1>0
<1>2. \A k, t : Event(k, t) = Event(k0, t0) <=> k = k0 /\ t = t0 BY DEF Event
<1>. QED BY <1>1, <1>2 DEF Coming

\* Hearing the first report takes it, and nothing else, from the queue.
LEMMA TailComing ==
    ASSUME events \in Seq(EventSet), events # <<>>, events' = Tail(events)
    PROVE  /\ events' \in Seq(EventSet) /\ Head(events) \in EventSet
           /\ \A k, t : Coming(k, t) <=> Coming(k, t)' \/ Head(events) = Event(k, t)
           /\ \A i \in DOMAIN events : i # 1 => i - 1 \in DOMAIN events' /\ events'[i - 1] = events[i]
<1>1. /\ Len(events) \in Nat \ {0} /\ DOMAIN events = 1..Len(events)
      /\ events' \in Seq(EventSet) /\ DOMAIN events' = 1..(Len(events) - 1)
      /\ \A i \in 1..(Len(events) - 1) : events'[i] = events[i + 1]
      /\ Head(events) = events[1] /\ Head(events) \in EventSet
  OBVIOUS
<1>2. \A i \in DOMAIN events : i # 1 => i - 1 \in DOMAIN events' /\ events'[i - 1] = events[i]
  BY <1>1
<1>3. ASSUME NEW k, NEW t
      PROVE  Coming(k, t) <=> Coming(k, t)' \/ Head(events) = Event(k, t)
  <2>1. Coming(k, t) => Coming(k, t)' \/ Head(events) = Event(k, t)
    BY <1>1, <1>2 DEF Coming
  <2>2. Coming(k, t)' => Coming(k, t)
    <3>. SUFFICES ASSUME NEW i \in DOMAIN events', events'[i] = Event(k, t) PROVE Coming(k, t)
      BY DEF Coming
    <3>1. i + 1 \in DOMAIN events /\ events[i + 1] = Event(k, t) BY <1>1
    <3>. QED BY <3>1 DEF Coming
  <2>3. Head(events) = Event(k, t) => Coming(k, t)
    <3>1. 1 \in DOMAIN events BY <1>1
    <3>. QED BY <1>1, <3>1 DEF Coming
  <2>. QED BY <2>1, <2>2, <2>3
<1>. QED BY <1>1, <1>2, <1>3

-----------------------------------------------------------------------------
\* The initial states satisfy the inductive invariant.
LEMMA InitIInv == Init => IInv
<1>. SUFFICES ASSUME Init PROVE IInv OBVIOUS
<1>. USE ButtonAssumption DEF Init
<1>0. \A k, t : ~Coming(k, t) BY DEF Coming
<1>1. TypeOK
  <2>1. active \in {None} \cup {t \in Terminals : term[t] = "open"} BY DEF Terminals
  <2>2. term \in [Terminals -> {"none", "opening", "open", "closed"}] OBVIOUS
  <2>3. events \in Seq([kind : {"start", "end", "close"}, terminal : Terminals]) OBVIOUS
  <2>. QED BY <2>1, <2>2, <2>3 DEF TypeOK
<1>2. ListenersKnown BY <1>0 DEF ListenersKnown
<1>3. EndsKnown BY <1>0 DEF EndsKnown, DisposesFinishedOnly
<1>4. StartsKnown BY DEF StartsKnown
<1>5. FreshKnown BY DEF FreshKnown, FloatsFresh, Terminals
<1>. QED BY <1>1, <1>2, <1>3, <1>4, <1>5 DEF IInv

\* The safety half of AutoCloses: no report is lost and no listener removed too early,
\* so that the terminal of a reported command that has ended is closed, or the call of
\* dispose (line 105) or the report that leads to it is under way.
AutoCloseUnderWay ==
    \A c \in autoClose \cap reported :
        command[c] = "ended" => term[c] = "closed" \/ c \in disposing \/ Coming("end", c)

-----------------------------------------------------------------------------
(***************************************************************************)
(* The extension host.                                                     *)
(***************************************************************************)

\* A click opens a terminal of its own, whose listeners are those of that terminal.
LEMMA ClickIInv == ASSUME IInv, NEW c \in Clicks, Click(c) PROVE IInv'
<1>. USE DEF Click
<1>0. TypeOK /\ c \in Terminals BY DEF IInv, Terminals
<1>a. PICK auto \in {{}, {c}} : autoClose' = autoClose \cup auto /\ listening' = listening \cup auto
  OBVIOUS
<1>b. /\ term[c] = "none" /\ term'[c] = "opening"
      /\ \A t \in Terminals \ {c} : term'[t] = term[t]
      /\ \A d \in Clicks \ {c} : timer'[d] = timer[d]
      /\ timer'[c] \in {"off", "set"}
  BY <1>0 DEF TypeOK
<1>c. c \notin autoClose /\ c \notin listening /\ command[c] = "none" /\ c # active
  <2>1. c \notin autoClose BY <1>b DEF IInv, FreshKnown
  <2>2. c \notin listening BY <2>1, <1>0 DEF TypeOK
  <2>3. command[c] = "none" BY <1>0, <1>b DEF IInv, EndsKnown
  <2>4. c # active BY <1>0, <1>b, ButtonAssumption DEF TypeOK
  <2>. QED BY <2>1, <2>2, <2>3, <2>4
<1>d. \A k, t : Coming(k, t)' <=> Coming(k, t) BY DEF Coming
<1>1. TypeOK'
  <2>1. active \in {None} \cup {t \in Terminals : term'[t] = "open"}
    BY <1>0, <1>b DEF TypeOK
  <2>2. term' \in [Terminals -> {"none", "opening", "open", "closed"}] BY <1>0 DEF TypeOK
  <2>3. timer' \in [Clicks -> {"off", "set", "fired", "early", "late"}] BY <1>0 DEF TypeOK
  <2>4. \A d \in Clicks : warning[d] # "none" => term'[d] = "none"
    BY <1>0, <1>b DEF TypeOK, Terminals
  <2>5. listening' \subseteq autoClose' /\ autoClose' \subseteq Clicks BY <1>0, <1>a DEF TypeOK
  <2>. QED BY <1>0, <2>1, <2>2, <2>3, <2>4, <2>5 DEF TypeOK
<1>2. ListenersKnown'
  BY <1>0, <1>a, <1>b, <1>c, <1>d DEF IInv, ListenersKnown, TypeOK, Terminals
<1>3. EndsKnown'
  BY <1>0, <1>b, <1>c, <1>d DEF IInv, EndsKnown, DisposesFinishedOnly, TypeOK, Terminals
<1>4. StartsKnown'
  BY <1>0, <1>a, <1>b, <1>c, <1>d DEF IInv, StartsKnown, TypeOK, Terminals
<1>5. FreshKnown'
  BY <1>0, <1>a, <1>b, <1>c DEF IInv, FreshKnown, FloatsFresh, TypeOK, Terminals
<1>. QED BY <1>1, <1>2, <1>3, <1>4, <1>5 DEF IInv

\* A click on an unconfigured button, and what follows it, touches no terminal.
LEMMA WarningIInv ==
    ASSUME IInv, NEW c \in Clicks, ClickUnconfigured(c) \/ UserAnswers(c) \/ OpenSettings(c)
    PROVE  IInv'
<1>. USE DEF ClickUnconfigured, UserAnswers, OpenSettings, windowVars
<1>0. TypeOK BY DEF IInv
<1>a. UNCHANGED <<windowVars, events, disposing, timer, autoClose, listening, started, turned>>
  OBVIOUS
<1>b. PICK w \in {"shown", "picked", "over"} : warning' = [warning EXCEPT ![c] = w] OBVIOUS
<1>c. term[c] = "none" BY <1>0 DEF TypeOK
<1>1. TypeOK'
  <2>1. warning' \in [Clicks -> {"none", "shown", "picked", "over"}] BY <1>0, <1>b DEF TypeOK
  <2>2. \A d \in Clicks : warning'[d] # "none" => term[d] = "none" BY <1>0, <1>b, <1>c DEF TypeOK
  <2>. QED BY <1>0, <1>a, <2>1, <2>2 DEF TypeOK
<1>2. ListenersKnown' BY <1>a DEF IInv, ListenersKnown, Coming
<1>3. EndsKnown' BY <1>a DEF IInv, EndsKnown, DisposesFinishedOnly, Coming
<1>4. StartsKnown' BY <1>a DEF IInv, StartsKnown, Coming
<1>5. FreshKnown' BY <1>a DEF IInv, FreshKnown, FloatsFresh
<1>. QED BY <1>1, <1>2, <1>3, <1>4, <1>5 DEF IInv

\* The timer moves the active terminal, which is an open one, and that of its click if
\* that is open and the user has not turned to another.
LEMMA TimerIInv == ASSUME IInv, NEW c \in Clicks, TimerFires(c) PROVE IInv'
<1>. USE DEF TimerFires
<1>0. TypeOK /\ c \in Terminals BY DEF IInv, Terminals
<1>a. UNCHANGED <<term, active, command, reported, runs, events, disposing,
                  autoClose, listening, started, warning, turned>>
  OBVIOUS
<1>b. /\ timer[c] = "set" /\ timer'[c] \in {"fired", "early", "late"}
      /\ timer'[c] = "fired" <=> term[c] = "open"
      /\ \A d \in Clicks \ {c} : timer'[d] = timer[d]
  BY <1>0 DEF TypeOK
<1>c. moved'[c] = active /\ \A d \in Clicks \ {c} : moved'[d] = moved[d]
  BY <1>0 DEF TypeOK
<1>1. TypeOK'
  <2>1. moved' \in [Clicks -> Terminals \cup {None}] BY <1>0 DEF TypeOK
  <2>2. timer' \in [Clicks -> {"off", "set", "fired", "early", "late"}] BY <1>0 DEF TypeOK
  <2>. QED BY <1>0, <1>a, <2>1, <2>2 DEF TypeOK
<1>2. ListenersKnown' BY <1>a DEF IInv, ListenersKnown, Coming
<1>3. EndsKnown' BY <1>a DEF IInv, EndsKnown, DisposesFinishedOnly, Coming
<1>4. StartsKnown' BY <1>a DEF IInv, StartsKnown, Coming
<1>5. FreshKnown'
  <2>1. \A d \in Clicks : term[d] = "none" => timer'[d] = "off" /\ d \notin autoClose
    BY <1>b DEF IInv, FreshKnown
  <2>2. ASSUME NEW d \in Clicks \ turned, timer'[d] = "fired" PROVE moved'[d] = d
    <3>1. CASE d # c BY <2>2, <3>1, <1>b, <1>c DEF IInv, FreshKnown, FloatsFresh
    <3>2. CASE d = c BY <2>2, <3>2, <1>b, <1>c DEF IInv, FreshKnown
    <3>. QED BY <3>1, <3>2
  <2>3. ASSUME NEW d \in Clicks, timer'[d] \in {"early", "late"} PROVE moved'[d] # d
    <3>1. CASE d # c BY <2>3, <3>1, <1>b, <1>c DEF IInv, FreshKnown, FloatsFresh
    <3>2. CASE d = c
      <4>1. term[c] # "open" BY <2>3, <3>2, <1>b
      <4>2. c # None BY <1>0, ButtonAssumption
      <4>. QED BY <4>1, <4>2, <3>2, <1>0, <1>c DEF TypeOK
    <3>. QED BY <3>1, <3>2
  <2>. QED BY <1>a, <2>1, <2>2, <2>3 DEF IInv, FreshKnown, FloatsFresh
<1>. QED BY <1>1, <1>2, <1>3, <1>4, <1>5 DEF IInv

\* The listeners act on reports of their own terminal only, after what they rely on.
LEMMA HearsIInv == ASSUME IInv, HostHears PROVE IInv'
<1>. DEFINE e == Head(events)
<1>0. TypeOK /\ events \in Seq(EventSet) BY DEF IInv, TypeOK, EventSet
<1>a. UNCHANGED <<windowVars, timer, autoClose, warning, turned>> BY DEF HostHears
<1>b. /\ events # <<>> /\ events' = Tail(events)
      /\ started' = IF e.kind = "start" THEN started \cup (listening \cap {e.terminal}) ELSE started
      /\ disposing' = disposing \cup Ends(e)
      /\ listening' = listening \ CleansUp(e)
  BY DEF HostHears
<1>c. /\ events' \in Seq(EventSet) /\ e \in EventSet
      /\ \A k, t : Coming(k, t) <=> Coming(k, t)' \/ e = Event(k, t)
      /\ \A i \in DOMAIN events : i # 1 => i - 1 \in DOMAIN events' /\ events'[i - 1] = events[i]
  BY <1>0, <1>b, TailComing
<1>d. e = Event(e.kind, e.terminal) /\ e.terminal \in Terminals BY <1>c DEF EventSet, Event
<1>e. Ends(e) \subseteq listening /\ Ends(e) \subseteq {e.terminal} BY DEF Ends
<1>. HIDE DEF e
<1>. USE DEF windowVars
<1>1. TypeOK'
  <2>1. disposing' \subseteq Clicks /\ listening' \subseteq autoClose /\ started' \subseteq Clicks
    BY <1>0, <1>b, <1>e DEF TypeOK
  <2>2. events' \in Seq([kind : {"start", "end", "close"}, terminal : Terminals])
    BY <1>c DEF EventSet
  <2>. QED BY <1>0, <1>a, <2>1, <2>2 DEF TypeOK
<1>2. ListenersKnown'
  <2>1. ASSUME NEW c \in listening'
        PROVE  term[c] \in {"opening", "open"} \/ Coming("close", c)'
    <3>1. c \in listening /\ c \notin CleansUp(e) BY <1>b, <2>1
    <3>2. e # Event("close", c) BY <3>1 DEF CleansUp, Event
    <3>. QED BY <3>1, <3>2, <1>c DEF IInv, ListenersKnown
  <2>2. ASSUME NEW c \in autoClose \ listening' PROVE c \in disposing' \/ term[c] = "closed"
    <3>1. CASE c \notin listening BY <3>1, <2>2, <1>b DEF IInv, ListenersKnown
    <3>2. CASE c \in listening
      <4>1. c \in CleansUp(e) BY <3>2, <2>2, <1>b
      <4>2. CASE c \in Ends(e) BY <4>2, <1>b
      <4>3. CASE e.kind = "close" /\ c = e.terminal
        BY <4>3, <1>c, <1>d DEF IInv, ListenersKnown
      <4>. QED BY <4>1, <4>2, <4>3 DEF CleansUp
    <3>. QED BY <3>1, <3>2
  <2>3. \A t \in Terminals : Coming("close", t)' => term[t] = "closed"
    BY <1>c DEF IInv, ListenersKnown
  <2>. QED BY <1>a, <2>1, <2>2, <2>3 DEF ListenersKnown
<1>3. EndsKnown'
  <2>1. ASSUME NEW c \in disposing'
        PROVE  command[c] = "ended" \/ runs[c] > 1 \/ term[c] = "closed"
    <3>1. CASE c \in disposing BY <3>1 DEF IInv, EndsKnown, DisposesFinishedOnly
    <3>2. CASE c \in Ends(e)
      <4>1. c = e.terminal /\ e.kind = "end" BY <3>2 DEF Ends
      <4>2. Coming("end", c) BY <4>1, <1>c, <1>d
      <4>. QED BY <4>1, <4>2, <1>d DEF IInv, EndsKnown
    <3>. QED BY <3>1, <3>2, <2>1, <1>b
  <2>. QED BY <1>a, <1>c, <2>1 DEF IInv, EndsKnown, DisposesFinishedOnly
<1>4. StartsKnown'
  <2>. SUFFICES ASSUME NEW c \in listening' \cap reported, command[c] # "none"
                PROVE  /\ c \in started' \/ Coming("start", c)'
                       /\ command[c] = "ended" /\ term[c] = "open" =>
                            \E j \in DOMAIN events' :
                               /\ events'[j] = Event("end", c)
                               /\ c \in started' \/ \E i \in 1..(j - 1) : events'[i] = Event("start", c)
    BY <1>a DEF StartsKnown
  <2>1. c \in listening /\ c \in reported /\ c \notin CleansUp(e) BY <1>b
  <2>2. e = Event("start", c) => c \in started' BY <2>1, <1>b DEF Event
  <2>3. started \subseteq started' BY <1>b
  <2>4. c \in started' \/ Coming("start", c)'
    BY <2>1, <2>2, <2>3, <1>c DEF IInv, StartsKnown
  <2>5. ASSUME command[c] = "ended", term[c] = "open"
        PROVE  \E j \in DOMAIN events' :
                  /\ events'[j] = Event("end", c)
                  /\ c \in started' \/ \E i \in 1..(j - 1) : events'[i] = Event("start", c)
    <3>1. PICK j \in DOMAIN events :
             /\ events[j] = Event("end", c)
             /\ c \in started \/ \E i \in 1..(j - 1) : events[i] = Event("start", c)
      BY <2>1, <2>5 DEF IInv, StartsKnown
    <3>2. j # 1
      <4>. SUFFICES ASSUME j = 1 PROVE FALSE OBVIOUS
      <4>1. c \in started BY <3>1
      <4>2. e = Event("end", c) BY <3>1, <1>0 DEF e
      <4>3. c \in Ends(e) BY <4>1, <4>2, <2>1 DEF Ends, Event
      <4>. QED BY <4>3, <2>1 DEF CleansUp
    <3>3. j - 1 \in DOMAIN events' /\ events'[j - 1] = Event("end", c) BY <3>1, <3>2, <1>c
    <3>4. c \in started' \/ \E i \in 1..(j - 1 - 1) : events'[i] = Event("start", c)
      <4>1. CASE c \in started BY <4>1, <2>3
      <4>2. ASSUME NEW i \in 1..(j - 1), events[i] = Event("start", c)
            PROVE  c \in started' \/ \E h \in 1..(j - 1 - 1) : events'[h] = Event("start", c)
        <5>0. DOMAIN events = 1..Len(events) /\ Len(events) \in Nat BY <1>0
        <5>1. CASE i = 1
          <6>1. e = Event("start", c) BY <5>1, <4>2, <1>0 DEF e
          <6>. QED BY <6>1, <2>2
        <5>2. CASE i # 1
          <6>1. i \in DOMAIN events BY <5>0
          <6>2. events'[i - 1] = Event("start", c) BY <6>1, <5>2, <4>2, <1>c
          <6>3. i - 1 \in 1..(j - 1 - 1) BY <5>0, <5>2
          <6>. QED BY <6>2, <6>3
        <5>. QED BY <5>1, <5>2
      <4>. QED BY <3>1, <4>1, <4>2
    <3>. QED BY <3>3, <3>4
  <2>. QED BY <2>4, <2>5
<1>5. FreshKnown' BY <1>a DEF IInv, FreshKnown, FloatsFresh
<1>. QED BY <1>1, <1>2, <1>3, <1>4, <1>5 DEF IInv

-----------------------------------------------------------------------------
(***************************************************************************)
(* The window.                                                             *)
(***************************************************************************)

\* A terminal opens, and is the active one.
LEMMA OpensIInv == ASSUME IInv, NEW c \in Clicks, Opens(c) PROVE IInv'
<1>. USE DEF Opens, hostVars
<1>0. TypeOK /\ c \in Terminals BY DEF IInv, Terminals
<1>b. /\ term[c] = "opening" /\ term'[c] = "open"
      /\ \A t \in Terminals \ {c} : term'[t] = term[t]
  BY <1>0 DEF TypeOK
<1>c. command[c] = "none" BY <1>0, <1>b DEF IInv, EndsKnown
<1>1. TypeOK'
  <2>1. active' \in {None} \cup {t \in Terminals : term'[t] = "open"} BY <1>0, <1>b
  <2>2. term' \in [Terminals -> {"none", "opening", "open", "closed"}] BY <1>0 DEF TypeOK
  <2>3. \A d \in Clicks : warning[d] # "none" => term'[d] = "none"
    BY <1>0, <1>b DEF TypeOK, Terminals
  <2>4. turned' \subseteq Clicks BY <1>0 DEF TypeOK
  <2>. QED BY <1>0, <2>1, <2>2, <2>3, <2>4 DEF TypeOK
<1>2. ListenersKnown' BY <1>0, <1>b DEF IInv, ListenersKnown, Coming, TypeOK, Terminals
<1>3. EndsKnown'
  BY <1>0, <1>b DEF IInv, EndsKnown, DisposesFinishedOnly, Coming, TypeOK, Terminals
<1>4. StartsKnown' BY <1>0, <1>b, <1>c DEF IInv, StartsKnown, Coming, TypeOK, Terminals
<1>5. FreshKnown' BY <1>0, <1>b DEF IInv, FreshKnown, FloatsFresh, TypeOK, Terminals
<1>. QED BY <1>1, <1>2, <1>3, <1>4, <1>5 DEF IInv

\* Another terminal becomes active.
LEMMA ActivatesIInv == ASSUME IInv, NEW t \in Terminals, UserActivates(t) PROVE IInv'
<1>. USE DEF UserActivates, hostVars
<1>0. TypeOK BY DEF IInv
<1>1. TypeOK' BY <1>0 DEF TypeOK
<1>2. ListenersKnown' BY DEF IInv, ListenersKnown, Coming
<1>3. EndsKnown' BY DEF IInv, EndsKnown, DisposesFinishedOnly, Coming
<1>4. StartsKnown' BY DEF IInv, StartsKnown, Coming
<1>5. FreshKnown' BY DEF IInv, FreshKnown, FloatsFresh
<1>. QED BY <1>1, <1>2, <1>3, <1>4, <1>5 DEF IInv

\* What is known of ends and starts survives a report put behind it: an end whose start
\* the host has heard of, or hears of before, stays one.
LEMMA StillOrdered ==
    ASSUME events \in Seq(EventSet), NEW k0 \in {"start", "end", "close"}, NEW t0 \in Terminals,
           events' = Append(events, Event(k0, t0)), NEW c, NEW j \in DOMAIN events,
           events[j] = Event("end", c),
           c \in started \/ \E i \in 1..(j - 1) : events[i] = Event("start", c)
    PROVE  /\ j \in DOMAIN events' /\ events'[j] = Event("end", c)
           /\ c \in started \/ \E i \in 1..(j - 1) : events'[i] = Event("start", c)
<1>1. /\ DOMAIN events = 1..Len(events) /\ Len(events) \in Nat
      /\ \A i \in DOMAIN events : i \in DOMAIN events' /\ events'[i] = events[i]
  BY AppendComing
<1>2. ASSUME NEW i \in 1..(j - 1), events[i] = Event("start", c)
      PROVE  \E h \in 1..(j - 1) : events'[h] = Event("start", c)
  <2>1. i \in DOMAIN events BY <1>1
  <2>. QED BY <1>1, <1>2, <2>1
<1>. QED BY <1>1, <1>2

\* A command starts, reported or not.
LEMMA StartsIInv == ASSUME IInv, NEW t \in Terminals, CommandStarts(t) PROVE IInv'
<1>. USE DEF CommandStarts
<1>0. TypeOK /\ events \in Seq(EventSet) BY DEF IInv, TypeOK, EventSet
<1>a. UNCHANGED <<term, moved, active, disposing, hostVars, turned>> OBVIOUS
<1>b. /\ term[t] = "open" /\ command[t] # "running" /\ runs[t] < MaxRuns
      /\ command'[t] = "running" /\ runs'[t] = runs[t] + 1 /\ runs[t] \in Nat
      /\ \A u \in Terminals \ {t} : command'[u] = command[u] /\ runs'[u] = runs[u]
      /\ command[t] \in {"none", "ended"}
  BY <1>0 DEF TypeOK
<1>c. \/ events' = Append(events, Event("start", t)) /\ reported' = reported \cup {t}
      \/ events' = events /\ reported' = reported \ {t}
  OBVIOUS
<1>d. /\ events' \in Seq(EventSet)
      /\ \A k, u : Coming(k, u)' <=> Coming(k, u) \/ (k = "start" /\ u = t /\ t \in reported')
  <2>1. CASE events' = Append(events, Event("start", t)) /\ reported' = reported \cup {t}
    BY <2>1, <1>0, AppendComing
  <2>2. CASE events' = events /\ reported' = reported \ {t} BY <2>2, <1>0 DEF Coming
  <2>. QED BY <1>c, <2>1, <2>2
<1>. USE DEF hostVars
<1>1. TypeOK'
  <2>1. runs' \in [Terminals -> 0..MaxRuns]
    <3>1. runs[t] + 1 \in 0..MaxRuns BY <1>b, ButtonAssumption
    <3>. QED BY <3>1, <1>0 DEF TypeOK
  <2>2. command' \in [Terminals -> {"none", "running", "ended"}] BY <1>0 DEF TypeOK
  <2>3. reported' \subseteq Terminals BY <1>0, <1>c DEF TypeOK
  <2>4. events' \in Seq([kind : {"start", "end", "close"}, terminal : Terminals])
    BY <1>d DEF EventSet
  <2>. QED BY <1>0, <1>a, <2>1, <2>2, <2>3, <2>4 DEF TypeOK
<1>2. ListenersKnown' BY <1>a, <1>d DEF IInv, ListenersKnown
<1>3. EndsKnown'
  <2>1. \A u \in Terminals :
           command[u] = "ended" \/ runs[u] > 1 \/ term[u] = "closed"
             => command'[u] = "ended" \/ runs'[u] > 1 \/ term[u] = "closed"
    BY <1>b DEF IInv, EndsKnown
  <2>2. \A u \in Terminals : command'[u] # "none" <=> runs'[u] > 0 BY <1>b DEF IInv, EndsKnown
  <2>3. \A u \in Terminals : command'[u] # "none" => term[u] \in {"open", "closed"}
    BY <1>b DEF IInv, EndsKnown
  <2>4. \A c \in disposing : command'[c] = "ended" \/ runs'[c] > 1 \/ term[c] = "closed"
    BY <2>1, <1>0 DEF IInv, EndsKnown, DisposesFinishedOnly, TypeOK, Terminals
  <2>. QED BY <1>a, <1>d, <2>1, <2>2, <2>3, <2>4 DEF IInv, EndsKnown, DisposesFinishedOnly
<1>4. StartsKnown'
  <2>. SUFFICES ASSUME NEW c \in listening \cap reported', command'[c] # "none"
                PROVE  /\ c \in started \/ Coming("start", c)'
                       /\ command'[c] = "ended" /\ term[c] = "open" =>
                            \E j \in DOMAIN events' :
                               /\ events'[j] = Event("end", c)
                               /\ c \in started \/ \E i \in 1..(j - 1) : events'[i] = Event("start", c)
    BY <1>a DEF StartsKnown
  <2>1. CASE c = t BY <2>1, <1>b, <1>d
  <2>2. CASE c # t
    <3>1. c \in reported /\ c \in Terminals BY <2>2, <1>c, <1>0 DEF TypeOK
    <3>2. command'[c] = command[c] BY <2>2, <3>1, <1>b
    <3>3. c \in started \/ Coming("start", c)' BY <3>1, <3>2, <1>d DEF IInv, StartsKnown
    <3>4. ASSUME command[c] = "ended", term[c] = "open"
          PROVE  \E j \in DOMAIN events' :
                    /\ events'[j] = Event("end", c)
                    /\ c \in started \/ \E i \in 1..(j - 1) : events'[i] = Event("start", c)
      <4>1. PICK j \in DOMAIN events :
               /\ events[j] = Event("end", c)
               /\ c \in started \/ \E i \in 1..(j - 1) : events[i] = Event("start", c)
        BY <3>1, <3>4 DEF IInv, StartsKnown
      <4>2. CASE events' = events BY <4>1, <4>2
      <4>3. CASE events' = Append(events, Event("start", t)) BY <4>1, <4>3, <1>0, StillOrdered
      <4>. QED BY <1>c, <4>2, <4>3
    <3>. QED BY <3>2, <3>3, <3>4
  <2>. QED BY <2>1, <2>2
<1>5. FreshKnown' BY <1>a DEF IInv, FreshKnown, FloatsFresh
<1>. QED BY <1>1, <1>2, <1>3, <1>4, <1>5 DEF IInv

\* A command ends; if its start was reported, its end is, and later.
LEMMA EndsIInv == ASSUME IInv, NEW t \in Terminals, CommandEnds(t) PROVE IInv'
<1>. USE DEF CommandEnds
<1>0. TypeOK /\ events \in Seq(EventSet) BY DEF IInv, TypeOK, EventSet
<1>a. UNCHANGED <<term, moved, active, reported, runs, disposing, hostVars, turned>> OBVIOUS
<1>b. /\ command[t] = "running" /\ command'[t] = "ended"
      /\ \A u \in Terminals \ {t} : command'[u] = command[u]
  BY <1>0 DEF TypeOK
<1>d. /\ events' \in Seq(EventSet)
      /\ \A k, u : Coming(k, u)' <=> Coming(k, u) \/ (k = "end" /\ u = t /\ t \in reported)
  <2>1. CASE t \in reported
    <3>1. events' = Append(events, Event("end", t)) BY <2>1
    <3>. QED BY <2>1, <3>1, <1>0, AppendComing
  <2>2. CASE t \notin reported BY <2>2, <1>0 DEF Coming
  <2>. QED BY <2>1, <2>2
<1>. USE DEF hostVars
<1>1. TypeOK'
  <2>1. command' \in [Terminals -> {"none", "running", "ended"}] BY <1>0 DEF TypeOK
  <2>2. events' \in Seq([kind : {"start", "end", "close"}, terminal : Terminals])
    BY <1>d DEF EventSet
  <2>. QED BY <1>0, <1>a, <2>1, <2>2 DEF TypeOK
<1>2. ListenersKnown' BY <1>a, <1>d DEF IInv, ListenersKnown
<1>3. EndsKnown'
  BY <1>0, <1>a, <1>b, <1>d DEF IInv, EndsKnown, DisposesFinishedOnly, TypeOK, Terminals
<1>4. StartsKnown'
  <2>. SUFFICES ASSUME NEW c \in listening \cap reported, command'[c] # "none"
                PROVE  /\ c \in started \/ Coming("start", c)'
                       /\ command'[c] = "ended" /\ term[c] = "open" =>
                            \E j \in DOMAIN events' :
                               /\ events'[j] = Event("end", c)
                               /\ c \in started \/ \E i \in 1..(j - 1) : events'[i] = Event("start", c)
    BY <1>a DEF StartsKnown
  <2>0. c \in Terminals /\ command[c] # "none" BY <1>0, <1>b DEF TypeOK
  <2>1. c \in started \/ Coming("start", c) BY <2>0 DEF IInv, StartsKnown
  <2>2. CASE c = t
    <3>1. events' = Append(events, Event("end", c)) BY <2>2
    <3>2. /\ Len(events) + 1 \in DOMAIN events' /\ events'[Len(events) + 1] = Event("end", c)
          /\ \A i \in DOMAIN events : events'[i] = events[i]
          /\ DOMAIN events = 1..Len(events) /\ Len(events) \in Nat
      BY <3>1, <2>0, <1>0, AppendComing
    <3>3. Coming("start", c) => \E i \in 1..(Len(events) + 1 - 1) : events'[i] = Event("start", c)
      BY <3>2 DEF Coming
    <3>. QED BY <2>1, <3>2, <3>3, <1>d
  <2>3. CASE c # t
    <3>1. command'[c] = command[c] BY <2>3, <2>0, <1>b
    <3>2. ASSUME command[c] = "ended", term[c] = "open"
          PROVE  \E j \in DOMAIN events' :
                    /\ events'[j] = Event("end", c)
                    /\ c \in started \/ \E i \in 1..(j - 1) : events'[i] = Event("start", c)
      <4>1. PICK j \in DOMAIN events :
               /\ events[j] = Event("end", c)
               /\ c \in started \/ \E i \in 1..(j - 1) : events[i] = Event("start", c)
        BY <3>2 DEF IInv, StartsKnown
      <4>2. CASE events' = events BY <4>1, <4>2
      <4>3. CASE events' = Append(events, Event("end", t)) BY <4>1, <4>3, <1>0, StillOrdered
      <4>. QED BY <4>2, <4>3
    <3>. QED BY <2>1, <3>1, <3>2, <1>d
  <2>. QED BY <2>2, <2>3
<1>5. FreshKnown' BY <1>a DEF IInv, FreshKnown, FloatsFresh
<1>. QED BY <1>1, <1>2, <1>3, <1>4, <1>5 DEF IInv

\* A terminal closes, by the user's hand or by the extension's.
LEMMA ClosesIInv ==
    ASSUME IInv, NEW t \in Terminals, term[t] = "open", Closes(t),
           disposing' \subseteq disposing, disposing \ {t} \subseteq disposing',
           UNCHANGED <<moved, reported, runs, hostVars, turned>>
    PROVE  IInv'
<1>. USE DEF Closes, hostVars
<1>0. TypeOK /\ events \in Seq(EventSet) BY DEF IInv, TypeOK, EventSet
<1>b. /\ term'[t] = "closed" /\ \A u \in Terminals \ {t} : term'[u] = term[u]
      /\ command'[t] = (IF command[t] = "running" THEN "ended" ELSE command[t])
      /\ \A u \in Terminals \ {t} : command'[u] = command[u]
      /\ \A u \in Terminals : command'[u] # "none" <=> command[u] # "none"
  BY <1>0 DEF TypeOK
<1>d. /\ events' = Append(events, Event("close", t)) /\ events' \in Seq(EventSet)
      /\ \A k, u : Coming(k, u)' <=> Coming(k, u) \/ (k = "close" /\ u = t)
  BY <1>0, AppendComing
<1>e. active' # t /\ (active # t => active' = active)
  BY <1>0, ButtonAssumption DEF TypeOK
<1>1. TypeOK'
  <2>1. command' \in [Terminals -> {"none", "running", "ended"}] BY <1>0 DEF TypeOK
  <2>2. term' \in [Terminals -> {"none", "opening", "open", "closed"}] BY <1>0 DEF TypeOK
  <2>3. active' \in {None} \cup {u \in Terminals : term'[u] = "open"}
    BY <1>0, <1>b DEF TypeOK
  <2>4. \A d \in Clicks : warning[d] # "none" => term'[d] = "none"
    BY <1>0, <1>b DEF TypeOK, Terminals
  <2>5. events' \in Seq([kind : {"start", "end", "close"}, terminal : Terminals])
    BY <1>d DEF EventSet
  <2>. QED BY <1>0, <2>1, <2>2, <2>3, <2>4, <2>5 DEF TypeOK
<1>2. ListenersKnown' BY <1>0, <1>b, <1>d DEF IInv, ListenersKnown, TypeOK, Terminals
<1>3. EndsKnown'
  BY <1>0, <1>b, <1>d DEF IInv, EndsKnown, DisposesFinishedOnly, TypeOK, Terminals
<1>4. StartsKnown'
  <2>. SUFFICES ASSUME NEW c \in listening \cap reported, command'[c] # "none"
                PROVE  /\ c \in started \/ Coming("start", c)'
                       /\ command'[c] = "ended" /\ term'[c] = "open" =>
                            \E j \in DOMAIN events' :
                               /\ events'[j] = Event("end", c)
                               /\ c \in started \/ \E i \in 1..(j - 1) : events'[i] = Event("start", c)
    BY DEF StartsKnown
  <2>0. c \in Terminals /\ command[c] # "none" BY <1>0, <1>b DEF TypeOK
  <2>1. c \in started \/ Coming("start", c)' BY <2>0, <1>d DEF IInv, StartsKnown
  <2>2. ASSUME command'[c] = "ended", term'[c] = "open"
        PROVE  \E j \in DOMAIN events' :
                  /\ events'[j] = Event("end", c)
                  /\ c \in started \/ \E i \in 1..(j - 1) : events'[i] = Event("start", c)
    <3>1. command[c] = "ended" /\ term[c] = "open" BY <2>0, <2>2, <1>b
    <3>2. PICK j \in DOMAIN events :
             /\ events[j] = Event("end", c)
             /\ c \in started \/ \E i \in 1..(j - 1) : events[i] = Event("start", c)
      BY <3>1 DEF IInv, StartsKnown
    <3>. QED BY <3>2, <1>0, <1>d, StillOrdered
  <2>. QED BY <2>1, <2>2
<1>5. FreshKnown'
  BY <1>0, <1>b, <1>e DEF IInv, FreshKnown, FloatsFresh, TypeOK, Terminals
<1>. QED BY <1>1, <1>2, <1>3, <1>4, <1>5 DEF IInv

\* A call of dispose arrives.
LEMMA DisposedIInv == ASSUME IInv, NEW c \in Clicks, Disposed(c) PROVE IInv'
<1>0. TypeOK /\ c \in Terminals BY DEF IInv, Terminals
<1>a. /\ c \in disposing /\ disposing' = disposing \ {c}
      /\ UNCHANGED <<moved, reported, runs, hostVars, turned>>
  BY DEF Disposed
<1>1. CASE term[c] = "open"
  <2>1. Closes(c) BY <1>1 DEF Disposed
  <2>. QED BY <1>0, <1>1, <1>a, <2>1, ClosesIInv
<1>2. CASE term[c] # "open"
  <2>. USE DEF hostVars
  <2>1. UNCHANGED <<term, command, active, events>> BY <1>2 DEF Disposed
  <2>2. term[c] = "closed"
    <3>1. command[c] = "ended" \/ runs[c] > 1 \/ term[c] = "closed"
      BY <1>a DEF IInv, EndsKnown, DisposesFinishedOnly
    <3>2. runs[c] \in Nat BY <1>0 DEF TypeOK
    <3>. QED BY <1>0, <1>2, <3>1, <3>2 DEF IInv, EndsKnown
  <2>3. TypeOK' BY <1>0, <1>a, <2>1 DEF TypeOK
  <2>4. ListenersKnown' BY <1>a, <2>1, <2>2 DEF IInv, ListenersKnown, Coming
  <2>5. EndsKnown' BY <1>a, <2>1 DEF IInv, EndsKnown, DisposesFinishedOnly, Coming
  <2>6. StartsKnown' BY <1>a, <2>1 DEF IInv, StartsKnown, Coming
  <2>7. FreshKnown' BY <1>a, <2>1 DEF IInv, FreshKnown, FloatsFresh
  <2>. QED BY <2>3, <2>4, <2>5, <2>6, <2>7 DEF IInv
<1>. QED BY <1>1, <1>2

-----------------------------------------------------------------------------
(***************************************************************************)
(* Invariants of the specification.                                        *)
(***************************************************************************)

\* Every step preserves the inductive invariant.
LEMMA NextIInv == IInv /\ [Next]_vars => IInv'
<1>. SUFFICES ASSUME IInv, [Next]_vars PROVE IInv' OBVIOUS
<1>1. ASSUME NEW t \in Terminals, UserCloses(t) PROVE IInv'
  BY <1>1, ClosesIInv DEF UserCloses
<1>2. CASE UNCHANGED vars
  <2>. USE <1>2 DEF vars, windowVars, hostVars
  <2>1. TypeOK' BY DEF IInv, TypeOK
  <2>2. ListenersKnown' BY DEF IInv, ListenersKnown, Coming
  <2>3. EndsKnown' BY DEF IInv, EndsKnown, DisposesFinishedOnly, Coming
  <2>4. StartsKnown' BY DEF IInv, StartsKnown, Coming
  <2>5. FreshKnown' BY DEF IInv, FreshKnown, FloatsFresh
  <2>. QED BY <2>1, <2>2, <2>3, <2>4, <2>5 DEF IInv
<1>. QED
  BY <1>1, <1>2, ClickIInv, WarningIInv, TimerIInv, HearsIInv, OpensIInv, ActivatesIInv,
     StartsIInv, EndsIInv, DisposedIInv
  DEF Next

\* What the host knows of the terminals, and what is on its way between them, however
\* clicks, commands, closings and reports interleave.
THEOREM Inductive == Spec => []IInv
BY InitIInv, NextIInv, PTL DEF Spec

\* No listener outlives its terminal once the host has heard of the closing.
THEOREM NoListenerLeaksHolds == Spec => []NoListenerLeaks
<1>1. IInv => NoListenerLeaks BY DEF IInv, ListenersKnown, NoListenerLeaks, Coming
<1>. QED BY <1>1, Inductive, PTL

\* The extension closes a terminal only when a command in that very one has ended.
THEOREM DisposesFinishedOnlyHolds == Spec => []DisposesFinishedOnly
<1>1. IInv => DisposesFinishedOnly BY DEF IInv, EndsKnown
<1>. QED BY <1>1, Inductive, PTL

\* The timer of line 83 moves the terminal of its own click when it finds that one open
\* and the user has turned to no other, and never when it is not open yet or closed again.
THEOREM FloatsFreshHolds == Spec => []FloatsFresh
<1>1. IInv => FloatsFresh BY DEF IInv, FreshKnown
<1>. QED BY <1>1, Inductive, PTL

\* With autoClose, a reported command that has ended has its terminal closed, or what
\* closes it is under way: nothing is lost between the window and the host.
THEOREM AutoCloseUnderWayHolds == Spec => []AutoCloseUnderWay
<1>1. IInv => AutoCloseUnderWay
  <2>. SUFFICES ASSUME IInv, NEW c \in autoClose \cap reported, command[c] = "ended",
                       term[c] # "closed", c \notin disposing
                PROVE  Coming("end", c)
    BY DEF AutoCloseUnderWay
  <2>1. c \in listening BY DEF IInv, ListenersKnown
  <2>2. c \in Terminals BY DEF IInv, TypeOK
  <2>3. term[c] = "open" BY <2>2 DEF IInv, EndsKnown
  <2>. QED BY <2>1, <2>3 DEF IInv, StartsKnown, Coming
<1>. QED BY <1>1, Inductive, PTL

=============================================================================
