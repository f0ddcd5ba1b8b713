------------------------ MODULE ContextSync_proofs ------------------------
(* Proofs about ContextSync, for any number of edits. *)
EXTENDS ContextSync, TLAPS

\* The initial state satisfies the inductive invariant.
LEMMA InitIInv == Init => IInv
<1>. SUFFICES ASSUME Init PROVE IInv OBVIOUS
<1>. USE ContextAssumption DEF Init, heard, Syncs
<1>1. TypeOK
  <2>1. /\ settings \in [Ids -> Raw] /\ host \in [Ids -> Raw] /\ edits \in 0..MaxEdits
        /\ news \in Seq([Ids -> Raw]) /\ Len(news) <= edits /\ calls \in Seq(Call)
    OBVIOUS
  <2>2. active \in BOOLEAN /\ context \in [Ids -> BOOLEAN] BY Zenon
  <2>3. /\ sync \in [Syncs -> {"none", "run", "resume", "debug", "done"}]
        /\ shown \in [Ids -> 0..MaxEdits]
    OBVIOUS
  <2>. QED BY <2>1, <2>2, <2>3 DEF TypeOK
<1>2. NewsEndAtSettings BY DEF NewsEndAtSettings
<1>3. CallsAwaited BY DEF CallsAwaited
<1>4. NotYetStarted BY DEF NotYetStarted
<1>5. RunUpToDate BY DEF RunUpToDate
<1>6. DebugUpToDate BY DEF DebugUpToDate
<1>7. Ordered BY DEF Ordered, Ids
<1>. QED BY <1>1, <1>2, <1>3, <1>4, <1>5, <1>6, <1>7 DEF IInv

\* The calls on their way have the fields they should have.
LEMMA CallFields ==
    ASSUME TypeOK
    PROVE  /\ Len(calls) \in Nat /\ DOMAIN calls = 1..Len(calls)
           /\ \A i \in 1..Len(calls) :
                /\ calls[i].id \in Ids /\ calls[i].sync \in Syncs
                /\ calls[i].edit \in 0..MaxEdits
<1>1. calls \in Seq(Call) BY DEF TypeOK
<1>2. \A i \in 1..Len(calls) : calls[i] \in Call BY <1>1
<1>3. \A c \in Call : c.id \in Ids /\ c.sync \in Syncs /\ c.edit \in 0..MaxEdits
  BY DEF Call
<1>. QED BY <1>1, <1>2, <1>3

\* What line 48 adds to the calls on their way.
LEMMA PostFacts ==
    ASSUME TypeOK, NEW k \in Syncs, NEW id \in Ids, NEW cfg \in [Ids -> Raw],
           NEW edit \in 0..MaxEdits, Post(k, id, cfg, edit)
    PROVE  /\ calls' \in Seq(Call) /\ Len(calls) \in Nat /\ Len(calls') = Len(calls) + 1
           /\ DOMAIN calls = 1..Len(calls) /\ DOMAIN calls' = 1..(Len(calls) + 1)
           /\ \A i \in 1..Len(calls) : calls'[i] = calls[i]
           /\ calls'[Len(calls) + 1].id = id /\ calls'[Len(calls) + 1].sync = k
           /\ calls'[Len(calls) + 1].on = HasScript(cfg[id])
           /\ calls'[Len(calls) + 1].edit = edit
           /\ sync' = [sync EXCEPT ![k] = id]
<1>. DEFINE c == [id |-> id, on |-> HasScript(cfg[id]), sync |-> k, edit |-> edit]
<1>1. c \in Call BY DEF Call, HasScript
<1>2. calls \in Seq(Call) /\ calls' = Append(calls, c) /\ sync' = [sync EXCEPT ![k] = id]
  BY DEF Post, TypeOK
<1>. QED BY <1>1, <1>2

\* A run of syncContext starts (at activation, or because news arrived) or goes
\* on, and posts what the host's copy of the settings says about one button.
LEMMA PostIInv ==
    ASSUME IInv, NEW k \in Syncs, NEW id \in Ids,
           active', host' \in [Ids -> Raw], heard' \in 0..MaxEdits, heard' >= heard,
           k <= heard', Post(k, id, host', heard'),
           \/ id = "run" /\ sync[k] = "none"
           \/ id = "debug" /\ sync[k] = "resume" /\ active /\ host' = host /\ heard' = heard,
           id = "run" /\ active => k > heard,
           UNCHANGED <<context, shown>>
    PROVE  CallsAwaited' /\ NotYetStarted' /\ RunUpToDate' /\ DebugUpToDate' /\ Ordered'
<1>0. TypeOK BY DEF IInv
<1>. DEFINE n == Len(calls) + 1
<1>1. /\ calls' \in Seq(Call) /\ Len(calls) \in Nat /\ DOMAIN calls = 1..Len(calls)
      /\ DOMAIN calls' = 1..n /\ \A i \in 1..Len(calls) : calls'[i] = calls[i]
      /\ calls'[n].id = id /\ calls'[n].sync = k /\ calls'[n].on = HasScript(host'[id])
      /\ calls'[n].edit = heard' /\ sync' = [sync EXCEPT ![k] = id]
  BY <1>0, PostFacts
<1>. HIDE DEF n
<1>2. n = Len(calls) + 1 BY DEF n
<1>3. CallsAwaited'
  <2>0. CallsAwaited BY DEF IInv
  <2>1. /\ \A i \in 1..Len(calls) : calls[i].sync \in Syncs /\ calls[i].id \in Ids
        /\ \A m \in Syncs : sync'[m] = IF m = k THEN id ELSE sync[m]
    BY <1>0, <1>1, CallFields DEF TypeOK
  <2>2. \A i \in 1..Len(calls) : calls[i].sync # k
    BY <1>1, <2>0, <2>1 DEF CallsAwaited, Ids
  <2>3. \A i \in 1..n : sync'[calls'[i].sync] = calls'[i].id
    <3>1. \A i \in 1..Len(calls) : sync'[calls'[i].sync] = calls'[i].id
      BY <1>1, <2>0, <2>1, <2>2 DEF CallsAwaited
    <3>2. sync'[calls'[n].sync] = calls'[n].id BY <1>1, <2>1
    <3>. QED BY <1>1, <1>2, <3>1, <3>2
  <2>4. \A i, j \in 1..n : i # j => calls'[i].sync # calls'[j].sync
    BY <1>1, <1>2, <2>0, <2>2, SMTT(20) DEF CallsAwaited
  <2>5. \A m \in Syncs : sync'[m] = "run" =>
          \E i \in 1..n : calls'[i].sync = m /\ calls'[i].id = "run"
    BY <1>1, <1>2, <2>0, <2>1 DEF CallsAwaited
  <2>. QED BY <1>1, <2>3, <2>4, <2>5 DEF CallsAwaited
<1>4. NotYetStarted'
  BY <1>0, <1>1, ContextAssumption DEF IInv, NotYetStarted, TypeOK, Syncs, heard
<1>5. UpToDate(id)' BY <1>1, <1>2 DEF UpToDate
<1>6. RunUpToDate'
  <2>1. CASE id = "run" BY <1>5, <2>1 DEF RunUpToDate
  <2>2. CASE id = "debug" BY <1>1, <1>2, <2>2 DEF IInv, RunUpToDate, UpToDate
  <2>. QED BY <2>1, <2>2 DEF Ids
<1>7. DebugUpToDate'
  <2>1. CASE id = "run" BY <1>0, <1>1, <2>1 DEF DebugUpToDate, TypeOK
  <2>2. CASE id = "debug" BY <1>5, <2>2 DEF DebugUpToDate
  <2>. QED BY <2>1, <2>2 DEF Ids
<1>8. Ordered'
  <2>. DEFINE h == heard
              hh == heard'
  <2>1. h \in Nat /\ hh \in Nat /\ h <= hh BY <1>0 DEF TypeOK, heard
  <2>a. Ordered /\ DOMAIN calls = 1..Len(calls) BY <1>1 DEF IInv
  <2>2. /\ \A i \in 1..Len(calls) : shown[calls[i].id] <= calls[i].edit /\ calls[i].edit <= h
        /\ \A id2 \in Ids : shown[id2] <= h
    BY <2>a DEF Ordered
  <2>3. \A i \in 1..Len(calls) : calls[i].edit \in Nat /\ calls[i].id \in Ids
    BY <1>0, CallFields, ContextAssumption
  <2>4. \A id2 \in Ids : shown[id2] \in Nat BY <1>0 DEF TypeOK
  <2>5. calls'[n].edit = hh BY <1>1
  <2>. HIDE DEF h, hh
  <2>6. \A i \in 1..n : shown[calls'[i].id] <= calls'[i].edit /\ calls'[i].edit <= hh
    <3>1. \A i \in 1..Len(calls) : shown[calls'[i].id] <= calls'[i].edit /\ calls'[i].edit <= hh
      BY <1>1, <2>1, <2>2, <2>3
    <3>2. shown[calls'[n].id] <= calls'[n].edit /\ calls'[n].edit <= hh
      BY <1>1, <2>1, <2>2, <2>4, <2>5
    <3>. QED BY <1>1, <1>2, <3>1, <3>2
  <2>7. \A i, j \in 1..n :
          i < j /\ calls'[i].id = calls'[j].id => calls'[i].edit <= calls'[j].edit
    <3>1. \A i, j \in 1..Len(calls) :
            i < j /\ calls[i].id = calls[j].id => calls[i].edit <= calls[j].edit
      BY <2>a DEF Ordered
    <3>2. \A i \in 1..Len(calls) : calls'[i].edit <= calls'[n].edit
      BY <1>1, <1>2, <2>5, <2>6
    <3>. QED BY <1>1, <1>2, <3>1, <3>2
  <2>8. \A id2 \in Ids : shown[id2] <= hh BY <2>1, <2>2, <2>4
  <2>. QED BY <1>1, <2>6, <2>7, <2>8 DEF Ordered, hh
<1>. QED BY <1>3, <1>4, <1>6, <1>7, <1>8

\* A user edits the settings: the news end with them.
LEMMA UserEditsIInv ==
    ASSUME IInv, NEW new \in [Ids -> Raw], UserEdits(new)
    PROVE  IInv'
<1>. USE DEF UserEdits
<1>0. TypeOK BY DEF IInv
<1>a. /\ news' \in Seq([Ids -> Raw]) /\ Len(news') = Len(news) + 1 /\ Len(news) \in Nat
      /\ news' # <<>> /\ news'[Len(news')] = new
  BY <1>0 DEF TypeOK
<1>b. heard' = heard BY <1>0, <1>a DEF TypeOK, heard
<1>1. TypeOK'
  <2>1. edits' \in 0..MaxEdits /\ Len(news') <= edits'
    BY <1>0, <1>a, ContextAssumption DEF TypeOK
  <2>. QED BY <1>0, <1>a, <2>1 DEF TypeOK
<1>2. NewsEndAtSettings' BY <1>a DEF NewsEndAtSettings
<1>3. CallsAwaited' BY DEF IInv, CallsAwaited
<1>4. NotYetStarted' BY <1>b DEF IInv, NotYetStarted
<1>5. RunUpToDate' BY DEF IInv, RunUpToDate, UpToDate
<1>6. DebugUpToDate' BY DEF IInv, DebugUpToDate, UpToDate
<1>7. Ordered' BY <1>b DEF IInv, Ordered
<1>. QED BY <1>1, <1>2, <1>3, <1>4, <1>5, <1>6, <1>7 DEF IInv

\* The extension is activated.
LEMMA ActivateIInv == ASSUME IInv, Activate PROVE IInv'
<1>. USE DEF Activate
<1>0. TypeOK BY DEF IInv
<1>a. 0 \in Syncs /\ "run" \in Ids /\ heard \in 0..MaxEdits /\ heard' = heard
  BY <1>0, ContextAssumption DEF TypeOK, Syncs, Ids, heard
<1>b. Post(0, "run", host', heard') /\ host' \in [Ids -> Raw] BY <1>0, <1>a DEF TypeOK
<1>c. sync[0] = "none" BY <1>a DEF IInv, NotYetStarted
<1>1. TypeOK'
  <2>1. calls' \in Seq(Call) /\ sync' = [sync EXCEPT ![0] = "run"]
    BY <1>0, <1>a, <1>b, PostFacts
  <2>. QED BY <1>0, <2>1 DEF TypeOK
<1>2. NewsEndAtSettings' BY DEF IInv, NewsEndAtSettings
<1>3. CallsAwaited' /\ NotYetStarted' /\ RunUpToDate' /\ DebugUpToDate' /\ Ordered'
  BY <1>a, <1>b, <1>c, PostIInv
<1>. QED BY <1>1, <1>2, <1>3 DEF IInv

\* News arrive, and start a run once the extension is active.
LEMMA SettingsArriveIInv == ASSUME IInv, SettingsArrive PROVE IInv'
<1>. USE DEF SettingsArrive
<1>0. TypeOK BY DEF IInv
<1>a. /\ Len(news) \in Nat \ {0} /\ news' \in Seq([Ids -> Raw]) /\ Len(news') = Len(news) - 1
      /\ host' \in [Ids -> Raw] /\ host' = news[1]
      /\ \A i \in 1..Len(news') : news'[i] = news[i + 1]
  BY <1>0 DEF TypeOK
<1>b. heard' = heard + 1 /\ heard \in Nat /\ heard' \in 0..MaxEdits
  BY <1>0, <1>a, ContextAssumption DEF TypeOK, heard
<1>2. NewsEndAtSettings'
  <2>1. news[Len(news)] = settings BY DEF IInv, NewsEndAtSettings
  <2>2. CASE Len(news) = 1
    <3>1. news' = <<>> BY <1>a, <2>2
    <3>. QED BY <1>a, <2>1, <2>2, <3>1 DEF NewsEndAtSettings
  <2>3. CASE Len(news) # 1
    <3>1. Len(news') \in 1..Len(news') BY <1>a, <2>3
    <3>a. ASSUME NEW t, t = <<>> PROVE Len(t) = 0 BY <3>a
    <3>b. news' # <<>> BY <3>1, <3>a
    <3>2. news'[Len(news')] = news[Len(news)] BY <1>a, <3>1
    <3>. QED BY <2>1, <3>b, <3>2 DEF NewsEndAtSettings
  <2>. QED BY <2>2, <2>3
<1>3. CASE active
  <2>1. /\ heard' \in Syncs /\ "run" \in Ids
        /\ sync[heard'] = "none" /\ heard' > heard /\ heard' >= heard /\ heard' <= heard'
    BY <1>b DEF IInv, NotYetStarted, Syncs, Ids
  <2>2. Post(heard', "run", host', heard') BY <1>3, <1>b
  <2>3. TypeOK'
    <3>1. calls' \in Seq(Call) /\ sync' = [sync EXCEPT ![heard'] = "run"]
      BY <1>0, <1>a, <1>b, <2>1, <2>2, PostFacts
    <3>. QED BY <1>0, <1>a, <2>1, <3>1 DEF TypeOK
  <2>4. CallsAwaited' /\ NotYetStarted' /\ RunUpToDate' /\ DebugUpToDate' /\ Ordered'
    BY <1>3, <1>a, <1>b, <2>1, <2>2, PostIInv
  <2>. QED BY <1>2, <2>3, <2>4 DEF IInv
<1>4. CASE ~active
  <2>1. TypeOK' BY <1>0, <1>4, <1>a DEF TypeOK
  <2>2. CallsAwaited' BY <1>4 DEF IInv, CallsAwaited
  <2>3. NotYetStarted' BY <1>4 DEF IInv, NotYetStarted
  <2>4. RunUpToDate' /\ DebugUpToDate' BY <1>4 DEF RunUpToDate, DebugUpToDate
  <2>5. Ordered'
    <3>1. \A i \in DOMAIN calls : calls[i].edit \in Nat BY <1>0, CallFields
    <3>2. \A id \in Ids : shown[id] \in Nat BY <1>0 DEF TypeOK
    <3>. QED BY <1>4, <1>b, <3>1, <3>2 DEF IInv, Ordered
  <2>. QED BY <1>2, <2>1, <2>2, <2>3, <2>4, <2>5 DEF IInv
<1>. QED BY <1>3, <1>4

\* The first call is applied: its run goes on, or ends.
LEMMA ApplyContextIInv == ASSUME IInv, ApplyContext PROVE IInv'
<1>0. TypeOK BY DEF IInv
<1>. DEFINE c == Head(calls)
            n == Len(calls)
            next == IF c.id = "run" THEN "resume" ELSE "done"
<1>1. /\ n \in Nat \ {0} /\ DOMAIN calls = 1..n /\ c = calls[1]
      /\ calls' \in Seq(Call) /\ Len(calls') = n - 1 /\ DOMAIN calls' = 1..(n - 1)
      /\ \A i \in 1..(n - 1) : calls'[i] = calls[i + 1]
  BY <1>0 DEF ApplyContext, TypeOK
<1>2. /\ c.id \in Ids /\ c.sync \in Syncs /\ c.edit \in 0..MaxEdits /\ c.on \in BOOLEAN
      /\ \A i \in 1..n : /\ calls[i].id \in Ids /\ calls[i].sync \in Syncs
                         /\ calls[i].edit \in 0..MaxEdits
  <2>1. calls[1] \in Call BY <1>0, <1>1 DEF TypeOK
  <2>2. c.on \in BOOLEAN BY <1>1, <2>1 DEF Call
  <2>. QED BY <1>0, <1>1, <2>2, CallFields
<1>3. /\ context' = [context EXCEPT ![c.id] = c.on]
      /\ shown' = [shown EXCEPT ![c.id] = c.edit]
      /\ sync' = [sync EXCEPT ![c.sync] = next]
      /\ UNCHANGED <<settings, edits, news, host, active>>
  BY DEF ApplyContext
<1>4. heard' = heard BY <1>3 DEF heard
<1>. HIDE DEF c, n, next
<1>5. next \in {"resume", "done"} /\ (c.id = "run" => next = "resume") BY DEF next
<1>a. \A i \in 1..(n - 1) : i + 1 \in 1..n /\ i + 1 # 1 /\ calls'[i] = calls[i + 1]
  BY <1>1
<1>6. ASSUME NEW i \in 1..n, i # 1 PROVE calls[i].sync # c.sync
  <2>1. 1 \in 1..n BY <1>1
  <2>. QED BY <1>1, <1>6, <2>1 DEF IInv, CallsAwaited
<1>7. TypeOK'
  <2>1. context' \in [Ids -> BOOLEAN] BY <1>0, <1>2, <1>3 DEF TypeOK
  <2>. QED BY <1>0, <1>1, <1>2, <1>3, <1>5, <2>1 DEF TypeOK
<1>8. NewsEndAtSettings' BY <1>3 DEF IInv, NewsEndAtSettings
<1>9. CallsAwaited'
  <2>0. CallsAwaited BY DEF IInv
  <2>1. \A m \in Syncs : sync'[m] = IF m = c.sync THEN next ELSE sync[m]
    BY <1>0, <1>2, <1>3 DEF TypeOK
  <2>a. /\ \A i \in 1..n : sync[calls[i].sync] = calls[i].id
        /\ \A i, j \in 1..n : i # j => calls[i].sync # calls[j].sync
    BY <1>1, <2>0 DEF CallsAwaited
  <2>2. ASSUME NEW i \in 1..(n - 1) PROVE sync'[calls'[i].sync] = calls'[i].id
    BY <1>a, <1>2, <1>6, <2>a, <2>1
  <2>3. ASSUME NEW i \in 1..(n - 1), NEW j \in 1..(n - 1), i # j
        PROVE  calls'[i].sync # calls'[j].sync
    <3>1. i + 1 # j + 1 BY <1>1, <2>3
    <3>. QED BY <1>a, <2>a, <3>1
  <2>4. ASSUME NEW m \in Syncs, sync'[m] = "run"
        PROVE  \E i \in 1..(n - 1) : calls'[i].sync = m /\ calls'[i].id = "run"
    <3>1. m # c.sync /\ sync[m] = "run" BY <1>5, <2>1, <2>4
    <3>2. PICK i \in 1..n : calls[i].sync = m /\ calls[i].id = "run"
      BY <1>1, <2>0, <3>1 DEF CallsAwaited
    <3>3. i # 1 BY <1>1, <3>1, <3>2
    <3>4. i - 1 \in 1..(n - 1) /\ calls'[i - 1] = calls[i] BY <1>1, <3>3
    <3>. QED BY <3>2, <3>4
  <2>. QED BY <1>1, <2>2, <2>3, <2>4 DEF CallsAwaited
<1>10. NotYetStarted'
  <2>1. sync[c.sync] = c.id BY <1>1 DEF IInv, CallsAwaited
  <2>. QED BY <1>0, <1>2, <1>3, <1>4, <2>1 DEF IInv, NotYetStarted, TypeOK, Ids
<1>11. ASSUME NEW id \in Ids, UpToDate(id) PROVE UpToDate(id)'
  <2>1. ASSUME NEW i \in 1..(n - 1), calls'[i].id = id,
               \A j \in 1..(n - 1) : j > i => calls'[j].id # id
        PROVE  calls'[i].on = HasScript(host[id])
    <3>1. i + 1 \in 1..n /\ calls[i + 1].id = id BY <1>1, <2>1
    <3>2. ASSUME NEW j \in 1..n, j > i + 1 PROVE calls[j].id # id
      <4>1. j - 1 \in 1..(n - 1) /\ j - 1 > i /\ calls'[j - 1] = calls[j] BY <1>1, <3>2
      <4>. QED BY <2>1, <4>1
    <3>. QED BY <1>1, <1>11, <3>1, <3>2 DEF UpToDate
  <2>2. ASSUME \A i \in 1..(n - 1) : calls'[i].id # id
        PROVE  context'[id] = HasScript(host[id])
    <3>1. ASSUME NEW j \in 2..n PROVE calls[j].id # id
      <4>1. j - 1 \in 1..(n - 1) /\ calls'[j - 1] = calls[j] BY <1>1
      <4>. QED BY <2>2, <4>1
    <3>2. CASE c.id = id
      <4>1. c.on = HasScript(host[id]) BY <1>1, <1>11, <3>1, <3>2 DEF UpToDate
      <4>. QED BY <1>0, <1>3, <3>2, <4>1 DEF TypeOK
    <3>3. CASE c.id # id
      <4>1. \A i \in 1..n : calls[i].id # id BY <1>1, <3>1, <3>3
      <4>2. context[id] = HasScript(host[id]) BY <1>1, <1>11, <4>1 DEF UpToDate
      <4>. QED BY <1>0, <1>2, <1>3, <3>3, <4>2 DEF TypeOK
    <3>. QED BY <3>2, <3>3
  <2>. QED BY <1>1, <1>3, <2>1, <2>2 DEF UpToDate
<1>12. RunUpToDate' BY <1>3, <1>11 DEF IInv, RunUpToDate, Ids
<1>13. DebugUpToDate'
  <2>. SUFFICES ASSUME active
                PROVE  UpToDate("debug")' \/ \E k \in Syncs : sync'[k] \in {"run", "resume"}
    BY <1>3 DEF DebugUpToDate
  <2>1. CASE UpToDate("debug") BY <1>11, <2>1 DEF Ids
  <2>2. CASE \E k \in Syncs : sync[k] \in {"run", "resume"}
    <3>1. PICK k \in Syncs : sync[k] \in {"run", "resume"} BY <2>2
    <3>2. sync[c.sync] = c.id BY <1>1 DEF IInv, CallsAwaited
    <3>3. sync'[k] \in {"run", "resume"}
      BY <1>0, <1>2, <1>3, <1>5, <3>1, <3>2 DEF TypeOK, Ids
    <3>. QED BY <3>3
  <2>. QED BY <2>1, <2>2 DEF IInv, DebugUpToDate
<1>14. Ordered'
  <2>0. Ordered BY DEF IInv
  <2>1. \A id \in Ids : shown'[id] = IF id = c.id THEN c.edit ELSE shown[id]
    BY <1>0, <1>2, <1>3 DEF TypeOK
  <2>a. /\ \A i \in 1..n : shown[calls[i].id] <= calls[i].edit /\ calls[i].edit <= heard
        /\ \A i, j \in 1..n :
             i < j /\ calls[i].id = calls[j].id => calls[i].edit <= calls[j].edit
    BY <1>1, <2>0 DEF Ordered
  <2>2. ASSUME NEW i \in 1..(n - 1)
        PROVE  shown'[calls'[i].id] <= calls'[i].edit /\ calls'[i].edit <= heard
    <3>1. 1 \in 1..n /\ 1 < i + 1 BY <1>1
    <3>2. c.id = calls[i + 1].id => c.edit <= calls[i + 1].edit BY <1>1, <1>a, <2>a, <3>1
    <3>. QED BY <1>a, <1>2, <2>a, <2>1, <3>2
  <2>3. ASSUME NEW i \in 1..(n - 1), NEW j \in 1..(n - 1), i < j, calls'[i].id = calls'[j].id
        PROVE  calls'[i].edit <= calls'[j].edit
    <3>1. i + 1 < j + 1 BY <1>1, <2>3
    <3>. QED BY <1>a, <2>a, <2>3, <3>1
  <2>4. \A id \in Ids : shown'[id] <= heard BY <1>1, <2>0, <2>1 DEF Ordered
  <2>. QED BY <1>1, <1>4, <2>2, <2>3, <2>4 DEF Ordered
<1>. QED BY <1>7, <1>8, <1>9, <1>10, <1>12, <1>13, <1>14 DEF IInv

\* A run of syncContext comes to the second button.
LEMMA ResumeIInv == ASSUME IInv, NEW k \in Syncs, Resume(k) PROVE IInv'
<1>. USE DEF Resume
<1>0. TypeOK BY DEF IInv
<1>a. "debug" \in Ids /\ heard \in 0..MaxEdits /\ heard' = heard
  BY <1>0, ContextAssumption DEF TypeOK, Ids, heard
<1>b. Post(k, "debug", host', heard') /\ host' \in [Ids -> Raw] BY <1>0, <1>a DEF TypeOK
<1>c. active /\ k <= heard
  BY <1>a DEF IInv, NotYetStarted, Syncs
<1>1. TypeOK'
  <2>1. calls' \in Seq(Call) /\ sync' = [sync EXCEPT ![k] = "debug"]
    BY <1>0, <1>a, <1>b, PostFacts
  <2>. QED BY <1>0, <2>1 DEF TypeOK
<1>2. NewsEndAtSettings' BY DEF IInv, NewsEndAtSettings
<1>3. CallsAwaited' /\ NotYetStarted' /\ RunUpToDate' /\ DebugUpToDate' /\ Ordered'
  BY <1>a, <1>b, <1>c, PostIInv
<1>. QED BY <1>1, <1>2, <1>3 DEF IInv

\* Every step keeps the inductive invariant.
LEMMA NextIInv == IInv /\ [Next]_vars => IInv'
<1>. SUFFICES ASSUME IInv, [Next]_vars PROVE IInv' OBVIOUS
<1>1. ASSUME NEW new \in [Ids -> Raw], UserEdits(new) PROVE IInv' BY <1>1, UserEditsIInv
<1>2. CASE Activate BY <1>2, ActivateIInv
<1>3. CASE SettingsArrive BY <1>3, SettingsArriveIInv
<1>4. CASE ApplyContext BY <1>4, ApplyContextIInv
<1>5. ASSUME NEW k \in Syncs, Resume(k) PROVE IInv' BY <1>5, ResumeIInv
<1>6. CASE UNCHANGED vars
  BY <1>6 DEF vars, IInv, TypeOK, NewsEndAtSettings, CallsAwaited, NotYetStarted,
     RunUpToDate, DebugUpToDate, UpToDate, Ordered, heard
<1>. QED BY <1>1, <1>2, <1>3, <1>4, <1>5, <1>6 DEF Next

\* The inductive invariant holds throughout.
THEOREM Inductive == Spec => []IInv
  BY InitIInv, NextIInv, PTL DEF Spec

\* With nothing on its way, each button is shown exactly when it has a script.
THEOREM ButtonsMatchSettingsHolds == Spec => []ButtonsMatchSettings
<1>1. IInv => ButtonsMatchSettings
  <2>. SUFFICES ASSUME IInv, Quiet, NEW id \in Ids
                PROVE  context[id] = HasScript(settings[id])
    BY DEF ButtonsMatchSettings
  <2>1. DOMAIN calls = {} BY DEF Quiet
  <2>2. host = settings BY DEF IInv, NewsEndAtSettings, Quiet
  <2>3. \A k \in Syncs : sync[k] \notin {"run", "resume"}
    BY <2>1 DEF IInv, CallsAwaited, Quiet
  <2>4. UpToDate("run") /\ UpToDate("debug")
    BY <2>3 DEF IInv, RunUpToDate, DebugUpToDate, Quiet
  <2>. QED BY <2>1, <2>2, <2>4 DEF UpToDate, Ids
<1>. QED BY <1>1, Inductive, PTL

\* No button goes back to what an earlier edit asked for.
THEOREM NeverBackwardsHolds == Spec => NeverBackwards
<1>. DEFINE Forwards == \A id \in Ids : shown'[id] >= shown[id]
<1>1. IInv /\ [Next]_vars => [Forwards]_vars
  <2>. SUFFICES ASSUME IInv, Next PROVE Forwards OBVIOUS
  <2>0. TypeOK BY DEF IInv
  <2>1. \A id \in Ids : shown[id] \in Nat BY <2>0 DEF TypeOK
  <2>2. CASE ApplyContext
    <3>1. calls # <<>> /\ shown' = [shown EXCEPT ![Head(calls).id] = Head(calls).edit]
      BY <2>2 DEF ApplyContext
    <3>2. 1 \in DOMAIN calls /\ Head(calls) = calls[1]
      BY <2>0, <3>1 DEF TypeOK
    <3>3. shown[calls[1].id] <= calls[1].edit BY <3>2 DEF IInv, Ordered
    <3>4. calls[1].id \in Ids /\ calls[1].edit \in Nat
      BY <2>0, <3>2, CallFields, ContextAssumption
    <3>. QED BY <2>0, <2>1, <3>1, <3>2, <3>3, <3>4 DEF TypeOK
  <2>3. CASE ~ApplyContext
    <3>1. UNCHANGED shown
      BY <2>3 DEF Next, UserEdits, Activate, SettingsArrive, Resume
    <3>. QED BY <2>1, <3>1
  <2>. QED BY <2>2, <2>3
<1>. QED BY <1>1, Inductive, PTL DEF Spec, NeverBackwards

=============================================================================
