-------------------------- MODULE DddScript_proofs --------------------------
(* Proofs about DddScript, for any launches, directories and commands. *)
EXTENDS DddScript, TLAPS

\* The file that line 223 creates is empty.
LEMMA FirstNone == ASSUME NEW l PROVE FirstCommands(l, 0) = <<>>
  BY DEF FirstCommands

\* Each of lines 225-231 extends the first n commands to the first n + 1.
LEMMA FirstNext ==
    ASSUME NEW l \in Launches, NEW n \in 0..NumCommands, n + 1 \in 1..NumCommands
    PROVE  Append(FirstCommands(l, n), Command(l, n + 1)) = FirstCommands(l, n + 1)
<1>1. FirstCommands(l, n) \in Seq(Commands) /\ Len(FirstCommands(l, n)) = n
  BY DddAssumption DEF FirstCommands, Commands, Command
<1>. DEFINE s == Append(FirstCommands(l, n), Command(l, n + 1))
<1>2. s \in Seq(Commands) /\ Len(s) = n + 1
  BY <1>1, DddAssumption DEF Commands, Command
<1>3. \A i \in 1..(n + 1) : s[i] = Command(l, i)
  BY <1>1 DEF FirstCommands
<1>. QED BY <1>2, <1>3 DEF FirstCommands

\* The initial state satisfies the inductive invariant.
LEMMA InitIInv == Init => IInv
<1>. SUFFICES ASSUME Init PROVE IInv OBVIOUS
<1>. USE DEF Init
<1>1. TypeOK BY DddAssumption DEF TypeOK, Labels
<1>2. SoloHasDirectory BY DEF SoloHasDirectory, UnderWay
<1>3. NotYetWritten BY DEF NotYetWritten
<1>4. SoloScript BY DEF SoloScript
<1>5. OwnDirectory BY DEF OwnDirectory
<1>6. SoloReadsOwn BY DEF SoloReadsOwn
<1>7. NothingLeftBehind BY DEF NothingLeftBehind
<1>. QED BY <1>1, <1>2, <1>3, <1>4, <1>5, <1>6, <1>7 DEF IInv

\* A launch starts: whoever is under way in its directory is overlapped now.
LEMMA StartIInv ==
    ASSUME IInv, NEW l \in Launches, Start(l)
    PROVE  IInv'
<1>. USE DEF Start, GoTo, UnderWay
<1>0. TypeOK BY DEF IInv
<1>1. TypeOK' BY <1>0 DEF TypeOK, Labels, Commands, Command
<1>2. SoloHasDirectory' BY <1>0 DEF IInv, SoloHasDirectory, UnderWay, TypeOK
<1>3. NotYetWritten' BY <1>0 DEF IInv, NotYetWritten, TypeOK
<1>4. SoloScript'
  BY <1>0 DEF IInv, SoloScript, SoloHasDirectory, NotYetWritten, FirstCommands, UnderWay, TypeOK
<1>5. OwnDirectory' BY <1>0 DEF IInv, OwnDirectory, TypeOK
<1>6. SoloReadsOwn' BY <1>0 DEF IInv, SoloReadsOwn, TypeOK
<1>7. NothingLeftBehind' BY <1>0 DEF IInv, NothingLeftBehind, OwnDirectory, TypeOK
<1>. QED BY <1>1, <1>2, <1>3, <1>4, <1>5, <1>6, <1>7 DEF IInv

\* Line 222 empties the file, and only of an overlapped launch in someone else's way.
LEMMA RemoveOldIInv ==
    ASSUME IInv, NEW l \in Launches, RemoveOld(l)
    PROVE  IInv'
<1>. USE DEF RemoveOld, GoTo, Remove
<1>0. TypeOK BY DEF IInv
<1>1. TypeOK' BY <1>0 DEF TypeOK, Labels, Commands, Command
<1>2. SoloHasDirectory' BY <1>0 DEF IInv, SoloHasDirectory, UnderWay, TypeOK
<1>3. NotYetWritten' BY <1>0 DEF IInv, NotYetWritten, TypeOK
<1>4. SoloScript'
  <2>. SUFFICES ASSUME NEW m \in Launches \ overlapped, pc'[m] \in {"touch", "write"}
                PROVE  script'[dir[m]] = FirstCommands(m, written[m])
    BY DEF SoloScript
  <2>1. CASE m = l
    BY <1>0, <2>1, FirstNone DEF IInv, NotYetWritten, TypeOK
  <2>2. CASE m # l
    BY <1>0, <2>2 DEF IInv, SoloScript, SoloHasDirectory, UnderWay, TypeOK
  <2>. QED BY <2>1, <2>2
<1>5. OwnDirectory' BY <1>0 DEF IInv, OwnDirectory, TypeOK
<1>6. SoloReadsOwn' BY <1>0 DEF IInv, SoloReadsOwn, TypeOK
<1>7. NothingLeftBehind' BY <1>0 DEF IInv, NothingLeftBehind, OwnDirectory, TypeOK
<1>. QED BY <1>1, <1>2, <1>3, <1>4, <1>5, <1>6, <1>7 DEF IInv

\* Line 223 changes no contents.
LEMMA TouchIInv ==
    ASSUME IInv, NEW l \in Launches, Touch(l)
    PROVE  IInv'
<1>. USE DEF Touch, GoTo
<1>0. TypeOK BY DEF IInv
<1>1. TypeOK' BY <1>0 DEF TypeOK, Labels, Commands, Command
<1>2. SoloHasDirectory' BY <1>0 DEF IInv, SoloHasDirectory, UnderWay, TypeOK
<1>3. NotYetWritten' BY <1>0 DEF IInv, NotYetWritten, TypeOK
<1>4. SoloScript'
  BY <1>0 DEF IInv, SoloScript, SoloHasDirectory, NotYetWritten, FirstCommands, UnderWay, TypeOK
<1>5. OwnDirectory' BY <1>0 DEF IInv, OwnDirectory, TypeOK
<1>6. SoloReadsOwn' BY <1>0 DEF IInv, SoloReadsOwn, TypeOK
<1>7. NothingLeftBehind' BY <1>0 DEF IInv, NothingLeftBehind, OwnDirectory, TypeOK
<1>. QED BY <1>1, <1>2, <1>3, <1>4, <1>5, <1>6, <1>7 DEF IInv

\* Lines 225-231 extend the file by the next command.
LEMMA AppendCommandIInv ==
    ASSUME IInv, NEW l \in Launches, AppendCommand(l)
    PROVE  IInv'
<1>. USE DEF AppendCommand
<1>0. TypeOK BY DEF IInv
<1>. DEFINE n == written[l] + 1
            c == Command(l, n)
            old == script[dir[l]]
<1>a. /\ n \in 1..NumCommands /\ c \in Commands /\ c[1] = l
      /\ old \in Seq(Commands) /\ dir[l] \in Dirs
  BY <1>0, DddAssumption DEF TypeOK, Commands, Command
<1>b. /\ Append(old, c) \in Seq(Commands) /\ Len(Append(old, c)) = Len(old) + 1
      /\ \A i \in 1..Len(old) : Append(old, c)[i] = old[i]
      /\ Append(old, c)[Len(old) + 1] = c
  BY <1>a
<1>c. script' = [script EXCEPT ![dir[l]] = Append(old, c)]
  OBVIOUS
<1>d. \A d \in Dirs : \A i \in DOMAIN script'[d] :
        \/ script'[d][i] = c /\ d = dir[l]
        \/ i \in DOMAIN script[d] /\ script'[d][i] = script[d][i]
  <2>. SUFFICES ASSUME NEW d \in Dirs, NEW i \in DOMAIN script'[d]
                PROVE  \/ script'[d][i] = c /\ d = dir[l]
                       \/ i \in DOMAIN script[d] /\ script'[d][i] = script[d][i]
    OBVIOUS
  <2>1. CASE d = dir[l]
    <3>1. script'[d] = Append(old, c) BY <1>0, <1>c, <2>1 DEF TypeOK
    <3>2. i \in 1..(Len(old) + 1) BY <1>a, <1>b, <3>1
    <3>. QED BY <1>a, <1>b, <2>1, <3>1, <3>2
  <2>2. CASE d # dir[l] BY <1>0, <1>c, <2>2 DEF TypeOK
  <2>. QED BY <2>1, <2>2
<1>1. TypeOK'
  <2>1. script' \in [Dirs -> Seq(Commands)] BY <1>0, <1>a, <1>b, <1>c DEF TypeOK
  <2>2. written' \in [Launches -> 0..NumCommands] BY <1>0, <1>a, DddAssumption DEF TypeOK
  <2>. QED BY <1>0, <1>a, <2>1, <2>2 DEF TypeOK
<1>2. SoloHasDirectory' BY <1>0 DEF IInv, SoloHasDirectory, UnderWay, TypeOK
<1>3. NotYetWritten' BY <1>0 DEF IInv, NotYetWritten, TypeOK
<1>4. SoloScript'
  <2>. SUFFICES ASSUME NEW m \in Launches \ overlapped, pc[m] \in {"touch", "write"}
                PROVE  script'[dir[m]] = FirstCommands(m, written'[m])
    BY DEF SoloScript
  <2>1. CASE m = l
    <3>1. old = FirstCommands(l, written[l]) BY <2>1 DEF IInv, SoloScript
    <3>2. Append(old, c) = FirstCommands(l, n)
      BY <1>0, <1>a, <3>1, FirstNext DEF TypeOK
    <3>. QED BY <1>0, <1>a, <1>c, <2>1, <3>2 DEF TypeOK
  <2>2. CASE m # l
    <3>1. dir[m] # dir[l] BY <2>2 DEF IInv, SoloHasDirectory, UnderWay
    <3>. QED BY <1>0, <1>c, <2>2, <3>1 DEF IInv, SoloScript, TypeOK
  <2>. QED BY <2>1, <2>2
<1>5. OwnDirectory' BY <1>a, <1>d DEF IInv, OwnDirectory
<1>6. SoloReadsOwn' BY <1>0 DEF IInv, SoloReadsOwn, TypeOK
<1>7. NothingLeftBehind' BY <1>a, <1>d DEF IInv, NothingLeftBehind
<1>. QED BY <1>1, <1>2, <1>3, <1>4, <1>5, <1>6, <1>7 DEF IInv

\* Line 233 reads the file as it is.
LEMMA DddReadsIInv ==
    ASSUME IInv, NEW l \in Launches, DddReads(l)
    PROVE  IInv'
<1>. USE DEF DddReads, GoTo
<1>0. TypeOK BY DEF IInv
<1>1. TypeOK' BY <1>0 DEF TypeOK, Labels, Commands, Command
<1>2. SoloHasDirectory' BY <1>0 DEF IInv, SoloHasDirectory, UnderWay, TypeOK
<1>3. NotYetWritten' BY <1>0 DEF IInv, NotYetWritten, TypeOK
<1>4. SoloScript'
  BY <1>0 DEF IInv, SoloScript, SoloHasDirectory, NotYetWritten, FirstCommands, UnderWay, TypeOK
<1>5. OwnDirectory' BY <1>0 DEF IInv, OwnDirectory, TypeOK
<1>6. SoloReadsOwn' BY <1>0 DEF IInv, SoloReadsOwn, SoloScript, TypeOK
<1>7. NothingLeftBehind' BY <1>0 DEF IInv, NothingLeftBehind, OwnDirectory, TypeOK
<1>. QED BY <1>1, <1>2, <1>3, <1>4, <1>5, <1>6, <1>7 DEF IInv

\* The user leaves ddd.
LEMMA UserQuitsDddIInv ==
    ASSUME IInv, NEW l \in Launches, UserQuitsDdd(l)
    PROVE  IInv'
<1>. USE DEF UserQuitsDdd, GoTo
<1>0. TypeOK BY DEF IInv
<1>1. TypeOK' BY <1>0 DEF TypeOK, Labels, Commands, Command
<1>2. SoloHasDirectory' BY <1>0 DEF IInv, SoloHasDirectory, UnderWay, TypeOK
<1>3. NotYetWritten' BY <1>0 DEF IInv, NotYetWritten, TypeOK
<1>4. SoloScript'
  BY <1>0 DEF IInv, SoloScript, SoloHasDirectory, NotYetWritten, FirstCommands, UnderWay, TypeOK
<1>5. OwnDirectory' BY <1>0 DEF IInv, OwnDirectory, TypeOK
<1>6. SoloReadsOwn' BY <1>0 DEF IInv, SoloReadsOwn, TypeOK
<1>7. NothingLeftBehind' BY <1>0 DEF IInv, NothingLeftBehind, OwnDirectory, TypeOK
<1>. QED BY <1>1, <1>2, <1>3, <1>4, <1>5, <1>6, <1>7 DEF IInv

\* Line 235 takes away every command of the launch that ends.
LEMMA RemoveScriptIInv ==
    ASSUME IInv, NEW l \in Launches, RemoveScript(l)
    PROVE  IInv'
<1>. USE DEF RemoveScript, GoTo, Remove
<1>0. TypeOK BY DEF IInv
<1>1. TypeOK' BY <1>0 DEF TypeOK, Labels, Commands, Command
<1>2. SoloHasDirectory' BY <1>0 DEF IInv, SoloHasDirectory, UnderWay, TypeOK
<1>3. NotYetWritten' BY <1>0 DEF IInv, NotYetWritten, TypeOK
<1>4. SoloScript'
  BY <1>0 DEF IInv, SoloScript, SoloHasDirectory, NotYetWritten, FirstCommands, UnderWay, TypeOK
<1>5. OwnDirectory' BY <1>0 DEF IInv, OwnDirectory, TypeOK
<1>6. SoloReadsOwn' BY <1>0 DEF IInv, SoloReadsOwn, TypeOK
<1>7. NothingLeftBehind' BY <1>0 DEF IInv, NothingLeftBehind, OwnDirectory, TypeOK
<1>. QED BY <1>1, <1>2, <1>3, <1>4, <1>5, <1>6, <1>7 DEF IInv

\* A hung-up launch leaves the file as it is.
LEMMA UserHangsUpIInv ==
    ASSUME IInv, NEW l \in Launches, UserHangsUp(l)
    PROVE  IInv'
<1>. USE DEF UserHangsUp, UnderWay
<1>0. TypeOK BY DEF IInv
<1>1. TypeOK' BY <1>0 DEF TypeOK, Labels, Commands, Command
<1>2. SoloHasDirectory' BY <1>0 DEF IInv, SoloHasDirectory, UnderWay, TypeOK
<1>3. NotYetWritten' BY <1>0 DEF IInv, NotYetWritten, TypeOK
<1>4. SoloScript'
  BY <1>0 DEF IInv, SoloScript, SoloHasDirectory, NotYetWritten, FirstCommands, UnderWay, TypeOK
<1>5. OwnDirectory' BY <1>0 DEF IInv, OwnDirectory, TypeOK
<1>6. SoloReadsOwn' BY <1>0 DEF IInv, SoloReadsOwn, TypeOK
<1>7. NothingLeftBehind' BY <1>0 DEF IInv, NothingLeftBehind, OwnDirectory, TypeOK
<1>. QED BY <1>1, <1>2, <1>3, <1>4, <1>5, <1>6, <1>7 DEF IInv

\* Every step keeps the inductive invariant.
LEMMA NextIInv == IInv /\ [Next]_vars => IInv'
<1>. SUFFICES ASSUME IInv, [Next]_vars PROVE IInv' OBVIOUS
<1>1. ASSUME NEW l \in Launches, Start(l) PROVE IInv' BY <1>1, StartIInv
<1>2. ASSUME NEW l \in Launches, RemoveOld(l) PROVE IInv' BY <1>2, RemoveOldIInv
<1>3. ASSUME NEW l \in Launches, Touch(l) PROVE IInv' BY <1>3, TouchIInv
<1>4. ASSUME NEW l \in Launches, AppendCommand(l) PROVE IInv' BY <1>4, AppendCommandIInv
<1>5. ASSUME NEW l \in Launches, DddReads(l) PROVE IInv' BY <1>5, DddReadsIInv
<1>6. ASSUME NEW l \in Launches, UserQuitsDdd(l) PROVE IInv' BY <1>6, UserQuitsDddIInv
<1>7. ASSUME NEW l \in Launches, RemoveScript(l) PROVE IInv' BY <1>7, RemoveScriptIInv
<1>8. ASSUME NEW l \in Launches, UserHangsUp(l) PROVE IInv' BY <1>8, UserHangsUpIInv
<1>9. CASE UNCHANGED vars
  BY <1>9 DEF vars, IInv, TypeOK, SoloHasDirectory, NotYetWritten, SoloScript, OwnDirectory,
     SoloReadsOwn, NothingLeftBehind, UnderWay
<1>. QED BY <1>1, <1>2, <1>3, <1>4, <1>5, <1>6, <1>7, <1>8, <1>9 DEF Next

\* The inductive invariant holds throughout.
THEOREM Inductive == Spec => []IInv
  BY InitIInv, NextIInv, PTL DEF Spec

\* A launch alone in its directory has ddd run its own commands and no others.
THEOREM SoloReadsOwnHolds == Spec => []SoloReadsOwn
<1>1. IInv => SoloReadsOwn BY DEF IInv
<1>. QED BY <1>1, Inductive, PTL

\* A launch that ended as it should leaves none of its commands behind.
THEOREM NothingLeftBehindHolds == Spec => []NothingLeftBehind
<1>1. IInv => NothingLeftBehind BY DEF IInv
<1>. QED BY <1>1, Inductive, PTL

=============================================================================
