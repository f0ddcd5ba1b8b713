------------------------ MODULE StartKernel_proofs ------------------------
(***************************************************************************)
(* Proofs about StartKernel, for every set of command lines.  What the     *)
(* panes get is put together by recursion over the arguments; the first    *)
(* sections prove what comes out, by induction in the form of a set of     *)
(* naturals that has 0 and, with n, n + 1.                                 *)
(***************************************************************************)
EXTENDS StartKernel, SequenceTheorems, WellFoundedInduction, TLAPS

-----------------------------------------------------------------------------
(***************************************************************************)
(* Natural numbers.                                                        *)
(***************************************************************************)

\* Every set of naturals has a least element.
LEMMA Least ==
    ASSUME NEW T, T \subseteq Nat, T # {}
    PROVE  \E n \in T : \A m \in T : n <= m
<1>1. PICK n \in T : \A m \in T : ~ (<<m, n>> \in OpToRel(<, Nat))
  BY WFMin, NatLessThanWellFounded
<1>2. ASSUME NEW m \in T PROVE n <= m
  <2>1. m \in Nat /\ n \in Nat
    OBVIOUS
  <2>2. m < n => <<m, n>> \in {p \in Nat \X Nat : p[1] < p[2]}
    BY <2>1
  <2>3. ~(m < n)
    BY <1>1, <2>2, Zenon DEF OpToRel
  <2> QED
    BY <2>1, <2>3
<1> QED
  BY <1>2

\* Induction over the naturals, for sets.
LEMMA SetInduction ==
    ASSUME NEW T, 0 \in T, \A n \in Nat : n \in T => n + 1 \in T
    PROVE  \A n \in Nat : n \in T
<1> SUFFICES ASSUME Nat \ T # {} PROVE FALSE
  OBVIOUS
<1>1. PICK n \in Nat \ T : \A m \in Nat \ T : n <= m
  BY Least
<1>2. n # 0 /\ n - 1 \in Nat
  OBVIOUS
<1>3. n - 1 \in T
  BY <1>1, <1>2
<1> QED
  BY <1>2, <1>3

\* Min and Max are what they should be for sets of indices.
LEMMA MinMax ==
    ASSUME NEW n \in Nat, NEW I \in SUBSET (1..n), I # {}
    PROVE  /\ Min(I) \in I /\ \A i \in I : Min(I) <= i
           /\ Max(I) \in I /\ \A i \in I : i <= Max(I)
<1>1. \E i \in I : \A j \in I : i <= j
  BY Least, I \subseteq Nat
<1>2. \E i \in I : \A j \in I : i >= j
  <2> DEFINE T == {n - i : i \in I}
  <2>1. \A i \in I : n - i \in Nat
    OBVIOUS
  <2>11. T \subseteq Nat /\ T # {}
    BY <2>1
  <2>2. PICK k \in T : \A m \in T : k <= m
    BY <2>11, Least
  <2>3. PICK i \in I : k = n - i
    OBVIOUS
  <2>4. ASSUME NEW j \in I PROVE i >= j
    <3>1. n - i <= n - j
      BY <2>2, <2>3
    <3> QED
      BY <3>1
  <2> QED
    BY <2>4
<1>3. Min(I) \in I /\ \A i \in I : Min(I) <= i
  BY <1>1, Zenon DEF Min
<1>4. Max(I) \in I /\ \A i \in I : Max(I) >= i
  BY <1>2, Zenon DEF Max
<1> QED
  BY <1>3, <1>4

-----------------------------------------------------------------------------
(***************************************************************************)
(* FlattenSeq.                                                             *)
(***************************************************************************)

\* FlattenSeq concatenates prefix by prefix: the function of its definition exists.
LEMMA FlattenDef ==
    ASSUME NEW S, NEW ss \in Seq(Seq(S)), ss # <<>>
    PROVE  \E f : /\ f = [i \in 1..Len(ss) |-> IF i = 1 THEN ss[i] ELSE f[i - 1] \o ss[i]]
                  /\ FlattenSeq(ss) = f[Len(ss)]
<1> DEFINE Starts(n, f) == f = [i \in 1..n |-> IF i = 1 THEN ss[i] ELSE f[i - 1] \o ss[i]]
           T == {n \in Nat : \E f : Starts(n, f)}
<1>1. 0 \in T
  <2>1. Starts(0, [i \in 1..0 |-> <<>>])
    BY 1..0 = {}
  <2> QED
    BY <2>1
<1>2. ASSUME NEW n \in Nat, n \in T PROVE n + 1 \in T
  <2>1. PICK f : Starts(n, f)
    BY <1>2
  <2> DEFINE g == [i \in 1..(n + 1) |-> IF i = 1 THEN ss[i] ELSE f[i - 1] \o ss[i]]
  <2>2. ASSUME NEW i \in 1..(n + 1), i # 1 PROVE g[i - 1] = f[i - 1]
    <3>1. i - 1 \in 1..n
      BY <2>2
    <3>2. g[i - 1] = IF i - 1 = 1 THEN ss[i - 1] ELSE f[i - 1 - 1] \o ss[i - 1]
      BY <3>1
    <3>3. f[i - 1] = IF i - 1 = 1 THEN ss[i - 1] ELSE f[i - 1 - 1] \o ss[i - 1]
      BY <2>1, <3>1
    <3> QED
      BY <3>2, <3>3
  <2>3. g = [i \in 1..(n + 1) |-> IF i = 1 THEN ss[i] ELSE f[i - 1] \o ss[i]]
    OBVIOUS
  <2> HIDE DEF g
  <2>4. Starts(n + 1, g)
    BY <2>2, <2>3
  <2>5. \E h : Starts(n + 1, h)
    BY <2>4, Zenon
  <2> HIDE DEF Starts
  <2> QED
    BY <2>5
<1>3. Len(ss) \in Nat /\ Len(ss) # 0
  BY EmptySeq
<1>4. Len(ss) \in T
  <2> HIDE DEF T
  <2> QED
    BY <1>1, <1>2, <1>3, SetInduction
<1>5. \E f : Starts(Len(ss), f)
  BY <1>4
<1> DEFINE F == CHOOSE f : Starts(Len(ss), f)
<1>6. Starts(Len(ss), F)
  BY <1>5, Zenon
<1>7. FlattenSeq(ss) = F[Len(ss)]
  BY <1>3, Zenon DEF FlattenSeq
<1> QED
  BY <1>6, <1>7, Zenon

\* The elements of a concatenation.
LEMMA ConcatElements ==
    ASSUME NEW S, NEW a \in Seq(S), NEW b \in Seq(S)
    PROVE  /\ a \o b \in Seq(S) /\ Len(a) \in Nat /\ Len(b) \in Nat
           /\ Len(a \o b) = Len(a) + Len(b)
           /\ \A k \in 1..Len(a) : k \in 1..Len(a \o b) /\ (a \o b)[k] = a[k]
           /\ \A k \in 1..Len(b) :
                Len(a) + k \in 1..Len(a \o b) /\ (a \o b)[Len(a) + k] = b[k]
<1>1. Len(a) \in Nat /\ Len(b) \in Nat
  BY LenProperties
<1> QED
  BY <1>1, ConcatProperties

\* It is a sequence with the elements of the pieces; and with pieces of one element
\* each it is the sequence of these.
LEMMA FlattenFacts ==
    ASSUME NEW S, NEW ss \in Seq(Seq(S)), ss # <<>>
    PROVE  /\ FlattenSeq(ss) \in Seq(S)
           /\ \A i \in 1..Len(ss) : \A j \in 1..Len(ss[i]) :
                \E k \in 1..Len(FlattenSeq(ss)) : FlattenSeq(ss)[k] = ss[i][j]
           /\ (\A i \in 1..Len(ss) : Len(ss[i]) = 1) =>
                /\ Len(FlattenSeq(ss)) = Len(ss)
                /\ \A i \in 1..Len(ss) : FlattenSeq(ss)[i] = ss[i][1]
<1>1. PICK f : /\ f = [i \in 1..Len(ss) |-> IF i = 1 THEN ss[i] ELSE f[i - 1] \o ss[i]]
               /\ FlattenSeq(ss) = f[Len(ss)]
  BY FlattenDef
<1>2. Len(ss) \in Nat /\ Len(ss) # 0
  BY EmptySeq
<1>3. ASSUME NEW i \in 1..Len(ss) PROVE f[i] = IF i = 1 THEN ss[i] ELSE f[i - 1] \o ss[i]
  BY <1>1
<1>4. ASSUME NEW i \in 1..Len(ss) PROVE ss[i] \in Seq(S)
  BY ElementOfSeq
<1> DEFINE Has(n) == /\ f[n] \in Seq(S)
                     /\ \A i \in 1..n : \A j \in 1..Len(ss[i]) :
                          \E k \in 1..Len(f[n]) : f[n][k] = ss[i][j]
           Ones(n) == (\A i \in 1..n : Len(ss[i]) = 1) =>
                        /\ Len(f[n]) = n
                        /\ \A i \in 1..n : f[n][i] = ss[i][1]
           T == {n \in Nat : n \in 1..Len(ss) => Has(n) /\ Ones(n)}
<1>5. 0 \in T
  BY <1>2
<1>6. ASSUME NEW n \in Nat, n \in T PROVE n + 1 \in T
  <2> SUFFICES ASSUME n + 1 \in 1..Len(ss) PROVE Has(n + 1) /\ Ones(n + 1)
    <3> HIDE DEF Has, Ones
    <3> QED
      OBVIOUS
  <2>1. CASE n = 0
    <3>1. f[1] = ss[1] /\ ss[1] \in Seq(S) /\ 1..1 = {1}
      BY <1>3, <1>4, <2>1
    <3>2. Has(1)
      <4>1. ASSUME NEW i \in 1..1, NEW j \in 1..Len(ss[i])
            PROVE  \E k \in 1..Len(f[1]) : f[1][k] = ss[i][j]
        BY <3>1
      <4> QED
        BY <3>1, <4>1
    <3>3. Ones(1)
      BY <3>1
    <3> QED
      BY <2>1, <3>2, <3>3
  <2>2. CASE n # 0
    <3> DEFINE a == f[n]
               b == ss[n + 1]
    <3>1. n \in 1..Len(ss)
      BY <1>2, <2>2
    <3>2. f[n + 1] = a \o b /\ b \in Seq(S)
      BY <1>3, <1>4, <2>2, n + 1 # 1, (n + 1) - 1 = n
    <3>3. /\ a \in Seq(S)
          /\ \A i \in 1..n : \A j \in 1..Len(ss[i]) : \E k \in 1..Len(a) : a[k] = ss[i][j]
          /\ (\A i \in 1..n : Len(ss[i]) = 1) => Len(a) = n /\ \A i \in 1..n : a[i] = ss[i][1]
      BY <1>6, <3>1
    <3>4. \A i \in 1..(n + 1) : i = n + 1 \/ i \in 1..n
      OBVIOUS
    <3>5. b = ss[n + 1]
      OBVIOUS
    <3> HIDE DEF a, b
    <3>6. /\ a \o b \in Seq(S) /\ Len(a) \in Nat /\ Len(b) \in Nat
          /\ Len(a \o b) = Len(a) + Len(b)
          /\ \A k \in 1..Len(a) : k \in 1..Len(a \o b) /\ (a \o b)[k] = a[k]
          /\ \A k \in 1..Len(b) :
               Len(a) + k \in 1..Len(a \o b) /\ (a \o b)[Len(a) + k] = b[k]
      BY <3>2, <3>3, ConcatElements
    <3>7. ASSUME NEW i \in 1..(n + 1), NEW j \in 1..Len(ss[i])
          PROVE  \E k \in 1..Len(a \o b) : (a \o b)[k] = ss[i][j]
      <4>1. CASE i = n + 1
        BY <3>5, <3>6, <4>1
      <4>2. CASE i \in 1..n
        <5>1. PICK k \in 1..Len(a) : a[k] = ss[i][j]
          BY <3>3, <4>2
        <5> QED
          BY <3>6, <5>1
      <4> QED
        BY <3>4, <4>1, <4>2
    <3>8. ASSUME \A i \in 1..(n + 1) : Len(ss[i]) = 1
          PROVE  /\ Len(a \o b) = n + 1
                 /\ \A i \in 1..(n + 1) : (a \o b)[i] = ss[i][1]
      <4>1. Len(a) = n /\ (\A i \in 1..n : a[i] = ss[i][1]) /\ Len(b) = 1
        BY <3>3, <3>5, <3>8
      <4>2. Len(a \o b) = n + 1 /\ (a \o b)[n + 1] = b[1]
        BY <3>6, <4>1
      <4>3. ASSUME NEW i \in 1..n PROVE (a \o b)[i] = ss[i][1]
        BY <3>6, <4>1
      <4> QED
        BY <3>4, <3>5, <4>2, <4>3
    <3> DEFINE c == a \o b
    <3> HIDE DEF c
    <3>9. /\ c \in Seq(S)
          /\ \A i \in 1..(n + 1) : \A j \in 1..Len(ss[i]) : \E k \in 1..Len(c) : c[k] = ss[i][j]
          /\ (\A i \in 1..(n + 1) : Len(ss[i]) = 1) =>
               Len(c) = n + 1 /\ \A i \in 1..(n + 1) : c[i] = ss[i][1]
      BY <3>6, <3>7, <3>8 DEF c
    <3>10. f[n + 1] = c
      BY <3>2 DEF c
    <3> QED
      BY <3>9, <3>10
  <2> QED
    BY <2>1, <2>2
<1>7. Len(ss) \in T
  <2> HIDE DEF T
  <2> QED
    BY <1>2, <1>5, <1>6, SetInduction
<1>8. Has(Len(ss)) /\ Ones(Len(ss))
  <2> HIDE DEF Has, Ones
  <2> QED
    BY <1>2, <1>7
<1>9. FlattenSeq(ss) = f[Len(ss)]
  BY <1>1
<1> DEFINE c == f[Len(ss)]
<1>10. /\ c \in Seq(S)
       /\ \A i \in 1..Len(ss) : \A j \in 1..Len(ss[i]) : \E k \in 1..Len(c) : c[k] = ss[i][j]
       /\ (\A i \in 1..Len(ss) : Len(ss[i]) = 1) =>
            Len(c) = Len(ss) /\ \A i \in 1..Len(ss) : c[i] = ss[i][1]
  BY <1>8, Zenon
<1> HIDE DEF c, T
<1>11. FlattenSeq(ss) = c
  BY <1>9 DEF c
<1> QED
  BY <1>10, <1>11

-----------------------------------------------------------------------------
(***************************************************************************)
(* The arguments that the panes get.                                       *)
(***************************************************************************)

\* An argument becomes one or more; it becomes a bad one if it was bad or its value
\* has several words, and otherwise stays what it was.
LEMMA SplitFacts ==
    ASSUME NEW arg \in Argument
    PROVE  /\ Split(arg) \in Seq(Argument)
           /\ Len(Split(arg)) \in Nat \ {0}
           /\ arg.opt = "bad" \/ Len(arg.val) > 1 =>
                \E j \in 1..Len(Split(arg)) : Split(arg)[j].opt = "bad"
           /\ Len(arg.val) <= 1 => Len(Split(arg)) = 1 /\ Split(arg)[1] = arg
<1>1. arg.val \in Seq(Word) /\ Len(arg.val) \in Nat /\ arg.opt \in Option
  BY LenProperties DEF Argument
<1>2. arg = Arg(arg.opt, arg.val)
  BY DEF Argument, Arg
<1>3. CASE arg.val = Empty
  <2>1. Split(arg) = <<arg>>
    BY <1>3 DEF Split
  <2> QED
    BY <1>3, <2>1 DEF Empty
<1>4. CASE arg.val # Empty
  <2> DEFINE n == Len(arg.val)
             piece(j) == Arg(IF j = 1 THEN arg.opt ELSE "bad", <<arg.val[j]>>)
  <2>1. n \in Nat \ {0} /\ DOMAIN arg.val = 1..n /\ \A j \in 1..n : arg.val[j] \in Word
    BY <1>1, <1>4, EmptySeq, LenProperties, ElementOfSeq DEF Empty
  <2>2. Split(arg) = [j \in 1..n |-> piece(j)]
    BY <1>4, <2>1 DEF Split
  <2>3. \A j \in 1..n : piece(j) \in Argument
    BY <1>1, <2>1 DEF Arg, Argument, Option
  <2>4. Split(arg) \in Seq(Argument) /\ Len(Split(arg)) = n
    <3> HIDE DEF piece, n
    <3> QED
      BY <2>1, <2>2, <2>3
  <2>5. \A j \in 1..n : Split(arg)[j] = piece(j)
    <3> HIDE DEF piece, n
    <3> QED
      BY <2>2
  <2>6. arg.opt = "bad" => piece(1).opt = "bad"
    BY DEF Arg
  <2>7. n > 1 => piece(2).opt = "bad"
    BY DEF Arg
  <2>8. n = 1 => piece(1) = arg
    <3> SUFFICES ASSUME n = 1 PROVE piece(1) = arg
      OBVIOUS
    <3>1. arg.val = <<arg.val[1]>>
      BY <1>1
    <3> QED
      BY <1>2, <3>1 DEF Arg
  <2> HIDE DEF piece
  <2>9. ASSUME arg.opt = "bad" \/ n > 1
        PROVE  \E j \in 1..n : Split(arg)[j].opt = "bad"
    <3>1. CASE arg.opt = "bad"
      BY <2>1, <2>5, <2>6, <3>1
    <3>2. CASE n > 1
      BY <2>1, <2>5, <2>7, <3>2
    <3> QED
      BY <2>9, <3>1, <3>2
  <2>10. n <= 1 => n = 1 /\ Split(arg)[1] = arg
    <3>0. n \in Nat /\ n # 0
      BY <2>1
    <3>1. n <= 1 => n = 1
      <4> HIDE DEF n
      <4> QED
        BY <3>0
    <3>2. n = 1 => Split(arg)[1] = arg
      BY <2>1, <2>5, <2>8
    <3> QED
      BY <3>1, <3>2
  <2> QED
    BY <2>1, <2>4, <2>9, <2>10
<1> QED
  BY <1>3, <1>4

\* Joined and split again, the arguments are a sequence of arguments with a bad one if
\* there was one or a value had several words; otherwise they are the same.
LEMMA ResplitFacts ==
    ASSUME NEW args \in Seq(Argument)
    PROVE  /\ Resplit(args) \in Seq(Argument)
           /\ (\E i \in 1..Len(args) : args[i].opt = "bad" \/ Len(args[i].val) > 1) =>
                \E k \in 1..Len(Resplit(args)) : Resplit(args)[k].opt = "bad"
           /\ (\A i \in 1..Len(args) : Len(args[i].val) <= 1) => Resplit(args) = args
<1> DEFINE ss == [i \in DOMAIN args |-> Split(args[i])]
<1>1. DOMAIN args = 1..Len(args) /\ Len(args) \in Nat
  BY LenProperties
<1>2. \A i \in 1..Len(args) : args[i] \in Argument
  BY ElementOfSeq
<1>3. \A i \in 1..Len(args) : Split(args[i]) \in Seq(Argument)
  BY <1>2, SplitFacts
<1>4. ss \in Seq(Seq(Argument)) /\ Len(ss) = Len(args)
  BY <1>1, <1>3
<1>5. \A i \in 1..Len(args) : ss[i] = Split(args[i])
  BY <1>1
<1>6. Resplit(args) = FlattenSeq(ss)
  BY DEF Resplit
<1> HIDE DEF ss
<1>7. CASE ss = <<>>
  <2>1. Len(ss) = 0 /\ args = <<>>
    BY <1>4, <1>7, EmptySeq
  <2>2. FlattenSeq(ss) = <<>>
    BY <1>7, <2>1 DEF FlattenSeq
  <2> QED
    BY <1>4, <1>6, <2>1, <2>2
<1>8. CASE ss # <<>>
  <2>1. Resplit(args) \in Seq(Argument)
    BY <1>4, <1>6, <1>8, FlattenFacts
  <2>2. ASSUME NEW i \in 1..Len(args), args[i].opt = "bad" \/ Len(args[i].val) > 1
        PROVE  \E k \in 1..Len(Resplit(args)) : Resplit(args)[k].opt = "bad"
    <3> DEFINE arg == args[i]
    <3>1. arg \in Argument /\ (arg.opt = "bad" \/ Len(arg.val) > 1) /\ ss[i] = Split(arg)
      BY <1>2, <1>5, <2>2
    <3> HIDE DEF arg
    <3>3. PICK j \in 1..Len(Split(arg)) : Split(arg)[j].opt = "bad"
      BY <3>1, SplitFacts
    <3>2. PICK k \in 1..Len(FlattenSeq(ss)) : FlattenSeq(ss)[k] = ss[i][j]
      BY <1>4, <1>8, <3>1, FlattenFacts
    <3> QED
      BY <1>6, <3>1, <3>2, <3>3
  <2>3. ASSUME \A i \in 1..Len(args) : Len(args[i].val) <= 1
        PROVE  Resplit(args) = args
    <3>1. ASSUME NEW i \in 1..Len(args) PROVE Len(ss[i]) = 1 /\ ss[i][1] = args[i]
      <4> DEFINE arg == args[i]
      <4>1. arg \in Argument /\ Len(arg.val) <= 1 /\ ss[i] = Split(arg)
        BY <1>2, <1>5, <2>3
      <4>2. Len(Split(arg)) = 1 /\ Split(arg)[1] = arg
        <5> HIDE DEF arg
        <5> QED
          BY <4>1, SplitFacts
      <4> QED
        BY <4>1, <4>2
    <3>2. /\ Len(FlattenSeq(ss)) = Len(ss)
          /\ \A i \in 1..Len(ss) : FlattenSeq(ss)[i] = ss[i][1]
      BY <1>4, <1>8, <3>1, FlattenFacts
    <3> QED
      BY <1>4, <1>6, <2>1, <3>1, <3>2, SeqEqual
  <2> QED
    BY <2>1, <2>2, <2>3
<1> QED
  BY <1>7, <1>8

\* What ${PARAMS/tmux/new} changes: at most one argument, in which "tmux" occurs; its
\* option stays, and its value then shows the new text.
LEMMA SubstituteFacts ==
    ASSUME NEW args \in Seq(Argument), NEW new \in {"cli-qemu", "cli-gdb"}
    PROVE  LET first == FirstTmux(args)
               sub == Substitute(args, new)
           IN  /\ sub \in Seq(Argument) /\ Len(sub) = Len(args)
               /\ first \in 1..Len(args) => HasTmux(args[first])
               /\ \A i \in 1..Len(args) :
                    /\ sub[i].opt = args[i].opt
                    /\ i # first => sub[i] = args[i]
                    /\ i = first => /\ Len(sub[i].val) = 1
                                    /\ \/ sub[i].val[1].put = new
                                       \/ sub[i].val[1].text = new
<1> DEFINE first == FirstTmux(args)
           sub == Substitute(args, new)
           put(word) == IF word.text = "tmux" THEN Plain(new) ELSE [text |-> word.text, put |-> new]
           item(i) == IF i = first THEN Arg(args[i].opt, <<put(args[i].val[1])>>) ELSE args[i]
<1>1. DOMAIN args = 1..Len(args) /\ Len(args) \in Nat
  BY LenProperties
<1>2. \A i \in 1..Len(args) : args[i] \in Argument
  BY ElementOfSeq
<1>3. first \in 1..Len(args) => HasTmux(args[first])
  <2> DEFINE I == {i \in 1..Len(args) : HasTmux(args[i])}
  <2>1. first = IF I # {} THEN Min(I) ELSE 0
    BY DEF FirstTmux, SelectInSeq
  <2>2. I # {} => Min(I) \in I
    <3> HIDE DEF I
    <3>1. I \in SUBSET (1..Len(args))
      BY DEF I
    <3> QED
      BY <1>1, <3>1, MinMax
  <2> HIDE DEF first
  <2> QED
    BY <1>1, <2>1, <2>2
<1>4. sub = [i \in 1..Len(args) |-> item(i)]
  BY <1>1 DEF Substitute
<1> HIDE DEF first, sub
<1>5. ASSUME NEW i \in 1..Len(args)
      PROVE  /\ item(i) \in Argument /\ item(i).opt = args[i].opt
             /\ i # first => item(i) = args[i]
             /\ i = first => /\ Len(item(i).val) = 1
                             /\ item(i).val[1].put = new \/ item(i).val[1].text = new
  <2>1. CASE i # first
    BY <1>2, <2>1
  <2>2. CASE i = first
    <3>1. args[i].val # Empty /\ args[i].val \in Seq(Word) /\ args[i].opt \in Option
      BY <1>2, <1>3, <2>2 DEF HasTmux, Argument
    <3>2. args[i].val[1] \in Word
      BY <3>1, EmptySeq, ElementOfSeq DEF Empty
    <3> DEFINE w == put(args[i].val[1])
    <3>3. w \in Word /\ (w.put = new \/ w.text = new)
      <4>1. CASE args[i].val[1].text = "tmux"
        <5>1. w = [text |-> new, put |-> ""]
          BY <4>1 DEF Plain
        <5>2. new \in Texts
          BY StartKernelAssumption
        <5> HIDE DEF w
        <5> QED
          BY <5>1, <5>2 DEF Word
      <4>2. CASE args[i].val[1].text # "tmux"
        <5>1. w = [text |-> args[i].val[1].text, put |-> new]
          BY <4>2
        <5>2. args[i].val[1].text \in Texts
          BY <3>2 DEF Word
        <5> HIDE DEF w
        <5> QED
          BY <5>1, <5>2 DEF Word
      <4> QED
        BY <4>1, <4>2
    <3>4. item(i) = [opt |-> args[i].opt, val |-> <<w>>]
      BY <2>2 DEF Arg
    <3> HIDE DEF w, item
    <3>5. <<w>> \in Seq(Word) /\ Len(<<w>>) = 1 /\ <<w>>[1] = w
      BY <3>3
    <3>6. item(i) \in Argument /\ item(i).opt = args[i].opt /\ item(i).val = <<w>>
      BY <3>1, <3>4, <3>5 DEF Argument
    <3> QED
      BY <2>2, <3>3, <3>5, <3>6
  <2> QED
    BY <2>1, <2>2
<1> HIDE DEF item
<1>6. sub \in Seq(Argument) /\ Len(sub) = Len(args)
  BY <1>1, <1>4, <1>5
<1>7. \A i \in 1..Len(args) : sub[i] = item(i)
  BY <1>4
<1>8. \A i \in 1..Len(args) :
        /\ sub[i].opt = args[i].opt
        /\ i # first => sub[i] = args[i]
        /\ i = first => /\ Len(sub[i].val) = 1
                        /\ sub[i].val[1].put = new \/ sub[i].val[1].text = new
  BY <1>5, <1>7
<1> QED
  BY <1>3, <1>6, <1>8 DEF first, sub

\* What the user types is an argument.
LEMMA TypedSeq == \A args \in Seq(TypedArgument) : args \in Seq(Argument)
<1> DEFINE Bare == [text : Texts, put : {""}]
<1>1. Bare \subseteq Word
  BY DEF Word
<1>2. ASSUME NEW val \in Seq(Bare) PROVE val \in Seq(Word)
  <2> HIDE DEF Bare
  <2> QED
    BY <1>1, SeqMonotonic
<1>3. TypedArgument \subseteq Argument
  BY <1>2 DEF TypedArgument, Argument
<1> QED
  BY <1>3, SeqMonotonic

\* A pane gets the arguments split, with one substitution at most, and the terminal of
\* the pane as the last.  A substituted value is no kernel directory.
LEMMA PaneFacts ==
    ASSUME NEW args \in Seq(Argument), NEW p \in Panes
    PROVE  LET r == Resplit(args)
               g == PaneArgs(args, p)
               first == FirstTmux(r)
           IN  /\ g \in Seq(Argument) /\ Len(r) \in Nat /\ Len(g) = Len(r) + 1
               /\ g[Len(r) + 1] = Arg("TERMINAL", <<Plain(CliTerminal(p))>>)
               /\ \A i \in 1..Len(r) :
                    /\ g[i].opt = r[i].opt
                    /\ i # first => g[i] = r[i]
                    /\ i = first => HasTmux(r[i]) /\ g[i].val \notin Directories /\ Len(g[i].val) = 1
<1> DEFINE r == Resplit(args)
           new == CliTerminal(p)
           sub == Substitute(r, new)
           last == Arg("TERMINAL", <<Plain(new)>>)
           first == FirstTmux(r)
<1>1. new \in {"cli-qemu", "cli-gdb"}
  BY DEF CliTerminal
<1>2. r \in Seq(Argument) /\ Len(r) \in Nat
  BY ResplitFacts, LenProperties
<1>3. last \in Argument
  <2>1. Plain(new) \in Word
    BY <1>1, StartKernelAssumption DEF Plain, Word
  <2>2. <<Plain(new)>> \in Seq(Word)
    BY <2>1
  <2> QED
    BY <2>2 DEF Arg, Argument, Option, Reset
<1>4. PaneArgs(args, p) = Append(sub, last)
  BY DEF PaneArgs
<1> HIDE DEF r, new, last
<1>5. /\ sub \in Seq(Argument) /\ Len(sub) = Len(r)
      /\ first \in 1..Len(r) => HasTmux(r[first])
      /\ \A i \in 1..Len(r) :
           /\ sub[i].opt = r[i].opt
           /\ i # first => sub[i] = r[i]
           /\ i = first => /\ Len(sub[i].val) = 1
                           /\ sub[i].val[1].put = new \/ sub[i].val[1].text = new
  BY <1>1, <1>2, SubstituteFacts
<1> HIDE DEF sub, first
<1>6. ASSUME NEW i \in 1..Len(r), i = first PROVE sub[i].val \notin Directories
  <2> DEFINE val == sub[i].val
  <2>1. val \in Seq(Word) /\ Len(val) = 1 /\ (val[1].put = new \/ val[1].text = new)
    <3>1. sub[i] \in Argument
      BY <1>5, ElementOfSeq
    <3> QED
      BY <1>5, <1>6, <3>1 DEF Argument
  <2>2. 1 \in DOMAIN val
    BY <2>1, LenProperties
  <2> HIDE DEF val
  <2>3. ASSUME val \in Directories PROVE val[1].put = "" /\ val[1].text \notin {"cli-qemu", "cli-gdb"}
    BY <2>2, <2>3, StartKernelAssumption
  <2>4. val \notin Directories
    BY <1>1, <2>1, <2>3
  <2> QED
    BY <2>4 DEF val
<1>7. /\ Append(sub, last) \in Seq(Argument)
      /\ Len(Append(sub, last)) = Len(r) + 1
      /\ \A i \in 1..Len(r) : Append(sub, last)[i] = sub[i]
      /\ Append(sub, last)[Len(r) + 1] = last
  BY <1>3, <1>5, AppendProperties
<1>8. \A i \in 1..Len(r) :
        /\ Append(sub, last)[i].opt = r[i].opt
        /\ i # first => Append(sub, last)[i] = r[i]
        /\ i = first => /\ HasTmux(r[i]) /\ Append(sub, last)[i].val \notin Directories
                        /\ Len(Append(sub, last)[i].val) = 1
  BY <1>5, <1>6, <1>7
<1> QED
  BY <1>2, <1>4, <1>7, <1>8 DEF r, first, last, new

-----------------------------------------------------------------------------
(***************************************************************************)
(* The values that arguments give to the variables.                        *)
(***************************************************************************)

\* One more argument sets its own variable and no other.
LEMMA ValueStep ==
    ASSUME NEW args, NEW n \in Nat, NEW v
    PROVE  /\ ValueAfter(args, 0, v) = Default(v)
           /\ ValueAfter(args, n + 1, v) = IF args[n + 1].opt = v THEN args[n + 1].val
                                           ELSE ValueAfter(args, n, v)
<1> DEFINE I(k) == {i \in 1..k : args[i].opt = v}
<1>1. I(0) = {}
  BY 1..0 = {}
<1>2. CASE args[n + 1].opt = v
  <2>1. n + 1 \in I(n + 1)
    BY <1>2
  <2>2. Max(I(n + 1)) \in I(n + 1) /\ \A i \in I(n + 1) : i <= Max(I(n + 1))
    <3>1. I(n + 1) \in SUBSET (1..(n + 1)) /\ I(n + 1) # {}
      BY <2>1
    <3>2. n + 1 \in Nat
      OBVIOUS
    <3> DEFINE m == n + 1
               K == I(n + 1)
    <3> HIDE DEF I, K, m
    <3>3. Max(K) \in K /\ \A i \in K : i <= Max(K)
      BY <3>1, <3>2, MinMax DEF m, K
    <3> QED
      BY <3>3 DEF K
  <2>3. Max(I(n + 1)) = n + 1
    BY <2>1, <2>2
  <2> QED
    BY <1>1, <1>2, <2>1, <2>3 DEF ValueAfter
<1>3. CASE args[n + 1].opt # v
  <2>1. I(n + 1) = I(n)
    BY <1>3
  <2> QED
    BY <1>1, <1>3, <2>1 DEF ValueAfter
<1> QED
  BY <1>2, <1>3

\* The first n arguments of a and of b have the same options; they get the value of v
\* from the same place.
SameOptions(a, b, n) == \A i \in 1..n : a[i].opt = b[i].opt
SamePlace(a, b, n, v) ==
    \/ ValueAfter(a, n, v) = Default(v) /\ ValueAfter(b, n, v) = Default(v)
    \/ \E i \in 1..n : /\ a[i].opt = v
                       /\ ValueAfter(a, n, v) = a[i].val
                       /\ ValueAfter(b, n, v) = b[i].val

\* With the same options in the same order, the values come from the same place.
LEMMA ValueTogether ==
    ASSUME NEW a, NEW b, NEW n \in Nat, NEW v, SameOptions(a, b, n)
    PROVE  SamePlace(a, b, n, v)
<1> DEFINE I == {i \in 1..n : a[i].opt = v}
           J == {i \in 1..n : b[i].opt = v}
<1>1. I = J
  BY DEF SameOptions
<1>2. CASE I = {}
  BY <1>1, <1>2 DEF ValueAfter, SamePlace
<1>3. CASE I # {}
  <2>1. Max(I) \in I
    <3>1. I \in SUBSET (1..n)
      OBVIOUS
    <3> HIDE DEF I
    <3> QED
      BY <1>3, <3>1, MinMax
  <2>2. ValueAfter(a, n, v) = a[Max(I)].val /\ ValueAfter(b, n, v) = b[Max(I)].val
    BY <1>1, <1>3 DEF ValueAfter
  <2>3. Max(I) \in 1..n /\ a[Max(I)].opt = v
    BY <2>1
  <2> HIDE DEF I
  <2> QED
    BY <2>2, <2>3 DEF SamePlace
<1> QED
  BY <1>2, <1>3

\* The variable of an option that is not --terminal has the same value in a pane as in
\* the arguments before the terminal was added.
LEMMA PaneValue ==
    ASSUME NEW args \in Seq(Argument), NEW p \in Panes, NEW v \in Reset \cup Kept, v # "TERMINAL"
    PROVE  FinalEnv(PaneArgs(args, p))[v] = ValueAfter(PaneArgs(args, p), Len(Resplit(args)), v)
<1> DEFINE g == PaneArgs(args, p)
           n == Len(Resplit(args))
<1>1. n \in Nat /\ Len(g) = n + 1 /\ g[n + 1].opt = "TERMINAL"
  <2>1. n \in Nat /\ Len(g) = n + 1 /\ g[n + 1] = Arg("TERMINAL", <<Plain(CliTerminal(p))>>)
    BY PaneFacts
  <2> HIDE DEF g, n
  <2> QED
    BY <2>1 DEF Arg
<1>2. FinalEnv(g)[v] = ValueAfter(g, n + 1, v)
  BY <1>1 DEF FinalEnv
<1> HIDE DEF g, n
<1>3. ValueAfter(g, n + 1, v) = ValueAfter(g, n, v)
  BY <1>1, ValueStep
<1> QED
  BY <1>2, <1>3 DEF g, n

\* The two panes accept or refuse together, and what they accept names one kernel.
LEMMA PanesAlike ==
    ASSUME NEW args \in Seq(Argument), NEW p \in Panes, NEW q \in Panes, Accepts(PaneArgs(args, p))
    PROVE  /\ Accepts(PaneArgs(args, q))
           /\ FinalEnv(PaneArgs(args, q))["KERNEL"] = FinalEnv(PaneArgs(args, p))["KERNEL"]
<1> DEFINE r == Resplit(args)
           g == PaneArgs(args, p)
           h == PaneArgs(args, q)
           n == Len(r)
           first == FirstTmux(r)
<1>1. /\ n \in Nat /\ Len(g) = n + 1 /\ Len(h) = n + 1
      /\ g \in Seq(Argument) /\ h \in Seq(Argument)
      /\ g[n + 1].opt = "TERMINAL" /\ h[n + 1].opt = "TERMINAL"
  <2>1. /\ n \in Nat /\ Len(g) = n + 1 /\ g \in Seq(Argument)
        /\ g[n + 1] = Arg("TERMINAL", <<Plain(CliTerminal(p))>>)
    BY PaneFacts
  <2>2. /\ Len(h) = n + 1 /\ h \in Seq(Argument)
        /\ h[n + 1] = Arg("TERMINAL", <<Plain(CliTerminal(q))>>)
    BY PaneFacts
  <2> HIDE DEF g, h, n
  <2> QED
    BY <2>1, <2>2 DEF Arg
<1>2. \A i \in 1..n : /\ g[i].opt = r[i].opt /\ h[i].opt = r[i].opt
                      /\ i # first => g[i] = r[i] /\ h[i] = r[i]
                      /\ i = first => g[i].val \notin Directories /\ h[i].val \notin Directories
  BY PaneFacts
<1>3. /\ FinalEnv(g)["KERNEL"] = ValueAfter(g, n, "KERNEL")
      /\ FinalEnv(h)["KERNEL"] = ValueAfter(h, n, "KERNEL")
  BY PaneValue DEF Reset
<1>4. FinalEnv(g)["KERNEL"] \in Directories /\ \A i \in DOMAIN g : g[i].opt # "bad"
  BY DEF Accepts
<1> HIDE DEF r, g, h, n, first
<1>5. \A i \in DOMAIN h : h[i].opt # "bad"
  <2>1. DOMAIN g = 1..(n + 1) /\ DOMAIN h = 1..(n + 1)
    BY <1>1, LenProperties
  <2>2. ASSUME NEW i \in 1..(n + 1) PROVE h[i].opt # "bad"
    <3>1. CASE i = n + 1
      BY <1>1, <3>1
    <3>2. CASE i # n + 1
      <4>1. i \in 1..n
        BY <1>1, <3>2
      <4> QED
        BY <1>2, <1>4, <2>1, <4>1
    <3> QED
      BY <3>1, <3>2
  <2> QED
    BY <2>1, <2>2
<1>6. ValueAfter(h, n, "KERNEL") = ValueAfter(g, n, "KERNEL")
  <2>1. \A i \in 1..n : g[i].opt = h[i].opt
    BY <1>2
  <2>2. \/ ValueAfter(g, n, "KERNEL") = Default("KERNEL") /\ ValueAfter(h, n, "KERNEL") = Default("KERNEL")
        \/ \E i \in 1..n : /\ g[i].opt = "KERNEL"
                           /\ ValueAfter(g, n, "KERNEL") = g[i].val
                           /\ ValueAfter(h, n, "KERNEL") = h[i].val
    <3>1. n \in Nat /\ SameOptions(g, h, n)
      BY <1>1, <2>1 DEF SameOptions
    <3>2. SamePlace(g, h, n, "KERNEL")
      BY <3>1, ValueTogether
    <3> QED
      BY <3>2 DEF SamePlace
  <2>3. ASSUME NEW i \in 1..n, ValueAfter(g, n, "KERNEL") = g[i].val,
               ValueAfter(h, n, "KERNEL") = h[i].val
        PROVE  ValueAfter(h, n, "KERNEL") = ValueAfter(g, n, "KERNEL")
    <3>1. i # first
      BY <1>2, <1>3, <1>4, <2>3
    <3> QED
      BY <1>2, <2>3, <3>1
  <2> QED
    BY <2>2, <2>3
<1>7. FinalEnv(h)["KERNEL"] = FinalEnv(g)["KERNEL"]
  BY <1>3, <1>6
<1>8. Accepts(h)
  BY <1>4, <1>5, <1>7 DEF Accepts
<1> QED
  BY <1>7, <1>8 DEF g, h

\* If every value is one word, and "tmux" occurs in the terminal only, then a pane has
\* the values of the launcher, but for the terminal.
LEMMA SingleWords ==
    ASSUME request \in Seq(Argument), TmuxOnlyInTerminal, NEW p \in Panes,
           \A i \in 1..Len(request) : Len(request[i].val) <= 1
    PROVE  /\ \A v \in (Reset \cup Kept) \ {"TERMINAL"} :
                FinalEnv(PaneArgs(request, p))[v] = FinalEnv(request)[v]
           /\ Accepts(request) => Accepts(PaneArgs(request, p))
<1> DEFINE g == PaneArgs(request, p)
           n == Len(request)
           first == FirstTmux(request)
<1>1. Resplit(request) = request
  BY ResplitFacts
<1>2. /\ n \in Nat /\ Len(g) = n + 1 /\ g \in Seq(Argument) /\ g[n + 1].opt = "TERMINAL"
      /\ \A i \in 1..n : /\ g[i].opt = request[i].opt
                         /\ i # first => g[i] = request[i]
                         /\ i = first => HasTmux(request[i])
  <2>1. LET r == Resplit(request)
        IN  /\ g \in Seq(Argument) /\ Len(r) \in Nat /\ Len(g) = Len(r) + 1
            /\ g[Len(r) + 1] = Arg("TERMINAL", <<Plain(CliTerminal(p))>>)
            /\ \A i \in 1..Len(r) :
                 /\ g[i].opt = r[i].opt
                 /\ i # FirstTmux(r) => g[i] = r[i]
                 /\ i = FirstTmux(r) => HasTmux(r[i])
    BY PaneFacts
  <2> HIDE DEF g
  <2> QED
    BY <1>1, <2>1 DEF Arg
<1>3. DOMAIN request = 1..n
  BY LenProperties
<1>4. ASSUME NEW i \in 1..n, request[i].opt # "TERMINAL" PROVE g[i] = request[i]
  <2>1. ~HasTmux(request[i])
    <3> SUFFICES ASSUME HasTmux(request[i]) PROVE FALSE
      OBVIOUS
    <3>1. request[i].val # Empty /\ request[i].val[1].text \in TmuxTexts
      BY DEF HasTmux
    <3>2. request[i].val \in Seq(Word)
      <4>1. request[i] \in Argument
        BY ElementOfSeq
      <4> QED
        BY <4>1 DEF Argument
    <3>3. 1 \in DOMAIN request[i].val
      BY <3>1, <3>2, EmptySeq, LenProperties DEF Empty
    <3> QED
      BY <1>3, <1>4, <3>1, <3>3 DEF TmuxOnlyInTerminal
  <2> QED
    BY <1>2, <2>1
<1>5. ASSUME NEW v \in (Reset \cup Kept) \ {"TERMINAL"} PROVE FinalEnv(g)[v] = FinalEnv(request)[v]
  <2>1. FinalEnv(g)[v] = ValueAfter(g, n, v)
    BY <1>1, PaneValue
  <2>2. FinalEnv(request)[v] = ValueAfter(request, n, v)
    BY DEF FinalEnv
  <2> HIDE DEF g, n
  <2>3. \A i \in 1..n : g[i].opt = request[i].opt
    BY <1>2
  <2>4. \/ ValueAfter(g, n, v) = Default(v) /\ ValueAfter(request, n, v) = Default(v)
        \/ \E i \in 1..n : /\ g[i].opt = v
                           /\ ValueAfter(g, n, v) = g[i].val
                           /\ ValueAfter(request, n, v) = request[i].val
    <3>1. n \in Nat /\ SameOptions(g, request, n)
      BY <1>2, <2>3 DEF SameOptions
    <3>2. SamePlace(g, request, n, v)
      BY <3>1, ValueTogether
    <3> QED
      BY <3>2 DEF SamePlace
  <2>5. ASSUME NEW i \in 1..n, g[i].opt = v, ValueAfter(g, n, v) = g[i].val,
               ValueAfter(request, n, v) = request[i].val
        PROVE  ValueAfter(g, n, v) = ValueAfter(request, n, v)
    BY <1>4, <2>3, <2>5
  <2> QED
    BY <2>1, <2>2, <2>4, <2>5
<1>6. ASSUME Accepts(request) PROVE Accepts(g)
  <2>1. DOMAIN g = 1..(n + 1)
    BY <1>2, LenProperties
  <2>2. ASSUME NEW i \in 1..(n + 1) PROVE g[i].opt # "bad"
    <3>1. CASE i = n + 1
      BY <1>2, <3>1
    <3>2. CASE i # n + 1
      <4>1. i \in 1..n
        BY <1>2, <3>2
      <4> QED
        BY <1>2, <1>3, <1>6, <4>1 DEF Accepts
    <3> QED
      BY <3>1, <3>2
  <2>3. FinalEnv(g)["KERNEL"] \in Directories
    BY <1>5, <1>6 DEF Accepts, Reset
  <2> QED
    BY <2>1, <2>2, <2>3 DEF Accepts
<1> QED
  BY <1>5, <1>6

\* A pane accepts no value of several words: one of its words would be a bad argument.
LEMMA AcceptedWords ==
    ASSUME NEW args \in Seq(Argument), NEW p \in Panes, Accepts(PaneArgs(args, p))
    PROVE  \A i \in 1..Len(args) : Len(args[i].val) <= 1
<1> DEFINE r == Resplit(args)
           g == PaneArgs(args, p)
<1>1. /\ g \in Seq(Argument) /\ Len(r) \in Nat /\ Len(g) = Len(r) + 1
      /\ \A i \in 1..Len(r) : g[i].opt = r[i].opt
  BY PaneFacts
<1>2. \A i \in 1..Len(r) : r[i].opt # "bad"
  <2>1. DOMAIN g = 1..(Len(r) + 1)
    BY <1>1, LenProperties
  <2>2. \A i \in 1..Len(r) : i \in 1..(Len(r) + 1)
    BY <1>1
  <2>3. \A i \in DOMAIN g : g[i].opt # "bad"
    BY DEF Accepts
  <2> HIDE DEF g, r
  <2> QED
    BY <1>1, <2>1, <2>2, <2>3
<1>3. ASSUME NEW i \in 1..Len(args) PROVE Len(args[i].val) <= 1
  <2>1. ~(Len(args[i].val) > 1)
    BY <1>2, ResplitFacts
  <2>2. Len(args[i].val) \in Nat
    BY ElementOfSeq, LenProperties DEF Argument
  <2> QED
    BY <2>1, <2>2
<1> QED
  BY <1>3

\* So what it accepts are the values of the launcher, if "tmux" is in the terminal only.
LEMMA AcceptedValues ==
    ASSUME request \in Seq(Argument), TmuxOnlyInTerminal, NEW p \in Panes,
           Accepts(PaneArgs(request, p))
    PROVE  \A v \in (Reset \cup Kept) \ {"TERMINAL"} :
             FinalEnv(PaneArgs(request, p))[v] = FinalEnv(request)[v]
BY AcceptedWords, SingleWords

\* No value that a pane accepts has a blank: nothing cuts its line.
LEMMA PaneWords ==
    ASSUME NEW args \in Seq(Argument), NEW p \in Panes, Accepts(PaneArgs(args, p)),
           NEW v \in (Reset \cup Kept) \ {"TERMINAL"}
    PROVE  Len(FinalEnv(PaneArgs(args, p))[v]) <= 1
<1> DEFINE r == Resplit(args)
           g == PaneArgs(args, p)
           n == Len(args)
<1>1. \A i \in 1..n : Len(args[i].val) <= 1
  BY AcceptedWords
<1>2. r = args
  BY <1>1, ResplitFacts
<1>3. n \in Nat /\ \A i \in 1..n : g[i] = args[i] \/ Len(g[i].val) = 1
  <2>1. Len(r) \in Nat /\ \A i \in 1..Len(r) : (i # FirstTmux(r) => g[i] = r[i]) /\ (i = FirstTmux(r) => Len(g[i].val) = 1)
    BY PaneFacts
  <2> HIDE DEF g, r
  <2> QED
    BY <1>2, <2>1
<1>4. FinalEnv(g)[v] = ValueAfter(g, n, v)
  BY <1>2, PaneValue
<1> HIDE DEF g, r, n
<1>5. SamePlace(g, g, n, v)
  BY <1>3, ValueTogether DEF SameOptions
<1>6. Len(Default(v)) <= 1
  <2>1. \A x : Len(<<x>>) = 1
    OBVIOUS
  <2>2. Len(Empty) = 0
    BY DEF Empty
  <2>3. \/ Default(v) = Empty
        \/ \E text \in {"initrd_aarch64.cpio.gz", "host-share", "gdb", DefaultTerminal} :
             Default(v) = <<Plain(text)>>
    BY DEF Default
  <2>4. Len(Default(v)) = 0 \/ Len(Default(v)) = 1
    BY <2>1, <2>2, <2>3, Zenon
  <2>5. \A k \in {0, 1} : k <= 1
    OBVIOUS
  <2> QED
    BY <2>4, <2>5, Zenon
<1>7. ASSUME NEW i \in 1..n PROVE Len(g[i].val) <= 1
  <2>1. CASE g[i] = args[i]
    BY <1>1, <2>1, Zenon
  <2>2. CASE Len(g[i].val) = 1
    BY <2>2
  <2> QED
    BY <1>3, <2>1, <2>2
<1> QED
  BY <1>4, <1>5, <1>6, <1>7, Zenon DEF SamePlace, g

-----------------------------------------------------------------------------
(***************************************************************************)
(* What the invariant says of a run at a line.                             *)
(***************************************************************************)

\* The variables e of a run that has read all of args.
Agrees(e, args) ==
    /\ \A v \in Reset : e[v] = FinalEnv(args)[v]
    /\ \A v \in {"ROOTFS", "QEMU_DIR"} : FinalEnv(args)[v] # Empty => e[v] = FinalEnv(args)[v]

\* The arguments of every shell are a sequence of arguments.
LEMMA GivenSeq ==
    ASSUME TypeOK, NEW s \in Shells
    PROVE  Given(s) \in Seq(Argument) /\ Len(Given(s)) \in Nat /\ request \in Seq(Argument)
<1>1. request \in Seq(Argument)
  BY TypedSeq DEF TypeOK
<1>2. Given(s) \in Seq(Argument)
  BY <1>1, PaneFacts DEF Given
<1> QED
  BY <1>1, <1>2, LenProperties

\* Past its loop a run has read all of its arguments; in a pane that decides the terminal
\* and the port, and that nothing was refused decides that the arguments are accepted.
LEMMA Finished ==
    ASSUME IInv, NEW s \in Shells, pc[s] \notin {"idle", "parse"}
    PROVE  /\ Agrees(env[s], Given(s))
           /\ s \notin refused => \A i \in DOMAIN Given(s) : Given(s)[i].opt # "bad"
           /\ s \in Panes => /\ env[s]["ROOTFS"] = FinalEnv(Given(s))["ROOTFS"]
                             /\ Terminal(env[s]) = CliTerminal(s)
                             /\ DebugPort(env[s]) = "12880"
                             /\ s \notin refused
<1> DEFINE args == Given(s)
           n == Len(args)
<1>1. args \in Seq(Argument) /\ n \in Nat /\ DOMAIN args = 1..n /\ request \in Seq(Argument)
  BY GivenSeq, LenProperties DEF IInv
<1>2. todo[s] = <<>>
  BY DEF IInv, ArgsRead, HasRead
<1>3. n - Len(todo[s]) = n
  BY <1>1, <1>2
<1>4. /\ \A v \in Reset : env[s][v] = ValueAfter(args, n, v)
      /\ \A v \in {"ROOTFS", "QEMU_DIR"} : ValueAfter(args, n, v) # Empty => env[s][v] = ValueAfter(args, n, v)
      /\ s \in Panes => env[s]["ROOTFS"] = ValueAfter(args, n, "ROOTFS")
      /\ s \notin refused => \A i \in 1..n : args[i].opt # "bad"
  <2>1. HasRead(s)
    BY DEF IInv, ArgsRead
  <2>2. /\ \A v \in Reset : env[s][v] = ValueAfter(args, n - Len(todo[s]), v)
        /\ \A v \in {"ROOTFS", "QEMU_DIR"} : ValueAfter(args, n - Len(todo[s]), v) # Empty =>
             env[s][v] = ValueAfter(args, n - Len(todo[s]), v)
        /\ s \in Panes => env[s]["ROOTFS"] = ValueAfter(args, n - Len(todo[s]), "ROOTFS")
        /\ s \notin refused => \A i \in 1..(n - Len(todo[s])) : args[i].opt # "bad"
    BY <2>1, Zenon DEF HasRead
  <2> QED
    BY <1>3, <2>2
<1>5. Agrees(env[s], args) /\ (s \in Panes => env[s]["ROOTFS"] = FinalEnv(args)["ROOTFS"])
  BY <1>4 DEF Agrees, FinalEnv, Kept
<1>6. ASSUME s \in Panes
      PROVE  Terminal(env[s]) = CliTerminal(s) /\ DebugPort(env[s]) = "12880" /\ s \notin refused
  <2>1. /\ n = Len(Resplit(request)) + 1 /\ Len(Resplit(request)) \in Nat
        /\ args[n] = Arg("TERMINAL", <<Plain(CliTerminal(s))>>)
    <3>1. args = PaneArgs(request, s)
      BY <1>6 DEF Given
    <3> DEFINE g == PaneArgs(request, s)
               m == Len(Resplit(request))
    <3>2. m \in Nat /\ Len(g) = m + 1 /\ g[m + 1] = Arg("TERMINAL", <<Plain(CliTerminal(s))>>)
      BY <1>1, <1>6, PaneFacts
    <3> HIDE DEF g, m
    <3>3. args = g
      BY <3>1 DEF g
    <3>4. Len(args) = m + 1 /\ args[m + 1] = Arg("TERMINAL", <<Plain(CliTerminal(s))>>)
      BY <3>2, <3>3
    <3> QED
      BY <3>2, <3>4 DEF m
  <2>2. args[n].opt = "TERMINAL" /\ args[n].val = <<Plain(CliTerminal(s))>>
    BY <2>1 DEF Arg
  <2>3. ValueAfter(args, n, "TERMINAL") = <<Plain(CliTerminal(s))>>
    <3> DEFINE m == Len(Resplit(request))
    <3> HIDE DEF args, m
    <3>1. m \in Nat /\ args[m + 1].opt = "TERMINAL" /\ args[m + 1].val = <<Plain(CliTerminal(s))>>
      BY <2>1, <2>2 DEF m
    <3>2. ValueAfter(args, m + 1, "TERMINAL") = <<Plain(CliTerminal(s))>>
      BY <3>1, ValueStep
    <3> QED
      BY <2>1, <3>2 DEF m
  <2>4. env[s]["TERMINAL"] = <<Plain(CliTerminal(s))>>
    BY <1>4, <2>3 DEF Reset
  <2>5. CliTerminal(s) \in {"cli-qemu", "cli-gdb"}
    BY DEF CliTerminal
  <2> DEFINE t == <<Plain(CliTerminal(s))>>
  <2>6. Len(t) = 1 /\ t[1].put = "" /\ t[1].text = CliTerminal(s) /\ t # Empty
    BY DEF Plain, Empty
  <2>7. Terminal(env[s]) = CliTerminal(s)
    BY <2>4, <2>6 DEF Terminal, Single
  <2>8. DebugPort(env[s]) = "12880"
    BY <2>4, <2>5, <2>6 DEF DebugPort
  <2>9. s \notin refused
    BY <1>6 DEF IInv, Refusals
  <2> QED
    BY <2>7, <2>8, <2>9
<1> QED
  BY <1>1, <1>4, <1>5, <1>6

\* A value of a single word is its first word, and no more.
LEMMA OneWord ==
    ASSUME NEW x \in Seq(Word), Len(x) = 1
    PROVE  x # Empty /\ FirstWord(x) = x /\ Last(x) = x[1]
<1>1. x # Empty
  BY DEF Empty
<1>2. <<Head(x)>> = x /\ x[Len(x)] = x[1]
  OBVIOUS
<1> QED
  BY <1>1, <1>2 DEF FirstWord, Last

\* Where the line of e ends, and what is before it.
LEMMA LineOf ==
    ASSUME NEW e \in [Reset \cup Kept -> Seq(Word)], Len(e["SHARE_FOLDER"]) <= 1
    PROVE  /\ Len(ImagePath(e)) <= 1 => Cut(e) = "none"
           /\ Len(ImagePath(e)) > 1 => Cut(e) = "image"
<1>1. ImagePath(e) \in Seq(Word) /\ Len(ImagePath(e)) \in Nat /\ Len(e["SHARE_FOLDER"]) \in Nat
  <2>1. e["ROOTFS"] \in Seq(Word) /\ e["INITRD"] \in Seq(Word) /\ e["SHARE_FOLDER"] \in Seq(Word)
    BY DEF Reset, Kept
  <2> QED
    BY <2>1, LenProperties DEF ImagePath
<1>2. ~(Len(e["SHARE_FOLDER"]) > 1)
  BY <1>1
<1>3. Len(ImagePath(e)) <= 1 => ~(Len(ImagePath(e)) > 1)
  BY <1>1
<1> QED
  BY <1>2, <1>3 DEF Cut

\* The commands that are built from such variables.
LEMMA CommandsFit ==
    ASSUME NEW e \in [Reset \cup Kept -> Seq(Word)], NEW args, Agrees(e, args)
    PROVE  /\ MadeFrom(QemuCmd(e), args)
           /\ DebugCmd(e).kernel = KernelDir(FinalEnv(args))
           /\ DebugCmd(e).type = KernelType(FinalEnv(args))
<1> DEFINE f == FinalEnv(args)
           c == QemuCmd(e)
<1>1. /\ e["KERNEL"] = f["KERNEL"] /\ e["SHARE_FOLDER"] = f["SHARE_FOLDER"]
      /\ e["QEMU_EXTRA_PARAM"] = f["QEMU_EXTRA_PARAM"] /\ e["CMDLINE"] = f["CMDLINE"]
      /\ e["INITRD"] = f["INITRD"]
      /\ f["ROOTFS"] # Empty => e["ROOTFS"] = f["ROOTFS"]
      /\ f["QEMU_DIR"] # Empty => e["QEMU_DIR"] = f["QEMU_DIR"]
  BY DEF Agrees, Reset
<1>2. /\ e["ROOTFS"] \in Seq(Word) /\ e["INITRD"] \in Seq(Word) /\ e["SHARE_FOLDER"] \in Seq(Word)
      /\ Len(e["ROOTFS"]) \in Nat
  <2>1. e["ROOTFS"] \in Seq(Word) /\ e["INITRD"] \in Seq(Word) /\ e["SHARE_FOLDER"] \in Seq(Word)
    BY DEF Reset, Kept
  <2> QED
    BY <2>1, LenProperties
<1>3. /\ c.kernel = KernelDir(e) /\ c.type = KernelType(e) /\ c.bin = e["QEMU_DIR"] /\ c.boot = Boot(e)
      /\ c.share = Share(e) /\ c.cut = Cut(e)
      /\ Cut(e) = "none" => c.extra = e["QEMU_EXTRA_PARAM"] /\ c.append = e["CMDLINE"]
  BY DEF QemuCmd
<1>4. DebugCmd(e).kernel = KernelDir(e) /\ DebugCmd(e).type = KernelType(e)
  BY DEF DebugCmd
<1>5. /\ Boot(e).from = IF e["ROOTFS"] # Empty THEN "rootfs" ELSE "initrd"
      /\ Boot(e).image = FirstWord(ImagePath(e))
      /\ e["ROOTFS"] # Empty /\ Cut(e) = "none" =>
           Boot(e).device = IF Last(e["ROOTFS"]).text \in Qcow2 THEN "vda1" ELSE "vda"
  BY DEF Boot
<1> HIDE DEF f, c
<1>6. KernelDir(e) = KernelDir(f) /\ KernelType(e) = KernelType(f)
  BY <1>1, Zenon DEF KernelDir, KernelType
<1>7. ASSUME Accepts(args), WordPaths(args) PROVE Fits(c, args)
  <2>1. /\ f["KERNEL"] \in Directories /\ Len(f["KERNEL"]) = 1 /\ Len(f["INITRD"]) = 1
        /\ Len(f["SHARE_FOLDER"]) = 1 /\ Len(f["ROOTFS"]) <= 1
    BY <1>7 DEF Accepts, WordPaths, f
  <2>2. c.kernel = f["KERNEL"] /\ (c.type = "android" <=> f["KERNEL"] \in AndroidTrees)
    <3>1. KernelDir(f) = f["KERNEL"]
      BY <2>1, StartKernelAssumption DEF KernelDir
    <3> QED
      BY <1>3, <1>6, <3>1 DEF KernelType
  <2>3. f["QEMU_DIR"] # Empty => c.bin = f["QEMU_DIR"]
    BY <1>1, <1>3
  <2>4. /\ FirstWord(e["INITRD"]) = f["INITRD"] /\ FirstWord(e["SHARE_FOLDER"]) = f["SHARE_FOLDER"]
        /\ e["INITRD"] # Empty
    BY <1>1, <1>2, <2>1, OneWord
  <2>5. /\ Len(ImagePath(e)) <= 1 => Cut(e) = "none"
        /\ Len(ImagePath(e)) > 1 => Cut(e) = "image"
    <3>1. Len(e["SHARE_FOLDER"]) <= 1
      BY <1>1, <2>1
    <3> QED
      BY <3>1, LineOf
  <2>6. ImagePath(e) # Empty
    BY <2>4 DEF ImagePath
  <2>7. ASSUME Cut(e) = "none"
        PROVE  c.share = f["SHARE_FOLDER"] /\ c.extra = f["QEMU_EXTRA_PARAM"] /\ c.append = f["CMDLINE"]
    <3>1. Share(e) = FirstWord(e["SHARE_FOLDER"])
      BY <2>6, <2>7 DEF Share
    <3> QED
      BY <1>1, <1>3, <2>4, <2>7, <3>1
  <2>8. CASE e["ROOTFS"] = Empty
    <3>1. ImagePath(e) = e["INITRD"] /\ Cut(e) = "none" /\ f["ROOTFS"] = Empty
      <4>1. ImagePath(e) = f["INITRD"] /\ f["ROOTFS"] = Empty
        BY <1>1, <2>8 DEF ImagePath
      <4>2. Len(ImagePath(e)) = 1
        BY <2>1, <4>1, Zenon
      <4>3. Len(ImagePath(e)) <= 1
        BY <4>2
      <4> QED
        BY <1>1, <2>5, <4>1, <4>3
    <3>2. c.boot.from = "initrd" /\ c.boot.image = f["INITRD"]
      BY <1>3, <1>5, <2>4, <2>8, <3>1
    <3> QED
      BY <2>2, <2>3, <2>7, <3>1, <3>2 DEF Fits, f
  <2>9. CASE e["ROOTFS"] # Empty /\ f["ROOTFS"] = Empty
    <3>1. ImagePath(e) = e["ROOTFS"] /\ c.boot.from = "rootfs"
      BY <1>3, <1>5, <2>9 DEF ImagePath
    <3>2. Cut(e) = "none" \/ Cut(e) = "image"
      BY <1>2, <2>5, <3>1
    <3>3. c.cut = "image" \/ (c.share = f["SHARE_FOLDER"] /\ c.extra = f["QEMU_EXTRA_PARAM"] /\ c.append = f["CMDLINE"])
      BY <1>3, <2>7, <3>2
    <3> QED
      BY <2>2, <2>3, <2>9, <3>1, <3>3 DEF Fits, f
  <2>10. CASE e["ROOTFS"] # Empty /\ f["ROOTFS"] # Empty
    <3>1. ImagePath(e) = e["ROOTFS"] /\ e["ROOTFS"] = f["ROOTFS"] /\ c.boot.from = "rootfs"
      BY <1>1, <1>3, <1>5, <2>10 DEF ImagePath
    <3>2. Len(e["ROOTFS"]) = 1
      <4>1. Len(e["ROOTFS"]) \in Nat \ {0}
        BY <1>2, <2>10, EmptySeq DEF Empty
      <4>2. Len(e["ROOTFS"]) <= 1
        BY <2>1, <3>1, Zenon
      <4>3. \A k \in Nat \ {0} : k <= 1 => k = 1
        OBVIOUS
      <4> QED
        BY <4>1, <4>2, <4>3, Zenon
    <3>3. Cut(e) = "none"
      BY <2>5, <3>1, <3>2
    <3>4. FirstWord(e["ROOTFS"]) = f["ROOTFS"] /\ Last(e["ROOTFS"]) = f["ROOTFS"][1]
      BY <1>2, <3>1, <3>2, OneWord
    <3>5. c.boot.image = f["ROOTFS"]
      BY <1>3, <1>5, <3>1, <3>4
    <3>6. c.boot.device = IF f["ROOTFS"][1].text \in Qcow2 THEN "vda1" ELSE "vda"
      BY <1>3, <1>5, <2>10, <3>3, <3>4
    <3> QED
      BY <2>2, <2>3, <2>7, <2>10, <3>1, <3>3, <3>5, <3>6 DEF Fits, f
  <2> QED
    BY <2>8, <2>9, <2>10
<1> QED
  BY <1>3, <1>4, <1>6, <1>7 DEF MadeFrom, f, c

\* A run that has read its arguments still has after a step that leaves them, and its
\* variables, as they are.
LEMMA ReadFrame ==
    ASSUME NEW t \in Shells, HasRead(t), request' = request, todo'[t] = todo[t],
           \A v \in Reset \cup {"ROOTFS"} : env'[t][v] = env[t][v],
           env'[t]["QEMU_DIR"] = env[t]["QEMU_DIR"] \/ env[t]["QEMU_DIR"] = Empty,
           pc'[t] # "parse" => todo[t] = <<>>, refused \subseteq refused'
    PROVE  HasRead(t)'
<1>1. Given(t)' = Given(t)
  BY DEF Given
<1> QED
  BY <1>1 DEF HasRead

\* Who runs: the launch, or a copy of it while it is attached.
LEMMA Who ==
    ASSUME IInv, NEW s \in Shells, pc[s] # "idle"
    PROVE  /\ "user" \notin refused
           /\ s \notin Panes => s = Launcher
           /\ s \in Panes => pc[Launcher] = "attached" /\ s \notin refused
           /\ Launcher \in {"user", "child"}
<1>1. Launcher \in {"user", "child"}
  BY DEF Launcher
<1>2. "user" \notin refused
  BY DEF IInv, Refusals
<1>3. s \notin Panes => s = Launcher
  BY DEF IInv, OneLaunch, Shells, Panes
<1>4. s \in Panes => pc[Launcher] = "attached" /\ s \notin refused
  BY DEF IInv, OneLaunch, Refusals
<1> QED
  BY <1>1, <1>2, <1>3, <1>4

\* A step that runs no command.
LEMMA CommandsFrame ==
    ASSUME IInv, request' = request, ran' = ran, debugged' = debugged,
           pc'["left"] \notin {"attached", "debug", "cleanup"}, pc'["right"] # "attached"
    PROVE  Commands'
<1>1. "left" \in Shells /\ "right" \in Shells
  BY DEF Shells
<1>2. \A t \in Shells : Given(t)' = Given(t)
  BY DEF Given
<1> QED
  BY <1>1, <1>2 DEF IInv, Commands, MadeFrom, WordPaths, Fits, Accepts

\* A step of a run within itself: to another line, with its own variables changed, with
\* an error message only if it was executed, and with commands only at the end.
LEMMA LocalStep ==
    ASSUME IInv, NEW s \in Shells, NEW label \in Labels \ {"idle", "attached"},
           pc[s] \notin {"idle", "attached"},
           pc' = [pc EXCEPT ![s] = label],
           env' \in [Shells -> [Reset \cup Kept -> Seq(Word)]],
           todo' \in [Shells -> Seq(Argument)],
           \A t \in Shells \ {s} : env'[t] = env[t] /\ todo'[t] = todo[t],
           refused' = refused \/ (s = "child" /\ refused' = refused \cup {s}),
           UNCHANGED <<mode, request, cleaned, launches>>,
           DOMAIN ran' = Shells, DOMAIN debugged' = Shells,
           label \in {"debug", "cleanup"} \/ (ran' = ran /\ debugged' = debugged),
           HasRead(s)', Commands',
           label \notin {"parse", "check"} /\ s \notin refused' => env'[s]["KERNEL"] \in Directories,
           label \in {"parse", "check", "configure", "run"} =>
             pc[s] \in {"parse", "check", "configure", "run"}
    PROVE  IInv'
<1>1. pc'[s] = label /\ \A t \in Shells \ {s} : pc'[t] = pc[t]
  BY DEF IInv, TypeOK
<1>2. Launcher' = Launcher /\ \A t \in Shells : Given(t)' = Given(t)
  BY DEF Launcher, Given
<1>3. /\ "user" \notin refused /\ Launcher \in {"user", "child"}
      /\ s \notin Panes => s = Launcher
      /\ s \in Panes => pc[Launcher] = "attached" /\ s \notin refused
  BY Who
<1>4. TypeOK'
  BY <1>1 DEF IInv, TypeOK, Labels
<1>5. refused \subseteq refused' /\ \A t \in Shells \ {"child"} : t \in refused' <=> t \in refused
  OBVIOUS
<1>6. OneLaunch'
  <2>1. \A t \in {"user", "child"} \ {Launcher} : pc'[t] = "idle" /\ t \notin refused'
    BY <1>1, <1>3, <1>5 DEF IInv, OneLaunch, Shells, Panes
  <2>2. ASSUME NEW p \in Panes, pc'[p] # "idle" PROVE pc'[Launcher] = "attached"
    <3>1. Launcher \in Shells /\ p \in Shells /\ Launcher \notin Panes
      BY <1>3 DEF Shells, Panes
    <3>2. pc[p] # "idle"
      BY <1>1, <2>2, <3>1
    <3>3. pc[Launcher] = "attached"
      BY <3>2 DEF IInv, OneLaunch
    <3> QED
      BY <1>1, <3>1, <3>3
  <2>3. ASSUME pc'[Launcher] \in {"parse", "check", "configure", "run"}
        PROVE  /\ \A t \in Shells : ran'[t] = {} /\ debugged'[t] = {}
               /\ cleaned' = {} /\ Panes \cap refused' = {}
    <3>1. Launcher \in Shells
      BY <1>3 DEF Shells
    <3>2. pc[Launcher] \in {"parse", "check", "configure", "run"}
      BY <1>1, <2>3, <3>1
    <3>3. ran' = ran /\ debugged' = debugged
      BY <1>1, <1>3, <2>3, <3>1
    <3>4. Panes \cap refused' = Panes \cap refused
      BY <1>5 DEF Panes, Shells
    <3> QED
      BY <3>2, <3>3, <3>4 DEF IInv, OneLaunch
  <2> QED
    BY <1>2, <2>1, <2>2, <2>3 DEF OneLaunch
<1>7. ArgsRead'
  <2>1. ASSUME NEW t \in Shells \ {s}, pc'[t] # "idle" PROVE HasRead(t)'
    <3>1. HasRead(t) /\ pc'[t] = pc[t] /\ todo'[t] = todo[t] /\ env'[t] = env[t]
      BY <1>1, <2>1 DEF IInv, ArgsRead
    <3>2. pc[t] # "parse" => todo[t] = <<>>
      BY <3>1 DEF HasRead
    <3> QED
      BY <1>5, <3>1, <3>2, ReadFrame
  <2> QED
    BY <2>1 DEF ArgsRead
<1>8. Refusals'
  <2>1. ASSUME NEW t \in Shells, pc'[t] \in Labels \ {"idle", "parse", "check"}, t \notin refused'
        PROVE  env'[t]["KERNEL"] \in Directories
    <3>1. CASE t = s
      BY <1>1, <2>1, <3>1
    <3>2. CASE t # s
      BY <1>1, <1>5, <2>1, <3>2 DEF IInv, Refusals
    <3> QED
      BY <3>1, <3>2
  <2>2. "user" \notin refused'
    BY <1>3, <1>5 DEF Shells
  <2>3. ASSUME NEW p \in Panes \cap refused' PROVE pc'[p] = "idle" /\ ~Accepts(Given(p))
    <3>1. p \in refused /\ p # s /\ p \in Shells
      BY <1>3, <1>5, <2>3 DEF Shells, Panes
    <3> QED
      BY <1>1, <2>3, <3>1 DEF IInv, Refusals
  <2>4. ASSUME Panes \cap refused' # {}, {"user", "child"} \cap refused' = {} PROVE Accepts(request)
    <3>1. Panes \cap refused # {} /\ {"user", "child"} \cap refused = {}
      BY <1>5, <2>4 DEF Shells, Panes
    <3> QED
      BY <3>1 DEF IInv, Refusals
  <2>5. \A p \in Panes : Accepts(Given(p))' <=> Accepts(Given(p))
    BY <1>2 DEF Panes, Shells, Accepts
  <2>6. Accepts(request)' <=> Accepts(request)
    BY DEF Accepts
  <2> QED
    BY <2>1, <2>2, <2>3, <2>4, <2>5, <2>6 DEF Refusals
<1> QED
  BY <1>4, <1>6, <1>7, <1>8 DEF IInv

\* An attached launch that printed no error message accepts its own arguments.
LEMMA LauncherAccepts ==
    ASSUME IInv, pc[Launcher] \notin {"idle", "parse", "check"}, Launcher \notin refused
    PROVE  Accepts(request)
<1>1. Launcher \in Shells /\ Launcher \notin Panes /\ Given(Launcher) = request
  BY DEF Launcher, Shells, Panes, Given
<1> DEFINE l == Launcher
<1> HIDE DEF l
<1>2. l \in Shells /\ Given(l) = request /\ l \notin refused /\ pc[l] \notin {"idle", "parse", "check"}
  BY <1>1 DEF l
<1>3. Agrees(env[l], request) /\ \A i \in DOMAIN request : request[i].opt # "bad"
  BY <1>2, Finished
<1>4. env[l]["KERNEL"] \in Directories
  BY <1>2 DEF IInv, TypeOK, Refusals
<1> QED
  BY <1>3, <1>4 DEF Agrees, Accepts, Reset

\* A sourced run that prints an error message is over.
LEMMA QuitStep ==
    ASSUME IInv, NEW s \in Shells \ {"child"}, pc[s] \in {"parse", "check", "configure", "run"},
           pc' = [pc EXCEPT ![s] = "idle"],
           todo' \in [Shells -> Seq(Argument)],
           \A t \in Shells \ {s} : todo'[t] = todo[t],
           refused' = refused \cup {s},
           UNCHANGED <<env, mode, request, ran, debugged, cleaned, launches>>,
           s \in Panes => ~Accepts(Given(s))
    PROVE  IInv'
<1>1. pc'[s] = "idle" /\ \A t \in Shells \ {s} : pc'[t] = pc[t]
  BY DEF IInv, TypeOK
<1>2. Launcher' = Launcher /\ \A t \in Shells : Given(t)' = Given(t)
  BY DEF Launcher, Given
<1>3. /\ "user" \notin refused /\ Launcher \in {"user", "child"}
      /\ s \notin Panes => s = Launcher
      /\ s \in Panes => pc[Launcher] = "attached" /\ s \notin refused
  BY Who
<1>4. TypeOK'
  BY <1>1 DEF IInv, TypeOK, Labels
<1>5. Launcher \in Shells /\ Launcher \notin Panes /\ Panes \subseteq Shells
  BY <1>3 DEF Shells, Panes
<1>6. OneLaunch'
  <2>1. \A t \in {"user", "child"} \ {Launcher} : pc'[t] = "idle" /\ t \notin refused'
    BY <1>1, <1>3 DEF IInv, OneLaunch, Shells, Panes
  <2>2. ASSUME NEW p \in Panes, pc'[p] # "idle" PROVE pc'[Launcher] = "attached"
    <3>1. pc[p] # "idle" /\ p # s
      BY <1>1, <1>5, <2>2
    <3>2. pc[Launcher] = "attached"
      BY <3>1 DEF IInv, OneLaunch
    <3> QED
      BY <1>1, <1>5, <3>2
  <2>3. ASSUME pc'[Launcher] \in {"parse", "check", "configure", "run"}
        PROVE  /\ \A t \in Shells : ran'[t] = {} /\ debugged'[t] = {}
               /\ cleaned' = {} /\ Panes \cap refused' = {}
    <3>1. s # Launcher /\ s \in Panes
      BY <1>1, <1>3, <2>3
    <3>2. pc'[Launcher] = "attached"
      BY <1>1, <1>3, <1>5, <3>1
    <3> QED
      BY <2>3, <3>2
  <2> QED
    BY <1>2, <2>1, <2>2, <2>3 DEF OneLaunch
<1>7. ArgsRead'
  <2>1. ASSUME NEW t \in Shells, pc'[t] # "idle" PROVE HasRead(t)'
    <3>1. HasRead(t) /\ pc'[t] = pc[t] /\ todo'[t] = todo[t] /\ env'[t] = env[t]
      BY <1>1, <2>1 DEF IInv, ArgsRead
    <3>2. pc[t] # "parse" => todo[t] = <<>>
      BY <3>1 DEF HasRead
    <3> QED
      BY <3>1, <3>2, ReadFrame
  <2> QED
    BY <2>1 DEF ArgsRead
<1>8. Refusals'
  <2>1. ASSUME NEW t \in Shells, pc'[t] \in Labels \ {"idle", "parse", "check"}, t \notin refused'
        PROVE  env'[t]["KERNEL"] \in Directories
    BY <1>1, <2>1 DEF IInv, Refusals
  <2>2. ASSUME "user" \in refused'
        PROVE  \A t \in Shells : pc'[t] = "idle" /\ ran'[t] = {} /\ debugged'[t] = {} /\ t \notin cleaned'
    <3>1. s = "user" /\ s = Launcher
      BY <1>3, <2>2 DEF Panes
    <3>2. (\A t \in Shells : ran[t] = {} /\ debugged[t] = {}) /\ cleaned = {}
      BY <3>1 DEF IInv, OneLaunch
    <3>3. \A t \in Shells \ {s} : pc[t] = "idle"
      BY <3>1 DEF IInv, OneLaunch, Shells, Panes
    <3> QED
      BY <1>1, <3>2, <3>3
  <2>3. ASSUME NEW p \in Panes \cap refused' PROVE pc'[p] = "idle" /\ ~Accepts(Given(p))
    <3>1. CASE p = s
      BY <1>1, <3>1
    <3>2. CASE p # s
      BY <1>1, <1>5, <2>3, <3>2 DEF IInv, Refusals
    <3> QED
      BY <3>1, <3>2
  <2>4. ASSUME Panes \cap refused' # {}, {"user", "child"} \cap refused' = {} PROVE Accepts(request)
    <3>1. s \in Panes
      BY <2>4 DEF Shells, Panes
    <3>2. pc[Launcher] = "attached" /\ Launcher \notin refused
      BY <1>3, <2>4, <3>1
    <3> QED
      BY <3>2, LauncherAccepts
  <2>5. \A p \in Panes : Accepts(Given(p))' <=> Accepts(Given(p))
    BY <1>2, <1>5 DEF Accepts
  <2>6. Accepts(request)' <=> Accepts(request)
    BY DEF Accepts
  <2> QED
    BY <2>1, <2>2, <2>3, <2>4, <2>5, <2>6 DEF Refusals
<1>9. Commands'
  <2>1. "left" \in Shells /\ "right" \in Shells
    BY DEF Shells
  <2>2. pc'["left"] \notin {"attached", "debug", "cleanup"} /\ pc'["right"] # "attached"
    BY <1>1, <2>1 DEF IInv, Commands
  <2> QED
    BY <2>2, CommandsFrame
<1> QED
  BY <1>4, <1>6, <1>7, <1>8, <1>9 DEF IInv

\* A run ends line 197 or 239, and the panes are gone.
LEMMA KillStep ==
    ASSUME IInv, NEW s \in Shells, NEW label, pc[s] \in {"attached", "cleanup"},
           \/ label = "idle"
           \/ label = "debug" /\ s \notin Panes /\ pc[s] = "attached",
           KillPanes(s, label),
           cleaned' = cleaned \/ cleaned' = cleaned \cup {s},
           UNCHANGED <<env, todo, mode, request, refused, ran, debugged, launches>>
    PROVE  IInv'
<1>1. /\ pc'[s] = label
      /\ \A t \in Shells \ {s} : pc'[t] = IF t \in Panes THEN "idle" ELSE pc[t]
  BY DEF KillPanes
<1>2. Launcher' = Launcher /\ \A t \in Shells : Given(t)' = Given(t)
  BY DEF Launcher, Given
<1>3. /\ "user" \notin refused /\ Launcher \in {"user", "child"}
      /\ s \notin Panes => s = Launcher
      /\ s \in Panes => pc[Launcher] = "attached"
  BY Who
<1>4. TypeOK'
  <2>1. pc' \in [Shells -> Labels]
    BY DEF IInv, TypeOK, KillPanes, Labels
  <2> QED
    BY <2>1 DEF IInv, TypeOK
<1>5. Launcher \in Shells /\ Launcher \notin Panes /\ Panes \subseteq Shells
  BY <1>3 DEF Shells, Panes
<1>6. \A p \in Panes : pc'[p] = "idle"
  BY <1>1, <1>5
<1>7. OneLaunch'
  <2>1. \A t \in {"user", "child"} \ {Launcher} : pc'[t] = "idle" /\ t \notin refused'
    BY <1>1, <1>3 DEF IInv, OneLaunch, Shells, Panes
  <2>2. pc'[Launcher] \notin {"parse", "check", "configure", "run"}
    <3>1. CASE s = Launcher
      BY <1>1, <3>1
    <3>2. CASE s # Launcher
      BY <1>1, <1>3, <1>5, <3>2
    <3> QED
      BY <3>1, <3>2
  <2> QED
    BY <1>2, <1>6, <2>1, <2>2 DEF OneLaunch
<1>8. \A t \in Shells : pc'[t] # "idle" => pc[t] # "idle"
  BY <1>1
<1>9. ArgsRead'
  <2>1. ASSUME NEW t \in Shells, pc'[t] # "idle" PROVE HasRead(t)'
    <3>1. HasRead(t)
      BY <1>8, <2>1 DEF IInv, ArgsRead
    <3>2. pc[t] # "parse" => todo[t] = <<>>
      BY <3>1 DEF HasRead
    <3>3. pc'[t] # "parse" => todo[t] = <<>>
      BY <1>1, <2>1, <3>2
    <3> QED
      BY <3>1, <3>3, ReadFrame
  <2> QED
    BY <2>1 DEF ArgsRead
<1>10. Refusals'
  <2>1. ASSUME NEW t \in Shells, pc'[t] \in Labels \ {"idle", "parse", "check"}, t \notin refused'
        PROVE  env'[t]["KERNEL"] \in Directories
    BY <1>1, <2>1 DEF IInv, Refusals, Labels
  <2>2. "user" \notin refused'
    BY <1>3
  <2>3. ASSUME NEW p \in Panes \cap refused' PROVE pc'[p] = "idle" /\ ~Accepts(Given(p))
    BY <1>6, <2>3 DEF IInv, Refusals
  <2>4. ASSUME Panes \cap refused' # {}, {"user", "child"} \cap refused' = {} PROVE Accepts(request)
    BY <2>4 DEF IInv, Refusals
  <2>5. \A p \in Panes : Accepts(Given(p))' <=> Accepts(Given(p))
    BY <1>2, <1>5 DEF Accepts
  <2>6. Accepts(request)' <=> Accepts(request)
    BY DEF Accepts
  <2> QED
    BY <2>1, <2>2, <2>3, <2>4, <2>5, <2>6 DEF Refusals
<1>11. Commands'
  BY <1>6, CommandsFrame DEF Panes
<1> QED
  BY <1>4, <1>7, <1>9, <1>10, <1>11 DEF IInv

-----------------------------------------------------------------------------
(***************************************************************************)
(* The invariant, action by action.                                        *)
(***************************************************************************)

\* The values a run starts from are sequences of words.
LEMMA DefaultTypes ==
    /\ Fresh \in [Reset \cup Kept -> Seq(Word)]
    /\ \A e \in [Reset \cup Kept -> Seq(Word)] : Defaults(e) \in [Reset \cup Kept -> Seq(Word)]
    /\ \A e : \A v \in Reset : Defaults(e)[v] = Default(v)
    /\ Default("ROOTFS") = Empty /\ Default("QEMU_DIR") = Empty
<1>1. ASSUME NEW v PROVE Default(v) \in Seq(Word)
  <2>1. \A text \in {"initrd_aarch64.cpio.gz", "host-share", "gdb", DefaultTerminal} :
          <<Plain(text)>> \in Seq(Word)
    <3>1. ASSUME NEW text \in {"initrd_aarch64.cpio.gz", "host-share", "gdb", DefaultTerminal}
          PROVE  <<Plain(text)>> \in Seq(Word)
      <4>1. text \in Texts
        BY StartKernelAssumption
      <4>2. Plain(text) \in Word
        BY <4>1 DEF Plain, Word
      <4> QED
        BY <4>2
    <3> QED
      BY <3>1
  <2>2. Empty \in Seq(Word)
    BY DEF Empty
  <2>3. \/ Default(v) = Empty
        \/ \E text \in {"initrd_aarch64.cpio.gz", "host-share", "gdb", DefaultTerminal} :
             Default(v) = <<Plain(text)>>
    BY DEF Default
  <2> QED
    BY <2>1, <2>2, <2>3
<1>2. Fresh \in [Reset \cup Kept -> Seq(Word)]
  BY DEF Fresh, Empty
<1>3. \A e \in [Reset \cup Kept -> Seq(Word)] : Defaults(e) \in [Reset \cup Kept -> Seq(Word)]
  BY <1>1 DEF Defaults
<1>4. \A e : \A v \in Reset : Defaults(e)[v] = Default(v)
  BY DEF Defaults
<1>5. Default("ROOTFS") = Empty /\ Default("QEMU_DIR") = Empty
  BY DEF Default
<1> QED
  BY <1>2, <1>3, <1>4, <1>5

\* A run that begins has read nothing.
LEMMA BeginsUnread ==
    ASSUME NEW t \in Shells, NEW e, Given(t)' \in Seq(Argument), todo'[t] = Given(t)',
           pc'[t] = "parse", env'[t] = Defaults(e), t \in Panes => e = Fresh
    PROVE  HasRead(t)'
<1> DEFINE args == Given(t)'
<1>1. Len(args) \in Nat /\ Len(args) - Len(todo'[t]) = 0
  BY LenProperties
<1>2. \A v : ValueAfter(args, 0, v) = Default(v)
  BY ValueStep
<1>3. \A v \in Reset : env'[t][v] = ValueAfter(args, 0, v)
  BY <1>2, DefaultTypes
<1>4. ValueAfter(args, 0, "ROOTFS") = Empty /\ ValueAfter(args, 0, "QEMU_DIR") = Empty
  BY <1>2, DefaultTypes
<1>6. t \in Panes => env'[t]["ROOTFS"] = Empty
  BY DEF Defaults, Fresh, Reset, Kept
<1>5. \A i \in 1..Len(todo'[t]) : todo'[t][i] = args[0 + i]
  BY <1>1
<1> QED
  BY <1>1, <1>3, <1>4, <1>5, <1>6 DEF HasRead

\* Initially no run has begun.
LEMMA InitIInv == Init => IInv
<1> SUFFICES ASSUME Init PROVE IInv
  OBVIOUS
<1>1. TypeOK
  <2>1. env \in [Shells -> [Reset \cup Kept -> Seq(Word)]]
    BY DefaultTypes DEF Init
  <2>2. todo \in [Shells -> Seq(Argument)] /\ request \in Seq(TypedArgument)
    BY DEF Init
  <2>3. launches \in 0..MaxLaunches
    <3>1. MaxLaunches \in Nat
      BY StartKernelAssumption
    <3> QED
      BY <3>1 DEF Init
  <2>4. pc \in [Shells -> Labels] /\ DOMAIN ran = Shells /\ DOMAIN debugged = Shells
    BY DEF Init, Labels
  <2> QED
    BY <2>1, <2>2, <2>3, <2>4 DEF Init, TypeOK
<1>2. \A s \in Shells : pc[s] = "idle" /\ ran[s] = {} /\ debugged[s] = {}
  BY DEF Init
<1>3. refused = {} /\ cleaned = {} /\ Launcher \in Shells /\ Panes \subseteq Shells
      /\ {"user", "child"} \subseteq Shells
  BY DEF Init, Launcher, Shells, Panes
<1>4. OneLaunch
  BY <1>2, <1>3 DEF OneLaunch
<1>5. ArgsRead
  BY <1>2 DEF ArgsRead
<1>6. Refusals
  BY <1>2, <1>3 DEF Refusals
<1>7. Commands
  BY <1>2 DEF Commands, Shells
<1> QED
  BY <1>1, <1>4, <1>5, <1>6, <1>7 DEF IInv

\* A launch begins.
LEMMA InvokeIInv ==
    ASSUME IInv, NEW args \in Requests, NEW m \in Modes, Invoke(args, m)
    PROVE  IInv'
<1> DEFINE s == IF m = "sourced" THEN "user" ELSE "child"
<1>1. s \in Shells /\ s \notin Panes /\ Launcher' = s /\ m \in {"sourced", "executed"}
  BY StartKernelAssumption DEF Invoke, Launcher, Shells, Panes
<1>2. args \in Seq(TypedArgument) /\ args \in Seq(Argument) /\ request' = args
  BY StartKernelAssumption, TypedSeq DEF Invoke
<1>3. /\ pc'[s] = "parse" /\ \A t \in Shells \ {s} : pc'[t] = "idle"
      /\ pc' \in [Shells -> Labels]
  BY <1>1 DEF Invoke, GoTo, IInv, TypeOK, Labels
<1>4. /\ todo' \in [Shells -> Seq(Argument)] /\ todo'[s] = args
  BY <1>1, <1>2 DEF Invoke, IInv, TypeOK
<1>5. \E e \in [Reset \cup Kept -> Seq(Word)] :
        env' = [env EXCEPT ![s] = Defaults(e)]
  <2>1. env[s] \in [Reset \cup Kept -> Seq(Word)]
    BY <1>1 DEF IInv, TypeOK
  <2>2. CASE s = "user"
    BY <2>1, <2>2 DEF Invoke
  <2>3. CASE s # "user"
    BY <2>3, DefaultTypes DEF Invoke
  <2> QED
    BY <2>2, <2>3
<1>6. PICK e \in [Reset \cup Kept -> Seq(Word)] : env' = [env EXCEPT ![s] = Defaults(e)]
  BY <1>5
<1>7. env' \in [Shells -> [Reset \cup Kept -> Seq(Word)]] /\ env'[s] = Defaults(e)
  <2>1. Defaults(e) \in [Reset \cup Kept -> Seq(Word)]
    BY DefaultTypes
  <2> QED
    BY <1>1, <1>6, <2>1 DEF IInv, TypeOK
<1>8. /\ refused' = {} /\ cleaned' = {} /\ mode' = m
      /\ ran' = [t \in Shells |-> {}] /\ debugged' = [t \in Shells |-> {}]
      /\ launches' \in 0..MaxLaunches
  <2>1. MaxLaunches \in Nat /\ launches \in 0..MaxLaunches
    BY StartKernelAssumption DEF IInv, TypeOK
  <2>2. launches < MaxLaunches /\ launches' = launches + 1
    BY DEF Invoke
  <2>3. launches' \in 0..MaxLaunches
    BY <2>1, <2>2
  <2> QED
    BY <2>3 DEF Invoke
<1> HIDE DEF s
<1>9. TypeOK'
  BY <1>1, <1>2, <1>3, <1>4, <1>7, <1>8 DEF TypeOK
<1>10. OneLaunch'
  <2>1. \A t \in {"user", "child"} \ {s} : t \in Shells
    BY DEF Shells
  <2> QED
    BY <1>1, <1>3, <1>8, <2>1 DEF OneLaunch, Panes, Shells
<1>11. ArgsRead'
  <2>1. Given(s)' = args
    BY <1>1, <1>2 DEF Given
  <2>2. HasRead(s)'
    BY <1>1, <1>2, <1>3, <1>4, <1>7, <2>1, BeginsUnread
  <2> QED
    BY <1>3, <2>2 DEF ArgsRead
<1>12. Refusals'
  <2>1. \A t \in Shells : pc'[t] \in {"idle", "parse"}
    BY <1>3
  <2> QED
    BY <1>8, <2>1 DEF Refusals
<1>13. Commands'
  <2>1. pc'["left"] = "idle" /\ pc'["right"] = "idle"
    BY <1>1, <1>3 DEF Shells, Panes
  <2>2. \A t \in Shells : ran'[t] = {} /\ debugged'[t] = {}
    BY <1>8
  <2> QED
    BY <2>1, <2>2 DEF Commands, Shells
<1> QED
  BY <1>9, <1>10, <1>11, <1>12, <1>13 DEF IInv

\* The argument that the loop comes to next, and what it leaves to read.
LEMMA NextArg ==
    ASSUME IInv, NEW s \in Shells, pc[s] = "parse", todo[s] # <<>>
    PROVE  LET args == Given(s)
               n == Len(args) - Len(todo[s])
               rest == Tail(todo[s])
           IN  /\ n \in Nat /\ n + 1 \in DOMAIN args
               /\ Head(todo[s]) = args[n + 1] /\ Head(todo[s]) \in Argument
               /\ rest \in Seq(Argument) /\ Len(args) - Len(rest) = n + 1
               /\ \A i \in 1..Len(rest) : rest[i] = args[n + 1 + i]
<1> DEFINE args == Given(s)
           left == todo[s]
           rest == Tail(left)
           n == Len(args) - Len(left)
<1>1. left \in Seq(Argument) /\ left # <<>>
  BY DEF IInv, TypeOK
<1>2. args \in Seq(Argument) /\ Len(args) \in Nat /\ DOMAIN args = 1..Len(args)
  BY GivenSeq, LenProperties DEF IInv
<1>3. n \in Nat /\ \A i \in 1..Len(left) : left[i] = args[n + i]
  <2>1. HasRead(s)
    BY DEF IInv, ArgsRead
  <2> QED
    BY <2>1 DEF HasRead
<1> HIDE DEF args, left
<1>4. Len(left) \in Nat \ {0} /\ Head(left) = left[1] /\ Head(left) \in Argument
  BY <1>1, EmptySeq, HeadTailProperties
<1>5. rest \in Seq(Argument) /\ Len(rest) = Len(left) - 1 /\ \A i \in 1..Len(rest) : rest[i] = left[i + 1]
  BY <1>1, HeadTailProperties
<1> HIDE DEF rest
<1>6. n + 1 \in 1..Len(args) /\ Len(args) - Len(rest) = n + 1
  BY <1>2, <1>3, <1>4, <1>5
<1>7. Head(left) = args[n + 1]
  BY <1>3, <1>4
<1>8. ASSUME NEW i \in 1..Len(rest) PROVE rest[i] = args[n + 1 + i]
  <2>1. i + 1 \in 1..Len(left) /\ n + (i + 1) = n + 1 + i
    BY <1>3, <1>4, <1>5
  <2>2. left[i + 1] = args[n + (i + 1)]
    BY <1>3, <2>1
  <2> QED
    BY <1>5, <2>1, <2>2
<1> QED
  BY <1>2, <1>3, <1>4, <1>5, <1>6, <1>7, <1>8 DEF args, left, rest

\* The loop takes up an option.
LEMMA ParseArgIInv == ASSUME IInv, NEW s \in Shells, ParseArg(s) PROVE IInv'
<1> DEFINE args == Given(s)
           n == Len(args) - Len(todo[s])
           a == Head(todo[s])
           rest == Tail(todo[s])
<1>1. pc[s] = "parse" /\ todo[s] # <<>> /\ a.opt # "bad"
  BY DEF ParseArg
<1>2. /\ n \in Nat /\ n + 1 \in DOMAIN args /\ a = args[n + 1] /\ a \in Argument
      /\ rest \in Seq(Argument) /\ Len(args) - Len(rest) = n + 1
      /\ \A i \in 1..Len(rest) : rest[i] = args[n + 1 + i]
  BY <1>1, NextArg
<1>3. a.opt \in Reset \cup Kept /\ a.val \in Seq(Word)
  BY <1>1, <1>2 DEF Argument, Option
<1>4. /\ todo' = [todo EXCEPT ![s] = rest]
      /\ env' = [env EXCEPT ![s] = [env[s] EXCEPT ![a.opt] = a.val]]
      /\ UNCHANGED <<pc, mode, request, refused, ran, debugged, cleaned, launches>>
  BY DEF ParseArg
<1>5. Given(s)' = args
  BY <1>4 DEF Given
<1>6. /\ \A v \in Reset : env[s][v] = ValueAfter(args, n, v)
      /\ \A v \in {"ROOTFS", "QEMU_DIR"} : ValueAfter(args, n, v) # Empty => env[s][v] = ValueAfter(args, n, v)
      /\ s \in Panes => env[s]["ROOTFS"] = ValueAfter(args, n, "ROOTFS")
      /\ s \notin refused => \A i \in 1..n : args[i].opt # "bad"
  <2>1. HasRead(s)
    BY <1>1 DEF IInv, ArgsRead
  <2> QED
    BY <2>1, Zenon DEF HasRead
<1> HIDE DEF args, n, a, rest
<1>7. /\ env' \in [Shells -> [Reset \cup Kept -> Seq(Word)]]
      /\ todo' \in [Shells -> Seq(Argument)]
      /\ \A t \in Shells \ {s} : env'[t] = env[t] /\ todo'[t] = todo[t]
      /\ todo'[s] = rest
      /\ \A v \in Reset \cup Kept : env'[s][v] = IF v = a.opt THEN a.val ELSE env[s][v]
  BY <1>2, <1>3, <1>4 DEF IInv, TypeOK
<1>8. \A v : ValueAfter(args, n + 1, v) = IF a.opt = v THEN a.val ELSE ValueAfter(args, n, v)
  BY <1>2, ValueStep
<1>9. HasRead(s)'
  <2>1. \A v \in Reset : env'[s][v] = ValueAfter(args, n + 1, v)
    BY <1>6, <1>7, <1>8
  <2>2. /\ \A v \in {"ROOTFS", "QEMU_DIR"} :
             ValueAfter(args, n + 1, v) # Empty => env'[s][v] = ValueAfter(args, n + 1, v)
        /\ s \in Panes => env'[s]["ROOTFS"] = ValueAfter(args, n + 1, "ROOTFS")
    BY <1>6, <1>7, <1>8 DEF Kept
  <2>3. s \notin refused => \A i \in 1..(n + 1) : args[i].opt # "bad"
    <3>1. \A i \in 1..(n + 1) : i \in 1..n \/ i = n + 1
      BY <1>2
    <3>2. args[n + 1].opt # "bad"
      BY <1>1, <1>2
    <3> QED
      BY <1>6, <3>1, <3>2
  <2>4. n + 1 \in Nat /\ pc'[s] = "parse"
    BY <1>1, <1>2, <1>4
  <2>5. Given(s)' = args /\ todo'[s] = rest /\ refused' = refused
    BY <1>4, <1>5, <1>7
  <2>6. Len(args) - Len(rest) = n + 1 /\ \A i \in 1..Len(rest) : rest[i] = args[n + 1 + i]
    BY <1>2
  <2> QED
    BY <2>1, <2>2, <2>3, <2>4, <2>5, <2>6 DEF HasRead
<1>10. Commands'
  BY <1>4, CommandsFrame DEF IInv, Commands
<1>11. pc' = [pc EXCEPT ![s] = "parse"] /\ "parse" \in Labels \ {"idle", "attached"}
  BY <1>1, <1>4 DEF IInv, TypeOK, Labels
<1>12. DOMAIN ran' = Shells /\ DOMAIN debugged' = Shells
  BY <1>4 DEF IInv, TypeOK
<1> QED
  BY <1>1, <1>4, <1>7, <1>9, <1>10, <1>11, <1>12, LocalStep

\* The loop meets an argument that no pattern matches.
LEMMA BadArgIInv == ASSUME IInv, NEW s \in Shells, BadArg(s) PROVE IInv'
<1> DEFINE args == Given(s)
           n == Len(args) - Len(todo[s])
           a == Head(todo[s])
           rest == Tail(todo[s])
<1>1. pc[s] = "parse" /\ todo[s] # <<>> /\ a.opt = "bad"
  BY DEF BadArg
<1>2. /\ n \in Nat /\ n + 1 \in DOMAIN args /\ a = args[n + 1]
      /\ rest \in Seq(Argument) /\ Len(args) - Len(rest) = n + 1
      /\ \A i \in 1..Len(rest) : rest[i] = args[n + 1 + i]
  BY <1>1, NextArg
<1>3. /\ todo' = [todo EXCEPT ![s] = rest]
      /\ pc' = [pc EXCEPT ![s] = IF s = "child" THEN "parse" ELSE "idle"]
      /\ refused' = refused \cup {s}
      /\ UNCHANGED <<env, mode, request, ran, debugged, cleaned, launches>>
  BY DEF BadArg, GoTo, Return
<1>4. Given(s)' = args
  BY <1>3 DEF Given
<1>5. /\ \A v \in Reset : env[s][v] = ValueAfter(args, n, v)
      /\ \A v \in {"ROOTFS", "QEMU_DIR"} : ValueAfter(args, n, v) # Empty => env[s][v] = ValueAfter(args, n, v)
      /\ s \in Panes => env[s]["ROOTFS"] = ValueAfter(args, n, "ROOTFS")
  <2>1. HasRead(s)
    BY <1>1 DEF IInv, ArgsRead
  <2> QED
    BY <2>1, Zenon DEF HasRead
<1>6. ~Accepts(args)
  BY <1>1, <1>2 DEF Accepts
<1>7. args = Given(s)
  OBVIOUS
<1> HIDE DEF args, n, a, rest
<1>8. /\ todo' \in [Shells -> Seq(Argument)] /\ todo'[s] = rest
      /\ \A t \in Shells \ {s} : todo'[t] = todo[t]
  BY <1>2, <1>3 DEF IInv, TypeOK
<1>9. CASE s # "child"
  <2>1. pc' = [pc EXCEPT ![s] = "idle"]
    BY <1>3, <1>9
  <2> QED
    BY <1>1, <1>3, <1>6, <1>7, <1>8, <1>9, <2>1, QuitStep
<1>10. CASE s = "child"
  <2>1. pc' = [pc EXCEPT ![s] = "parse"] /\ "parse" \in Labels \ {"idle", "attached"} /\ pc'[s] = "parse"
    BY <1>3, <1>10 DEF IInv, TypeOK, Labels
  <2>2. HasRead(s)'
    <3>1. \A v \in Reset \cup {"ROOTFS", "QEMU_DIR"} : ValueAfter(args, n + 1, v) = ValueAfter(args, n, v)
      <4>1. \A v \in Reset \cup {"ROOTFS", "QEMU_DIR"} : v # "bad"
        BY DEF Reset
      <4>2. \A v : ValueAfter(args, n + 1, v) = IF a.opt = v THEN a.val ELSE ValueAfter(args, n, v)
        BY <1>2, ValueStep
      <4> QED
        BY <1>1, <4>1, <4>2
    <3>2. n + 1 \in Nat /\ s \in refused' /\ env' = env
      BY <1>2, <1>3
    <3> QED
      BY <1>2, <1>4, <1>5, <1>8, <2>1, <3>1, <3>2 DEF HasRead
  <2>3. pc'["left"] = pc["left"] /\ pc'["right"] = pc["right"]
    BY <1>3, <1>10 DEF IInv, TypeOK, Shells
  <2>4. Commands'
    BY <1>3, <2>3, CommandsFrame DEF IInv, Commands
  <2>5. /\ DOMAIN ran' = Shells /\ DOMAIN debugged' = Shells
        /\ env' \in [Shells -> [Reset \cup Kept -> Seq(Word)]]
    BY <1>3 DEF IInv, TypeOK
  <2> QED
    BY <1>1, <1>3, <1>8, <1>10, <2>1, <2>2, <2>4, <2>5, LocalStep
<1> QED
  BY <1>9, <1>10

\* A run that goes on to another line past its loop, with nothing of its own changed but
\* the directory of QEMU.
LEMMA GoOn ==
    ASSUME IInv, NEW s \in Shells, NEW label \in {"check", "configure", "run", "debug"},
           pc[s] \notin {"idle", "attached"}, todo[s] = <<>>,
           GoTo(s, label),
           env' \in [Shells -> [Reset \cup Kept -> Seq(Word)]],
           \A t \in Shells \ {s} : env'[t] = env[t],
           \A v \in (Reset \cup Kept) \ {"QEMU_DIR"} : env'[s][v] = env[s][v],
           env'[s]["QEMU_DIR"] = env[s]["QEMU_DIR"] \/ env[s]["QEMU_DIR"] = Empty,
           refused' = refused \/ (s = "child" /\ refused' = refused \cup {s}),
           UNCHANGED <<todo, mode, request, ran, debugged, cleaned, launches>>,
           label = "debug" => s # "left",
           label # "check" /\ s \notin refused' => env[s]["KERNEL"] \in Directories,
           label \in {"check", "configure", "run"} => pc[s] \in {"parse", "check", "configure", "run"}
    PROVE  IInv'
<1>1. pc' = [pc EXCEPT ![s] = label] /\ pc'[s] = label /\ \A t \in Shells \ {s} : pc'[t] = pc[t]
  BY DEF GoTo, IInv, TypeOK
<1>2. HasRead(s)'
  <2>1. HasRead(s)
    BY DEF IInv, ArgsRead
  <2>2. \A v \in Reset \cup {"ROOTFS"} : env'[s][v] = env[s][v]
    BY DEF Reset, Kept
  <2> QED
    BY <2>1, <2>2, ReadFrame
<1>3. Commands'
  <2>1. pc'["left"] \notin {"attached", "debug", "cleanup"} /\ pc'["right"] # "attached"
    BY <1>1 DEF IInv, Commands, Shells
  <2> QED
    BY <2>1, CommandsFrame
<1>4. label \in Labels \ {"idle", "attached"}
  BY DEF Labels
<1>5. todo' \in [Shells -> Seq(Argument)] /\ DOMAIN ran' = Shells /\ DOMAIN debugged' = Shells
  BY DEF IInv, TypeOK
<1>6. env'[s]["KERNEL"] = env[s]["KERNEL"]
  BY DEF Reset
<1> QED
  BY <1>1, <1>2, <1>3, <1>4, <1>5, <1>6, LocalStep

\* Nothing is left to read.
LEMMA EndOfArgsIInv == ASSUME IInv, NEW s \in Shells, EndOfArgs(s) PROVE IInv'
<1>1. env' = env /\ env \in [Shells -> [Reset \cup Kept -> Seq(Word)]]
  BY DEF EndOfArgs, IInv, TypeOK
<1> QED
  BY <1>1, GoOn DEF EndOfArgs

\* Past its loop a run has nothing left to read.
LEMMA NothingLeft ==
    ASSUME IInv, NEW s \in Shells, pc[s] \notin {"idle", "parse"}
    PROVE  todo[s] = <<>>
BY DEF IInv, ArgsRead, HasRead

\* The kernel is a directory, or the run is over, or it is executed and goes on.
LEMMA CheckKernelIInv == ASSUME IInv, NEW s \in Shells, CheckKernel(s) PROVE IInv'
<1>1. /\ pc[s] = "check"
      /\ UNCHANGED <<env, todo, mode, request, ran, debugged, cleaned, launches>>
      /\ env' \in [Shells -> [Reset \cup Kept -> Seq(Word)]]
      /\ todo' \in [Shells -> Seq(Argument)]
  BY DEF CheckKernel, IInv, TypeOK
<1>2. todo[s] = <<>>
  BY <1>1, NothingLeft
<1>3. CASE env[s]["KERNEL"] \in Directories
  <2>1. GoTo(s, "configure") /\ refused' = refused
    BY <1>3 DEF CheckKernel
  <2> QED
    BY <1>1, <1>2, <1>3, <2>1, GoOn
<1>4. CASE env[s]["KERNEL"] \notin Directories /\ s = "child"
  <2>1. GoTo(s, "configure") /\ refused' = refused \cup {s} /\ s \in refused'
    BY <1>4 DEF CheckKernel, Return
  <2> QED
    BY <1>1, <1>2, <1>4, <2>1, GoOn
<1>5. CASE env[s]["KERNEL"] \notin Directories /\ s # "child"
  <2>1. pc' = [pc EXCEPT ![s] = "idle"] /\ refused' = refused \cup {s}
    BY <1>5 DEF CheckKernel, Return, GoTo
  <2>2. ~Accepts(Given(s))
    <3>1. Agrees(env[s], Given(s))
      BY <1>1, Finished
    <3> QED
      BY <1>5, <3>1 DEF Agrees, Accepts, Reset
  <2> QED
    BY <1>1, <1>5, <2>1, <2>2, QuitStep
<1> QED
  BY <1>3, <1>4, <1>5

\* The directory of QEMU gets its value.
LEMMA ConfigureIInv == ASSUME IInv, NEW s \in Shells, Configure(s) PROVE IInv'
<1>1. pc[s] = "configure" /\ GoTo(s, "run")
      /\ UNCHANGED <<todo, mode, request, refused, ran, debugged, cleaned, launches>>
  BY DEF Configure
<1>2. todo[s] = <<>>
  BY <1>1, NothingLeft
<1>3. \E q \in Seq(Word) : /\ env' = [env EXCEPT ![s]["QEMU_DIR"] = q]
                           /\ (q = env[s]["QEMU_DIR"] \/ env[s]["QEMU_DIR"] = Empty)
  <2>1. <<Plain("qemu/bin")>> \in Seq(Word)
    <3>1. "qemu/bin" \in Texts
      BY StartKernelAssumption
    <3>2. Plain("qemu/bin") \in Word
      BY <3>1 DEF Plain, Word
    <3> QED
      BY <3>2
  <2>2. env[s]["QEMU_DIR"] \in Seq(Word)
    BY DEF IInv, TypeOK, Kept
  <2> QED
    BY <2>1, <2>2 DEF Configure
<1>4. PICK q \in Seq(Word) : /\ env' = [env EXCEPT ![s]["QEMU_DIR"] = q]
                            /\ (q = env[s]["QEMU_DIR"] \/ env[s]["QEMU_DIR"] = Empty)
  BY <1>3
<1>5. /\ env' \in [Shells -> [Reset \cup Kept -> Seq(Word)]]
      /\ \A t \in Shells \ {s} : env'[t] = env[t]
      /\ \A v \in (Reset \cup Kept) \ {"QEMU_DIR"} : env'[s][v] = env[s][v]
      /\ env'[s]["QEMU_DIR"] = env[s]["QEMU_DIR"] \/ env[s]["QEMU_DIR"] = Empty
  BY <1>4 DEF IInv, TypeOK, Kept
<1>6. s \notin refused' => env[s]["KERNEL"] \in Directories
  BY <1>1 DEF IInv, Refusals, Labels
<1> QED
  BY <1>1, <1>2, <1>5, <1>6, GoOn

\* A copy in a pane that is past line 73 accepts its arguments.
LEMMA PaneAccepts ==
    ASSUME IInv, NEW p \in Panes, pc[p] \notin {"idle", "parse", "check"}
    PROVE  Accepts(Given(p)) /\ DebugPort(env[p]) = "12880" /\ Terminal(env[p]) = CliTerminal(p)
<1>1. p \in Shells
  BY DEF Panes, Shells
<1>2. /\ Agrees(env[p], Given(p)) /\ p \notin refused /\ DebugPort(env[p]) = "12880"
      /\ Terminal(env[p]) = CliTerminal(p)
      /\ \A i \in DOMAIN Given(p) : Given(p)[i].opt # "bad"
  BY <1>1, Finished
<1>3. env[p]["KERNEL"] \in Directories
  BY <1>1, <1>2 DEF IInv, TypeOK, Refusals
<1> QED
  BY <1>2, <1>3 DEF Agrees, Accepts, Reset

\* A shell that runs QEMU does so with the command of its arguments.
LEMMA QemuFits ==
    ASSUME IInv, NEW s \in Shells \ {"right"}, pc[s] = "run", RunQemu(s),
           UNCHANGED <<request, debugged>>,
           pc'["left"] \notin {"attached", "debug", "cleanup"}, pc'["right"] # "attached"
    PROVE  Commands' /\ DOMAIN ran' = Shells
<1>1. ran'[s] \subseteq {QemuCmd(env[s])} /\ DOMAIN ran' = Shells /\ \A t \in Shells \ {s} : ran'[t] = ran[t]
  BY DEF RunQemu, IInv, TypeOK
<1>2. \A t \in Shells : Given(t)' = Given(t)
  BY DEF Given
<1>3. MadeFrom(QemuCmd(env[s]), Given(s))
  <2>1. Agrees(env[s], Given(s)) /\ env[s] \in [Reset \cup Kept -> Seq(Word)]
    BY Finished DEF IInv, TypeOK
  <2> QED
    BY <2>1, CommandsFit
<1>4. "left" \in Shells /\ "right" \in Shells /\ "left" \in Panes
  BY DEF Shells, Panes
<1>5. ASSUME NEW t \in Shells, NEW c \in ran'[t] PROVE MadeFrom(c, Given(t))
  <2>1. CASE t = s
    BY <1>1, <1>3, <1>5, <2>1
  <2>2. CASE t # s
    BY <1>1, <1>5, <2>2 DEF IInv, Commands
  <2> QED
    BY <2>1, <2>2
<1>6. ASSUME NEW c \in ran'["left"] PROVE c.port = "12880" /\ Accepts(Given("left"))
  <2>1. CASE s = "left"
    <3>1. c = QemuCmd(env["left"])
      BY <1>1, <1>6, <2>1
    <3>2. Accepts(Given("left")) /\ DebugPort(env["left"]) = "12880"
      BY <1>4, <2>1, PaneAccepts
    <3>3. Cut(env["left"]) = "none"
      <4> DEFINE e == env["left"]
                 f == FinalEnv(Given("left"))
      <4>1. Agrees(e, Given("left")) /\ e["ROOTFS"] = f["ROOTFS"]
        BY <1>4, <2>1, Finished
      <4>2. e["INITRD"] = f["INITRD"] /\ e["SHARE_FOLDER"] = f["SHARE_FOLDER"]
        BY <4>1 DEF Agrees, Reset
      <4>3. request \in Seq(Argument) /\ Given("left") = PaneArgs(request, "left")
        BY <1>4, GivenSeq DEF IInv, Given
      <4>4. \A v \in {"ROOTFS", "INITRD", "SHARE_FOLDER"} : v \in (Reset \cup Kept) \ {"TERMINAL"}
        BY DEF Reset, Kept
      <4>5. \A v \in {"ROOTFS", "INITRD", "SHARE_FOLDER"} : Len(f[v]) <= 1
        BY <1>4, <3>2, <4>3, <4>4, PaneWords
      <4>6. e \in [Reset \cup Kept -> Seq(Word)]
        BY <1>4 DEF IInv, TypeOK
      <4> HIDE DEF e, f
      <4>7. Len(ImagePath(e)) <= 1 /\ Len(e["SHARE_FOLDER"]) <= 1
        BY <4>1, <4>2, <4>5 DEF ImagePath
      <4> QED
        BY <4>6, <4>7, LineOf DEF e
    <3> QED
      BY <3>1, <3>2, <3>3 DEF QemuCmd
  <2>2. CASE s # "left"
    BY <1>1, <1>4, <1>6, <2>2 DEF IInv, Commands
  <2> QED
    BY <2>1, <2>2
<1>7. ran'["right"] = {}
  BY <1>1, <1>4 DEF IInv, Commands
<1>8. /\ \A t \in Shells : \A c \in ran'[t] : MadeFrom(c, Given(t))'
      /\ \A c \in ran'["left"] : c.port = "12880" /\ Accepts(Given("left"))'
  BY <1>2, <1>4, <1>5, <1>6 DEF MadeFrom, WordPaths, Fits, Accepts
<1>9. \A d \in debugged'["right"] :
         /\ d.kernel = KernelDir(FinalEnv(Given("right")))'
         /\ d.type = KernelType(FinalEnv(Given("right")))'
         /\ d.port = "12880" /\ Accepts(Given("right"))'
  BY <1>2, <1>4 DEF IInv, Commands, Accepts
<1>10. debugged'["left"] = {}
  BY DEF IInv, Commands
<1> QED
  BY <1>1, <1>7, <1>8, <1>9, <1>10 DEF Commands

\* A run that is past line 73 without an error message has its kernel.
LEMMA HasKernel ==
    ASSUME IInv, NEW s \in Shells, pc[s] \in {"configure", "run", "debug", "cleanup"}
    PROVE  s \notin refused => env[s]["KERNEL"] \in Directories
BY DEF IInv, Refusals, Labels

\* In a window of its own, QEMU is run by the launch itself: the panes have cli-*.
LEMMA RunWindowIInv == ASSUME IInv, NEW s \in Shells, RunWindow(s) PROVE IInv'
<1>1. /\ pc[s] = "run" /\ Terminal(env[s]) \in {"gnome", "xfce4"} /\ RunQemu(s)
      /\ pc' = [pc EXCEPT ![s] = "debug"]
      /\ UNCHANGED <<env, todo, mode, request, refused, debugged, cleaned, launches>>
  BY DEF RunWindow, GoTo
<1>2. s \notin Panes
  BY <1>1, Finished DEF CliTerminal
<1>3. pc'[s] = "debug" /\ \A t \in Shells \ {s} : pc'[t] = pc[t]
  BY <1>1 DEF IInv, TypeOK
<1>4. pc'["left"] \notin {"attached", "debug", "cleanup"} /\ pc'["right"] # "attached"
  BY <1>2, <1>3 DEF IInv, Commands, Shells, Panes
<1>5. Commands' /\ DOMAIN ran' = Shells
  BY <1>1, <1>2, <1>4, QemuFits DEF Panes
<1>6. HasRead(s)'
  <2>1. HasRead(s) /\ todo[s] = <<>>
    BY <1>1, NothingLeft DEF IInv, ArgsRead
  <2> QED
    BY <1>1, <2>1, ReadFrame
<1>7. /\ env' \in [Shells -> [Reset \cup Kept -> Seq(Word)]] /\ todo' \in [Shells -> Seq(Argument)]
      /\ DOMAIN debugged' = Shells /\ "debug" \in Labels \ {"idle", "attached"}
  BY <1>1 DEF IInv, TypeOK, Labels
<1>8. s \notin refused => env[s]["KERNEL"] \in Directories
  BY <1>1, HasKernel
<1> QED
  BY <1>1, <1>5, <1>6, <1>7, <1>8, LocalStep

\* The debugger's side goes straight on.
LEMMA RunCliGdbIInv == ASSUME IInv, NEW s \in Shells, RunCliGdb(s) PROVE IInv'
<1>1. /\ pc[s] = "run" /\ Terminal(env[s]) = "cli-gdb" /\ GoTo(s, "debug")
      /\ UNCHANGED <<env, todo, mode, request, refused, ran, debugged, cleaned, launches>>
  BY DEF RunCliGdb
<1>2. s # "left"
  BY <1>1, Finished DEF CliTerminal, Panes
<1>3. todo[s] = <<>> /\ (s \notin refused => env[s]["KERNEL"] \in Directories)
  BY <1>1, NothingLeft, HasKernel
<1>4. env' \in [Shells -> [Reset \cup Kept -> Seq(Word)]]
  BY <1>1 DEF IInv, TypeOK
<1> QED
  BY <1>1, <1>2, <1>3, <1>4, GoOn

\* A terminal of another name ends a sourced launch; the panes never meet it.
LEMMA RunBadTerminalIInv == ASSUME IInv, NEW s \in Shells, RunBadTerminal(s) PROVE IInv'
<1>1. /\ pc[s] = "run" /\ Terminal(env[s]) \notin {"cli-qemu", "cli-gdb"}
      /\ GoTo(s, Return(s, "debug")) /\ refused' = refused \cup {s}
      /\ UNCHANGED <<env, todo, mode, request, ran, debugged, cleaned, launches>>
  BY DEF RunBadTerminal
<1>2. s \notin Panes
  BY <1>1, Finished DEF CliTerminal
<1>3. todo[s] = <<>>
  BY <1>1, NothingLeft
<1>4. env' \in [Shells -> [Reset \cup Kept -> Seq(Word)]] /\ todo' \in [Shells -> Seq(Argument)]
  BY <1>1 DEF IInv, TypeOK
<1>5. CASE s = "child"
  <2>1. GoTo(s, "debug") /\ s \in refused' /\ s # "left"
    BY <1>1, <1>5 DEF Return
  <2> QED
    BY <1>1, <1>3, <1>4, <1>5, <2>1, GoOn
<1>6. CASE s # "child"
  <2>1. pc' = [pc EXCEPT ![s] = "idle"]
    BY <1>1, <1>6 DEF Return, GoTo
  <2> QED
    BY <1>1, <1>2, <1>4, <1>6, <2>1, QuitStep
<1> QED
  BY <1>5, <1>6

\* The launch leaves line 196, and the panes are gone.
LEMMA TmuxEndsIInv == ASSUME IInv, NEW s \in Shells, TmuxEnds(s) PROVE IInv'
<1>1. /\ pc[s] = "attached" /\ KillPanes(s, Return(s, "debug"))
      /\ UNCHANGED <<env, todo, mode, request, refused, ran, debugged, cleaned, launches>>
  BY DEF TmuxEnds
<1>2. Return(s, "debug") = "idle" \/ (Return(s, "debug") = "debug" /\ s \notin Panes)
  BY DEF Return, Panes
<1> QED
  BY <1>1, <1>2, KillStep

\* Lines 238-239 end the panes too.
LEMMA CleanupIInv == ASSUME IInv, NEW s \in Shells, Cleanup(s) PROVE IInv'
BY KillStep DEF Cleanup

\* QEMU in the shell of the run, which then ends.
LEMMA RunCliQemuIInv == ASSUME IInv, NEW s \in Shells, RunCliQemu(s) PROVE IInv'
<1>1. /\ pc[s] = "run" /\ Terminal(env[s]) = "cli-qemu" /\ RunQemu(s)
      /\ env' = [env EXCEPT ![s] = Fresh] /\ pc' = [pc EXCEPT ![s] = "idle"]
      /\ UNCHANGED <<todo, mode, request, refused, debugged, cleaned, launches>>
  BY DEF RunCliQemu, GoTo
<1>2. s # "right"
  BY <1>1, Finished DEF CliTerminal, Panes
<1>3. pc'[s] = "idle" /\ \A t \in Shells \ {s} : pc'[t] = pc[t] /\ env'[t] = env[t]
  BY <1>1 DEF IInv, TypeOK
<1>4. pc'["left"] \notin {"attached", "debug", "cleanup"} /\ pc'["right"] # "attached"
  BY <1>3 DEF IInv, Commands, Shells
<1>5. Commands' /\ DOMAIN ran' = Shells
  BY <1>1, <1>2, <1>4, QemuFits
<1>6. /\ "user" \notin refused /\ Launcher \in {"user", "child"}
      /\ s \notin Panes => s = Launcher
      /\ s \in Panes => pc[Launcher] = "attached"
  BY <1>1, Who
<1>7. Launcher \in Shells /\ Launcher \notin Panes /\ Panes \subseteq Shells
  BY <1>6 DEF Shells, Panes
<1>8. Launcher' = Launcher /\ \A t \in Shells : Given(t)' = Given(t)
  BY <1>1 DEF Launcher, Given
<1>9. TypeOK'
  <2>1. env' \in [Shells -> [Reset \cup Kept -> Seq(Word)]]
    BY <1>1, DefaultTypes DEF IInv, TypeOK
  <2>2. pc' \in [Shells -> Labels]
    BY <1>1 DEF IInv, TypeOK, Labels
  <2> QED
    BY <1>1, <1>5, <2>1, <2>2 DEF IInv, TypeOK
<1>10. OneLaunch'
  <2>1. \A t \in {"user", "child"} \ {Launcher} : pc'[t] = "idle" /\ t \notin refused'
    BY <1>1, <1>3, <1>6 DEF IInv, OneLaunch, Shells, Panes
  <2>2. ASSUME NEW p \in Panes, pc'[p] # "idle" PROVE pc'[Launcher] = "attached"
    <3>1. pc[p] # "idle" /\ p # s
      BY <1>3, <1>7, <2>2
    <3>2. pc[Launcher] = "attached"
      BY <3>1 DEF IInv, OneLaunch
    <3> QED
      BY <1>1, <1>3, <1>7, <3>2
  <2>3. pc'[Launcher] \notin {"parse", "check", "configure", "run"}
    <3>1. CASE s = Launcher
      BY <1>3, <3>1
    <3>2. CASE s # Launcher
      BY <1>3, <1>6, <1>7, <3>2
    <3> QED
      BY <3>1, <3>2
  <2> QED
    BY <1>8, <2>1, <2>2, <2>3 DEF OneLaunch
<1>11. ArgsRead'
  <2>1. ASSUME NEW t \in Shells, pc'[t] # "idle" PROVE HasRead(t)'
    <3>1. t # s /\ HasRead(t) /\ pc'[t] = pc[t] /\ todo'[t] = todo[t] /\ env'[t] = env[t]
      BY <1>1, <1>3, <2>1 DEF IInv, ArgsRead
    <3>2. pc[t] # "parse" => todo[t] = <<>>
      BY <3>1 DEF HasRead
    <3> QED
      BY <1>1, <3>1, <3>2, ReadFrame
  <2> QED
    BY <2>1 DEF ArgsRead
<1>12. Refusals'
  <2>1. ASSUME NEW t \in Shells, pc'[t] \in Labels \ {"idle", "parse", "check"}, t \notin refused'
        PROVE  env'[t]["KERNEL"] \in Directories
    <3>1. t # s /\ pc'[t] = pc[t] /\ env'[t] = env[t] /\ t \notin refused
      BY <1>1, <1>3, <2>1
    <3> QED
      BY <2>1, <3>1 DEF IInv, Refusals
  <2>2. "user" \notin refused'
    BY <1>1, <1>6
  <2>3. ASSUME NEW p \in Panes \cap refused' PROVE pc'[p] = "idle" /\ ~Accepts(Given(p))
    BY <1>1, <1>3, <1>7, <2>3 DEF IInv, Refusals
  <2>4. ASSUME Panes \cap refused' # {}, {"user", "child"} \cap refused' = {} PROVE Accepts(request)
    BY <1>1, <2>4 DEF IInv, Refusals
  <2>5. \A p \in Panes : Accepts(Given(p))' <=> Accepts(Given(p))
    BY <1>7, <1>8 DEF Accepts
  <2>6. Accepts(request)' <=> Accepts(request)
    BY <1>1 DEF Accepts
  <2> QED
    BY <2>1, <2>2, <2>3, <2>4, <2>5, <2>6 DEF Refusals
<1> QED
  BY <1>5, <1>9, <1>10, <1>11, <1>12 DEF IInv

\* The launch opens the panes, and a copy begins in each.
LEMMA RunTmuxIInv == ASSUME IInv, NEW s \in Shells, RunTmux(s) PROVE IInv'
<1>1. /\ pc[s] = "run" /\ Terminal(env[s]) = "tmux"
      /\ UNCHANGED <<mode, request, refused, ran, debugged, cleaned, launches>>
  BY DEF RunTmux
<1>2. s \notin Panes /\ s = Launcher /\ "user" \notin refused /\ s \in {"user", "child"}
  <2>1. s \notin Panes
    BY <1>1, Finished DEF CliTerminal
  <2> QED
    BY <1>1, <2>1, Who
<1>3. Panes \subseteq Shells /\ {"user", "child"} \subseteq Shells /\ Shells = Panes \cup {"user", "child"}
  BY DEF Panes, Shells
<1>4. \A t \in {"user", "child"} \ {s} : pc[t] = "idle" /\ t \notin refused
  BY <1>2 DEF IInv, OneLaunch
<1>5. /\ pc'[s] = "attached" /\ todo'[s] = todo[s] /\ env'[s] = env[s]
      /\ \A p \in Panes : pc'[p] = "parse" /\ todo'[p] = PaneArgs(request, p) /\ env'[p] = Defaults(Fresh)
      /\ \A t \in {"user", "child"} \ {s} : pc'[t] = "idle"
  BY <1>2, <1>3, <1>4 DEF RunTmux, Panes
<1>6. Launcher' = Launcher /\ \A t \in Shells : Given(t)' = Given(t)
  BY <1>1 DEF Launcher, Given
<1>7. \A p \in Panes : Given(p) = PaneArgs(request, p) /\ Given(p) \in Seq(Argument)
  BY <1>3, GivenSeq DEF Given, IInv
<1>8. TypeOK'
  <2>1. pc' \in [Shells -> Labels]
    BY DEF RunTmux, IInv, TypeOK, Labels
  <2>2. todo' \in [Shells -> Seq(Argument)]
    BY <1>7 DEF RunTmux, IInv, TypeOK
  <2>3. env' \in [Shells -> [Reset \cup Kept -> Seq(Word)]]
    <3>1. Defaults(Fresh) \in [Reset \cup Kept -> Seq(Word)]
      BY DefaultTypes
    <3> QED
      BY <3>1 DEF RunTmux, IInv, TypeOK
  <2> QED
    BY <1>1, <2>1, <2>2, <2>3 DEF IInv, TypeOK
<1>9. OneLaunch'
  BY <1>1, <1>2, <1>4, <1>5, <1>6 DEF OneLaunch
<1>10. ArgsRead'
  <2>1. ASSUME NEW p \in Panes PROVE HasRead(p)'
    <3>1. Given(p)' \in Seq(Argument) /\ todo'[p] = Given(p)' /\ pc'[p] = "parse"
          /\ env'[p] = Defaults(Fresh) /\ p \in Shells
      BY <1>3, <1>5, <1>6, <1>7
    <3> QED
      BY <3>1, BeginsUnread
  <2>2. HasRead(s)'
    <3>1. HasRead(s) /\ todo[s] = <<>>
      BY <1>1, NothingLeft DEF IInv, ArgsRead
    <3> QED
      BY <1>1, <1>5, <3>1, ReadFrame
  <2> QED
    BY <1>3, <1>5, <2>1, <2>2 DEF ArgsRead
<1>11. Refusals'
  <2>1. ASSUME NEW t \in Shells, pc'[t] \in Labels \ {"idle", "parse", "check"}, t \notin refused'
        PROVE  env'[t]["KERNEL"] \in Directories
    <3>1. t = s
      BY <1>3, <1>5, <2>1
    <3> QED
      BY <1>1, <1>5, <2>1, <3>1, HasKernel
  <2>2. Panes \cap refused' = {}
    BY <1>1, <1>2 DEF IInv, OneLaunch
  <2> QED
    BY <1>1, <1>2, <2>1, <2>2 DEF Refusals
<1>12. Commands'
  BY <1>1, <1>5, CommandsFrame DEF Panes
<1> QED
  BY <1>8, <1>9, <1>10, <1>11, <1>12 DEF IInv

\* The debugger is run with the command of the arguments, in the right pane too.
LEMMA DebugIInv == ASSUME IInv, NEW s \in Shells, Debug(s) PROVE IInv'
<1>1. /\ pc[s] = "debug" /\ debugged' = [debugged EXCEPT ![s] = {DebugCmd(env[s])}]
      /\ pc' = [pc EXCEPT ![s] = "cleanup"]
      /\ UNCHANGED <<env, todo, mode, request, refused, ran, cleaned, launches>>
  BY DEF Debug, GoTo
<1>2. s # "left"
  BY <1>1 DEF IInv, Commands
<1>3. /\ \A t \in Shells \ {s} : pc'[t] = pc[t] /\ debugged'[t] = debugged[t]
      /\ pc'[s] = "cleanup" /\ debugged'[s] = {DebugCmd(env[s])} /\ DOMAIN debugged' = Shells
  BY <1>1 DEF IInv, TypeOK
<1>4. "left" \in Shells /\ "right" \in Shells /\ "right" \in Panes
  BY DEF Shells, Panes
<1>5. \A t \in Shells : Given(t)' = Given(t)
  BY <1>1 DEF Given
<1>6. ASSUME NEW d \in debugged'["right"]
      PROVE  /\ d.kernel = KernelDir(FinalEnv(Given("right")))
             /\ d.type = KernelType(FinalEnv(Given("right")))
             /\ d.port = "12880" /\ Accepts(Given("right"))
  <2>1. CASE s = "right"
    <3>1. d = DebugCmd(env["right"])
      BY <1>3, <1>6, <2>1
    <3>2. Accepts(Given("right")) /\ DebugPort(env["right"]) = "12880"
      BY <1>1, <1>4, <2>1, PaneAccepts
    <3>3. Agrees(env["right"], Given("right")) /\ env["right"] \in [Reset \cup Kept -> Seq(Word)]
      BY <1>1, <1>4, <2>1, Finished DEF IInv, TypeOK
    <3>4. d.kernel = KernelDir(FinalEnv(Given("right"))) /\ d.type = KernelType(FinalEnv(Given("right")))
      BY <3>1, <3>3, CommandsFit
    <3>5. d.port = "12880"
      BY <3>1, <3>2 DEF DebugCmd
    <3> QED
      BY <3>2, <3>4, <3>5
  <2>2. CASE s # "right"
    BY <1>3, <1>4, <1>6, <2>2 DEF IInv, Commands
  <2> QED
    BY <2>1, <2>2
<1>7. Commands'
  <2>1. /\ \A t \in Shells : \A c \in ran'[t] : MadeFrom(c, Given(t))'
        /\ \A c \in ran'["left"] : c.port = "12880" /\ Accepts(Given("left"))'
    BY <1>1, <1>4, <1>5 DEF IInv, Commands, MadeFrom, WordPaths, Fits, Accepts
  <2>2. \A d \in debugged'["right"] :
          /\ d.kernel = KernelDir(FinalEnv(Given("right")))'
          /\ d.type = KernelType(FinalEnv(Given("right")))'
          /\ d.port = "12880" /\ Accepts(Given("right"))'
    BY <1>4, <1>5, <1>6 DEF Accepts
  <2>3. debugged'["left"] = {} /\ ran'["right"] = {}
    BY <1>1, <1>2, <1>3, <1>4 DEF IInv, Commands
  <2>4. pc'["left"] \notin {"attached", "debug", "cleanup"} /\ pc'["right"] # "attached"
    BY <1>2, <1>3, <1>4 DEF IInv, Commands
  <2> QED
    BY <2>1, <2>2, <2>3, <2>4 DEF Commands
<1>8. HasRead(s)'
  <2>1. HasRead(s) /\ todo[s] = <<>>
    BY <1>1, NothingLeft DEF IInv, ArgsRead
  <2> QED
    BY <1>1, <2>1, ReadFrame
<1>9. /\ env' \in [Shells -> [Reset \cup Kept -> Seq(Word)]] /\ todo' \in [Shells -> Seq(Argument)]
      /\ DOMAIN ran' = Shells /\ "cleanup" \in Labels \ {"idle", "attached"}
  BY <1>1 DEF IInv, TypeOK, Labels
<1>10. s \notin refused => env[s]["KERNEL"] \in Directories
  BY <1>1, HasKernel
<1> QED
  BY <1>1, <1>3, <1>7, <1>8, <1>9, <1>10, LocalStep

-----------------------------------------------------------------------------
(***************************************************************************)
(* The theorems.                                                           *)
(***************************************************************************)

\* Every step of the specification keeps the invariant.
LEMMA NextIInv == IInv /\ [Next]_vars => IInv'
<1> SUFFICES ASSUME IInv, [Next]_vars PROVE IInv'
  OBVIOUS
<1>1. ASSUME NEW args \in Requests, NEW m \in Modes, Invoke(args, m) PROVE IInv'
  BY <1>1, InvokeIInv
<1>2. ASSUME NEW s \in Shells, Step(s) PROVE IInv'
  BY <1>2, ParseArgIInv, BadArgIInv, EndOfArgsIInv, CheckKernelIInv, ConfigureIInv, RunWindowIInv,
     RunCliQemuIInv, RunCliGdbIInv, RunTmuxIInv, TmuxEndsIInv, RunBadTerminalIInv, DebugIInv,
     CleanupIInv DEF Step
<1>3. CASE UNCHANGED vars
  <2>1. Launcher' = Launcher /\ \A s \in Shells : Given(s)' = Given(s)
    BY <1>3 DEF vars, Launcher, Given
  <2>2. TypeOK' /\ OneLaunch'
    BY <1>3, <2>1 DEF vars, IInv, TypeOK, OneLaunch
  <2>3. ArgsRead'
    <3>1. ASSUME NEW s \in Shells, pc'[s] # "idle" PROVE HasRead(s)'
      <4>1. HasRead(s)
        BY <1>3, <3>1 DEF vars, IInv, ArgsRead
      <4>2. pc[s] # "parse" => todo[s] = <<>>
        BY <4>1 DEF HasRead
      <4> QED
        BY <1>3, <4>1, <4>2, ReadFrame DEF vars
    <3> QED
      BY <3>1 DEF ArgsRead
  <2>4. Refusals'
    <3>1. \A p \in Panes : Accepts(Given(p))' <=> Accepts(Given(p))
      BY <2>1 DEF Accepts, Panes, Shells
    <3>2. Accepts(request)' <=> Accepts(request)
      BY <1>3 DEF vars, Accepts
    <3> QED
      BY <1>3, <3>1, <3>2 DEF vars, IInv, Refusals
  <2>5. Commands'
    BY <1>3, CommandsFrame DEF vars, IInv, Commands
  <2> QED
    BY <2>2, <2>3, <2>4, <2>5 DEF IInv
<1> QED
  BY <1>1, <1>2, <1>3 DEF Next

\* The invariant of start-kernel.sh's argument handling holds for all command lines, all
\* existing directories and any number of launches: every shell has read a first part of
\* the arguments it was given (lines 14-63), only an executed run goes on after an error
\* message, and what was run comes from the arguments.
THEOREM Inductive == Spec => []IInv
<1>1. Init => IInv
  BY InitIInv
<1>2. IInv /\ [Next]_vars => IInv'
  BY NextIInv
<1> QED
  BY <1>1, <1>2, PTL DEF Spec

\* Where lines 58-73 accept the arguments, "tmux" is in no value but the terminal's and no
\* path has a blank, every QEMU that is run, at once or by a copy of the script in a pane
\* (lines 177-196), boots the directory that --kernel names with the rootfs, the shared
\* folder, the extra parameters and the kernel command line asked for.
THEOREM QemuAsAskedHolds == Spec => []QemuAsAsked
<1>1. IInv => QemuAsAsked
  <2> SUFFICES ASSUME IInv, TmuxOnlyInTerminal, Accepts(request), WordPaths(request),
                      NEW s \in Shells, NEW c \in ran[s]
               PROVE  Fits(c, request)
    BY DEF QemuAsAsked
  <2>1. MadeFrom(c, Given(s))
    BY DEF IInv, Commands
  <2>2. CASE s \notin Panes
    BY <2>1, <2>2 DEF Given, MadeFrom
  <2>3. CASE s \in Panes
    <3>1. s = "left"
      BY <2>3 DEF IInv, Commands, Panes
    <3>2. Given(s) = PaneArgs(request, s) /\ Accepts(Given(s))
      BY <2>3, <3>1 DEF IInv, Commands, Given
    <3>3. request \in Seq(Argument)
      BY GivenSeq DEF IInv
    <3> DEFINE e == FinalEnv(PaneArgs(request, s))
               f == FinalEnv(request)
    <3>4. \A v \in (Reset \cup Kept) \ {"TERMINAL"} : e[v] = f[v]
      BY <2>3, <3>2, <3>3, AcceptedValues
    <3>5. FinalEnv(Given(s)) = e
      BY <3>2
    <3> HIDE DEF e, f
    <3>6. /\ e["KERNEL"] = f["KERNEL"] /\ e["SHARE_FOLDER"] = f["SHARE_FOLDER"]
          /\ e["QEMU_EXTRA_PARAM"] = f["QEMU_EXTRA_PARAM"] /\ e["CMDLINE"] = f["CMDLINE"]
          /\ e["ROOTFS"] = f["ROOTFS"] /\ e["INITRD"] = f["INITRD"] /\ e["QEMU_DIR"] = f["QEMU_DIR"]
      BY <3>4 DEF Reset, Kept
    <3>7. WordPaths(Given(s))
      BY <3>5, <3>6 DEF WordPaths, f
    <3>8. Fits(c, Given(s))
      BY <2>1, <3>2, <3>7 DEF MadeFrom
    <3> QED
      BY <3>5, <3>6, <3>8 DEF Fits, f
  <2> QED
    BY <2>2, <2>3
<1> QED
  BY <1>1, Inductive, PTL

\* The left pane runs QEMU and the right pane the debugger, and no pane gets to line 188:
\* the --terminal that lines 192 and 195 append is the last one, whatever the others.
THEOREM PaneRolesHolds == Spec => []PaneRoles
<1>1. IInv => PaneRoles
  <2> SUFFICES ASSUME IInv PROVE PaneRoles
    OBVIOUS
  <2>1. ASSUME NEW p \in Panes, pc[p] = "run" PROVE Terminal(env[p]) = CliTerminal(p)
    BY <2>1, PaneAccepts
  <2> QED
    BY <2>1 DEF IInv, Commands, PaneRoles
<1> QED
  BY <1>1, Inductive, PTL

\* The debugger of the right pane loads the symbols of the kernel that the left pane boots,
\* on its port (lines 152-156), and no pane goes on with arguments that the other refuses.
THEOREM PanesAgreeHolds == Spec => []PanesAgree
<1>1. IInv => PanesAgree
  <2> SUFFICES ASSUME IInv PROVE PanesAgree
    OBVIOUS
  <2>1. /\ "left" \in Panes /\ "right" \in Panes /\ "left" \in Shells
        /\ Given("left") = PaneArgs(request, "left") /\ Given("right") = PaneArgs(request, "right")
    BY DEF Panes, Shells, Given
  <2>2. request \in Seq(Argument)
    BY <2>1, GivenSeq DEF IInv
  <2>3. Accepts(Given("left")) => /\ Accepts(Given("right"))
                                  /\ FinalEnv(Given("right"))["KERNEL"] = FinalEnv(Given("left"))["KERNEL"]
    BY <2>1, <2>2, PanesAlike
  <2>4. Accepts(Given("right")) => Accepts(Given("left"))
    BY <2>1, <2>2, PanesAlike
  <2>5. ASSUME NEW c \in ran["left"], NEW d \in debugged["right"]
        PROVE  c.kernel = d.kernel /\ c.type = d.type /\ c.port = d.port
    <3> DEFINE e == FinalEnv(Given("left"))
               f == FinalEnv(Given("right"))
    <3>1. c.kernel = KernelDir(e) /\ c.type = KernelType(e) /\ c.port = "12880" /\ Accepts(Given("left"))
      BY <2>1, <2>5 DEF IInv, Commands, MadeFrom
    <3>2. d.kernel = KernelDir(f) /\ d.type = KernelType(f) /\ d.port = "12880"
      BY <2>5 DEF IInv, Commands
    <3>3. e["KERNEL"] = f["KERNEL"]
      BY <2>3, <3>1
    <3> HIDE DEF e, f
    <3>4. KernelDir(e) = KernelDir(f) /\ KernelType(e) = KernelType(f)
      BY <3>3, Zenon DEF KernelDir, KernelType
    <3> QED
      BY <3>1, <3>2, <3>4
  <2>6. "left" \in refused => debugged["right"] = {}
    <3>1. "left" \in refused => ~Accepts(Given("left"))
      BY <2>1 DEF IInv, Refusals
    <3>2. debugged["right"] # {} => Accepts(Given("right"))
      BY DEF IInv, Commands
    <3> QED
      BY <2>4, <3>1, <3>2
  <2>7. "right" \in refused => ran["left"] = {}
    <3>1. "right" \in refused => ~Accepts(Given("right"))
      BY <2>1 DEF IInv, Refusals
    <3>2. ran["left"] # {} => Accepts(Given("left"))
      BY DEF IInv, Commands
    <3> QED
      BY <2>3, <3>1, <3>2
  <2> QED
    BY <2>5, <2>6, <2>7 DEF PanesAgree
<1> QED
  BY <1>1, Inductive, PTL

\* A sourced launch that printed an error message (lines 59, 66, 71 and 200) runs nothing
\* and ends nobody's session.
THEOREM SourcedErrorIsHarmlessHolds == Spec => []SourcedErrorIsHarmless
<1>1. IInv => SourcedErrorIsHarmless
  BY DEF IInv, Refusals, SourcedErrorIsHarmless
<1> QED
  BY <1>1, Inductive, PTL

\* With single words as values and "tmux" in the terminal only, what the launcher accepts
\* the panes accept, joined and split and substituted as it is (lines 14, 192 and 195).
THEOREM SingleWordsReachPanesHolds == Spec => []SingleWordsReachPanes
<1>1. IInv => SingleWordsReachPanes
  <2> SUFFICES ASSUME IInv, TmuxOnlyInTerminal, {"user", "child"} \cap refused = {},
                      \A i \in DOMAIN request : Len(request[i].val) <= 1,
                      NEW p \in Panes \cap refused
               PROVE  FALSE
    BY DEF SingleWordsReachPanes
  <2>1. request \in Seq(Argument) /\ p \in Shells
    BY GivenSeq DEF IInv, Panes, Shells
  <2>2. \A i \in 1..Len(request) : Len(request[i].val) <= 1
    BY <2>1, LenProperties
  <2>3. Accepts(request) /\ ~Accepts(Given(p))
    BY DEF IInv, Refusals
  <2>4. Accepts(PaneArgs(request, p))
    BY <2>1, <2>2, <2>3, SingleWords
  <2> QED
    BY <2>3, <2>4 DEF Given
<1> QED
  BY <1>1, Inductive, PTL

=============================================================================
