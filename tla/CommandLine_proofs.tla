------------------------- MODULE CommandLine_proofs -------------------------
(***************************************************************************)
(* Proofs about CommandLine, for texts of every length and all values of   *)
(* the variables.  Induction over texts is stated for sets of texts.       *)
(***************************************************************************)
EXTENDS CommandLine, SequenceTheorems, WellFoundedInduction, TLAPS

-----------------------------------------------------------------------------
(***************************************************************************)
(* Induction.                                                              *)
(***************************************************************************)

\* Over the naturals: a set with 0 and every successor has all of them.
LEMMA NatSets ==
    ASSUME NEW T, 0 \in T, \A n \in Nat : n \in T => n + 1 \in T
    PROVE  \A n \in Nat : n \in T
<1> SUFFICES ASSUME Nat \ T # {} PROVE FALSE
  OBVIOUS
<1>1. PICK n \in Nat \ T : \A m \in Nat \ T : ~ (<<m, n>> \in OpToRel(<, Nat))
  BY WFMin, NatLessThanWellFounded
<1>2. \A m \in Nat \ T : ~(m < n)
  <2>1. ASSUME NEW m \in Nat \ T, m < n PROVE <<m, n>> \in {p \in Nat \X Nat : p[1] < p[2]}
    BY <2>1
  <2> QED
    BY <1>1, <2>1, Zenon DEF OpToRel
<1>3. n \in Nat /\ n # 0 /\ n - 1 \in Nat
  OBVIOUS
<1>4. n - 1 \in T
  BY <1>2, <1>3
<1> QED
  BY <1>3, <1>4

\* Over sequences: a set with the empty one and all that are longer by one element.
LEMMA SeqSets ==
    ASSUME NEW S, NEW T, <<>> \in T, \A t \in Seq(S) : \A c \in S : t \in T => Append(t, c) \in T
    PROVE  \A t \in Seq(S) : t \in T
<1> DEFINE N == {n \in Nat : \A t \in Seq(S) : Len(t) = n => t \in T}
<1>1. 0 \in N
  BY EmptySeq
<1>2. ASSUME NEW n \in Nat, n \in N PROVE n + 1 \in N
  <2> SUFFICES ASSUME NEW t \in Seq(S), Len(t) = n + 1 PROVE t \in T
    OBVIOUS
  <2> DEFINE u == SubSeq(t, 1, n)
             c == t[n + 1]
  <2>1. u \in Seq(S) /\ Len(u) = n /\ \A i \in 1..n : u[i] = t[i]
    BY SubSeqProperties
  <2>2. c \in S
    BY ElementOfSeq
  <2> HIDE DEF u
  <2>3. t = Append(u, c)
    BY <2>1, <2>2
  <2>4. u \in T
    BY <1>2, <2>1
  <2> QED
    BY <2>1, <2>2, <2>3, <2>4
<1>3. \A n \in Nat : n \in N
  <2> HIDE DEF N
  <2> QED
    BY <1>1, <1>2, NatSets
<1> QED
  BY <1>3, LenProperties

-----------------------------------------------------------------------------
(***************************************************************************)
(* The recursive functions, from one text to the next longer one.          *)
(***************************************************************************)

\* The function of the definition of ShellReads.
Reading(f, t) == f = [n \in 0..Len(t) |-> IF n = 0 THEN Blank ELSE Read(f[n - 1], t[n])]

\* What a shell has read of a longer text.
LEMMA ReadAppend ==
    ASSUME NEW S
    PROVE  /\ ShellReads(<<>>) = Blank
           /\ \A t \in Seq(S) : \A c \in S : ShellReads(Append(t, c)) = Read(ShellReads(t), c)
<1> DEFINE T == {t \in Seq(S) : \E f : Reading(f, t)}
<1>1. <<>> \in T
  <2>1. 0..Len(<<>>) = {0}
    OBVIOUS
  <2> DEFINE f == [n \in {0} |-> Blank]
  <2>2. Reading(f, <<>>)
    BY <2>1 DEF Reading
  <2> QED
    BY <2>2
<1>2. ASSUME NEW t \in Seq(S), NEW c \in S, t \in T PROVE Append(t, c) \in T
  <2>1. PICK f : Reading(f, t)
    BY <1>2
  <2> DEFINE k == Len(t)
             u == Append(t, c)
             g == [n \in 0..(k + 1) |-> IF n = k + 1 THEN Read(f[k], c) ELSE f[n]]
  <2>2. k \in Nat /\ u \in Seq(S) /\ Len(u) = k + 1 /\ u[k + 1] = c /\ \A n \in 1..k : u[n] = t[n]
    BY AppendProperties, LenProperties
  <2> HIDE DEF k, u
  <2>3. ASSUME NEW n \in 0..(k + 1)
        PROVE  g[n] = IF n = 0 THEN Blank ELSE Read(g[n - 1], u[n])
    <3>1. \A m \in 0..k : f[m] = IF m = 0 THEN Blank ELSE Read(f[m - 1], t[m])
      BY <2>1 DEF Reading, k
    <3>2. CASE n = 0
      BY <2>2, <3>1, <3>2
    <3>3. CASE n \in 1..k
      <4>1. g[n] = f[n] /\ g[n - 1] = f[n - 1] /\ u[n] = t[n]
        BY <2>2, <3>3
      <4> QED
        BY <2>2, <3>1, <3>3, <4>1
    <3>4. CASE n = k + 1
      <4>1. g[n] = Read(f[k], c) /\ g[n - 1] = f[k] /\ u[n] = c /\ n # 0
        BY <2>2, <3>4
      <4> QED
        BY <4>1
    <3> QED
      BY <2>2, <3>2, <3>3, <3>4
  <2>4. DOMAIN g = 0..(k + 1) /\ g = [n \in 0..(k + 1) |-> g[n]]
    OBVIOUS
  <2> HIDE DEF g
  <2>5. g = [n \in 0..(k + 1) |-> IF n = 0 THEN Blank ELSE Read(g[n - 1], u[n])]
    BY <2>3, <2>4
  <2>6. Reading(g, u)
    BY <2>2, <2>5 DEF Reading
  <2> QED
    BY <2>2, <2>6 DEF u
<1>3. \A t \in Seq(S) : \E f : Reading(f, t)
  <2>1. \A t \in Seq(S) : t \in T
    <3> HIDE DEF T
    <3> QED
      BY <1>1, <1>2, SeqSets
  <2> QED
    BY <2>1
<1>4. ASSUME NEW t \in Seq(S) PROVE \E f : Reading(f, t) /\ ShellReads(t) = f[Len(t)]
  <2> DEFINE f == CHOOSE g : Reading(g, t)
  <2>1. Reading(f, t)
    BY <1>3, Zenon
  <2>2. ShellReads(t) = f[Len(t)]
    BY Zenon DEF ShellReads, Reading
  <2> QED
    BY <2>1, <2>2, Zenon
<1>5. ShellReads(<<>>) = Blank
  <2>1. <<>> \in Seq(S)
    OBVIOUS
  <2>2. PICK f : Reading(f, <<>>) /\ ShellReads(<<>>) = f[Len(<<>>)]
    BY <1>4, <2>1
  <2>3. Len(<<>>) = 0 /\ 0 \in 0..0
    OBVIOUS
  <2> QED
    BY <2>2, <2>3 DEF Reading
<1>6. ASSUME NEW t \in Seq(S), NEW c \in S PROVE ShellReads(Append(t, c)) = Read(ShellReads(t), c)
  <2> DEFINE k == Len(t)
             u == Append(t, c)
  <2>1. k \in Nat /\ u \in Seq(S) /\ Len(u) = k + 1 /\ u[k + 1] = c /\ \A n \in 1..k : u[n] = t[n]
    BY AppendProperties, LenProperties
  <2>2. PICK f : Reading(f, t) /\ ShellReads(t) = f[k]
    BY <1>4
  <2>3. PICK g : Reading(g, u) /\ ShellReads(u) = g[k + 1]
    BY <1>4, <2>1
  <2> HIDE DEF k, u
  <2>4. \A m \in 0..k : f[m] = IF m = 0 THEN Blank ELSE Read(f[m - 1], t[m])
    BY <2>2 DEF Reading, k
  <2>5. \A m \in 0..(k + 1) : g[m] = IF m = 0 THEN Blank ELSE Read(g[m - 1], u[m])
    BY <2>1, <2>3 DEF Reading
  <2> DEFINE N == {n \in Nat : n \in 0..k => f[n] = g[n]}
  <2>6. 0 \in N
    BY <2>1, <2>4, <2>5
  <2>7. ASSUME NEW n \in Nat, n \in N PROVE n + 1 \in N
    <3> SUFFICES ASSUME n + 1 \in 0..k PROVE f[n + 1] = g[n + 1]
      OBVIOUS
    <3>1. n \in 0..k /\ n + 1 \in 1..k /\ n + 1 \in 0..(k + 1) /\ n + 1 - 1 = n /\ n + 1 # 0
      BY <2>1
    <3>2. f[n] = g[n] /\ u[n + 1] = t[n + 1]
      BY <2>1, <2>7, <3>1
    <3>3. f[n + 1] = Read(f[n], t[n + 1])
      BY <2>4, <3>1
    <3>4. g[n + 1] = Read(g[n], u[n + 1])
      BY <2>5, <3>1
    <3> QED
      BY <3>2, <3>3, <3>4
  <2>8. f[k] = g[k]
    <3>1. \A n \in Nat : n \in N
      <4> HIDE DEF N
      <4> QED
        BY <2>6, <2>7, NatSets
    <3> QED
      BY <2>1, <3>1
  <2>9. g[k + 1] = Read(g[k], c)
    <3>1. k + 1 \in 0..(k + 1) /\ k + 1 - 1 = k /\ k + 1 # 0
      BY <2>1
    <3> QED
      BY <2>1, <2>5, <3>1
  <2> QED
    BY <2>2, <2>3, <2>8, <2>9 DEF u
<1> QED
  BY <1>5, <1>6

\* The function of the definition of PutAll, and where it begins.
Nothing == [out |-> <<>>, dollar |-> FALSE]
Putting(f, t, after) ==
    f = [n \in 0..Len(t) |-> IF n = 0 THEN Nothing ELSE Put(f[n - 1], t[n], after)]

\* What String.replace has put in of a longer text.
LEMMA PutAppend ==
    ASSUME NEW S, NEW after
    PROVE  /\ PutAll(<<>>, after) = Nothing
           /\ \A t \in Seq(S) : \A c \in S : PutAll(Append(t, c), after) = Put(PutAll(t, after), c, after)
<1> DEFINE T == {t \in Seq(S) : \E f : Putting(f, t, after)}
<1>1. <<>> \in T
  <2>1. 0..Len(<<>>) = {0}
    OBVIOUS
  <2> DEFINE f == [n \in {0} |-> Nothing]
  <2>2. Putting(f, <<>>, after)
    BY <2>1 DEF Putting
  <2> QED
    BY <2>2
<1>2. ASSUME NEW t \in Seq(S), NEW c \in S, t \in T PROVE Append(t, c) \in T
  <2>1. PICK f : Putting(f, t, after)
    BY <1>2
  <2> DEFINE k == Len(t)
             u == Append(t, c)
             g == [n \in 0..(k + 1) |-> IF n = k + 1 THEN Put(f[k], c, after) ELSE f[n]]
  <2>2. k \in Nat /\ u \in Seq(S) /\ Len(u) = k + 1 /\ u[k + 1] = c /\ \A n \in 1..k : u[n] = t[n]
    BY AppendProperties, LenProperties
  <2> HIDE DEF k, u
  <2>3. ASSUME NEW n \in 0..(k + 1)
        PROVE  g[n] = IF n = 0 THEN Nothing ELSE Put(g[n - 1], u[n], after)
    <3>1. \A m \in 0..k : f[m] = IF m = 0 THEN Nothing ELSE Put(f[m - 1], t[m], after)
      BY <2>1 DEF Putting, k
    <3>2. CASE n = 0
      BY <2>2, <3>1, <3>2
    <3>3. CASE n \in 1..k
      <4>1. g[n] = f[n] /\ g[n - 1] = f[n - 1] /\ u[n] = t[n]
        BY <2>2, <3>3
      <4> QED
        BY <2>2, <3>1, <3>3, <4>1
    <3>4. CASE n = k + 1
      <4>1. g[n] = Put(f[k], c, after) /\ g[n - 1] = f[k] /\ u[n] = c /\ n # 0
        BY <2>2, <3>4
      <4> QED
        BY <4>1
    <3> QED
      BY <2>2, <3>2, <3>3, <3>4
  <2>4. DOMAIN g = 0..(k + 1) /\ g = [n \in 0..(k + 1) |-> g[n]]
    OBVIOUS
  <2> HIDE DEF g
  <2>5. g = [n \in 0..(k + 1) |-> IF n = 0 THEN Nothing ELSE Put(g[n - 1], u[n], after)]
    BY <2>3, <2>4
  <2>6. Putting(g, u, after)
    BY <2>2, <2>5 DEF Putting
  <2> QED
    BY <2>2, <2>6 DEF u
<1>3. \A t \in Seq(S) : \E f : Putting(f, t, after)
  <2>1. \A t \in Seq(S) : t \in T
    <3> HIDE DEF T
    <3> QED
      BY <1>1, <1>2, SeqSets
  <2> QED
    BY <2>1
<1>4. ASSUME NEW t \in Seq(S) PROVE \E f : Putting(f, t, after) /\ PutAll(t, after) = f[Len(t)]
  <2> DEFINE f == CHOOSE g : Putting(g, t, after)
  <2>1. Putting(f, t, after)
    BY <1>3, Zenon
  <2>2. PutAll(t, after) = f[Len(t)]
    BY Zenon DEF PutAll, Putting, Nothing
  <2> QED
    BY <2>1, <2>2, Zenon
<1>5. PutAll(<<>>, after) = Nothing
  <2>1. <<>> \in Seq(S)
    OBVIOUS
  <2>2. PICK f : Putting(f, <<>>, after) /\ PutAll(<<>>, after) = f[Len(<<>>)]
    BY <1>4, <2>1
  <2>3. Len(<<>>) = 0 /\ 0 \in 0..0
    OBVIOUS
  <2> QED
    BY <2>2, <2>3 DEF Putting
<1>6. ASSUME NEW t \in Seq(S), NEW c \in S PROVE PutAll(Append(t, c), after) = Put(PutAll(t, after), c, after)
  <2> DEFINE k == Len(t)
             u == Append(t, c)
  <2>1. k \in Nat /\ u \in Seq(S) /\ Len(u) = k + 1 /\ u[k + 1] = c /\ \A n \in 1..k : u[n] = t[n]
    BY AppendProperties, LenProperties
  <2>2. PICK f : Putting(f, t, after) /\ PutAll(t, after) = f[k]
    BY <1>4
  <2>3. PICK g : Putting(g, u, after) /\ PutAll(u, after) = g[k + 1]
    BY <1>4, <2>1
  <2> HIDE DEF k, u
  <2>4. \A m \in 0..k : f[m] = IF m = 0 THEN Nothing ELSE Put(f[m - 1], t[m], after)
    BY <2>2 DEF Putting, k
  <2>5. \A m \in 0..(k + 1) : g[m] = IF m = 0 THEN Nothing ELSE Put(g[m - 1], u[m], after)
    BY <2>1, <2>3 DEF Putting
  <2> DEFINE N == {n \in Nat : n \in 0..k => f[n] = g[n]}
  <2>6. 0 \in N
    BY <2>1, <2>4, <2>5
  <2>7. ASSUME NEW n \in Nat, n \in N PROVE n + 1 \in N
    <3> SUFFICES ASSUME n + 1 \in 0..k PROVE f[n + 1] = g[n + 1]
      OBVIOUS
    <3>1. n \in 0..k /\ n + 1 \in 1..k /\ n + 1 \in 0..(k + 1) /\ n + 1 - 1 = n /\ n + 1 # 0
      BY <2>1
    <3>2. f[n] = g[n] /\ u[n + 1] = t[n + 1]
      BY <2>1, <2>7, <3>1
    <3>3. f[n + 1] = Put(f[n], t[n + 1], after)
      BY <2>4, <3>1
    <3>4. g[n + 1] = Put(g[n], u[n + 1], after)
      BY <2>5, <3>1
    <3> QED
      BY <3>2, <3>3, <3>4
  <2>8. f[k] = g[k]
    <3>1. \A n \in Nat : n \in N
      <4> HIDE DEF N
      <4> QED
        BY <2>6, <2>7, NatSets
    <3> QED
      BY <2>1, <3>1
  <2>9. g[k + 1] = Put(g[k], c, after)
    <3>1. k + 1 \in 0..(k + 1) /\ k + 1 - 1 = k /\ k + 1 # 0
      BY <2>1
    <3> QED
      BY <2>1, <2>5, <3>1
  <2> QED
    BY <2>2, <2>3, <2>8, <2>9 DEF u
<1> QED
  BY <1>5, <1>6

\* The function of the definition of FlattenSeq.
Cat(a, b) == a \o b
Joining(f, t) == f = [n \in 1..Len(t) |-> IF n = 1 THEN t[n] ELSE Cat(f[n - 1], t[n])]

\* The concatenation of a longer sequence of texts.
LEMMA FlattenAppend ==
    ASSUME NEW S
    PROVE  /\ FlattenSeq(<<>>) = <<>>
           /\ \A t \in Seq(Seq(S)) : \A c \in Seq(S) :
                FlattenSeq(Append(t, c)) = FlattenSeq(t) \o c
           /\ \A t \in Seq(Seq(S)) : FlattenSeq(t) \in Seq(S)
<1> DEFINE T == {t \in Seq(Seq(S)) : \E f : Joining(f, t)}
<1>1. <<>> \in T
  <2>1. 1..Len(<<>>) = {}
    OBVIOUS
  <2> DEFINE f == [n \in {} |-> <<>>]
  <2>2. Joining(f, <<>>)
    BY <2>1 DEF Joining
  <2> QED
    BY <2>2
<1>2. ASSUME NEW t \in Seq(Seq(S)), NEW c \in Seq(S), t \in T PROVE Append(t, c) \in T
  <2>1. PICK f : Joining(f, t)
    BY <1>2
  <2> DEFINE k == Len(t)
             u == Append(t, c)
             g == [n \in 1..(k + 1) |-> IF n # k + 1 THEN f[n] ELSE IF n = 1 THEN c ELSE Cat(f[k], c)]
  <2>2. k \in Nat /\ u \in Seq(Seq(S)) /\ Len(u) = k + 1 /\ u[k + 1] = c /\ \A n \in 1..k : u[n] = t[n]
    BY AppendProperties, LenProperties
  <2> HIDE DEF k, u
  <2>3. ASSUME NEW n \in 1..(k + 1)
        PROVE  g[n] = IF n = 1 THEN u[n] ELSE Cat(g[n - 1], u[n])
    <3>1. \A m \in 1..k : f[m] = IF m = 1 THEN t[m] ELSE Cat(f[m - 1], t[m])
      BY <2>1 DEF Joining, k
    <3>2. CASE n \in 1..k /\ n = 1
      BY <2>2, <3>1, <3>2
    <3>3. CASE n \in 1..k /\ n # 1
      <4>1. g[n] = f[n] /\ g[n - 1] = f[n - 1] /\ u[n] = t[n]
        BY <2>2, <3>3
      <4> QED
        BY <2>2, <3>1, <3>3, <4>1
    <3>4. CASE n = k + 1 /\ n # 1
      <4>1. g[n] = Cat(f[k], c) /\ g[n - 1] = f[k] /\ u[n] = c
        BY <2>2, <3>4
      <4> QED
        BY <3>4, <4>1
    <3>5. CASE n = k + 1 /\ n = 1
      BY <2>2, <3>5
    <3> QED
      BY <2>2, <3>2, <3>3, <3>4, <3>5
  <2>4. DOMAIN g = 1..(k + 1) /\ g = [n \in 1..(k + 1) |-> g[n]]
    OBVIOUS
  <2> HIDE DEF g
  <2>5. g = [n \in 1..(k + 1) |-> IF n = 1 THEN u[n] ELSE Cat(g[n - 1], u[n])]
    BY <2>3, <2>4
  <2>6. Joining(g, u)
    BY <2>2, <2>5 DEF Joining
  <2> QED
    BY <2>2, <2>6 DEF u
<1>3. \A t \in Seq(Seq(S)) : \E f : Joining(f, t)
  <2>1. \A t \in Seq(Seq(S)) : t \in T
    <3> HIDE DEF T
    <3> QED
      BY <1>1, <1>2, SeqSets
  <2> QED
    BY <2>1
<1>4. ASSUME NEW t \in Seq(Seq(S)), Len(t) # 0
      PROVE  \E f : Joining(f, t) /\ FlattenSeq(t) = f[Len(t)]
  <2> DEFINE f == CHOOSE g : Joining(g, t)
  <2>1. Joining(f, t)
    BY <1>3, Zenon
  <2>2. FlattenSeq(t) = f[Len(t)]
    BY <1>4, Zenon DEF FlattenSeq, Joining, Cat
  <2> QED
    BY <2>1, <2>2, Zenon
<1>5. FlattenSeq(<<>>) = <<>>
  BY DEF FlattenSeq
<1>6. ASSUME NEW t \in Seq(Seq(S)), NEW c \in Seq(S), FlattenSeq(t) \in Seq(S)
      PROVE  FlattenSeq(Append(t, c)) = Cat(FlattenSeq(t), c) /\ Cat(FlattenSeq(t), c) \in Seq(S)
  <2> DEFINE k == Len(t)
             u == Append(t, c)
  <2>1. k \in Nat /\ u \in Seq(Seq(S)) /\ Len(u) = k + 1 /\ u[k + 1] = c /\ \A n \in 1..k : u[n] = t[n]
    BY AppendProperties, LenProperties
  <2>2. PICK g : Joining(g, u) /\ FlattenSeq(u) = g[k + 1]
    <3>1. Len(u) # 0
      BY <2>1
    <3> QED
      BY <1>4, <2>1, <3>1
  <2>3. CASE k = 0
    <3>1. t = <<>>
      BY <2>3, EmptySeq
    <3>2. Cat(FlattenSeq(t), c) = c
      BY <1>5, <3>1, ConcatEmptySeq DEF Cat
    <3>3. g[1] = u[1] /\ u[1] = c
      BY <2>1, <2>2, <2>3 DEF Joining
    <3> QED
      BY <2>2, <2>3, <3>2, <3>3
  <2>4. CASE k # 0
    <3>1. PICK f : Joining(f, t) /\ FlattenSeq(t) = f[k]
      BY <1>4, <2>4
    <3> HIDE DEF k, u
    <3>2. \A m \in 1..k : f[m] = IF m = 1 THEN t[m] ELSE Cat(f[m - 1], t[m])
      BY <3>1 DEF Joining, k
    <3>3. \A m \in 1..(k + 1) : g[m] = IF m = 1 THEN u[m] ELSE Cat(g[m - 1], u[m])
      BY <2>1, <2>2 DEF Joining
    <3> DEFINE N == {n \in Nat : n \in 1..k => f[n] = g[n]}
    <3>4. 0 \in N
      OBVIOUS
    <3>5. ASSUME NEW n \in Nat, n \in N PROVE n + 1 \in N
      <4> SUFFICES ASSUME n + 1 \in 1..k PROVE f[n + 1] = g[n + 1]
        OBVIOUS
      <4>1. n + 1 \in 1..(k + 1) /\ n + 1 - 1 = n /\ u[n + 1] = t[n + 1]
        BY <2>1
      <4>2. CASE n = 0
        BY <3>2, <3>3, <4>1, <4>2
      <4>3. CASE n # 0
        <5>1. n \in 1..k /\ n + 1 # 1
          BY <2>1, <4>3
        <5>2. f[n] = g[n]
          BY <3>5, <5>1
        <5>3. f[n + 1] = Cat(f[n], t[n + 1])
          BY <3>2, <4>1, <5>1
        <5>4. g[n + 1] = Cat(g[n], u[n + 1])
          BY <3>3, <4>1, <5>1
        <5> QED
          BY <4>1, <5>2, <5>3, <5>4
      <4> QED
        BY <4>2, <4>3
    <3>6. f[k] = g[k]
      <4>1. \A n \in Nat : n \in N
        <5> HIDE DEF N
        <5> QED
          BY <3>4, <3>5, NatSets
      <4> QED
        BY <2>1, <2>4, <4>1
    <3>7. g[k + 1] = Cat(g[k], c)
      <4>1. PICK j \in 1..(k + 1) : j = k + 1 /\ j - 1 = k /\ j # 1
        BY <2>1, <2>4
      <4>2. g[j] = Cat(g[j - 1], u[j])
        BY <3>3, <4>1
      <4>3. u[j] = c
        BY <2>1, <4>1
      <4> QED
        BY <4>1, <4>2, <4>3
    <3>8. Cat(FlattenSeq(t), c) \in Seq(S)
      BY <1>6, ConcatProperties DEF Cat
    <3> QED
      BY <2>2, <3>1, <3>6, <3>7, <3>8 DEF u
  <2> QED
    BY <2>3, <2>4
<1>7. \A t \in Seq(Seq(S)) : FlattenSeq(t) \in Seq(S)
  <2> DEFINE U == {t \in Seq(Seq(S)) : FlattenSeq(t) \in Seq(S)}
  <2>1. <<>> \in Seq(Seq(S)) /\ <<>> \in Seq(S)
    OBVIOUS
  <2>11. <<>> \in U
    BY <1>5, <2>1
  <2>2. ASSUME NEW t \in Seq(Seq(S)), NEW c \in Seq(S), t \in U PROVE Append(t, c) \in U
    <3>1. FlattenSeq(t) \in Seq(S) /\ Append(t, c) \in Seq(Seq(S))
      BY <2>2, AppendProperties
    <3> QED
      BY <1>6, <3>1
  <2>3. \A t \in Seq(Seq(S)) : t \in U
    <3> HIDE DEF U
    <3> QED
      BY <2>11, <2>2, SeqSets
  <2> QED
    BY <2>3
<1> QED
  BY <1>5, <1>6, <1>7 DEF Cat

-----------------------------------------------------------------------------
(***************************************************************************)
(* Replacing every character by a text.                                    *)
(***************************************************************************)

\* Concatenation, as the provers need it.
LEMMA CatFacts ==
    ASSUME NEW S
    PROVE  /\ \A a, b \in Seq(S) : Cat(a, b) \in Seq(S)
           /\ \A a \in Seq(S) : Cat(a, <<>>) = a /\ Cat(<<>>, a) = a
           /\ \A a, b, c \in Seq(S) : Cat(Cat(a, b), c) = Cat(a, Cat(b, c))
           /\ \A a \in Seq(S) : \A c \in S : Append(a, c) = Cat(a, <<c>>) /\ Append(a, c) \in Seq(S)
                                             /\ <<c>> \in Seq(S)
           /\ \A a, b \in Seq(S) : \A c \in S : Append(Cat(a, b), c) = Cat(a, Append(b, c))
<1>1. \A a, b \in Seq(S) : Cat(a, b) \in Seq(S)
  BY ConcatProperties DEF Cat
<1>2. \A a \in Seq(S) : Cat(a, <<>>) = a /\ Cat(<<>>, a) = a
  BY ConcatEmptySeq DEF Cat
<1>3. \A a, b, c \in Seq(S) : Cat(Cat(a, b), c) = Cat(a, Cat(b, c))
  BY ConcatAssociative DEF Cat
<1>4. \A a \in Seq(S) : \A c \in S : Append(a, c) = Cat(a, <<c>>) /\ Append(a, c) \in Seq(S)
                                     /\ <<c>> \in Seq(S)
  BY AppendIsConcat, AppendProperties DEF Cat
<1>5. ASSUME NEW a \in Seq(S), NEW b \in Seq(S), NEW c \in S
      PROVE  Append(Cat(a, b), c) = Cat(a, Append(b, c))
  <2>1. Append(Cat(a, b), c) = Cat(Cat(a, b), <<c>>) /\ Append(b, c) = Cat(b, <<c>>) /\ <<c>> \in Seq(S)
    BY <1>1, <1>4
  <2>2. Cat(Cat(a, b), <<c>>) = Cat(a, Cat(b, <<c>>))
    BY <1>3, <2>1
  <2> QED
    BY <2>1, <2>2
<1> QED
  BY <1>1, <1>2, <1>3, <1>4, <1>5

\* A character appended is a text of one character put behind.
LEMMA AppendCat ==
    ASSUME NEW S, NEW a \in Seq(S), NEW c \in S
    PROVE  Append(a, c) = Cat(a, <<c>>) /\ Append(a, c) \in Seq(S) /\ <<c>> \in Seq(S)
  BY CatFacts

\* A character appended to a concatenation is one appended to its second part.
LEMMA CatAppend ==
    ASSUME NEW S, NEW a \in Seq(S), NEW b \in Seq(S), NEW c \in S
    PROVE  Append(Cat(a, b), c) = Cat(a, Append(b, c))
  BY CatFacts

\* The text t with every character c replaced by f[c].
Mapped(f, t) == FlattenSeq([i \in DOMAIN t |-> f[t[i]]])

\* It is made character by character; t may also be a sequence of texts.
LEMMA MapAppendTo ==
    ASSUME NEW A, NEW B, NEW f \in [A -> Seq(B)]
    PROVE  /\ Mapped(f, <<>>) = <<>>
           /\ \A t \in Seq(A) : Mapped(f, t) \in Seq(B)
           /\ \A t \in Seq(A) : \A c \in A : Mapped(f, Append(t, c)) = Cat(Mapped(f, t), f[c])
<1> DEFINE M(t) == [i \in DOMAIN t |-> f[t[i]]]
<1>1. ASSUME NEW t \in Seq(A) PROVE M(t) \in Seq(Seq(B)) /\ Len(M(t)) = Len(t)
  <2>1. \A i \in 1..Len(t) : t[i] \in A
    BY ElementOfSeq
  <2>2. Len(t) \in Nat /\ DOMAIN t = 1..Len(t)
    BY LenProperties
  <2> QED
    BY <2>1, <2>2
<1>2. Mapped(f, <<>>) = <<>>
  <2>1. M(<<>>) = <<>>
    OBVIOUS
  <2> QED
    BY <2>1, FlattenAppend DEF Mapped
<1>3. ASSUME NEW t \in Seq(A), NEW c \in A PROVE M(Append(t, c)) = Append(M(t), f[c])
  <2> DEFINE u == Append(t, c)
             k == Len(t)
  <2>1. k \in Nat /\ u \in Seq(A) /\ Len(u) = k + 1 /\ u[k + 1] = c /\ \A n \in 1..k : u[n] = t[n]
    BY AppendProperties, LenProperties
  <2>2. M(t) \in Seq(Seq(B)) /\ Len(M(t)) = k /\ f[c] \in Seq(B) /\ \A n \in 1..k : M(t)[n] = f[t[n]]
    BY <1>1, LenProperties
  <2> DEFINE m == M(t)
             e == f[c]
             v == Append(m, e)
  <2>3. v \in Seq(Seq(B)) /\ Len(v) = k + 1 /\ v[k + 1] = f[c] /\ \A n \in 1..k : v[n] = m[n]
    <3>1. m \in Seq(Seq(B)) /\ Len(m) = k /\ e \in Seq(B)
      BY <2>2
    <3> HIDE DEF m, e, k
    <3>2. v \in Seq(Seq(B)) /\ Len(v) = Len(m) + 1 /\ v[Len(m) + 1] = e
          /\ \A n \in 1..Len(m) : v[n] = m[n]
      BY <3>1, AppendProperties
    <3>3. v[k + 1] = e
      BY <3>1, <3>2
    <3> QED
      BY <3>1, <3>2, <3>3 DEF e
  <2>4. M(u) \in Seq(Seq(B)) /\ Len(M(u)) = k + 1 /\ \A n \in 1..(k + 1) : M(u)[n] = f[u[n]]
    BY <1>1, <2>1, LenProperties
  <2>41. \A n \in 1..k : m[n] = f[t[n]]
    BY <2>2
  <2> HIDE DEF u, k, v, m, M
  <2>5. ASSUME NEW n \in 1..(k + 1) PROVE M(u)[n] = v[n]
    <3>1. CASE n = k + 1
      BY <2>1, <2>3, <2>4, <3>1
    <3>2. CASE n # k + 1
      <4>1. n \in 1..k
        BY <2>1, <3>2
      <4> QED
        <5>1. M(u)[n] = f[u[n]] /\ u[n] = t[n]
          BY <2>1, <2>4, <4>1
        <5>2. v[n] = m[n] /\ m[n] = f[t[n]]
          BY <2>3, <2>41, <4>1
        <5> QED
          BY <5>1, <5>2
    <3> QED
      BY <3>1, <3>2
  <2>6. M(u) = v
    BY <2>3, <2>4, <2>5, SeqEqual
  <2> QED
    BY <2>6 DEF u, v, m
<1>4. ASSUME NEW t \in Seq(A) PROVE Mapped(f, t) = FlattenSeq(M(t))
  BY DEF Mapped
<1> HIDE DEF M
<1>5. ASSUME NEW t \in Seq(A), NEW c \in A PROVE Mapped(f, Append(t, c)) = Cat(Mapped(f, t), f[c])
  <2>1. Append(t, c) \in Seq(A)
    BY AppendProperties
  <2>2. Mapped(f, Append(t, c)) = FlattenSeq(Append(M(t), f[c]))
    BY <1>3, <1>4, <2>1
  <2>3. M(t) \in Seq(Seq(B)) /\ f[c] \in Seq(B)
    BY <1>1
  <2>4. FlattenSeq(Append(M(t), f[c])) = Cat(FlattenSeq(M(t)), f[c])
    BY <2>3, FlattenAppend DEF Cat
  <2> QED
    BY <1>4, <2>2, <2>4
<1>6. ASSUME NEW t \in Seq(A) PROVE Mapped(f, t) \in Seq(B)
  BY <1>1, <1>4, FlattenAppend
<1> QED
  BY <1>2, <1>5, <1>6

\* The same, from characters to characters.
LEMMA MapAppend ==
    ASSUME NEW A, NEW f \in [A -> Seq(A)]
    PROVE  /\ Mapped(f, <<>>) = <<>>
           /\ \A t \in Seq(A) : Mapped(f, t) \in Seq(A)
           /\ \A t \in Seq(A) : \A c \in A : Mapped(f, Append(t, c)) = Cat(Mapped(f, t), f[c])
  BY MapAppendTo

\* Replacing in a concatenation.
LEMMA MapCat ==
    ASSUME NEW A, NEW f \in [A -> Seq(A)], NEW a \in Seq(A)
    PROVE  \A b \in Seq(A) : Mapped(f, Cat(a, b)) = Cat(Mapped(f, a), Mapped(f, b))
<1> DEFINE T == {b \in Seq(A) : Mapped(f, Cat(a, b)) = Cat(Mapped(f, a), Mapped(f, b))}
<1>1. <<>> \in T
  <2>1. <<>> \in Seq(A) /\ Mapped(f, a) \in Seq(A)
    BY MapAppend
  <2>2. Cat(a, <<>>) = a /\ Cat(Mapped(f, a), <<>>) = Mapped(f, a) /\ Mapped(f, <<>>) = <<>>
    BY <2>1, CatFacts, MapAppend
  <2> QED
    BY <2>1, <2>2
<1>2. ASSUME NEW b \in Seq(A), NEW c \in A, b \in T PROVE Append(b, c) \in T
  <2>1. /\ Mapped(f, a) \in Seq(A) /\ Mapped(f, b) \in Seq(A) /\ f[c] \in Seq(A)
        /\ Cat(a, b) \in Seq(A) /\ Append(b, c) \in Seq(A)
    BY MapAppend, CatFacts
  <2>2. Mapped(f, Cat(a, Append(b, c))) = Cat(Mapped(f, Cat(a, b)), f[c])
    <3>1. Cat(a, Append(b, c)) = Append(Cat(a, b), c)
      BY CatFacts
    <3> DEFINE d == Cat(a, b)
    <3>2. d \in Seq(A)
      BY <2>1
    <3> HIDE DEF d
    <3>3. Mapped(f, Append(d, c)) = Cat(Mapped(f, d), f[c])
      BY <3>2, MapAppend
    <3> QED
      BY <3>1, <3>3 DEF d
  <2>3. Mapped(f, Append(b, c)) = Cat(Mapped(f, b), f[c])
    BY MapAppend
  <2>4. Cat(Cat(Mapped(f, a), Mapped(f, b)), f[c]) = Cat(Mapped(f, a), Cat(Mapped(f, b), f[c]))
    BY <2>1, CatFacts
  <2> QED
    BY <1>2, <2>1, <2>2, <2>3, <2>4
<1>3. \A b \in Seq(A) : b \in T
  <2> HIDE DEF T
  <2> QED
    BY <1>1, <1>2, SeqSets
<1> QED
  BY <1>3

\* Replacing by h is replacing by f and then by g.
Composes(h, g, f, A) ==
    /\ f \in [A -> Seq(A)] /\ g \in [A -> Seq(A)] /\ h \in [A -> Seq(A)]
    /\ \A c \in A : h[c] = Mapped(g, f[c])

\* Replacing twice.
LEMMA MapMap ==
    ASSUME NEW A, NEW f, NEW g, NEW h, Composes(h, g, f, A), NEW s \in Seq(A)
    PROVE  Mapped(g, Mapped(f, s)) = Mapped(h, s)
<1>0. f \in [A -> Seq(A)] /\ g \in [A -> Seq(A)] /\ h \in [A -> Seq(A)]
  BY DEF Composes
<1> DEFINE T == {t \in Seq(A) : Mapped(g, Mapped(f, t)) = Mapped(h, t)}
<1>1. <<>> \in T
  <2>1. Mapped(f, <<>>) = <<>> /\ Mapped(g, <<>>) = <<>> /\ Mapped(h, <<>>) = <<>> /\ <<>> \in Seq(A)
    BY <1>0, MapAppend
  <2> QED
    BY <2>1
<1>2. ASSUME NEW t \in Seq(A), NEW c \in A, t \in T PROVE Append(t, c) \in T
  <2>1. Mapped(f, t) \in Seq(A) /\ f[c] \in Seq(A) /\ Append(t, c) \in Seq(A)
    BY <1>0, MapAppend, CatFacts
  <2>2. Mapped(f, Append(t, c)) = Cat(Mapped(f, t), f[c])
    BY <1>0, MapAppend
  <2>3. Mapped(h, Append(t, c)) = Cat(Mapped(h, t), h[c])
    BY <1>0, MapAppend
  <2>4. Mapped(g, Cat(Mapped(f, t), f[c])) = Cat(Mapped(g, Mapped(f, t)), Mapped(g, f[c]))
    <3> DEFINE a == Mapped(f, t)
               b == f[c]
    <3>1. a \in Seq(A) /\ b \in Seq(A)
      BY <2>1
    <3> HIDE DEF a, b
    <3>2. Mapped(g, Cat(a, b)) = Cat(Mapped(g, a), Mapped(g, b))
      BY <1>0, <3>1, MapCat
    <3> QED
      BY <3>2 DEF a, b
  <2> QED
    BY <1>2, <2>1, <2>2, <2>3, <2>4 DEF Composes
<1>3. \A t \in Seq(A) : t \in T
  <2> HIDE DEF T
  <2> QED
    BY <1>1, <1>2, SeqSets
<1> QED
  BY <1>3

\* A text of one character.
LEMMA MapOne ==
    ASSUME NEW A, NEW f \in [A -> Seq(A)], NEW c \in A
    PROVE  Mapped(f, <<c>>) = f[c]
<1>1. <<>> \in Seq(A) /\ Append(<<>>, c) = <<c>> /\ f[c] \in Seq(A)
  OBVIOUS
<1>2. Mapped(f, Append(<<>>, c)) = Cat(<<>>, f[c])
  BY <1>1, MapAppend
<1> QED
  BY <1>1, <1>2, CatFacts

\* A function that replaces no character of C.
Keeps(f, C) == \A c \in C : f[c] = <<c>>

\* Texts of such characters stay as they are.
LEMMA MapSame ==
    ASSUME NEW A, NEW f \in [A -> Seq(A)], NEW C \in SUBSET A, Keeps(f, C)
    PROVE  \A t \in Seq(C) : Mapped(f, t) = t
<1> DEFINE T == {t \in Seq(C) : Mapped(f, t) = t /\ t \in Seq(A)}
<1>1. <<>> \in T
  BY MapAppend
<1>2. ASSUME NEW t \in Seq(C), NEW c \in C, t \in T PROVE Append(t, c) \in T
  <2>1. t \in Seq(A) /\ c \in A /\ Mapped(f, t) = t /\ f[c] = <<c>>
    BY <1>2 DEF Keeps
  <2>2. Mapped(f, Append(t, c)) = Cat(t, <<c>>)
    BY <2>1, MapAppend
  <2>3. Append(t, c) = Cat(t, <<c>>) /\ Append(t, c) \in Seq(A)
    BY <2>1, AppendIsConcat, AppendProperties DEF Cat
  <2>4. Append(t, c) \in Seq(C)
    BY AppendProperties
  <2> QED
    BY <2>2, <2>3, <2>4
<1>3. \A t \in Seq(C) : t \in T
  <2> HIDE DEF T
  <2> QED
    BY <1>1, <1>2, SeqSets
<1> QED
  BY <1>3

-----------------------------------------------------------------------------
(***************************************************************************)
(* expandVars.                                                             *)
(***************************************************************************)

\* A text with none of the patterns of String.replace: a "$" and one of these.
Pair == {"$", "'"} \cup Variables
NoPattern(t) == \A i \in 1..(Len(t) - 1) : ~(t[i] = "$" /\ t[i + 1] \in Pair)

\* Such a text is put in as it is, whatever comes after the match.
LEMMA PatternLiteral ==
    ASSUME NEW S, "$" \in S, NEW after
    PROVE  \A t \in Seq(S) : NoPattern(t) => Pattern(t, after) = t
<1> DEFINE Good(t, r) ==
             \E out \in Seq(S) : \/ r = [out |-> out, dollar |-> FALSE] /\ t = out
                                 \/ r = [out |-> out, dollar |-> TRUE] /\ t = Append(out, "$")
           T == {t \in Seq(S) : NoPattern(t) => Good(t, PutAll(t, after))}
<1>1. <<>> \in T
  <2>1. PutAll(<<>>, after) = Nothing /\ <<>> \in Seq(S)
    BY PutAppend
  <2> QED
    BY <2>1 DEF Nothing
<1>2. ASSUME NEW t \in Seq(S), NEW c \in S, t \in T PROVE Append(t, c) \in T
  <2> DEFINE u == Append(t, c)
  <2>1. u \in Seq(S) /\ Len(u) = Len(t) + 1 /\ u[Len(t) + 1] = c /\ \A n \in 1..Len(t) : u[n] = t[n]
    BY AppendProperties
  <2> SUFFICES ASSUME NoPattern(u) PROVE Good(u, PutAll(u, after))
    BY <2>1
  <2>2. Len(t) \in Nat
    BY LenProperties
  <2> HIDE DEF u
  <2>3. NoPattern(t)
    <3> SUFFICES ASSUME NEW i \in 1..(Len(t) - 1), t[i] = "$", t[i + 1] \in Pair PROVE FALSE
      BY DEF NoPattern
    <3>1. i \in 1..(Len(u) - 1) /\ i \in 1..Len(t) /\ i + 1 \in 1..Len(t)
      BY <2>1, <2>2
    <3>2. u[i] = "$" /\ u[i + 1] \in Pair
      BY <2>1, <3>1
    <3> QED
      BY <3>1, <3>2 DEF NoPattern
  <2> DEFINE r == PutAll(t, after)
  <2>4. Good(t, r)
    BY <1>2, <2>3
  <2>5. PutAll(u, after) = Put(r, c, after)
    BY PutAppend DEF u
  <2> HIDE DEF r
  <2>6. PICK out \in Seq(S) : \/ r = [out |-> out, dollar |-> FALSE] /\ t = out
                              \/ r = [out |-> out, dollar |-> TRUE] /\ t = Append(out, "$")
    BY <2>4
  <2>7. CASE r = [out |-> out, dollar |-> FALSE] /\ t = out /\ c = "$"
    <3>1. Put(r, c, after) = [out |-> out, dollar |-> TRUE]
      BY <2>7 DEF Put
    <3> QED
      BY <2>5, <2>6, <2>7, <3>1 DEF u
  <2>8. CASE r = [out |-> out, dollar |-> FALSE] /\ t = out /\ c # "$"
    <3>1. Put(r, c, after) = [out |-> u, dollar |-> FALSE]
      BY <2>8 DEF Put, u
    <3> QED
      BY <2>1, <2>5, <3>1
  <2>9. CASE r = [out |-> out, dollar |-> TRUE] /\ t = Append(out, "$")
    <3>1. Len(t) = Len(out) + 1 /\ t[Len(out) + 1] = "$" /\ Len(out) \in Nat
      BY <2>9, AppendProperties, LenProperties
    <3>2. c \notin Pair
      <4>1. PICK k \in 1..(Len(u) - 1) : k = Len(t)
        BY <2>1, <2>2, <3>1
      <4>2. u[k] = "$"
        BY <2>1, <3>1, <4>1
      <4>3. u[k + 1] = c
        BY <2>1, <4>1
      <4> QED
        BY <4>1, <4>2, <4>3 DEF NoPattern
    <3>3. Put(r, c, after) = [out |-> Cat(out, <<"$", c>>), dollar |-> FALSE]
      BY <2>9, <3>2 DEF Put, Cat, Pair
    <3>4. Cat(out, <<"$", c>>) = u
      <4>1. <<"$", c>> = Append(<<"$">>, c) /\ <<"$">> \in Seq(S)
        OBVIOUS
      <4>2. Cat(out, Append(<<"$">>, c)) = Append(Cat(out, <<"$">>), c)
        <5> DEFINE d == <<"$">>
        <5>1. d \in Seq(S)
          BY <4>1
        <5> HIDE DEF d
        <5>2. Cat(out, Append(d, c)) = Append(Cat(out, d), c)
          BY <5>1, CatAppend
        <5> QED
          BY <5>2, Zenon DEF d
      <4>3. Cat(out, <<"$">>) = Append(out, "$")
        BY AppendCat
      <4> QED
        BY <2>9, <4>1, <4>2, <4>3 DEF u
    <3> QED
      BY <2>1, <2>5, <3>3, <3>4
  <2> QED
    BY <2>6, <2>7, <2>8, <2>9
<1>3. \A t \in Seq(S) : t \in T
  <2> HIDE DEF T
  <2> QED
    BY <1>1, <1>2, SeqSets
<1> QED
  BY <1>3 DEF Pattern

\* The replacement of the variables in W.
Only(W) == [c \in Letters |-> IF c \in W THEN value[c] ELSE <<c>>]

\* A text of some characters is a text of more of them.
LEMMA SeqMono ==
    ASSUME NEW C, NEW A, C \subseteq A
    PROVE  \A t \in Seq(C) : t \in Seq(A)
OBVIOUS

\* Only(W) gives texts, and leaves all characters alone but those in W.
LEMMA OnlyFacts ==
    ASSUME TypeOK, NEW W \in SUBSET Variables
    PROVE  /\ Only(W) \in [Letters -> Seq(Letters)]
           /\ \A c \in Letters : Only(W)[c] = IF c \in W THEN value[c] ELSE <<c>>
           /\ Keeps(Only(W), Letters \ W)
<1>1. ASSUME NEW c \in W PROVE value[c] \in Seq(Letters)
  BY DEF TypeOK
<1>2. ASSUME NEW c \in Letters PROVE <<c>> \in Seq(Letters)
  OBVIOUS
<1>3. Only(W) \in [Letters -> Seq(Letters)]
  BY <1>1, <1>2 DEF Only
<1>4. \A c \in Letters : Only(W)[c] = IF c \in W THEN value[c] ELSE <<c>>
  BY DEF Only
<1>5. Keeps(Only(W), Letters \ W)
  BY <1>4 DEF Keeps
<1> QED
  BY <1>3, <1>4, <1>5

\* One line of expandVars replaces one variable, if no folder has a pattern in its name.
LEMMA ReplacedOne ==
    ASSUME TypeOK, ~PatternInName, NEW v \in Variables, NEW t \in Seq(Letters)
    PROVE  Replaced(t, v) = Mapped(Only({v}), t)
<1>1. ASSUME NEW after, v # "env" PROVE Pattern(value[v], after) = value[v]
  <2>1. value[v] \in Seq(Letters) /\ "$" \in Letters
    BY DEF TypeOK, Letters, Chars
  <2>2. NoPattern(value[v])
    BY <1>1 DEF NoPattern, Pair, PatternInName, Variables
  <2> QED
    BY <2>1, <2>2, PatternLiteral
<1>2. ASSUME NEW i \in DOMAIN t
      PROVE  (CASE t[i] = v /\ v = "env" -> value[v]
                [] t[i] = v /\ v # "env" -> Pattern(value[v], SubSeq(t, i + 1, Len(t)))
                [] OTHER                 -> <<t[i]>>) = Only({v})[t[i]]
  <2>1. t[i] \in Letters
    BY ElementOfSeq, LenProperties
  <2>2. Only({v})[t[i]] = IF t[i] = v THEN value[v] ELSE <<t[i]>>
    <3> DEFINE W == {v}
    <3>1. W \in SUBSET Variables /\ \A c : c \in W <=> c = v
      OBVIOUS
    <3> HIDE DEF W
    <3>2. \A c \in Letters : Only(W)[c] = IF c \in W THEN value[c] ELSE <<c>>
      BY <3>1, OnlyFacts
    <3>3. Only(W)[t[i]] = IF t[i] = v THEN value[v] ELSE <<t[i]>>
      BY <2>1, <3>1, <3>2
    <3> QED
      BY <3>3 DEF W
  <2>3. v # "env" => Pattern(value[v], SubSeq(t, i + 1, Len(t))) = value[v]
    BY <1>1
  <2> QED
    BY <2>2, <2>3
<1>3. [i \in DOMAIN t |->
        CASE t[i] = v /\ v = "env" -> value[v]
          [] t[i] = v /\ v # "env" -> Pattern(value[v], SubSeq(t, i + 1, Len(t)))
          [] OTHER                 -> <<t[i]>>] = [i \in DOMAIN t |-> Only({v})[t[i]]]
  BY <1>2, Zenon
<1> QED
  BY <1>3, Zenon DEF Replaced, Mapped

\* The values of the variables in W have none of the variables in V.
Free(V, W) == \A c \in W : value[c] \in Seq(Letters \ V)

\* Replacing the variables in W and then those in V.
LEMMA OnlyTwice ==
    ASSUME TypeOK, NEW V \in SUBSET Variables, NEW W \in SUBSET Variables, Free(V, W),
           NEW t \in Seq(Letters)
    PROVE  Mapped(Only(V), Mapped(Only(W), t)) = Mapped(Only(V \cup W), t)
<1> DEFINE f == Only(W)
           g == Only(V)
           h == Only(V \cup W)
<1>1. V \cup W \in SUBSET Variables
  OBVIOUS
<1>2. /\ f \in [Letters -> Seq(Letters)] /\ g \in [Letters -> Seq(Letters)]
      /\ h \in [Letters -> Seq(Letters)]
  BY <1>1, OnlyFacts
<1>3. /\ \A c \in Letters : f[c] = IF c \in W THEN value[c] ELSE <<c>>
      /\ \A c \in Letters : g[c] = IF c \in V THEN value[c] ELSE <<c>>
      /\ \A c \in Letters : h[c] = IF c \in V \cup W THEN value[c] ELSE <<c>>
  BY <1>1, OnlyFacts
<1>4. Keeps(g, Letters \ V)
  BY OnlyFacts
<1> HIDE DEF f, g, h
<1>5. ASSUME NEW c \in Letters PROVE h[c] = Mapped(g, f[c])
  <2>1. CASE c \in W
    <3> DEFINE C == Letters \ V
    <3>1. value[c] \in Seq(C) /\ C \in SUBSET Letters /\ Keeps(g, C)
      BY <1>4, <2>1 DEF Free
    <3> HIDE DEF C
    <3>2. Mapped(g, value[c]) = value[c]
      BY <1>2, <3>1, MapSame
    <3> QED
      BY <1>3, <2>1, <3>2
  <2>2. CASE c \notin W
    <3>1. Mapped(g, <<c>>) = g[c]
      BY <1>2, MapOne
    <3> QED
      BY <1>3, <2>2, <3>1
  <2> QED
    BY <2>1, <2>2
<1>6. Composes(h, g, f, Letters)
  BY <1>2, <1>5 DEF Composes
<1>7. Mapped(g, Mapped(f, t)) = Mapped(h, t)
  BY <1>6, MapMap
<1> QED
  BY <1>7 DEF f, g, h

\* A text that has none of the characters in V is a text of the others.
LEMMA HasNone ==
    ASSUME NEW V, NEW t \in Seq(Letters), ~Has(t, V)
    PROVE  t \in Seq(Letters \ V)
<1>1. Len(t) \in Nat /\ DOMAIN t = 1..Len(t) /\ \A i \in 1..Len(t) : t[i] \in Letters
  BY LenProperties, ElementOfSeq
<1>2. \A i \in 1..Len(t) : t[i] \in Letters \ V
  BY <1>1 DEF Has
<1> QED
  BY <1>1, <1>2

\* Without a variable in a folder's name nothing that is put in is expanded again.
LEMMA NamesFree ==
    ASSUME TypeOK, ~VariableInName
    PROVE  Free({"dirname"}, {"folder"}) /\ Free({"env"}, {"dirname", "folder"})
<1>1. value["folder"] \in Seq(Letters) /\ value["dirname"] \in Seq(Letters)
  BY DEF TypeOK, Variables
<1>2. /\ ~Has(value["folder"], {"dirname"}) /\ ~Has(value["folder"], {"env"})
      /\ ~Has(value["dirname"], {"env"})
  BY DEF VariableInName, Has
<1>3. /\ value["folder"] \in Seq(Letters \ {"dirname"})
      /\ value["folder"] \in Seq(Letters \ {"env"})
      /\ value["dirname"] \in Seq(Letters \ {"env"})
  BY <1>1, <1>2, HasNone
<1> QED
  BY <1>3 DEF Free

\* Without a pattern or a variable in a folder's name expandVars gives what the settings ask for.
LEMMA Expanded ==
    ASSUME TypeOK, ~PatternInName, ~VariableInName, NEW t \in Seq(Letters)
    PROVE  ExpandVars(t) = Asked(t) /\ Asked(t) \in Seq(Letters)
<1> DEFINE a == Mapped(Only({"folder"}), t)
           b == Mapped(Only({"dirname"}), a)
           F == {"folder"}
           D == {"dirname"}
           E == {"env"}
<1>1. /\ F \in SUBSET Variables /\ D \in SUBSET Variables /\ E \in SUBSET Variables
      /\ D \cup F \in SUBSET Variables /\ E \cup (D \cup F) = Variables
      /\ "folder" \in Variables /\ "dirname" \in Variables /\ "env" \in Variables
  BY DEF Variables
<1>2. /\ Only(F) \in [Letters -> Seq(Letters)] /\ Only(D) \in [Letters -> Seq(Letters)]
      /\ Only(Variables) \in [Letters -> Seq(Letters)]
  <2>1. \A W \in SUBSET Variables : Only(W) \in [Letters -> Seq(Letters)]
    BY OnlyFacts
  <2> QED
    BY <1>1, <2>1
<1>3. a \in Seq(Letters)
  BY <1>2, MapAppend
<1>4. b \in Seq(Letters)
  <2> HIDE DEF a
  <2> QED
    BY <1>2, <1>3, MapAppend
<1>11. Free(D, F) /\ Free(E, D \cup F)
  <2>1. D \cup F = {"dirname", "folder"}
    OBVIOUS
  <2> QED
    BY <2>1, NamesFree
<1>5. b = Mapped(Only(D \cup F), t)
  BY <1>1, <1>11, OnlyTwice
<1>6. ExpandVars(t) = Mapped(Only(E), b)
  <2>1. Replaced(t, "folder") = a
    BY <1>1, ReplacedOne
  <2>2. Replaced(a, "dirname") = b
    <3> HIDE DEF a
    <3> QED
      BY <1>1, <1>3, ReplacedOne DEF b
  <2>3. Replaced(b, "env") = Mapped(Only(E), b)
    <3> HIDE DEF b
    <3> QED
      BY <1>1, <1>4, ReplacedOne
  <2> QED
    BY <2>1, <2>2, <2>3, Zenon DEF ExpandVars
<1>7. Mapped(Only(E), Mapped(Only(D \cup F), t)) = Mapped(Only(Variables), t)
  BY <1>1, <1>11, OnlyTwice
<1>8. Asked(t) = Mapped(Only(Variables), t)
  <2>1. ASSUME NEW i \in DOMAIN t
        PROVE  (IF t[i] \in Variables THEN value[t[i]] ELSE <<t[i]>>) = Only(Variables)[t[i]]
    <3>1. t[i] \in Letters
      BY ElementOfSeq, LenProperties
    <3> QED
      BY <3>1, OnlyFacts
  <2> QED
    BY <2>1, Zenon DEF Asked, Mapped
<1>9. Mapped(Only(Variables), t) \in Seq(Letters)
  BY <1>2, MapAppend
<1> QED
  BY <1>5, <1>6, <1>7, <1>8, <1>9, Zenon

-----------------------------------------------------------------------------
(***************************************************************************)
(* quoteArg, and the shell that reads what it gives.                       *)
(***************************************************************************)

\* A reader that was given nothing to act upon.
St(ws, w, b, in) == [words |-> ws, word |-> w, begun |-> b, in |-> in, acts |-> FALSE]

\* One character more, in each of the places it may be read at: the quote that opens,
LEMMA ReadOpen ==
    ASSUME NEW ws, NEW w, NEW b
    PROVE  Read(St(ws, w, b, "plain"), "'") = St(ws, w, TRUE, "quote")
  BY DEF Read, St, Variables

\* the quote that closes,
LEMMA ReadClose ==
    ASSUME NEW ws, NEW w, NEW b
    PROVE  Read(St(ws, w, b, "quote"), "'") = St(ws, w, b, "plain")
  BY DEF Read, St, Variables

\* any other character between the two,
LEMMA ReadInside ==
    ASSUME NEW ws, NEW w, NEW b, NEW c, c # "'"
    PROVE  Read(St(ws, w, b, "quote"), c) = St(ws, Append(w, c), TRUE, "quote")
  BY DEF Read, St, Variables

\* a backslash outside of quotes,
LEMMA ReadBackslash ==
    ASSUME NEW ws, NEW w, NEW b
    PROVE  Read(St(ws, w, b, "plain"), "\\") = St(ws, w, b, "escape")
  BY DEF Read, St, Variables

\* the character that follows it,
LEMMA ReadEscaped ==
    ASSUME NEW ws, NEW w, NEW b, NEW c
    PROVE  Read(St(ws, w, b, "escape"), c) = St(ws, Append(w, c), TRUE, "plain")
  BY DEF Read, St, Variables

\* the blank that ends a word,
LEMMA ReadBlank ==
    ASSUME NEW ws, NEW w
    PROVE  Read(St(ws, w, TRUE, "plain"), " ") = St(Append(ws, w), <<>>, FALSE, "plain")
  BY DEF Read, St, Variables

\* and a character that means nothing to the shell.
LEMMA ReadPlain ==
    ASSUME NEW ws, NEW w, NEW b, NEW c, c \notin Special
    PROVE  Read(St(ws, w, b, "plain"), c) = St(ws, Append(w, c), TRUE, "plain")
  BY DEF Read, St, Special, Variables

\* What the escaping in quoteArg makes of a character.
Esc == [c \in Letters |-> IF c = "'" THEN <<"'", "\\", "'", "'">> ELSE <<c>>]

\* Those texts are texts.
LEMMA EscType == Esc \in [Letters -> Seq(Letters)] /\ {"'", "\\", " "} \subseteq Letters
<1>1. {"'", "\\", " "} \subseteq Letters
  BY DEF Letters, Chars
<1>2. <<"'", "\\", "'", "'">> \in Seq(Letters)
  <2>1. ASSUME NEW q \in Letters, NEW e \in Letters PROVE <<q, e, q, q>> \in Seq(Letters)
    OBVIOUS
  <2> QED
    BY <1>1, <2>1
<1>3. \A c \in Letters : <<c>> \in Seq(Letters)
  OBVIOUS
<1>4. Esc \in [Letters -> Seq(Letters)]
  BY <1>2, <1>3 DEF Esc
<1> QED
  BY <1>1, <1>4

\* The text y leaves the shell inside '...', with the word t so far.
InQuote(y, ws, t) == ShellReads(y) = St(ws, t, TRUE, "quote")

\* Inside '...' an escaped character adds itself to the word.
LEMMA EscReads ==
    ASSUME NEW y \in Seq(Letters), NEW ws, NEW t, NEW c \in Letters, InQuote(y, ws, t)
    PROVE  InQuote(Cat(y, Esc[c]), ws, Append(t, c))
<1>0. ShellReads(y) = St(ws, t, TRUE, "quote")
  BY DEF InQuote
<1>1. {"'", "\\"} \subseteq Letters
  BY EscType
<1>2. CASE c # "'"
  <2>1. Cat(y, Esc[c]) = Append(y, c)
    <3>1. Esc[c] = <<c>>
      BY <1>2 DEF Esc
    <3> QED
      BY <3>1, AppendCat
  <2>2. ShellReads(Append(y, c)) = Read(ShellReads(y), c)
    BY ReadAppend
  <2>3. Read(St(ws, t, TRUE, "quote"), c) = St(ws, Append(t, c), TRUE, "quote")
    BY <1>2, ReadInside
  <2> QED
    BY <1>0, <2>1, <2>2, <2>3, Zenon DEF InQuote
<1>3. CASE c = "'"
  <2> DEFINE y1 == Append(y, "'")
             y2 == Append(y1, "\\")
             y3 == Append(y2, "'")
             y4 == Append(y3, "'")
  <2>1. y1 \in Seq(Letters)
    BY <1>1, AppendProperties
  <2>2. y2 \in Seq(Letters)
    BY <1>1, <2>1, AppendProperties
  <2>3. y3 \in Seq(Letters)
    BY <1>1, <2>2, AppendProperties
  <2>4. Cat(y, Esc[c]) = y4
    BY <1>1, <1>3 DEF Cat, Esc
  <2> HIDE DEF y4
  <2>5. ShellReads(y1) = St(ws, t, TRUE, "plain")
    <3>1. ShellReads(y1) = Read(ShellReads(y), "'")
      BY <1>1, ReadAppend
    <3> QED
      BY <1>0, <3>1, ReadClose
  <2> HIDE DEF y1
  <2>6. ShellReads(y2) = St(ws, t, TRUE, "escape")
    <3>1. ShellReads(y2) = Read(ShellReads(y1), "\\")
      BY <1>1, <2>1, ReadAppend
    <3> QED
      BY <2>5, <3>1, ReadBackslash
  <2> HIDE DEF y2
  <2>7. ShellReads(y3) = St(ws, Append(t, "'"), TRUE, "plain")
    <3>1. ShellReads(y3) = Read(ShellReads(y2), "'")
      BY <1>1, <2>2, ReadAppend
    <3> QED
      BY <2>6, <3>1, ReadEscaped
  <2> HIDE DEF y3
  <2>8. ShellReads(y4) = St(ws, Append(t, "'"), TRUE, "quote")
    <3>1. ShellReads(y4) = Read(ShellReads(y3), "'")
      BY <1>1, <2>3, ReadAppend DEF y4
    <3> QED
      BY <2>7, <3>1, ReadOpen
  <2> QED
    BY <1>3, <2>4, <2>8 DEF InQuote
<1> QED
  BY <1>2, <1>3

\* So does a whole text.
LEMMA QuotedReads ==
    ASSUME NEW x \in Seq(Letters), NEW ws, InQuote(x, ws, <<>>)
    PROVE  \A t \in Seq(Letters) : InQuote(Cat(x, Mapped(Esc, t)), ws, t)
<1> DEFINE T == {t \in Seq(Letters) : InQuote(Cat(x, Mapped(Esc, t)), ws, t)}
<1>1. <<>> \in T
  <2>1. Mapped(Esc, <<>>) = <<>> /\ <<>> \in Seq(Letters)
    BY DEF Mapped, FlattenSeq
  <2>2. Cat(x, <<>>) = x
    BY CatFacts
  <2> QED
    BY <2>1, <2>2
<1>2. ASSUME NEW t \in Seq(Letters), NEW c \in Letters, t \in T PROVE Append(t, c) \in T
  <2> DEFINE m == Mapped(Esc, t)
             e == Esc[c]
             y == Cat(x, m)
  <2>1. m \in Seq(Letters) /\ e \in Seq(Letters)
    BY MapAppend, EscType
  <2>2. Mapped(Esc, Append(t, c)) = Cat(m, e)
    BY MapAppend, EscType
  <2>3. InQuote(y, ws, t)
    BY <1>2
  <2> HIDE DEF m, e
  <2>4. Cat(x, Cat(m, e)) = Cat(y, e) /\ y \in Seq(Letters)
    BY <2>1, CatFacts
  <2> HIDE DEF y
  <2>5. InQuote(Cat(y, e), ws, Append(t, c))
    <3>1. InQuote(Cat(y, Esc[c]), ws, Append(t, c))
      BY <2>3, <2>4, EscReads
    <3> QED
      BY <3>1 DEF e
  <2>6. Append(t, c) \in Seq(Letters)
    BY AppendProperties
  <2> QED
    BY <2>2, <2>4, <2>5, <2>6
<1>3. \A t \in Seq(Letters) : t \in T
  <2> HIDE DEF T
  <2> QED
    BY <1>1, <1>2, SeqSets
<1> QED
  BY <1>3

\* A text with no special character is read as it is.
LEMMA UnquotedReads ==
    ASSUME NEW x \in Seq(Letters), NEW ws, ShellReads(x) = St(ws, <<>>, FALSE, "plain")
    PROVE  \A t \in Seq(Letters) :
             ~Has(t, Special) => ShellReads(Cat(x, t)) = St(ws, t, t # <<>>, "plain")
<1> DEFINE T == {t \in Seq(Letters) :
                   ~Has(t, Special) => ShellReads(Cat(x, t)) = St(ws, t, t # <<>>, "plain")}
<1>1. <<>> \in T
  <2>1. Cat(x, <<>>) = x /\ <<>> \in Seq(Letters)
    BY CatFacts
  <2> QED
    BY <2>1
<1>2. ASSUME NEW t \in Seq(Letters), NEW c \in Letters, t \in T PROVE Append(t, c) \in T
  <2> DEFINE u == Append(t, c)
             y == Cat(x, t)
  <2>1. u \in Seq(Letters) /\ Len(u) = Len(t) + 1 /\ u[Len(t) + 1] = c /\ \A n \in 1..Len(t) : u[n] = t[n]
    BY AppendProperties
  <2>2. Len(t) \in Nat /\ DOMAIN t = 1..Len(t) /\ DOMAIN u = 1..Len(u)
    BY <2>1, LenProperties
  <2>3. u # <<>>
    BY <2>1, <2>2
  <2> SUFFICES ASSUME ~Has(u, Special) PROVE ShellReads(Cat(x, u)) = St(ws, u, TRUE, "plain")
    BY <2>1, <2>3
  <2>4. c \notin Special /\ ~Has(t, Special)
    <3> HIDE DEF u
    <3>1. Len(t) + 1 \in DOMAIN u /\ \A n \in DOMAIN t : n \in DOMAIN u
      BY <2>1, <2>2
    <3> QED
      BY <2>1, <2>2, <3>1 DEF Has
  <2>5. ShellReads(y) = St(ws, t, t # <<>>, "plain")
    BY <1>2, <2>4
  <2>6. Cat(x, u) = Append(y, c) /\ y \in Seq(Letters)
    BY CatFacts
  <2> HIDE DEF y
  <2>7. ShellReads(Append(y, c)) = Read(ShellReads(y), c)
    BY <2>6, ReadAppend
  <2>8. ASSUME NEW b PROVE Read(St(ws, t, b, "plain"), c) = St(ws, u, TRUE, "plain")
    BY <2>4, ReadPlain, Zenon
  <2> QED
    BY <2>5, <2>6, <2>7, <2>8, Zenon
<1>3. \A t \in Seq(Letters) : t \in T
  <2> HIDE DEF T
  <2> QED
    BY <1>1, <1>2, SeqSets
<1> QED
  BY <1>3

\* Where a word may begin, the shell reads quoteArg's text as the one word it was made
\* from: quoted if it is empty or has a special character, and as it is otherwise.
LEMMA QuoteReads ==
    ASSUME NEW x \in Seq(Letters), NEW ws, ShellReads(x) = St(ws, <<>>, FALSE, "plain"),
           NEW t \in Seq(Letters)
    PROVE  QuoteArg(t) \in Seq(Letters) /\ ShellReads(Cat(x, QuoteArg(t))) = St(ws, t, TRUE, "plain")
<1>1. CASE t = <<>> \/ Has(t, Special)
  <2> DEFINE m == Mapped(Esc, t)
             y == Append(x, "'")
             z == Cat(y, m)
             q == "'"
  <2>1. QuoteArg(t) = Cat(Cat(<<q>>, m), <<q>>)
    <3>1. ASSUME NEW i \in DOMAIN t
          PROVE  (IF t[i] = "'" THEN <<"'", "\\", "'", "'">> ELSE <<t[i]>>) = Esc[t[i]]
      <4>1. t[i] \in Letters
        BY ElementOfSeq, LenProperties
      <4> QED
        BY <4>1 DEF Esc
    <3>2. [i \in DOMAIN t |-> IF t[i] = "'" THEN <<"'", "\\", "'", "'">> ELSE <<t[i]>>]
            = [i \in DOMAIN t |-> Esc[t[i]]]
      BY <3>1, Zenon
    <3> QED
      BY <1>1, <3>2, Zenon DEF QuoteArg, Mapped, Cat
  <2>2. q \in Letters /\ m \in Seq(Letters)
    BY EscType, MapAppend
  <2> HIDE DEF m, q
  <2>3. <<q>> \in Seq(Letters) /\ Cat(<<q>>, m) \in Seq(Letters)
    BY <2>2, CatFacts
  <2>4. Cat(Cat(<<q>>, m), <<q>>) \in Seq(Letters)
    BY <2>3, CatFacts
  <2>5. y = Cat(x, <<q>>) /\ y \in Seq(Letters)
    BY <2>2, AppendCat DEF q
  <2>6. ShellReads(y) = St(ws, <<>>, TRUE, "quote")
    <3>1. ShellReads(y) = Read(ShellReads(x), "'")
      BY <2>2, ReadAppend DEF q
    <3> QED
      BY <3>1, ReadOpen
  <2> HIDE DEF y
  <2>7. ShellReads(z) = St(ws, t, TRUE, "quote") /\ z \in Seq(Letters)
    <3>1. ShellReads(z) = St(ws, t, TRUE, "quote")
      BY <2>5, <2>6, QuotedReads DEF m, InQuote
    <3> QED
      BY <2>2, <2>5, <3>1, CatFacts
  <2>8. Cat(x, Cat(Cat(<<q>>, m), <<q>>)) = Append(z, q)
    <3> DEFINE v == <<q>>
               u == Cat(v, m)
    <3>1. v \in Seq(Letters) /\ u \in Seq(Letters)
      BY <2>3
    <3>2. Append(z, q) = Cat(z, v)
      <4> HIDE DEF z
      <4> QED
        BY <2>2, <2>7, AppendCat
    <3> HIDE DEF v
    <3>3. Cat(Cat(x, v), m) = Cat(x, u)
      BY <2>2, <3>1, CatFacts
    <3> HIDE DEF u
    <3>4. Cat(x, Cat(u, v)) = Cat(Cat(x, u), v)
      BY <3>1, CatFacts
    <3>5. Cat(x, u) = z
      BY <2>5, <3>3, Zenon DEF v
    <3> QED
      BY <3>2, <3>4, <3>5, Zenon DEF u, v
  <2> HIDE DEF z
  <2>9. ShellReads(Append(z, q)) = St(ws, t, TRUE, "plain")
    <3>1. ShellReads(Append(z, q)) = Read(ShellReads(z), "'")
      BY <2>2, <2>7, ReadAppend DEF q
    <3> QED
      BY <2>7, <3>1, ReadClose
  <2> QED
    BY <2>1, <2>4, <2>8, <2>9, Zenon
<1>2. CASE ~(t = <<>> \/ Has(t, Special))
  <2>1. QuoteArg(t) = t
    BY <1>2 DEF QuoteArg
  <2>2. ShellReads(Cat(x, t)) = St(ws, t, t # <<>>, "plain")
    BY <1>2, UnquotedReads
  <2> QED
    BY <1>2, <2>1, <2>2
<1> QED
  BY <1>1, <1>2

\* An argument as it is put behind the line, and the line with all of them.
Behind == [t \in Seq(Letters) |-> Cat(<<" ">>, QuoteArg(t))]
Line(s, a) == Cat(QuoteArg(s), Mapped(Behind, a))

\* The shell has read these words, the last of which may go on.
HasWords(y, words) ==
    \E ws, w : ShellReads(y) = St(ws, w, TRUE, "plain") /\ Append(ws, w) = words

\* From the empty text the shell reads nothing, and quoteArg gives texts.
LEMMA QuoteType ==
    /\ ShellReads(<<>>) = St(<<>>, <<>>, FALSE, "plain")
    /\ \A t \in Seq(Letters) : QuoteArg(t) \in Seq(Letters)
    /\ Behind \in [Seq(Letters) -> Seq(Letters)]
<1> DEFINE E == <<>>
<1>1. E \in Seq(Letters) /\ ShellReads(E) = St(<<>>, <<>>, FALSE, "plain") /\ " " \in Letters
  <2>1. ShellReads(E) = Blank
    BY ReadAppend
  <2>2. Blank = St(<<>>, <<>>, FALSE, "plain")
    BY Zenon DEF Blank, St
  <2>3. E \in Seq(Letters)
    OBVIOUS
  <2> QED
    BY <2>1, <2>2, <2>3, EscType, Zenon
<1>2. \A t \in Seq(Letters) : QuoteArg(t) \in Seq(Letters)
  <2> HIDE DEF E
  <2> QED
    BY <1>1, QuoteReads
<1>3. <<" ">> \in Seq(Letters)
  BY <1>1, CatFacts
<1>4. \A t \in Seq(Letters) : Cat(<<" ">>, QuoteArg(t)) \in Seq(Letters)
  BY <1>2, <1>3, CatFacts
<1> QED
  BY <1>1, <1>2, <1>4 DEF Behind

\* One argument more is one word more.
LEMMA OneMore ==
    ASSUME NEW y \in Seq(Letters), NEW words, HasWords(y, words), NEW t \in Seq(Letters)
    PROVE  HasWords(Cat(y, Behind[t]), Append(words, t))
<1> DEFINE b == " "
           z == Append(y, b)
           q == QuoteArg(t)
<1>1. b \in Letters /\ q \in Seq(Letters) /\ <<b>> \in Seq(Letters)
  BY EscType, QuoteType, CatFacts
<1>2. z = Cat(y, <<b>>) /\ z \in Seq(Letters)
  BY <1>1, AppendCat
<1>3. PICK ws, w : ShellReads(y) = St(ws, w, TRUE, "plain") /\ Append(ws, w) = words
  BY DEF HasWords
<1>4. ShellReads(z) = St(words, <<>>, FALSE, "plain")
  <2>1. ShellReads(z) = Read(ShellReads(y), b)
    BY <1>1, ReadAppend
  <2>2. Read(St(ws, w, TRUE, "plain"), " ") = St(Append(ws, w), <<>>, FALSE, "plain")
    BY ReadBlank
  <2> QED
    BY <1>3, <2>1, <2>2, Zenon
<1>5. Behind[t] = Cat(<<b>>, q)
  BY DEF Behind
<1> HIDE DEF z, b
<1>6. ShellReads(Cat(z, q)) = St(words, t, TRUE, "plain")
  BY <1>2, <1>4, QuoteReads
<1> HIDE DEF q
<1>7. Cat(y, Cat(<<b>>, q)) = Cat(z, q)
  <2> DEFINE v == <<b>>
  <2>1. v \in Seq(Letters) /\ z = Cat(y, v)
    BY <1>1, <1>2
  <2> HIDE DEF v
  <2>2. Cat(y, Cat(v, q)) = Cat(Cat(y, v), q)
    BY <1>1, <2>1, CatFacts
  <2> QED
    BY <2>1, <2>2, Zenon DEF v
<1> QED
  BY <1>5, <1>6, <1>7, Zenon DEF HasWords

\* The line of a script and its arguments has them as its words.
LEMMA LineReads ==
    ASSUME NEW s \in Seq(Letters)
    PROVE  \A a \in Seq(Seq(Letters)) :
             Line(s, a) \in Seq(Letters) /\ HasWords(Line(s, a), Cat(<<s>>, a))
<1> DEFINE L == Seq(Letters)
           p == QuoteArg(s)
           T == {a \in Seq(L) : Line(s, a) \in L /\ HasWords(Line(s, a), Cat(<<s>>, a))}
<1>1. p \in L /\ Behind \in [L -> Seq(Letters)] /\ <<s>> \in Seq(L)
  BY QuoteType
<1>2. <<>> \in T
  <2>1. Mapped(Behind, <<>>) = <<>> /\ Cat(p, <<>>) = p /\ Cat(<<s>>, <<>>) = <<s>> /\ <<>> \in Seq(L)
    <3>1. Mapped(Behind, <<>>) = <<>>
      BY <1>1, MapAppendTo
    <3> HIDE DEF p, L
    <3>2. Cat(<<s>>, <<>>) = <<s>>
      BY <1>1, CatFacts
    <3>3. Cat(p, <<>>) = p
      BY <1>1, CatFacts DEF L
    <3> QED
      BY <3>1, <3>2, <3>3
  <2>2. ShellReads(p) = St(<<>>, s, TRUE, "plain")
    <3> DEFINE E == <<>>
    <3>1. E \in Seq(Letters) /\ ShellReads(E) = St(<<>>, <<>>, FALSE, "plain") /\ Cat(E, p) = p
      <4>1. ShellReads(E) = St(<<>>, <<>>, FALSE, "plain")
        BY QuoteType
      <4> HIDE DEF p
      <4>2. Cat(E, p) = p /\ E \in Seq(Letters)
        BY <1>1, CatFacts
      <4> QED
        BY <4>1, <4>2
    <3> HIDE DEF E
    <3>2. ShellReads(Cat(E, QuoteArg(s))) = St(<<>>, s, TRUE, "plain")
      BY <3>1, QuoteReads
    <3> QED
      BY <3>1, <3>2, Zenon
  <2>3. Append(<<>>, s) = <<s>>
    OBVIOUS
  <2>4. HasWords(p, <<s>>)
    BY <2>2, <2>3, Zenon DEF HasWords
  <2> QED
    BY <1>1, <2>1, <2>4 DEF Line
<1>3. ASSUME NEW a \in Seq(L), NEW t \in L, a \in T PROVE Append(a, t) \in T
  <2> DEFINE y == Line(s, a)
             ma == Mapped(Behind, a)
             e == Behind[t]
  <2>1. ma \in Seq(Letters) /\ e \in Seq(Letters) /\ y \in Seq(Letters) /\ Append(a, t) \in Seq(L)
    <3>1. e \in Seq(Letters)
      BY <1>1
    <3>2. ma \in Seq(Letters)
      <4> HIDE DEF L
      <4> QED
        BY <1>1, MapAppendTo
    <3> QED
      BY <1>3, <3>1, <3>2, AppendProperties
  <2>2. Mapped(Behind, Append(a, t)) = Cat(ma, e)
    <3> HIDE DEF L
    <3>1. \A b \in Seq(L) : \A c \in L : Mapped(Behind, Append(b, c)) = Cat(Mapped(Behind, b), Behind[c])
      BY <1>1, MapAppendTo
    <3> QED
      BY <3>1
  <2>3. y = Cat(p, ma)
    BY DEF Line
  <2>4. HasWords(y, Cat(<<s>>, a))
    BY <1>3
  <2>5. HasWords(Cat(y, e), Append(Cat(<<s>>, a), t))
    <3> DEFINE w == Cat(<<s>>, a)
    <3> HIDE DEF y, w
    <3>1. HasWords(Cat(y, Behind[t]), Append(w, t))
      BY <2>1, <2>4, OneMore DEF w
    <3> QED
      BY <3>1 DEF w
  <2> HIDE DEF y, ma, e, p
  <2>6. Cat(p, Cat(ma, e)) = Cat(y, e) /\ Cat(y, e) \in Seq(Letters)
    BY <1>1, <2>1, <2>3, CatFacts
  <2>7. Append(Cat(<<s>>, a), t) = Cat(<<s>>, Append(a, t))
    <3> DEFINE d == <<s>>
    <3>1. d \in Seq(L)
      BY <1>1
    <3> HIDE DEF d, L
    <3>2. Append(Cat(d, a), t) = Cat(d, Append(a, t))
      BY <3>1, CatAppend
    <3> QED
      BY <3>2 DEF d
  <2>8. Line(s, Append(a, t)) = Cat(y, e)
    BY <2>2, <2>6, Zenon DEF Line, p
  <2> QED
    BY <2>1, <2>5, <2>6, <2>7, <2>8
<1>4. \A a \in Seq(L) : a \in T
  <2> HIDE DEF T, L
  <2> QED
    BY <1>2, <1>3, SeqSets
<1> QED
  BY <1>4

\* And the shell reads exactly these.
LEMMA LineYields ==
    ASSUME NEW s \in Seq(Letters), NEW a \in Seq(Seq(Letters))
    PROVE  Yields(Line(s, a), Cat(<<s>>, a))
<1> DEFINE z == Line(s, a)
           words == Cat(<<s>>, a)
<1>1. z \in Seq(Letters) /\ HasWords(z, words) /\ " " \in Letters
  BY LineReads, EscType
<1> HIDE DEF z, words
<1>2. PICK ws, w : ShellReads(z) = St(ws, w, TRUE, "plain") /\ Append(ws, w) = words
  BY <1>1 DEF HasWords
<1>3. ShellReads(Append(z, " ")) = St(words, <<>>, FALSE, "plain")
  <2>1. ShellReads(Append(z, " ")) = Read(ShellReads(z), " ")
    BY <1>1, ReadAppend
  <2>2. Read(St(ws, w, TRUE, "plain"), " ") = St(Append(ws, w), <<>>, FALSE, "plain")
    BY ReadBlank
  <2> QED
    BY <1>2, <2>1, <2>2, Zenon
<1>4. \A w1 : LET r == St(w1, <<>>, FALSE, "plain") IN r.words = w1 /\ r.in = "plain" /\ ~r.acts
  BY DEF St
<1>5. Yields(z, words)
  BY <1>3, <1>4, Zenon DEF Yields
<1> QED
  BY <1>5, Zenon DEF z, words

-----------------------------------------------------------------------------
(***************************************************************************)
(* The specification.                                                      *)
(***************************************************************************)

\* The settings and the values stay texts.
LEMMA Typed == Spec => []TypeOK
<1>1. Init => TypeOK
  <2> SUFFICES ASSUME Init PROVE TypeOK
    OBVIOUS
  <2>1. \A v \in Variables : value[v] \in Seq(Letters)
    BY CommandLineAssumption DEF Init
  <2>2. value \in [Variables -> Seq(Letters)]
    BY <2>1 DEF Init
  <2> QED
    BY <2>2 DEF Init, TypeOK
<1>2. TypeOK /\ [Next]_vars => TypeOK'
  <2> SUFFICES ASSUME TypeOK, [Next]_vars PROVE TypeOK'
    OBVIOUS
  <2>1. ASSUME NEW ch \in Letters, TypeScript(ch) PROVE TypeOK'
    <3>1. Append(script, ch) \in Seq(Letters)
      BY AppendProperties DEF TypeOK
    <3> QED
      BY <2>1, <3>1 DEF TypeScript, TypeOK
  <2>2. ASSUME NEW ch \in Letters, TypeArg(ch) PROVE TypeOK'
    <3> DEFINE n == Len(args)
    <3>1. args \in Seq(Seq(Letters)) /\ n \in Nat /\ n # 0
      BY <2>2, EmptySeq, LenProperties DEF TypeArg, TypeOK
    <3>2. args[n] \in Seq(Letters)
      BY <3>1, ElementOfSeq
    <3>3. Append(args[n], ch) \in Seq(Letters)
      BY <3>2, AppendProperties
    <3>4. [args EXCEPT ![n] = Append(@, ch)] \in Seq(Seq(Letters))
      BY <3>1, <3>3
    <3> QED
      BY <2>2, <3>4 DEF TypeArg, TypeOK
  <2>3. ASSUME AddArg PROVE TypeOK'
    <3>1. <<>> \in Seq(Letters)
      OBVIOUS
    <3>2. Append(args, <<>>) \in Seq(Seq(Letters))
      BY <3>1, AppendProperties DEF TypeOK
    <3> QED
      BY <2>3, <3>2 DEF AddArg, TypeOK
  <2>4. CASE UNCHANGED vars
    BY <2>4 DEF vars, TypeOK
  <2> QED
    BY <2>1, <2>2, <2>3, <2>4 DEF Next
<1> QED
  BY <1>1, <1>2, PTL DEF Spec

\* A script that is taken for a path, and each of its arguments, reach the shell as one
\* word each, in their order (lines 67-72 of extension.ts): for settings of every length,
\* any number of arguments and all values of the variables, those with variables in them
\* too, unless a folder has a pattern of String.replace in its name or a variable that a
\* later replace looks for.
THEOREM PathAndArgArriveHolds == Spec => []PathAndArgArrive
<1>1. TypeOK => PathAndArgArrive
  <2> SUFFICES ASSUME TypeOK, IsPath(Asked(script)), ~PatternInName, ~VariableInName
               PROVE  Yields(TypedLine, <<Asked(script)>> \o [i \in DOMAIN args |-> Asked(args[i])])
    BY DEF PathAndArgArrive
  <2> DEFINE s == Asked(script)
             a == [i \in DOMAIN args |-> Asked(args[i])]
  <2>1. script \in Seq(Letters) /\ args \in Seq(Seq(Letters))
    BY DEF TypeOK
  <2>2. ExpandVars(script) = s /\ s \in Seq(Letters)
    BY <2>1, Expanded
  <2>3. ASSUME NEW i \in DOMAIN args
        PROVE  ExpandVars(args[i]) = Asked(args[i]) /\ Asked(args[i]) \in Seq(Letters)
    <3>1. args[i] \in Seq(Letters)
      BY <2>1, ElementOfSeq, LenProperties
    <3> QED
      BY <3>1, Expanded
  <2>4. a \in Seq(Seq(Letters)) /\ DOMAIN a = DOMAIN args
    <3>1. Len(args) \in Nat /\ DOMAIN args = 1..Len(args)
      BY <2>1, LenProperties
    <3> QED
      BY <2>3, <3>1
  <2>5. [i \in DOMAIN args |-> Cat(<<" ">>, QuoteArg(ExpandVars(args[i])))]
          = [i \in DOMAIN a |-> Behind[a[i]]]
    <3>1. ASSUME NEW i \in DOMAIN args
          PROVE  Cat(<<" ">>, QuoteArg(ExpandVars(args[i]))) = Behind[a[i]]
      <4>1. a[i] = Asked(args[i])
        OBVIOUS
      <4>2. Behind[Asked(args[i])] = Cat(<<" ">>, QuoteArg(Asked(args[i])))
        BY <2>3 DEF Behind
      <4> QED
        BY <2>3, <4>1, <4>2
    <3> HIDE DEF a
    <3> QED
      BY <2>4, <3>1, Zenon
  <2>6. TypedLine = Line(s, a)
    <3>1. ScriptToken(ExpandVars(script)) = QuoteArg(s)
      BY <2>2, Zenon DEF ScriptToken
    <3> HIDE DEF a, s
    <3> QED
      BY <2>5, <3>1, Zenon DEF TypedLine, Line, Mapped, Cat
  <2> HIDE DEF s, a
  <2>7. Yields(Line(s, a), Cat(<<s>>, a))
    BY <2>2, <2>4, LineYields
  <2> QED
    BY <2>6, <2>7, Zenon DEF s, a, Cat
<1> QED
  BY <1>1, Typed, PTL

=============================================================================
