------------------------------- MODULE BootProofs -------------------------------
(***************************************************************************)
(* Boot for every script, page, set of managers and tasks and every bound. *)
(***************************************************************************)
EXTENDS Boot, SequenceTheorems, WellFoundedInduction, TLAPS

(***************************************************************************)
(* Induction over numbers and over sequences, in terms of sets.            *)
(***************************************************************************)
LEMMA Induction ==
    ASSUME NEW T, 0 \in T, \A n \in Nat : n \in T => n + 1 \in T
    PROVE  Nat \subseteq T
<1> DEFINE Bad == Nat \ T
<1> SUFFICES ASSUME Bad # {} PROVE FALSE
  OBVIOUS
<1>1. PICK n \in Bad : \A m \in Bad : <<m, n>> \notin OpToRel(<, Nat)
  <2>1. Bad \subseteq Nat
    OBVIOUS
  <2> HIDE DEF Bad
  <2> QED
    BY <2>1, NatLessThanWellFounded, WFMin
<1>2. n # 0 /\ n - 1 \in Nat /\ n - 1 < n /\ n = (n - 1) + 1
  <2>1. n \in Nat /\ n # 0
    OBVIOUS
  <2> QED
    BY <2>1
<1>3. \A m \in Bad : <<m, n>> \in OpToRel(<, Nat) <=> m < n
  BY DEF OpToRel
<1>4. \A m \in Bad : ~(m < n)
  BY <1>1, <1>3
<1>5. n - 1 \in T
  BY <1>2, <1>4
<1> QED
  BY <1>2, <1>5

\* What holds of the empty sequence, and of one more element, holds of every sequence.
LEMMA SeqInduction ==
    ASSUME NEW S, NEW T, <<>> \in T,
           \A s \in Seq(S), e \in S : s \in T => Append(s, e) \in T
    PROVE  Seq(S) \subseteq T
<1> DEFINE N == {n \in Nat : \A s \in Seq(S) : Len(s) = n => s \in T}
<1>1. 0 \in N
  <2>1. \A s \in Seq(S) : Len(s) = 0 => s = <<>>
    OBVIOUS
  <2> QED
    BY <2>1
<1>2. ASSUME NEW n \in Nat, n \in N PROVE n + 1 \in N
  <2> SUFFICES ASSUME NEW s \in Seq(S), Len(s) = n + 1 PROVE s \in T
    OBVIOUS
  <2> DEFINE r == SubSeq(s, 1, n)
  <2>1. r \in Seq(S) /\ Len(r) = n /\ s[n + 1] \in S
    OBVIOUS
  <2>2. s = Append(r, s[n + 1])
    <3>1. Append(r, s[n + 1]) \in Seq(S) /\ Len(Append(r, s[n + 1])) = n + 1
      BY <2>1
    <3>2. \A i \in 1..n + 1 : s[i] = Append(r, s[n + 1])[i]
      BY <2>1
    <3> HIDE DEF r
    <3> QED
      BY <3>1, <3>2
  <2>3. r \in T
    BY <1>2, <2>1
  <2> HIDE DEF r
  <2> QED
    BY <2>1, <2>2, <2>3
<1>3. Nat \subseteq N
  <2> HIDE DEF N
  <2> QED
    BY <1>1, <1>2, Induction
<1> QED
  BY <1>3

(***************************************************************************)
(* Without, and the lines of a script.                                     *)
(***************************************************************************)
\* The recursion of Without.
IsKept(f, x, seq) ==
    f = [i \in 0..Len(seq) |->
            IF i = 0 THEN <<>>
            ELSE IF seq[i] = x THEN f[i - 1]
            ELSE Append(f[i - 1], seq[i])]

\* What is kept of a beginning depends on that beginning alone.
LEMMA KeptUnique ==
    ASSUME NEW S, NEW x, NEW seq \in Seq(S), NEW n \in Nat, n <= Len(seq),
           NEW more \in Seq(S), n <= Len(more), \A i \in 1..n : seq[i] = more[i],
           NEW f, IsKept(f, x, seq), NEW g, IsKept(g, x, more)
    PROVE  f[n] = g[n]
<1> DEFINE T == {i \in Nat : i <= n => f[i] = g[i]}
<1>1. f[0] = <<>> /\ g[0] = <<>>
  BY DEF IsKept
<1>2. ASSUME NEW i \in Nat, i \in T PROVE i + 1 \in T
  <2> SUFFICES ASSUME i + 1 <= n PROVE f[i + 1] = g[i + 1]
    OBVIOUS
  <2>1. PICK j : /\ j = i + 1 /\ j \in 1..n /\ j - 1 = i /\ j # 0
                 /\ j \in 0..Len(seq) /\ j \in 0..Len(more)
    OBVIOUS
  <2>2. f[j] = IF seq[j] = x THEN f[j - 1] ELSE Append(f[j - 1], seq[j])
    BY <2>1, Zenon DEF IsKept
  <2>3. g[j] = IF more[j] = x THEN g[j - 1] ELSE Append(g[j - 1], more[j])
    BY <2>1, Zenon DEF IsKept
  <2> QED
    BY <1>2, <2>1, <2>2, <2>3
<1>3. Nat \subseteq T
  <2>1. 0 \in T
    BY <1>1
  <2> HIDE DEF T
  <2> QED
    BY <1>2, <2>1, Induction
<1> QED
  BY <1>3

\* The recursion of Without defines a function.
LEMMA KeptExists ==
    ASSUME NEW S, NEW x, NEW seq \in Seq(S)
    PROVE  \E f : IsKept(f, x, seq)
<1> DEFINE T == {s \in Seq(S) : \E f : IsKept(f, x, s)}
<1>1. <<>> \in T
  <2> DEFINE f == [i \in 0..0 |-> <<>>]
  <2>1. IsKept(f, x, <<>>)
    BY DEF IsKept
  <2> QED
    BY <2>1
<1>2. ASSUME NEW s \in Seq(S), NEW e \in S, s \in T PROVE Append(s, e) \in T
  <2>1. PICK g : IsKept(g, x, s)
    BY <1>2
  <2>2. PICK a : a = Append(s, e)
    OBVIOUS
  <2>3. PICK n \in Nat : n = Len(s)
    OBVIOUS
  <2>4. a \in Seq(S) /\ Len(a) = n + 1 /\ a[n + 1] = e /\ \A i \in 1..n : a[i] = s[i]
    BY <2>2, <2>3
  <2> DEFINE f == [i \in 0..n + 1 |-> IF i <= n THEN g[i]
                                      ELSE IF e = x THEN g[n] ELSE Append(g[n], e)]
  <2>5. ASSUME NEW i \in 0..n + 1
        PROVE  f[i] = IF i = 0 THEN <<>>
                      ELSE IF a[i] = x THEN f[i - 1]
                      ELSE Append(f[i - 1], a[i])
    <3>1. CASE i = n + 1
      BY <2>3, <2>4, <3>1
    <3>2. CASE i <= n
      <4>1. f[i] = g[i] /\ (i # 0 => f[i - 1] = g[i - 1] /\ a[i] = s[i])
        BY <2>3, <2>4, <3>2
      <4>2. g[i] = IF i = 0 THEN <<>>
                   ELSE IF s[i] = x THEN g[i - 1]
                   ELSE Append(g[i - 1], s[i])
        <5>1. i \in 0..Len(s)
          BY <2>3, <3>2
        <5> HIDE DEF f
        <5> QED
          BY <2>1, <5>1, Zenon DEF IsKept
      <4> HIDE DEF f
      <4> QED
        BY <4>1, <4>2
    <3> QED
      BY <3>1, <3>2
  <2>6. f = [i \in 0..n + 1 |-> f[i]]
    OBVIOUS
  <2>7. IsKept(f, x, a)
    <3> HIDE DEF f
    <3> QED
      BY <2>4, <2>5, <2>6 DEF IsKept
  <2> HIDE DEF f
  <2> QED
    BY <2>2, <2>4, <2>7
<1> HIDE DEF T
<1>3. Seq(S) \subseteq T
  BY <1>1, <1>2, SeqInduction
<1> QED
  BY <1>3 DEF T

\* Without is the last value of its recursion.
LEMMA KeptLast ==
    ASSUME NEW S, NEW x, NEW s \in Seq(S)
    PROVE  \E f : IsKept(f, x, s) /\ Without(x, s) = f[Len(s)]
<1>1. PICK f : f = (CHOOSE g : IsKept(g, x, s)) /\ IsKept(f, x, s)
  BY KeptExists
<1>2. Without(x, s) = f[Len(s)]
  BY <1>1 DEF Without, IsKept
<1> QED
  BY <1>1, <1>2

\* Nothing remains of nothing.
LEMMA WithoutEmpty ==
    ASSUME NEW x
    PROVE  Without(x, <<>>) = <<>>
<1>1. <<>> \in Seq({})
  OBVIOUS
<1>2. PICK f : IsKept(f, x, <<>>) /\ Without(x, <<>>) = f[Len(<<>>)]
  BY <1>1, KeptLast
<1>3. Len(<<>>) = 0 /\ 0 \in 0..Len(<<>>)
  OBVIOUS
<1> QED
  BY <1>2, <1>3, Zenon DEF IsKept

\* What Without does to one more element.
LEMMA WithoutAppend ==
    ASSUME NEW S, NEW x, NEW s \in Seq(S), NEW e \in S
    PROVE  Without(x, Append(s, e)) =
              IF e = x THEN Without(x, s) ELSE Append(Without(x, s), e)
<1>1. PICK a : a = Append(s, e)
  OBVIOUS
<1>2. PICK n \in Nat : n = Len(s)
  OBVIOUS
<1>3. a \in Seq(S) /\ Len(a) = n + 1 /\ a[n + 1] = e /\ \A i \in 1..n : a[i] = s[i]
  BY <1>1, <1>2
<1>4. PICK f : IsKept(f, x, s) /\ Without(x, s) = f[n]
  BY <1>2, KeptLast
<1>5. PICK g : IsKept(g, x, a) /\ Without(x, a) = g[n + 1]
  BY <1>3, KeptLast
<1>6. f[n] = g[n]
  <2>1. n <= Len(s) /\ n <= Len(a) /\ \A i \in 1..n : s[i] = a[i]
    BY <1>2, <1>3
  <2> QED
    BY <1>3, <1>4, <1>5, <2>1, KeptUnique
<1>7. g[n + 1] = IF a[n + 1] = x THEN g[n] ELSE Append(g[n], a[n + 1])
  <2>1. PICK j : j = n + 1 /\ j \in 0..Len(a) /\ j # 0 /\ j - 1 = n
    BY <1>3
  <2>2. g[j] = IF a[j] = x THEN g[j - 1] ELSE Append(g[j - 1], a[j])
    BY <1>5, <2>1, Zenon DEF IsKept
  <2> QED
    BY <2>1, <2>2
<1> QED
  BY <1>1, <1>3, <1>4, <1>5, <1>6, <1>7

\* It leaves the others, and a sequence without x as it is.
LEMMA WithoutTyped ==
    ASSUME NEW S, NEW x, NEW s \in Seq(S)
    PROVE  Without(x, s) \in Seq(S \ {x})
<1> DEFINE T == {r \in Seq(S) : Without(x, r) \in Seq(S \ {x})}
<1>1. <<>> \in T
  <2>1. Without(x, <<>>) = <<>>
    BY WithoutEmpty
  <2>2. <<>> \in Seq(S) /\ <<>> \in Seq(S \ {x})
    OBVIOUS
  <2> QED
    BY <2>1, <2>2
<1>2. ASSUME NEW r \in Seq(S), NEW e \in S, r \in T PROVE Append(r, e) \in T
  <2>1. Without(x, Append(r, e)) =
           IF e = x THEN Without(x, r) ELSE Append(Without(x, r), e)
    BY WithoutAppend
  <2>2. PICK w \in Seq(S \ {x}) : w = Without(x, r)
    BY <1>2
  <2>3. e # x => Append(w, e) \in Seq(S \ {x})
    BY <2>2
  <2>4. Without(x, Append(r, e)) \in Seq(S \ {x})
    BY <2>1, <2>2, <2>3
  <2> QED
    BY <2>4
<1> HIDE DEF T
<1>3. Seq(S) \subseteq T
  BY <1>1, <1>2, SeqInduction
<1> QED
  BY <1>3 DEF T

\* A sequence without the element is kept whole.
LEMMA WithoutNone ==
    ASSUME NEW S, NEW x, x \notin S, NEW s \in Seq(S)
    PROVE  Without(x, s) = s
<1> DEFINE T == {r \in Seq(S) : Without(x, r) = r}
<1>1. <<>> \in T
  <2>1. Without(x, <<>>) = <<>>
    BY WithoutEmpty
  <2> QED
    BY <2>1
<1>2. ASSUME NEW r \in Seq(S), NEW e \in S, r \in T PROVE Append(r, e) \in T
  <2>1. Without(x, Append(r, e)) =
           IF e = x THEN Without(x, r) ELSE Append(Without(x, r), e)
    BY WithoutAppend
  <2> QED
    BY <1>2, <2>1
<1> HIDE DEF T
<1>3. Seq(S) \subseteq T
  BY <1>1, <1>2, SeqInduction
<1> QED
  BY <1>3 DEF T

\* What is posted reads as the lines it was made from.
LEMMA RenderedReads ==
    ASSUME NEW text \in Seq(Lines)
    PROVE  /\ normalise(text) \in Seq(Lines \ {Blank})
           /\ render(normalise(text)) \in Seq(Lines)
           /\ normalise(render(normalise(text))) = normalise(text)
<1>1. Blank \in Lines
  BY LoaderAssumption
<1>2. PICK lines \in Seq(Lines \ {Blank}) : lines = normalise(text)
  BY WithoutTyped DEF normalise
<1>3. lines \in Seq(Lines) /\ Without(Blank, lines) = lines
  BY <1>2, WithoutNone
<1>4. Without(Blank, Append(lines, Blank)) = lines
  BY <1>1, <1>3, WithoutAppend
<1> QED
  BY <1>1, <1>2, <1>3, <1>4 DEF normalise, render

(***************************************************************************)
(* FlattenSeq.                                                             *)
(***************************************************************************)
\* The recursion of FlattenSeq.
IsFlat(f, ss) ==
    f = [i \in 1..Len(ss) |-> IF i = 1 THEN ss[i] ELSE f[i - 1] \o ss[i]]

\* What is flattened of a beginning depends on that beginning alone.
LEMMA FlatUnique ==
    ASSUME NEW S, NEW ss \in Seq(S), NEW n \in Nat, n <= Len(ss),
           NEW more \in Seq(S), n <= Len(more), \A i \in 1..n : ss[i] = more[i],
           NEW f, IsFlat(f, ss), NEW g, IsFlat(g, more)
    PROVE  \A i \in 1..n : f[i] = g[i]
<1> DEFINE T == {i \in Nat : i \in 1..n => f[i] = g[i]}
<1>1. 0 \in T
  OBVIOUS
<1>2. ASSUME NEW i \in Nat, i \in T PROVE i + 1 \in T
  <2> SUFFICES ASSUME i + 1 <= n PROVE f[i + 1] = g[i + 1]
    OBVIOUS
  <2>1. PICK j : /\ j = i + 1 /\ j \in 1..n /\ j - 1 = i
                 /\ j \in 1..Len(ss) /\ j \in 1..Len(more)
    OBVIOUS
  <2>2. f[j] = IF j = 1 THEN ss[j] ELSE f[j - 1] \o ss[j]
    BY <2>1, Zenon DEF IsFlat
  <2>3. g[j] = IF j = 1 THEN more[j] ELSE g[j - 1] \o more[j]
    BY <2>1, Zenon DEF IsFlat
  <2>4. j # 1 => f[i] = g[i]
    BY <1>2, <2>1
  <2> QED
    BY <2>1, <2>2, <2>3, <2>4
<1>3. Nat \subseteq T
  <2> HIDE DEF T
  <2> QED
    BY <1>1, <1>2, Induction
<1> QED
  BY <1>3

\* The recursion of FlattenSeq defines a function.
LEMMA FlatExists ==
    ASSUME NEW S, NEW ss \in Seq(S)
    PROVE  \E f : IsFlat(f, ss)
<1> DEFINE T == {s \in Seq(S) : \E f : IsFlat(f, s)}
<1>1. <<>> \in T
  <2> DEFINE f == [i \in 1..0 |-> <<>>]
  <2>1. IsFlat(f, <<>>)
    BY DEF IsFlat
  <2> QED
    BY <2>1
<1>2. ASSUME NEW s \in Seq(S), NEW e \in S, s \in T PROVE Append(s, e) \in T
  <2>1. PICK g : IsFlat(g, s)
    BY <1>2
  <2>2. PICK a : a = Append(s, e)
    OBVIOUS
  <2>3. PICK n \in Nat : n = Len(s)
    OBVIOUS
  <2>4. a \in Seq(S) /\ Len(a) = n + 1 /\ a[n + 1] = e /\ \A i \in 1..n : a[i] = s[i]
    BY <2>2, <2>3
  <2> DEFINE f == [i \in 1..n + 1 |-> IF i <= n THEN g[i]
                                      ELSE IF i = 1 THEN e ELSE g[n] \o e]
  <2>5. ASSUME NEW i \in 1..n + 1
        PROVE  f[i] = IF i = 1 THEN a[i] ELSE f[i - 1] \o a[i]
    <3>1. CASE i = n + 1
      BY <2>3, <2>4, <3>1
    <3>2. CASE i <= n
      <4>1. f[i] = g[i] /\ (i # 1 => f[i - 1] = g[i - 1]) /\ a[i] = s[i]
        BY <2>3, <2>4, <3>2
      <4>2. g[i] = IF i = 1 THEN s[i] ELSE g[i - 1] \o s[i]
        <5>1. i \in 1..Len(s)
          BY <2>3, <3>2
        <5> HIDE DEF f
        <5> QED
          BY <2>1, <5>1, Zenon DEF IsFlat
      <4> HIDE DEF f
      <4> QED
        BY <4>1, <4>2
    <3> QED
      BY <3>1, <3>2
  <2>6. f = [i \in 1..n + 1 |-> f[i]]
    OBVIOUS
  <2>7. IsFlat(f, a)
    <3> HIDE DEF f
    <3> QED
      BY <2>4, <2>5, <2>6 DEF IsFlat
  <2> HIDE DEF f
  <2> QED
    BY <2>2, <2>4, <2>7
<1> HIDE DEF T
<1>3. Seq(S) \subseteq T
  BY <1>1, <1>2, SeqInduction
<1> QED
  BY <1>3 DEF T

\* FlattenSeq is the last value of its recursion.
LEMMA FlatLast ==
    ASSUME NEW S, NEW ss \in Seq(S), ss # <<>>
    PROVE  \E f : IsFlat(f, ss) /\ FlattenSeq(ss) = f[Len(ss)]
<1>1. PICK f : f = (CHOOSE g : IsFlat(g, ss)) /\ IsFlat(f, ss)
  BY FlatExists
<1>2. Len(ss) # 0
  OBVIOUS
<1>3. FlattenSeq(ss) = f[Len(ss)]
  BY <1>1, <1>2 DEF FlattenSeq, IsFlat
<1> QED
  BY <1>1, <1>3

\* What FlattenSeq does to one more sequence.
LEMMA FlattenEmpty == FlattenSeq(<<>>) = <<>>
<1>1. Len(<<>>) = 0
  OBVIOUS
<1> QED
  BY <1>1 DEF FlattenSeq

\* One more sequence is put at the end.
LEMMA FlattenOneMore ==
    ASSUME NEW R, NEW ss \in Seq(R), NEW s \in R
    PROVE  FlattenSeq(Append(ss, s)) = IF ss = <<>> THEN s ELSE FlattenSeq(ss) \o s
<1>1. PICK a : a = Append(ss, s)
  OBVIOUS
<1>2. PICK n \in Nat : n = Len(ss)
  OBVIOUS
<1>3. /\ a \in Seq(R) /\ Len(a) = n + 1 /\ a[n + 1] = s /\ a # <<>>
      /\ \A i \in 1..n : a[i] = ss[i]
  BY <1>1, <1>2
<1>4. PICK g : IsFlat(g, a) /\ FlattenSeq(a) = g[n + 1]
  BY <1>3, FlatLast
<1>5. PICK j : j = n + 1 /\ j \in 1..Len(a) /\ j - 1 = n
  BY <1>3
<1>6. g[j] = IF j = 1 THEN a[j] ELSE g[j - 1] \o a[j]
  BY <1>4, <1>5, Zenon DEF IsFlat
<1>7. CASE n = 0
  <2>1. ss = <<>>
    <3>1. \A q \in Seq(R) : Len(q) = 0 => q = <<>>
      OBVIOUS
    <3> QED
      BY <1>2, <1>7, <3>1
  <2> QED
    BY <1>1, <1>3, <1>4, <1>5, <1>6, <1>7, <2>1
<1>8. CASE n # 0
  <2>1. ss # <<>>
    BY <1>2, <1>8
  <2>2. PICK f : IsFlat(f, ss) /\ FlattenSeq(ss) = f[n]
    BY <1>2, <2>1, FlatLast
  <2>3. f[n] = g[n]
    <3>1. n <= Len(ss) /\ n <= Len(a) /\ n \in 1..n /\ \A i \in 1..n : ss[i] = a[i]
      BY <1>2, <1>3, <1>8
    <3>2. \A i \in 1..n : f[i] = g[i]
      BY <1>3, <1>4, <2>2, <3>1, FlatUnique
    <3> QED
      BY <3>1, <3>2
  <2> QED
    BY <1>1, <1>3, <1>4, <1>5, <1>6, <1>8, <2>1, <2>2, <2>3
<1> QED
  BY <1>7, <1>8

\* The same, of sequences over one set.
LEMMA FlattenAppend ==
    ASSUME NEW S, NEW ss \in Seq(Seq(S)), NEW s \in Seq(S)
    PROVE  FlattenSeq(Append(ss, s)) = FlattenSeq(ss) \o s
<1>1. FlattenSeq(Append(ss, s)) = IF ss = <<>> THEN s ELSE FlattenSeq(ss) \o s
  BY FlattenOneMore
<1>2. ss = <<>> => FlattenSeq(ss) = <<>>
  BY FlattenEmpty
<1>3. <<>> \o s = s
  OBVIOUS
<1> QED
  BY <1>1, <1>2, <1>3

\* Flattening keeps the elements.
LEMMA FlattenTyped ==
    ASSUME NEW S, NEW ss \in Seq(Seq(S))
    PROVE  FlattenSeq(ss) \in Seq(S)
<1> DEFINE T == {r \in Seq(Seq(S)) : FlattenSeq(r) \in Seq(S)}
<1>1. <<>> \in T
  <2>1. FlattenSeq(<<>>) = <<>> /\ <<>> \in Seq(S) /\ <<>> \in Seq(Seq(S))
    BY FlattenEmpty
  <2> QED
    BY <2>1
<1>2. ASSUME NEW r \in Seq(Seq(S)), NEW e \in Seq(S), r \in T PROVE Append(r, e) \in T
  <2>1. FlattenSeq(Append(r, e)) = FlattenSeq(r) \o e
    BY FlattenAppend
  <2>2. FlattenSeq(r) \in Seq(S)
    BY <1>2
  <2>3. FlattenSeq(Append(r, e)) \in Seq(S)
    BY <2>1, <2>2
  <2> QED
    BY <2>3
<1> HIDE DEF T
<1>3. Seq(Seq(S)) \subseteq T
  BY <1>1, <1>2, SeqInduction
<1> QED
  BY <1>3 DEF T

(***************************************************************************)
(* Scanned.                                                                *)
(***************************************************************************)
\* The recursion of Scanned.
IsScan(f, s, text) ==
    f = [i \in 0..Len(text) |-> IF i = 0 THEN s ELSE Scan(f[i - 1], text[i])]

\* Where a scan is after a beginning depends on that beginning alone.
LEMMA ScanUnique ==
    ASSUME NEW S, NEW s, NEW text \in Seq(S), NEW n \in Nat, n <= Len(text),
           NEW more \in Seq(S), n <= Len(more), \A i \in 1..n : text[i] = more[i],
           NEW f, IsScan(f, s, text), NEW g, IsScan(g, s, more)
    PROVE  f[n] = g[n]
<1> DEFINE T == {i \in Nat : i <= n => f[i] = g[i]}
<1>1. f[0] = s /\ g[0] = s
  BY DEF IsScan
<1>2. ASSUME NEW i \in Nat, i \in T PROVE i + 1 \in T
  <2> SUFFICES ASSUME i + 1 <= n PROVE f[i + 1] = g[i + 1]
    OBVIOUS
  <2>1. PICK j : /\ j = i + 1 /\ j \in 1..n /\ j - 1 = i /\ j # 0
                 /\ j \in 0..Len(text) /\ j \in 0..Len(more)
    OBVIOUS
  <2>2. f[j] = Scan(f[j - 1], text[j])
    BY <2>1, Zenon DEF IsScan
  <2>3. g[j] = Scan(g[j - 1], more[j])
    BY <2>1, Zenon DEF IsScan
  <2> QED
    BY <1>2, <2>1, <2>2, <2>3
<1>3. Nat \subseteq T
  <2>1. 0 \in T
    BY <1>1
  <2> HIDE DEF T
  <2> QED
    BY <1>2, <2>1, Induction
<1> QED
  BY <1>3

\* The recursion of Scanned defines a function.
LEMMA ScanExists ==
    ASSUME NEW S, NEW st, NEW text \in Seq(S)
    PROVE  \E f : IsScan(f, st, text)
<1> DEFINE T == {s \in Seq(S) : \E f : IsScan(f, st, s)}
<1>1. <<>> \in T
  <2> DEFINE f == [i \in 0..0 |-> st]
  <2>1. IsScan(f, st, <<>>)
    BY DEF IsScan
  <2> QED
    BY <2>1
<1>2. ASSUME NEW s \in Seq(S), NEW e \in S, s \in T PROVE Append(s, e) \in T
  <2>1. PICK g : IsScan(g, st, s)
    BY <1>2
  <2>2. PICK a : a = Append(s, e)
    OBVIOUS
  <2>3. PICK n \in Nat : n = Len(s)
    OBVIOUS
  <2>4. a \in Seq(S) /\ Len(a) = n + 1 /\ a[n + 1] = e /\ \A i \in 1..n : a[i] = s[i]
    BY <2>2, <2>3
  <2> DEFINE f == [i \in 0..n + 1 |-> IF i <= n THEN g[i] ELSE Scan(g[n], e)]
  <2>5. ASSUME NEW i \in 0..n + 1
        PROVE  f[i] = IF i = 0 THEN st ELSE Scan(f[i - 1], a[i])
    <3>1. CASE i = n + 1
      BY <2>3, <2>4, <3>1
    <3>2. CASE i <= n
      <4>1. f[i] = g[i] /\ (i # 0 => f[i - 1] = g[i - 1] /\ a[i] = s[i])
        BY <2>3, <2>4, <3>2
      <4>2. g[i] = IF i = 0 THEN st ELSE Scan(g[i - 1], s[i])
        <5>1. i \in 0..Len(s)
          BY <2>3, <3>2
        <5> HIDE DEF f
        <5> QED
          BY <2>1, <5>1, Zenon DEF IsScan
      <4> HIDE DEF f
      <4> QED
        BY <4>1, <4>2
    <3> QED
      BY <3>1, <3>2
  <2>6. f = [i \in 0..n + 1 |-> f[i]]
    OBVIOUS
  <2>7. IsScan(f, st, a)
    <3> HIDE DEF f
    <3> QED
      BY <2>4, <2>5, <2>6 DEF IsScan
  <2> HIDE DEF f
  <2> QED
    BY <2>2, <2>4, <2>7
<1> HIDE DEF T
<1>3. Seq(S) \subseteq T
  BY <1>1, <1>2, SeqInduction
<1> QED
  BY <1>3 DEF T

\* Scanned is the last value of its recursion.
LEMMA ScanLast ==
    ASSUME NEW S, NEW st, NEW s \in Seq(S)
    PROVE  \E f : IsScan(f, st, s) /\ Scanned(st, s) = f[Len(s)]
<1>1. PICK f : f = (CHOOSE g : IsScan(g, st, s)) /\ IsScan(f, st, s)
  BY ScanExists
<1>2. Scanned(st, s) = f[Len(s)]
  BY <1>1 DEF Scanned, IsScan
<1> QED
  BY <1>1, <1>2

\* What one more token does.
LEMMA ScannedEmpty ==
    ASSUME NEW st
    PROVE  Scanned(st, <<>>) = st
<1>1. <<>> \in Seq({})
  OBVIOUS
<1>2. PICK f : IsScan(f, st, <<>>) /\ Scanned(st, <<>>) = f[Len(<<>>)]
  BY <1>1, ScanLast
<1>3. Len(<<>>) = 0 /\ 0 \in 0..Len(<<>>)
  OBVIOUS
<1> QED
  BY <1>2, <1>3, Zenon DEF IsScan

\* One more token is one more step of the scan.
LEMMA ScannedAppend ==
    ASSUME NEW S, NEW st, NEW s \in Seq(S), NEW e \in S
    PROVE  Scanned(st, Append(s, e)) = Scan(Scanned(st, s), e)
<1>1. PICK a : a = Append(s, e)
  OBVIOUS
<1>2. PICK n \in Nat : n = Len(s)
  OBVIOUS
<1>3. a \in Seq(S) /\ Len(a) = n + 1 /\ a[n + 1] = e /\ \A i \in 1..n : a[i] = s[i]
  BY <1>1, <1>2
<1>4. PICK f : IsScan(f, st, s) /\ Scanned(st, s) = f[n]
  BY <1>2, ScanLast
<1>5. PICK g : IsScan(g, st, a) /\ Scanned(st, a) = g[n + 1]
  BY <1>3, ScanLast
<1>6. f[n] = g[n]
  <2>1. n <= Len(s) /\ n <= Len(a) /\ \A i \in 1..n : s[i] = a[i]
    BY <1>2, <1>3
  <2> QED
    BY <1>3, <1>4, <1>5, <2>1, ScanUnique
<1>7. g[n + 1] = Scan(g[n], a[n + 1])
  <2>1. PICK j : j = n + 1 /\ j \in 0..Len(a) /\ j # 0 /\ j - 1 = n
    BY <1>3
  <2>2. g[j] = Scan(g[j - 1], a[j])
    BY <1>5, <2>1, Zenon DEF IsScan
  <2> QED
    BY <2>1, <2>2
<1> QED
  BY <1>1, <1>3, <1>4, <1>5, <1>6, <1>7

(***************************************************************************)
(* Bounded sets of numbers have a least and a greatest element.            *)
(***************************************************************************)
LEMMA Greatest ==
    ASSUME NEW n \in Nat, NEW T, T \subseteq 0..n, T # {}
    PROVE  \E i \in T : \A j \in T : j <= i
<1> DEFINE N == {m \in Nat : \A U \in SUBSET (0..m) :
                               U # {} => \E i \in U : \A j \in U : j <= i}
<1>1. 0 \in N
  <2> SUFFICES ASSUME NEW U \in SUBSET (0..0), U # {}
               PROVE  \E i \in U : \A j \in U : j <= i
    OBVIOUS
  <2>1. PICK i : i \in U
    OBVIOUS
  <2>2. \A j \in U : j = 0
    OBVIOUS
  <2> QED
    BY <2>1, <2>2
<1>2. ASSUME NEW m \in Nat, m \in N PROVE m + 1 \in N
  <2> SUFFICES ASSUME NEW U \in SUBSET (0..m + 1), U # {}
               PROVE  \E i \in U : \A j \in U : j <= i
    OBVIOUS
  <2>1. CASE m + 1 \in U
    BY <2>1
  <2>2. CASE m + 1 \notin U
    <3>1. U \in SUBSET (0..m)
      BY <2>2
    <3> QED
      BY <1>2, <3>1
  <2> QED
    BY <2>1, <2>2
<1>3. Nat \subseteq N
  <2> HIDE DEF N
  <2> QED
    BY <1>1, <1>2, Induction
<1> QED
  BY <1>3

\* The least element.
LEMMA First ==
    ASSUME NEW n \in Nat, NEW T, T \subseteq 0..n, T # {}
    PROVE  \E i \in T : \A j \in T : i <= j
<1> DEFINE U == {n - i : i \in T}
<1>1. U \subseteq 0..n /\ U # {}
  <2>1. \A i \in T : i \in 0..n
    OBVIOUS
  <2>2. \A i \in 0..n : n - i \in 0..n
    OBVIOUS
  <2> QED
    BY <2>1, <2>2
<1>2. PICK u \in U : \A j \in U : j <= u
  <2> HIDE DEF U
  <2> QED
    BY <1>1, Greatest
<1>3. PICK i \in T : u = n - i
  BY <1>2
<1>4. \A j \in T : n - j \in U /\ j \in 0..n
  OBVIOUS
<1>5. \A j \in T : n - j <= n - i
  <2> HIDE DEF U
  <2> QED
    BY <1>2, <1>3, <1>4
<1>6. i \in 0..n /\ \A j \in T : i <= j
  <2> HIDE DEF U
  <2> QED
    BY <1>4, <1>5
<1> QED
  BY <1>6

(***************************************************************************)
(* What the parser makes of a line is a sequence of commands.              *)
(***************************************************************************)
Texts == Seq(Tokens)

States == [out : Seq(Texts), buf : Texts, depth : Nat,
           in_quotes : BOOLEAN, escaped : BOOLEAN]

\* One step of a scan keeps its types.
LEMMA ScanTyped ==
    ASSUME NEW s \in States, NEW ch \in Tokens
    PROVE  Scan(s, ch) \in States
<1> DEFINE kept == [s EXCEPT !.buf = Append(@, ch), !.escaped = FALSE]
<1>1. /\ Append(s.out, s.buf) \in Seq(Texts)
      /\ s.depth \in Nat
  BY DEF States
<1>2. Append(s.buf, ch) \in Texts /\ <<>> \in Texts
  <2>1. s.buf \in Texts
    BY DEF States
  <2> QED
    BY <2>1 DEF Texts
<1>3. kept \in States
  BY <1>2 DEF States
<1>4. [kept EXCEPT !.escaped = TRUE] \in States
  BY <1>2 DEF States
<1>5. [kept EXCEPT !.in_quotes = ~@] \in States
  <2>1. (~kept.in_quotes) \in BOOLEAN
    OBVIOUS
  <2> HIDE DEF kept
  <2> QED
    BY <1>3, <2>1, Zenon DEF States
<1>6. [kept EXCEPT !.depth = @ + 1] \in States
  <2>1. kept.depth + 1 \in Nat
    BY <1>3 DEF States
  <2> HIDE DEF kept
  <2> QED
    BY <1>3, <2>1 DEF States
<1>7. [kept EXCEPT !.depth = IF @ = 0 THEN 0 ELSE @ - 1] \in States
  <2>1. (IF kept.depth = 0 THEN 0 ELSE kept.depth - 1) \in Nat
    BY <1>3 DEF States
  <2> HIDE DEF kept
  <2> QED
    BY <1>3, <2>1 DEF States
<1>8. [s EXCEPT !.out = Append(@, s.buf), !.buf = <<>>] \in States
  BY <1>1, <1>2 DEF States
<1> HIDE DEF kept
<1>9. Scan(s, ch) \in {kept, [kept EXCEPT !.escaped = TRUE], [kept EXCEPT !.in_quotes = ~@],
                       [kept EXCEPT !.depth = @ + 1],
                       [kept EXCEPT !.depth = IF @ = 0 THEN 0 ELSE @ - 1],
                       [s EXCEPT !.out = Append(@, s.buf), !.buf = <<>>]}
  BY Zenon DEF Scan, kept
<1> QED
  BY <1>3, <1>4, <1>5, <1>6, <1>7, <1>8, <1>9

\* A scan keeps its types.
LEMMA ScannedTyped ==
    ASSUME NEW st \in States, NEW text \in Seq(Tokens)
    PROVE  Scanned(st, text) \in States
<1> DEFINE T == {r \in Seq(Tokens) : Scanned(st, r) \in States}
<1>1. <<>> \in T
  <2>1. Scanned(st, <<>>) = st /\ <<>> \in Seq(Tokens)
    BY ScannedEmpty
  <2> QED
    BY <2>1
<1>2. ASSUME NEW r \in Seq(Tokens), NEW e \in Tokens, r \in T PROVE Append(r, e) \in T
  <2>1. Scanned(st, Append(r, e)) = Scan(Scanned(st, r), e)
    BY ScannedAppend
  <2>2. Scan(Scanned(st, r), e) \in States
    BY <1>2, ScanTyped
  <2> QED
    BY <2>1, <2>2
<1> HIDE DEF T
<1>3. Seq(Tokens) \subseteq T
  BY <1>1, <1>2, SeqInduction
<1> QED
  BY <1>3 DEF T

\* An item is written in tokens.
LEMMA ItemTyped ==
    ASSUME NEW item \in Items
    PROVE  WrittenItem(item) \in Seq(Tokens)
<1>1. {"=", Quote} \subseteq Tokens /\ item.value \in Seq(Tokens)
  BY LoaderAssumption DEF Items
<1>2. item.name # None => item.name \in Seq(Tokens)
  BY DEF Items
<1>3. <<"=">> \in Seq(Tokens) /\ <<Quote>> \in Seq(Tokens)
  BY <1>1
<1>4. (IF item.name = None THEN <<>> ELSE item.name \o <<"=">>) \in Seq(Tokens)
  BY <1>2, <1>3
<1>5. (IF item.quoted THEN <<Quote>> \o item.value \o <<Quote>> ELSE item.value) \in Seq(Tokens)
  BY <1>1, <1>3
<1> QED
  BY <1>4, <1>5 DEF WrittenItem

\* So is a line.
LEMMA RestTyped ==
    ASSUME NEW l \in Lines
    PROVE  Rest(l) \in Seq(Tokens)
<1>1. PICK items \in Seq(Items) : items = l.items
  BY LoaderAssumption
<1>2. Comma \in Tokens
  BY LoaderAssumption
<1>3. PICK n \in Nat : n = Len(items) /\ DOMAIN items = 1..n
  OBVIOUS
<1> DEFINE part(i) == (IF i = 1 THEN <<>> ELSE <<Comma>>) \o WrittenItem(items[i])
           parts == [i \in 1..n |-> part(i)]
<1>4. ASSUME NEW i \in 1..n
      PROVE  part(i) \in Texts
  <2>1. items[i] \in Items
    BY <1>3
  <2>2. WrittenItem(items[i]) \in Seq(Tokens)
    BY <2>1, ItemTyped
  <2>3. <<>> \in Seq(Tokens) /\ <<Comma>> \in Seq(Tokens)
    <3> HIDE DEF part
    <3> QED
      BY <1>2
  <2>4. PICK w \in Seq(Tokens) : w = WrittenItem(items[i])
    BY <2>2
  <2>5. <<>> \o w \in Seq(Tokens) /\ <<Comma>> \o w \in Seq(Tokens)
    BY <2>3, <2>4
  <2> QED
    BY <2>4, <2>5 DEF Texts
<1>5. parts \in Seq(Texts)
  <2> HIDE DEF part
  <2> QED
    BY <1>4
<1>6. FlattenSeq(parts) \in Seq(Tokens)
  <2> HIDE DEF parts
  <2> QED
    BY <1>5, FlattenTyped DEF Texts
<1> QED
  BY <1>1, <1>3, <1>6 DEF Rest

\* A split returns texts, none of them empty.
LEMMA SplitTyped ==
    ASSUME NEW text \in Seq(Tokens)
    PROVE  _split_top_level(text) \in Seq(Seq(Tokens))
<1>1. Start \in States
  <2>1. <<>> \in Seq(Texts) /\ <<>> \in Texts
    BY DEF Texts
  <2> QED
    BY <2>1 DEF Start, States
<1>2. PICK end \in States : end = Scanned(Start, text)
  BY <1>1, ScannedTyped
<1>3. Append(end.out, end.buf) \in Seq(Texts)
  BY <1>2 DEF States
<1>4. Without(<<>>, Append(end.out, end.buf)) \in Seq(Texts \ {<<>>})
  BY <1>3, WithoutTyped
<1>5. Without(<<>>, Append(end.out, end.buf)) \in Seq(Texts)
  BY <1>4
<1> QED
  BY <1>2, <1>5 DEF _split_top_level, Texts

AnyCommand ==
    [verb : {l.verb : l \in Lines}, path : {l.path : l \in Lines},
     name : Texts \cup {None}, value : Texts \cup {None}, raw : Lines]

\* An item with a name is a command.
LEMMA PairTyped ==
    ASSUME NEW l \in Lines, NEW item \in Texts, Named(item)
    PROVE  Pair(l, item) \in AnyCommand
<1> DEFINE eqs == {i \in DOMAIN item : item[i] = "="}
<1>1. PICK n \in Nat : n = Len(item) /\ DOMAIN item = 1..n /\ item \in Seq(Tokens)
  BY DEF Texts
<1>2. eqs \subseteq 0..n /\ eqs # {}
  <2>1. \E i \in 1..n : item[i] = "="
    BY <1>1 DEF Named, ToSet
  <2> QED
    BY <1>1, <2>1
<1>3. PICK i \in eqs : \A j \in eqs : i <= j
  <2> HIDE DEF eqs
  <2> QED
    BY <1>2, First
<1>4. i \in DOMAIN item /\ item[i] = "=" /\ \A j \in 1..i - 1 : item[j] # "="
  <2>1. \A j \in 1..i - 1 : j \in DOMAIN item /\ ~(i <= j)
    BY <1>1, <1>3
  <2> QED
    BY <1>3, <2>1
<1>5. PICK eq : /\ eq = CHOOSE k \in DOMAIN item :
                          item[k] = "=" /\ \A j \in 1..k - 1 : item[j] # "="
                /\ eq \in 1..n
  BY <1>1, <1>4
<1>6. SubSeq(item, 1, eq - 1) \in Seq(Tokens) /\ SubSeq(item, eq + 1, Len(item)) \in Seq(Tokens)
  <2>1. ASSUME NEW q \in Seq(Tokens), NEW k \in 1..Len(q)
        PROVE  SubSeq(q, 1, k - 1) \in Seq(Tokens)
    <3>1. 1 \in 1..Len(q) + 1 /\ k - 1 \in 1 - 1..Len(q)
      OBVIOUS
    <3> QED
      BY <3>1, SubSeqProperties
  <2>2. ASSUME NEW q \in Seq(Tokens), NEW k \in 1..Len(q)
        PROVE  SubSeq(q, k + 1, Len(q)) \in Seq(Tokens)
    <3>1. k + 1 \in 1..Len(q) + 1 /\ Len(q) \in (k + 1) - 1..Len(q)
      OBVIOUS
    <3> QED
      BY <3>1, SubSeqProperties
  <2> QED
    BY <1>1, <1>5, <2>1, <2>2
<1>7. \A q \in Seq(Tokens) : _unquote(q) \in Seq(Tokens)
  <2> SUFFICES ASSUME NEW q \in Seq(Tokens) PROVE _unquote(q) \in Seq(Tokens)
    OBVIOUS
  <2>1. Len(q) >= 2 => SubSeq(q, 2, Len(q) - 1) \in Seq(Tokens)
    OBVIOUS
  <2> QED
    BY <2>1 DEF _unquote
<1> QED
  BY <1>5, <1>6, <1>7 DEF Pair, Command, AnyCommand, Texts

\* A line is parsed into commands.
LEMMA CommandsOfTyped ==
    ASSUME NEW l \in Lines
    PROVE  CommandsOf(l) \in Seq(AnyCommand)
<1>1. CASE Skipped(l) \/ l.verb = None
  BY <1>1 DEF CommandsOf
<1>2. CASE l.items = <<>> /\ l.verb = "DEL" /\ ~(Skipped(l) \/ l.verb = None)
  <2>1. Command(l, None, None) \in AnyCommand
    BY DEF Command, AnyCommand
  <2>2. <<Command(l, None, None)>> \in Seq(AnyCommand)
    BY <2>1
  <2> QED
    BY <1>2, <2>2 DEF CommandsOf
<1>3. CASE ~(l.items = <<>> /\ l.verb = "DEL") /\ ~(Skipped(l) \/ l.verb = None)
  <2>1. PICK parts \in Seq(Texts) : parts = _split_top_level(Rest(l))
    BY RestTyped, SplitTyped DEF Texts
  <2> DEFINE Good == {p \in Texts : Named(p)}
             named(i) == IF Named(parts[i]) THEN parts[i] ELSE <<>>
  <2>2. \A i \in DOMAIN parts : named(i) \in Good \cup {<<>>}
    OBVIOUS
  <2>3. [i \in DOMAIN parts |-> named(i)] \in Seq(Good \cup {<<>>})
    <3>1. DOMAIN parts = 1..Len(parts) /\ Len(parts) \in Nat
      OBVIOUS
    <3> HIDE DEF named
    <3> QED
      BY <2>2, <3>1
  <2>4. Without(<<>>, [i \in DOMAIN parts |-> named(i)]) \in Seq((Good \cup {<<>>}) \ {<<>>})
    <3> HIDE DEF named
    <3> QED
      BY <2>3, WithoutTyped
  <2>5. PICK kept : /\ kept = Without(<<>>, [i \in DOMAIN parts |-> named(i)])
                    /\ kept \in Seq(Good)
    <3> HIDE DEF named
    <3> QED
      BY <2>4
  <2>6. \A i \in DOMAIN kept : Pair(l, kept[i]) \in AnyCommand
    <3>1. \A i \in DOMAIN kept : kept[i] \in Texts /\ Named(kept[i])
      BY <2>5
    <3> QED
      BY <3>1, PairTyped
  <2>7. [i \in DOMAIN kept |-> Pair(l, kept[i])] \in Seq(AnyCommand)
    <3>1. DOMAIN kept = 1..Len(kept) /\ Len(kept) \in Nat
      BY <2>5
    <3> QED
      BY <2>6, <3>1
  <2>8. CommandsOf(l) = [i \in DOMAIN kept |-> Pair(l, kept[i])]
    BY <1>3, <2>1, <2>5 DEF CommandsOf
  <2> QED
    BY <2>7, <2>8
<1> QED
  BY <1>1, <1>2, <1>3

\* So is a script.
LEMMA CommandsTyped ==
    ASSUME NEW lines \in Seq(Lines)
    PROVE  Commands(lines) \in Seq(AnyCommand)
<1>1. DOMAIN lines = 1..Len(lines) /\ Len(lines) \in Nat
  OBVIOUS
<1>2. \A i \in DOMAIN lines : CommandsOf(lines[i]) \in Seq(AnyCommand)
  BY CommandsOfTyped
<1>3. [i \in DOMAIN lines |-> CommandsOf(lines[i])] \in Seq(Seq(AnyCommand))
  BY <1>1, <1>2
<1> QED
  BY <1>3, FlattenTyped DEF Commands

(***************************************************************************)
(* The page.  Whatever the client finds is what some statement shows in    *)
(* the text area "options", and a page that is cut off has no other such   *)
(* statements than the whole one.                                          *)
(***************************************************************************)
Statements ==
    [stmt : {"assign"}, var : STRING, text : {"script", "factory"}]
    \cup [stmt : {"use"}, var : STRING, element : STRING]

OptionUses(page) ==
    {i \in DOMAIN page : page[i].stmt = "use" /\ page[i].element = "options"}

Shown(page) == {ValueAt(page, i, page[i].var) : i \in OptionUses(page)}

\* What fetch returns is shown in "options", or nothing is.
LEMMA FetchedIsShown ==
    ASSUME NEW n \in Nat, NEW page, DOMAIN page = 1..n
    PROVE  Fetched(page) \in Shown(page) \cup {None}
<1> DEFINE uses == {i \in DOMAIN page : /\ page[i].stmt = "use"
                                        /\ ValueAt(page, i, page[i].var) # None}
           own == {i \in uses : page[i].element = "options"}
           scripts == extract_scripts(page)
<1>1. SUFFICES ASSUME "options" \in DOMAIN scripts
               PROVE  scripts["options"] \in Shown(page)
  BY DEF Fetched
<1>2. DOMAIN scripts = {page[i].element : i \in uses}
  BY DEF extract_scripts
<1>3. own # {} /\ own \subseteq 0..n /\ own \subseteq OptionUses(page)
  BY <1>1, <1>2 DEF OptionUses
<1>4. PICK k \in own : \A j \in own : j <= k
  <2> HIDE DEF own
  <2> QED
    BY <1>3, Greatest
<1>5. PICK i : i = (CHOOSE k1 \in own : \A j \in own : j <= k1) /\ i \in own
  <2> HIDE DEF own
  <2> QED
    BY <1>4
<1>6. scripts["options"] = ValueAt(page, i, page[i].var)
  BY <1>1, <1>2, <1>5 DEF extract_scripts
<1> QED
  BY <1>3, <1>5, <1>6 DEF Shown

\* The value of a variable depends on the statements before.
LEMMA ValueAtSame ==
    ASSUME NEW i \in Nat, NEW page, NEW more, NEW v,
           \A k \in 1..i - 1 : page[k] = more[k]
    PROVE  ValueAt(page, i, v) = ValueAt(more, i, v)
<1> DEFINE set(p) == {k \in 1..i - 1 : /\ p[k].stmt = "assign" /\ p[k].var = v
                                       /\ p[k].text # None}
<1>1. set(page) = set(more)
  OBVIOUS
<1>2. ASSUME set(page) # {}
      PROVE  page[CHOOSE k \in set(page) : \A j \in set(page) : j <= k] =
             more[CHOOSE k \in set(more) : \A j \in set(more) : j <= k]
  <2>1. set(page) \subseteq 0..i
    OBVIOUS
  <2>2. PICK k \in set(page) : \A j \in set(page) : j <= k
    <3> HIDE DEF set
    <3> QED
      BY <1>2, <2>1, Greatest
  <2>3. PICK m : m = (CHOOSE k1 \in set(page) : \A j \in set(page) : j <= k1) /\ m \in set(page)
    <3> HIDE DEF set
    <3> QED
      BY <2>2
  <2>4. m \in 1..i - 1
    BY <2>3
  <2> HIDE DEF set
  <2> QED
    BY <1>1, <2>3, <2>4
<1>3. \A p : ValueAt(p, i, v) =
               IF set(p) = {} THEN None
               ELSE p[CHOOSE k \in set(p) : \A j \in set(p) : j <= k].text
  BY DEF ValueAt
<1> HIDE DEF set
<1> QED
  BY <1>1, <1>2, <1>3

\* A page shows the script, the factory defaults or nothing.
LEMMA ShownTyped ==
    ASSUME NEW page \in Seq(Statements)
    PROVE  Shown(page) \subseteq {None, "script", "factory"}
<1> SUFFICES ASSUME NEW i \in DOMAIN page, NEW v
             PROVE  ValueAt(page, i, v) \in {None, "script", "factory"}
  BY DEF Shown, OptionUses
<1> DEFINE set == {k \in 1..i - 1 : /\ page[k].stmt = "assign" /\ page[k].var = v
                                    /\ page[k].text # None}
<1>1. CASE set = {}
  BY <1>1 DEF ValueAt
<1>2. CASE set # {}
  <2>1. i \in Nat /\ set \subseteq 0..i /\ \A k \in set : k \in DOMAIN page
    OBVIOUS
  <2>2. PICK k \in set : \A j \in set : j <= k
    <3> HIDE DEF set
    <3> QED
      BY <1>2, <2>1, Greatest
  <2>3. PICK m : m = (CHOOSE k1 \in set : \A j \in set : j <= k1) /\ m \in set
    <3> HIDE DEF set
    <3> QED
      BY <2>2
  <2>4. ValueAt(page, i, v) = page[m].text
    BY <1>2, <2>3 DEF ValueAt
  <2>5. page[m] \in Statements /\ page[m].stmt = "assign"
    BY <2>1, <2>3
  <2>6. page[m].text \in {"script", "factory"}
    BY <2>5 DEF Statements
  <2> QED
    BY <2>4, <2>6
<1> QED
  BY <1>1, <1>2

\* A page that is cut off shows nothing that the whole one does not.
LEMMA CutShowsNoMore ==
    ASSUME NEW page \in Seq(Statements), NEW n \in 0..Len(page)
    PROVE  /\ Fetched(Cut(page, n)) \in Shown(page) \cup {None}
           /\ n \in DOMAIN page /\ page[n].stmt = "assign" =>
                 Fetched(CutWithin(page, n)) \in Shown(page) \cup {None}
<1>1. PICK len \in Nat : len = Len(page) /\ DOMAIN page = 1..len /\ n \in 0..len
  OBVIOUS
<1>2. PICK cut : cut = Cut(page, n)
  OBVIOUS
<1>3. DOMAIN cut = 1..n /\ \A i \in 1..n : cut[i] = page[i]
  BY <1>1, <1>2 DEF Cut
<1>4. ASSUME NEW p, DOMAIN p = 1..n,
             \A i \in 1..n : p[i] = page[i] \/ (i = n /\ p[i].stmt # "use")
      PROVE  Shown(p) \subseteq Shown(page)
  <2> SUFFICES ASSUME NEW i \in OptionUses(p)
               PROVE  ValueAt(p, i, p[i].var) \in Shown(page)
    BY DEF Shown
  <2>1. i \in 1..n /\ i \in DOMAIN page /\ p[i] = page[i] /\ i \in OptionUses(page) /\ i \in Nat
    BY <1>1, <1>4 DEF OptionUses
  <2>2. \A k \in 1..i - 1 : p[k] = page[k]
    BY <1>1, <1>4, <2>1
  <2>3. ValueAt(p, i, p[i].var) = ValueAt(page, i, page[i].var)
    BY <2>1, <2>2, ValueAtSame
  <2> QED
    BY <2>1, <2>3 DEF Shown
<1>5. Fetched(cut) \in Shown(cut) \cup {None}
  BY <1>1, <1>3, FetchedIsShown
<1>6. Shown(cut) \subseteq Shown(page)
  BY <1>3, <1>4
<1>7. ASSUME n \in DOMAIN page, page[n].stmt = "assign"
      PROVE  Fetched(CutWithin(page, n)) \in Shown(page) \cup {None}
  <2>1. PICK within : within = [cut EXCEPT ![n].text = None] /\ within = CutWithin(page, n)
    BY <1>2 DEF CutWithin
  <2>2. page[n] \in Statements
    BY <1>7
  <2>3. cut[n] = page[n] /\ [page[n] EXCEPT !.text = None].stmt = "assign"
    BY <1>1, <1>3, <1>7, <2>2 DEF Statements
  <2>4. DOMAIN within = 1..n /\ within[n].stmt = "assign"
        /\ \A i \in 1..n : i # n => within[i] = page[i]
    BY <1>1, <1>3, <1>7, <2>1, <2>3
  <2>5. Fetched(within) \in Shown(within) \cup {None}
    BY <1>1, <2>4, FetchedIsShown
  <2>6. Shown(within) \subseteq Shown(page)
    BY <1>4, <2>4
  <2> QED
    BY <2>1, <2>5, <2>6
<1> QED
  BY <1>2, <1>5, <1>6, <1>7

\* So too what is found in a page of the device, whole or not.
LEMMA FoundTyped ==
    ASSUME NEW found \in Whole \cup Part
    PROVE  /\ found # None => found \in {"script", "factory"}
           /\ \E page \in Layouts : found \in Shown(page) \cup {None}
<1>1. \A page \in Layouts : page \in Seq(Statements)
  BY BootAssumption DEF Statements
<1>2. PICK page \in Layouts : found \in Shown(page) \cup {None}
  <2>1. ASSUME found \in Whole
        PROVE  \E page \in Layouts : found \in Shown(page) \cup {None}
    <3>1. PICK page \in Layouts : found = Fetched(page)
      BY <2>1 DEF Whole
    <3>2. DOMAIN page = 1..Len(page) /\ Len(page) \in Nat
      BY <1>1
    <3> QED
      BY <3>1, <3>2, FetchedIsShown
  <2>2. ASSUME found \in Part
        PROVE  \E page \in Layouts : found \in Shown(page) \cup {None}
    <3>1. PICK page \in Layouts :
             \/ \E n \in 0..Len(page) - 1 : found = Fetched(Cut(page, n))
             \/ \E n \in DOMAIN page : page[n].stmt = "assign" /\ found = Fetched(CutWithin(page, n))
      BY <2>2 DEF Part
    <3>2. page \in Seq(Statements)
      BY <1>1
    <3>3. ASSUME NEW n \in 0..Len(page) - 1, found = Fetched(Cut(page, n))
          PROVE  found \in Shown(page) \cup {None}
      <4>1. n \in 0..Len(page)
        BY <3>2
      <4> QED
        BY <3>2, <3>3, <4>1, CutShowsNoMore
    <3>4. ASSUME NEW n \in DOMAIN page, page[n].stmt = "assign",
                 found = Fetched(CutWithin(page, n))
          PROVE  found \in Shown(page) \cup {None}
      <4>1. n \in 0..Len(page)
        BY <3>2
      <4> QED
        BY <3>2, <3>4, <4>1, CutShowsNoMore
    <3> QED
      BY <3>1, <3>3, <3>4
  <2> QED
    BY <2>1, <2>2
<1> QED
  BY <1>1, <1>2, ShownTyped

(***************************************************************************)
(* The invariant: what a manager and a task hold was taken from the scripts *)
(* there are, and the device holds one of these and values in its own form. *)
(***************************************************************************)
Desired == {m \in Managers : desired[m] # None}
Scripts == {normalise(text) : text \in Docs \cup {Factory} \cup {desired[m] : m \in Desired}}
Reported == {normalise_scalar[v] : v \in Values}
Keys == UNION {DOMAIN indexed[lines] : lines \in Scripts}
Objects == {t[1] : t \in Keys}

ManRecords ==
    [phase : {"idle", "fetched", "comparing", "compared", "saved"}, check_mode : BOOLEAN,
     current : Seq(Lines), left : SUBSET Objects,
     seen : [Targets -> Reported \cup {None}], drift : SUBSET Keys,
     outcome : {"none", "reported", "saved"}]

TaskRecords ==
    [phase : {"idle", "writing"}, plan : SUBSET Targets,
     startup_script : Scripts \cup {None}, reverts : SUBSET Targets,
     outcome : {"none", "unchanged", "verified"}]

DeviceFits ==
    /\ doc \in Seq(Lines) /\ normalise(doc) \in Scripts
    /\ live \in [Targets -> Reported \cup {None}]

ManFits(m, r) ==
    /\ r \in ManRecords
    /\ r.phase = "idle" => r.current = <<>> /\ r.drift = {}
    /\ r.phase # "idle" => /\ r.current \in Scripts
                           /\ r.drift \subseteq DOMAIN indexed[r.current]
                           /\ r.outcome = "none"
    /\ r.phase = "saved" => desired[m] # None /\ ~r.check_mode

\* What a task has warned of is what the script it was given contradicts.
TaskFits(t, r) ==
    /\ r \in TaskRecords
    /\ r.plan \cup r.reverts \subseteq DOMAIN rotation[t]
    /\ r.startup_script # None =>
          r.reverts = conflicts(rotation_writes(t), indexed[r.startup_script])

Bounds == edits \in 0..MaxEdits /\ boots \in 0..MaxBoots /\ faults \in 0..MaxFaults

BInv ==
    /\ DeviceFits /\ Bounds
    /\ man = [m \in Managers |-> man[m]] /\ \A m \in Managers : ManFits(m, man[m])
    /\ task = [t \in Tasks |-> task[t]] /\ \A t \in Tasks : TaskFits(t, task[t])

\* The scripts there are, and their indexes.
LEMMA ScriptsTyped ==
    /\ \A lines \in Scripts : /\ lines \in Seq(Lines \ {Blank}) /\ lines \in Seq(Lines)
                              /\ lines # None
    /\ \A text \in Docs \cup {Factory} : text \in Seq(Lines) /\ normalise(text) \in Scripts
    /\ \A m \in Managers : desired[m] # None =>
          desired[m] \in Seq(Lines) /\ normalise(desired[m]) \in Scripts
    /\ DOMAIN indexed = Scripts
    /\ \A lines \in Scripts : indexed[lines] = index_by_target(Commands(lines))
<1>1. \A text \in Docs \cup {Factory} \cup {desired[m] : m \in Desired} : text \in Seq(Lines)
  BY BootAssumption DEF Desired
<1>2. \A text \in Seq(Lines) : /\ normalise(text) \in Seq(Lines \ {Blank})
                               /\ normalise(text) \in Seq(Lines)
                               /\ normalise(text) # None
  <2> SUFFICES ASSUME NEW text \in Seq(Lines)
               PROVE  /\ normalise(text) \in Seq(Lines \ {Blank})
                      /\ normalise(text) \in Seq(Lines)
                      /\ normalise(text) # None
    OBVIOUS
  <2>1. normalise(text) \in Seq(Lines \ {Blank})
    BY RenderedReads
  <2>2. normalise(text) \in Seq(Lines)
    BY <2>1
  <2>3. None \notin Seq(Lines)
    BY BootAssumption
  <2> QED
    BY <2>1, <2>2, <2>3
<1>3. \A lines \in Scripts : /\ lines \in Seq(Lines \ {Blank}) /\ lines \in Seq(Lines)
                             /\ lines # None
  BY <1>1, <1>2 DEF Scripts
<1>4. \A text \in Docs \cup {Factory} : text \in Seq(Lines) /\ normalise(text) \in Scripts
  BY <1>1 DEF Scripts
<1>5. \A m \in Managers : desired[m] # None =>
         desired[m] \in Seq(Lines) /\ normalise(desired[m]) \in Scripts
  BY <1>1 DEF Scripts, Desired
<1>6. indexed = [lines \in Scripts |-> index_by_target(Commands(lines))]
  BY DEF indexed, Scripts, Desired
<1> QED
  BY <1>3, <1>4, <1>5, <1>6

\* What is found in a page is a script there is.
LEMMA ContentsTyped ==
    ASSUME DeviceFits, NEW found \in Whole \cup Part, found # None
    PROVE  Contents(found) \in Seq(Lines) /\ normalise(Contents(found)) \in Scripts
<1>1. found \in {"script", "factory"}
  BY FoundTyped
<1>2. Contents(found) \in {doc, Factory}
  BY <1>1 DEF Contents
<1> QED
  BY <1>2, ScriptsTyped DEF DeviceFits

\* To have seen nothing is to have seen no value.
LEMMA UnseenTyped == Unseen \in [Targets -> Reported \cup {None}]
BY DEF Unseen

\* Idle records fit.
LEMMA IdleFits ==
    /\ \A m \in Managers, outcome \in {"none", "reported", "saved"} :
          ManFits(m, IdleManager(outcome))
    /\ \A t \in Tasks, outcome \in {"none"} :
          TaskFits(t, IdleTask(None, {}, outcome))
<1>1. ASSUME NEW m \in Managers, NEW outcome \in {"none", "reported", "saved"}
      PROVE  ManFits(m, IdleManager(outcome))
  <2>1. <<>> \in Seq(Lines)
    OBVIOUS
  <2> QED
    BY <2>1, UnseenTyped DEF ManFits, IdleManager, ManRecords
<1>2. ASSUME NEW t \in Tasks, NEW outcome \in {"none"}
      PROVE  TaskFits(t, IdleTask(None, {}, outcome))
  BY DEF TaskFits, IdleTask, TaskRecords
<1> QED
  BY <1>1, <1>2

\* The invariant holds at first.
LEMMA InitFits == Init => BInv
<1> SUFFICES ASSUME Init PROVE BInv
  OBVIOUS
<1>1. DeviceFits
  BY ScriptsTyped, BootAssumption DEF Init, DeviceFits, Reported
<1>2. Bounds
  BY BootAssumption DEF Init, Bounds
<1>3. man = [m \in Managers |-> man[m]] /\ \A m \in Managers : ManFits(m, man[m])
  BY IdleFits DEF Init
<1>4. task = [t \in Tasks |-> task[t]] /\ \A t \in Tasks : TaskFits(t, task[t])
  BY IdleFits DEF Init
<1> QED
  BY <1>1, <1>2, <1>3, <1>4 DEF BInv

(***************************************************************************)
(* A manager's steps.                                                      *)
(***************************************************************************)
ManStep(m) ==
    /\ man' = [man EXCEPT ![m] = man'[m]] /\ ManFits(m, man'[m])
    /\ UNCHANGED <<live, task, edits, boots>>
    /\ faults' \in 0..MaxFaults

\* A request keeps the bound on faults.
LEMMA RequestTyped ==
    ASSUME Bounds, NEW found, Request(found)
    PROVE  faults' \in 0..MaxFaults
BY BootAssumption DEF Bounds, Request

\* Fetch keeps the invariant.
LEMMA FetchFits ==
    ASSUME BInv, NEW m \in Managers, NEW check_mode \in BOOLEAN, Fetch(m, check_mode)
    PROVE  ManStep(m) /\ doc' = doc
<1>1. PICK found \in Whole \cup Part :
         /\ Request(found)
         /\ IF found = None THEN End(m, "none")
            ELSE man' = [man EXCEPT ![m] =
                   [phase |-> "fetched", check_mode |-> check_mode,
                    current |-> normalise(Contents(found)), left |-> {},
                    seen |-> Unseen, drift |-> {},
                    outcome |-> "none"]]
  BY DEF Fetch
<1>2. faults' \in 0..MaxFaults
  BY <1>1, RequestTyped DEF BInv
<1>3. CASE found = None
  BY <1>1, <1>2, <1>3, IdleFits DEF ManStep, End, Fetch, BInv, device
<1>4. CASE found # None
  <2> DEFINE r == [phase |-> "fetched", check_mode |-> check_mode,
                   current |-> normalise(Contents(found)), left |-> {},
                    seen |-> Unseen, drift |-> {},
                   outcome |-> "none"]
  <2>1. r.current \in Scripts /\ r.current \in Seq(Lines)
    BY <1>4, ContentsTyped, ScriptsTyped DEF BInv
  <2>2. ManFits(m, r)
    BY <2>1, UnseenTyped DEF ManFits, ManRecords
  <2> HIDE DEF r
  <2>3. man' = [man EXCEPT ![m] = r] /\ man'[m] = r
    BY <1>1, <1>4 DEF BInv, r
  <2> QED
    BY <1>2, <2>2, <2>3 DEF ManStep, Fetch, device
<1> QED
  BY <1>3, <1>4

\* Connect keeps the invariant.
LEMMA ConnectFits ==
    ASSUME BInv, NEW m \in Managers, Connect(m)
    PROVE  ManStep(m) /\ doc' = doc
<1> DEFINE index == indexed[man[m].current]
           paths == {t[1] : t \in DOMAIN index}
<1>1. /\ man[m].phase = "fetched"
      /\ man' = [man EXCEPT ![m].phase = "comparing", ![m].left = paths]
      /\ UNCHANGED <<device, task, edits, boots, faults>>
  BY Zenon DEF Connect
<1>2. ManFits(m, man[m]) /\ man[m].current \in Scripts
  BY <1>1 DEF BInv, ManFits
<1>3. paths \subseteq Objects
  <2>1. DOMAIN index \subseteq Keys
    BY <1>2 DEF Keys
  <2> HIDE DEF index
  <2> QED
    BY <2>1 DEF Objects
<1> HIDE DEF paths
<1> DEFINE r == [man[m] EXCEPT !.phase = "comparing", !.left = paths]
<1>4. ManFits(m, r)
  BY <1>1, <1>2, <1>3 DEF ManFits, ManRecords
<1>5. man' = [man EXCEPT ![m] = r] /\ man'[m] = r
  BY <1>1 DEF BInv
<1> HIDE DEF r
<1> QED
  BY <1>1, <1>4, <1>5 DEF ManStep, device, BInv, Bounds

\* Get keeps the invariant: what it shows is what is live.
LEMMA GetFits ==
    ASSUME BInv, NEW m \in Managers, Get(m)
    PROVE  ManStep(m) /\ doc' = doc
<1>1. man[m].phase = "comparing" /\ UNCHANGED <<device, task, edits, boots>>
  BY DEF Get
<1>2. man[m] \in ManRecords /\ ManFits(m, man[m])
  BY DEF BInv, ManFits
<1> DEFINE shown(path) == [t \in Targets |-> IF t[1] = path THEN live[t] ELSE man[m].seen[t]]
<1>3. PICK path \in man[m].left :
         \/ /\ man' = [man EXCEPT ![m].left = @ \ {path}, ![m].seen = shown(path)]
            /\ UNCHANGED faults
         \/ /\ man' = [man EXCEPT ![m].left = @ \ {path}]
            /\ faults < MaxFaults /\ faults' = faults + 1
  BY DEF Get
<1>4. faults' \in 0..MaxFaults
  BY <1>3, BootAssumption DEF BInv, Bounds
<1>5. shown(path) \in [Targets -> Reported \cup {None}]
  BY <1>2 DEF BInv, DeviceFits, ManRecords
<1> HIDE DEF shown
<1> DEFINE r(seen) == [man[m] EXCEPT !.left = @ \ {path}, !.seen = seen]
<1>6. ASSUME NEW seen \in [Targets -> Reported \cup {None}]
      PROVE  ManFits(m, r(seen))
  BY <1>1, <1>2 DEF ManFits, ManRecords
<1>7. \E seen \in [Targets -> Reported \cup {None}] : man' = [man EXCEPT ![m] = r(seen)]
  <2>1. CASE man' = [man EXCEPT ![m].left = @ \ {path}, ![m].seen = shown(path)]
    <3>1. man' = [man EXCEPT ![m] = r(shown(path))]
      BY <2>1 DEF BInv
    <3> QED
      BY <1>5, <3>1
  <2>2. CASE man' = [man EXCEPT ![m].left = @ \ {path}]
    <3>1. r(man[m].seen) = [man[m] EXCEPT !.left = @ \ {path}]
      BY <1>2 DEF ManRecords
    <3>2. man' = [man EXCEPT ![m] = r(man[m].seen)]
      <4> HIDE DEF r
      <4> QED
        BY <2>2, <3>1 DEF BInv
    <3>3. man[m].seen \in [Targets -> Reported \cup {None}]
      BY <1>2 DEF ManRecords
    <3> QED
      BY <3>2, <3>3
  <2> QED
    BY <1>3, <2>1, <2>2
<1>8. PICK seen \in [Targets -> Reported \cup {None}] : man' = [man EXCEPT ![m] = r(seen)]
  BY <1>7
<1>9. man'[m] = r(seen)
  <2> HIDE DEF r
  <2> QED
    BY <1>8 DEF BInv
<1> QED
  BY <1>1, <1>4, <1>6, <1>8, <1>9 DEF ManStep, device

\* LoseSession keeps the invariant.
LEMMA LoseSessionFits ==
    ASSUME BInv, NEW m \in Managers, LoseSession(m)
    PROVE  ManStep(m) /\ doc' = doc
BY IdleFits, BootAssumption DEF ManStep, End, LoseSession, BInv, Bounds, device

\* Compare keeps the invariant.
LEMMA CompareFits ==
    ASSUME BInv, NEW m \in Managers, Compare(m)
    PROVE  ManStep(m) /\ doc' = doc
<1> DEFINE index == indexed[man[m].current]
           read == {t[1] : t \in DOMAIN index} \ man[m].left
           shown == [t \in {t \in Targets : man[m].seen[t] # None} |-> man[m].seen[t]]
           drift == Drift(index, shown)
                    \cup {u[1] : u \in Unverifiable(index, shown, read, Factory)}
<1>1. /\ man[m].phase = "comparing"
      /\ man' = [man EXCEPT ![m].phase = "compared", ![m].seen = Unseen, ![m].drift = drift]
      /\ UNCHANGED <<device, task, edits, boots, faults>>
  BY Zenon DEF Compare
<1>2. ManFits(m, man[m]) /\ man[m].current \in Scripts
  BY <1>1 DEF BInv, ManFits
<1>3. drift \subseteq DOMAIN index
  <2> HIDE DEF index, shown, read
  <2> QED
    BY DEF Drift, Unverifiable
<1> HIDE DEF drift
<1>4. drift \subseteq Keys
  BY <1>2, <1>3 DEF Keys
<1> DEFINE r == [man[m] EXCEPT !.phase = "compared", !.seen = Unseen, !.drift = drift]
<1>5. ManFits(m, r)
  BY <1>1, <1>2, <1>3, <1>4, UnseenTyped DEF ManFits, ManRecords
<1>6. man' = [man EXCEPT ![m] = r] /\ man'[m] = r
  BY <1>1 DEF BInv
<1> HIDE DEF r
<1> QED
  BY <1>1, <1>5, <1>6 DEF ManStep, device, BInv, Bounds

\* A step of a manager other than a save.
Reads(m) ==
    \/ \E c \in BOOLEAN : Fetch(m, c)
    \/ Connect(m) \/ Get(m) \/ LoseSession(m) \/ Compare(m) \/ Report(m) \/ Verify(m)

\* Report keeps the invariant.
LEMMA ReportFits ==
    ASSUME BInv, NEW m \in Managers, Report(m)
    PROVE  ManStep(m) /\ doc' = doc
BY IdleFits DEF ManStep, End, Report, BInv, Bounds, device

\* A save leaves the script, or makes it the one asked for.
LEMMA SaveFits ==
    ASSUME BInv, NEW m \in Managers, Save(m)
    PROVE  /\ ManStep(m)
           /\ \/ doc' = doc
              \/ /\ Writes(m) /\ doc' \in Seq(Lines)
                 /\ normalise(doc') = normalise(desired[m])
                 /\ normalise(doc') # <<>>
<1> DEFINE text == render(normalise(desired[m]))
           r == [man[m] EXCEPT !.phase = "saved"]
<1>1. /\ Decided(m) /\ Writes(m) /\ UNCHANGED <<live, task, edits, boots>>
      /\ \/ doc' = doc
         \/ doc' = text /\ Saveable(text)
      /\ \/ End(m, "none")
         \/ man' = [man EXCEPT ![m].phase = "saved"]
      /\ faults' = faults \/ (faults < MaxFaults /\ faults' = faults + 1)
  BY DEF Save
<1>2. faults' \in 0..MaxFaults
  BY <1>1, BootAssumption DEF BInv, Bounds
<1>3. text \in Seq(Lines) /\ normalise(text) = normalise(desired[m]) /\ desired[m] # None
  BY <1>1, ScriptsTyped, RenderedReads DEF Writes
<1>4. ManFits(m, man[m]) /\ man[m].phase \in {"compared", "fetched"}
  BY <1>1 DEF BInv, Decided
<1>5. ManFits(m, r)
  BY <1>1, <1>4 DEF ManFits, ManRecords, Writes
<1>6. man' = [man EXCEPT ![m] = man'[m]] /\ ManFits(m, man'[m])
  <2>1. CASE End(m, "none")
    BY <2>1, IdleFits DEF End, BInv
  <2>2. CASE man' = [man EXCEPT ![m].phase = "saved"]
    BY <1>5, <2>2 DEF BInv
  <2> QED
    BY <1>1, <2>1, <2>2
<1>7. doc' = doc \/ (/\ doc' \in Seq(Lines) /\ normalise(doc') = normalise(desired[m])
                     /\ normalise(doc') # <<>>)
  <2> HIDE DEF text
  <2> QED
    BY <1>1, <1>3 DEF Saveable
<1> QED
  BY <1>1, <1>2, <1>6, <1>7 DEF ManStep

\* Verify keeps the invariant.
LEMMA VerifyFits ==
    ASSUME BInv, NEW m \in Managers, Verify(m)
    PROVE  ManStep(m) /\ doc' = doc
<1>1. PICK found \in Whole \cup Part :
         Request(found) /\ (End(m, "saved") \/ End(m, "none"))
  BY DEF Verify
<1>2. faults' \in 0..MaxFaults
  BY <1>1, RequestTyped DEF BInv
<1>3. man' = [man EXCEPT ![m] = man'[m]] /\ ManFits(m, man'[m])
  BY <1>1, IdleFits DEF End, BInv
<1> QED
  BY <1>2, <1>3 DEF ManStep, Verify, device

\* None of them touches the script.
LEMMA ReadsFit ==
    ASSUME BInv, NEW m \in Managers, Reads(m)
    PROVE  ManStep(m) /\ doc' = doc
BY FetchFits, ConnectFits, GetFits, LoseSessionFits, CompareFits, ReportFits, VerifyFits
   DEF Reads

(***************************************************************************)
(* A task's steps, the operator's and the device's.                        *)
(***************************************************************************)
TaskStep(t) ==
    /\ task' = [task EXCEPT ![t] = task'[t]] /\ TaskFits(t, task'[t])
    /\ live' \in [Targets -> Reported \cup {None}]
    /\ UNCHANGED <<doc, man, edits, boots>>
    /\ faults' \in 0..MaxFaults

\* What a task writes is in the device's own form.
LEMMA RotationTyped ==
    ASSUME NEW t \in Tasks
    PROVE  /\ DOMAIN rotation[t] \subseteq Targets
           /\ rotation_writes(t) \in [DOMAIN rotation[t] -> Reported]
           /\ Reported \subseteq Values
BY BootAssumption DEF rotation_writes, Reported

\* Begin keeps the invariant: what is warned of is what the given script contradicts.
LEMMA BeginFits ==
    ASSUME BInv, NEW t \in Tasks, NEW check_mode \in BOOLEAN,
           Begin(t, check_mode, Given(t))
    PROVE  TaskStep(t)
<1> DEFINE given == Given(t)
           reverts == IF given = None THEN {}
                      ELSE conflicts(rotation_writes(t), indexed[given])
           left == plan_rotation(t)
<1>1. given \in Scripts \cup {None}
  BY DEF Given, BInv, DeviceFits
<1>2. reverts \subseteq DOMAIN rotation[t] /\ left \subseteq DOMAIN rotation[t]
      /\ DOMAIN rotation[t] \subseteq Targets
  <2> HIDE DEF given
  <2> QED
    BY RotationTyped DEF conflicts, rotation_writes, plan_rotation
<1> DEFINE now == IdleTask(given, reverts, "unchanged")
           started == [phase |-> "writing", plan |-> left, startup_script |-> given,
                       reverts |-> reverts, outcome |-> "none"]
<1>3. TaskFits(t, now) /\ TaskFits(t, started)
  <2>1. given # None => reverts = conflicts(rotation_writes(t), indexed[given])
    OBVIOUS
  <2> HIDE DEF given, reverts, left
  <2> QED
    BY <1>1, <1>2, <2>1 DEF TaskFits, IdleTask, TaskRecords
<1>4. /\ task' = [task EXCEPT ![t] = IdleTask(None, {}, "none")]
      \/ task' = [task EXCEPT ![t] = now]
      \/ task' = [task EXCEPT ![t] = IdleTask(None, {}, "none")]
      \/ task' = [task EXCEPT ![t] = started]
  <2> HIDE DEF now, started
  <2>1. \/ Blocked(t)
        \/ ~Blocked(t) /\ left = {}
        \/ ~Blocked(t) /\ left # {} /\ check_mode
        \/ ~Blocked(t) /\ left # {} /\ ~check_mode
    OBVIOUS
  <2> QED
    BY <2>1 DEF Begin, now, started
<1> HIDE DEF now, started
<1>5. task' = [task EXCEPT ![t] = task'[t]] /\ TaskFits(t, task'[t])
  BY <1>3, <1>4, IdleFits DEF BInv
<1> QED
  BY <1>5 DEF TaskStep, Begin, BInv, DeviceFits, Bounds, device

\* Set keeps the invariant.
LEMMA SetFits ==
    ASSUME BInv, NEW t \in Tasks, Set(t)
    PROVE  TaskStep(t)
<1>1. PICK g \in task[t].plan :
         /\ task' = [task EXCEPT ![t].plan = @ \ {g}]
         /\ \/ live' = [live EXCEPT ![g] = rotation_writes(t)[g]] /\ faults' = faults
            \/ faults < MaxFaults /\ faults' = faults + 1 /\ live' = live
  BY DEF Set
<1>2. TaskFits(t, task[t]) /\ g \in DOMAIN rotation[t]
  BY DEF BInv, TaskFits
<1>3. rotation_writes(t)[g] \in Reported
  BY <1>2, RotationTyped
<1>4. live' \in [Targets -> Reported \cup {None}]
  BY <1>1, <1>3 DEF BInv, DeviceFits
<1>5. faults' \in 0..MaxFaults
  BY <1>1, BootAssumption DEF BInv, Bounds
<1> DEFINE r == [task[t] EXCEPT !.plan = @ \ {g}]
<1>6. TaskFits(t, r)
  BY <1>2 DEF TaskFits, TaskRecords
<1>7. task' = [task EXCEPT ![t] = r] /\ task'[t] = r
  BY <1>1 DEF BInv
<1> HIDE DEF r
<1> QED
  BY <1>4, <1>5, <1>6, <1>7 DEF TaskStep, Set

\* verify_rotation keeps the invariant.
LEMMA VerifyTaskFits ==
    ASSUME BInv, NEW t \in Tasks, verify_rotation(t)
    PROVE  TaskStep(t)
<1> DEFINE r == IdleTask(task[t].startup_script, task[t].reverts, "verified")
<1>1. TaskFits(t, task[t])
  BY DEF BInv
<1>2. TaskFits(t, r)
  BY <1>1 DEF TaskFits, TaskRecords, IdleTask
<1>3. task' = [task EXCEPT ![t] = r] \/ task' = [task EXCEPT ![t] = IdleTask(None, {}, "none")]
  BY DEF verify_rotation, Failed
<1> HIDE DEF r
<1>4. task' = [task EXCEPT ![t] = task'[t]] /\ TaskFits(t, task'[t])
  BY <1>2, <1>3, IdleFits DEF BInv
<1> QED
  BY <1>4 DEF TaskStep, verify_rotation, BInv, DeviceFits, Bounds, device

\* Die keeps the invariant.
LEMMA DieFits ==
    ASSUME BInv, NEW t \in Tasks, Die(t)
    PROVE  TaskStep(t)
<1>1. task' = [task EXCEPT ![t] = task'[t]] /\ TaskFits(t, task'[t])
  BY IdleFits DEF BInv, Die, Failed
<1>2. faults' \in 0..MaxFaults
  BY BootAssumption DEF BInv, Bounds, Die
<1> QED
  BY <1>1, <1>2 DEF TaskStep, Die, BInv, DeviceFits, device

\* What the loader makes of a script are assignments to properties.
LEMMA AssignmentsTyped ==
    ASSUME NEW text \in Seq(Lines)
    PROVE  Assignments(text) \in Seq(Targets \X Values)
<1>1. DOMAIN text = 1..Len(text) /\ Len(text) \in Nat
  OBVIOUS
<1>2. \A i \in DOMAIN text : text[i].sets \in Seq(Targets \X Values)
  BY BootAssumption
<1>3. [i \in DOMAIN text |-> text[i].sets] \in Seq(Seq(Targets \X Values))
  BY <1>1, <1>2
<1> QED
  BY <1>3, FlattenTyped DEF Assignments

\* A boot leaves values in the device's own form.
LEMMA ReplayTyped ==
    ASSUME DeviceFits
    PROVE  Replay(doc, live) \in [Targets -> Reported \cup {None}]
<1>1. PICK sets \in Seq(Targets \X Values) : sets = Assignments(doc)
  BY AssignmentsTyped DEF DeviceFits
<1> DEFINE By(t) == {i \in DOMAIN sets : sets[i][1] = t}
           at(t) == CHOOSE i \in By(t) : \A j \in By(t) : j <= i
<1>2. ASSUME NEW t \in Targets, By(t) # {}
      PROVE  normalise_scalar[sets[at(t)][2]] \in Reported
  <2>1. By(t) \subseteq 0..Len(sets) /\ Len(sets) \in Nat
    OBVIOUS
  <2>2. PICK i \in By(t) : \A j \in By(t) : j <= i
    <3> HIDE DEF By
    <3> QED
      BY <1>2, <2>1, Greatest
  <2>3. at(t) \in By(t)
    <3> HIDE DEF By
    <3> QED
      BY <2>2
  <2>4. PICK k \in DOMAIN sets : k = at(t)
    BY <2>3
  <2>5. sets[k][2] \in Values
    OBVIOUS
  <2> QED
    BY <2>4, <2>5 DEF Reported
<1>3. live \in [Targets -> Reported \cup {None}]
  BY DEF DeviceFits
<1>4. Replay(doc, live) = [t \in Targets |->
                             IF By(t) = {} \/ live[t] = None THEN live[t]
                             ELSE normalise_scalar[sets[at(t)][2]]]
  BY <1>1, <1>3 DEF Replay
<1> HIDE DEF By, at
<1> QED
  BY <1>2, <1>3, <1>4

\* Reboot keeps the invariant.
LEMMA RebootFits ==
    ASSUME BInv, Reboot
    PROVE  BInv'
<1>1. DeviceFits'
  BY ReplayTyped DEF BInv, DeviceFits, Reboot, Scripts, Desired, Reported
<1>2. Bounds'
  BY BootAssumption DEF BInv, Bounds, Reboot
<1>3. man' = [m \in Managers |-> man'[m]] /\ \A m \in Managers : ManFits(m, man'[m])
  BY IdleFits DEF BInv, Reboot
<1>4. task' = [t \in Tasks |-> task'[t]] /\ \A t \in Tasks : TaskFits(t, task'[t])
  BY IdleFits DEF BInv, Reboot
<1> QED
  BY <1>1, <1>2, <1>3, <1>4 DEF BInv

\* Every step keeps the invariant.
LEMMA StepFits == BInv /\ [Next]_vars => BInv'
<1> SUFFICES ASSUME BInv, [Next]_vars PROVE BInv'
  OBVIOUS
<1>1. ASSUME NEW m \in Managers, ManStep(m), DeviceFits'
      PROVE  BInv'
  <2>1. Bounds'
    BY <1>1 DEF BInv, Bounds, ManStep
  <2>2. man' = [n \in Managers |-> man'[n]] /\ \A n \in Managers : ManFits(n, man'[n])
    BY <1>1 DEF BInv, ManStep
  <2>3. task' = [t \in Tasks |-> task'[t]] /\ \A t \in Tasks : TaskFits(t, task'[t])
    BY <1>1 DEF BInv, ManStep
  <2> QED
    BY <1>1, <2>1, <2>2, <2>3 DEF BInv
<1>2. ASSUME NEW t \in Tasks, TaskStep(t)
      PROVE  BInv'
  <2>1. Bounds' /\ DeviceFits'
    BY <1>2 DEF BInv, Bounds, DeviceFits, TaskStep
  <2>2. man' = [n \in Managers |-> man'[n]] /\ \A n \in Managers : ManFits(n, man'[n])
    BY <1>2 DEF BInv, TaskStep
  <2>3. task' = [u \in Tasks |-> task'[u]] /\ \A u \in Tasks : TaskFits(u, task'[u])
    BY <1>2 DEF BInv, TaskStep
  <2> QED
    BY <2>1, <2>2, <2>3 DEF BInv
<1>3. ASSUME NEW m \in Managers, Reads(m)
      PROVE  BInv'
  <2>1. ManStep(m) /\ doc' = doc
    BY <1>3, ReadsFit
  <2>2. DeviceFits'
    BY <2>1 DEF BInv, DeviceFits, ManStep
  <2> QED
    BY <1>1, <2>1, <2>2
<1>4. ASSUME NEW m \in Managers, Save(m)
      PROVE  BInv'
  <2>1. ManStep(m) /\ (doc' = doc \/ (/\ Writes(m) /\ doc' \in Seq(Lines)
                                      /\ normalise(doc') = normalise(desired[m])))
    BY <1>4, SaveFits
  <2>2. Writes(m) => normalise(desired[m]) \in Scripts
    BY ScriptsTyped DEF Writes
  <2>3. DeviceFits'
    BY <2>1, <2>2 DEF BInv, DeviceFits, ManStep
  <2> QED
    BY <1>1, <2>1, <2>3
<1>5. ASSUME NEW t \in Tasks,
             (\E c \in BOOLEAN : Begin(t, c, Given(t))) \/ ProceedTask(t) \/ Die(t)
      PROVE  BInv'
  <2>1. TaskStep(t)
    BY <1>5, BeginFits, SetFits, VerifyTaskFits, DieFits DEF ProceedTask
  <2> QED
    BY <1>2, <2>1
<1>6. CASE Edit
  <2>1. DeviceFits' /\ Bounds'
    BY <1>6, ScriptsTyped, BootAssumption DEF Edit, BInv, DeviceFits, Bounds
  <2> QED
    BY <1>6, <2>1 DEF BInv, Edit
<1>7. CASE UNCHANGED vars
  BY <1>7 DEF vars, device, BInv, DeviceFits, Bounds
<1> QED
  BY <1>3, <1>4, <1>5, <1>6, <1>7, RebootFits DEF Next, Proceed, Reads

\* The invariant.
LEMMA BootInvariant == Spec => []BInv
BY InitFits, StepFits, PTL DEF Spec

(***************************************************************************)
(* What is written is what is parsed.                                      *)
(***************************************************************************)

\* A scan outside brackets: outside quotes, within them, after a backslash there.
Outside(out, buf) ==
    [out |-> out, buf |-> buf, depth |-> 0, in_quotes |-> FALSE, escaped |-> FALSE]
Within(out, buf) ==
    [out |-> out, buf |-> buf, depth |-> 0, in_quotes |-> TRUE, escaped |-> FALSE]
Escaped(out, buf) ==
    [out |-> out, buf |-> buf, depth |-> 0, in_quotes |-> TRUE, escaped |-> TRUE]

Special == {Comma, Quote, Backslash, "[", "]"}

\* A text is scanned in two parts as it is in one.
LEMMA ScannedConcat ==
    ASSUME NEW S, NEW st, NEW p \in Seq(S), NEW q \in Seq(S)
    PROVE  Scanned(st, p \o q) = Scanned(Scanned(st, p), q)
<1> DEFINE T == {r \in Seq(S) : Scanned(st, p \o r) = Scanned(Scanned(st, p), r)}
<1>1. <<>> \in T
  <2>1. Scanned(Scanned(st, p), <<>>) = Scanned(st, p) /\ p \o <<>> = p /\ <<>> \in Seq(S)
    BY ScannedEmpty
  <2> QED
    BY <2>1
<1>2. ASSUME NEW r \in Seq(S), NEW e \in S, r \in T PROVE Append(r, e) \in T
  <2>1. p \o Append(r, e) = Append(p \o r, e) /\ p \o r \in Seq(S) /\ Append(r, e) \in Seq(S)
    OBVIOUS
  <2>2. Scanned(st, Append(p \o r, e)) = Scan(Scanned(st, p \o r), e)
    <3>1. PICK w \in Seq(S) : w = p \o r
      BY <2>1
    <3>2. Scanned(st, Append(w, e)) = Scan(Scanned(st, w), e)
      BY ScannedAppend
    <3> QED
      BY <3>1, <3>2
  <2>3. Scanned(Scanned(st, p), Append(r, e)) = Scan(Scanned(Scanned(st, p), r), e)
    BY ScannedAppend
  <2>4. Scanned(st, p \o r) = Scanned(Scanned(st, p), r)
    BY <1>2
  <2> QED
    BY <2>1, <2>2, <2>3, <2>4
<1> HIDE DEF T
<1>3. Seq(S) \subseteq T
  BY <1>1, <1>2, SeqInduction
<1> QED
  BY <1>3 DEF T

\* What has been split off so far.
Outs == Seq(Texts)

\* A scan outside brackets, by its flags.
LEMMA StateIs ==
    ASSUME NEW r \in States, r.depth = 0
    PROVE  /\ r.in_quotes = FALSE /\ r.escaped = FALSE => r = Outside(r.out, r.buf)
           /\ r.in_quotes = TRUE /\ r.escaped = FALSE => r = Within(r.out, r.buf)
           /\ r.in_quotes = TRUE /\ r.escaped = TRUE => r = Escaped(r.out, r.buf)
BY DEF States, Outside, Within, Escaped

\* A text with one more token is a text.
LEMMA AppendText ==
    ASSUME NEW buf \in Texts, NEW ch \in Tokens
    PROVE  Append(buf, ch) \in Texts
BY DEF Texts

\* One token that is none of the special ones, or anything within quotes.
LEMMA ScanKeeps ==
    ASSUME NEW out \in Outs, NEW buf \in Texts, NEW ch \in Tokens
    PROVE  /\ ch \notin Special => Scan(Outside(out, buf), ch) = Outside(out, Append(buf, ch))
           /\ ch = Comma => Scan(Outside(out, buf), ch) = Outside(Append(out, buf), <<>>)
           /\ ch = Quote => /\ Scan(Outside(out, buf), ch) = Within(out, Append(buf, ch))
                            /\ Scan(Within(out, buf), ch) = Outside(out, Append(buf, ch))
           /\ ch = Backslash => Scan(Within(out, buf), ch) = Escaped(out, Append(buf, ch))
           /\ ch # Quote /\ ch # Backslash =>
                 Scan(Within(out, buf), ch) = Within(out, Append(buf, ch))
           /\ Scan(Escaped(out, buf), ch) = Within(out, Append(buf, ch))
<1>1. Quote # Backslash /\ Quote # Comma /\ Backslash # Comma
      /\ Comma \notin {"[", "]"} /\ Quote \notin {"[", "]"} /\ Backslash \notin {"[", "]"}
  BY DEF Quote, Backslash, Comma
<1>2. PICK o \in States : o = Outside(out, buf)
  BY DEF States, Outside, Outs
<1>3. PICK w \in States : w = Within(out, buf)
  BY DEF States, Within, Outs
<1>4. PICK x \in States : x = Escaped(out, buf)
  BY DEF States, Escaped, Outs
<1>5. /\ o.escaped = FALSE /\ o.in_quotes = FALSE /\ o.depth = 0 /\ o.out = out /\ o.buf = buf
      /\ w.escaped = FALSE /\ w.in_quotes = TRUE /\ w.depth = 0 /\ w.out = out /\ w.buf = buf
      /\ x.escaped = TRUE /\ x.in_quotes = TRUE /\ x.depth = 0 /\ x.out = out /\ x.buf = buf
  BY <1>2, <1>3, <1>4 DEF Outside, Within, Escaped
<1>6. ASSUME ch \notin Special
      PROVE  Scan(Outside(out, buf), ch) = Outside(out, Append(buf, ch))
  <2>1. Scan(o, ch) = [o EXCEPT !.buf = Append(@, ch), !.escaped = FALSE]
    BY <1>1, <1>5, <1>6 DEF Scan, Escapes, Special
  <2>2. PICK r \in States : r = Scan(o, ch)
    BY ScanTyped
  <2>3. /\ r.out = out /\ r.buf = Append(buf, ch) /\ r.depth = 0
        /\ r.in_quotes = FALSE /\ r.escaped = FALSE
    BY <1>5, <2>1, <2>2 DEF States
  <2> QED
    BY <1>2, <2>2, <2>3, StateIs
<1>7. ASSUME ch = Comma
      PROVE  Scan(Outside(out, buf), ch) = Outside(Append(out, buf), <<>>)
  <2>1. Scan(o, ch) = [o EXCEPT !.out = Append(@, o.buf), !.buf = <<>>]
    BY <1>1, <1>5, <1>7 DEF Scan, Escapes, Special
  <2>2. PICK r \in States : r = Scan(o, ch)
    BY ScanTyped
  <2>3. /\ r.out = Append(out, buf) /\ r.buf = <<>> /\ r.depth = 0
        /\ r.in_quotes = FALSE /\ r.escaped = FALSE
    BY <1>5, <2>1, <2>2 DEF States
  <2> QED
    BY <1>2, <2>2, <2>3, StateIs
<1>8. ASSUME ch = Quote
      PROVE  Scan(Outside(out, buf), ch) = Within(out, Append(buf, ch))
  <2>1. Scan(o, ch) = [[o EXCEPT !.buf = Append(@, ch), !.escaped = FALSE] EXCEPT !.in_quotes = ~@]
    BY <1>1, <1>5, <1>8 DEF Scan, Escapes, Special
  <2>2. PICK r \in States : r = Scan(o, ch)
    BY ScanTyped
  <2>3. /\ r.out = out /\ r.buf = Append(buf, ch) /\ r.depth = 0
        /\ r.in_quotes = TRUE /\ r.escaped = FALSE
    BY <1>5, <2>1, <2>2 DEF States
  <2> QED
    BY <1>2, <2>2, <2>3, StateIs
<1>9. ASSUME ch = Quote
      PROVE  Scan(Within(out, buf), ch) = Outside(out, Append(buf, ch))
  <2>1. Scan(w, ch) = [[w EXCEPT !.buf = Append(@, ch), !.escaped = FALSE] EXCEPT !.in_quotes = ~@]
    BY <1>1, <1>5, <1>9 DEF Scan, Escapes, Special
  <2>2. PICK r \in States : r = Scan(w, ch)
    BY ScanTyped
  <2>3. /\ r.out = out /\ r.buf = Append(buf, ch) /\ r.depth = 0
        /\ r.in_quotes = FALSE /\ r.escaped = FALSE
    BY <1>5, <2>1, <2>2 DEF States
  <2> QED
    BY <1>3, <2>2, <2>3, StateIs
<1>10. ASSUME ch = Backslash
      PROVE  Scan(Within(out, buf), ch) = Escaped(out, Append(buf, ch))
  <2>1. Scan(w, ch) = [[w EXCEPT !.buf = Append(@, ch), !.escaped = FALSE] EXCEPT !.escaped = TRUE]
    BY <1>1, <1>5, <1>10 DEF Scan, Escapes, Special
  <2>2. PICK r \in States : r = Scan(w, ch)
    BY ScanTyped
  <2>3. /\ r.out = out /\ r.buf = Append(buf, ch) /\ r.depth = 0
        /\ r.in_quotes = TRUE /\ r.escaped = TRUE
    BY <1>5, <2>1, <2>2 DEF States
  <2> QED
    BY <1>3, <2>2, <2>3, StateIs
<1>11. ASSUME ch # Quote, ch # Backslash
      PROVE  Scan(Within(out, buf), ch) = Within(out, Append(buf, ch))
  <2>1. Scan(w, ch) = [w EXCEPT !.buf = Append(@, ch), !.escaped = FALSE]
    BY <1>1, <1>5, <1>11 DEF Scan, Escapes, Special
  <2>2. PICK r \in States : r = Scan(w, ch)
    BY ScanTyped
  <2>3. /\ r.out = out /\ r.buf = Append(buf, ch) /\ r.depth = 0
        /\ r.in_quotes = TRUE /\ r.escaped = FALSE
    BY <1>5, <2>1, <2>2 DEF States
  <2> QED
    BY <1>3, <2>2, <2>3, StateIs
<1>12. Scan(Escaped(out, buf), ch) = Within(out, Append(buf, ch))
  <2>1. Scan(x, ch) = [x EXCEPT !.buf = Append(@, ch), !.escaped = FALSE]
    BY <1>1, <1>5 DEF Scan, Escapes, Special
  <2>2. PICK r \in States : r = Scan(x, ch)
    BY ScanTyped
  <2>3. /\ r.out = out /\ r.buf = Append(buf, ch) /\ r.depth = 0
        /\ r.in_quotes = TRUE /\ r.escaped = FALSE
    BY <1>5, <2>1, <2>2 DEF States
  <2> QED
    BY <1>4, <2>2, <2>3, StateIs
<1> QED
  BY <1>6, <1>7, <1>8, <1>9, <1>10, <1>11, <1>12

\* The first i + 1 elements are the first i and one more.
LEMMA PrefixMore ==
    ASSUME NEW S, NEW text \in Seq(S), NEW i \in Nat, i + 1 <= Len(text)
    PROVE  /\ SubSeq(text, 1, i) \in Seq(S) /\ text[i + 1] \in S
           /\ SubSeq(text, 1, i + 1) = Append(SubSeq(text, 1, i), text[i + 1])
<1>1. PICK r \in Seq(S) : r = SubSeq(text, 1, i)
  <2>1. 1 \in 1..Len(text) + 1 /\ i \in 1 - 1..Len(text)
    OBVIOUS
  <2>2. SubSeq(text, 1, i) \in Seq(S)
    BY <2>1, SubSeqProperties
  <2> QED
    BY <2>2, Zenon
<1>2. PICK q \in Seq(S) : q = SubSeq(text, 1, i + 1)
  <2>1. 1 \in 1..Len(text) + 1 /\ i + 1 \in 1 - 1..Len(text)
    OBVIOUS
  <2>2. SubSeq(text, 1, i + 1) \in Seq(S)
    BY <2>1, SubSeqProperties
  <2> QED
    BY <2>2, Zenon
<1>3. PICK a \in Seq(S) : a = Append(r, text[i + 1])
  <2>1. text[i + 1] \in S
    OBVIOUS
  <2>2. Append(r, text[i + 1]) \in Seq(S)
    BY <2>1
  <2> QED
    BY <2>2, Zenon
<1>4. Len(q) = i + 1 /\ \A k \in 1..i + 1 : q[k] = text[k]
  BY <1>2
<1>5. Len(r) = i /\ \A k \in 1..i : r[k] = text[k]
  BY <1>1
<1>6. Len(a) = i + 1 /\ \A k \in 1..i + 1 : a[k] = text[k]
  BY <1>3, <1>5
<1>7. q = a
  BY <1>4, <1>6
<1> QED
  BY <1>1, <1>2, <1>3, <1>7

\* A plain text is added to what is scanned.
LEMMA PlainScan ==
    ASSUME NEW text \in Seq(Tokens), NEW buf \in Seq(Tokens), NEW out \in Outs,
           \A i \in DOMAIN text : text[i] \notin Special
    PROVE  Scanned(Outside(out, buf), text) = Outside(out, buf \o text)
<1> DEFINE s == Outside(out, buf)
           T == {r \in Seq(Tokens) : (\A i \in DOMAIN r : r[i] \notin Special) =>
                    Scanned(s, r) = Outside(out, buf \o r)}
<1>1. <<>> \in T
  <2>1. Scanned(s, <<>>) = s /\ buf \o <<>> = buf /\ <<>> \in Seq(Tokens)
    BY ScannedEmpty
  <2> QED
    BY <2>1
<1>2. ASSUME NEW r \in Seq(Tokens), NEW e \in Tokens, r \in T PROVE Append(r, e) \in T
  <2>1. SUFFICES ASSUME \A i \in DOMAIN Append(r, e) : Append(r, e)[i] \notin Special
                 PROVE  Scanned(s, Append(r, e)) = Outside(out, buf \o Append(r, e))
    <3>1. Append(r, e) \in Seq(Tokens)
      OBVIOUS
    <3> QED
      BY <3>1
  <2>2. PICK n \in Nat : n = Len(r) /\ DOMAIN r = 1..n
    OBVIOUS
  <2>3. /\ DOMAIN Append(r, e) = 1..n + 1 /\ Append(r, e)[n + 1] = e
        /\ \A i \in 1..n : Append(r, e)[i] = r[i]
    BY <2>2
  <2>4. e \notin Special /\ \A i \in DOMAIN r : r[i] \notin Special
    BY <2>1, <2>2, <2>3
  <2>5. Scanned(s, r) = Outside(out, buf \o r)
    BY <1>2, <2>4
  <2>6. Scanned(s, Append(r, e)) = Scan(Scanned(s, r), e)
    BY ScannedAppend
  <2>7. Scan(Outside(out, buf \o r), e) = Outside(out, Append(buf \o r, e))
    <3>1. buf \o r \in Texts
      BY DEF Texts
    <3> QED
      BY <2>4, <3>1, ScanKeeps
  <2>8. Append(buf \o r, e) = buf \o Append(r, e)
    OBVIOUS
  <2> HIDE DEF s
  <2> QED
    BY <2>5, <2>6, <2>7, <2>8
<1> HIDE DEF T
<1>3. Seq(Tokens) \subseteq T
  BY <1>1, <1>2, SeqInduction
<1> QED
  BY <1>3 DEF T

\* The text of a value in quotes stays in one piece.
LEMMA QuotedScan ==
    ASSUME NEW text \in Seq(Tokens), NEW buf \in Seq(Tokens), NEW out \in Outs, Protected(text)
    PROVE  Scanned(Within(out, buf), text) = Within(out, buf \o text)
<1>1. PICK n \in Nat : n = Len(text) /\ DOMAIN text = 1..n
  OBVIOUS
<1>0. \A r \in Seq(Tokens) : /\ buf \o r \in Texts
                             /\ \A c \in Tokens : Append(buf \o r, c) = buf \o Append(r, c)
  <2>1. \A r \in Seq(Tokens) : buf \o r \in Texts
    BY DEF Texts
  <2>2. ASSUME NEW r \in Seq(Tokens), NEW c \in Tokens
        PROVE  Append(buf \o r, c) = buf \o Append(r, c)
    OBVIOUS
  <2> QED
    BY <2>1, <2>2
<1>2. PICK escapes :
         /\ escapes[0] = FALSE /\ escapes[n] = FALSE /\ \A i \in 0..n : escapes[i] \in BOOLEAN
         /\ \A i \in 1..n : /\ escapes[i] <=> text[i] = Backslash /\ ~escapes[i - 1]
                            /\ text[i] = Quote => escapes[i - 1]
  <2>1. PICK escapes \in [0..n -> BOOLEAN] :
           /\ ~escapes[0] /\ ~escapes[n]
           /\ \A i \in 1..n : /\ escapes[i] <=> text[i] = Backslash /\ ~escapes[i - 1]
                              /\ text[i] = Quote => escapes[i - 1]
    BY <1>1, Zenon DEF Protected
  <2>2. 0 \in 0..n /\ n \in 0..n
    OBVIOUS
  <2>3. escapes[0] \in BOOLEAN /\ escapes[n] \in BOOLEAN /\ \A i \in 0..n : escapes[i] \in BOOLEAN
    BY <2>2
  <2> QED
    BY <2>1, <2>3, Zenon
<1> DEFINE Scanning(e, b) == IF e THEN Escaped(out, b) ELSE Within(out, b)
           s == Within(out, buf)
           T == {i \in Nat : i <= n => Scanned(s, SubSeq(text, 1, i))
                                       = Scanning(escapes[i], buf \o SubSeq(text, 1, i))}
<1>3. 0 \in T
  <2>1. SubSeq(text, 1, 0) = <<>> /\ buf \o <<>> = buf
    OBVIOUS
  <2>2. Scanned(s, <<>>) = s
    BY ScannedEmpty
  <2> QED
    BY <1>2, <2>1, <2>2
<1>4. ASSUME NEW i \in Nat, i \in T PROVE i + 1 \in T
  <2>1. SUFFICES ASSUME i + 1 <= n
                 PROVE  Scanned(s, SubSeq(text, 1, i + 1))
                        = Scanning(escapes[i + 1], buf \o SubSeq(text, 1, i + 1))
    OBVIOUS
  <2>2. PICK r \in Seq(Tokens) : r = SubSeq(text, 1, i)
    BY <1>1, <2>1, PrefixMore
  <2>3. PICK ch \in Tokens : ch = text[i + 1]
    BY <1>1, <2>1, PrefixMore
  <2>4. SubSeq(text, 1, i + 1) = Append(r, ch)
    BY <1>1, <2>1, <2>2, <2>3, PrefixMore
  <2>12. Append(buf \o r, ch) = buf \o Append(r, ch) /\ buf \o r \in Texts
    BY <1>0
  <2>5. Scanned(s, r) = Scanning(escapes[i], buf \o r)
    BY <1>4, <2>1, <2>2
  <2>6. Scanned(s, Append(r, ch)) = Scan(Scanned(s, r), ch)
    BY ScannedAppend
  <2>7. PICK e \in BOOLEAN : e = escapes[i]
    BY <1>2, <2>1
  <2>8. PICK f \in BOOLEAN : f = escapes[i + 1]
    BY <1>2, <2>1
  <2>9. f <=> ch = Backslash /\ ~e
    BY <1>2, <2>1, <2>3, <2>7, <2>8
  <2>10. ch = Quote => e = TRUE
    <3>1. PICK k \in 1..n : k = i + 1 /\ k - 1 = i
      BY <1>1, <2>1
    <3>2. text[k] = Quote => escapes[k - 1]
      BY <1>2
    <3> QED
      BY <2>3, <2>7, <3>1, <3>2
  <2>11. Scan(Scanning(e, buf \o r), ch) = Scanning(f, Append(buf \o r, ch))
    <3>1. CASE e = TRUE
      <4>1. f = FALSE
        BY <2>9, <3>1
      <4> QED
        BY <3>1, <2>12, <4>1, ScanKeeps
    <3>2. CASE e = FALSE /\ ch = Backslash
      <4>1. f = TRUE
        BY <2>9, <3>2
      <4> QED
        BY <3>2, <2>12, <4>1, ScanKeeps
    <3>3. CASE e = FALSE /\ ch # Backslash
      <4>1. f = FALSE /\ ch # Quote
        BY <2>9, <2>10, <3>3
      <4> QED
        BY <3>3, <2>12, <4>1, ScanKeeps
    <3> QED
      BY <3>1, <3>2, <3>3
  <2> HIDE DEF s
  <2> QED
    BY <2>4, <2>5, <2>6, <2>7, <2>8, <2>11, <2>12
<1>5. n \in T
  <2> HIDE DEF T
  <2> QED
    BY <1>3, <1>4, Induction
<1>6. SubSeq(text, 1, n) = text
  BY <1>1
<1>7. Scanned(s, SubSeq(text, 1, n)) = Scanning(escapes[n], buf \o SubSeq(text, 1, n))
  <2> HIDE DEF s, Scanning
  <2> QED
    BY <1>5
<1>8. Scanned(s, text) = Scanning(escapes[n], buf \o text)
  <2> HIDE DEF s, Scanning, T
  <2> QED
    BY <1>6, <1>7, Zenon
<1> QED
  BY <1>2, <1>8

\* What LoaderAssumption asks of an item.
GoodItem(item) ==
    /\ item \in Items
    /\ item.name # None =>
          \A i \in DOMAIN item.name : item.name[i] \notin Special /\ item.name[i] # "="
    /\ item.name = None =>
          /\ item.quoted \/ item.value # <<>>
          /\ \A i \in DOMAIN item.value : item.value[i] # "="
    /\ IF item.quoted THEN Protected(item.value)
       ELSE \A i \in DOMAIN item.value : item.value[i] \notin Special /\ item.value[i] # "="

\* The items of a line are good.
LEMMA ItemsGood ==
    ASSUME NEW l \in Lines
    PROVE  l.items \in Seq(Items) /\ \A i \in DOMAIN l.items : GoodItem(l.items[i])
<1>1. l.items \in Seq(Items)
  BY LoaderAssumption
<1> SUFFICES ASSUME NEW i \in DOMAIN l.items PROVE GoodItem(l.items[i])
  BY <1>1
<1>2. l.items[i] \in Items
  BY <1>1
<1>3. PICK item \in Items : item = l.items[i]
  BY <1>2
<1> DEFINE Plain(text) == ToSet(text) \cap {"=", Comma, Quote, Backslash, "[", "]"} = {}
<1>4. /\ IF item.name # None THEN Plain(item.name)
         ELSE (item.quoted \/ item.value # <<>>) /\ "=" \notin ToSet(item.value)
      /\ IF item.quoted THEN Protected(item.value) ELSE Plain(item.value)
  BY <1>3, LoaderAssumption, Zenon
<1>5. \A text : Plain(text) =>
         \A k \in DOMAIN text : text[k] \notin Special /\ text[k] # "="
  BY DEF ToSet, Special
<1>6. "=" \notin ToSet(item.value) => \A k \in DOMAIN item.value : item.value[k] # "="
  BY DEF ToSet
<1> HIDE DEF Plain
<1> QED
  BY <1>3, <1>4, <1>5, <1>6 DEF GoodItem

\* The scan of one token is one step.
LEMMA ScannedOne ==
    ASSUME NEW st, NEW e
    PROVE  Scanned(st, <<e>>) = Scan(st, e)
<1>1. PICK none \in Seq({e}) : none = <<>>
  <2>1. <<>> \in Seq({e})
    OBVIOUS
  <2> QED
    BY <2>1, Zenon
<1>2. Append(none, e) = <<e>> /\ Scanned(st, none) = st
  BY <1>1, ScannedEmpty
<1>3. Scanned(st, Append(none, e)) = Scan(Scanned(st, none), e)
  BY ScannedAppend
<1> QED
  BY <1>2, <1>3

\* Two texts in a row are a text.
LEMMA ConcatTyped ==
    ASSUME NEW S, NEW p \in Seq(S), NEW q \in Seq(S)
    PROVE  p \o q \in Seq(S)
OBVIOUS

\* Outside quotes, a protected value in quotes is added to what is scanned.
LEMMA QuotedItemScan ==
    ASSUME NEW v \in Seq(Tokens), Protected(v), NEW out \in Outs, NEW b \in Seq(Tokens)
    PROVE  Scanned(Outside(out, b), (<<Quote>> \o v) \o <<Quote>>)
              = Outside(out, b \o ((<<Quote>> \o v) \o <<Quote>>))
<1>1. Quote \in Tokens
  BY LoaderAssumption
<1> DEFINE q == <<Quote>>
           b1 == b \o q
           b2 == b1 \o v
           qv == q \o v
<1>2. q \in Seq(Tokens)
  BY <1>1
<1>3. Append(b, Quote) = b1
  BY <1>1
<1> HIDE DEF q
<1>4. b1 \in Seq(Tokens) /\ qv \in Seq(Tokens)
  BY <1>2
<1>5. b2 \in Seq(Tokens)
  <2> HIDE DEF b1
  <2> QED
    BY <1>4
<1>6. Append(b2, Quote) = b2 \o q
  <2> HIDE DEF b2
  <2> QED
    BY <1>1, <1>5 DEF q
<1>7. b2 \o q = b \o (qv \o q)
  BY <1>2
<1> HIDE DEF b1, b2, qv
<1>8. Scanned(Outside(out, b), q) = Within(out, b1)
  <2>1. b \in Texts
    BY DEF Texts
  <2>2. Scan(Outside(out, b), Quote) = Within(out, Append(b, Quote))
    BY <1>1, <2>1, ScanKeeps
  <2> QED
    BY <1>3, <2>2, ScannedOne DEF q
<1>9. Scanned(Within(out, b1), v) = Within(out, b2)
  BY <1>4, QuotedScan DEF b2
<1>10. Scanned(Within(out, b2), q) = Outside(out, b2 \o q)
  <2>1. b2 \in Texts
    BY <1>5 DEF Texts
  <2>2. Scan(Within(out, b2), Quote) = Outside(out, Append(b2, Quote))
    BY <1>1, <2>1, ScanKeeps
  <2> QED
    BY <1>6, <2>2, ScannedOne DEF q
<1>11. Scanned(Outside(out, b), qv) = Within(out, b2)
  BY <1>2, <1>8, <1>9, ScannedConcat DEF qv
<1>12. Scanned(Outside(out, b), qv \o q) = Outside(out, b2 \o q)
  BY <1>2, <1>4, <1>10, <1>11, ScannedConcat
<1> QED
  BY <1>7, <1>12 DEF qv, q

\* So is every item, as it is written.
LEMMA ItemScan ==
    ASSUME NEW item, GoodItem(item), NEW out \in Outs, NEW buf \in Seq(Tokens)
    PROVE  Scanned(Outside(out, buf), WrittenItem(item)) = Outside(out, buf \o WrittenItem(item))
<1>1. "=" \in Tokens /\ Quote \in Tokens
  BY LoaderAssumption
<1> DEFINE p == IF item.name = None THEN <<>> ELSE item.name \o <<"=">>
           r == IF item.quoted THEN (<<Quote>> \o item.value) \o <<Quote>> ELSE item.value
           b == buf \o p
<1>2. p \in Seq(Tokens) /\ \A i \in DOMAIN p : p[i] \notin Special
  <2>1. CASE item.name = None
    BY <2>1
  <2>2. CASE item.name # None
    <3>1. PICK name \in Seq(Tokens) : /\ name = item.name
                                      /\ \A i \in DOMAIN name : name[i] \notin Special
      BY <2>2 DEF GoodItem, Items
    <3>2. "=" \notin Special
      BY DEF Special, Comma, Quote, Backslash
    <3>3. PICK q : q = name \o <<"=">>
      OBVIOUS
    <3>4. q \in Seq(Tokens)
      BY <1>1, <3>3
    <3>5. \A i \in DOMAIN q : q[i] \notin Special
      BY <1>1, <3>1, <3>2, <3>3
    <3>6. p = q
      BY <2>2, <3>1, <3>3
    <3> HIDE DEF p
    <3> QED
      BY <3>4, <3>5, <3>6
  <2> QED
    BY <2>1, <2>2
<1>3. item.value \in Seq(Tokens)
  BY DEF GoodItem, Items
<1> HIDE DEF p
<1>4. b \in Seq(Tokens) /\ Scanned(Outside(out, buf), p) = Outside(out, b)
  <2>1. b \in Seq(Tokens)
    BY <1>2
  <2> QED
    BY <1>2, <2>1, PlainScan
<1> HIDE DEF b
<1>5. r \in Seq(Tokens) /\ Scanned(Outside(out, b), r) = Outside(out, b \o r)
  <2>1. PICK v \in Seq(Tokens) : v = item.value
    BY <1>3
  <2>2. CASE ~item.quoted
    <3>1. \A i \in DOMAIN v : v[i] \notin Special
      BY <2>1, <2>2 DEF GoodItem
    <3>2. Scanned(Outside(out, b), v) = Outside(out, b \o v)
      BY <1>4, <3>1, PlainScan
    <3>3. r = v
      BY <2>1, <2>2
    <3> HIDE DEF r
    <3> QED
      BY <3>2, <3>3
  <2>3. CASE item.quoted
    <3>1. Protected(v)
      BY <2>1, <2>3 DEF GoodItem
    <3>2. r = (<<Quote>> \o v) \o <<Quote>>
      BY <2>1, <2>3
    <3>3. r \in Seq(Tokens)
      <4>1. <<Quote>> \in Seq(Tokens)
        BY <1>1
      <4>2. <<Quote>> \o v \in Seq(Tokens)
        BY <4>1, ConcatTyped
      <4>3. (<<Quote>> \o v) \o <<Quote>> \in Seq(Tokens)
        BY <4>1, <4>2, ConcatTyped
      <4> HIDE DEF r
      <4> QED
        BY <3>2, <4>3
    <3>4. Scanned(Outside(out, b), (<<Quote>> \o v) \o <<Quote>>)
             = Outside(out, b \o ((<<Quote>> \o v) \o <<Quote>>))
      BY <1>4, <3>1, QuotedItemScan
    <3> HIDE DEF r
    <3> QED
      BY <3>2, <3>3, <3>4, Zenon
  <2> QED
    BY <2>2, <2>3
<1>6. WrittenItem(item) = p \o r
  BY Zenon DEF WrittenItem, p
<1> HIDE DEF r
<1>7. Scanned(Outside(out, buf), p \o r) = Outside(out, b \o r)
  BY <1>2, <1>4, <1>5, ScannedConcat
<1>8. b \o r = buf \o (p \o r)
  BY <1>2, <1>5 DEF b
<1> QED
  BY <1>6, <1>7, <1>8, Zenon

GoodItems == {item \in Items : GoodItem(item)}

\* The items of a line, with the comma between them and without.
PartAt(i, item) == (IF i = 1 THEN <<>> ELSE <<Comma>>) \o WrittenItem(item)
PartsOf(items) == [i \in DOMAIN items |-> PartAt(i, items[i])]
Written(items) == [i \in DOMAIN items |-> WrittenItem(items[i])]

\* Items are written in tokens, with a comma or without.
LEMMA PartTyped ==
    ASSUME NEW i, NEW item \in GoodItems
    PROVE  WrittenItem(item) \in Texts /\ PartAt(i, item) \in Texts
<1>1. PICK w \in Seq(Tokens) : w = WrittenItem(item)
  BY ItemTyped DEF GoodItems
<1>2. Comma \in Tokens
  BY LoaderAssumption
<1>3. <<>> \o w \in Seq(Tokens) /\ <<Comma>> \o w \in Seq(Tokens)
  BY <1>2
<1> QED
  BY <1>1, <1>3 DEF PartAt, Texts

\* One more item is one more part.
LEMMA PartsMore ==
    ASSUME NEW q \in Seq(GoodItems), NEW e \in GoodItems
    PROVE  /\ PartsOf(q) \in Outs /\ Written(q) \in Outs
           /\ PartsOf(Append(q, e)) = Append(PartsOf(q), PartAt(Len(q) + 1, e))
           /\ Written(Append(q, e)) = Append(Written(q), WrittenItem(e))
           /\ PartsOf(q) = <<>> <=> q = <<>>
<1>1. PICK n \in Nat : n = Len(q) /\ DOMAIN q = 1..n
  OBVIOUS
<1>2. PICK a : a = Append(q, e)
  OBVIOUS
<1>3. DOMAIN a = 1..n + 1 /\ a[n + 1] = e /\ \A i \in 1..n : a[i] = q[i] /\ q[i] \in GoodItems
  BY <1>1, <1>2
<1>4. ASSUME NEW f, DOMAIN f = 1..n, \A i \in 1..n : f[i] \in Texts, f = [i \in 1..n |-> f[i]],
             NEW x \in Texts,
             NEW g, g = [i \in 1..n + 1 |-> IF i <= n THEN f[i] ELSE x]
      PROVE  f \in Outs /\ g = Append(f, x) /\ Len(f) = n
  <2>1. f \in Seq(Texts) /\ Len(f) = n
    BY <1>4
  <2>2. PICK b : b = Append(f, x)
    OBVIOUS
  <2>3. b \in Seq(Texts) /\ Len(b) = n + 1
    BY <2>1, <2>2
  <2>4. \A i \in 1..n + 1 : b[i] = IF i <= n THEN f[i] ELSE x
    BY <2>1, <2>2
  <2>5. g \in Seq(Texts) /\ Len(g) = n + 1
    BY <1>4
  <2>6. \A i \in 1..n + 1 : g[i] = b[i]
    BY <1>4, <2>4
  <2>7. g = b
    BY <2>3, <2>5, <2>6
  <2> QED
    BY <2>1, <2>2, <2>7 DEF Outs
<1>5. PartsOf(q) \in Outs /\ PartsOf(a) = Append(PartsOf(q), PartAt(n + 1, e))
      /\ Len(PartsOf(q)) = n
  <2> DEFINE f == PartsOf(q)
             x == PartAt(n + 1, e)
             g == PartsOf(a)
  <2>1. DOMAIN f = 1..n /\ f = [i \in 1..n |-> f[i]]
    BY <1>1 DEF PartsOf
  <2>2. \A i \in 1..n : f[i] = PartAt(i, q[i])
    BY <1>1 DEF PartsOf
  <2>3. \A i \in 1..n : f[i] \in Texts
    BY <1>3, <2>2, PartTyped
  <2>4. x \in Texts
    BY PartTyped
  <2>5. g = [i \in 1..n + 1 |-> IF i <= n THEN f[i] ELSE x]
    <3>1. g = [i \in 1..n + 1 |-> PartAt(i, a[i])]
      BY <1>3 DEF PartsOf
    <3>2. \A i \in 1..n + 1 : PartAt(i, a[i]) = IF i <= n THEN f[i] ELSE x
      BY <1>3, <2>2
    <3> HIDE DEF f, g, x
    <3> QED
      BY <3>1, <3>2
  <2> HIDE DEF f, g, x
  <2>6. f \in Outs /\ g = Append(f, x) /\ Len(f) = n
    BY <1>4, <2>1, <2>3, <2>4, <2>5
  <2> QED
    BY <2>6 DEF f, g, x
<1>6. Written(q) \in Outs /\ Written(a) = Append(Written(q), WrittenItem(e))
  <2> DEFINE f == Written(q)
             x == WrittenItem(e)
             g == Written(a)
  <2>1. DOMAIN f = 1..n /\ f = [i \in 1..n |-> f[i]]
    BY <1>1 DEF Written
  <2>2. \A i \in 1..n : f[i] = WrittenItem(q[i])
    BY <1>1 DEF Written
  <2>3. \A i \in 1..n : f[i] \in Texts
    BY <1>3, <2>2, PartTyped
  <2>4. x \in Texts
    BY PartTyped
  <2>5. g = [i \in 1..n + 1 |-> IF i <= n THEN f[i] ELSE x]
    <3>1. g = [i \in 1..n + 1 |-> WrittenItem(a[i])]
      BY <1>3 DEF Written
    <3>2. \A i \in 1..n + 1 : WrittenItem(a[i]) = IF i <= n THEN f[i] ELSE x
      BY <1>3, <2>2
    <3> HIDE DEF f, g, x
    <3> QED
      BY <3>1, <3>2
  <2> HIDE DEF f, g, x
  <2>6. f \in Outs /\ g = Append(f, x)
    BY <1>4, <2>1, <2>3, <2>4, <2>5
  <2> QED
    BY <2>6 DEF f, g, x
<1>7. PartsOf(q) = <<>> <=> q = <<>>
  <2>1. PICK p : p = PartsOf(q)
    OBVIOUS
  <2>2. p \in Seq(Texts) /\ Len(p) = n
    BY <1>5, <2>1 DEF Outs
  <2>3. p = <<>> <=> n = 0
    BY <2>2
  <2>4. q = <<>> <=> n = 0
    BY <1>1
  <2> QED
    BY <2>1, <2>3, <2>4
<1> QED
  BY <1>1, <1>2, <1>5, <1>6, <1>7

\* Where the scan of a line ends: all but the last item are in `out'.
Split(items) ==
    \E out \in Outs, buf \in Texts :
        /\ FlattenSeq(PartsOf(items)) \in Texts
        /\ Scanned(Start, FlattenSeq(PartsOf(items))) = Outside(out, buf)
        /\ Append(out, buf) = Written(items)

\* The scan of a line splits it at the commas between its items.
LEMMA RestScan ==
    ASSUME NEW items \in Seq(GoodItems), items # <<>>
    PROVE  Split(items)
<1> DEFINE T == {q \in Seq(GoodItems) : q # <<>> => Split(q)}
<1>1. <<>> \in T
  <2>1. <<>> \in Seq(GoodItems)
    OBVIOUS
  <2> QED
    BY <2>1
<1>2. ASSUME NEW q \in Seq(GoodItems), NEW e \in GoodItems, q \in T PROVE Append(q, e) \in T
  <2>1. PICK a \in Seq(GoodItems) : a = Append(q, e)
    <3>1. Append(q, e) \in Seq(GoodItems)
      OBVIOUS
    <3> QED
      BY <3>1, Zenon
  <2>2. PICK w \in Texts : w = WrittenItem(e)
    BY PartTyped
  <2>3. PICK x \in Texts : x = PartAt(Len(q) + 1, e)
    BY PartTyped
  <2>4. PICK ps \in Outs : ps = PartsOf(q)
    BY PartsMore
  <2>5. PartsOf(a) = Append(ps, x) /\ Written(a) = Append(Written(q), w) /\ (ps = <<>> <=> q = <<>>)
    BY <2>1, <2>2, <2>3, <2>4, PartsMore
  <2>6. FlattenSeq(PartsOf(a)) = IF ps = <<>> THEN x ELSE FlattenSeq(ps) \o x
    BY <2>5, FlattenOneMore DEF Outs
  <2>7. GoodItem(e)
    BY DEF GoodItems
  <2>8. <<>> \in Texts /\ <<>> \in Outs
    BY DEF Texts, Outs
  <2>9. ASSUME NEW out \in Outs
        PROVE  Scanned(Outside(out, <<>>), w) = Outside(out, w)
    <3>1. Scanned(Outside(out, <<>>), w) = Outside(out, <<>> \o w)
      BY <2>2, <2>7, <2>8, ItemScan DEF Texts
    <3>2. <<>> \o w = w
      BY DEF Texts
    <3> QED
      BY <3>1, <3>2
  <2>10. CASE q = <<>>
    <3>1. x = w
      <4>1. Len(q) + 1 = 1
        BY <2>10
      <4>2. <<>> \o w = w
        BY DEF Texts
      <4> QED
        BY <2>2, <2>3, <4>1, <4>2 DEF PartAt
    <3>2. FlattenSeq(PartsOf(a)) = w
      BY <2>5, <2>6, <2>10, <3>1
    <3>3. Scanned(Start, w) = Outside(<<>>, w)
      BY <2>8, <2>9 DEF Start, Outside
    <3>4. Written(q) = <<>>
      BY <2>10 DEF Written
    <3>5. Append(<<>>, w) = Written(a)
      BY <2>5, <3>4
    <3>6. Split(a)
      BY <2>8, <3>2, <3>3, <3>5, Zenon DEF Split
    <3> QED
      BY <2>1, <3>6
  <2>11. CASE q # <<>>
    <3>1. PICK out \in Outs, buf \in Texts :
             /\ FlattenSeq(ps) \in Texts
             /\ Scanned(Start, FlattenSeq(ps)) = Outside(out, buf)
             /\ Append(out, buf) = Written(q)
      BY <1>2, <2>4, <2>11, Zenon DEF Split
    <3>2. PICK f \in Texts : f = FlattenSeq(ps)
      BY <3>1
    <3>3. PICK comma \in Texts : comma = <<Comma>> /\ Comma \in Tokens
      <4>1. Comma \in Tokens
        BY LoaderAssumption
      <4>2. <<Comma>> \in Texts
        BY <4>1 DEF Texts
      <4> QED
        BY <4>1, <4>2
    <3>4. x = comma \o w
      <4>1. Len(q) + 1 # 1
        BY <2>11
      <4> QED
        BY <2>2, <2>3, <3>3, <4>1 DEF PartAt
    <3>5. FlattenSeq(PartsOf(a)) = f \o x /\ f \o x \in Texts
      <4>1. f \o x \in Texts
        BY DEF Texts
      <4> QED
        BY <2>5, <2>6, <2>11, <3>2, <4>1
    <3>6. PICK o \in Outs : o = Append(out, buf)
      <4>1. Append(out, buf) \in Outs
        BY DEF Outs
      <4> QED
        BY <4>1, Zenon
    <3>7. Scanned(Outside(out, buf), comma) = Outside(o, <<>>)
      <4>1. Scan(Outside(out, buf), Comma) = Outside(Append(out, buf), <<>>)
        BY <3>3, ScanKeeps
      <4> QED
        BY <3>3, <3>6, <4>1, ScannedOne
    <3>8. Scanned(Outside(out, buf), comma \o w) = Outside(o, w)
      <4>1. Scanned(Outside(o, <<>>), w) = Outside(o, w)
        BY <2>9
      <4>2. Scanned(Outside(out, buf), comma \o w)
               = Scanned(Scanned(Outside(out, buf), comma), w)
        BY ScannedConcat DEF Texts
      <4> QED
        BY <3>7, <4>1, <4>2
    <3>9. Scanned(Start, f \o x) = Outside(o, w)
      <4>1. Scanned(Start, f \o x) = Scanned(Scanned(Start, f), x)
        BY ScannedConcat DEF Texts
      <4> QED
        BY <3>1, <3>2, <3>4, <3>8, <4>1
    <3>10. Append(o, w) = Written(a)
      BY <2>5, <3>1, <3>6
    <3>11. Split(a)
      BY <3>5, <3>9, <3>10, Zenon DEF Split
    <3> QED
      BY <2>1, <3>11
  <2> QED
    BY <2>10, <2>11
<1> HIDE DEF T
<1>3. Seq(GoodItems) \subseteq T
  BY <1>1, <1>2, SeqInduction
<1> QED
  BY <1>3 DEF T

\* Sequences of one length with the same elements are the same.
LEMMA SeqEq ==
    ASSUME NEW S, NEW p \in Seq(S), NEW q \in Seq(S), Len(p) = Len(q),
           \A i \in 1..Len(q) : p[i] = q[i]
    PROVE  p = q
OBVIOUS

\* An item by its two halves.
InHalves(item, p, r, v) ==
    /\ WrittenItem(item) = p \o r /\ v = item.value
    /\ item.name = None => /\ p = <<>> /\ r # <<>>
                           /\ \A i \in DOMAIN r : r[i] # "="
    /\ item.name # None =>
          \E name \in Seq(Tokens) : /\ name = item.name
                                    /\ p = Append(name, "=")
                                    /\ \A i \in DOMAIN name : name[i] # "="
    /\ IF item.quoted THEN r = Append(<<Quote>> \o v, Quote)
       ELSE r = v /\ \A i \in DOMAIN v : v[i] # Quote

\* Every good item is a name with "=", or nothing, and what the value is written as.
LEMMA Halves ==
    ASSUME NEW item \in GoodItems
    PROVE  \E p \in Seq(Tokens), r \in Seq(Tokens), v \in Seq(Tokens) : InHalves(item, p, r, v)
<1>1. GoodItem(item) /\ item \in Items
  BY DEF GoodItems
<1>2. "=" \in Tokens /\ Quote \in Tokens /\ Quote \in Special /\ Quote # "="
  BY LoaderAssumption DEF Special, Quote
<1>3. PICK v \in Seq(Tokens) : v = item.value
  BY <1>1 DEF Items
<1>4. PICK p \in Seq(Tokens) :
         /\ p = IF item.name = None THEN <<>> ELSE item.name \o <<"=">>
         /\ item.name # None =>
               \E name \in Seq(Tokens) : /\ name = item.name
                                         /\ p = Append(name, "=")
                                         /\ \A i \in DOMAIN name : name[i] # "="
  <2>1. CASE item.name = None
    <3>1. <<>> \in Seq(Tokens)
      OBVIOUS
    <3> QED
      BY <2>1, <3>1, Zenon
  <2>2. CASE item.name # None
    <3>1. PICK name \in Seq(Tokens) : /\ name = item.name
                                      /\ \A i \in DOMAIN name : name[i] # "="
      BY <1>1, <2>2 DEF GoodItem, Items
    <3>2. Append(name, "=") \in Seq(Tokens) /\ name \o <<"=">> = Append(name, "=")
      BY <1>2
    <3> QED
      BY <2>2, <3>1, <3>2, Zenon
  <2> QED
    BY <2>1, <2>2
<1>5. PICK r \in Seq(Tokens) :
         /\ r = IF item.quoted THEN (<<Quote>> \o v) \o <<Quote>> ELSE v
         /\ item.name = None => r # <<>> /\ \A i \in DOMAIN r : r[i] # "="
         /\ IF item.quoted THEN r = Append(<<Quote>> \o v, Quote)
            ELSE r = v /\ \A i \in DOMAIN v : v[i] # Quote
  <2>1. CASE ~item.quoted
    <3>1. \A i \in DOMAIN v : v[i] # Quote
      BY <1>1, <1>2, <1>3, <2>1 DEF GoodItem
    <3>2. item.name = None => v # <<>> /\ \A i \in DOMAIN v : v[i] # "="
      BY <1>1, <1>3, <2>1 DEF GoodItem
    <3> QED
      BY <2>1, <3>1, <3>2, Zenon
  <2>2. CASE item.quoted
    <3>1. <<Quote>> \o v \in Seq(Tokens)
      BY <1>2
    <3>2. PICK qv \in Seq(Tokens) : qv = <<Quote>> \o v
      BY <3>1, Zenon
    <3>3. qv \o <<Quote>> = Append(qv, Quote) /\ Append(qv, Quote) \in Seq(Tokens)
          /\ Append(qv, Quote) # <<>>
      <4>1. qv \o <<Quote>> = Append(qv, Quote)
        OBVIOUS
      <4>2. Append(qv, Quote) \in Seq(Tokens)
        BY <1>2
      <4>3. Append(qv, Quote) # <<>>
        OBVIOUS
      <4> QED
        BY <4>1, <4>2, <4>3
    <3>4. ASSUME item.name = None
          PROVE  \A i \in DOMAIN Append(qv, Quote) : Append(qv, Quote)[i] # "="
      <4>1. \A i \in DOMAIN v : v[i] # "="
        BY <1>1, <1>3, <3>4 DEF GoodItem
      <4>2. PICK n \in Nat : n = Len(v) /\ DOMAIN v = 1..n
        OBVIOUS
      <4>3. Len(qv) = n + 1 /\ qv[1] = Quote /\ \A i \in 2..n + 1 : qv[i] = v[i - 1]
        BY <3>2, <4>2
      <4>4. \A i \in 1..n + 1 : qv[i] # "="
        <5> SUFFICES ASSUME NEW i \in 1..n + 1 PROVE qv[i] # "="
          OBVIOUS
        <5>1. CASE i = 1
          BY <1>2, <4>3, <5>1
        <5>2. CASE i # 1
          <6>1. i \in 2..n + 1 /\ i - 1 \in DOMAIN v
            BY <4>2, <5>2
          <6> QED
            BY <4>1, <4>3, <6>1
        <5> QED
          BY <5>1, <5>2
      <4> QED
        BY <1>2, <4>3, <4>4
    <3> QED
      BY <2>2, <3>2, <3>3, <3>4, Zenon
  <2> QED
    BY <2>1, <2>2
<1>6. WrittenItem(item) = p \o r
  BY <1>3, <1>4, <1>5, Zenon DEF WrittenItem
<1>7. item.name = None => p = <<>>
  BY <1>4
<1>8. InHalves(item, p, r, v)
  BY <1>3, <1>4, <1>5, <1>6, <1>7, Zenon DEF InHalves
<1> QED
  BY <1>8

\* An item has a name for the client just where its author gave it one.
LEMMA NamedItem ==
    ASSUME NEW item \in GoodItems
    PROVE  WrittenItem(item) # <<>> /\ (Named(WrittenItem(item)) <=> item.name # None)
<1>1. PICK p \in Seq(Tokens), r \in Seq(Tokens), v \in Seq(Tokens) : InHalves(item, p, r, v)
  BY Halves
<1>2. CASE item.name = None
  <2>1. WrittenItem(item) = r /\ r # <<>> /\ \A i \in DOMAIN r : r[i] # "="
    BY <1>1, <1>2 DEF InHalves
  <2> QED
    BY <1>2, <2>1 DEF Named, ToSet
<1>3. CASE item.name # None
  <2>1. PICK name \in Seq(Tokens) : p = Append(name, "=")
    BY <1>1, <1>3 DEF InHalves
  <2>2. PICK k \in 1..Len(p) : p[k] = "="
    BY <2>1
  <2>3. PICK w : w = p \o r
    OBVIOUS
  <2>4. w \in Seq(Tokens) /\ Len(w) = Len(p) + Len(r) /\ \A i \in 1..Len(p) : w[i] = p[i]
    BY <2>3, ConcatProperties
  <2>5. k \in DOMAIN w /\ w[k] = "=" /\ w # <<>>
    BY <2>2, <2>4
  <2>6. WrittenItem(item) = w
    BY <1>1, <2>3 DEF InHalves
  <2> QED
    BY <1>3, <2>5, <2>6 DEF Named, ToSet
<1> QED
  BY <1>2, <1>3

\* What the client reads of a pair is what was written.
LEMMA PairIs ==
    ASSUME NEW l, NEW item \in GoodItems, item.name # None
    PROVE  Pair(l, WrittenItem(item)) = Command(l, item.name, item.value)
<1>0. PICK p \in Seq(Tokens), r \in Seq(Tokens), v \in Seq(Tokens) : InHalves(item, p, r, v)
  BY Halves
<1>1. PICK name \in Seq(Tokens) :
         /\ WrittenItem(item) = p \o r /\ v = item.value /\ name = item.name
         /\ p = Append(name, "=") /\ \A i \in DOMAIN name : name[i] # "="
         /\ IF item.quoted THEN r = Append(<<Quote>> \o v, Quote)
            ELSE r = v /\ \A i \in DOMAIN v : v[i] # Quote
  BY <1>0, Zenon DEF InHalves
<1>2. PICK n \in Nat, m \in Nat, k \in Nat :
         n = Len(name) /\ m = Len(r) /\ k = Len(v) /\ DOMAIN name = 1..n /\ DOMAIN v = 1..k
  OBVIOUS
<1>3. "=" \in Tokens /\ Quote \in Tokens
  BY LoaderAssumption
<1>4. PICK w : w = p \o r
  OBVIOUS
<1>5. w \in Seq(Tokens) /\ Len(w) = n + 1 + m /\ DOMAIN w = 1..n + 1 + m
      /\ (\A i \in 1..n : w[i] = name[i]) /\ w[n + 1] = "="
      /\ \A i \in 1..m : w[n + 1 + i] = r[i]
  <2>1. p \in Seq(Tokens) /\ Len(p) = n + 1 /\ p[n + 1] = "=" /\ \A i \in 1..n : p[i] = name[i]
    BY <1>1, <1>2
  <2>2. /\ w \in Seq(Tokens) /\ Len(w) = Len(p) + Len(r)
        /\ \A i \in 1..Len(p) + Len(r) : w[i] = IF i <= Len(p) THEN p[i] ELSE r[i - Len(p)]
    BY <1>4, ConcatProperties
  <2>3. Len(w) = n + 1 + m /\ \A i \in 1..n + 1 : w[i] = p[i]
    BY <1>2, <2>1, <2>2
  <2>4. ASSUME NEW i \in 1..m PROVE w[n + 1 + i] = r[i]
    <3>1. PICK j \in Nat : j = n + 1 + i /\ j \in 1..n + 1 + m /\ ~(j <= n + 1) /\ j - (n + 1) = i
      OBVIOUS
    <3>2. w[j] = IF j <= Len(p) THEN p[j] ELSE r[j - Len(p)]
      BY <1>2, <2>1, <2>2, <3>1
    <3>3. w[j] = r[i]
      BY <2>1, <3>1, <3>2
    <3> QED
      BY <3>1, <3>3
  <2>5. \A i \in 1..n : w[i] = name[i]
    BY <2>1, <2>3
  <2>6. w[n + 1] = "="
    BY <2>1, <2>3
  <2>7. w \in Seq(Tokens) /\ DOMAIN w = 1..Len(w)
    BY <2>2
  <2> QED
    BY <2>3, <2>4, <2>5, <2>6, <2>7
<1> DEFINE Is(i) == w[i] = "=" /\ \A j \in 1..i - 1 : w[j] # "="
<1>6. \A i \in DOMAIN w : Is(i) => i = n + 1
  <2> SUFFICES ASSUME NEW i \in DOMAIN w, Is(i) PROVE i = n + 1
    OBVIOUS
  <2>1. ~(i < n + 1)
    <3> SUFFICES ASSUME i < n + 1 PROVE FALSE
      OBVIOUS
    <3>1. i \in 1..n
      BY <1>5
    <3> QED
      BY <1>1, <1>2, <1>5, <3>1
  <2>2. ~(i > n + 1)
    <3> SUFFICES ASSUME i > n + 1 PROVE FALSE
      OBVIOUS
    <3>1. n + 1 \in 1..i - 1
      BY <1>5
    <3> QED
      BY <1>5, <3>1
  <2>3. i \in Nat
    BY <1>5
  <2> HIDE DEF Is
  <2> QED
    BY <2>1, <2>2, <2>3
<1>7. n + 1 \in DOMAIN w /\ Is(n + 1)
  <2>1. \A j \in 1..n : w[j] # "="
    BY <1>1, <1>2, <1>5
  <2>2. n + 1 - 1 = n
    OBVIOUS
  <2> QED
    BY <1>5, <2>1, <2>2
<1>8. (CHOOSE i \in DOMAIN w : Is(i)) = n + 1
  <2> HIDE DEF Is
  <2> QED
    BY <1>6, <1>7
<1>9. SubSeq(w, 1, n) = name
  <2>1. PICK s : s = SubSeq(w, 1, n)
    OBVIOUS
  <2>2. s \in Seq(Tokens) /\ Len(s) = n /\ \A i \in 1..n : s[i] = w[i]
    <3>1. 1 \in 1..Len(w) + 1 /\ n \in 1 - 1..Len(w)
      BY <1>5
    <3> QED
      BY <1>5, <2>1, <3>1, SubSeqProperties
  <2>3. \A i \in 1..n : s[i] = name[i]
    BY <1>5, <2>2
  <2> QED
    BY <1>2, <2>1, <2>2, <2>3
<1>10. SubSeq(w, n + 2, Len(w)) = r
  <2>1. PICK s : s = SubSeq(w, n + 2, Len(w))
    OBVIOUS
  <2>2. s \in Seq(Tokens) /\ Len(s) = m /\ \A i \in 1..m : s[i] = w[n + 2 + i - 1]
    <3>1. n + 2 \in 1..Len(w) + 1 /\ Len(w) \in (n + 2) - 1..Len(w)
      BY <1>5
    <3> QED
      BY <1>5, <2>1, <3>1, SubSeqProperties
  <2>3. \A i \in 1..m : s[i] = r[i]
    BY <1>5, <2>2
  <2>4. s = r
    BY <1>2, <2>2, <2>3, SeqEq
  <2> QED
    BY <2>1, <2>4
<1>11. _unquote(r) = v
  <2>1. CASE ~item.quoted
    <3>1. r = v
      BY <1>1, <2>1
    <3>2. Len(v) >= 2 => Head(v) # Quote
      <4>1. k >= 2 => Head(v) = v[1] /\ 1 \in DOMAIN v
        BY <1>2
      <4> QED
        BY <1>1, <1>2, <2>1, <4>1
    <3> QED
      BY <3>1, <3>2 DEF _unquote
  <2>2. CASE item.quoted
    <3>1. PICK qv : qv = <<Quote>> \o v
      OBVIOUS
    <3>2. qv \in Seq(Tokens) /\ Len(qv) = k + 1 /\ qv[1] = Quote
          /\ \A i \in 1..k : qv[i + 1] = v[i]
      BY <1>2, <1>3, <3>1
    <3>3. r = Append(qv, Quote)
      BY <1>1, <2>2, <3>1
    <3>4. Len(r) = k + 2 /\ r[1] = Quote /\ r[k + 2] = Quote /\ \A i \in 1..k : r[i + 1] = v[i]
      BY <1>3, <3>2, <3>3
    <3>5. Len(r) >= 2 /\ Head(r) = Quote /\ Last(r) = Quote
      BY <3>4 DEF Last
    <3>6. PICK s : s = SubSeq(r, 2, Len(r) - 1)
      OBVIOUS
    <3>7. s \in Seq(Tokens) /\ Len(s) = k /\ \A i \in 1..k : s[i] = r[2 + i - 1]
      <4>1. 2 \in 1..Len(r) + 1 /\ Len(r) - 1 \in 2 - 1..Len(r)
        BY <3>4
      <4> QED
        BY <3>4, <3>6, <4>1, SubSeqProperties
    <3>8. \A i \in 1..k : s[i] = v[i]
      BY <3>4, <3>7
    <3>9. s = v
      BY <1>2, <3>7, <3>8
    <3> QED
      BY <3>5, <3>6, <3>9 DEF _unquote
  <2> QED
    BY <2>1, <2>2
<1>12. Pair(l, w) = Command(l, SubSeq(w, 1, (n + 1) - 1), _unquote(SubSeq(w, (n + 1) + 1, Len(w))))
  <2> HIDE DEF Is
  <2>1. PICK e : e = CHOOSE i \in DOMAIN w : Is(i)
    OBVIOUS
  <2>2. Pair(l, w) = Command(l, SubSeq(w, 1, e - 1), _unquote(SubSeq(w, e + 1, Len(w))))
    BY <2>1, Zenon DEF Pair, Is
  <2> QED
    BY <1>8, <2>1, <2>2
<1>13. (n + 1) - 1 = n /\ (n + 1) + 1 = n + 2
  OBVIOUS
<1> QED
  BY <1>1, <1>4, <1>9, <1>10, <1>11, <1>12, <1>13, Zenon

\* What the commands of a script assign, in its order; <<>> for one that does not.
\* What commands assign, in the form of `sets'.
Meaning(cs) ==
    [i \in DOMAIN cs |-> IF is_property(cs[i])
                         THEN <<Target(cs[i].path, cs[i].name), cs[i].value>>
                         ELSE <<>>]

\* A line is split into its items as they were written.
LEMMA SplitLine ==
    ASSUME NEW l \in Lines
    PROVE  /\ l.items # <<>> => _split_top_level(Rest(l)) = Written(l.items)
           /\ l.items = <<>> => _split_top_level(Rest(l)) = <<>>
           /\ l.items \in Seq(GoodItems)
<1>1. l.items \in Seq(GoodItems)
  <2>1. PICK items \in Seq(Items) : items = l.items /\ \A i \in DOMAIN items : GoodItem(items[i])
    BY ItemsGood
  <2>2. \A i \in DOMAIN items : items[i] \in GoodItems
    BY <2>1 DEF GoodItems
  <2>3. items \in Seq(GoodItems)
    BY <2>2
  <2> QED
    BY <2>1, <2>3
<1>2. PICK items \in Seq(GoodItems) : items = l.items
  BY <1>1
<1>3. Rest(l) = FlattenSeq(PartsOf(items))
  BY <1>2 DEF Rest, PartsOf, PartAt
<1>4. CASE items # <<>>
  <2>1. PICK out \in Outs, buf \in Texts :
           /\ Scanned(Start, Rest(l)) = Outside(out, buf)
           /\ Append(out, buf) = Written(items)
    BY <1>3, <1>4, RestScan, Zenon DEF Split
  <2>2. Outside(out, buf).out = out /\ Outside(out, buf).buf = buf
    BY DEF Outside
  <2>3. _split_top_level(Rest(l)) = Without(<<>>, Written(items))
    BY <2>1, <2>2 DEF _split_top_level
  <2>4. Written(items) \in Seq(Texts \ {<<>>})
    <3>1. PICK n \in Nat : n = Len(items) /\ DOMAIN items = 1..n
      OBVIOUS
    <3>2. \A i \in 1..n : WrittenItem(items[i]) \in Texts \ {<<>>}
      <4>1. \A i \in 1..n : items[i] \in GoodItems
        BY <3>1
      <4> QED
        BY <4>1, PartTyped, NamedItem
    <3>3. Written(items) = [i \in 1..n |-> WrittenItem(items[i])]
      BY <3>1 DEF Written
    <3> QED
      BY <3>2, <3>3
  <2>5. <<>> \notin Texts \ {<<>>}
    OBVIOUS
  <2>6. Without(<<>>, Written(items)) = Written(items)
    BY <2>4, <2>5, WithoutNone
  <2> QED
    BY <1>1, <1>2, <1>4, <2>3, <2>6
<1>5. CASE items = <<>>
  <2>1. PartsOf(items) = <<>>
    BY <1>5 DEF PartsOf
  <2>2. Scanned(Start, Rest(l)) = Start
    BY <1>3, <2>1, FlattenEmpty, ScannedEmpty
  <2>3. Start.out = <<>> /\ Start.buf = <<>>
    BY DEF Start
  <2>4. _split_top_level(Rest(l)) = Without(<<>>, Append(<<>>, <<>>))
    BY <2>2, <2>3 DEF _split_top_level
  <2>5. PICK S : S = {<<>>}
    OBVIOUS
  <2>6. <<>> \in Seq(S) /\ <<>> \in S
    BY <2>5
  <2>7. PICK none \in Seq(S) : none = <<>> /\ none \in S
    BY <2>6, Zenon
  <2>8. Without(none, Append(none, none)) = Without(none, none)
    BY <2>7, WithoutAppend
  <2>9. Without(none, none) = <<>>
    BY <2>7, WithoutEmpty
  <2> QED
    BY <1>1, <1>2, <1>5, <2>4, <2>7, <2>8, <2>9, Zenon
<1> QED
  BY <1>4, <1>5

\* The client understands a line that it does not report as the loader does.
LEMMA Understood ==
    ASSUME NEW l \in Lines,
           \/ Skipped(l)
           \/ /\ CommandsOf(l) # <<>>
              /\ \A item \in ToSet(_split_top_level(Rest(l))) : Named(item)
    PROVE  \/ Meaning(CommandsOf(l)) = l.sets
           \/ l.sets = <<>> /\ \A i \in DOMAIN CommandsOf(l) : ~is_property(CommandsOf(l)[i])
<1>1. CASE Skipped(l)
  <2>1. CommandsOf(l) = <<>> /\ l.sets = <<>>
    BY <1>1, LoaderAssumption DEF CommandsOf, Skipped
  <2>2. Meaning(<<>>) = <<>>
    BY DEF Meaning
  <2> QED
    BY <2>1, <2>2
<1>2. CASE ~Skipped(l) /\ l.items = <<>>
  <2>1. l.verb # None
    BY <1>2 DEF CommandsOf
  <2>2. l.verb # "SET" => l.sets = <<>>
    <3>1. \A i \in DOMAIN l.items : FALSE
      BY <1>2
    <3> QED
      BY <2>1, <3>1, LoaderAssumption
  <2>3. CASE l.verb = "DEL"
    <3>1. CommandsOf(l) = <<Command(l, None, None)>>
      BY <1>2, <2>1, <2>3 DEF CommandsOf
    <3>2. ~is_property(Command(l, None, None))
      BY <2>3 DEF is_property, Command
    <3> QED
      BY <2>2, <2>3, <3>1, <3>2
  <2>4. CASE l.verb # "DEL"
    <3>1. PICK parts : parts = _split_top_level(Rest(l)) /\ parts = <<>>
      BY <1>2, SplitLine
    <3>2. [i \in DOMAIN parts |-> IF Named(parts[i]) THEN parts[i] ELSE <<>>] = <<>>
      BY <3>1
    <3>3. PICK none : none = Without(<<>>, <<>>) /\ none = <<>>
      BY WithoutEmpty
    <3>4. CommandsOf(l) = [i \in DOMAIN none |-> Pair(l, none[i])]
      BY <1>2, <2>1, <2>4, <3>1, <3>2, <3>3 DEF CommandsOf
    <3>5. CommandsOf(l) = <<>>
      BY <3>3, <3>4
    <3> QED
      BY <1>2, <3>5
  <2> QED
    BY <2>3, <2>4
<1>3. CASE ~Skipped(l) /\ l.items # <<>>
  <2>1. l.verb # None /\ CommandsOf(l) # <<>>
    BY <1>3 DEF CommandsOf
  <2>2. PICK items \in Seq(GoodItems) : items = l.items /\ _split_top_level(Rest(l)) = Written(items)
    BY <1>3, SplitLine
  <2>3. PICK n \in Nat : n = Len(items) /\ DOMAIN items = 1..n
    OBVIOUS
  <2>4. \A i \in 1..n : items[i] \in GoodItems
    BY <2>3
  <2>5. PICK parts : /\ parts = Written(items) /\ DOMAIN parts = 1..n
                     /\ \A i \in 1..n : parts[i] = WrittenItem(items[i])
    <3>1. /\ DOMAIN Written(items) = 1..n
          /\ \A i \in 1..n : Written(items)[i] = WrittenItem(items[i])
      BY <2>3 DEF Written
    <3> QED
      BY <3>1, Zenon
  <2>6. \A i \in 1..n : Named(parts[i])
    BY <1>3, <2>2, <2>5 DEF ToSet
  <2>7. \A i \in 1..n : items[i].name # None
    BY <2>4, <2>5, <2>6, NamedItem
  <2>8. parts = [i \in DOMAIN parts |-> IF Named(parts[i]) THEN parts[i] ELSE <<>>]
    <3>1. parts = [i \in 1..n |-> parts[i]]
      BY <2>3, <2>5 DEF Written
    <3> QED
      BY <2>5, <2>6, <3>1
  <2>9. parts \in Seq(Texts \ {<<>>})
    <3>1. \A i \in 1..n : parts[i] \in Texts \ {<<>>}
      BY <2>4, <2>5, PartTyped, NamedItem
    <3>2. parts = [i \in 1..n |-> parts[i]]
      BY <2>3, <2>5 DEF Written
    <3> QED
      BY <3>1, <3>2
  <2>10. Without(<<>>, parts) = parts
    <3>1. <<>> \notin Texts \ {<<>>}
      OBVIOUS
    <3> QED
      BY <2>9, <3>1, WithoutNone
  <2>11. CommandsOf(l) = [i \in DOMAIN parts |-> Pair(l, parts[i])]
    BY <1>3, <2>1, <2>2, <2>5, <2>8, <2>10 DEF CommandsOf
  <2>12. PICK cs : /\ cs = CommandsOf(l) /\ DOMAIN cs = 1..n
                   /\ \A i \in 1..n : cs[i] = Command(l, items[i].name, items[i].value)
    BY <2>4, <2>5, <2>7, <2>11, PairIs
  <2>13. l.sets = IF l.verb # "SET" THEN <<>>
                  ELSE [i \in 1..n |-> <<Target(l.path, items[i].name), items[i].value>>]
    <3>1. DOMAIN l.items = 1..n
      BY <2>2, <2>3
    <3>2. \A i \in DOMAIN l.items : l.items[i].name # None
      BY <2>2, <2>7, <3>1, Zenon
    <3>3. l.sets = IF l.verb # "SET" THEN <<>>
                   ELSE [i \in DOMAIN l.items |->
                           <<Target(l.path, l.items[i].name), l.items[i].value>>]
      BY <2>1, <3>2, LoaderAssumption, Zenon
    <3> QED
      BY <2>2, <3>1, <3>3, Zenon
  <2>14. \A i \in 1..n : /\ is_property(cs[i]) <=> l.verb = "SET"
                         /\ cs[i].path = l.path /\ cs[i].name = items[i].name
                         /\ cs[i].value = items[i].value
    BY <2>12 DEF is_property, Command
  <2>15. CASE l.verb = "SET"
    <3>1. Meaning(cs) = [i \in 1..n |-> <<Target(l.path, items[i].name), items[i].value>>]
      BY <2>12, <2>14, <2>15 DEF Meaning
    <3> QED
      BY <2>12, <2>13, <2>15, <3>1
  <2>16. CASE l.verb # "SET"
    BY <2>12, <2>13, <2>14, <2>16
  <2> QED
    BY <2>15, <2>16
<1> QED
  BY <1>1, <1>2, <1>3

(***************************************************************************)
(* Of the entries of a sequence, the last one for a target counts.  An     *)
(* entry is a pair of a target and a value, or empty.                      *)
(***************************************************************************)
Assigned(S, t) == {i \in DOMAIN S : S[i] # <<>> /\ S[i][1] = t}

Ends(S, t, v) == \E i \in Assigned(S, t) : S[i][2] = v /\ \A j \in Assigned(S, t) : j <= i

Agree(A, B) == \A t, v : Ends(A, t, v) <=> Ends(B, t, v)

IsJoined(C, A, B, m, n) ==
    /\ C = A \o B /\ DOMAIN C = 1..m + n /\ Len(C) = m + n
    /\ \A i \in 1..m : C[i] = A[i]
    /\ \A i \in 1..n : C[m + i] = B[i]

\* What two sequences in a row are, by index.
LEMMA Joined ==
    ASSUME NEW S, NEW A \in Seq(S), NEW B \in Seq(S), NEW m \in Nat, NEW n \in Nat,
           DOMAIN A = 1..m, DOMAIN B = 1..n
    PROVE  \E C \in Seq(S) : IsJoined(C, A, B, m, n)
<1>1. PICK C \in Seq(S) : C = A \o B
  <2>1. A \o B \in Seq(S)
    OBVIOUS
  <2> QED
    BY <2>1, Zenon
<1>2. Len(A) = m /\ Len(B) = n
  OBVIOUS
<1>3. /\ Len(C) = m + n
      /\ \A i \in 1..m + n : C[i] = IF i <= m THEN A[i] ELSE B[i - m]
  BY <1>1, <1>2, ConcatProperties
<1>4. DOMAIN C = 1..m + n
  BY <1>3
<1>5. \A i \in 1..m : C[i] = A[i]
  BY <1>3
<1>6. ASSUME NEW i \in 1..n PROVE C[m + i] = B[i]
  <2>1. m + i \in 1..m + n /\ ~(m + i <= m) /\ m + i - m = i
    OBVIOUS
  <2> QED
    BY <1>3, <2>1
<1> QED
  BY <1>1, <1>3, <1>4, <1>5, <1>6, Zenon DEF IsJoined

\* Of the entries for a target, one is the last.
LEMMA EndsSomewhere ==
    ASSUME NEW S, NEW A \in Seq(S), NEW t
    PROVE  Assigned(A, t) # {} <=> \E v : Ends(A, t, v)
<1>1. (\E v : Ends(A, t, v)) => Assigned(A, t) # {}
  BY DEF Ends
<1>2. ASSUME Assigned(A, t) # {} PROVE \E v : Ends(A, t, v)
  <2>1. Assigned(A, t) \subseteq 0..Len(A) /\ Len(A) \in Nat
    BY DEF Assigned
  <2>2. PICK i \in Assigned(A, t) : \A j \in Assigned(A, t) : j <= i
    BY <1>2, <2>1, Greatest
  <2>3. Ends(A, t, A[i][2])
    BY <2>2 DEF Ends
  <2> QED
    BY <2>3
<1> QED
  BY <1>1, <1>2

\* Of two sequences in a row, the second counts unless it has nothing for the target.
LEMMA EndsConcat ==
    ASSUME NEW S, NEW A \in Seq(S), NEW B \in Seq(S), NEW t, NEW v
    PROVE  Ends(A \o B, t, v) <=> Ends(B, t, v) \/ (Assigned(B, t) = {} /\ Ends(A, t, v))
<1>1. PICK m \in Nat, n \in Nat : DOMAIN A = 1..m /\ DOMAIN B = 1..n
  OBVIOUS
<1>2. PICK C \in Seq(S) : IsJoined(C, A, B, m, n)
  BY <1>1, Joined, Zenon
<1>3. /\ C = A \o B /\ DOMAIN C = 1..m + n
      /\ \A i \in 1..m : C[i] = A[i]
      /\ \A i \in 1..n : C[m + i] = B[i]
  BY <1>2 DEF IsJoined
<1>4. \A i \in Assigned(A, t) : i \in 1..m /\ i \in Assigned(C, t) /\ C[i] = A[i]
  BY <1>1, <1>3 DEF Assigned
<1>5. \A i \in Assigned(B, t) : i \in 1..n /\ m + i \in Assigned(C, t) /\ C[m + i] = B[i]
  <2> SUFFICES ASSUME NEW i \in Assigned(B, t)
               PROVE  i \in 1..n /\ m + i \in Assigned(C, t) /\ C[m + i] = B[i]
    OBVIOUS
  <2>1. i \in 1..n /\ B[i] # <<>> /\ B[i][1] = t
    BY <1>1 DEF Assigned
  <2>2. PICK k \in 1..m + n : k = m + i
    BY <2>1
  <2>3. C[k] = B[i]
    BY <1>3, <2>1, <2>2
  <2>4. k \in Assigned(C, t)
    BY <1>3, <2>1, <2>2, <2>3 DEF Assigned
  <2> QED
    BY <2>1, <2>2, <2>3, <2>4
<1>6. \A i \in Assigned(C, t) : \/ i \in Assigned(A, t)
                                \/ i - m \in Assigned(B, t) /\ i = m + (i - m)
  <2> SUFFICES ASSUME NEW i \in Assigned(C, t)
               PROVE  \/ i \in Assigned(A, t)
                      \/ i - m \in Assigned(B, t) /\ i = m + (i - m)
    OBVIOUS
  <2>1. i \in 1..m + n /\ C[i] # <<>> /\ C[i][1] = t
    BY <1>3 DEF Assigned
  <2>2. CASE i <= m
    BY <1>1, <1>3, <2>1, <2>2 DEF Assigned
  <2>3. CASE i > m
    <3>1. PICK j \in 1..n : j = i - m /\ i = m + j
      BY <2>1, <2>3
    <3>2. C[i] = B[j]
      BY <1>3, <3>1
    <3> QED
      BY <1>1, <2>1, <3>1, <3>2 DEF Assigned
  <2> QED
    BY <2>1, <2>2, <2>3
<1>7. CASE Assigned(B, t) = {}
  <2>1. Assigned(C, t) = Assigned(A, t)
    BY <1>4, <1>6, <1>7
  <2>2. Ends(C, t, v) <=> Ends(A, t, v)
    BY <1>4, <2>1 DEF Ends
  <2> QED
    BY <1>3, <1>7, <2>2 DEF Ends
<1>8. CASE Assigned(B, t) # {}
  <2>1. ASSUME Ends(B, t, v) PROVE Ends(C, t, v)
    <3>1. PICK i \in Assigned(B, t) : B[i][2] = v /\ \A j \in Assigned(B, t) : j <= i
      BY <2>1 DEF Ends
    <3>2. \A j \in Assigned(C, t) : j <= m + i
      <4> SUFFICES ASSUME NEW j \in Assigned(C, t) PROVE j <= m + i
        OBVIOUS
      <4>1. i \in 1..n
        BY <1>5
      <4>2. CASE j \in Assigned(A, t)
        <5>1. j \in 1..m
          BY <1>4, <4>2
        <5> QED
          BY <4>1, <5>1
      <4>3. CASE j - m \in Assigned(B, t) /\ j = m + (j - m)
        <5>1. PICK k \in 1..n : k = j - m /\ j = m + k /\ k <= i
          BY <1>5, <3>1, <4>3
        <5> QED
          BY <4>1, <5>1
      <4> QED
        BY <1>6, <4>2, <4>3
    <3> QED
      BY <1>5, <3>1, <3>2 DEF Ends
  <2>2. ASSUME Ends(C, t, v) PROVE Ends(B, t, v)
    <3>1. PICK i \in Assigned(C, t) : C[i][2] = v /\ \A j \in Assigned(C, t) : j <= i
      BY <2>2 DEF Ends
    <3>2. i \notin Assigned(A, t)
      <4>1. PICK k \in Assigned(B, t) : k \in 1..n /\ m + k \in Assigned(C, t)
        BY <1>5, <1>8
      <4>2. m + k <= i
        BY <3>1, <4>1
      <4>3. i \in Assigned(A, t) => i \in 1..m
        BY <1>4
      <4> QED
        BY <4>1, <4>2, <4>3
    <3>3. PICK k \in Assigned(B, t) : k = i - m /\ i = m + k /\ k \in 1..n
      BY <1>5, <1>6, <3>2
    <3>4. B[k][2] = v
      BY <1>5, <3>1, <3>3
    <3>5. \A j \in Assigned(B, t) : j <= k
      <4> SUFFICES ASSUME NEW j \in Assigned(B, t) PROVE j <= k
        OBVIOUS
      <4>1. j \in 1..n /\ m + j <= i
        BY <1>5, <3>1
      <4> QED
        BY <3>3, <4>1
    <3> QED
      BY <3>4, <3>5 DEF Ends
  <2> QED
    BY <1>3, <1>8, <2>1, <2>2
<1> QED
  BY <1>7, <1>8

\* Sequences that agree, part by part, agree.
LEMMA AgreeConcat ==
    ASSUME NEW S, NEW A \in Seq(S), NEW B \in Seq(S), NEW C \in Seq(S), NEW D \in Seq(S),
           Agree(A, C), Agree(B, D)
    PROVE  Agree(A \o B, C \o D)
<1> SUFFICES ASSUME NEW t, NEW v PROVE Ends(A \o B, t, v) <=> Ends(C \o D, t, v)
  BY DEF Agree
<1>1. Ends(A \o B, t, v) <=> Ends(B, t, v) \/ (Assigned(B, t) = {} /\ Ends(A, t, v))
  BY EndsConcat
<1>2. Ends(C \o D, t, v) <=> Ends(D, t, v) \/ (Assigned(D, t) = {} /\ Ends(C, t, v))
  BY EndsConcat
<1>3. Assigned(B, t) # {} <=> Assigned(D, t) # {}
  <2>1. Assigned(B, t) # {} <=> \E w : Ends(B, t, w)
    BY EndsSomewhere
  <2>2. Assigned(D, t) # {} <=> \E w : Ends(D, t, w)
    BY EndsSomewhere
  <2> QED
    BY <2>1, <2>2 DEF Agree
<1> QED
  BY <1>1, <1>2, <1>3 DEF Agree

\* All entries.
Entries == (Targets \X Values) \cup {<<Target(p, n), v>> :
                p \in {l.path : l \in Lines}, n \in Texts \cup {None}, v \in Texts \cup {None}}
                \cup {<<>>}

\* The meaning of commands is a sequence of entries.
LEMMA MeaningTyped ==
    ASSUME NEW cs \in Seq(AnyCommand)
    PROVE  Meaning(cs) \in Seq(Entries)
<1>1. \A i \in DOMAIN cs : cs[i] \in AnyCommand
  OBVIOUS
<1>2. \A i \in DOMAIN cs : cs[i].path \in {l.path : l \in Lines}
                           /\ cs[i].name \in Texts \cup {None} /\ cs[i].value \in Texts \cup {None}
  BY <1>1 DEF AnyCommand
<1> DEFINE entry(i) == IF is_property(cs[i])
                       THEN <<Target(cs[i].path, cs[i].name), cs[i].value>>
                       ELSE <<>>
<1>3. \A i \in DOMAIN cs : entry(i) \in Entries
  BY <1>2 DEF Entries
<1>4. DOMAIN cs = 1..Len(cs) /\ Len(cs) \in Nat
  OBVIOUS
<1>5. Meaning(cs) = [i \in 1..Len(cs) |-> entry(i)]
  BY <1>4 DEF Meaning
<1> HIDE DEF entry
<1> QED
  BY <1>3, <1>4, <1>5

\* The meaning of commands in a row.
LEMMA MeaningConcat ==
    ASSUME NEW cs \in Seq(AnyCommand), NEW ds \in Seq(AnyCommand)
    PROVE  Meaning(cs \o ds) = Meaning(cs) \o Meaning(ds)
<1>1. PICK es \in Seq(AnyCommand) : es = cs \o ds
  <2>1. cs \o ds \in Seq(AnyCommand)
    OBVIOUS
  <2> QED
    BY <2>1, Zenon
<1>2. PICK m \in Nat, n \in Nat : /\ m = Len(cs) /\ n = Len(ds)
                                  /\ DOMAIN cs = 1..m /\ DOMAIN ds = 1..n
  OBVIOUS
<1>3. /\ DOMAIN es = 1..m + n /\ Len(es) = m + n
      /\ \A i \in 1..m : es[i] = cs[i]
      /\ \A i \in 1..n : es[m + i] = ds[i]
  BY <1>1, <1>2
<1>4. PICK A \in Seq(Entries) : /\ A = Meaning(cs) /\ DOMAIN A = 1..m
                                /\ \A i \in 1..m : A[i] = IF is_property(cs[i])
                                      THEN <<Target(cs[i].path, cs[i].name), cs[i].value>>
                                      ELSE <<>>
  <2>1. /\ Meaning(cs) \in Seq(Entries) /\ DOMAIN Meaning(cs) = 1..m
        /\ \A i \in 1..m : Meaning(cs)[i] = IF is_property(cs[i])
                                      THEN <<Target(cs[i].path, cs[i].name), cs[i].value>>
                                      ELSE <<>>
    BY <1>2, MeaningTyped DEF Meaning
  <2> QED
    BY <2>1, Zenon
<1>5. PICK B \in Seq(Entries) : /\ B = Meaning(ds) /\ DOMAIN B = 1..n
                                /\ \A i \in 1..n : B[i] = IF is_property(ds[i])
                                      THEN <<Target(ds[i].path, ds[i].name), ds[i].value>>
                                      ELSE <<>>
  <2>1. /\ Meaning(ds) \in Seq(Entries) /\ DOMAIN Meaning(ds) = 1..n
        /\ \A i \in 1..n : Meaning(ds)[i] = IF is_property(ds[i])
                                      THEN <<Target(ds[i].path, ds[i].name), ds[i].value>>
                                      ELSE <<>>
    BY <1>2, MeaningTyped DEF Meaning
  <2> QED
    BY <2>1, Zenon
<1>6. PICK C \in Seq(Entries) : /\ C = Meaning(es) /\ DOMAIN C = 1..m + n
                                /\ \A i \in 1..m + n : C[i] = IF is_property(es[i])
                                      THEN <<Target(es[i].path, es[i].name), es[i].value>>
                                      ELSE <<>>
  <2>1. /\ Meaning(es) \in Seq(Entries) /\ DOMAIN Meaning(es) = 1..m + n
        /\ \A i \in 1..m + n : Meaning(es)[i] = IF is_property(es[i])
                                      THEN <<Target(es[i].path, es[i].name), es[i].value>>
                                      ELSE <<>>
    BY <1>3, MeaningTyped DEF Meaning
  <2> QED
    BY <2>1, Zenon
<1>7. PICK D \in Seq(Entries) : /\ D = A \o B /\ DOMAIN D = 1..m + n
                                /\ \A i \in 1..m : D[i] = A[i]
                                /\ \A i \in 1..n : D[m + i] = B[i]
  <2>1. DOMAIN A = 1..m /\ DOMAIN B = 1..n
    BY <1>4, <1>5
  <2>2. PICK D \in Seq(Entries) : IsJoined(D, A, B, m, n)
    BY <2>1, Joined, Zenon
  <2> QED
    BY <2>2, Zenon DEF IsJoined
<1>8. \A i \in 1..m : C[i] = D[i]
  <2> SUFFICES ASSUME NEW i \in 1..m PROVE C[i] = D[i]
    OBVIOUS
  <2>1. i \in 1..m + n
    OBVIOUS
  <2> QED
    BY <1>3, <1>4, <1>6, <1>7, <2>1, Zenon
<1>9. \A i \in 1..n : C[m + i] = D[m + i]
  <2> SUFFICES ASSUME NEW i \in 1..n PROVE C[m + i] = D[m + i]
    OBVIOUS
  <2>1. PICK k \in 1..m + n : k = m + i
    OBVIOUS
  <2>2. es[k] = ds[i] /\ D[k] = B[i]
    BY <1>3, <1>7, <2>1
  <2> QED
    BY <1>5, <1>6, <2>1, <2>2, Zenon
<1>10. \A k \in 1..m + n : C[k] = D[k]
  <2> SUFFICES ASSUME NEW k \in 1..m + n, k \notin 1..m PROVE C[k] = D[k]
    BY <1>8
  <2>1. PICK i \in 1..n : i = k - m /\ k = m + i
    OBVIOUS
  <2> QED
    BY <1>9, <2>1
<1>11. Len(C) = m + n /\ Len(D) = m + n
  BY <1>6, <1>7
<1>12. C = D
  BY <1>10, <1>11, SeqEq
<1> QED
  BY <1>1, <1>4, <1>5, <1>6, <1>7, <1>12

\* A function applied to one more element.
LEMMA MapAppend ==
    ASSUME NEW S, NEW R, NEW f \in [S -> R], NEW s \in Seq(S), NEW e \in S
    PROVE  /\ [i \in DOMAIN s |-> f[s[i]]] \in Seq(R)
           /\ [i \in DOMAIN Append(s, e) |-> f[Append(s, e)[i]]]
                = Append([i \in DOMAIN s |-> f[s[i]]], f[e])
<1>1. PICK n \in Nat : n = Len(s) /\ DOMAIN s = 1..n
  OBVIOUS
<1>2. PICK more : more = Append(s, e)
  OBVIOUS
<1>3. /\ DOMAIN more = 1..n + 1 /\ more[n + 1] = e
      /\ \A i \in 1..n : more[i] = s[i]
  BY <1>1, <1>2
<1>4. [i \in DOMAIN s |-> f[s[i]]] \in Seq(R)
  <2>1. \A i \in 1..n : f[s[i]] \in R
    BY <1>1
  <2> QED
    BY <1>1, <2>1
<1>5. PICK d \in R : d = f[e]
  OBVIOUS
<1>6. PICK cs \in Seq(R) : cs = [i \in DOMAIN s |-> f[s[i]]]
  BY <1>4, Zenon
<1>7. Len(cs) = n /\ \A i \in 1..n : cs[i] = f[s[i]]
  BY <1>1, <1>6
<1>8. PICK ds : ds = Append(cs, d)
  OBVIOUS
<1>9. /\ ds \in Seq(R) /\ Len(ds) = n + 1 /\ ds[n + 1] = d
      /\ \A i \in 1..n : ds[i] = cs[i]
  BY <1>7, <1>8
<1>10. \A i \in 1..n : f[more[i]] = ds[i]
  BY <1>3, <1>7, <1>9
<1>11. \A i \in 1..n + 1 : f[more[i]] = ds[i]
  BY <1>3, <1>5, <1>9, <1>10
<1>12. [i \in DOMAIN more |-> f[more[i]]] = [i \in 1..n + 1 |-> ds[i]]
  BY <1>3, <1>11
<1>13. ds = [i \in 1..n + 1 |-> ds[i]]
  BY <1>9
<1> QED
  BY <1>2, <1>4, <1>5, <1>6, <1>8, <1>12, <1>13

\* What one more line adds to a script.
LEMMA OneMoreLine ==
    ASSUME NEW text \in Seq(Lines), NEW l \in Lines
    PROVE  /\ Commands(Append(text, l)) = Commands(text) \o CommandsOf(l)
           /\ Assignments(Append(text, l)) = Assignments(text) \o l.sets
           /\ Unparsed(Append(text, l)) = {} => Unparsed(text) = {} /\ Unparsed(<<l>>) = {}
<1>1. PICK more : more = Append(text, l)
  OBVIOUS
<1>2. PICK n \in Nat : n = Len(text) /\ DOMAIN text = 1..n
  OBVIOUS
<1>3. /\ more \in Seq(Lines) /\ DOMAIN more = 1..n + 1 /\ more[n + 1] = l
      /\ \A i \in 1..n : more[i] = text[i]
  BY <1>1, <1>2
<1>4. Commands(more) = Commands(text) \o CommandsOf(l)
  <2> DEFINE R == Seq(AnyCommand)
             f == [k \in Lines |-> CommandsOf(k)]
  <2>1. f \in [Lines -> R] /\ f[l] = CommandsOf(l)
    BY CommandsOfTyped
  <2>2. /\ Commands(text) = FlattenSeq([i \in DOMAIN text |-> f[text[i]]])
        /\ Commands(more) = FlattenSeq([i \in DOMAIN more |-> f[more[i]]])
    <3>1. /\ \A i \in DOMAIN text : text[i] \in Lines
          /\ \A i \in DOMAIN more : more[i] \in Lines
      BY <1>3
    <3>2. /\ [i \in DOMAIN text |-> CommandsOf(text[i])] = [i \in DOMAIN text |-> f[text[i]]]
          /\ [i \in DOMAIN more |-> CommandsOf(more[i])] = [i \in DOMAIN more |-> f[more[i]]]
      BY <3>1
    <3> QED
      BY <3>2 DEF Commands
  <2> HIDE DEF f
  <2>3. FlattenSeq([i \in DOMAIN more |-> f[more[i]]])
          = FlattenSeq([i \in DOMAIN text |-> f[text[i]]]) \o f[l]
    <3> HIDE DEF R
    <3>1. /\ [i \in DOMAIN text |-> f[text[i]]] \in Seq(R)
          /\ [i \in DOMAIN more |-> f[more[i]]] = Append([i \in DOMAIN text |-> f[text[i]]], f[l])
      BY <1>1, <2>1, MapAppend
    <3>2. f[l] \in R
      BY <2>1
    <3> QED
      BY <3>1, <3>2, FlattenAppend DEF R
  <2> QED
    BY <2>1, <2>2, <2>3
<1>5. Assignments(more) = Assignments(text) \o l.sets
  <2> DEFINE P == Targets \X Values
             f == [k \in Lines |-> k.sets]
  <2>1. f \in [Lines -> Seq(P)] /\ f[l] = l.sets
    BY BootAssumption
  <2>2. /\ Assignments(text) = FlattenSeq([i \in DOMAIN text |-> f[text[i]]])
        /\ Assignments(more) = FlattenSeq([i \in DOMAIN more |-> f[more[i]]])
    <3>1. /\ \A i \in DOMAIN text : text[i] \in Lines
          /\ \A i \in DOMAIN more : more[i] \in Lines
      BY <1>3
    <3>2. /\ [i \in DOMAIN text |-> text[i].sets] = [i \in DOMAIN text |-> f[text[i]]]
          /\ [i \in DOMAIN more |-> more[i].sets] = [i \in DOMAIN more |-> f[more[i]]]
      BY <3>1
    <3> QED
      BY <3>2 DEF Assignments
  <2> HIDE DEF f, P
  <2>3. FlattenSeq([i \in DOMAIN more |-> f[more[i]]])
          = FlattenSeq([i \in DOMAIN text |-> f[text[i]]]) \o f[l]
    <3> DEFINE R == Seq(P)
    <3>1. f \in [Lines -> R] /\ f[l] \in R
      BY <2>1
    <3> HIDE DEF R
    <3>2. /\ [i \in DOMAIN text |-> f[text[i]]] \in Seq(R)
          /\ [i \in DOMAIN more |-> f[more[i]]] = Append([i \in DOMAIN text |-> f[text[i]]], f[l])
      BY <1>1, <3>1, MapAppend
    <3> QED
      BY <3>1, <3>2, FlattenAppend DEF R
  <2> QED
    BY <2>1, <2>2, <2>3
<1>6. ASSUME Unparsed(more) = {} PROVE Unparsed(text) = {} /\ Unparsed(<<l>>) = {}
  <2>1. \A i \in DOMAIN text : text[i] \in ToSet(more)
    BY <1>2, <1>3 DEF ToSet
  <2>2. l \in ToSet(more)
    BY <1>2, <1>3 DEF ToSet
  <2>3. ToSet(text) \subseteq ToSet(more) /\ ToSet(<<l>>) \subseteq ToSet(more)
    BY <2>1, <2>2 DEF ToSet
  <2> QED
    BY <1>6, <2>3, Zenon DEF Unparsed
<1> QED
  BY <1>1, <1>4, <1>5, <1>6

\* Nothing is assigned by nothing.
LEMMA NothingEnds == \A t, v : ~Ends(<<>>, t, v)
BY DEF Ends, Assigned

\* The client and the loader agree on one line.
LEMMA LineAgrees ==
    ASSUME NEW l \in Lines, Unparsed(<<l>>) = {}
    PROVE  Agree(Meaning(CommandsOf(l)), l.sets)
<1>1. l \in ToSet(<<l>>)
  BY DEF ToSet
<1>2. \/ Skipped(l)
      \/ /\ CommandsOf(l) # <<>>
         /\ \A item \in ToSet(_split_top_level(Rest(l))) : Named(item)
  BY <1>1, Zenon DEF Unparsed
<1>3. CASE Meaning(CommandsOf(l)) = l.sets
  BY <1>3 DEF Agree
<1>4. CASE l.sets = <<>> /\ \A i \in DOMAIN CommandsOf(l) : ~is_property(CommandsOf(l)[i])
  <2>1. PICK cs : cs = CommandsOf(l) /\ \A i \in DOMAIN cs : ~is_property(cs[i])
    BY <1>4
  <2>2. \A i \in DOMAIN Meaning(cs) : Meaning(cs)[i] = <<>>
    BY <2>1 DEF Meaning
  <2>3. \A t, v : ~Ends(Meaning(cs), t, v)
    BY <2>2 DEF Ends, Assigned
  <2> QED
    BY <1>4, <2>1, <2>3, NothingEnds DEF Agree
<1> QED
  BY <1>2, <1>3, <1>4, Understood

\* The client and the loader agree on a script of which no line is reported.
LEMMA ScriptAgrees ==
    ASSUME NEW text \in Seq(Lines), Unparsed(normalise(text)) = {}
    PROVE  Agree(Meaning(Commands(normalise(text))), Assignments(text))
<1> DEFINE T == {s \in Seq(Lines) : Unparsed(normalise(s)) = {} =>
                     Agree(Meaning(Commands(normalise(s))), Assignments(s))}
<1>1. <<>> \in T
  <2>1. normalise(<<>>) = <<>>
    BY WithoutEmpty DEF normalise
  <2>2. Commands(<<>>) = <<>> /\ Assignments(<<>>) = <<>>
    <3>1. [i \in DOMAIN <<>> |-> CommandsOf(<<>>[i])] = <<>>
      OBVIOUS
    <3>2. [i \in DOMAIN <<>> |-> <<>>[i].sets] = <<>>
      OBVIOUS
    <3> QED
      BY <3>1, <3>2, FlattenEmpty DEF Commands, Assignments
  <2>3. Meaning(<<>>) = <<>>
    BY DEF Meaning
  <2> QED
    BY <2>1, <2>2, <2>3 DEF Agree
<1>2. ASSUME NEW s \in Seq(Lines), NEW l \in Lines, s \in T PROVE Append(s, l) \in T
  <2> SUFFICES ASSUME Unparsed(normalise(Append(s, l))) = {}
               PROVE  Agree(Meaning(Commands(normalise(Append(s, l)))), Assignments(Append(s, l)))
    OBVIOUS
  <2>1. PICK lines \in Seq(Lines) : lines = normalise(s)
    BY RenderedReads
  <2>2. normalise(Append(s, l)) = IF l = Blank THEN lines ELSE Append(lines, l)
    BY <2>1, WithoutAppend DEF normalise
  <2>3. Assignments(Append(s, l)) = Assignments(s) \o l.sets
    BY OneMoreLine
  <2>4. PICK B \in Seq(Targets \X Values) : B = Assignments(s)
    BY AssignmentsTyped
  <2>5. CASE l = Blank
    <3>1. l.sets = <<>>
      BY <2>5, LoaderAssumption
    <3>2. Assignments(Append(s, l)) = Assignments(s)
      BY <2>3, <2>4, <3>1
    <3> QED
      BY <1>2, <2>1, <2>2, <2>5, <3>2
  <2>6. CASE l # Blank
    <3>1. Unparsed(lines) = {} /\ Unparsed(<<l>>) = {}
      BY <2>1, <2>2, <2>6, OneMoreLine
    <3>2. Agree(Meaning(Commands(lines)), B)
      BY <1>2, <2>1, <2>4, <3>1
    <3>3. Agree(Meaning(CommandsOf(l)), l.sets)
      BY <3>1, LineAgrees
    <3>4. PICK cs \in Seq(AnyCommand), ds \in Seq(AnyCommand) :
             cs = Commands(lines) /\ ds = CommandsOf(l)
      BY <2>1, CommandsTyped, CommandsOfTyped
    <3>5. Commands(Append(lines, l)) = cs \o ds
      BY <2>1, <3>4, OneMoreLine
    <3>6. Meaning(cs \o ds) = Meaning(cs) \o Meaning(ds)
      BY MeaningConcat
    <3>7. PICK A \in Seq(Entries), C \in Seq(Entries) : A = Meaning(cs) /\ C = Meaning(ds)
      BY MeaningTyped
    <3>8. l.sets \in Seq(Targets \X Values)
      BY BootAssumption
    <3>9. Agree(A \o C, B \o l.sets)
      <4>1. Targets \X Values \subseteq Entries
        BY DEF Entries
      <4>2. B \in Seq(Entries) /\ l.sets \in Seq(Entries)
        <5> DEFINE P == Targets \X Values
        <5>1. P \subseteq Entries /\ B \in Seq(P) /\ l.sets \in Seq(P)
          BY <3>8, <4>1
        <5> HIDE DEF P
        <5> QED
          BY <5>1
      <4>3. Agree(A, B) /\ Agree(C, l.sets)
        BY <3>2, <3>3, <3>4, <3>7
      <4> QED
        BY <4>2, <4>3, AgreeConcat
    <3> QED
      BY <2>2, <2>3, <2>4, <2>6, <3>5, <3>6, <3>7, <3>9
  <2> QED
    BY <2>5, <2>6
<1>3. Seq(Lines) \subseteq T
  <2> HIDE DEF T
  <2> QED
    BY <1>1, <1>2, SeqInduction
<1> QED
  BY <1>3

\* A pair is not empty, and has its first component.
LEMMA PairsAreNot == \A a, b : <<a, b>> # <<>> /\ <<a, b>>[1] = a
<1> SUFFICES ASSUME NEW a, NEW b PROVE <<a, b>> # <<>> /\ <<a, b>>[1] = a
  OBVIOUS
<1>1. PICK p : p = <<a, b>>
  OBVIOUS
<1>2. PICK e : e = <<>>
  OBVIOUS
<1>3. Len(p) = 2 /\ Len(e) = 0 /\ p[1] = a
  BY <1>1, <1>2
<1>4. p # e
  BY <1>3
<1> QED
  BY <1>1, <1>2, <1>3, <1>4

\* The index of a script holds what ends in the meaning of its commands.
LEMMA IndexEnds ==
    ASSUME NEW cs \in Seq(AnyCommand), NEW t
    PROVE  /\ t \in DOMAIN index_by_target(cs) <=> Assigned(Meaning(cs), t) # {}
           /\ t \in DOMAIN index_by_target(cs) =>
                 Ends(Meaning(cs), t, index_by_target(cs)[t].value)
<1> DEFINE sets == {i \in DOMAIN cs : is_property(cs[i])}
           at(i) == Target(cs[i].path, cs[i].name)
           index == index_by_target(cs)
           S == Meaning(cs)
<1>1. index = [u \in {at(i) : i \in sets} |->
                 cs[CHOOSE i \in sets : at(i) = u /\ \A j \in sets : at(j) = u => j <= i]]
  BY DEF index_by_target
<1>2. Assigned(S, t) = {i \in sets : at(i) = t}
  <2>1. \A i \in DOMAIN cs : S[i] = IF is_property(cs[i]) THEN <<at(i), cs[i].value>> ELSE <<>>
    BY DEF Meaning
  <2>2. DOMAIN S = DOMAIN cs
    BY DEF Meaning
  <2> HIDE DEF S, at
  <2>3. \A i \in DOMAIN cs : (S[i] # <<>> /\ S[i][1] = t) <=> (is_property(cs[i]) /\ at(i) = t)
    BY <2>1, PairsAreNot, Zenon
  <2> QED
    BY <2>2, <2>3 DEF Assigned
<1>3. \A i \in sets : S[i][2] = cs[i].value
  BY DEF Meaning
<1>4. Assigned(S, t) \subseteq 0..Len(cs) /\ Len(cs) \in Nat
  <2>1. sets \subseteq 0..Len(cs) /\ Len(cs) \in Nat
    OBVIOUS
  <2> HIDE DEF S, sets, at
  <2> QED
    BY <1>2, <2>1
<1> HIDE DEF sets, at, index, S
<1>5. t \in DOMAIN index <=> Assigned(S, t) # {}
  BY <1>1, <1>2
<1>6. ASSUME t \in DOMAIN index PROVE Ends(S, t, index[t].value)
  <2>1. PICK i \in Assigned(S, t) : \A j \in Assigned(S, t) : j <= i
    BY <1>4, <1>5, <1>6, Greatest
  <2>2. \E k \in sets : at(k) = t /\ \A j \in sets : at(j) = t => j <= k
    BY <1>2, <2>1
  <2>3. PICK k : k = CHOOSE x \in sets : at(x) = t /\ \A j \in sets : at(j) = t => j <= x
    OBVIOUS
  <2>4. k \in sets /\ at(k) = t /\ \A j \in sets : at(j) = t => j <= k
    BY <2>2, <2>3, Zenon
  <2>5. index[t] = cs[k]
    BY <1>1, <1>6, <2>3, Zenon
  <2>6. S[k][2] = index[t].value
    BY <1>3, <2>4, <2>5
  <2>7. k \in Assigned(S, t) /\ \A j \in Assigned(S, t) : j <= k
    BY <1>2, <2>4
  <2> QED
    BY <2>6, <2>7 DEF Ends
<1> QED
  BY <1>5, <1>6 DEF index, S

\* A sequence ends with one value for a target.
LEMMA EndsOnce ==
    ASSUME NEW S, NEW A \in Seq(S), NEW t, NEW v, NEW w, Ends(A, t, v), Ends(A, t, w)
    PROVE  v = w
<1>1. PICK i \in Assigned(A, t) : A[i][2] = v /\ \A j \in Assigned(A, t) : j <= i
  BY DEF Ends
<1>2. PICK k \in Assigned(A, t) : A[k][2] = w /\ \A j \in Assigned(A, t) : j <= k
  BY DEF Ends
<1>3. i \in Nat /\ k \in Nat /\ i <= k /\ k <= i
  BY <1>1, <1>2 DEF Assigned
<1>4. i = k
  BY <1>3
<1> QED
  BY <1>1, <1>2, <1>4

\* A boot gives a property that the device reports what the index of the script has
\* for it, if no line of the script is reported, and leaves the others.
LEMMA ReplayIs ==
    ASSUME NEW text \in Seq(Lines), Unparsed(normalise(text)) = {},
           NEW values \in [Targets -> Values \cup {None}], NEW t \in Targets,
           NEW index, index = index_by_target(Commands(normalise(text)))
    PROVE  /\ t \in DOMAIN index => index[t].value \in Values
           /\ Replay(text, values)[t] = IF t \in DOMAIN index /\ values[t] # None
                                        THEN normalise_scalar[index[t].value]
                                        ELSE values[t]
<1>1. PICK sets \in Seq(Targets \X Values) : sets = Assignments(text)
  BY AssignmentsTyped
<1>2. PICK cs \in Seq(AnyCommand) : cs = Commands(normalise(text))
  BY CommandsTyped, RenderedReads
<1>3. PICK S \in Seq(Entries) : S = Meaning(cs)
  BY MeaningTyped
<1>4. Agree(S, sets)
  BY <1>1, <1>2, <1>3, ScriptAgrees
<1>5. /\ t \in DOMAIN index <=> Assigned(S, t) # {}
      /\ t \in DOMAIN index => Ends(S, t, index[t].value)
  BY <1>2, <1>3, IndexEnds
<1>6. /\ t \in DOMAIN index <=> Assigned(sets, t) # {}
      /\ t \in DOMAIN index => Ends(sets, t, index[t].value)
  <2>1. Assigned(S, t) # {} <=> \E v : Ends(S, t, v)
    BY EndsSomewhere
  <2>2. Assigned(sets, t) # {} <=> \E v : Ends(sets, t, v)
    BY EndsSomewhere
  <2> QED
    BY <1>4, <1>5, <2>1, <2>2 DEF Agree
<1>7. ASSUME t \in DOMAIN index PROVE index[t].value \in Values
  <2>1. PICK i \in Assigned(sets, t) : sets[i][2] = index[t].value
    BY <1>6, <1>7 DEF Ends
  <2>2. i \in DOMAIN sets
    BY DEF Assigned
  <2>3. sets[i][2] \in Values
    BY <2>2
  <2> QED
    BY <2>1, <2>3
<1> DEFINE By(u) == {i \in DOMAIN sets : sets[i][1] = u}
           last == CHOOSE i \in By(t) : \A j \in By(t) : j <= i
<1>8. By(t) = Assigned(sets, t)
  <2>1. \A i \in DOMAIN sets : sets[i] # <<>>
    <3> SUFFICES ASSUME NEW i \in DOMAIN sets PROVE sets[i] # <<>>
      OBVIOUS
    <3>1. sets[i] \in Targets \X Values
      OBVIOUS
    <3>2. PICK a, b : sets[i] = <<a, b>>
      BY <3>1
    <3> QED
      BY <3>2, PairsAreNot
  <2> QED
    BY <2>1 DEF Assigned
<1>9. Replay(text, values)[t] =
         IF By(t) = {} \/ values[t] = None THEN values[t]
         ELSE normalise_scalar[sets[last][2]]
  BY <1>1 DEF Replay
<1>10. ASSUME t \in DOMAIN index PROVE sets[last][2] = index[t].value
  <2> HIDE DEF By
  <2>1. PICK i \in By(t) : /\ sets[i][2] = index[t].value /\ \A j \in By(t) : j <= i
    BY <1>6, <1>8, <1>10 DEF Ends
  <2>2. PICK k : k = last
    OBVIOUS
  <2>3. k \in By(t) /\ \A j \in By(t) : j <= k
    BY <2>1, <2>2
  <2>4. Ends(sets, t, sets[k][2])
    BY <1>8, <2>3 DEF Ends
  <2>5. sets[k][2] = index[t].value
    BY <1>6, <1>10, <2>4, EndsOnce
  <2> QED
    BY <2>2, <2>5
<1> HIDE DEF By, last
<1> QED
  BY <1>6, <1>7, <1>8, <1>9, <1>10

(***************************************************************************)
(* The theorems.                                                           *)
(***************************************************************************)

\* Every variable stays in its set, for every script, page and number of runs.
THEOREM BootTyping == Spec => []TypeOK
<1>1. BInv => TypeOK
  <2> SUFFICES ASSUME BInv PROVE TypeOK
    OBVIOUS
  <2>1. live \in [Targets -> Values \cup {None}]
    BY BootAssumption DEF BInv, DeviceFits, Reported
  <2>2. ASSUME NEW m \in Managers
        PROVE  /\ man[m].phase \in {"idle", "fetched", "comparing", "compared", "saved"}
               /\ man[m].seen \in [Targets -> Values \cup {None}]
               /\ man[m].phase = "idle" => man[m].current = <<>> /\ man[m].drift = {}
               /\ man[m].phase # "idle" => /\ man[m].current \in DOMAIN indexed
                                           /\ man[m].drift \subseteq DOMAIN indexed[man[m].current]
               /\ man[m].phase = "saved" => desired[m] # None /\ ~man[m].check_mode
    <3>1. \A v \in Reported : v \in Values
      BY BootAssumption DEF Reported
    <3> QED
      BY <3>1, ScriptsTyped DEF BInv, ManFits, ManRecords
  <2>3. ASSUME NEW t \in Tasks
        PROVE  /\ task[t].phase \in {"idle", "writing"}
               /\ task[t].plan \cup task[t].reverts \subseteq DOMAIN rotation[t]
    BY DEF BInv, TaskFits, TaskRecords
  <2> QED
    BY <2>1, <2>2, <2>3 DEF TypeOK, BInv, DeviceFits, Bounds
<1> QED
  BY <1>1, BootInvariant, PTL

\* What is found in a page, whole or not, is the script or nothing.
LEMMA FoundIsScript ==
    ASSUME NEW found \in Whole \cup Part, found # None
    PROVE  Contents(found) = doc
<1>1. PICK page \in Layouts : found \in Shown(page) \cup {None}
  BY FoundTyped
<1>2. found = "script"
  BY <1>1, FirmwareAssumption DEF Shown, OptionUses
<1> QED
  BY <1>2 DEF Contents

\* What a step of one manager or one task, of the operator or the device leaves alone.
LEMMA OtherSteps ==
    ASSUME BInv, Next
    PROVE  \/ \E m \in Managers :
                 /\ Reads(m) \/ Save(m)
                 /\ ManStep(m)
                 /\ \A n \in Managers : n # m => man'[n] = man[n]
           \/ UNCHANGED <<doc, man, boots>>
           \/ Edit
           \/ Reboot
<1>1. ASSUME NEW m \in Managers, ManStep(m)
      PROVE  \A n \in Managers : n # m => man'[n] = man[n]
  BY <1>1 DEF BInv, ManStep
<1>2. ASSUME NEW m \in Managers, Reads(m) \/ Save(m)
      PROVE  ManStep(m)
  BY <1>2, ReadsFit, SaveFits
<1>3. ASSUME NEW t \in Tasks,
             (\E c \in BOOLEAN : Begin(t, c, Given(t))) \/ ProceedTask(t) \/ Die(t)
      PROVE  UNCHANGED <<doc, man, boots>>
  BY <1>3, BeginFits, SetFits, VerifyTaskFits, DieFits DEF ProceedTask, TaskStep
<1> QED
  BY <1>1, <1>2, <1>3 DEF Next, Proceed, Reads

\* A save is of what a run outside check mode was given, which has something in it
\* and is not what the run found.
THEOREM SaveSound == Spec => SaveIsAskedFor
<1> DEFINE Asked ==
      doc' # doc /\ edits' = edits =>
          /\ normalise(doc') # <<>>
          /\ \E m \in Managers :
                /\ desired[m] # None /\ ~man[m].check_mode
                /\ man[m].current # normalise(desired[m])
                /\ normalise(doc') = normalise(desired[m])
<1>1. BInv /\ [Next]_vars => [Asked]_vars
  <2> SUFFICES ASSUME BInv, Next, doc' # doc, edits' = edits
               PROVE  Asked
    BY DEF vars, device
  <2>1. ASSUME NEW m \in Managers, Save(m)
        PROVE  Asked
    BY <2>1, SaveFits DEF Writes, Changed
  <2>2. ~Edit /\ ~Reboot
    BY BootAssumption DEF Edit, Reboot, BInv, Bounds
  <2>3. ASSUME NEW m \in Managers, Reads(m)
        PROVE  FALSE
    BY <2>3, ReadsFit
  <2> QED
    BY <2>1, <2>2, <2>3, OtherSteps
<1> QED
  BY <1>1, BootInvariant, PTL DEF Spec, SaveIsAskedFor

\* What a run fetches and what it verifies is the script of the device.
THEOREM ScriptIdentified == Spec => WorksOnTheScript
<1> DEFINE OnScript ==
      \A m \in Managers :
          /\ man[m].phase = "idle" /\ man'[m].phase = "fetched" =>
                man'[m].current = normalise(doc)
          /\ man[m].phase = "saved" /\ man'[m].outcome = "saved" =>
                normalise(doc) = normalise(desired[m])
<1>1. BInv /\ [Next]_vars => [OnScript]_vars
  <2> SUFFICES ASSUME BInv, Next, NEW m \in Managers
               PROVE  /\ man[m].phase = "idle" /\ man'[m].phase = "fetched" =>
                            man'[m].current = normalise(doc)
                      /\ man[m].phase = "saved" /\ man'[m].outcome = "saved" =>
                            normalise(doc) = normalise(desired[m])
    BY DEF vars, device
  <2>1. ManFits(m, man[m])
    BY DEF BInv
  <2>2. CASE man'[m] = man[m]
    BY <2>1, <2>2 DEF ManFits
  <2>3. CASE \E c \in BOOLEAN : Fetch(m, c)
    <3>1. PICK c \in BOOLEAN, found \in Whole \cup Part :
             /\ man[m].phase = "idle"
             /\ IF found = None THEN End(m, "none")
                ELSE man' = [man EXCEPT ![m] =
                       [phase |-> "fetched", check_mode |-> c,
                        current |-> normalise(Contents(found)), left |-> {},
                    seen |-> Unseen, drift |-> {},
                        outcome |-> "none"]]
      BY <2>3 DEF Fetch
    <3>2. CASE found = None
      BY <3>1, <3>2 DEF End, BInv, IdleManager
    <3>3. CASE found # None
      BY <3>1, <3>3, FoundIsScript DEF BInv
    <3> QED
      BY <3>2, <3>3
  <2>4. CASE Connect(m) \/ Get(m) \/ LoseSession(m) \/ Compare(m) \/ Report(m) \/ Save(m)
    BY <2>4 DEF Connect, Get, LoseSession, Compare, Report, Save, Decided
  <2>5. CASE Verify(m)
    <3>1. PICK found \in Whole \cup Part :
             /\ man[m].phase = "saved"
             /\ End(m, IF /\ found # None
                          /\ normalise(Contents(found)) = normalise(desired[m])
                       THEN "saved" ELSE "none")
      BY <2>5 DEF Verify
    <3>2. CASE found # None /\ normalise(Contents(found)) = normalise(desired[m])
      BY <3>1, <3>2, FoundIsScript
    <3>3. CASE ~(found # None /\ normalise(Contents(found)) = normalise(desired[m]))
      BY <3>1, <3>3 DEF End, BInv, IdleManager
    <3> QED
      BY <3>2, <3>3
  <2>6. CASE Edit
    BY <2>2, <2>6 DEF Edit
  <2>7. CASE Reboot
    BY <2>1, <2>7 DEF Reboot, ManFits, IdleManager
  <2> QED
    BY <2>2, <2>3, <2>4, <2>5, <2>6, <2>7, OtherSteps DEF Reads
<1> QED
  BY <1>1, BootInvariant, PTL DEF Spec, WorksOnTheScript

\* Only a boot counts as one.
LEMMA BootsOnReboot ==
    ASSUME BInv, Next, boots' # boots
    PROVE  Reboot
<1>1. ASSUME NEW m \in Managers, Reads(m) \/ Save(m)
      PROVE  FALSE
  BY <1>1 DEF Reads, Fetch, Connect, Get, LoseSession, Compare, Report, Save, Verify
<1>2. ~Edit
  BY DEF Edit
<1> QED
  BY <1>1, <1>2, OtherSteps

\* What a task has warned of covers what the boot changes of its settings.
THEOREM RevertsSound == Spec => NoSilentRevert
<1> DEFINE Kept(t) ==
      \A g \in DOMAIN rotation[t] \ task[t].reverts :
          live[g] = rotation_writes(t)[g] => live'[g] = live[g]
<1>1. BInv /\ [Next]_vars =>
         [boots' # boots =>
            \A t \in Tasks :
               /\ task[t].outcome \in {"verified", "unchanged"}
               /\ task[t].startup_script = normalise(doc)
               /\ Unparsed(normalise(doc)) = {}
               => Kept(t)]_vars
  <2> SUFFICES ASSUME BInv, Next, boots' # boots, NEW t \in Tasks,
                      task[t].startup_script = normalise(doc),
                      Unparsed(normalise(doc)) = {},
                      NEW g \in DOMAIN rotation[t] \ task[t].reverts,
                      live[g] = rotation_writes(t)[g]
               PROVE  live'[g] = live[g]
    BY DEF vars, device
  <2>1. live' = Replay(doc, live)
    BY BootsOnReboot DEF Reboot
  <2>2. /\ doc \in Seq(Lines) /\ normalise(doc) \in Scripts
        /\ live \in [Targets -> Values \cup {None}]
    BY RotationTyped, BootAssumption DEF BInv, DeviceFits, Reported
  <2>3. PICK index : index = index_by_target(Commands(normalise(doc)))
    OBVIOUS
  <2>4. task[t].reverts = conflicts(rotation_writes(t), index)
    BY <2>2, <2>3, ScriptsTyped DEF BInv, TaskFits
  <2>5. /\ g \in DOMAIN rotation_writes(t) /\ g \in Targets
        /\ rotation_writes(t)[g] \in Reported
    BY RotationTyped
  <2>6. g \in DOMAIN index => index[g].value = rotation_writes(t)[g]
    BY <2>4, <2>5 DEF conflicts
  <2>7. live'[g] = IF g \in DOMAIN index /\ live[g] # None
                   THEN normalise_scalar[index[g].value]
                   ELSE live[g]
    BY <2>1, <2>2, <2>3, <2>5, ReplayIs
  <2>8. normalise_scalar[rotation_writes(t)[g]] = rotation_writes(t)[g]
    BY <2>5, BootAssumption DEF Reported
  <2> QED
    BY <2>6, <2>7, <2>8
<1> QED
  BY <1>1, BootInvariant, PTL DEF Spec, NoSilentRevert

\* What a comparison names covers what the next boot would change, but for what has
\* changed since it was read.
THEOREM ComparisonComplete == Spec => BootChangesAreReported
<1> DEFINE Covered(m) ==
      /\ man[m].phase = "comparing" /\ man'[m].phase = "compared"
      /\ man[m].current = normalise(doc)
      /\ Unparsed(normalise(doc)) = {}
      => {t \in Targets : Replay(doc, live)[t] # live[t]} \ Outdated(m)
            \subseteq man'[m].drift
<1>1. BInv /\ [Next]_vars => [\A m \in Managers : Covered(m)]_vars
  <2> SUFFICES ASSUME BInv, Next, NEW m \in Managers,
                      man[m].phase = "comparing", man'[m].phase = "compared",
                      man[m].current = normalise(doc),
                      Unparsed(normalise(doc)) = {},
                      NEW t \in Targets, Replay(doc, live)[t] # live[t],
                      man[m].seen[t] \in {None, live[t]}
               PROVE  t \in man'[m].drift
    BY DEF vars, device, Outdated
  <2>1. man[m] \in ManRecords /\ man = [n \in Managers |-> man[n]]
    BY DEF BInv, ManFits
  <2>2. Compare(m)
    <3>1. man'[m] # man[m]
      OBVIOUS
    <3>2. ~Reboot /\ ~Edit
      BY <3>1 DEF Reboot, Edit, IdleManager
    <3>3. Reads(m) \/ Save(m)
      BY <3>1, <3>2, OtherSteps
    <3>4. ~(\E c \in BOOLEAN : Fetch(m, c)) /\ ~Connect(m) /\ ~Verify(m)
      BY DEF Fetch, Connect, Verify
    <3>5. ~Report(m) /\ ~LoseSession(m)
      BY <2>1 DEF Report, LoseSession, End, IdleManager
    <3>6. ~Get(m)
      BY <2>1 DEF Get, ManRecords
    <3>7. ~Save(m)
      BY DEF Save, Decided
    <3> QED
      BY <3>3, <3>4, <3>5, <3>6, <3>7 DEF Reads
  <2>3. /\ doc \in Seq(Lines) /\ normalise(doc) \in Scripts
        /\ live \in [Targets -> Reported \cup {None}]
        /\ live \in [Targets -> Values \cup {None}]
    BY RotationTyped, BootAssumption DEF BInv, DeviceFits, Reported
  <2> DEFINE index == indexed[man[m].current]
             read == {u[1] : u \in DOMAIN index} \ man[m].left
             shown == [u \in {u \in Targets : man[m].seen[u] # None} |-> man[m].seen[u]]
             drift == Drift(index, shown)
                      \cup {u[1] : u \in Unverifiable(index, shown, read, Factory)}
  <2>4. man'[m].drift = drift
    <3>1. man' = [man EXCEPT ![m].phase = "compared", ![m].seen = Unseen, ![m].drift = drift]
      BY <2>2, Zenon DEF Compare
    <3> HIDE DEF drift
    <3> QED
      BY <2>1, <3>1 DEF ManRecords
  <2>5. index = index_by_target(Commands(normalise(doc)))
    BY <2>3, ScriptsTyped
  <2>6. read = {u[1] : u \in DOMAIN index}
    BY <2>2 DEF Compare, AllRead
  <2> HIDE DEF index
  <2>7. /\ t \in DOMAIN index => index[t].value \in Values
        /\ Replay(doc, live)[t] = IF t \in DOMAIN index /\ live[t] # None
                                  THEN normalise_scalar[index[t].value]
                                  ELSE live[t]
    BY <2>3, <2>5, ReplayIs
  <2>8. t \in DOMAIN index /\ live[t] # None /\ normalise_scalar[index[t].value] # live[t]
    BY <2>7
  <2>9. live[t] # index[t].value
    <3>1. live[t] \in Reported
      BY <2>3, <2>8
    <3>2. normalise_scalar[live[t]] = live[t]
      BY <3>1, BootAssumption DEF Reported
    <3> QED
      BY <2>8, <3>2
  <2>10. t[1] \in read
    BY <2>6, <2>8
  <2> HIDE DEF read
  <2>11. CASE man[m].seen[t] = live[t]
    <3>1. t \in DOMAIN shown /\ shown[t] = live[t]
      BY <2>8, <2>11
    <3> HIDE DEF shown
    <3>2. t \in Drift(index, shown)
      BY <2>8, <2>9, <3>1 DEF Drift
    <3> QED
      BY <2>4, <3>2
  <2>12. CASE man[m].seen[t] = None
    <3>1. t \notin DOMAIN shown
      BY <2>12
    <3> HIDE DEF shown
    <3>2. <<t, index[t].raw \in ToSet(Factory)>> \in Unverifiable(index, shown, read, Factory)
      BY <2>8, <2>10, <3>1 DEF Unverifiable
    <3>3. <<t, index[t].raw \in ToSet(Factory)>>[1] = t
      OBVIOUS
    <3>4. t \in {u[1] : u \in Unverifiable(index, shown, read, Factory)}
      BY <3>2, <3>3
    <3> QED
      BY <2>4, <3>4
  <2> QED
    BY <2>11, <2>12
<1> QED
  BY <1>1, BootInvariant, PTL DEF Spec, BootChangesAreReported
=================================================================================
