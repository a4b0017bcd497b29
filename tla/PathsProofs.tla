---------------------------- MODULE PathsProofs ----------------------------
(***************************************************************************)
(* Proofs about Paths, for paths and patterns of any length: a normalized  *)
(* path says what its components say read from the end, resolving against  *)
(* a directory is normalizing the two joined, and the matcher of           *)
(* vfs_fnmatch finds a match exactly when there is one.                    *)
(***************************************************************************)
EXTENDS Paths, FiniteInduction, TLAPS

-----------------------------------------------------------------------------
(* Repeating a step.                                                       *)

\* The steps can be taken one after the other, starting at base.
Iterates(n, S, base, step) ==
    \E f \in [0..n -> S] : f[0] = base /\ \A k \in 1..n : f[k] = step[k][f[k - 1]]

\* A step that is defined on a set can be repeated any number of times.
LEMMA IterateExists ==
    ASSUME NEW n \in Nat, NEW S, NEW base \in S, NEW step \in [1..n -> [S -> S]]
    PROVE  Iterates(n, S, base, step)
<1> DEFINE Sol(f, m) == /\ f \in [0..m -> S] /\ f[0] = base
                        /\ \A k \in 1..m : f[k] = step[k][f[k - 1]]
           G == {m \in Nat : m <= n => \E f : Sol(f, m)}
<1>1. 0 \in G
  <2> DEFINE f == [k \in 0..0 |-> base]
  <2>1. Sol(f, 0)
    OBVIOUS
  <2>2. QED
    BY <2>1
<1>2. ASSUME NEW m \in Nat, m \in G PROVE m + 1 \in G
  <2>1. SUFFICES ASSUME m + 1 <= n PROVE \E f : Sol(f, m + 1)
    OBVIOUS
  <2>2. PICK f : Sol(f, m)
    BY <1>2, <2>1
  <2> DEFINE g == [k \in 0..(m + 1) |-> IF k = m + 1 THEN step[m + 1][f[m]] ELSE f[k]]
  <2>3. m + 1 \in 1..n /\ m \in 0..m
    BY <2>1
  <2>4. f[m] \in S /\ step[m + 1] \in [S -> S]
    BY <2>2, <2>3
  <2>5. step[m + 1][f[m]] \in S
    BY <2>4
  <2>6. g \in [0..(m + 1) -> S] /\ g[m + 1] = step[m + 1][f[m]] /\ \A k \in 0..m : g[k] = f[k]
    BY <2>2, <2>5
  <2> HIDE DEF g
  <2>7. g[0] = base
    BY <2>2, <2>6
  <2>8. ASSUME NEW k \in 1..(m + 1) PROVE g[k] = step[k][g[k - 1]]
    <3>1. CASE k = m + 1
      <4>1. k - 1 = m /\ g[m] = f[m]
        BY <2>6, <3>1
      <4>2. QED
        BY <2>6, <3>1, <4>1
    <3>2. CASE k # m + 1
      <4>1. k \in 1..m /\ k \in 0..m /\ k - 1 \in 0..m
        BY <3>2
      <4>2. g[k] = f[k] /\ g[k - 1] = f[k - 1] /\ f[k] = step[k][f[k - 1]]
        BY <2>2, <2>6, <4>1
      <4>3. QED
        BY <4>2
    <3>3. QED
      BY <3>1, <3>2
  <2>9. QED
    BY <2>6, <2>7, <2>8
<1> HIDE DEF G
<1>3. n \in G
  BY <1>1, <1>2, NatSetInduction
<1>4. QED
  BY <1>3 DEF G, Iterates

\* Two sequences of values that start alike and, where they agree, go on
\* alike agree: a step can be repeated in one way only.
InStep(n, f, g) == g[0] = f[0] /\ \A k \in 1..n : g[k - 1] = f[k - 1] => g[k] = f[k]
Agree(n, f, g) == \A k \in 0..n : g[k] = f[k]

LEMMA IterateUnique ==
    ASSUME NEW n \in Nat, NEW f, NEW g, InStep(n, f, g)
    PROVE  Agree(n, f, g)
<1> USE DEF InStep, Agree
<1> DEFINE G == {m \in Nat : m <= n => g[m] = f[m]}
<1>1. 0 \in G
  OBVIOUS
<1>2. ASSUME NEW m \in Nat, m \in G PROVE m + 1 \in G
  <2>1. SUFFICES ASSUME m + 1 <= n PROVE g[m + 1] = f[m + 1]
    OBVIOUS
  <2>2. m + 1 \in 1..n /\ (m + 1) - 1 = m
    BY <2>1
  <2>3. QED
    BY <1>2, <2>1, <2>2
<1> HIDE DEF G
<1>3. \A m \in Nat : m \in G
  BY <1>1, <1>2, NatSetInduction
<1>4. QED
  BY <1>3 DEF G

-----------------------------------------------------------------------------
(* Texts and components.                                                   *)

Sign == PathChars
Text == Seq(Sign)
Toks == Seq(Text)

\* A sequence is empty, or something before a last element.
LEMMA SeqCases ==
    ASSUME NEW A, NEW s \in Seq(A)
    PROVE  \/ s = <<>>
           \/ \E r \in Seq(A) : \E a \in A : s = Append(r, a) /\ Len(s) = Len(r) + 1
<1>1. CASE Len(s) = 0
  BY <1>1
<1>2. CASE Len(s) > 0
  <2> DEFINE r == [k \in 1..(Len(s) - 1) |-> s[k]]
  <2>1. r \in Seq(A) /\ Len(r) = Len(s) - 1 /\ s[Len(s)] \in A
    BY <1>2
  <2>2. s = Append(r, s[Len(s)])
    BY <1>2, <2>1
  <2> HIDE DEF r
  <2>3. Len(s) = Len(r) + 1
    BY <1>2, <2>1
  <2>4. QED
    BY <2>1, <2>2, <2>3, Zenon
<1>3. QED
  BY <1>1, <1>2

LEMMA FrontLast ==
    ASSUME NEW A, NEW r \in Seq(A), NEW a \in A
    PROVE  Front(Append(r, a)) = r /\ Last(Append(r, a)) = a
<1>1. Len(Append(r, a)) = Len(r) + 1 /\ Len(r) \in Nat /\ Append(r, a) \in Seq(A)
  OBVIOUS
<1>2. Last(Append(r, a)) = a
  BY <1>1 DEF Last
<1>3. Front(Append(r, a)) = SubSeq(Append(r, a), 1, Len(r))
  BY <1>1 DEF Front
<1>4. SubSeq(Append(r, a), 1, Len(r)) = r
  BY <1>1
<1>5. QED
  BY <1>2, <1>3, <1>4

LEMMA AppendIs ==
    ASSUME NEW A, NEW s \in Seq(A), NEW a \in A
    PROVE  Append(s, a) \in Seq(A) /\ Append(s, a) # <<>> /\ Len(Append(s, a)) = Len(s) + 1
<1>1. Append(s, a) \in Seq(A) /\ Len(Append(s, a)) = Len(s) + 1 /\ Len(s) \in Nat
  OBVIOUS
<1>2. Len(<<>>) = 0
  OBVIOUS
<1>3. QED
  BY <1>1, <1>2

LEMMA ConcatIs ==
    ASSUME NEW A, NEW s \in Seq(A), NEW t \in Seq(A)
    PROVE  s \o t \in Seq(A) /\ Len(s \o t) = Len(s) + Len(t)
OBVIOUS

LEMMA ConcatText ==
    ASSUME NEW s \in Text, NEW t \in Text
    PROVE  s \o t \in Text /\ Len(s \o t) = Len(s) + Len(t) /\ Len(s) \in Nat /\ Len(t) \in Nat
BY DEF Text

LEMMA TextFacts ==
    /\ <<>> \in Text /\ <<>> \in Toks /\ <<(<<>>)>> \in Toks /\ <<(<<>>)>> # <<>>
    /\ Slash \in Text /\ Len(Slash) = 1 /\ "/" \in Sign /\ "." \in Sign
    /\ \A s \in Text, t \in Text : s \o t \in Text
    /\ \A t \in Text : <<t>> \in Toks
<1>1. "/" \in Sign /\ "." \in Sign
  BY DEF Sign, PathChars
<1>2. <<>> \in Text /\ <<>> \in Toks /\ \A t \in Text : <<t>> \in Toks
  BY DEF Text, Toks
<1>3. <<(<<>>)>> # <<>> /\ Len(Slash) = 1
  BY DEF Slash
<1>4. Slash \in Text
  BY <1>1 DEF Slash, Text
<1>5. \A s \in Text, t \in Text : s \o t \in Text
  BY ConcatIs DEF Text
<1>6. QED
  BY <1>1, <1>2, <1>3, <1>4, <1>5

-----------------------------------------------------------------------------
(* Split, Join and Stack, one element at a time.                           *)

\* One character more: it starts a piece, or goes on with the last one.
SplitStep(x, c) == IF c = "/" THEN Append(x, <<>>) ELSE Append(Front(x), Append(Last(x), c))

Pieces == Toks \ {<<>>}

LEMMA SplitStepIn ==
    ASSUME NEW x \in Pieces, NEW c \in Sign
    PROVE  SplitStep(x, c) \in Pieces
<1>1. PICK r \in Toks, t \in Text : x = Append(r, t)
  BY SeqCases DEF Pieces, Toks
<1>2. Front(x) = r /\ Last(x) = t
  BY <1>1, FrontLast DEF Toks
<1>3. /\ Append(x, <<>>) \in Toks /\ Append(x, <<>>) # <<>>
      /\ \A u \in Text : Append(r, u) \in Toks /\ Append(r, u) # <<>>
  BY AppendIs, TextFacts DEF Pieces, Toks
<1>4. Append(t, c) \in Text
  BY DEF Text
<1>5. QED
  BY <1>2, <1>3, <1>4 DEF SplitStep, Pieces

IsSplit(f, s) == f = [i \in 0..Len(s) |-> IF i = 0 THEN <<(<<>>)>>
                                          ELSE IF s[i] = "/" THEN Append(f[i - 1], <<>>)
                                          ELSE Append(Front(f[i - 1]), Append(Last(f[i - 1]), s[i]))]

LEMMA SplitBy ==
    ASSUME NEW s \in Text, NEW f \in [0..Len(s) -> Pieces], f[0] = <<(<<>>)>>,
           \A k \in 1..Len(s) : f[k] = SplitStep(f[k - 1], s[k])
    PROVE  Split(s) = f[Len(s)]
<1> DEFINE n == Len(s)
           g == CHOOSE h : IsSplit(h, s)
<1>1. n \in Nat /\ 0 \in 0..n /\ n \in 0..n
  OBVIOUS
<1>2. \A k \in 0..n : k # 0 => k \in 1..n
  OBVIOUS
<1>3. IsSplit(f, s)
  <2>1. \A k \in 0..n : f[k] = IF k = 0 THEN <<(<<>>)>> ELSE SplitStep(f[k - 1], s[k])
    BY <1>2
  <2>2. f = [k \in 0..n |-> f[k]]
    OBVIOUS
  <2>3. f = [k \in 0..n |-> IF k = 0 THEN <<(<<>>)>> ELSE SplitStep(f[k - 1], s[k])]
    BY <2>1, <2>2
  <2>4. QED
    BY <2>3, Zenon DEF IsSplit, SplitStep
<1>4. IsSplit(g, s)
  BY <1>3, Zenon
<1>5. Split(s) = g[n]
  BY DEF Split, IsSplit
<1> HIDE DEF g
<1>6. g[0] = <<(<<>>)>> /\ \A k \in 1..n : g[k] = SplitStep(g[k - 1], s[k])
  <2>1. \A k \in 0..n : g[k] = IF k = 0 THEN <<(<<>>)>> ELSE SplitStep(g[k - 1], s[k])
    BY <1>4, Zenon DEF IsSplit, SplitStep
  <2>2. \A k \in 1..n : k \in 0..n /\ k # 0
    OBVIOUS
  <2>3. g[0] = <<(<<>>)>>
    BY <1>1, <2>1, Zenon
  <2>4. ASSUME NEW k \in 1..n PROVE g[k] = SplitStep(g[k - 1], s[k])
    BY <2>1, <2>2, Zenon
  <2>5. QED
    BY <2>3, <2>4, Zenon
<1>7. InStep(n, f, g)
  BY <1>6, Zenon DEF InStep
<1>8. \A k \in 0..n : g[k] = f[k]
  BY <1>1, <1>7, IterateUnique, Zenon DEF Agree
<1>9. QED
  BY <1>1, <1>5, <1>8

LEMMA SplitExists ==
    ASSUME NEW s \in Text
    PROVE  \E f \in [0..Len(s) -> Pieces] :
             f[0] = <<(<<>>)>> /\ \A k \in 1..Len(s) : f[k] = SplitStep(f[k - 1], s[k])
<1> DEFINE n == Len(s)
           step == [k \in 1..n |-> [x \in Pieces |-> SplitStep(x, s[k])]]
<1>1. n \in Nat /\ <<(<<>>)>> \in Pieces
  BY DEF Pieces, Toks, Text
<1>2. step \in [1..n -> [Pieces -> Pieces]]
  <2>1. \A k \in 1..n : s[k] \in Sign
    BY DEF Toks, Text
  <2>2. \A k \in 1..n : [x \in Pieces |-> SplitStep(x, s[k])] \in [Pieces -> Pieces]
    BY <2>1, SplitStepIn
  <2>3. QED
    BY <2>2
<1> HIDE DEF step
<1>3. PICK f \in [0..n -> Pieces] : f[0] = <<(<<>>)>> /\ \A k \in 1..n : f[k] = step[k][f[k - 1]]
  <2>1. Iterates(n, Pieces, <<(<<>>)>>, step)
    BY <1>1, <1>2, IterateExists
  <2>2. QED
    BY <2>1 DEF Iterates
<1>4. ASSUME NEW k \in 1..n PROVE f[k] = SplitStep(f[k - 1], s[k])
  <2>1. k - 1 \in 0..n
    OBVIOUS
  <2>2. f[k - 1] \in Pieces
    BY <2>1
  <2>3. QED
    BY <1>3, <2>2 DEF step
<1>5. QED
  BY <1>3, <1>4

LEMMA SplitIs ==
    /\ Split(<<>>) = <<(<<>>)>>
    /\ \A s \in Text : Split(s) \in Pieces
    /\ \A s \in Text : \A a \in Sign : Split(Append(s, a)) = SplitStep(Split(s), a)
<1>1. Split(<<>>) = <<(<<>>)>>
  <2>1. <<>> \in Text /\ Len(<<>>) = 0
    BY DEF Text, Toks
  <2>2. PICK f \in [0..Len(<<>>) -> Pieces] :
            f[0] = <<(<<>>)>> /\ \A k \in 1..Len(<<>>) : f[k] = SplitStep(f[k - 1], <<>>[k])
    BY <2>1, SplitExists
  <2>3. Split(<<>>) = f[Len(<<>>)]
    BY <2>1, <2>2, SplitBy
  <2>4. QED
    BY <2>1, <2>2, <2>3
<1>2. ASSUME NEW s \in Text PROVE Split(s) \in Pieces
  <2>1. PICK f \in [0..Len(s) -> Pieces] :
            f[0] = <<(<<>>)>> /\ \A k \in 1..Len(s) : f[k] = SplitStep(f[k - 1], s[k])
    BY SplitExists
  <2>2. Split(s) = f[Len(s)] /\ Len(s) \in 0..Len(s)
    BY <2>1, SplitBy DEF Text, Toks
  <2>3. QED
    BY <2>2
<1>3. ASSUME NEW s \in Text, NEW a \in Sign
      PROVE  Split(Append(s, a)) = SplitStep(Split(s), a)
  <2> DEFINE n == Len(s)
             w == Append(s, a)
  <2>1. w \in Text /\ Len(w) = n + 1 /\ n \in Nat /\ w[n + 1] = a /\ \A k \in 1..n : w[k] = s[k]
    BY DEF Text, Toks
  <2> HIDE DEF w
  <2>2. PICK f \in [0..Len(w) -> Pieces] :
            f[0] = <<(<<>>)>> /\ \A k \in 1..Len(w) : f[k] = SplitStep(f[k - 1], w[k])
    BY <2>1, SplitExists
  <2>3. Split(w) = f[n + 1]
    BY <2>1, <2>2, SplitBy
  <2> DEFINE g == [k \in 0..n |-> f[k]]
  <2>4. g \in [0..n -> Pieces] /\ g[0] = <<(<<>>)>> /\ (\A k \in 0..n : g[k] = f[k]) /\ g[n] = f[n]
    BY <2>1, <2>2
  <2> HIDE DEF g
  <2>5. ASSUME NEW k \in 1..n PROVE g[k] = SplitStep(g[k - 1], s[k])
    <3>1. k \in 1..Len(w) /\ k \in 0..n /\ k - 1 \in 0..n /\ w[k] = s[k]
      BY <2>1
    <3>2. QED
      BY <2>2, <2>4, <3>1
  <2>6. Split(s) = g[n]
    BY <2>4, <2>5, SplitBy
  <2>7. f[n + 1] = SplitStep(f[n], a)
    <3>1. n + 1 \in 1..Len(w) /\ (n + 1) - 1 = n
      BY <2>1
    <3>2. QED
      BY <2>1, <2>2, <3>1
  <2>8. QED
    BY <2>3, <2>4, <2>6, <2>7 DEF w
<1>4. QED
  BY <1>1, <1>2, <1>3

JoinStep(x, t) == x \o Slash \o t

LEMMA JoinStepIn ==
    ASSUME NEW x \in Text, NEW t \in Text
    PROVE  JoinStep(x, t) \in Text
BY TextFacts DEF JoinStep

IsJoin(f, parts) == f = [i \in 0..Len(parts) |-> IF i = 0 THEN <<>> ELSE f[i - 1] \o Slash \o parts[i]]

LEMMA JoinBy ==
    ASSUME NEW parts \in Toks, NEW f \in [0..Len(parts) -> Text], f[0] = <<>>,
           \A k \in 1..Len(parts) : f[k] = JoinStep(f[k - 1], parts[k])
    PROVE  Join(parts) = f[Len(parts)]
<1> DEFINE n == Len(parts)
           g == CHOOSE h : IsJoin(h, parts)
<1>1. n \in Nat /\ 0 \in 0..n /\ n \in 0..n
  OBVIOUS
<1>2. \A k \in 0..n : k # 0 => k \in 1..n
  OBVIOUS
<1>3. IsJoin(f, parts)
  <2>1. \A k \in 0..n : f[k] = IF k = 0 THEN <<>> ELSE JoinStep(f[k - 1], parts[k])
    BY <1>2
  <2>2. f = [k \in 0..n |-> f[k]]
    OBVIOUS
  <2>3. f = [k \in 0..n |-> IF k = 0 THEN <<>> ELSE JoinStep(f[k - 1], parts[k])]
    BY <2>1, <2>2
  <2>4. QED
    BY <2>3, Zenon DEF IsJoin, JoinStep
<1>4. IsJoin(g, parts)
  BY <1>3, Zenon
<1>5. Join(parts) = g[n]
  BY DEF Join, IsJoin
<1> HIDE DEF g
<1>6. g[0] = <<>> /\ \A k \in 1..n : g[k] = JoinStep(g[k - 1], parts[k])
  <2>1. \A k \in 0..n : g[k] = IF k = 0 THEN <<>> ELSE JoinStep(g[k - 1], parts[k])
    BY <1>4, Zenon DEF IsJoin, JoinStep
  <2>2. \A k \in 1..n : k \in 0..n /\ k # 0
    OBVIOUS
  <2>3. g[0] = <<>>
    BY <1>1, <2>1, Zenon
  <2>4. ASSUME NEW k \in 1..n PROVE g[k] = JoinStep(g[k - 1], parts[k])
    BY <2>1, <2>2, Zenon
  <2>5. QED
    BY <2>3, <2>4, Zenon
<1>7. InStep(n, f, g)
  BY <1>6, Zenon DEF InStep
<1>8. \A k \in 0..n : g[k] = f[k]
  BY <1>1, <1>7, IterateUnique, Zenon DEF Agree
<1>9. QED
  BY <1>1, <1>5, <1>8

LEMMA JoinExists ==
    ASSUME NEW parts \in Toks
    PROVE  \E f \in [0..Len(parts) -> Text] :
             f[0] = <<>> /\ \A k \in 1..Len(parts) : f[k] = JoinStep(f[k - 1], parts[k])
<1> DEFINE n == Len(parts)
           step == [k \in 1..n |-> [x \in Text |-> JoinStep(x, parts[k])]]
<1>1. n \in Nat /\ <<>> \in Text
  BY DEF Toks, Text
<1>2. step \in [1..n -> [Text -> Text]]
  <2>1. \A k \in 1..n : parts[k] \in Text
    BY DEF Toks, Text
  <2>2. \A k \in 1..n : [x \in Text |-> JoinStep(x, parts[k])] \in [Text -> Text]
    BY <2>1, JoinStepIn
  <2>3. QED
    BY <2>2
<1> HIDE DEF step
<1>3. PICK f \in [0..n -> Text] : f[0] = <<>> /\ \A k \in 1..n : f[k] = step[k][f[k - 1]]
  <2>1. Iterates(n, Text, <<>>, step)
    BY <1>1, <1>2, IterateExists
  <2>2. QED
    BY <2>1 DEF Iterates
<1>4. ASSUME NEW k \in 1..n PROVE f[k] = JoinStep(f[k - 1], parts[k])
  <2>1. k - 1 \in 0..n
    OBVIOUS
  <2>2. f[k - 1] \in Text
    BY <2>1
  <2>3. QED
    BY <1>3, <2>2 DEF step
<1>5. QED
  BY <1>3, <1>4

LEMMA JoinIs ==
    /\ Join(<<>>) = <<>>
    /\ \A parts \in Toks : Join(parts) \in Text
    /\ \A parts \in Toks : \A a \in Text : Join(Append(parts, a)) = JoinStep(Join(parts), a)
<1>1. Join(<<>>) = <<>>
  <2>1. <<>> \in Toks /\ Len(<<>>) = 0
    BY DEF Text, Toks
  <2>2. PICK f \in [0..Len(<<>>) -> Text] :
            f[0] = <<>> /\ \A k \in 1..Len(<<>>) : f[k] = JoinStep(f[k - 1], <<>>[k])
    BY <2>1, JoinExists
  <2>3. Join(<<>>) = f[Len(<<>>)]
    BY <2>1, <2>2, JoinBy
  <2>4. QED
    BY <2>1, <2>2, <2>3
<1>2. ASSUME NEW parts \in Toks PROVE Join(parts) \in Text
  <2>1. PICK f \in [0..Len(parts) -> Text] :
            f[0] = <<>> /\ \A k \in 1..Len(parts) : f[k] = JoinStep(f[k - 1], parts[k])
    BY JoinExists
  <2>2. Join(parts) = f[Len(parts)] /\ Len(parts) \in 0..Len(parts)
    BY <2>1, JoinBy DEF Text, Toks
  <2>3. QED
    BY <2>2
<1>3. ASSUME NEW parts \in Toks, NEW a \in Text
      PROVE  Join(Append(parts, a)) = JoinStep(Join(parts), a)
  <2> DEFINE n == Len(parts)
             w == Append(parts, a)
  <2>1. w \in Toks /\ Len(w) = n + 1 /\ n \in Nat /\ w[n + 1] = a /\ \A k \in 1..n : w[k] = parts[k]
    BY DEF Text, Toks
  <2> HIDE DEF w
  <2>2. PICK f \in [0..Len(w) -> Text] :
            f[0] = <<>> /\ \A k \in 1..Len(w) : f[k] = JoinStep(f[k - 1], w[k])
    BY <2>1, JoinExists
  <2>3. Join(w) = f[n + 1]
    BY <2>1, <2>2, JoinBy
  <2> DEFINE g == [k \in 0..n |-> f[k]]
  <2>4. g \in [0..n -> Text] /\ g[0] = <<>> /\ (\A k \in 0..n : g[k] = f[k]) /\ g[n] = f[n]
    BY <2>1, <2>2
  <2> HIDE DEF g
  <2>5. ASSUME NEW k \in 1..n PROVE g[k] = JoinStep(g[k - 1], parts[k])
    <3>1. k \in 1..Len(w) /\ k \in 0..n /\ k - 1 \in 0..n /\ w[k] = parts[k]
      BY <2>1
    <3>2. QED
      BY <2>2, <2>4, <3>1
  <2>6. Join(parts) = g[n]
    BY <2>4, <2>5, JoinBy
  <2>7. f[n + 1] = JoinStep(f[n], a)
    <3>1. n + 1 \in 1..Len(w) /\ (n + 1) - 1 = n
      BY <2>1
    <3>2. QED
      BY <2>1, <2>2, <3>1
  <2>8. QED
    BY <2>3, <2>4, <2>6, <2>7 DEF w
<1>4. QED
  BY <1>1, <1>2, <1>3

StackStep(x, t) == Component(x, t)

LEMMA StackStepIn ==
    ASSUME NEW x \in Toks, NEW t \in Text
    PROVE  StackStep(x, t) \in Toks
<1>1. CASE x = <<>>
  BY <1>1 DEF StackStep, Component, Toks
<1>2. CASE x # <<>>
  <2>1. PICK r \in Toks, u \in Text : x = Append(r, u)
    BY <1>2, SeqCases DEF Toks
  <2>2. Front(x) = r
    BY <2>1, FrontLast DEF Toks
  <2>3. Append(x, t) \in Toks
    BY DEF Toks
  <2>4. QED
    BY <2>2, <2>3 DEF StackStep, Component
<1>3. QED
  BY <1>1, <1>2

IsStack(f, toks) == f = [i \in 0..Len(toks) |-> IF i = 0 THEN <<>> ELSE Component(f[i - 1], toks[i])]

LEMMA StackBy ==
    ASSUME NEW toks \in Toks, NEW f \in [0..Len(toks) -> Toks], f[0] = <<>>,
           \A k \in 1..Len(toks) : f[k] = StackStep(f[k - 1], toks[k])
    PROVE  Stack(toks) = f[Len(toks)]
<1> DEFINE n == Len(toks)
           g == CHOOSE h : IsStack(h, toks)
<1>1. n \in Nat /\ 0 \in 0..n /\ n \in 0..n
  OBVIOUS
<1>2. \A k \in 0..n : k # 0 => k \in 1..n
  OBVIOUS
<1>3. IsStack(f, toks)
  <2>1. \A k \in 0..n : f[k] = IF k = 0 THEN <<>> ELSE StackStep(f[k - 1], toks[k])
    BY <1>2
  <2>2. f = [k \in 0..n |-> f[k]]
    OBVIOUS
  <2>3. f = [k \in 0..n |-> IF k = 0 THEN <<>> ELSE StackStep(f[k - 1], toks[k])]
    BY <2>1, <2>2
  <2>4. QED
    BY <2>3, Zenon DEF IsStack, StackStep
<1>4. IsStack(g, toks)
  BY <1>3, Zenon
<1>5. Stack(toks) = g[n]
  BY DEF Stack, IsStack
<1> HIDE DEF g
<1>6. g[0] = <<>> /\ \A k \in 1..n : g[k] = StackStep(g[k - 1], toks[k])
  <2>1. \A k \in 0..n : g[k] = IF k = 0 THEN <<>> ELSE StackStep(g[k - 1], toks[k])
    BY <1>4, Zenon DEF IsStack, StackStep
  <2>2. \A k \in 1..n : k \in 0..n /\ k # 0
    OBVIOUS
  <2>3. g[0] = <<>>
    BY <1>1, <2>1, Zenon
  <2>4. ASSUME NEW k \in 1..n PROVE g[k] = StackStep(g[k - 1], toks[k])
    BY <2>1, <2>2, Zenon
  <2>5. QED
    BY <2>3, <2>4, Zenon
<1>7. InStep(n, f, g)
  BY <1>6, Zenon DEF InStep
<1>8. \A k \in 0..n : g[k] = f[k]
  BY <1>1, <1>7, IterateUnique, Zenon DEF Agree
<1>9. QED
  BY <1>1, <1>5, <1>8

LEMMA StackExists ==
    ASSUME NEW toks \in Toks
    PROVE  \E f \in [0..Len(toks) -> Toks] :
             f[0] = <<>> /\ \A k \in 1..Len(toks) : f[k] = StackStep(f[k - 1], toks[k])
<1> DEFINE n == Len(toks)
           step == [k \in 1..n |-> [x \in Toks |-> StackStep(x, toks[k])]]
<1>1. n \in Nat /\ <<>> \in Toks
  BY DEF Toks, Text
<1>2. step \in [1..n -> [Toks -> Toks]]
  <2>1. \A k \in 1..n : toks[k] \in Text
    BY DEF Toks, Text
  <2>2. \A k \in 1..n : [x \in Toks |-> StackStep(x, toks[k])] \in [Toks -> Toks]
    BY <2>1, StackStepIn
  <2>3. QED
    BY <2>2
<1> HIDE DEF step
<1>3. PICK f \in [0..n -> Toks] : f[0] = <<>> /\ \A k \in 1..n : f[k] = step[k][f[k - 1]]
  <2>1. Iterates(n, Toks, <<>>, step)
    BY <1>1, <1>2, IterateExists
  <2>2. QED
    BY <2>1 DEF Iterates
<1>4. ASSUME NEW k \in 1..n PROVE f[k] = StackStep(f[k - 1], toks[k])
  <2>1. k - 1 \in 0..n
    OBVIOUS
  <2>2. f[k - 1] \in Toks
    BY <2>1
  <2>3. QED
    BY <1>3, <2>2 DEF step
<1>5. QED
  BY <1>3, <1>4

LEMMA StackIs ==
    /\ Stack(<<>>) = <<>>
    /\ \A toks \in Toks : Stack(toks) \in Toks
    /\ \A toks \in Toks : \A a \in Text : Stack(Append(toks, a)) = StackStep(Stack(toks), a)
<1>1. Stack(<<>>) = <<>>
  <2>1. <<>> \in Toks /\ Len(<<>>) = 0
    BY DEF Text, Toks
  <2>2. PICK f \in [0..Len(<<>>) -> Toks] :
            f[0] = <<>> /\ \A k \in 1..Len(<<>>) : f[k] = StackStep(f[k - 1], <<>>[k])
    BY <2>1, StackExists
  <2>3. Stack(<<>>) = f[Len(<<>>)]
    BY <2>1, <2>2, StackBy
  <2>4. QED
    BY <2>1, <2>2, <2>3
<1>2. ASSUME NEW toks \in Toks PROVE Stack(toks) \in Toks
  <2>1. PICK f \in [0..Len(toks) -> Toks] :
            f[0] = <<>> /\ \A k \in 1..Len(toks) : f[k] = StackStep(f[k - 1], toks[k])
    BY StackExists
  <2>2. Stack(toks) = f[Len(toks)] /\ Len(toks) \in 0..Len(toks)
    BY <2>1, StackBy DEF Text, Toks
  <2>3. QED
    BY <2>2
<1>3. ASSUME NEW toks \in Toks, NEW a \in Text
      PROVE  Stack(Append(toks, a)) = StackStep(Stack(toks), a)
  <2> DEFINE n == Len(toks)
             w == Append(toks, a)
  <2>1. w \in Toks /\ Len(w) = n + 1 /\ n \in Nat /\ w[n + 1] = a /\ \A k \in 1..n : w[k] = toks[k]
    BY DEF Text, Toks
  <2> HIDE DEF w
  <2>2. PICK f \in [0..Len(w) -> Toks] :
            f[0] = <<>> /\ \A k \in 1..Len(w) : f[k] = StackStep(f[k - 1], w[k])
    BY <2>1, StackExists
  <2>3. Stack(w) = f[n + 1]
    BY <2>1, <2>2, StackBy
  <2> DEFINE g == [k \in 0..n |-> f[k]]
  <2>4. g \in [0..n -> Toks] /\ g[0] = <<>> /\ (\A k \in 0..n : g[k] = f[k]) /\ g[n] = f[n]
    BY <2>1, <2>2
  <2> HIDE DEF g
  <2>5. ASSUME NEW k \in 1..n PROVE g[k] = StackStep(g[k - 1], toks[k])
    <3>1. k \in 1..Len(w) /\ k \in 0..n /\ k - 1 \in 0..n /\ w[k] = toks[k]
      BY <2>1
    <3>2. QED
      BY <2>2, <2>4, <3>1
  <2>6. Stack(toks) = g[n]
    BY <2>4, <2>5, StackBy
  <2>7. f[n + 1] = StackStep(f[n], a)
    <3>1. n + 1 \in 1..Len(w) /\ (n + 1) - 1 = n
      BY <2>1
    <3>2. QED
      BY <2>1, <2>2, <3>1
  <2>8. QED
    BY <2>3, <2>4, <2>6, <2>7 DEF w
<1>4. QED
  BY <1>1, <1>2, <1>3

-----------------------------------------------------------------------------
(* Splitting what was joined, and joining what was split.                  *)

\* A set of sequences has them all if it has the empty one and with each
\* those that are one longer.
LEMMA SeqSetInduction ==
    ASSUME NEW A, NEW G, <<>> \in G, \A s \in Seq(A) : \A a \in A : s \in G => Append(s, a) \in G
    PROVE  \A s \in Seq(A) : s \in G
<1> DEFINE H == {m \in Nat : \A s \in Seq(A) : Len(s) = m => s \in G}
<1>1. 0 \in H
  <2>1. ASSUME NEW s \in Seq(A), Len(s) = 0 PROVE s = <<>>
    BY <2>1
  <2>2. QED
    BY <2>1
<1>2. ASSUME NEW m \in Nat, m \in H PROVE m + 1 \in H
  <2>1. ASSUME NEW s \in Seq(A), Len(s) = m + 1 PROVE s \in G
    <3>1. s # <<>>
      BY <2>1
    <3>2. PICK r \in Seq(A), a \in A : s = Append(r, a) /\ Len(s) = Len(r) + 1
      BY <3>1, SeqCases
    <3>3. Len(r) = m
      BY <2>1, <3>2
    <3>4. QED
      BY <1>2, <3>2, <3>3
  <2>2. QED
    BY <2>1
<1> HIDE DEF H
<1>3. \A m \in Nat : m \in H
  BY <1>1, <1>2, NatSetInduction
<1>4. QED
  BY <1>3 DEF H

LEMMA ConcatLaws ==
    ASSUME NEW A, NEW s \in Seq(A), NEW t \in Seq(A), NEW a \in A
    PROVE  /\ s \o <<>> = s /\ <<>> \o s = s /\ <<a>> = Append(<<>>, a)
           /\ s \o Append(t, a) = Append(s \o t, a)
           /\ s \o <<a>> = Append(s, a)
<1>1. s \o <<>> = s /\ <<>> \o s = s
  OBVIOUS
<1>2. <<a>> = Append(<<>>, a)
  OBVIOUS
<1>3. s \o Append(t, a) = Append(s \o t, a)
  OBVIOUS
<1>4. s \o <<a>> = Append(s, a)
  OBVIOUS
<1>5. QED
  BY <1>1, <1>2, <1>3, <1>4

LEMMA TextLaws ==
    ASSUME NEW s \in Text, NEW t \in Text, NEW c \in Sign
    PROVE  /\ Append(t, c) \in Text /\ s \o <<>> = s
           /\ s \o Append(t, c) = Append(s \o t, c)
BY ConcatLaws, AppendIs DEF Text

LEMMA ToksLaws ==
    ASSUME NEW S \in Toks, NEW T \in Toks, NEW t \in Text
    PROVE  /\ Append(S, t) \in Toks /\ S \o T \in Toks
           /\ S \o <<>> = S /\ S \o <<t>> = Append(S, t) /\ <<t>> = Append(<<>>, t)
BY ConcatLaws, AppendIs, ConcatIs DEF Toks

LEMMA ToksShift ==
    ASSUME NEW S \in Toks, NEW T \in Toks, NEW t \in Text
    PROVE  S \o Append(T, t) = Append(S \o T, t)
BY ConcatLaws DEF Toks

LEMMA ConcatAssoc ==
    ASSUME NEW A, NEW s \in Seq(A), NEW t \in Seq(A), NEW u \in Seq(A)
    PROVE  (s \o t) \o u = s \o (t \o u)
OBVIOUS

LEMMA TextAssoc ==
    ASSUME NEW s \in Text, NEW t \in Text, NEW u \in Text
    PROVE  (s \o t) \o u = s \o (t \o u)
BY ConcatAssoc DEF Text

\* No slash is left in a piece.
Slashless(t) == \A i \in DOMAIN t : t[i] # "/"
Clear(T) == \A i \in DOMAIN T : Slashless(T[i])

LEMMA ClearAppend ==
    ASSUME NEW T \in Toks, NEW t \in Text
    PROVE  Clear(Append(T, t)) <=> Clear(T) /\ Slashless(t)
<1>1. /\ Len(T) \in Nat /\ DOMAIN T = 1..Len(T) /\ DOMAIN Append(T, t) = 1..(Len(T) + 1)
      /\ Append(T, t)[Len(T) + 1] = t /\ \A i \in 1..Len(T) : Append(T, t)[i] = T[i]
  BY DEF Toks
<1>2. QED
  BY <1>1 DEF Clear

LEMMA SlashlessAppend ==
    ASSUME NEW t \in Text, NEW c \in Sign
    PROVE  Slashless(Append(t, c)) <=> Slashless(t) /\ c # "/"
<1>1. /\ Len(t) \in Nat /\ DOMAIN t = 1..Len(t) /\ DOMAIN Append(t, c) = 1..(Len(t) + 1)
      /\ Append(t, c)[Len(t) + 1] = c /\ \A i \in 1..Len(t) : Append(t, c)[i] = t[i]
  BY DEF Text
<1>2. QED
  BY <1>1 DEF Slashless

\* Pieces that end in t, after one character more.
Grown(r, t, c) == IF c = "/" THEN Append(Append(r, t), <<>>) ELSE Append(r, Append(t, c))

LEMMA SplitStepIs ==
    ASSUME NEW r \in Toks, NEW t \in Text, NEW c \in Sign
    PROVE  SplitStep(Append(r, t), c) = Grown(r, t, c)
BY FrontLast DEF SplitStep, Toks, Grown

LEMMA SplitGrows ==
    ASSUME NEW s \in Text, NEW c \in Sign, NEW r \in Toks, NEW t \in Text,
           Split(s) = Append(r, t)
    PROVE  Split(Append(s, c)) = Grown(r, t, c)
<1>1. Split(Append(s, c)) = SplitStep(Split(s), c)
  BY SplitIs, Zenon
<1>2. SplitStep(Append(r, t), c) = Grown(r, t, c)
  BY SplitStepIs, Zenon
<1>3. QED
  BY <1>1, <1>2, Zenon

\* What was split has a last piece.
LEMMA SplitLast ==
    ASSUME NEW s \in Text
    PROVE  \E r \in Toks : \E t \in Text : Split(s) = Append(r, t)
<1>1. Split(s) \in Toks /\ Split(s) # <<>>
  BY SplitIs DEF Pieces
<1>2. QED
  BY <1>1, SeqCases DEF Toks

LEMMA SplitClear ==
    \A s \in Text : Clear(Split(s))
<1> DEFINE G == {s \in Text : Clear(Split(s))}
<1>1. <<>> \in G
  <2>1. Clear(<<(<<>>)>>)
    BY DEF Clear, Slashless
  <2>2. QED
    BY <2>1, SplitIs, TextFacts
<1>2. ASSUME NEW s \in Text, NEW c \in Sign, s \in G PROVE Append(s, c) \in G
  <2>1. PICK r \in Toks, t \in Text : Split(s) = Append(r, t)
    BY SplitLast
  <2>2. Clear(r) /\ Slashless(t)
    BY <1>2, <2>1, ClearAppend
  <2>3. Append(s, c) \in Text /\ Append(t, c) \in Text /\ Append(r, t) \in Toks
    BY AppendIs DEF Text, Toks
  <2>4. Split(Append(s, c)) = Grown(r, t, c)
    BY <2>1, SplitGrows, Zenon
  <2>5. Slashless(<<>>)
    BY DEF Slashless
  <2>6. CASE c = "/"
    <3>1. Clear(Append(Append(r, t), <<>>))
      BY <1>2, <2>1, <2>3, <2>5, ClearAppend, TextFacts
    <3>2. QED
      BY <2>3, <2>4, <2>6, <3>1 DEF Grown
  <2>7. CASE c # "/"
    <3>1. Clear(Append(r, Append(t, c)))
      BY <2>2, <2>3, <2>7, ClearAppend, SlashlessAppend
    <3>2. QED
      BY <2>3, <2>4, <2>7, <3>1 DEF Grown
  <2>8. QED
    BY <2>6, <2>7
<1> HIDE DEF G
<1>3. \A s \in Text : s \in G
  BY <1>1, <1>2, SeqSetInduction DEF Text
<1>4. QED
  BY <1>3 DEF G

\* A slash between two texts separates their pieces.
LEMMA SplitConcat ==
    ASSUME NEW a \in Text, NEW b \in Text
    PROVE  Split(a \o Slash \o b) = Split(a) \o Split(b)
<1> DEFINE G == {s \in Text : Split(a \o Slash \o s) = Split(a) \o Split(s)}
<1>1. Split(a) \in Toks /\ a \o Slash \in Text /\ a \o Slash = Append(a, "/")
  BY SplitIs, TextFacts, ConcatLaws DEF Pieces, Slash, Text
<1>2. <<>> \in G
  <2>1. (a \o Slash) \o <<>> = Append(a, "/")
    BY <1>1, ConcatLaws, TextFacts DEF Text
  <2>2. Split(Append(a, "/")) = Append(Split(a), <<>>)
    BY SplitIs, TextFacts DEF SplitStep
  <2>3. Split(a) \o Split(<<>>) = Append(Split(a), <<>>)
    BY <1>1, SplitIs, ToksLaws, TextFacts
  <2>4. QED
    BY <2>1, <2>2, <2>3, TextFacts
<1>3. ASSUME NEW s \in Text, NEW c \in Sign, s \in G PROVE Append(s, c) \in G
  <2>1. PICK r \in Toks, t \in Text : Split(s) = Append(r, t)
    BY SplitLast
  <2>2. PICK u \in Text : u = a \o Slash \o s
    BY <1>1, ConcatText
  <2>3. Split(u) = Split(a) \o Append(r, t) /\ (a \o Slash) \o Append(s, c) = Append(u, c)
    <3>1. Split(u) = Split(a) \o Append(r, t)
      BY <1>3, <2>1, <2>2
    <3>2. (a \o Slash) \o Append(s, c) = Append((a \o Slash) \o s, c)
      BY <1>1, TextLaws
    <3>3. QED
      BY <2>2, <3>1, <3>2, Zenon
  <2>4. Split(a) \o r \in Toks /\ Split(a) \o Append(r, t) = Append(Split(a) \o r, t)
    <3>1. Split(a) \o r \in Toks
      BY <1>1, ToksLaws
    <3>2. Split(a) \o Append(r, t) = Append(Split(a) \o r, t)
      BY <1>1, ToksShift, Zenon
    <3>3. QED
      BY <3>1, <3>2
  <2>5. Split(Append(u, c)) = Grown(Split(a) \o r, t, c)
    <3>1. PICK v \in Toks : v = Split(a) \o r
      BY <2>4
    <3>2. Split(u) = Append(v, t)
      BY <2>3, <2>4, <3>1, Zenon
    <3>3. Split(Append(u, c)) = Grown(v, t, c)
      BY <3>2, SplitGrows, Zenon
    <3>4. QED
      BY <3>1, <3>3
  <2>6. Split(Append(s, c)) = Grown(r, t, c)
    BY <2>1, SplitGrows
  <2>7. Append(t, c) \in Text /\ Append(r, t) \in Toks /\ Append(s, c) \in Text
    BY TextLaws, ToksLaws, Zenon
  <2>8. /\ Split(a) \o Append(Append(r, t), <<>>) = Append(Append(Split(a) \o r, t), <<>>)
        /\ Split(a) \o Append(r, Append(t, c)) = Append(Split(a) \o r, Append(t, c))
    <3>1. Split(a) \o Append(Append(r, t), <<>>) = Append(Split(a) \o Append(r, t), <<>>)
      <4>1. PICK v \in Toks, e \in Text : v = Append(r, t) /\ e = <<>>
        BY <2>7, TextFacts
      <4>2. Split(a) \o Append(v, e) = Append(Split(a) \o v, e)
        BY <1>1, ToksShift, Zenon
      <4>3. QED
        BY <4>1, <4>2
    <3>2. Split(a) \o Append(r, Append(t, c)) = Append(Split(a) \o r, Append(t, c))
      BY <1>1, <2>7, ToksShift, Zenon
    <3>3. QED
      BY <2>4, <3>1, <3>2, Zenon
  <2>9. Split(Append(u, c)) = Split(a) \o Split(Append(s, c))
    BY <2>5, <2>6, <2>8, Zenon DEF Grown
  <2>10. QED
    BY <2>3, <2>7, <2>9
<1> HIDE DEF G
<1>4. b \in G
  BY <1>2, <1>3, SeqSetInduction DEF Text
<1>5. QED
  BY <1>4 DEF G

LEMMA SplitSlashless ==
    \A t \in Text : Slashless(t) => Split(t) = <<t>>
<1> DEFINE G == {t \in Text : Slashless(t) => Split(t) = <<t>>}
<1>1. <<>> \in G
  BY SplitIs, TextFacts
<1>2. ASSUME NEW t \in Text, NEW c \in Sign, t \in G PROVE Append(t, c) \in G
  <2>1. Append(t, c) \in Text
    BY AppendIs DEF Text
  <2>2. ASSUME Slashless(Append(t, c)) PROVE Split(Append(t, c)) = <<Append(t, c)>>
    <3>1. Slashless(t) /\ c # "/"
      BY <2>2, SlashlessAppend
    <3>2. Split(t) = Append(<<>>, t) /\ <<Append(t, c)>> = Append(<<>>, Append(t, c))
      BY <1>2, <2>1, <3>1, ToksLaws, TextFacts
    <3>3. Split(Append(t, c)) = Grown(<<>>, t, c)
      BY <3>2, SplitGrows, TextFacts, Zenon
    <3>4. QED
      BY <3>1, <3>2, <3>3, Zenon DEF Grown
  <2>3. QED
    BY <2>1, <2>2
<1> HIDE DEF G
<1>3. \A t \in Text : t \in G
  BY <1>1, <1>2, SeqSetInduction DEF Text
<1>4. QED
  BY <1>3 DEF G

LEMMA SplitJoin ==
    \A T \in Toks : Clear(T) => Split(Join(T)) = <<(<<>>)>> \o T
<1> DEFINE G == {T \in Toks : Clear(T) => Split(Join(T)) = <<(<<>>)>> \o T}
<1>1. <<>> \in G
  <2>1. <<(<<>>)>> \o <<>> = <<(<<>>)>>
    BY TextFacts, ConcatLaws DEF Toks
  <2>2. QED
    BY <2>1, SplitIs, JoinIs, TextFacts
<1>2. ASSUME NEW T \in Toks, NEW t \in Text, T \in G PROVE Append(T, t) \in G
  <2>1. Append(T, t) \in Toks
    BY AppendIs DEF Toks
  <2>2. ASSUME Clear(Append(T, t)) PROVE Split(Join(Append(T, t))) = <<(<<>>)>> \o Append(T, t)
    <3>1. Clear(T) /\ Slashless(t)
      BY <2>2, ClearAppend
    <3>2. Join(T) \in Text /\ Join(Append(T, t)) = Join(T) \o Slash \o t
      BY JoinIs DEF JoinStep
    <3>3. Split(Join(T) \o Slash \o t) = Split(Join(T)) \o <<t>>
      BY <3>1, <3>2, SplitConcat, SplitSlashless
    <3>4. Split(Join(T)) = <<(<<>>)>> \o T
      BY <1>2, <3>1
    <3>5. (<<(<<>>)>> \o T) \o <<t>> = <<(<<>>)>> \o Append(T, t)
      <4>1. <<(<<>>)>> \o T \in Toks
        BY TextFacts, ConcatIs DEF Toks
      <4>2. (<<(<<>>)>> \o T) \o <<t>> = Append(<<(<<>>)>> \o T, t)
        BY <4>1, ConcatLaws DEF Toks
      <4>3. <<(<<>>)>> \o Append(T, t) = Append(<<(<<>>)>> \o T, t)
        BY TextFacts, ConcatLaws DEF Toks
      <4>4. QED
        BY <4>2, <4>3
    <3>6. QED
      BY <3>2, <3>3, <3>4, <3>5
  <2>3. QED
    BY <2>1, <2>2
<1> HIDE DEF G
<1>3. \A T \in Toks : T \in G
  BY <1>1, <1>2, SeqSetInduction DEF Toks
<1>4. QED
  BY <1>3 DEF G

LEMMA JoinSplit ==
    \A s \in Text : Join(Split(s)) = Slash \o s
<1> DEFINE G == {s \in Text : Join(Split(s)) = Slash \o s}
<1>1. <<>> \in G
  <2>1. Join(<<(<<>>)>>) = <<>> \o Slash \o <<>>
    <3>1. <<(<<>>)>> = Append(<<>>, <<>>)
      BY TextFacts, ConcatLaws DEF Toks
    <3>2. QED
      BY <3>1, JoinIs, TextFacts DEF JoinStep
  <2>2. <<>> \o Slash \o <<>> = Slash \o <<>>
    BY TextFacts, ConcatLaws DEF Text
  <2>3. QED
    BY <2>1, <2>2, SplitIs, TextFacts
<1>2. ASSUME NEW s \in Text, NEW c \in Sign, s \in G PROVE Append(s, c) \in G
  <2>1. PICK r \in Toks, t \in Text : Split(s) = Append(r, t)
    BY SplitLast
  <2>2. Append(s, c) \in Text /\ Append(t, c) \in Text /\ Append(r, t) \in Toks
    BY AppendIs DEF Text, Toks
  <2>3. Slash \o s \in Text /\ Slash \o Append(s, c) = Append(Slash \o s, c)
    BY TextFacts, ConcatIs, ConcatLaws DEF Text
  <2>4. Join(Append(r, t)) = Slash \o s
    BY <1>2, <2>1
  <2>5. CASE c = "/"
    <3>1. Split(Append(s, c)) = Append(Append(r, t), <<>>)
      BY <2>1, <2>5, SplitGrows DEF Grown
    <3>2. Join(Append(Append(r, t), <<>>)) = (Slash \o s) \o Slash \o <<>>
      BY <2>2, <2>4, JoinIs, TextFacts DEF JoinStep
    <3>3. (Slash \o s) \o Slash \in Text /\ (Slash \o s) \o Slash = Append(Slash \o s, c)
      BY <2>3, <2>5, TextFacts, ConcatIs, ConcatLaws DEF Text, Slash
    <3>4. (Slash \o s) \o Slash \o <<>> = (Slash \o s) \o Slash
      BY <3>3, TextFacts, ConcatLaws DEF Text
    <3>5. QED
      BY <2>2, <2>3, <3>1, <3>2, <3>3, <3>4
  <2>6. CASE c # "/"
    <3>1. Split(Append(s, c)) = Append(r, Append(t, c))
      BY <2>1, <2>6, SplitGrows DEF Grown
    <3>2. Join(r) \in Text /\ Join(Append(r, t)) = Join(r) \o Slash \o t
      BY JoinIs DEF JoinStep
    <3>3. Join(Append(r, Append(t, c))) = Join(r) \o Slash \o Append(t, c)
      BY <2>2, JoinIs DEF JoinStep
    <3>4. Join(r) \o Slash \o Append(t, c) = Append(Join(r) \o Slash \o t, c)
      <4>1. Join(r) \o Slash \in Text
        BY <3>2, TextFacts
      <4>2. QED
        BY <4>1, ConcatLaws DEF Text
    <3>5. QED
      BY <2>2, <2>3, <2>4, <3>1, <3>2, <3>3, <3>4
  <2>7. QED
    BY <2>5, <2>6
<1> HIDE DEF G
<1>3. \A s \in Text : s \in G
  BY <1>1, <1>2, SeqSetInduction DEF Text
<1>4. QED
  BY <1>3 DEF G

-----------------------------------------------------------------------------
(* What is left of the components.                                         *)

Dots   == <<".", ".">>
Normal(t) == t \notin {<<>>, <<".">>, Dots}
Plain(x) == \A i \in DOMAIN x : Normal(x[i])

LEMMA PlainAppend ==
    ASSUME NEW T \in Toks, NEW t \in Text
    PROVE  Plain(Append(T, t)) <=> Plain(T) /\ Normal(t)
<1>1. /\ Len(T) \in Nat /\ DOMAIN T = 1..Len(T) /\ DOMAIN Append(T, t) = 1..(Len(T) + 1)
      /\ Append(T, t)[Len(T) + 1] = t /\ \A i \in 1..Len(T) : Append(T, t)[i] = T[i]
  BY DEF Toks
<1>2. QED
  BY <1>1 DEF Plain

\* What a component does to a stack.
LEMMA ComponentIs ==
    ASSUME NEW x \in Toks, NEW t \in Text
    PROVE  /\ t \in {<<>>, <<".">>} => Component(x, t) = x
           /\ t = Dots /\ x = <<>> => Component(x, t) = x
           /\ \A r \in Toks : \A u \in Text : t = Dots /\ x = Append(r, u) => Component(x, t) = r
           /\ Normal(t) => Component(x, t) = Append(x, t)
<1>1. Dots # <<>> /\ Dots # <<".">>
  <2>1. Len(Dots) = 2 /\ Len(<<".">>) = 1 /\ Len(<<>>) = 0
    BY DEF Dots
  <2>2. QED
    BY <2>1
<1>2. t \in {<<>>, <<".">>} => Component(x, t) = x
  BY DEF Component
<1>3. t = Dots /\ x = <<>> => Component(x, t) = x
  BY <1>1 DEF Component, Dots
<1>4. ASSUME NEW r \in Toks, NEW u \in Text, t = Dots, x = Append(r, u)
      PROVE  Component(x, t) = r
  <2>1. Front(x) = r /\ x # <<>>
    BY <1>4, FrontLast, AppendIs DEF Toks
  <2>2. QED
    BY <1>1, <1>4, <2>1 DEF Component, Dots
<1>5. Normal(t) => Component(x, t) = Append(x, t)
  BY DEF Component, Normal, Dots
<1>6. QED
  BY <1>2, <1>3, <1>4, <1>5

LEMMA ComponentCases ==
    ASSUME NEW x \in Toks, NEW t \in Text
    PROVE  \/ t \in {<<>>, <<".">>} /\ Component(x, t) = x
           \/ t = Dots /\ x = <<>> /\ Component(x, t) = x
           \/ t = Dots /\ \E r \in Toks : \E u \in Text : x = Append(r, u) /\ Component(x, t) = r
           \/ Normal(t) /\ Component(x, t) = Append(x, t)
<1>1. CASE t = Dots /\ x # <<>>
  <2>1. PICK r \in Toks, u \in Text : x = Append(r, u)
    BY <1>1, SeqCases DEF Toks
  <2>2. Component(x, t) = r
    BY <1>1, <2>1, ComponentIs
  <2>3. QED
    BY <1>1, <2>1, <2>2
<1>2. CASE ~ (t = Dots /\ x # <<>>)
  BY <1>2, ComponentIs DEF Normal
<1>3. QED
  BY <1>1, <1>2

\* What is left are names.
LEMMA StackPlain ==
    \A T \in Toks : Plain(Stack(T)) /\ (Clear(T) => Clear(Stack(T)))
                    /\ Len(Join(Stack(T))) <= Len(Join(T))
<1> DEFINE G == {T \in Toks : /\ Plain(Stack(T)) /\ (Clear(T) => Clear(Stack(T)))
                              /\ Len(Join(Stack(T))) <= Len(Join(T))}
<1>0. \A T \in Toks : Len(Join(T)) \in Nat
  BY JoinIs DEF Text
<1>1. <<>> \in G
  <2>1. Plain(<<>>) /\ Clear(<<>>)
    BY DEF Plain, Clear
  <2>2. Len(Join(<<>>)) <= Len(Join(<<>>))
    BY <1>0, TextFacts
  <2>3. QED
    BY <2>1, <2>2, StackIs, TextFacts
<1>2. ASSUME NEW T \in Toks, NEW t \in Text, T \in G PROVE Append(T, t) \in G
  <2> DEFINE x == Stack(T)
             y == Stack(Append(T, t))
  <2>1. Append(T, t) \in Toks /\ x \in Toks /\ y = Component(x, t)
    BY AppendIs, StackIs DEF Toks, StackStep
  <2>2. \A U \in Toks : \A u \in Text : Len(Join(Append(U, u))) = Len(Join(U)) + 1 + Len(u)
    <3>1. ASSUME NEW U \in Toks, NEW u \in Text PROVE Len(Join(Append(U, u))) = Len(Join(U)) + 1 + Len(u)
      <4>1. Join(U) \in Text /\ Join(Append(U, u)) = Join(U) \o Slash \o u
        BY JoinIs DEF JoinStep
      <4>2. Len(Join(U) \o Slash) = Len(Join(U)) + 1 /\ Join(U) \o Slash \in Text
        BY <4>1, TextFacts, ConcatText
      <4>3. Len((Join(U) \o Slash) \o u) = Len(Join(U) \o Slash) + Len(u)
        BY <4>2, ConcatText
      <4>4. QED
        BY <4>1, <4>2, <4>3
    <3>2. QED
      BY <3>1
  <2>3. \A u \in Text : Len(u) \in Nat
    BY DEF Text
  <2>4. Len(Join(Append(T, t))) = Len(Join(T)) + 1 + Len(t) /\ Len(t) \in Nat /\ Len(Join(T)) \in Nat
    BY <1>0, <2>2, <2>3
  <2>5. Plain(x) /\ (Clear(T) => Clear(x)) /\ Len(Join(x)) <= Len(Join(T)) /\ Len(Join(x)) \in Nat
    BY <1>0, <1>2, <2>1
  <2> HIDE DEF x, y
  <2>6. Clear(Append(T, t)) <=> Clear(T) /\ Slashless(t)
    BY ClearAppend
  <2>7. Plain(y) /\ (Clear(Append(T, t)) => Clear(y)) /\ Len(Join(y)) <= Len(Join(Append(T, t)))
    <3>1. CASE y = x
      BY <2>4, <2>5, <2>6, <3>1
    <3>2. ASSUME NEW r \in Toks, NEW u \in Text, x = Append(r, u), y = r
          PROVE  Plain(y) /\ (Clear(Append(T, t)) => Clear(y)) /\ Len(Join(y)) <= Len(Join(Append(T, t)))
      <4>1. Plain(r) /\ (Clear(x) => Clear(r))
        BY <2>5, <3>2, PlainAppend, ClearAppend
      <4>2. Len(Join(x)) = Len(Join(r)) + 1 + Len(u) /\ Len(u) \in Nat /\ Len(Join(r)) \in Nat
        BY <1>0, <2>2, <2>3, <3>2
      <4>3. QED
        BY <2>4, <2>5, <2>6, <3>2, <4>1, <4>2
    <3>3. CASE Normal(t) /\ y = Append(x, t)
      <4>1. Plain(y) /\ (Clear(y) <=> Clear(x) /\ Slashless(t))
        BY <2>1, <2>5, <3>3, PlainAppend, ClearAppend
      <4>2. Len(Join(y)) = Len(Join(x)) + 1 + Len(t)
        BY <2>1, <2>2, <3>3
      <4>3. QED
        BY <2>4, <2>5, <2>6, <4>1, <4>2
    <3>4. QED
      BY <2>1, <3>1, <3>2, <3>3, ComponentCases
  <2>8. QED
    BY <2>1, <2>7 DEF y
<1> HIDE DEF G
<1>3. \A T \in Toks : T \in G
  BY <1>1, <1>2, SeqSetInduction DEF Toks
<1>4. QED
  BY <1>3 DEF G

\* Components that leave the same stack do so whatever follows them.
LEMMA StackConcat ==
    ASSUME NEW S \in Toks, NEW T \in Toks, Stack(S) = Stack(T), NEW U \in Toks
    PROVE  Stack(S \o U) = Stack(T \o U)
<1> DEFINE G == {V \in Toks : Stack(S \o V) = Stack(T \o V)}
<1>1. <<>> \in G
  BY ConcatLaws, TextFacts DEF Toks
<1>2. ASSUME NEW V \in Toks, NEW t \in Text, V \in G PROVE Append(V, t) \in G
  <2>1. /\ Append(V, t) \in Toks /\ S \o V \in Toks /\ T \o V \in Toks
        /\ S \o Append(V, t) = Append(S \o V, t) /\ T \o Append(V, t) = Append(T \o V, t)
    <3>1. Append(V, t) \in Toks /\ S \o V \in Toks /\ T \o V \in Toks
      BY ToksLaws
    <3>2. S \o Append(V, t) = Append(S \o V, t)
      BY ToksShift, Zenon
    <3>3. T \o Append(V, t) = Append(T \o V, t)
      BY ToksShift, Zenon
    <3>4. QED
      BY <3>1, <3>2, <3>3
  <2>2. Stack(Append(S \o V, t)) = Component(Stack(S \o V), t)
        /\ Stack(Append(T \o V, t)) = Component(Stack(T \o V), t)
    BY <2>1, StackIs DEF StackStep
  <2>3. QED
    BY <1>2, <2>1, <2>2
<1> HIDE DEF G
<1>3. U \in G
  BY <1>1, <1>2, SeqSetInduction DEF Toks
<1>4. QED
  BY <1>3 DEF G

\* The root in front of components changes nothing.
LEMMA StackRoot ==
    ASSUME NEW T \in Toks
    PROVE  Stack(<<(<<>>)>> \o T) = Stack(T)
<1>1. <<(<<>>)>> = Append(<<>>, <<>>)
  BY TextFacts, ConcatLaws DEF Toks
<1>2. Stack(<<(<<>>)>>) = Stack(<<>>)
  <2>1. Stack(Append(<<>>, <<>>)) = Component(<<>>, <<>>)
    BY StackIs, TextFacts DEF StackStep
  <2>2. QED
    BY <1>1, <2>1, StackIs, ComponentIs, TextFacts
<1>3. Stack(<<(<<>>)>> \o T) = Stack(<<>> \o T)
  BY <1>2, StackConcat, TextFacts, Zenon
<1>4. <<>> \o T = T
  BY ConcatLaws, TextFacts DEF Toks
<1>5. QED
  BY <1>3, <1>4, Zenon

\* Names stay.
LEMMA StackSame ==
    \A T \in Toks : Plain(T) => Stack(T) = T /\ Stack(<<(<<>>)>> \o T) = T
<1> DEFINE G == {T \in Toks : Plain(T) => Stack(T) = T}
<1>1. <<>> \in G
  BY StackIs, TextFacts
<1>2. ASSUME NEW T \in Toks, NEW t \in Text, T \in G PROVE Append(T, t) \in G
  <2>1. Append(T, t) \in Toks /\ Stack(Append(T, t)) = Component(Stack(T), t)
    BY AppendIs, StackIs DEF Toks, StackStep
  <2>2. ASSUME Plain(Append(T, t)) PROVE Component(Stack(T), t) = Append(T, t)
    BY <1>2, <2>2, PlainAppend, ComponentIs
  <2>3. QED
    BY <2>1, <2>2
<1> HIDE DEF G
<1>3. \A T \in Toks : T \in G
  BY <1>1, <1>2, SeqSetInduction DEF Toks
<1>4. QED
  BY <1>3, StackRoot DEF G

-----------------------------------------------------------------------------
(* Reading a path from its end comes to the same.                          *)

Acc == [names : Toks, up : Nat]
Acc0 == [names |-> <<>>, up |-> 0]

MeaningStep(x, t) ==
    IF t \in {<<>>, <<".">>} THEN x
    ELSE IF t = <<".", ".">> THEN [x EXCEPT !.up = @ + 1]
    ELSE IF x.up > 0 THEN [x EXCEPT !.up = @ - 1]
    ELSE [x EXCEPT !.names = <<t>> \o @]

IsMeaning(f, toks) ==
    f = [i \in 1..(Len(toks) + 1) |->
            IF i > Len(toks) THEN [names |-> <<>>, up |-> 0]
            ELSE IF toks[i] \in {<<>>, <<".">>} THEN f[i + 1]
            ELSE IF toks[i] = <<".", ".">> THEN [f[i + 1] EXCEPT !.up = @ + 1]
            ELSE IF f[i + 1].up > 0 THEN [f[i + 1] EXCEPT !.up = @ - 1]
            ELSE [f[i + 1] EXCEPT !.names = <<toks[i]>> \o @]]

LEMMA MeaningStepIs ==
    ASSUME NEW x \in Acc, NEW t \in Text
    PROVE  /\ MeaningStep(x, t) \in Acc
           /\ t \in {<<>>, <<".">>} => MeaningStep(x, t) = x
           /\ t = Dots => MeaningStep(x, t).up = x.up + 1 /\ MeaningStep(x, t).names = x.names
           /\ Normal(t) /\ x.up > 0 => /\ MeaningStep(x, t).up = x.up - 1
                                       /\ MeaningStep(x, t).names = x.names
           /\ Normal(t) /\ x.up = 0 => /\ MeaningStep(x, t).up = 0
                                       /\ MeaningStep(x, t).names = <<t>> \o x.names
<1>1. x.names \in Toks /\ x.up \in Nat /\ x = [names |-> x.names, up |-> x.up]
  BY DEF Acc
<1>2. <<t>> \o x.names \in Toks
  BY <1>1, TextFacts, ConcatIs DEF Toks
<1>3. Dots # <<>> /\ Dots # <<".">> /\ Dots = <<".", ".">>
  <2>1. Len(Dots) = 2 /\ Len(<<".">>) = 1 /\ Len(<<>>) = 0
    BY DEF Dots
  <2>2. QED
    BY <2>1 DEF Dots
<1>4. CASE t \in {<<>>, <<".">>}
  BY <1>1, <1>3, <1>4 DEF MeaningStep, Normal
<1>5. CASE t = Dots
  <2>1. MeaningStep(x, t) = [x EXCEPT !.up = @ + 1]
    BY <1>3, <1>5 DEF MeaningStep
  <2>2. MeaningStep(x, t) = [names |-> x.names, up |-> x.up + 1]
    BY <1>1, <2>1
  <2>3. QED
    BY <1>1, <1>3, <1>5, <2>2 DEF Acc, Normal
<1>6. CASE Normal(t) /\ x.up > 0
  <2>1. MeaningStep(x, t) = [x EXCEPT !.up = @ - 1]
    BY <1>3, <1>6 DEF MeaningStep, Normal
  <2>2. MeaningStep(x, t) = [names |-> x.names, up |-> x.up - 1] /\ x.up - 1 \in Nat
    BY <1>1, <1>6, <2>1
  <2>3. QED
    BY <1>1, <1>6, <2>2 DEF Acc, Normal
<1>7. CASE Normal(t) /\ x.up = 0
  <2>1. MeaningStep(x, t) = [x EXCEPT !.names = <<t>> \o @]
    BY <1>3, <1>7 DEF MeaningStep, Normal
  <2>2. MeaningStep(x, t) = [names |-> <<t>> \o x.names, up |-> x.up]
    BY <1>1, <2>1
  <2>3. QED
    BY <1>1, <1>2, <1>7, <2>2 DEF Acc, Normal
<1>8. QED
  BY <1>1, <1>4, <1>5, <1>6, <1>7 DEF Normal

LEMMA MeaningBy ==
    ASSUME NEW path, NEW T \in Toks, T = Split(path), NEW f \in [0..Len(T) -> Acc], f[0] = Acc0,
           \A k \in 1..Len(T) : f[k] = MeaningStep(f[k - 1], T[Len(T) + 1 - k])
    PROVE  Meaning(path) = f[Len(T)].names
<1> DEFINE n == Len(T)
           h == [i \in 1..(n + 1) |-> f[n + 1 - i]]
           g == CHOOSE m : IsMeaning(m, T)
           Step(m, i) == IF i > n THEN Acc0 ELSE MeaningStep(m[i + 1], T[i])
<1>1. n \in Nat
  BY DEF Toks
<1>2. \A m : IsMeaning(m, T) <=> m = [i \in 1..(n + 1) |-> Step(m, i)]
  BY Zenon DEF IsMeaning, MeaningStep, Acc0
<1> HIDE DEF n
<1>3. \A i \in 1..(n + 1) : h[i] = f[n + 1 - i]
  OBVIOUS
<1>4. h = [i \in 1..(n + 1) |-> h[i]]
  OBVIOUS
<1> HIDE DEF h
<1>5. \A i \in 1..(n + 1) : h[i] = Step(h, i)
  <2>1. ASSUME NEW i \in 1..(n + 1) PROVE h[i] = Step(h, i)
    <3>1. CASE i > n
      <4>1. n + 1 - i = 0
        BY <1>1, <3>1
      <4>2. QED
        BY <1>3, <3>1, <4>1
    <3>2. CASE i <= n
      <4>1. PICK k \in 1..n : k = n + 1 - i
        BY <1>1, <3>2
      <4>2. i + 1 \in 1..(n + 1) /\ n + 1 - (i + 1) = k - 1 /\ n + 1 - k = i /\ ~ (i > n)
        BY <1>1, <3>2, <4>1
      <4>3. h[i] = f[k] /\ h[i + 1] = f[k - 1]
        BY <1>3, <4>1, <4>2
      <4>4. f[k] = MeaningStep(f[k - 1], T[i])
        BY <4>2 DEF n
      <4>5. QED
        BY <4>2, <4>3, <4>4
    <3>3. QED
      BY <1>1, <3>1, <3>2
  <2>2. QED
    BY <2>1
<1>6. IsMeaning(h, T)
  BY <1>2, <1>4, <1>5
<1>7. IsMeaning(g, T)
  BY <1>6, Zenon
<1>8. Meaning(path) = g[1].names
  BY DEF Meaning, IsMeaning
<1> HIDE DEF g
<1>9. \A i \in 1..(n + 1) : g[i] = Step(g, i)
  <2> HIDE DEF Step
  <2>1. g = [i \in 1..(n + 1) |-> Step(g, i)]
    BY <1>2, <1>7, Zenon
  <2>2. QED
    BY <2>1, Zenon
<1>10. PICK e : \A k \in 0..n : e[k] = g[n + 1 - k]
  <2> DEFINE d == [k \in 0..n |-> g[n + 1 - k]]
  <2>1. \A k \in 0..n : d[k] = g[n + 1 - k]
    OBVIOUS
  <2> HIDE DEF d
  <2>2. QED
    BY <2>1
<1>11. e[0] = f[0]
  <2>1. n + 1 \in 1..(n + 1) /\ n + 1 > n /\ n + 1 - 0 = n + 1 /\ 0 \in 0..n
    BY <1>1
  <2>2. QED
    BY <1>9, <1>10, <2>1
<1>12. ASSUME NEW k \in 1..n, e[k - 1] = f[k - 1] PROVE e[k] = f[k]
  <2>1. PICK i \in 1..n : i = n + 1 - k
    BY <1>1
  <2>2. /\ k \in 0..n /\ k - 1 \in 0..n /\ n + 1 - (k - 1) = i + 1 /\ i \in 1..(n + 1) /\ ~ (i > n)
    BY <1>1, <2>1
  <2>3. e[k] = g[i] /\ e[k - 1] = g[i + 1]
    BY <1>10, <2>1, <2>2
  <2>4. g[i] = MeaningStep(g[i + 1], T[i])
    BY <1>9, <2>2
  <2>5. f[k] = MeaningStep(f[k - 1], T[i])
    BY <2>1 DEF n
  <2>6. QED
    BY <1>12, <2>3, <2>4, <2>5
<1>13. \A k \in 0..n : e[k] = f[k]
  <2>1. \A k \in 1..n : e[k - 1] = f[k - 1] => e[k] = f[k]
    BY <1>12
  <2>2. InStep(n, f, e)
    BY <1>11, <2>1, Zenon DEF InStep
  <2>3. QED
    BY <1>1, <2>2, IterateUnique, Zenon DEF Agree
<1>14. e[n] = g[1] /\ n \in 0..n
  BY <1>1, <1>10
<1>15. QED
  BY <1>8, <1>13, <1>14 DEF n

\* A stack without its last u names.
Drop(x, u) == IF u >= Len(x) THEN <<>> ELSE SubSeq(x, 1, Len(x) - u)

LEMMA DropIs ==
    ASSUME NEW x \in Toks, NEW t \in Text, NEW u \in Nat
    PROVE  /\ Drop(x, u) \in Toks /\ Drop(x, 0) = x /\ Drop(<<>>, u) = <<>>
           /\ Drop(Append(x, t), u + 1) = Drop(x, u)
<1>1. Len(x) \in Nat /\ (Len(x) = 0 => x = <<>>) /\ Len(<<>>) = 0
  BY DEF Toks
<1>2. \A m \in 0..Len(x) : SubSeq(x, 1, m) \in Toks
  BY DEF Toks
<1>3. Drop(x, u) \in Toks
  BY <1>1, <1>2, TextFacts DEF Drop
<1>4. Drop(x, 0) = x
  <2>1. SubSeq(x, 1, Len(x)) = x
    BY DEF Toks
  <2>2. QED
    BY <1>1, <2>1 DEF Drop
<1>5. Drop(<<>>, u) = <<>>
  BY <1>1 DEF Drop
<1>6. Drop(Append(x, t), u + 1) = Drop(x, u)
  <2>1. Len(Append(x, t)) = Len(x) + 1
    BY DEF Toks
  <2>2. \A m \in 1..Len(x) : SubSeq(Append(x, t), 1, m) = SubSeq(x, 1, m)
    BY DEF Toks
  <2>3. CASE u >= Len(x)
    BY <1>1, <2>1, <2>3 DEF Drop
  <2>4. CASE u < Len(x)
    <3>1. PICK m \in 1..Len(x) : m = Len(x) - u
      BY <1>1, <2>4
    <3>2. (Len(x) + 1) - (u + 1) = m /\ ~ (u >= Len(x)) /\ ~ (u + 1 >= Len(x) + 1)
      BY <1>1, <2>4, <3>1
    <3>3. Drop(x, u) = SubSeq(x, 1, m)
      BY <3>1, <3>2 DEF Drop
    <3>4. Drop(Append(x, t), u + 1) = SubSeq(Append(x, t), 1, m)
      BY <2>1, <3>2 DEF Drop
    <3>5. QED
      BY <2>2, <3>3, <3>4
  <2>5. QED
    BY <1>1, <2>3, <2>4
<1>7. QED
  BY <1>3, <1>4, <1>5, <1>6

\* A component taken onto the stack, or into the meaning of what follows.
LEMMA MeaningMoves ==
    ASSUME NEW x \in Toks, NEW t \in Text, NEW a \in Acc
    PROVE  Drop(x, MeaningStep(a, t).up) \o MeaningStep(a, t).names = Drop(Component(x, t), a.up) \o a.names
<1> DEFINE b == MeaningStep(a, t)
           y == Component(x, t)
<1>1. a.up \in Nat /\ a.names \in Toks
  BY DEF Acc
<1>2. CASE t \in {<<>>, <<".">>}
  BY <1>2, MeaningStepIs, ComponentIs
<1>3. CASE t = Dots /\ x = <<>>
  <2>1. b.up = a.up + 1 /\ b.names = a.names /\ y = <<>>
    BY <1>3, MeaningStepIs, ComponentIs
  <2>2. Drop(<<>>, a.up + 1) = <<>> /\ Drop(<<>>, a.up) = <<>>
    BY <1>1, DropIs
  <2>3. QED
    BY <1>3, <2>1, <2>2
<1>4. ASSUME t = Dots, NEW r \in Toks, NEW u \in Text, x = Append(r, u)
      PROVE  Drop(x, b.up) \o b.names = Drop(y, a.up) \o a.names
  <2>1. b.up = a.up + 1 /\ b.names = a.names
    BY <1>4, MeaningStepIs
  <2>2. y = r
    BY <1>4, ComponentIs
  <2>3. Drop(Append(r, u), a.up + 1) = Drop(r, a.up)
    BY <1>1, DropIs
  <2>4. QED
    BY <1>4, <2>1, <2>2, <2>3
<1>5. CASE Normal(t) /\ a.up > 0
  <2>1. b.up = a.up - 1 /\ b.names = a.names /\ y = Append(x, t)
    BY <1>5, MeaningStepIs, ComponentIs
  <2>2. PICK u \in Nat : u = a.up - 1 /\ a.up = u + 1
    BY <1>1, <1>5
  <2>3. Drop(Append(x, t), u + 1) = Drop(x, u)
    BY DropIs
  <2>4. QED
    BY <2>1, <2>2, <2>3
<1>6. CASE Normal(t) /\ a.up = 0
  <2>1. b.up = 0 /\ b.names = <<t>> \o a.names /\ y = Append(x, t)
    BY <1>6, MeaningStepIs, ComponentIs
  <2>2. Append(x, t) \in Toks /\ Append(x, t) = x \o <<t>>
    BY AppendIs, ConcatLaws, TextFacts DEF Toks
  <2>3. Drop(x, 0) = x /\ Drop(Append(x, t), 0) = Append(x, t)
    BY <2>2, DropIs
  <2>4. (x \o <<t>>) \o a.names = x \o (<<t>> \o a.names)
    <3>1. PICK v \in Toks, w \in Toks : v = <<t>> /\ w = a.names
      BY <1>1, TextFacts
    <3>2. (x \o v) \o w = x \o (v \o w)
      BY ConcatAssoc DEF Toks
    <3>3. QED
      BY <3>1, <3>2
  <2>5. QED
    BY <1>6, <2>1, <2>2, <2>3, <2>4
<1>7. QED
  <2>1. CASE t = Dots /\ x # <<>>
    <3>1. PICK r \in Toks, u \in Text : x = Append(r, u)
      BY <2>1, SeqCases DEF Toks
    <3>2. QED
      BY <1>4, <2>1, <3>1
  <2>2. CASE Normal(t)
    <3>1. a.up > 0 \/ a.up = 0
      BY <1>1
    <3>2. QED
      BY <1>5, <1>6, <2>2, <3>1
  <2>3. QED
    BY <1>2, <1>3, <2>1, <2>2 DEF Normal

LEMMA MeaningIs ==
    ASSUME NEW path \in Text
    PROVE  Meaning(path) = Stack(Split(path))
<1> DEFINE T == Split(path)
           n == Len(T)
           step == [k \in 1..n |-> [x \in Acc |-> MeaningStep(x, T[n + 1 - k])]]
<1>1. T \in Toks /\ n \in Nat /\ Acc0 \in Acc /\ \A k \in 1..n : T[k] \in Text
  <2>1. T \in Toks
    BY SplitIs, Zenon DEF Pieces
  <2>2. Acc0 \in Acc
    BY TextFacts DEF Acc, Acc0
  <2>3. n \in Nat /\ \A k \in 1..n : T[k] \in Text
    BY <2>1 DEF Toks
  <2>4. QED
    BY <2>1, <2>2, <2>3
<1> HIDE DEF T
<1>2. step \in [1..n -> [Acc -> Acc]]
  <2>1. \A k \in 1..n : T[n + 1 - k] \in Text
    BY <1>1
  <2>2. \A k \in 1..n : [x \in Acc |-> MeaningStep(x, T[n + 1 - k])] \in [Acc -> Acc]
    BY <2>1, MeaningStepIs
  <2>3. QED
    BY <2>2
<1> HIDE DEF step
<1>3. PICK f \in [0..n -> Acc] : f[0] = Acc0 /\ \A k \in 1..n : f[k] = step[k][f[k - 1]]
  <2>1. Iterates(n, Acc, Acc0, step)
    BY <1>1, <1>2, IterateExists
  <2>2. QED
    BY <2>1 DEF Iterates
<1>4. \A k \in 1..n : f[k] = MeaningStep(f[k - 1], T[n + 1 - k])
  <2>1. \A k \in 1..n : f[k - 1] \in Acc
    <3>1. \A k \in 1..n : k - 1 \in 0..n
      OBVIOUS
    <3>2. QED
      BY <3>1
  <2>2. QED
    BY <1>3, <2>1 DEF step
<1>5. Meaning(path) = f[n].names
  BY <1>1, <1>3, <1>4, MeaningBy DEF T
<1>6. PICK s \in [0..n -> Toks] : s[0] = <<>> /\ \A k \in 1..n : s[k] = StackStep(s[k - 1], T[k])
  BY <1>1, StackExists
<1>7. Stack(T) = s[n]
  BY <1>1, <1>6, StackBy
<1> DEFINE V(k) == Drop(s[k], f[n - k].up) \o f[n - k].names
           G == {m \in Nat : m <= n => V(m) = V(0)}
<1> HIDE DEF n, V
<1>8. 0 \in G
  OBVIOUS
<1>9. ASSUME NEW m \in Nat, m \in G PROVE m + 1 \in G
  <2>1. SUFFICES ASSUME m + 1 <= n PROVE V(m + 1) = V(0)
    OBVIOUS
  <2>2. V(m) = V(0)
    BY <1>9, <1>1, <2>1
  <2>3. PICK k \in 1..n : k = n - m
    BY <1>1, <2>1
  <2>4. m + 1 \in 1..n /\ n - (m + 1) = k - 1 /\ n + 1 - k = m + 1 /\ (m + 1) - 1 = m /\ m \in 0..n /\ k - 1 \in 0..n
    BY <1>1, <2>1, <2>3
  <2>5. f[k] = MeaningStep(f[k - 1], T[m + 1]) /\ f[k - 1] \in Acc
    BY <1>4, <2>4
  <2>6. s[m + 1] = Component(s[m], T[m + 1]) /\ s[m] \in Toks /\ T[m + 1] \in Text
    BY <1>1, <1>6, <2>4 DEF StackStep
  <2>7. V(m) = Drop(s[m], f[k].up) \o f[k].names
    BY <2>3 DEF V
  <2>8. V(m + 1) = Drop(s[m + 1], f[k - 1].up) \o f[k - 1].names
    BY <2>4 DEF V
  <2>9. QED
    BY <2>2, <2>5, <2>6, <2>7, <2>8, MeaningMoves
<1> HIDE DEF G
<1>10. n \in G
  BY <1>1, <1>8, <1>9, NatSetInduction
<1>11. V(n) = V(0)
  BY <1>1, <1>10 DEF G
<1>12. V(n) = s[n]
  <2>1. n - n = 0 /\ s[n] \in Toks
    BY <1>1
  <2>2. Drop(s[n], 0) = s[n] /\ s[n] \o <<>> = s[n]
    BY <2>1, DropIs, ConcatLaws, TextFacts DEF Toks
  <2>3. f[n - n].up = 0 /\ f[n - n].names = <<>>
    BY <1>3, <2>1 DEF Acc0
  <2>4. V(n) = Drop(s[n], 0) \o <<>>
    BY <2>3 DEF V
  <2>5. QED
    BY <2>2, <2>4
<1>13. V(0) = f[n].names
  <2>1. n - 0 = n /\ f[n] \in Acc
    BY <1>1
  <2>2. f[n].up \in Nat /\ f[n].names \in Toks
    BY <2>1 DEF Acc
  <2>3. Drop(<<>>, f[n].up) = <<>> /\ <<>> \o f[n].names = f[n].names
    BY <2>2, DropIs, ConcatLaws, TextFacts DEF Toks
  <2>4. QED
    BY <1>6, <2>1, <2>3 DEF V
<1>14. QED
  BY <1>5, <1>7, <1>11, <1>12, <1>13 DEF T, n

-----------------------------------------------------------------------------
(* The spelling of what is left.                                           *)

Spell(N) == IF N = <<>> THEN Slash ELSE Join(N)

LEMMA JoinHead ==
    \A T \in Toks : T # <<>> => Join(T) # <<>> /\ Join(T)[1] = "/"
<1>1. ASSUME NEW x \in Text, NEW t \in Text, x = <<>> \/ x[1] = "/"
      PROVE  ((x \o Slash) \o t) # <<>> /\ ((x \o Slash) \o t)[1] = "/"
  <2>1. PICK y \in Text : y = x \o Slash
    BY ConcatText, TextFacts
  <2>2. Len(y) = Len(x) + 1 /\ Len(x) \in Nat
    <3>1. Len(x \o Slash) = Len(x) + Len(Slash) /\ Len(x) \in Nat
      BY ConcatText, TextFacts
    <3>2. QED
      BY <2>1, <3>1, TextFacts
  <2>3. y[1] = "/"
    BY <1>1, <2>1 DEF Slash, Text
  <2>4. Len(y \o t) >= 1 /\ (y \o t)[1] = y[1]
    BY <2>2 DEF Text
  <2>5. y \o t # <<>>
    BY <2>4
  <2>6. QED
    BY <2>1, <2>3, <2>4, <2>5
<1> DEFINE G == {T \in Toks : Join(T) = <<>> \/ Join(T)[1] = "/"}
<1>2. <<>> \in G
  BY JoinIs, TextFacts
<1>3. \A T \in Toks, t \in Text : Join(Append(T, t)) = (Join(T) \o Slash) \o t /\ Join(T) \in Text
  BY JoinIs DEF JoinStep
<1>4. ASSUME NEW T \in Toks, NEW t \in Text, T \in G PROVE Append(T, t) \in G
  <2>1. Append(T, t) \in Toks
    BY AppendIs DEF Toks
  <2>2. Join(Append(T, t))[1] = "/"
    BY <1>1, <1>3, <1>4
  <2>3. QED
    BY <2>1, <2>2
<1> HIDE DEF G
<1>5. \A T \in Toks : T \in G
  BY <1>2, <1>4, SeqSetInduction DEF Toks
<1>6. ASSUME NEW T \in Toks, T # <<>> PROVE Join(T) # <<>> /\ Join(T)[1] = "/"
  <2>1. PICK r \in Toks, t \in Text : T = Append(r, t)
    BY <1>6, SeqCases DEF Toks
  <2>2. Join(r) = <<>> \/ Join(r)[1] = "/"
    BY <1>5 DEF G
  <2>3. QED
    BY <1>1, <1>3, <2>1, <2>2
<1>7. QED
  BY <1>6

\* An absolute path starts with a slash.
LEMMA AbsoluteIs ==
    ASSUME NEW p \in Text
    PROVE  IsAbsolute(p) <=> p # <<>> /\ p[1] = "/"
<1>1. ASSUME p # <<>> PROVE Head(p \o Slash) = p[1]
  <2>1. Len(p) \in Nat /\ Len(p) > 0
    BY <1>1 DEF Text
  <2>2. (p \o Slash)[1] = p[1] /\ p \o Slash # <<>>
    BY <2>1, TextFacts DEF Text, Slash
  <2>3. QED
    BY <2>2 DEF Text, Slash
<1>2. QED
  BY <1>1 DEF IsAbsolute

LEMMA TailOf ==
    ASSUME NEW A, NEW a \in A, NEW s \in Seq(A)
    PROVE  Tail(<<a>> \o s) = s
OBVIOUS

LEMMA Rooted ==
    ASSUME NEW p \in Text, p # <<>>, p[1] = "/"
    PROVE  /\ Tail(p) \in Text /\ p = Slash \o Tail(p)
           /\ Split(p) = <<(<<>>)>> \o Split(Tail(p))
           /\ Stack(Split(p)) = Stack(Split(Tail(p)))
           /\ Join(Split(Tail(p))) = p
<1>1. Tail(p) \in Text /\ p = Slash \o Tail(p)
  BY DEF Text, Slash
<1>2. (<<>> \o Slash) \o Tail(p) = p
  <2>1. <<>> \o Slash = Slash
    BY ConcatLaws, TextFacts DEF Text
  <2>2. QED
    BY <1>1, <2>1
<1>3. Split(p) = Split(<<>>) \o Split(Tail(p))
  BY <1>1, <1>2, SplitConcat, TextFacts
<1>4. Split(p) = <<(<<>>)>> \o Split(Tail(p)) /\ Split(Tail(p)) \in Toks
  BY <1>1, <1>3, SplitIs DEF Pieces
<1>5. Stack(Split(p)) = Stack(Split(Tail(p)))
  BY <1>4, StackRoot
<1>6. QED
  BY <1>1, <1>4, <1>5, JoinSplit

\* What vfs_normalize makes of an absolute path that fits.
LEMMA NormalizeIs ==
    ASSUME NEW p \in Text, p # <<>>, p[1] = "/", Len(p) < PathBuf
    PROVE  LET N == Stack(Split(p)) IN
           /\ N \in Toks /\ Plain(N) /\ Clear(N)
           /\ Len(Spell(N)) <= Len(p) /\ Len(Spell(N)) \in Nat
           /\ Normalize(p, PathBuf) = Spell(N)
<1> DEFINE T == Split(Tail(p))
           N == Stack(Split(p))
<1>1. Tail(p) \in Text /\ N = Stack(T) /\ Join(T) = p
  BY Rooted
<1>2. T \in Toks /\ Clear(T)
  BY <1>1, SplitIs, SplitClear DEF Pieces
<1>3. Stack(T) \in Toks /\ Plain(Stack(T)) /\ Clear(Stack(T)) /\ Len(Join(Stack(T))) <= Len(Join(T))
  BY <1>2, StackIs, StackPlain
<1>4. Len(p) \in Nat /\ Len(p) >= 1 /\ PathBuf \in Nat
  BY PathAssumption DEF Text
<1>5. Len(Spell(N)) <= Len(p) /\ Len(Spell(N)) \in Nat
  <2>1. Len(Join(Stack(T))) \in Nat
    BY <1>3, JoinIs DEF Text
  <2>2. CASE N = <<>>
    <3>1. Spell(N) = Slash
      BY <2>2 DEF Spell
    <3>2. QED
      BY <1>4, <3>1, TextFacts
  <2>3. CASE N # <<>>
    <3>1. Spell(N) = Join(Stack(T))
      BY <1>1, <2>3 DEF Spell
    <3>2. QED
      BY <1>1, <1>3, <2>1, <3>1
  <2>4. QED
    BY <2>2, <2>3
<1>6. Normalize(p, PathBuf) = IF Len(Spell(N)) + 1 > PathBuf THEN BadPath ELSE Spell(N)
  <2>1. ~ (p[1] # "/" \/ Len(p) >= PathBuf)
    BY <1>4
  <2>2. Stack(Split(Tail(p))) = N
    BY <1>1
  <2>3. QED
    BY <2>1, <2>2 DEF Normalize, Spell
<1>7. Normalize(p, PathBuf) = Spell(N)
  BY <1>4, <1>5, <1>6
<1>8. QED
  BY <1>1, <1>3, <1>5, <1>7

\* Spelled out and read again, names are the same.
LEMMA SpellIs ==
    ASSUME NEW N \in Toks, Plain(N), Clear(N)
    PROVE  /\ Spell(N) \in Text /\ Spell(N) # <<>> /\ Spell(N)[1] = "/" /\ Spell(N) # BadPath
           /\ N # <<>> => Split(Tail(Spell(N))) = N
           /\ Stack(Split(Spell(N))) = N
           /\ Spell(N) = Slash <=> N = <<>>
<1>1. Spell(N) \in Text /\ Spell(N) # <<>> /\ Spell(N)[1] = "/"
  <2>1. Slash # <<>> /\ Slash[1] = "/"
    BY TextFacts DEF Slash
  <2>2. QED
    BY <2>1, JoinIs, JoinHead, TextFacts DEF Spell
<1>2. Spell(N) # BadPath
  BY <1>1 DEF BadPath
<1>3. ASSUME N # <<>> PROVE Split(Tail(Spell(N))) = N /\ Stack(Split(Spell(N))) = N
  <2>1. Split(Spell(N)) = <<(<<>>)>> \o N
    BY <1>3, SplitJoin DEF Spell
  <2>2. Split(Spell(N)) = <<(<<>>)>> \o Split(Tail(Spell(N))) /\ Tail(Spell(N)) \in Text
    BY <1>1, Rooted
  <2>3. Split(Tail(Spell(N))) \in Toks
    BY <2>2, SplitIs DEF Pieces
  <2>4. Tail(<<(<<>>)>> \o N) = N
    BY TailOf, TextFacts DEF Toks
  <2>5. Tail(<<(<<>>)>> \o Split(Tail(Spell(N)))) = Split(Tail(Spell(N)))
    BY <2>3, TailOf, TextFacts DEF Toks
  <2>6. QED
    BY <2>1, <2>2, <2>4, <2>5, StackSame
<1>4. Stack(Split(Slash)) = <<>>
  <2>1. Slash # <<>> /\ Slash[1] = "/" /\ Tail(Slash) = <<>>
    BY DEF Slash
  <2>2. Stack(Split(Slash)) = Stack(Split(<<>>))
    BY <2>1, Rooted, TextFacts
  <2>3. <<(<<>>)>> = <<(<<>>)>> \o <<>>
    BY TextFacts, ConcatLaws DEF Toks
  <2>4. QED
    BY <2>2, <2>3, SplitIs, StackRoot, StackIs, TextFacts
<1>5. QED
  BY <1>1, <1>2, <1>3, <1>4 DEF Spell

-----------------------------------------------------------------------------
(* What vfs_normalize returns.                                             *)

\* The characters of joined components are theirs, and the slashes.
LEMMA JoinChars ==
    \A T \in Toks : "*" \in ToSet(Join(T)) <=> \E i \in DOMAIN T : "*" \in ToSet(T[i])
<1>1. ASSUME NEW x \in Text, NEW y \in Text
      PROVE  "*" \in ToSet(x \o y) <=> "*" \in ToSet(x) \/ "*" \in ToSet(y)
  <2>1. /\ Len(x) \in Nat /\ Len(y) \in Nat /\ DOMAIN x = 1..Len(x) /\ DOMAIN y = 1..Len(y)
        /\ DOMAIN (x \o y) = 1..(Len(x) + Len(y))
        /\ \A i \in 1..Len(x) : (x \o y)[i] = x[i]
        /\ \A i \in 1..Len(y) : (x \o y)[Len(x) + i] = y[i]
    BY DEF Text
  <2>2. ASSUME NEW i \in DOMAIN (x \o y), (x \o y)[i] = "*"
        PROVE  "*" \in ToSet(x) \/ "*" \in ToSet(y)
    <3>1. CASE i <= Len(x)
      BY <2>1, <2>2, <3>1 DEF ToSet
    <3>2. CASE i > Len(x)
      <4>1. PICK k \in 1..Len(y) : i = Len(x) + k
        <5>1. i - Len(x) \in 1..Len(y) /\ i = Len(x) + (i - Len(x))
          BY <2>1, <3>2
        <5>2. QED
          BY <5>1
      <4>2. QED
        BY <2>1, <2>2, <4>1 DEF ToSet
    <3>3. QED
      BY <2>1, <3>1, <3>2
  <2>3. ASSUME NEW i \in DOMAIN x, x[i] = "*" PROVE "*" \in ToSet(x \o y)
    <3>1. i \in DOMAIN (x \o y) /\ (x \o y)[i] = "*"
      BY <2>1, <2>3
    <3>2. QED
      BY <3>1 DEF ToSet
  <2>4. ASSUME NEW i \in DOMAIN y, y[i] = "*" PROVE "*" \in ToSet(x \o y)
    <3>1. Len(x) + i \in DOMAIN (x \o y) /\ (x \o y)[Len(x) + i] = "*"
      BY <2>1, <2>4
    <3>2. QED
      BY <3>1 DEF ToSet
  <2>5. QED
    BY <2>2, <2>3, <2>4 DEF ToSet
<1>2. "*" \notin ToSet(Slash) /\ "*" \notin ToSet(<<>>)
  BY DEF ToSet, Slash
<1> DEFINE G == {T \in Toks : "*" \in ToSet(Join(T)) <=> \E i \in DOMAIN T : "*" \in ToSet(T[i])}
<1>3. <<>> \in G
  BY <1>2, JoinIs, TextFacts
<1>4. ASSUME NEW T \in Toks, NEW t \in Text, T \in G PROVE Append(T, t) \in G
  <2>1. Append(T, t) \in Toks
    BY AppendIs DEF Toks
  <2>2. Join(T) \in Text /\ Join(T) \o Slash \in Text /\ Join(Append(T, t)) = (Join(T) \o Slash) \o t
    BY JoinIs, ConcatText, TextFacts DEF JoinStep
  <2>3. "*" \in ToSet(Join(Append(T, t))) <=> "*" \in ToSet(Join(T)) \/ "*" \in ToSet(t)
    <3>1. "*" \in ToSet(Join(T) \o Slash) <=> "*" \in ToSet(Join(T))
      BY <1>1, <1>2, <2>2, TextFacts
    <3>2. "*" \in ToSet((Join(T) \o Slash) \o t) <=> "*" \in ToSet(Join(T) \o Slash) \/ "*" \in ToSet(t)
      BY <1>1, <2>2
    <3>3. QED
      BY <2>2, <3>1, <3>2
  <2>4. /\ Len(T) \in Nat /\ DOMAIN T = 1..Len(T) /\ DOMAIN Append(T, t) = 1..(Len(T) + 1)
        /\ Append(T, t)[Len(T) + 1] = t /\ \A i \in 1..Len(T) : Append(T, t)[i] = T[i]
    BY DEF Toks
  <2>5. (\E i \in DOMAIN Append(T, t) : "*" \in ToSet(Append(T, t)[i]))
          <=> (\E i \in DOMAIN T : "*" \in ToSet(T[i])) \/ "*" \in ToSet(t)
    BY <2>4
  <2>6. QED
    BY <1>4, <2>1, <2>3, <2>5
<1> HIDE DEF G
<1>5. \A T \in Toks : T \in G
  BY <1>3, <1>4, SeqSetInduction DEF Toks
<1>6. QED
  BY <1>5 DEF G

\* Only its characters can make a normal path invalid.
LEMMA ValidateIs ==
    ASSUME NEW N \in Toks, Plain(N), Clear(N), Len(Spell(N)) < PathBuf
    PROVE  Validate(Spell(N)) <=> "*" \notin ToSet(Spell(N))
<1>1. CASE N = <<>>
  <2>1. Spell(N) = Slash /\ "*" \notin ToSet(Slash)
    BY <1>1 DEF Spell, ToSet, Slash
  <2>2. QED
    BY <2>1 DEF Validate
<1>2. CASE N # <<>>
  <2>1. Spell(N) # Slash /\ Split(Tail(Spell(N))) = N
    BY <1>2, SpellIs
  <2>2. \A i \in DOMAIN N : N[i] # <<>> /\ N[i] \notin {<<".">>, <<".", ".">>}
    BY DEF Plain, Normal, Dots
  <2>3. Validate(Spell(N)) <=> \A i \in DOMAIN N : "*" \notin ToSet(N[i])
    BY <2>1, <2>2 DEF Validate
  <2>4. "*" \in ToSet(Spell(N)) <=> \E i \in DOMAIN N : "*" \in ToSet(N[i])
    BY <1>2, JoinChars DEF Spell
  <2>5. QED
    BY <2>3, <2>4
<1>3. QED
  BY <1>1, <1>2

LEMMA MaxIs ==
    ASSUME NEW S \in SUBSET Nat, NEW m \in S, \A x \in S : x <= m
    PROVE  Max(S) = m
<1>1. \E x \in S : \A y \in S : x >= y
  OBVIOUS
<1>2. Max(S) \in S /\ \A y \in S : Max(S) >= y
  BY <1>1 DEF Max
<1>3. PICK z \in Nat : z = Max(S)
  BY <1>2
<1>4. z <= m /\ m <= z /\ m \in Nat
  BY <1>2, <1>3
<1>5. QED
  BY <1>3, <1>4

\* The parent of a path is the path without its last name.
LEMMA ParentIs ==
    ASSUME NEW r \in Toks, NEW t \in Text, Slashless(t)
    PROVE  PathParent(Spell(Append(r, t))) = Spell(r)
<1>1. PICK x \in Text : x = Join(r)
  BY JoinIs
<1>2. PICK q \in Text : q = (x \o Slash) \o t
  BY ConcatText, TextFacts
<1>3. Spell(Append(r, t)) = q
  BY <1>1, <1>2, JoinIs, AppendIs DEF Spell, JoinStep, Toks
<1>4. /\ Len(x) \in Nat /\ Len(t) \in Nat /\ DOMAIN q = 1..(Len(x) + 1 + Len(t))
      /\ q[Len(x) + 1] = "/"
      /\ \A i \in 1..Len(t) : q[Len(x) + 1 + i] = t[i]
      /\ \A i \in 1..Len(x) : q[i] = x[i]
  <2>1. PICK y \in Text : y = x \o Slash
    BY ConcatText, TextFacts
  <2>2. /\ Len(x) \in Nat /\ Len(t) \in Nat /\ Len(y) = Len(x) + 1 /\ y[Len(x) + 1] = "/"
        /\ \A i \in 1..Len(x) : y[i] = x[i]
    BY <2>1 DEF Text, Slash
  <2>3. /\ DOMAIN (y \o t) = 1..(Len(y) + Len(t))
        /\ \A i \in 1..Len(y) : (y \o t)[i] = y[i]
        /\ \A i \in 1..Len(t) : (y \o t)[Len(y) + i] = t[i]
    BY DEF Text
  <2>4. q = y \o t
    BY <1>2, <2>1
  <2>5. QED
    BY <2>2, <2>3, <2>4
<1> DEFINE S == {i \in DOMAIN q : q[i] = "/"}
<1>5. Max(S) = Len(x) + 1
  <2>1. S \in SUBSET Nat /\ Len(x) + 1 \in S
    BY <1>4
  <2>2. ASSUME NEW i \in S PROVE i <= Len(x) + 1
    <3>1. ASSUME i > Len(x) + 1 PROVE FALSE
      <4>1. PICK k \in 1..Len(t) : i = Len(x) + 1 + k
        <5>1. i - (Len(x) + 1) \in 1..Len(t) /\ i = Len(x) + 1 + (i - (Len(x) + 1))
          BY <1>4, <3>1
        <5>2. QED
          BY <5>1
      <4>2. t[k] = "/" /\ k \in DOMAIN t
        BY <1>4, <4>1 DEF Text
      <4>3. QED
        BY <4>2 DEF Slashless
    <3>2. QED
      BY <1>4, <3>1
  <2> HIDE DEF S
  <2>3. QED
    BY <2>1, <2>2, MaxIs
<1>6. PathParent(q) = IF Len(x) + 1 = 1 THEN Slash ELSE SubSeq(q, 1, Len(x))
  BY <1>4, <1>5 DEF PathParent
<1>7. CASE Len(x) = 0
  <2>1. r = <<>>
    <3>1. x = <<>>
      BY <1>7 DEF Text
    <3>2. QED
      BY <1>1, <3>1, JoinHead
  <2>2. QED
    BY <1>3, <1>6, <1>7, <2>1 DEF Spell
<1>8. CASE Len(x) # 0
  <2>1. r # <<>>
    <3>1. Len(<<>>) = 0
      OBVIOUS
    <3>2. QED
      BY <1>1, <1>8, <3>1, JoinIs
  <2>2. SubSeq(q, 1, Len(x)) = x
    BY <1>4 DEF Text
  <2>3. Len(x) + 1 # 1
    BY <1>4, <1>8
  <2>4. QED
    BY <1>1, <1>3, <1>6, <2>1, <2>2, <2>3 DEF Spell
<1>9. QED
  BY <1>7, <1>8

LEMMA DotsAfter ==
    ASSUME NEW q \in Text
    PROVE  (q \o Slash) \o Dots = q \o <<"/", ".", ".">>
<1>1. Slash \in Text /\ Dots \in Text
  BY TextFacts DEF Dots, Text
<1>2. PICK d \in Text, e \in Text : d = Slash /\ e = Dots
  BY <1>1
<1>3. (q \o d) \o e = q \o (d \o e)
  BY TextAssoc
<1>4. <<"/", ".", ".">> = Slash \o Dots
  BY DEF Slash, Dots
<1>5. QED
  BY <1>2, <1>3, <1>4

\* Normal paths: what the first conjuncts of PathsExact say of one path.
LEMMA NormalExact ==
    ASSUME NEW p \in Text
    PROVE  LET q == Normalize(p, PathBuf) IN
           /\ q = BadPath <=> (~ IsAbsolute(p) \/ Len(p) >= PathBuf)
           /\ q # BadPath =>
               /\ Meaning(q) = Meaning(p) /\ Normalize(q, PathBuf) = q
               /\ Validate(q) <=> "*" \notin ToSet(q)
               /\ q # Slash /\ Len(q) + 3 < PathBuf =>
                   PathParent(q) = Normalize(q \o <<"/", ".", ".">>, PathBuf)
<1>1. PathBuf \in Nat /\ Len(p) \in Nat
  BY PathAssumption DEF Text
<1>2. CASE ~ IsAbsolute(p) \/ Len(p) >= PathBuf
  <2>1. Normalize(p, PathBuf) = BadPath
    BY <1>2, AbsoluteIs DEF Normalize
  <2>2. QED
    BY <1>2, <2>1
<1>3. CASE IsAbsolute(p) /\ Len(p) < PathBuf
  <2>1. p # <<>> /\ p[1] = "/"
    BY <1>3, AbsoluteIs
  <2>2. PICK N \in Toks : N = Stack(Split(p))
    BY SplitIs, StackIs DEF Pieces
  <2>3. /\ Plain(N) /\ Clear(N) /\ Len(Spell(N)) <= Len(p) /\ Len(Spell(N)) \in Nat
        /\ Normalize(p, PathBuf) = Spell(N)
    BY <1>3, <2>1, <2>2, NormalizeIs
  <2>4. PICK q \in Text : q = Spell(N)
    BY <2>3, SpellIs
  <2>5. /\ q # <<>> /\ q[1] = "/" /\ q # BadPath /\ Stack(Split(q)) = N /\ (q = Slash <=> N = <<>>)
        /\ Len(q) < PathBuf /\ Len(q) \in Nat
    BY <1>1, <1>3, <2>3, <2>4, SpellIs
  <2>6. Meaning(q) = Meaning(p)
    BY <2>2, <2>5, MeaningIs
  <2>7. Normalize(q, PathBuf) = q
    BY <2>4, <2>5, NormalizeIs
  <2>8. Validate(q) <=> "*" \notin ToSet(q)
    BY <2>3, <2>4, <2>5, ValidateIs
  <2>9. ASSUME q # Slash, Len(q) + 3 < PathBuf
        PROVE  PathParent(q) = Normalize(q \o <<"/", ".", ".">>, PathBuf)
    <3>1. PICK r \in Toks, t \in Text : N = Append(r, t)
      BY <2>5, <2>9, SeqCases DEF Toks
    <3>2. Slashless(t) /\ PathParent(q) = Spell(r)
      BY <2>3, <2>4, <3>1, ClearAppend, ParentIs
    <3>3. Dots \in Text /\ Slashless(Dots) /\ Len(Dots) = 2 /\ <<"/", ".", ".">> = Slash \o Dots
      <4>1. Dots \in Text /\ Len(Dots) = 2
        BY TextFacts DEF Dots, Text
      <4>2. Slashless(Dots)
        BY DEF Slashless, Dots
      <4>3. <<"/", ".", ".">> = Slash \o Dots
        BY DEF Slash, Dots
      <4>4. QED
        BY <4>1, <4>2, <4>3
    <3>4. PICK w \in Text : w = (q \o Slash) \o Dots
      BY <3>3, ConcatText, TextFacts
    <3>5. w = q \o <<"/", ".", ".">>
      BY <3>4, DotsAfter
    <3>6. Split(w) = Append(Split(q), Dots) /\ Split(q) \in Toks
      <4>1. Split(w) = Split(q) \o <<Dots>>
        BY <3>3, <3>4, SplitConcat, SplitSlashless
      <4>2. Split(q) \in Toks
        BY SplitIs DEF Pieces
      <4>3. QED
        BY <3>3, <4>1, <4>2, ConcatLaws DEF Toks
    <3>7. Stack(Split(w)) = r
      <4>1. Stack(Append(Split(q), Dots)) = Component(N, Dots)
        BY <2>5, <3>3, <3>6, StackIs DEF StackStep
      <4>2. QED
        BY <3>1, <3>3, <3>6, <4>1, ComponentIs
    <3>8. w # <<>> /\ w[1] = "/" /\ Len(w) < PathBuf
      <4>1. PICK y \in Text : y = Slash \o Dots
        BY <3>3, ConcatText, TextFacts
      <4>2. Len(y) = 3 /\ w = q \o y
        BY <3>3, <3>5, <4>1
      <4>3. Len(w) = Len(q) + 3
        <5>1. Len(q \o y) = Len(q) + Len(y)
          BY ConcatText
        <5>2. QED
          BY <4>2, <5>1
      <4>4. Len(q) >= 1
        BY <2>5 DEF Text
      <4>5. w[1] = q[1]
        BY <4>2, <4>4 DEF Text
      <4>6. w # <<>>
        BY <2>5, <4>3
      <4>7. QED
        BY <2>5, <2>9, <4>3, <4>5, <4>6
    <3>9. Normalize(w, PathBuf) = Spell(r)
      BY <3>7, <3>8, NormalizeIs
    <3>10. QED
      BY <3>2, <3>5, <3>9
  <2>10. ~ (~ IsAbsolute(p) \/ Len(p) >= PathBuf)
    BY <1>1, <1>3
  <2>11. QED
    BY <2>3, <2>4, <2>5, <2>6, <2>7, <2>8, <2>9, <2>10
<1>4. QED
  BY <1>1, <1>2, <1>3

\* What a text means, when it is appended to another.
LEMMA MeaningConcat ==
    ASSUME NEW a \in Text, NEW b \in Text, NEW p \in Text, Stack(Split(a)) = Stack(Split(b))
    PROVE  Meaning(a \o Slash \o p) = Meaning(b \o Slash \o p)
<1>1. /\ (a \o Slash) \o p \in Text /\ (b \o Slash) \o p \in Text
      /\ Split(a) \in Toks /\ Split(b) \in Toks /\ Split(p) \in Toks
  BY ConcatText, TextFacts, SplitIs DEF Pieces
<1>2. Stack(Split(a) \o Split(p)) = Stack(Split(b) \o Split(p))
  BY <1>1, StackConcat
<1>3. QED
  BY <1>1, <1>2, SplitConcat, MeaningIs

\* A path that vfs_normalize takes keeps its meaning.
LEMMA NormalMeans ==
    ASSUME NEW w \in Text, Normalize(w, PathBuf) # BadPath
    PROVE  Meaning(Normalize(w, PathBuf)) = Meaning(w)
BY NormalExact

LEMMA ResolveExact ==
    ASSUME NEW p \in Text, NEW cwd \in Text, Resolve(p, cwd, PathBuf) # BadPath
    PROVE  Meaning(Resolve(p, cwd, PathBuf)) =
             IF IsAbsolute(p) \/ ~ IsAbsolute(cwd) THEN Meaning(p)
             ELSE Meaning(Normalize(cwd, PathBuf) \o Slash \o p)
<1>1. PathBuf \in Nat /\ Len(p) \in Nat /\ Len(cwd) \in Nat
  BY PathAssumption DEF Text
<1>2. p # <<>>
  BY DEF Resolve
<1>3. CASE IsAbsolute(p)
  <2>1. Resolve(p, cwd, PathBuf) = Normalize(p, PathBuf)
    BY <1>2, <1>3 DEF Resolve
  <2>2. QED
    BY <1>3, <2>1, NormalMeans
<1>4. CASE ~ IsAbsolute(p)
  <2>1. Len(cwd) + 1 + Len(p) + 1 <= PathBuf
    <3>1. ~ (Len(cwd) + 1 + Len(p) + 1 > PathBuf)
      BY <1>2, <1>4 DEF Resolve
    <3>2. QED
      BY <1>1, <3>1
  <2>2. PICK c \in Text : c = IF IsAbsolute(cwd) THEN cwd ELSE Slash
    BY TextFacts
  <2>3. PICK w \in Text : w = (c \o Slash) \o p
    BY ConcatText, TextFacts
  <2>4. Resolve(p, cwd, PathBuf) = Normalize(w, PathBuf)
    BY <1>1, <1>2, <1>4, <2>1, <2>2, <2>3 DEF Resolve
  <2>5. Meaning(Resolve(p, cwd, PathBuf)) = Meaning((c \o Slash) \o p)
    BY <2>3, <2>4, NormalMeans
  <2>6. CASE IsAbsolute(cwd)
    <3>1. Normalize(cwd, PathBuf) = Spell(Stack(Split(cwd))) /\ c = cwd
          /\ Spell(Stack(Split(cwd))) \in Text
          /\ Stack(Split(Spell(Stack(Split(cwd))))) = Stack(Split(cwd))
      <4>1. cwd # <<>> /\ cwd[1] = "/" /\ Len(cwd) < PathBuf
        BY <1>1, <2>1, <2>6, AbsoluteIs
      <4>2. PICK N \in Toks : N = Stack(Split(cwd))
        BY SplitIs, StackIs DEF Pieces
      <4>3. Plain(N) /\ Clear(N) /\ Normalize(cwd, PathBuf) = Spell(N)
        BY <4>1, <4>2, NormalizeIs
      <4>4. Spell(N) \in Text /\ Stack(Split(Spell(N))) = N
        BY <4>3, SpellIs
      <4>5. QED
        BY <2>2, <2>6, <4>2, <4>3, <4>4
    <3>2. PICK d \in Text : d = Normalize(cwd, PathBuf)
      BY <3>1
    <3>3. Stack(Split(c)) = Stack(Split(d))
      BY <3>1, <3>2
    <3>4. Meaning((c \o Slash) \o p) = Meaning((d \o Slash) \o p)
      BY <3>3, MeaningConcat
    <3>5. QED
      BY <1>4, <2>5, <2>6, <3>2, <3>4
  <2>7. CASE ~ IsAbsolute(cwd)
    <3>1. c = Slash
      BY <2>2, <2>7
    <3>2. Stack(Split(Slash)) = <<>>
      BY SpellIs, TextFacts DEF Spell, Plain, Clear
    <3>3. /\ Split(Slash) \in Toks /\ Split(p) \in Toks
          /\ Split((Slash \o Slash) \o p) = Split(Slash) \o Split(p)
      BY SplitIs, SplitConcat, TextFacts DEF Pieces
    <3>4. Stack(Split(Slash) \o Split(p)) = Stack(<<>> \o Split(p))
      <4>1. Stack(Split(Slash)) = Stack(<<>>)
        BY <3>2, StackIs
      <4>2. QED
        BY <3>3, <4>1, StackConcat, TextFacts, Zenon
    <3>5. <<>> \o Split(p) = Split(p)
      BY <3>3, ConcatLaws, TextFacts DEF Toks
    <3>6. Meaning((c \o Slash) \o p) = Meaning(p)
      BY <2>3, <3>1, <3>3, <3>4, <3>5, MeaningIs
    <3>7. QED
      BY <2>5, <2>7, <3>6
  <2>8. QED
    BY <2>6, <2>7
<1>5. QED
  BY <1>3, <1>4

\* vfs_normalize, vfs_resolve, path_parent and validate_path_components do
\* to every path what it means: PathsExact, whatever bounds the inputs and
\* the buffer.
THEOREM PathsAlwaysExact == Tries => PathsExact
<1>1. SUFFICES ASSUME Tries, tried[1] = "path" PROVE PathsExact
  BY DEF PathsExact
<1>2. PICK p \in Strings(PathChars, PathLen) : tried = <<"path", p>>
  BY <1>1 DEF Tries, NotTried
<1>3. p \in Text /\ tried[2] = p
  BY <1>2 DEF Strings, Text, Sign
<1>4. ASSUME NEW cwd \in Strings(PathChars \ {"*"}, PathBuf - Len(p)) PROVE cwd \in Text
  <2>1. PICK k \in 0..(PathBuf - Len(p)) : cwd \in [1..k -> PathChars \ {"*"}]
    BY DEF Strings
  <2>2. PathBuf \in Nat /\ Len(p) \in Nat
    BY <1>3, PathAssumption DEF Text
  <2>3. k \in Nat
    BY <2>1, <2>2
  <2>4. QED
    BY <2>1, <2>3 DEF Text, Sign
<1>5. QED
  BY <1>3, <1>4, NormalExact, ResolveExact DEF PathsExact

\* A set of naturals has a least element (Min of FiniteSetsExt).
LEMMA MinIs ==
    ASSUME NEW S \in SUBSET Nat, S # {}
    PROVE  Min(S) \in S /\ \A x \in S : Min(S) <= x
BY LeastNatural DEF Min

-----------------------------------------------------------------------------
(* Patterns: characters and classes.                                       *)

Char == ToSet(Ascii) \ {"NUL"}

LEMMA AsciiIs ==
    ToSet(Ascii) = {"NUL", "!", "*", "-", "/", "?", "A", "[", "]", "^", "a", "b"}
<1>1. DOMAIN Ascii = 1..12
  BY DEF Ascii
<1>2. \A i \in 1..12 : Ascii[i] \in {"NUL", "!", "*", "-", "/", "?", "A", "[", "]", "^", "a", "b"}
  <2>1. \A i \in 1..12 : \/ i = 1 \/ i = 2 \/ i = 3 \/ i = 4 \/ i = 5 \/ i = 6
                         \/ i = 7 \/ i = 8 \/ i = 9 \/ i = 10 \/ i = 11 \/ i = 12
    OBVIOUS
  <2>2. QED
    BY <2>1 DEF Ascii
<1>3. /\ Ascii[1] = "NUL" /\ Ascii[2] = "!" /\ Ascii[3] = "*" /\ Ascii[4] = "-"
      /\ Ascii[5] = "/" /\ Ascii[6] = "?" /\ Ascii[7] = "A" /\ Ascii[8] = "["
      /\ Ascii[9] = "]" /\ Ascii[10] = "^" /\ Ascii[11] = "a" /\ Ascii[12] = "b"
  BY DEF Ascii
<1>4. QED
  BY <1>1, <1>2, <1>3 DEF ToSet

\* One turn of the loop over a class.
Ranged(pat, k) == CharAt(pat, k + 1) = "-" /\ CharAt(pat, k + 2) \notin {"NUL", "]"}
Onward(pat, k) == IF Ranged(pat, k) THEN k + 3 ELSE k + 1
ClassStep(pat, f, k) ==
    IF k > Len(pat) THEN [chars |-> {}, next |-> k]
    ELSE IF pat[k] = "]" THEN [chars |-> {}, next |-> k + 1]
    ELSE LET ranged == CharAt(pat, k + 1) = "-" /\ CharAt(pat, k + 2) \notin {"NUL", "]"}
             rest == f[IF ranged THEN k + 3 ELSE k + 1]
             hi   == IF ranged THEN pat[k + 2] ELSE pat[k]
         IN [rest EXCEPT !.chars = @ \cup Between(ToLower(pat[k]), ToLower(hi))]

IsClass(f, pat, lo) == f = [k \in lo..(Len(pat) + 1) |-> ClassStep(pat, f, k)]

\* A range ends within the pattern.
LEMMA OnwardIs ==
    ASSUME NEW pat, Len(pat) \in Nat, NEW k \in 1..Len(pat)
    PROVE  Onward(pat, k) \in (k + 1)..(Len(pat) + 1)
BY DEF Onward, Ranged, CharAt

LEMMA ClassStepSame ==
    ASSUME NEW pat, Len(pat) \in Nat, NEW f, NEW g, NEW k \in 1..(Len(pat) + 1),
           \A l \in (k + 1)..(Len(pat) + 1) : f[l] = g[l]
    PROVE  ClassStep(pat, f, k) = ClassStep(pat, g, k)
<1>1. CASE k > Len(pat)
  BY <1>1 DEF ClassStep
<1>2. CASE k <= Len(pat)
  <2>1. f[Onward(pat, k)] = g[Onward(pat, k)]
    BY <1>2, OnwardIs
  <2>2. QED
    BY <2>1 DEF ClassStep, Onward, Ranged
<1>3. QED
  BY <1>1, <1>2

LEMMA ClassExists ==
    ASSUME NEW pat, Len(pat) \in Nat
    PROVE  \A lo \in 1..(Len(pat) + 1) : \E f : IsClass(f, pat, lo)
<1> DEFINE P == Len(pat) + 1
           Sol(f, lo) == \A k \in lo..P : f[k] = ClassStep(pat, f, k)
           G == {m \in Nat : m < P => \E f : Sol(f, P - m)}
<1>1. 0 \in G
  <2> DEFINE f == [k \in P..P |-> [chars |-> {}, next |-> k]]
  <2>1. \A k \in P..P : k > Len(pat) /\ f[k] = [chars |-> {}, next |-> k]
    OBVIOUS
  <2> HIDE DEF f
  <2>2. Sol(f, P - 0)
    BY <2>1 DEF ClassStep
  <2>3. QED
    BY <2>2
<1>2. ASSUME NEW m \in Nat, m \in G PROVE m + 1 \in G
  <2>1. SUFFICES ASSUME m + 1 < P PROVE \E f : Sol(f, P - (m + 1))
    OBVIOUS
  <2>2. PICK lo : lo = P - m
    OBVIOUS
  <2>3. lo \in 2..P /\ P - (m + 1) = lo - 1 /\ m < P /\ P \in Nat
    BY <2>1, <2>2
  <2>4. PICK f : Sol(f, lo)
    BY <1>2, <2>2, <2>3
  <2> DEFINE g == [k \in (lo - 1)..P |-> IF k >= lo THEN f[k] ELSE ClassStep(pat, f, k)]
  <2> HIDE DEF P
  <2>5. \A l \in lo..P : g[l] = f[l]
    BY <2>3
  <2>6. g[lo - 1] = ClassStep(pat, f, lo - 1)
    BY <2>3
  <2> HIDE DEF g
  <2>7. ASSUME NEW k \in (lo - 1)..P PROVE g[k] = ClassStep(pat, g, k)
    <3>1. k \in 1..(Len(pat) + 1) /\ \A l \in (k + 1)..(Len(pat) + 1) : f[l] = g[l]
      BY <2>3, <2>5 DEF P
    <3>2. ClassStep(pat, f, k) = ClassStep(pat, g, k)
      BY <3>1, ClassStepSame
    <3>3. CASE k = lo - 1
      BY <2>6, <3>2, <3>3
    <3>4. CASE k # lo - 1
      <4>1. k \in lo..P
        BY <2>3, <3>4
      <4>2. QED
        BY <2>4, <2>5, <3>2, <4>1
    <3>5. QED
      BY <3>3, <3>4
  <2>8. Sol(g, P - (m + 1))
    BY <2>3, <2>7
  <2>9. QED
    BY <2>8
<1> HIDE DEF G
<1>3. \A m \in Nat : m \in G
  BY <1>1, <1>2, NatSetInduction
<1>4. ASSUME NEW lo \in 1..P PROVE \E f : IsClass(f, pat, lo)
  <2>1. P - lo \in G /\ P - lo < P /\ P - (P - lo) = lo
    BY <1>3
  <2>2. PICK f : Sol(f, lo)
    BY <2>1 DEF G
  <2> DEFINE h == [k \in lo..P |-> f[k]]
  <2>3. \A k \in lo..P : h[k] = f[k]
    OBVIOUS
  <2>4. h = [k \in lo..P |-> h[k]]
    OBVIOUS
  <2> HIDE DEF h
  <2>5. ASSUME NEW k \in lo..P PROVE h[k] = ClassStep(pat, h, k)
    <3>1. k \in 1..(Len(pat) + 1) /\ \A l \in (k + 1)..(Len(pat) + 1) : f[l] = h[l]
      BY <2>3
    <3>2. QED
      BY <2>2, <2>3, <3>1, ClassStepSame
  <2>6. IsClass(h, pat, lo)
    BY <2>4, <2>5 DEF IsClass
  <2>7. QED
    BY <2>6
<1>5. QED
  BY <1>4

\* A class ends behind its start and within the pattern.
LEMMA ClassIs ==
    ASSUME NEW pat, Len(pat) \in Nat, NEW i \in 1..(Len(pat) + 1)
    PROVE  /\ Class(pat, i) = [chars |-> Class(pat, i).chars, next |-> Class(pat, i).next]
           /\ Class(pat, i).next \in i..(Len(pat) + 1)
<1> DEFINE P == Len(pat) + 1
           f == CHOOSE g : IsClass(g, pat, i)
           Good(r, k) == /\ r = [chars |-> r.chars, next |-> r.next]
                         /\ r.next \in k..P
           G == {m \in Nat : \A k \in i..P : k >= P - m => Good(f[k], k)}
<1>1. IsClass(f, pat, i)
  BY ClassExists, Zenon
<1>2. Class(pat, i) = f[i]
  BY DEF Class, IsClass, ClassStep
<1> HIDE DEF f
<1>3. \A k \in i..P : f[k] = ClassStep(pat, f, k)
  BY <1>1, Zenon DEF IsClass
<1>4. 0 \in G
  <2>1. ASSUME NEW k \in i..P, k >= P - 0 PROVE Good(f[k], k)
    <3>1. k = P /\ k > Len(pat)
      BY <2>1
    <3>2. f[k] = [chars |-> {}, next |-> k]
      BY <1>3, <3>1 DEF ClassStep
    <3>3. QED
      BY <3>1, <3>2
  <2>2. QED
    BY <2>1
<1>5. ASSUME NEW m \in Nat, m \in G PROVE m + 1 \in G
  <2>1. ASSUME NEW k \in i..P, k >= P - (m + 1) PROVE Good(f[k], k)
    <3>1. CASE k >= P - m
      BY <1>5, <3>1
    <3>2. CASE k < P - m
      <4>1. k \in 1..Len(pat) /\ k + 1 >= P - m
        BY <2>1, <3>2
      <4>0. f[k] = ClassStep(pat, f, k) /\ ~ (k > Len(pat))
        BY <1>3, <2>1, <4>1
      <4>2. Onward(pat, k) \in (k + 1)..P
        BY <4>1, OnwardIs
      <4>3. Good(f[Onward(pat, k)], Onward(pat, k))
        BY <1>5, <4>1, <4>2
      <4>4. CASE pat[k] = "]"
        <5>1. f[k] = [chars |-> {}, next |-> k + 1]
          BY <4>0, <4>4 DEF ClassStep
        <5>2. QED
          BY <4>1, <5>1
      <4>5. CASE pat[k] # "]"
        <5> DEFINE r == f[Onward(pat, k)]
        <5>1. PICK s : f[k] = [r EXCEPT !.chars = s]
          BY <4>0, <4>5 DEF ClassStep, Onward, Ranged
        <5> HIDE DEF r
        <5>2. r = [chars |-> r.chars, next |-> r.next] /\ r.next \in k..P
          BY <4>1, <4>2, <4>3 DEF r
        <5>3. f[k] = [chars |-> s, next |-> r.next]
          BY <5>1, <5>2
        <5>4. QED
          BY <5>2, <5>3
      <4>6. QED
        BY <4>4, <4>5
    <3>3. QED
      BY <2>1, <3>1, <3>2
  <2>2. QED
    BY <2>1
<1> HIDE DEF G
<1>6. P - i \in G /\ P - (P - i) = i
  BY <1>4, <1>5, NatSetInduction
<1>7. Good(f[i], i)
  BY <1>6 DEF G
<1>8. QED
  BY <1>2, <1>7

LEMMA ClassAtIs ==
    ASSUME NEW pat, Len(pat) \in Nat, NEW i \in 1..Len(pat)
    PROVE  /\ ClassAt(pat, i).next \in (i + 1)..(Len(pat) + 1)
           /\ ClassAt(pat, i).chars \subseteq ToSet(Ascii)
<1> DEFINE neg == CharAt(pat, i + 1) \in {"!", "^"}
           k == IF neg THEN i + 2 ELSE i + 1
           c == Class(pat, k)
           s == {x \in ToSet(Ascii) : (ToLower(x) \in c.chars) # neg}
<1>1. k \in (i + 1)..(Len(pat) + 1)
  BY DEF CharAt
<1>2. ClassAt(pat, i) = [c EXCEPT !.chars = s]
  BY DEF ClassAt
<1> HIDE DEF k
<1>3. c = [chars |-> c.chars, next |-> c.next] /\ c.next \in k..(Len(pat) + 1)
  BY <1>1, ClassIs
<1> HIDE DEF c
<1>4. ClassAt(pat, i) = [chars |-> s, next |-> c.next]
  BY <1>2, <1>3
<1>5. QED
  BY <1>1, <1>3, <1>4

-----------------------------------------------------------------------------
(* Cutting a name into pieces.                                             *)

Letters == ToSet(Ascii)
ItemSet == (SUBSET Letters) \cup {{"any"}}

Piece(x, a, b, name) == IF x = {"any"} THEN a <= b ELSE b = a + 1 /\ name[b] \in x

\* The name can be cut into these items from its j-th character on.
Fits(items, j, name) ==
    \E cut \in [0..Len(items) -> 0..Len(name)] :
        /\ cut[0] = j - 1 /\ cut[Len(items)] = Len(name)
        /\ \A i \in 1..Len(items) : Piece(items[i], cut[i - 1], cut[i], name)

LEMMA FitsEmpty ==
    ASSUME NEW name, Len(name) \in Nat, NEW j \in 1..(Len(name) + 1)
    PROVE  Fits(<<>>, j, name) <=> j = Len(name) + 1
<1>1. ASSUME Fits(<<>>, j, name) PROVE j = Len(name) + 1
  BY <1>1 DEF Fits
<1>2. ASSUME j = Len(name) + 1 PROVE Fits(<<>>, j, name)
  <2> DEFINE cut == [k \in 0..0 |-> Len(name)]
  <2>1. cut \in [0..0 -> 0..Len(name)] /\ cut[0] = j - 1 /\ cut[0] = Len(name)
    BY <1>2
  <2> HIDE DEF cut
  <2>2. QED
    BY <2>1 DEF Fits
<1>3. QED
  BY <1>1, <1>2

LEMMA FitsCons ==
    ASSUME NEW name, Len(name) \in Nat, NEW j \in 1..(Len(name) + 1),
           NEW x \in ItemSet, NEW r \in Seq(ItemSet)
    PROVE  Fits(<<x>> \o r, j, name) <=>
             \E t \in 1..(Len(name) + 1) : Piece(x, j - 1, t - 1, name) /\ Fits(r, t, name)
<1> DEFINE n == Len(name)
           l == Len(r)
           s == <<x>> \o r
<1>1. /\ l \in Nat /\ Len(s) = l + 1 /\ s[1] = x
      /\ \A k \in 1..l : s[k + 1] = r[k]
  OBVIOUS
<1> HIDE DEF s
<1>2. ASSUME Fits(s, j, name)
      PROVE  \E t \in 1..(n + 1) : Piece(x, j - 1, t - 1, name) /\ Fits(r, t, name)
  <2>1. PICK cut \in [0..(l + 1) -> 0..n] :
            /\ cut[0] = j - 1 /\ cut[l + 1] = n
            /\ \A i \in 1..(l + 1) : Piece(s[i], cut[i - 1], cut[i], name)
    BY <1>1, <1>2 DEF Fits
  <2> DEFINE rest == [k \in 0..l |-> cut[k + 1]]
             t == cut[1] + 1
  <2>2. cut[1] \in 0..n
    <3>1. 1 \in 0..(l + 1)
      BY <1>1
    <3>2. QED
      BY <2>1, <3>1
  <2>3. t \in 1..(n + 1) /\ t - 1 = cut[1]
    BY <2>2
  <2>4. 1 \in 1..(l + 1) /\ 1 - 1 = 0
    BY <1>1
  <2>5. Piece(x, j - 1, t - 1, name)
    BY <1>1, <2>1, <2>3, <2>4
  <2>6. rest \in [0..l -> 0..n] /\ rest[0] = t - 1 /\ rest[l] = n
    BY <1>1, <2>1, <2>3
  <2>7. ASSUME NEW i \in 1..l PROVE Piece(r[i], rest[i - 1], rest[i], name)
    <3>1. i + 1 \in 1..(l + 1) /\ s[i + 1] = r[i] /\ rest[i - 1] = cut[(i + 1) - 1] /\ rest[i] = cut[i + 1]
      BY <1>1
    <3>2. QED
      BY <2>1, <3>1
  <2> HIDE DEF rest
  <2>8. Fits(r, t, name)
    BY <2>6, <2>7 DEF Fits
  <2>9. QED
    BY <2>3, <2>5, <2>8
<1>3. ASSUME NEW t \in 1..(n + 1), Piece(x, j - 1, t - 1, name), Fits(r, t, name)
      PROVE  Fits(s, j, name)
  <2>1. PICK rest \in [0..l -> 0..n] :
            /\ rest[0] = t - 1 /\ rest[l] = n
            /\ \A i \in 1..l : Piece(r[i], rest[i - 1], rest[i], name)
    BY <1>3 DEF Fits
  <2> DEFINE cut == [k \in 0..(l + 1) |-> IF k = 0 THEN j - 1 ELSE rest[k - 1]]
  <2>2. /\ cut \in [0..(l + 1) -> 0..n] /\ cut[0] = j - 1 /\ cut[l + 1] = n
        /\ \A k \in 1..(l + 1) : cut[k] = rest[k - 1]
    BY <1>1, <2>1
  <2> HIDE DEF cut
  <2>3. ASSUME NEW i \in 1..(l + 1) PROVE Piece(s[i], cut[i - 1], cut[i], name)
    <3>1. CASE i = 1
      BY <1>1, <1>3, <2>1, <2>2, <3>1
    <3>2. CASE i # 1
      <4>1. PICK m \in 1..l : m = i - 1
        BY <1>1, <3>2
      <4>2. i = m + 1 /\ m \in 1..(l + 1) /\ i - 1 = m
        BY <1>1, <4>1
      <4>3. s[i] = r[m] /\ cut[i - 1] = rest[m - 1] /\ cut[i] = rest[m]
        BY <1>1, <2>2, <4>1, <4>2
      <4>4. QED
        BY <2>1, <4>3
    <3>3. QED
      BY <3>1, <3>2
  <2>4. QED
    BY <1>1, <2>2, <2>3 DEF Fits
<1>4. QED
  BY <1>2, <1>3 DEF s

\* A run of any length, and one character of a set.
LEMMA FitsAny ==
    ASSUME NEW name, Len(name) \in Nat, NEW j \in 1..(Len(name) + 1), NEW r \in Seq(ItemSet)
    PROVE  Fits(<<{"any"}>> \o r, j, name) <=> \E t \in j..(Len(name) + 1) : Fits(r, t, name)
<1>1. {"any"} \in ItemSet
  BY DEF ItemSet
<1>2. Fits(<<{"any"}>> \o r, j, name) <=>
        \E t \in 1..(Len(name) + 1) : Piece({"any"}, j - 1, t - 1, name) /\ Fits(r, t, name)
  BY <1>1, FitsCons
<1>3. \A t \in 1..(Len(name) + 1) : Piece({"any"}, j - 1, t - 1, name) <=> t \in j..(Len(name) + 1)
  BY DEF Piece
<1>4. QED
  BY <1>2, <1>3

LEMMA FitsOne ==
    ASSUME NEW name, Len(name) \in Nat, NEW j \in 1..(Len(name) + 1),
           NEW x \in SUBSET Letters, NEW r \in Seq(ItemSet)
    PROVE  Fits(<<x>> \o r, j, name) <=>
             j <= Len(name) /\ name[j] \in x /\ Fits(r, j + 1, name)
<1>1. x \in ItemSet /\ x # {"any"}
  BY AsciiIs DEF ItemSet, Letters
<1>2. Fits(<<x>> \o r, j, name) <=>
        \E t \in 1..(Len(name) + 1) : Piece(x, j - 1, t - 1, name) /\ Fits(r, t, name)
  BY <1>1, FitsCons
<1>3. \A t \in 1..(Len(name) + 1) : Piece(x, j - 1, t - 1, name) <=> (t = j + 1 /\ name[j] \in x)
  <2>1. \A t \in 1..(Len(name) + 1) : (t - 1 = (j - 1) + 1 /\ name[t - 1] \in x) <=> (t = j + 1 /\ name[j] \in x)
    <3>1. ASSUME NEW t \in 1..(Len(name) + 1)
          PROVE  (t - 1 = (j - 1) + 1 /\ name[t - 1] \in x) <=> (t = j + 1 /\ name[j] \in x)
      <4>1. t - 1 = (j - 1) + 1 <=> t = j + 1
        OBVIOUS
      <4>2. t = j + 1 => t - 1 = j
        OBVIOUS
      <4>3. QED
        BY <4>1, <4>2
    <3>2. QED
      BY <3>1
  <2>2. QED
    BY <1>1, <2>1 DEF Piece
<1>4. j + 1 \in 1..(Len(name) + 1) <=> j <= Len(name)
  OBVIOUS
<1>5. QED
  BY <1>2, <1>3, <1>4

-----------------------------------------------------------------------------
(* The items of a pattern.                                                 *)

\* One turn of the reading of a pattern.
ItemsStep(pat, f, i) ==
    IF i > Len(pat) THEN <<>>
    ELSE IF pat[i] = "*" THEN <<{"any"}>> \o f[i + 1]
    ELSE IF pat[i] = "[" THEN <<ClassAt(pat, i).chars>> \o f[ClassAt(pat, i).next]
    ELSE IF pat[i] = "?" THEN <<ToSet(Ascii) \ {"NUL", "/"}>> \o f[i + 1]
    ELSE <<{c \in ToSet(Ascii) : ToLower(c) = ToLower(pat[i])}>> \o f[i + 1]

IsItems(f, pat) == f = [i \in 1..(Len(pat) + 1) |-> ItemsStep(pat, f, i)]

\* What a position that is no "*" steps over, and where it goes on.
ItemAt(pat, i) ==
    IF pat[i] = "[" THEN ClassAt(pat, i).chars
    ELSE IF pat[i] = "?" THEN Letters \ {"NUL", "/"}
    ELSE {c \in Letters : ToLower(c) = ToLower(pat[i])}
NextAt(pat, i) == IF pat[i] = "[" THEN ClassAt(pat, i).next ELSE i + 1

LEMMA ItemAtIs ==
    ASSUME NEW pat, Len(pat) \in Nat, NEW i \in 1..Len(pat)
    PROVE  ItemAt(pat, i) \subseteq Letters /\ NextAt(pat, i) \in (i + 1)..(Len(pat) + 1)
BY ClassAtIs DEF ItemAt, NextAt, Letters

LEMMA ItemsStepIs ==
    ASSUME NEW pat, Len(pat) \in Nat, NEW f, NEW i \in 1..Len(pat)
    PROVE  /\ pat[i] = "*" => ItemsStep(pat, f, i) = <<{"any"}>> \o f[i + 1]
           /\ pat[i] # "*" => ItemsStep(pat, f, i) = <<ItemAt(pat, i)>> \o f[NextAt(pat, i)]
<1>1. ~ (i > Len(pat)) /\ Letters = ToSet(Ascii)
  BY DEF Letters
<1>2. CASE pat[i] = "*"
  BY <1>1, <1>2, Zenon DEF ItemsStep
<1>3. CASE pat[i] = "["
  <2>1. pat[i] # "*" /\ ItemAt(pat, i) = ClassAt(pat, i).chars /\ NextAt(pat, i) = ClassAt(pat, i).next
    BY <1>3 DEF ItemAt, NextAt
  <2>2. QED
    BY <1>1, <1>3, <2>1, Zenon DEF ItemsStep
<1>4. CASE pat[i] = "?"
  <2>1. pat[i] # "*" /\ pat[i] # "[" /\ NextAt(pat, i) = i + 1
        /\ ItemAt(pat, i) = ToSet(Ascii) \ {"NUL", "/"}
    BY <1>1, <1>4 DEF ItemAt, NextAt
  <2>2. QED
    BY <1>1, <1>4, <2>1, Zenon DEF ItemsStep
<1>5. CASE pat[i] \notin {"*", "[", "?"}
  <2>1. pat[i] # "*" /\ pat[i] # "[" /\ pat[i] # "?" /\ NextAt(pat, i) = i + 1
        /\ ItemAt(pat, i) = {c \in ToSet(Ascii) : ToLower(c) = ToLower(pat[i])}
    BY <1>1, <1>5 DEF ItemAt, NextAt
  <2>2. QED
    BY <1>1, <2>1, Zenon DEF ItemsStep
<1>6. QED
  BY <1>2, <1>3, <1>4, <1>5

LEMMA ItemsStepSame ==
    ASSUME NEW pat, Len(pat) \in Nat, NEW f, NEW g, NEW i \in 1..(Len(pat) + 1),
           \A l \in (i + 1)..(Len(pat) + 1) : f[l] = g[l]
    PROVE  ItemsStep(pat, f, i) = ItemsStep(pat, g, i)
<1>1. CASE i > Len(pat)
  BY <1>1 DEF ItemsStep
<1>2. CASE i <= Len(pat)
  <2>1. i \in 1..Len(pat)
    BY <1>2
  <2>2. f[i + 1] = g[i + 1] /\ f[NextAt(pat, i)] = g[NextAt(pat, i)]
    BY <2>1, ItemAtIs
  <2>3. CASE pat[i] = "*"
    <3>1. ItemsStep(pat, f, i) = <<{"any"}>> \o f[i + 1] /\ ItemsStep(pat, g, i) = <<{"any"}>> \o g[i + 1]
      BY <2>1, <2>3, ItemsStepIs, Zenon
    <3>2. QED
      BY <2>2, <3>1, Zenon
  <2>4. CASE pat[i] # "*"
    <3>1. /\ ItemsStep(pat, f, i) = <<ItemAt(pat, i)>> \o f[NextAt(pat, i)]
          /\ ItemsStep(pat, g, i) = <<ItemAt(pat, i)>> \o g[NextAt(pat, i)]
      BY <2>1, <2>4, ItemsStepIs, Zenon
    <3>2. QED
      BY <2>2, <3>1, Zenon
  <2>5. QED
    BY <2>3, <2>4
<1>3. QED
  BY <1>1, <1>2

LEMMA ItemsExist ==
    ASSUME NEW pat, Len(pat) \in Nat
    PROVE  \E f : IsItems(f, pat)
<1> DEFINE P == Len(pat) + 1
           Sol(f, lo) == \A k \in lo..P : f[k] = ItemsStep(pat, f, k)
           G == {m \in Nat : m < P => \E f : Sol(f, P - m)}
<1>1. 0 \in G
  <2> DEFINE f == [k \in P..P |-> ItemsStep(pat, <<>>, k)]
  <2>1. \A k \in P..P : k \in 1..P /\ f[k] = ItemsStep(pat, <<>>, k)
    OBVIOUS
  <2> HIDE DEF f
  <2>2. \A k \in P..P : ItemsStep(pat, <<>>, k) = ItemsStep(pat, f, k)
    BY <2>1, ItemsStepSame
  <2>3. Sol(f, P - 0)
    BY <2>1, <2>2
  <2>4. QED
    BY <2>3
<1>2. ASSUME NEW m \in Nat, m \in G PROVE m + 1 \in G
  <2>1. SUFFICES ASSUME m + 1 < P PROVE \E f : Sol(f, P - (m + 1))
    OBVIOUS
  <2>2. PICK lo : lo = P - m
    OBVIOUS
  <2>3. lo \in 2..P /\ P - (m + 1) = lo - 1 /\ m < P /\ P \in Nat
    BY <2>1, <2>2
  <2>4. PICK f : Sol(f, lo)
    BY <1>2, <2>2, <2>3
  <2> DEFINE g == [k \in (lo - 1)..P |-> IF k >= lo THEN f[k] ELSE ItemsStep(pat, f, lo - 1)]
  <2> HIDE DEF P
  <2>5. \A l \in lo..P : g[l] = f[l]
    BY <2>3
  <2>6. g[lo - 1] = ItemsStep(pat, f, lo - 1)
    BY <2>3
  <2> HIDE DEF g
  <2>7. ASSUME NEW k \in (lo - 1)..P PROVE g[k] = ItemsStep(pat, g, k)
    <3>1. k \in 1..(Len(pat) + 1) /\ \A l \in (k + 1)..(Len(pat) + 1) : f[l] = g[l]
      BY <2>3, <2>5 DEF P
    <3>2. ItemsStep(pat, f, k) = ItemsStep(pat, g, k)
      BY <3>1, ItemsStepSame
    <3>3. CASE k = lo - 1
      BY <2>6, <3>2, <3>3
    <3>4. CASE k # lo - 1
      <4>1. k \in lo..P
        BY <2>3, <3>4
      <4>2. QED
        BY <2>4, <2>5, <3>2, <4>1
    <3>5. QED
      BY <3>3, <3>4
  <2>8. Sol(g, P - (m + 1))
    BY <2>3, <2>7
  <2>9. QED
    BY <2>8
<1> HIDE DEF G
<1>3. P - 1 \in G /\ P - 1 < P /\ P - (P - 1) = 1
  BY <1>1, <1>2, NatSetInduction
<1>4. PICK f : Sol(f, 1)
  BY <1>3 DEF G
<1> DEFINE h == [k \in 1..P |-> f[k]]
<1>5. (\A k \in 1..P : h[k] = f[k]) /\ h = [k \in 1..P |-> h[k]]
  OBVIOUS
<1> HIDE DEF h
<1>6. ASSUME NEW k \in 1..P PROVE h[k] = ItemsStep(pat, h, k)
  <2>1. k \in 1..(Len(pat) + 1) /\ \A l \in (k + 1)..(Len(pat) + 1) : f[l] = h[l]
    BY <1>5
  <2>2. QED
    BY <1>4, <1>5, <2>1, ItemsStepSame
<1>7. IsItems(h, pat)
  BY <1>5, <1>6 DEF IsItems
<1>8. QED
  BY <1>7

\* What the pattern describes from each position on.
ItemsFrom(pat) == CHOOSE f : IsItems(f, pat)

LEMMA ItemsAre ==
    ASSUME NEW pat, Len(pat) \in Nat
    PROVE  /\ Items(pat) = ItemsFrom(pat)[1]
           /\ \A i \in 1..(Len(pat) + 1) : ItemsFrom(pat)[i] = ItemsStep(pat, ItemsFrom(pat), i)
<1>1. IsItems(ItemsFrom(pat), pat)
  BY ItemsExist, Zenon DEF ItemsFrom
<1>2. \A i \in 1..(Len(pat) + 1) : ItemsFrom(pat)[i] = ItemsStep(pat, ItemsFrom(pat), i)
  BY <1>1, Zenon DEF IsItems
<1>3. Items(pat) = ItemsFrom(pat)[1]
  BY DEF Items, ItemsFrom, IsItems, ItemsStep
<1>4. QED
  BY <1>2, <1>3

-----------------------------------------------------------------------------
(* The rows of vfs_fnmatch.                                                *)

After(pat, i) == {k \in i..Len(pat) : pat[k] # "*"}

Hits(pat, name, f, i, j) ==
    {t \in StarTargets(j, Len(name)) : f[Min(After(pat, i))][t] # "no"}

RowStep(pat, name, f, i) == [j \in 1..(Len(name) + 2) |-> Answer(pat, name, f, i, j)]

IsRows(f, pat, name) == f = [i \in 1..(Len(pat) + 1) |-> RowStep(pat, name, f, i)]

\* Past a run of "*" the pattern goes on further right.
LEMMA AfterIs ==
    ASSUME NEW pat, Len(pat) \in Nat, NEW i \in 1..(Len(pat) + 1), After(pat, i) # {}
    PROVE  /\ Min(After(pat, i)) \in i..Len(pat) /\ pat[Min(After(pat, i))] # "*"
           /\ \A k \in i..(Min(After(pat, i)) - 1) : pat[k] = "*"
<1> DEFINE S == After(pat, i)
<1>1. S \in SUBSET Nat
  BY DEF After
<1>2. Min(S) \in S /\ \A x \in S : Min(S) <= x
  BY <1>1, MinIs
<1>3. Min(S) \in i..Len(pat) /\ pat[Min(S)] # "*"
  BY <1>2 DEF After
<1>4. ASSUME NEW k \in i..(Min(S) - 1), pat[k] # "*" PROVE FALSE
  <2>1. k \in S /\ k < Min(S)
    BY <1>3, <1>4 DEF After
  <2>2. QED
    BY <1>1, <1>2, <2>1
<1>5. QED
  BY <1>3, <1>4

\* What the answer is made of, case by case.
LEMMA AnswerIs ==
    ASSUME NEW pat, Len(pat) \in Nat, NEW name, NEW f, NEW i, NEW j
    PROVE  /\ j = Len(name) + 2 => Answer(pat, name, f, i, j) = "past"
           /\ j # Len(name) + 2 /\ i > Len(pat) =>
                Answer(pat, name, f, i, j) = IF j = Len(name) + 1 THEN "yes" ELSE "no"
           /\ j # Len(name) + 2 /\ ~ (i > Len(pat)) /\ After(pat, i) = {} =>
                Answer(pat, name, f, i, j) = "yes"
           /\ j # Len(name) + 2 /\ ~ (i > Len(pat)) /\ After(pat, i) # {} /\ pat[i] = "*" =>
                Answer(pat, name, f, i, j) =
                  IF Hits(pat, name, f, i, j) = {} THEN "no"
                  ELSE f[Min(After(pat, i))][Min(Hits(pat, name, f, i, j))]
           /\ j # Len(name) + 2 /\ ~ (i > Len(pat)) /\ After(pat, i) # {} /\ pat[i] = "?" =>
                Answer(pat, name, f, i, j) =
                  IF CharAt(name, j) \notin {"NUL", "/"} THEN f[i + 1][j + 1] ELSE "no"
           /\ j # Len(name) + 2 /\ ~ (i > Len(pat)) /\ After(pat, i) # {} /\ pat[i] = "[" =>
                Answer(pat, name, f, i, j) =
                  IF CharAt(name, j) \in ClassAt(pat, i).chars THEN f[ClassAt(pat, i).next][j + 1]
                  ELSE "no"
           /\ (j # Len(name) + 2 /\ ~ (i > Len(pat)) /\ After(pat, i) # {}
                  /\ pat[i] \notin {"*", "?", "["}) =>
                Answer(pat, name, f, i, j) =
                  IF ToLower(pat[i]) = ToLower(CharAt(name, j)) THEN f[i + 1][j + 1] ELSE "no"
BY DEF Answer, After, Hits

LEMMA AnswerSame ==
    ASSUME NEW pat, Len(pat) \in Nat, NEW name, NEW f, NEW g, NEW i \in 1..(Len(pat) + 1), NEW j,
           \A l \in (i + 1)..(Len(pat) + 1) : f[l] = g[l]
    PROVE  Answer(pat, name, f, i, j) = Answer(pat, name, g, i, j)
<1>1. CASE i > Len(pat) \/ j = Len(name) + 2 \/ After(pat, i) = {}
  BY <1>1, AnswerIs
<1>2. ASSUME ~ (i > Len(pat)), After(pat, i) # {}, j # Len(name) + 2
      PROVE  Answer(pat, name, f, i, j) = Answer(pat, name, g, i, j)
  <2>1. i \in 1..Len(pat)
    BY <1>2
  <2>2. f[i + 1] = g[i + 1] /\ f[ClassAt(pat, i).next] = g[ClassAt(pat, i).next]
    BY <2>1, ClassAtIs
  <2>3. CASE pat[i] = "*"
    <3>1. Min(After(pat, i)) \in (i + 1)..(Len(pat) + 1)
      BY <1>2, <2>1, <2>3, AfterIs
    <3>2. f[Min(After(pat, i))] = g[Min(After(pat, i))]
      BY <3>1
    <3>3. Hits(pat, name, f, i, j) = Hits(pat, name, g, i, j)
      BY <3>2, Zenon DEF Hits
    <3>4. QED
      BY <1>2, <2>3, <3>2, <3>3, AnswerIs
  <2>4. CASE pat[i] = "?"
    BY <1>2, <2>2, <2>4, AnswerIs
  <2>5. CASE pat[i] = "["
    BY <1>2, <2>2, <2>5, AnswerIs
  <2>6. CASE pat[i] \notin {"*", "?", "["}
    BY <1>2, <2>2, <2>6, AnswerIs
  <2>7. QED
    BY <2>3, <2>4, <2>5, <2>6
<1>3. QED
  BY <1>1, <1>2

LEMMA RowStepSame ==
    ASSUME NEW pat, Len(pat) \in Nat, NEW name, NEW f, NEW g, NEW i \in 1..(Len(pat) + 1),
           \A l \in (i + 1)..(Len(pat) + 1) : f[l] = g[l]
    PROVE  RowStep(pat, name, f, i) = RowStep(pat, name, g, i)
<1>1. \A j : Answer(pat, name, f, i, j) = Answer(pat, name, g, i, j)
  BY AnswerSame
<1>2. QED
  BY <1>1, Zenon DEF RowStep

LEMMA RowsExist ==
    ASSUME NEW pat, Len(pat) \in Nat, NEW name
    PROVE  \E f : IsRows(f, pat, name)
<1> DEFINE P == Len(pat) + 1
           Sol(f, lo) == \A k \in lo..P : f[k] = RowStep(pat, name, f, k)
           G == {m \in Nat : m < P => \E f : Sol(f, P - m)}
<1>1. 0 \in G
  <2> DEFINE f == [k \in P..P |-> RowStep(pat, name, <<>>, k)]
  <2>1. \A k \in P..P : k \in 1..P /\ f[k] = RowStep(pat, name, <<>>, k)
    OBVIOUS
  <2> HIDE DEF f
  <2>2. \A k \in P..P : RowStep(pat, name, <<>>, k) = RowStep(pat, name, f, k)
    BY <2>1, RowStepSame
  <2>3. Sol(f, P - 0)
    BY <2>1, <2>2
  <2>4. QED
    BY <2>3
<1>2. ASSUME NEW m \in Nat, m \in G PROVE m + 1 \in G
  <2>1. SUFFICES ASSUME m + 1 < P PROVE \E f : Sol(f, P - (m + 1))
    OBVIOUS
  <2>2. PICK lo : lo = P - m
    OBVIOUS
  <2>3. lo \in 2..P /\ P - (m + 1) = lo - 1 /\ m < P /\ P \in Nat
    BY <2>1, <2>2
  <2>4. PICK f : Sol(f, lo)
    BY <1>2, <2>2, <2>3
  <2> DEFINE g == [k \in (lo - 1)..P |-> IF k >= lo THEN f[k] ELSE RowStep(pat, name, f, lo - 1)]
  <2> HIDE DEF P
  <2>5. \A l \in lo..P : g[l] = f[l]
    BY <2>3
  <2>6. g[lo - 1] = RowStep(pat, name, f, lo - 1)
    BY <2>3
  <2> HIDE DEF g
  <2>7. ASSUME NEW k \in (lo - 1)..P PROVE g[k] = RowStep(pat, name, g, k)
    <3>1. k \in 1..(Len(pat) + 1) /\ \A l \in (k + 1)..(Len(pat) + 1) : f[l] = g[l]
      BY <2>3, <2>5 DEF P
    <3>2. RowStep(pat, name, f, k) = RowStep(pat, name, g, k)
      BY <3>1, RowStepSame
    <3>3. CASE k = lo - 1
      BY <2>6, <3>2, <3>3
    <3>4. CASE k # lo - 1
      <4>1. k \in lo..P
        BY <2>3, <3>4
      <4>2. QED
        BY <2>4, <2>5, <3>2, <4>1
    <3>5. QED
      BY <3>3, <3>4
  <2>8. Sol(g, P - (m + 1))
    BY <2>3, <2>7
  <2>9. QED
    BY <2>8
<1> HIDE DEF G
<1>3. P - 1 \in G /\ P - 1 < P /\ P - (P - 1) = 1
  BY <1>1, <1>2, NatSetInduction
<1>4. PICK f : Sol(f, 1)
  BY <1>3 DEF G
<1> DEFINE h == [k \in 1..P |-> f[k]]
<1>5. (\A k \in 1..P : h[k] = f[k]) /\ h = [k \in 1..P |-> h[k]]
  OBVIOUS
<1> HIDE DEF h
<1>6. ASSUME NEW k \in 1..P PROVE h[k] = RowStep(pat, name, h, k)
  <2>1. k \in 1..(Len(pat) + 1) /\ \A l \in (k + 1)..(Len(pat) + 1) : f[l] = h[l]
    BY <1>5
  <2>2. QED
    BY <1>4, <1>5, <2>1, RowStepSame
<1>7. IsRows(h, pat, name)
  BY <1>5, <1>6 DEF IsRows
<1>8. QED
  BY <1>7

\* The answers from each position of the pattern on.
RowsOf(pat, name) == CHOOSE f : IsRows(f, pat, name)

LEMMA RowsAre ==
    ASSUME NEW pat, Len(pat) \in Nat, NEW name
    PROVE  /\ Fnmatch(pat, name) = RowsOf(pat, name)[1][1]
           /\ \A i \in 1..(Len(pat) + 1) : \A j \in 1..(Len(name) + 2) :
                RowsOf(pat, name)[i][j] = Answer(pat, name, RowsOf(pat, name), i, j)
<1> DEFINE m == RowsOf(pat, name)
<1>1. IsRows(m, pat, name)
  BY RowsExist, Zenon DEF RowsOf
<1>2. Fnmatch(pat, name) = m[1][1]
  BY DEF Fnmatch, RowsOf, IsRows, RowStep
<1> HIDE DEF m
<1>3. \A i \in 1..(Len(pat) + 1) : m[i] = RowStep(pat, name, m, i)
  BY <1>1, Zenon DEF IsRows
<1>4. \A i \in 1..(Len(pat) + 1) : \A j \in 1..(Len(name) + 2) :
        m[i][j] = Answer(pat, name, m, i, j)
  BY <1>3, Zenon DEF RowStep
<1>5. QED
  BY <1>2, <1>4 DEF m

-----------------------------------------------------------------------------
(* The answers of vfs_fnmatch are right.                                   *)

\* From position i on, what the pattern describes and what vfs_fnmatch
\* answers about the name agree.
Right(pat, name, i) ==
    \A j \in 1..(Len(name) + 1) :
        RowsOf(pat, name)[i][j] \in {IF Fits(ItemsFrom(pat)[i], j, name) THEN "yes" ELSE "no", "past"}

\* A run of "*" can be followed by what comes after it anywhere further
\* right, but at the end of the name.
StarsRight(pat, name, i) ==
    \A j \in 1..(Len(name) + 1) :
        Fits(ItemsFrom(pat)[i], j, name) <=>
          \/ After(pat, i) = {}
          \/ \E t \in j..Len(name) : Fits(ItemsFrom(pat)[Min(After(pat, i))], t, name)

Fine(pat, name, i) ==
    /\ ItemsFrom(pat)[i] \in Seq(ItemSet)
    /\ i <= Len(pat) /\ pat[i] = "*" => StarsRight(pat, name, i)
    /\ Right(pat, name, i)

LEMMA AtEnd ==
    ASSUME NEW pat \in Seq(Char), NEW name \in Seq(Char)
    PROVE  Fine(pat, name, Len(pat) + 1)
<1> DEFINE i == Len(pat) + 1
<1>1. Len(pat) \in Nat /\ Len(name) \in Nat /\ i \in 1..(Len(pat) + 1) /\ i > Len(pat) /\ ~ (i <= Len(pat))
  OBVIOUS
<1>2. ItemsFrom(pat)[i] = <<>>
  BY <1>1, ItemsAre DEF ItemsStep
<1>3. ASSUME NEW j \in 1..(Len(name) + 1)
      PROVE  RowsOf(pat, name)[i][j] = IF j = Len(name) + 1 THEN "yes" ELSE "no"
  <2>1. j \in 1..(Len(name) + 2) /\ j # Len(name) + 2
    BY <1>1
  <2>2. RowsOf(pat, name)[i][j] = Answer(pat, name, RowsOf(pat, name), i, j)
    BY <1>1, <2>1, RowsAre
  <2>3. QED
    BY <1>1, <2>1, <2>2, AnswerIs
<1> HIDE DEF i
<1>4. \A j \in 1..(Len(name) + 1) : Fits(ItemsFrom(pat)[i], j, name) <=> j = Len(name) + 1
  BY <1>1, <1>2, FitsEmpty
<1>5. Right(pat, name, i)
  BY <1>3, <1>4 DEF Right
<1>6. <<>> \in Seq(ItemSet)
  OBVIOUS
<1>7. Fine(pat, name, i)
  BY <1>1, <1>2, <1>5, <1>6 DEF Fine
<1>8. QED
  BY <1>7 DEF i

\* What is not a "*" cannot be followed where the name ends.
LEMMA NoneAtEnd ==
    ASSUME NEW pat \in Seq(Char), NEW name \in Seq(Char), NEW i \in 1..Len(pat), pat[i] # "*",
           \A l \in (i + 1)..(Len(pat) + 1) : Fine(pat, name, l)
    PROVE  /\ ItemsFrom(pat)[i] = <<ItemAt(pat, i)>> \o ItemsFrom(pat)[NextAt(pat, i)]
           /\ ItemsFrom(pat)[i] \in Seq(ItemSet)
           /\ \A j \in 1..(Len(name) + 1) :
                Fits(ItemsFrom(pat)[i], j, name) <=>
                  /\ j <= Len(name) /\ name[j] \in ItemAt(pat, i)
                  /\ Fits(ItemsFrom(pat)[NextAt(pat, i)], j + 1, name)
<1> DEFINE x == ItemAt(pat, i)
           r == ItemsFrom(pat)[NextAt(pat, i)]
<1>1. Len(pat) \in Nat /\ Len(name) \in Nat /\ i \in 1..(Len(pat) + 1)
  OBVIOUS
<1>2. x \in SUBSET Letters /\ NextAt(pat, i) \in (i + 1)..(Len(pat) + 1)
  BY <1>1, ItemAtIs
<1>3. r \in Seq(ItemSet) /\ x \in ItemSet
  BY <1>2 DEF Fine, ItemSet
<1>4. ItemsFrom(pat)[i] = <<x>> \o r
  <2>1. ItemsFrom(pat)[i] = ItemsStep(pat, ItemsFrom(pat), i)
    BY <1>1, ItemsAre
  <2>2. QED
    BY <1>1, <2>1, ItemsStepIs, Zenon
<1> HIDE DEF x, r
<1>5. <<x>> \o r \in Seq(ItemSet)
  BY <1>3
<1>6. \A j \in 1..(Len(name) + 1) :
        Fits(<<x>> \o r, j, name) <=> j <= Len(name) /\ name[j] \in x /\ Fits(r, j + 1, name)
  BY <1>1, <1>2, <1>3, FitsOne
<1>7. QED
  BY <1>4, <1>5, <1>6 DEF x, r

\* One character, and the rest.
LEMMA OneFine ==
    ASSUME NEW pat \in Seq(Char), NEW name \in Seq(Char), NEW i \in 1..Len(pat), pat[i] # "*",
           \A l \in (i + 1)..(Len(pat) + 1) : Fine(pat, name, l)
    PROVE  Fine(pat, name, i)
<1> DEFINE x == ItemAt(pat, i)
           next == NextAt(pat, i)
           m == RowsOf(pat, name)
<1>1. Len(pat) \in Nat /\ Len(name) \in Nat /\ i \in 1..(Len(pat) + 1) /\ ~ (i > Len(pat))
      /\ pat[i] \in Char
  OBVIOUS
<1>2. next \in (i + 1)..(Len(pat) + 1) /\ x \subseteq Letters
  BY <1>1, ItemAtIs
<1>3. Right(pat, name, next)
  BY <1>2 DEF Fine
<1>4. i \in After(pat, i)
  BY DEF After
<1>5. ASSUME NEW j \in 1..(Len(name) + 1)
      PROVE  m[i][j] = IF CharAt(name, j) \in x THEN m[next][j + 1] ELSE "no"
  <2>1. j \in 1..(Len(name) + 2) /\ j # Len(name) + 2 /\ After(pat, i) # {}
    BY <1>1, <1>4
  <2>2. m[i][j] = Answer(pat, name, m, i, j)
    BY <1>1, <2>1, RowsAre
  <2>3. CharAt(name, j) \in Letters
    BY AsciiIs DEF CharAt, Char, Letters
  <2>4. CASE pat[i] = "?"
    <3>1. m[i][j] = IF CharAt(name, j) \notin {"NUL", "/"} THEN m[i + 1][j + 1] ELSE "no"
      BY <1>1, <2>1, <2>2, <2>4, AnswerIs
    <3>2. x = Letters \ {"NUL", "/"} /\ next = i + 1
      BY <2>4 DEF ItemAt, NextAt
    <3>3. QED
      BY <2>3, <3>1, <3>2
  <2>5. CASE pat[i] = "["
    <3>1. m[i][j] = IF CharAt(name, j) \in ClassAt(pat, i).chars THEN m[ClassAt(pat, i).next][j + 1]
                    ELSE "no"
      BY <1>1, <2>1, <2>2, <2>5, AnswerIs
    <3>2. QED
      BY <2>5, <3>1 DEF ItemAt, NextAt
  <2>6. CASE pat[i] \notin {"*", "?", "["}
    <3>1. m[i][j] = IF ToLower(pat[i]) = ToLower(CharAt(name, j)) THEN m[i + 1][j + 1] ELSE "no"
      <4>1. Answer(pat, name, m, i, j) = IF ToLower(pat[i]) = ToLower(CharAt(name, j)) THEN m[i + 1][j + 1] ELSE "no"
        BY ONLY <1>1, <2>1, <2>6, AnswerIs
      <4>2. QED
        BY <2>2, <4>1, Zenon
    <3>2. x = {c \in Letters : ToLower(c) = ToLower(pat[i])} /\ next = i + 1
      BY <2>6 DEF ItemAt, NextAt
    <3>3. QED
      BY <2>3, <3>1, <3>2
  <2>7. QED
    BY <2>4, <2>5, <2>6
<1>6. /\ ItemsFrom(pat)[i] \in Seq(ItemSet)
      /\ \A j \in 1..(Len(name) + 1) :
           Fits(ItemsFrom(pat)[i], j, name) <=>
             j <= Len(name) /\ name[j] \in x /\ Fits(ItemsFrom(pat)[next], j + 1, name)
  BY NoneAtEnd
<1>7. m[next][Len(name) + 2] = "past"
  <2>1. Len(name) + 2 \in 1..(Len(name) + 2) /\ next \in 1..(Len(pat) + 1)
    BY <1>1, <1>2
  <2>2. m[next][Len(name) + 2] = Answer(pat, name, m, next, Len(name) + 2)
    BY <1>1, <2>1, RowsAre
  <2>3. QED
    BY <1>1, <2>2, AnswerIs
<1> HIDE DEF x, next, m
<1>8. ASSUME NEW j \in 1..(Len(name) + 1)
      PROVE  m[i][j] \in {IF Fits(ItemsFrom(pat)[i], j, name) THEN "yes" ELSE "no", "past"}
  <2>1. CASE j = Len(name) + 1
    <3>1. ~ Fits(ItemsFrom(pat)[i], j, name)
      BY <1>1, <1>6, <2>1
    <3>2. m[i][j] \in {"no", "past"}
      BY <1>1, <1>5, <1>7, <2>1
    <3>3. QED
      BY <3>1, <3>2
  <2>2. CASE j <= Len(name)
    <3>1. CharAt(name, j) = name[j] /\ j + 1 \in 1..(Len(name) + 1)
      BY <2>2 DEF CharAt
    <3>2. m[next][j + 1] \in {IF Fits(ItemsFrom(pat)[next], j + 1, name) THEN "yes" ELSE "no", "past"}
      BY <1>3, <3>1 DEF Right, m
    <3>3. CASE name[j] \in x
      <4>1. Fits(ItemsFrom(pat)[i], j, name) <=> Fits(ItemsFrom(pat)[next], j + 1, name)
        BY <1>6, <2>2, <3>3
      <4>2. m[i][j] = m[next][j + 1]
        BY <1>5, <3>1, <3>3
      <4>3. QED
        BY <3>2, <4>1, <4>2
    <3>4. CASE name[j] \notin x
      <4>1. ~ Fits(ItemsFrom(pat)[i], j, name)
        BY <1>6, <3>4
      <4>2. m[i][j] = "no"
        BY <1>5, <3>1, <3>4
      <4>3. QED
        BY <4>1, <4>2
    <3>5. QED
      BY <3>3, <3>4
  <2>3. QED
    BY <1>1, <2>1, <2>2
<1>9. QED
  BY <1>6, <1>8 DEF Fine, Right, m

\* A "*", and the rest.
LEMMA StarFine ==
    ASSUME NEW pat \in Seq(Char), NEW name \in Seq(Char), NEW i \in 1..Len(pat), pat[i] = "*",
           \A l \in (i + 1)..(Len(pat) + 1) : Fine(pat, name, l)
    PROVE  Fine(pat, name, i)
<1> DEFINE n == Len(name)
           its == ItemsFrom(pat)
           r == its[i + 1]
           m == RowsOf(pat, name)
           A == After(pat, i)
           q == Min(A)
<1>1. Len(pat) \in Nat /\ n \in Nat /\ i \in 1..(Len(pat) + 1) /\ ~ (i > Len(pat))
      /\ i + 1 \in (i + 1)..(Len(pat) + 1) /\ i + 1 \in 1..(Len(pat) + 1)
  OBVIOUS
<1>2. r \in Seq(ItemSet)
  BY <1>1 DEF Fine
<1>3. its[i] = <<{"any"}>> \o r
  <2>1. its[i] = ItemsStep(pat, its, i)
    BY <1>1, ItemsAre
  <2>2. QED
    BY <1>1, <2>1, ItemsStepIs, Zenon
<1>4. \A j \in 1..(n + 1) : Fits(its[i], j, name) <=> \E t \in j..(n + 1) : Fits(r, t, name)
  BY <1>1, <1>2, <1>3, FitsAny
<1>5. A = After(pat, i + 1)
  BY <1>1 DEF After
<1>6. A # {} => q \in (i + 1)..Len(pat) /\ pat[q] # "*" /\ (pat[i + 1] # "*" => q = i + 1)
  <2>1. ASSUME A # {} PROVE q \in (i + 1)..Len(pat) /\ pat[q] # "*" /\ (pat[i + 1] # "*" => q = i + 1)
    <3>1. /\ q \in (i + 1)..Len(pat) /\ pat[q] # "*"
          /\ \A k \in (i + 1)..(q - 1) : pat[k] = "*"
      BY <1>1, <1>5, <2>1, AfterIs
    <3>2. QED
      BY <3>1
  <2>2. QED
    BY <2>1
<1>7. StarsRight(pat, name, i)
  <2>1. CASE i = Len(pat)
    <3>1. A = {}
      BY <2>1, <1>1, <1>5 DEF After
    <3>2. r = <<>>
      <4>1. r = ItemsStep(pat, its, i + 1)
        BY <1>1, ItemsAre
      <4>2. i + 1 > Len(pat)
        BY <1>1, <2>1
      <4>3. QED
        BY <4>1, <4>2 DEF ItemsStep
    <3>3. Fits(r, n + 1, name)
      BY <1>1, <3>2, FitsEmpty
    <3>4. QED
      BY <1>1, <1>4, <3>1, <3>3 DEF StarsRight
  <2>2. CASE i < Len(pat) /\ pat[i + 1] = "*"
    <3>1. StarsRight(pat, name, i + 1)
      BY <1>1, <2>2 DEF Fine
    <3>2. \A t \in 1..(n + 1) : Fits(r, t, name) <=> A = {} \/ \E u \in t..n : Fits(its[q], u, name)
      BY <1>5, <3>1 DEF StarsRight
    <3>3. ASSUME NEW j \in 1..(n + 1)
          PROVE  Fits(its[i], j, name) <=> A = {} \/ \E u \in j..n : Fits(its[q], u, name)
      <4>1. CASE A = {}
        <5>1. n + 1 \in j..(n + 1) /\ Fits(r, n + 1, name)
          BY <1>1, <3>2, <4>1
        <5>2. QED
          BY <1>4, <4>1, <5>1
      <4>2. ASSUME A # {}, NEW t \in j..(n + 1), Fits(r, t, name)
            PROVE  \E u \in j..n : Fits(its[q], u, name)
        <5>1. PICK u \in t..n : Fits(its[q], u, name)
          BY <3>2, <4>2
        <5>2. u \in j..n
          BY <1>1
        <5>3. QED
          BY <5>1, <5>2
      <4>3. ASSUME A # {}, NEW u \in j..n, Fits(its[q], u, name)
            PROVE  u \in j..(n + 1) /\ Fits(r, u, name)
        <5>1. u \in 1..(n + 1) /\ u \in u..n /\ u \in j..(n + 1)
          BY <1>1
        <5>2. QED
          BY <3>2, <4>3, <5>1
      <4>4. QED
        BY <1>4, <4>1, <4>2, <4>3
    <3>4. QED
      BY <3>3 DEF StarsRight
  <2>3. CASE i < Len(pat) /\ pat[i + 1] # "*"
    <3>1. i + 1 \in A /\ q = i + 1
      BY <1>1, <1>6, <2>3 DEF After
    <3>2. i + 1 \in 1..Len(pat) /\ \A l \in ((i + 1) + 1)..(Len(pat) + 1) : Fine(pat, name, l)
      BY <1>1, <2>3
    <3>3. ~ Fits(r, n + 1, name)
      <4>1. n + 1 \in 1..(n + 1) /\ ~ (n + 1 <= n)
        BY <1>1
      <4>2. QED
        BY <2>3, <3>2, <4>1, NoneAtEnd
    <3>4. ASSUME NEW j \in 1..(n + 1)
          PROVE  Fits(its[i], j, name) <=> \E t \in j..n : Fits(r, t, name)
      <4>1. \A t : t \in j..(n + 1) <=> t \in j..n \/ t = n + 1
        BY <1>1
      <4>2. QED
        BY <1>4, <3>3, <4>1
    <3>5. QED
      BY <3>1, <3>4 DEF StarsRight
  <2>4. QED
    BY <1>1, <2>1, <2>2, <2>3
<1>8. its[i] \in Seq(ItemSet)
  <2>1. {"any"} \in ItemSet
    BY DEF ItemSet
  <2>2. QED
    BY <1>2, <1>3, <2>1
<1> HIDE DEF A, q
<1>9. ASSUME NEW j \in 1..(n + 1)
      PROVE  m[i][j] \in {IF Fits(its[i], j, name) THEN "yes" ELSE "no", "past"}
  <2>1. Fits(its[i], j, name) <=> A = {} \/ \E t \in j..n : Fits(its[q], t, name)
    BY <1>7 DEF StarsRight, A, q
  <2>2. j \in 1..(n + 2) /\ j # n + 2
    BY <1>1
  <2>3. m[i][j] = Answer(pat, name, m, i, j)
    BY <1>1, <2>2, RowsAre
  <2>4. CASE A = {}
    <3>1. m[i][j] = "yes"
      BY <1>1, <2>2, <2>3, <2>4, AnswerIs DEF A
    <3>2. QED
      BY <2>1, <2>4, <3>1
  <2>5. CASE A # {}
    <3> DEFINE H == Hits(pat, name, m, i, j)
    <3>1. H = {t \in j..n : m[q][t] # "no"}
      BY DEF Hits, StarTargets, A, q
    <3>2. m[i][j] = IF H = {} THEN "no" ELSE m[q][Min(H)]
      BY <1>1, <2>2, <2>3, <2>5, AnswerIs DEF A, q
    <3> HIDE DEF H
    <3>3. \A t \in 1..(n + 1) : m[q][t] \in {IF Fits(its[q], t, name) THEN "yes" ELSE "no", "past"}
      <4>1. q \in (i + 1)..(Len(pat) + 1)
        BY <1>1, <1>6, <2>5
      <4>2. Right(pat, name, q)
        BY <4>1 DEF Fine
      <4>3. QED
        BY <4>2 DEF Right
    <3>4. \A t \in j..n : t \in 1..(n + 1)
      BY <1>1
    <3>5. CASE H = {}
      <4>1. \A t \in j..n : ~ Fits(its[q], t, name)
        BY <3>1, <3>3, <3>4, <3>5
      <4>2. QED
        BY <2>1, <2>5, <3>2, <3>5, <4>1
    <3>6. CASE H # {}
      <4>1. H \in SUBSET Nat
        BY <1>1, <3>1
      <4>2. PICK t : t = Min(H)
        OBVIOUS
      <4>3. t \in H
        BY <3>6, <4>1, <4>2, MinIs
      <4>4. t \in j..n /\ m[q][t] # "no" /\ t \in 1..(n + 1)
        BY <3>1, <3>4, <4>3
      <4>5. m[i][j] = m[q][t]
        BY <3>2, <3>6, <4>2
      <4>6. m[q][t] = "past" \/ (m[q][t] = "yes" /\ Fits(its[q], t, name))
        BY <3>3, <4>4
      <4>7. m[q][t] = "yes" => Fits(its[i], j, name)
        BY <2>1, <4>4, <4>6
      <4>8. QED
        BY <4>5, <4>6, <4>7
    <3>7. QED
      BY <3>5, <3>6
  <2>6. QED
    BY <2>4, <2>5
<1>10. Right(pat, name, i)
  BY <1>9 DEF Right
<1>11. QED
  BY <1>1, <1>7, <1>8, <1>10 DEF Fine

\* From the end of the pattern to its start.
LEMMA AllFine ==
    ASSUME NEW pat \in Seq(Char), NEW name \in Seq(Char)
    PROVE  Fine(pat, name, 1)
<1> DEFINE P == Len(pat) + 1
           G == {d \in Nat : \A i \in 1..P : i >= P - d => Fine(pat, name, i)}
<1>1. Len(pat) \in Nat /\ P \in Nat
  OBVIOUS
<1>2. 0 \in G
  <2>1. \A i \in 1..P : i >= P - 0 => i = P
    BY <1>1
  <2>2. QED
    BY <2>1, AtEnd
<1>3. ASSUME NEW d \in Nat, d \in G PROVE d + 1 \in G
  <2>1. ASSUME NEW i \in 1..P, i >= P - (d + 1) PROVE Fine(pat, name, i)
    <3>1. CASE i >= P - d
      BY <1>3, <3>1
    <3>2. CASE i < P - d
      <4>1. i \in 1..Len(pat) /\ \A l \in (i + 1)..P : l \in 1..P /\ l >= P - d
        BY <1>1, <2>1, <3>2
      <4>2. \A l \in (i + 1)..(Len(pat) + 1) : Fine(pat, name, l)
        BY <1>3, <4>1
      <4>3. QED
        BY <4>1, <4>2, OneFine, StarFine
    <3>3. QED
      BY <1>1, <2>1, <3>1, <3>2
  <2>2. QED
    BY <2>1
<1> HIDE DEF G
<1>4. Len(pat) \in G /\ 1 \in 1..P /\ 1 >= P - Len(pat)
  BY <1>1, <1>2, <1>3, NatSetInduction
<1>5. QED
  BY <1>4 DEF G

LEMMA MatchesIs ==
    ASSUME NEW pat, NEW name
    PROVE  Matches(pat, name) <=> Fits(Items(pat), 1, name)
BY DEF Matches, Fits, Piece

\* For any pattern and any name, however long: if vfs_fnmatch stays within
\* the name, it answers what the pattern describes.
THEOREM FnmatchExact ==
    ASSUME NEW pat \in Seq(Char), NEW name \in Seq(Char)
    PROVE  Fnmatch(pat, name) \in {IF Matches(pat, name) THEN "yes" ELSE "no", "past"}
<1>1. Len(pat) \in Nat /\ Len(name) \in Nat /\ 1 \in 1..(Len(name) + 1)
  OBVIOUS
<1>2. RowsOf(pat, name)[1][1] \in {IF Fits(ItemsFrom(pat)[1], 1, name) THEN "yes" ELSE "no", "past"}
  BY <1>1, AllFine DEF Fine, Right
<1>3. Fnmatch(pat, name) = RowsOf(pat, name)[1][1] /\ Items(pat) = ItemsFrom(pat)[1]
  BY <1>1, RowsAre, ItemsAre
<1>4. QED
  BY <1>2, <1>3, MatchesIs

\* vfs_fnmatch matches exactly the names its pattern describes, as long as
\* it stays within the name: GlobExact, whatever bounds the inputs.
THEOREM GlobAlwaysExact == Tries => GlobExact
<1> SUFFICES ASSUME Tries, tried[1] = "pattern", NEW name \in Strings(NameChars, NameLen)
             PROVE  Fnmatch(tried[2], name) \in
                      {IF Matches(tried[2], name) THEN "yes" ELSE "no", "past"}
  BY DEF GlobExact
<1>1. PICK p \in Strings(PatternChars, PatternLen) : tried = <<"pattern", p>>
  BY DEF Tries, NotTried
<1>2. /\ PatternChars \subseteq Char /\ NameChars \subseteq Char
  BY AsciiIs DEF PatternChars, NameChars, Char
<1>3. p \in Seq(Char) /\ name \in Seq(Char)
  BY <1>2, PathAssumption DEF Strings
<1>4. tried[2] = p
  BY <1>1
<1>5. QED
  BY <1>3, <1>4, FnmatchExact

=============================================================================
