------------------------ MODULE VacancyFilter_proofs ------------------------
(***************************************************************************)
(* The filter, for every alphabet, vacancy and text of any length.         *)
(*                                                                         *)
(* What the recursive functions Split, NonEmpty and Join compute is found  *)
(* by induction.  The library states induction for an operator P(_), which *)
(* the provers cannot instantiate; it is restated here for a set (the n    *)
(* for which something holds) and rests on the least element of a set of   *)
(* naturals (WFMin).                                                       *)
(***************************************************************************)
EXTENDS VacancyFilter, SequenceTheorems, WellFoundedInduction, TLAPS

-----------------------------------------------------------------------------
(* Induction and recursion                                                 *)

Less == {p \in Nat \X Nat : p[1] < p[2]}

LEMMA LessIsWellFounded == IsWellFoundedOn(Less, Nat)
<1>1. OpToRel(<, Nat) = Less
  BY DEF OpToRel, Less
<1>. QED
  BY <1>1, NatLessThanWellFounded

\* A set that has 0 and the successors of its members has every natural number.
LEMMA SetInduction ==
  ASSUME NEW T, 0 \in T, \A n \in Nat : n \in T => n + 1 \in T
  PROVE  \A n \in Nat : n \in T
<1> DEFINE Bad == Nat \ T
<1> SUFFICES ASSUME Bad # {} PROVE FALSE
  OBVIOUS
<1>1. PICK x \in Bad : \A y \in Bad : ~ (<<y, x>> \in Less)
  <2>1. Bad \subseteq Nat
    OBVIOUS
  <2> HIDE DEF Bad
  <2>. QED
    BY <2>1, LessIsWellFounded, WFMin
<1>2. x # 0 /\ x - 1 \in Nat
  OBVIOUS
<1>3. <<x - 1, x>> \in Less
  BY <1>2 DEF Less
<1>4. x - 1 \in T
  BY <1>1, <1>2, <1>3
<1>. QED
  BY <1>2, <1>4

\* The same for sequences, built by Append.
LEMMA SeqInduction ==
  ASSUME NEW S, NEW T, <<>> \in T,
         \A s \in Seq(S), e \in S : s \in T => Append(s, e) \in T
  PROVE  \A s \in Seq(S) : s \in T
<1> DEFINE Long == {n \in Nat : \A s \in Seq(S) : Len(s) = n => s \in T}
<1>1. 0 \in Long
  <2>1. \A s \in Seq(S) : Len(s) = 0 => s = <<>>
    BY EmptySeq
  <2>. QED
    BY <2>1
<1>2. ASSUME NEW n \in Nat, n \in Long PROVE n + 1 \in Long
  <2> SUFFICES ASSUME NEW s \in Seq(S), Len(s) = n + 1 PROVE s \in T
    OBVIOUS
  <2>1. s # <<>>
    OBVIOUS
  <2>2. PICK q \in Seq(S), e \in S : s = Append(q, e)
    BY <2>1, SequenceEmptyOrAppend
  <2>3. Len(q) = n
    BY <2>2
  <2>. QED
    BY <1>2, <2>2, <2>3
<1>3. \A n \in Nat : n \in Long
  <2> HIDE DEF Long
  <2>. QED
    BY <1>1, <1>2, SetInduction
<1>. QED
  BY <1>3

\* Two functions that begin alike and go on alike are alike.
Alike(f, g, N) == f[0] = g[0] /\ \A n \in 1..N : f[n-1] = g[n-1] => f[n] = g[n]

LEMMA Agree ==
  ASSUME NEW N \in Nat, NEW f, NEW g, Alike(f, g, N)
  PROVE  \A n \in 0..N : f[n] = g[n]
<1> USE DEF Alike
<1> DEFINE T == {n \in Nat : n <= N => f[n] = g[n]}
<1>1. 0 \in T
  OBVIOUS
<1>2. \A n \in Nat : n \in T => n + 1 \in T
  <2> SUFFICES ASSUME NEW n \in Nat, n \in T, n + 1 <= N PROVE f[n + 1] = g[n + 1]
    OBVIOUS
  <2>1. n + 1 \in 1..N /\ (n + 1) - 1 = n
    OBVIOUS
  <2>. QED
    BY <2>1
<1>3. \A n \in Nat : n \in T
  <2> HIDE DEF T
  <2>. QED
    BY <1>1, <1>2, SetInduction
<1>. QED
  BY <1>3

\* Recursion along 0..N has a result when each step leads from S to S.
Steps(G, S, N) == G \in [S \X (1..N) -> S]
Run(f, G, b, S, N) ==
    f \in [0..N -> S] /\ f[0] = b /\ \A n \in 1..N : f[n] = G[<<f[n-1], n>>]

LEMMA Recursion ==
  ASSUME NEW S, NEW b \in S, NEW N \in Nat, NEW G, Steps(G, S, N)
  PROVE  \E f : Run(f, G, b, S, N)
<1> USE DEF Steps, Run
<1> DEFINE Begun(f, n) == f[0] = b /\ \A m \in 1..n : f[m] = G[<<f[m-1], m>>]
           T == {n \in Nat : n <= N => \E f \in [0..n -> S] : Begun(f, n)}
<1>1. 0 \in T
  <2>1. Begun([m \in 0..0 |-> b], 0) /\ [m \in 0..0 |-> b] \in [0..0 -> S]
    OBVIOUS
  <2>. QED
    BY <2>1
<1>2. \A n \in Nat : n \in T => n + 1 \in T
  <2> SUFFICES ASSUME NEW n \in Nat, n \in T, n + 1 <= N
               PROVE  \E f \in [0..(n + 1) -> S] : Begun(f, n + 1)
    OBVIOUS
  <2>1. PICK f \in [0..n -> S] : Begun(f, n)
    OBVIOUS
  <2>2. G[<<f[n], n + 1>>] \in S
    BY <2>1
  <2> DEFINE h == [m \in 0..(n + 1) |-> IF m = n + 1 THEN G[<<f[n], n + 1>>] ELSE f[m]]
  <2>3. h \in [0..(n + 1) -> S]
    BY <2>1, <2>2
  <2>4. h[0] = b
    BY <2>1
  <2>5. ASSUME NEW m \in 1..(n + 1) PROVE h[m] = G[<<h[m-1], m>>]
    <3>1. CASE m = n + 1
      <4>1. h[m] = G[<<f[n], n + 1>>] /\ h[m-1] = f[n] /\ m-1 = n
        BY <3>1
      <4>. QED
        BY <3>1, <4>1
    <3>2. CASE m \in 1..n
      <4>1. h[m] = f[m] /\ h[m-1] = f[m-1]
        BY <3>2
      <4>. QED
        BY <2>1, <3>2, <4>1
    <3>. QED
      BY <3>1, <3>2
  <2>. QED
    BY <2>3, <2>4, <2>5
<1>3. \A n \in Nat : n \in T
  <2> HIDE DEF T
  <2>. QED
    BY <1>1, <1>2, SetInduction
<1>4. N \in T
  BY <1>3
<1>5. PICK f \in [0..N -> S] : Begun(f, N)
  BY <1>4
<1>. QED
  BY <1>5

-----------------------------------------------------------------------------
(* What the loops compute                                                  *)

Parts == Seq(Seq(Chars))

LEMMA CutType ==
  ASSUME NEW parts \in Parts \ {<<>>}, NEW c \in Chars, NEW separators
  PROVE  Cut(parts, c, separators) \in Parts \ {<<>>}
<1>1. <<>> \in Seq(Chars) /\ Len(parts) \in 1..Len(parts)
  BY EmptySeq DEF Parts
<1>2. Append(parts, <<>>) \in Parts \ {<<>>}
  BY <1>1, AppendProperties DEF Parts
<1>3. parts[Len(parts)] \in Seq(Chars)
  BY <1>1, ElementOfSeq DEF Parts
<1>4. Append(parts[Len(parts)], c) \in Seq(Chars)
  BY <1>3, AppendProperties
<1>5. [parts EXCEPT ![Len(parts)] = Append(@, c)] \in Parts
  BY <1>1, <1>4, ExceptSeq DEF Parts
<1>6. Len([parts EXCEPT ![Len(parts)] = Append(@, c)]) = Len(parts)
  BY <1>1, <1>4, ExceptSeq DEF Parts
<1>. QED
  BY <1>1, <1>2, <1>5, <1>6 DEF Cut

\* Split goes along the text.
LEMMA SplitRun ==
  ASSUME NEW s \in Seq(Chars), NEW separators
  PROVE  \E f \in [0..Len(s) -> Parts \ {<<>>}] :
            /\ f[0] = << <<>> >>
            /\ \A n \in 1..Len(s) : f[n] = Cut(f[n-1], s[n], separators)
            /\ Split(s, separators) = f[Len(s)]
<1> DEFINE S == Parts \ {<<>>}
           N == Len(s)
           b == << <<>> >>
           G == [p \in S \X (1..N) |-> Cut(p[1], s[p[2]], separators)]
           E(g) == [n \in 0..N |->
                      IF n = 0 THEN << <<>> >> ELSE Cut(g[n-1], s[n], separators)]
           cut == CHOOSE g : g = E(g)
<1>1. N \in Nat /\ b \in S /\ \A n \in 1..N : s[n] \in Chars
  BY EmptySeq, ElementOfSeq DEF Parts
<1>2. Steps(G, S, N)
  BY <1>1, CutType DEF Steps
<1>3. PICK f \in [0..N -> S] :
         f[0] = b /\ \A n \in 1..N : f[n] = G[<<f[n-1], n>>]
  <2> HIDE DEF S, G, N, b
  <2>. QED
    BY <1>1, <1>2, Recursion DEF Run
<1>4. \A n \in 1..N : f[n] = Cut(f[n-1], s[n], separators)
  <2> SUFFICES ASSUME NEW n \in 1..N PROVE f[n] = Cut(f[n-1], s[n], separators)
    OBVIOUS
  <2>1. f[n-1] \in S
    BY <1>1
  <2>. QED
    BY <1>3, <2>1
<1>5. f = E(f)
  <2>1. ASSUME NEW n \in 0..N
        PROVE  f[n] = IF n = 0 THEN << <<>> >> ELSE Cut(f[n-1], s[n], separators)
    BY <1>1, <1>3, <1>4
  <2>2. f = [n \in 0..N |-> f[n]]
    OBVIOUS
  <2>. QED
    BY <2>1, <2>2
<1>6. cut = E(cut)
  <2>1. \E g : g = E(g)
    BY <1>5
  <2> HIDE DEF E
  <2>. QED
    BY <2>1
<1>7. Alike(cut, f, N)
  <2> HIDE DEF cut
  <2>1. \A n \in 0..N : cut[n] = IF n = 0 THEN << <<>> >> ELSE Cut(cut[n-1], s[n], separators)
    BY <1>6
  <2>. QED
    BY <1>1, <1>3, <1>4, <2>1 DEF Alike
<1>8. \A n \in 0..N : cut[n] = f[n]
  <2> HIDE DEF cut, N
  <2>. QED
    BY <1>1, <1>7, Agree
<1>9. Split(s, separators) = cut[N]
  BY DEF Split
<1>10. Split(s, separators) = f[N]
  <2> HIDE DEF cut
  <2>. QED
    BY <1>1, <1>8, <1>9
<1>. QED
  BY <1>3, <1>4, <1>10

LEMMA SplitType ==
  ASSUME NEW s \in Seq(Chars), NEW separators
  PROVE  Split(s, separators) \in Parts /\ Split(s, separators) # <<>>
BY SplitRun

LEMMA SplitEmpty == \A separators : Split(<<>>, separators) = << <<>> >>
<1> TAKE separators
<1>1. <<>> \in Seq(Chars) /\ Len(<<>>) = 0
  BY EmptySeq
<1>. QED
  BY <1>1, SplitRun

LEMMA SplitAppend ==
  ASSUME NEW s \in Seq(Chars), NEW c \in Chars, NEW separators
  PROVE  Split(Append(s, c), separators) = Cut(Split(s, separators), c, separators)
<1> DEFINE q == Append(s, c)
           N == Len(s)
<1>1. q \in Seq(Chars) /\ Len(q) = N + 1 /\ q[N + 1] = c /\ N \in Nat
  BY AppendProperties
<1>2. \A n \in 1..N : q[n] = s[n]
  BY AppendProperties
<1>3. PICK f \in [0..N -> Parts \ {<<>>}] :
         /\ f[0] = << <<>> >>
         /\ \A n \in 1..N : f[n] = Cut(f[n-1], s[n], separators)
         /\ Split(s, separators) = f[N]
  BY SplitRun
<1> HIDE DEF q, N
<1>4. PICK g \in [0..(N + 1) -> Parts \ {<<>>}] :
         /\ g[0] = << <<>> >>
         /\ \A n \in 1..(N + 1) : g[n] = Cut(g[n-1], q[n], separators)
         /\ Split(q, separators) = g[N + 1]
  BY <1>1, SplitRun
<1>5. \A n \in 0..N : f[n] = g[n]
  <2>1. Alike(f, g, N)
    BY <1>1, <1>2, <1>3, <1>4 DEF Alike
  <2>. QED
    BY <1>1, <2>1, Agree
<1>6. g[N + 1] = Cut(g[N], c, separators)
  BY <1>1, <1>4
<1>. QED
  BY <1>1, <1>3, <1>4, <1>5, <1>6 DEF q, N

LEMMA KeepType ==
  ASSUME NEW kept \in Parts, NEW part \in Seq(Chars)
  PROVE  Keep(kept, part) \in Parts
BY AppendProperties DEF Keep, Parts

\* NonEmpty goes along the parts.
LEMMA NonEmptyRun ==
  ASSUME NEW parts \in Parts
  PROVE  \E f \in [0..Len(parts) -> Parts] :
            /\ f[0] = <<>>
            /\ \A n \in 1..Len(parts) : f[n] = Keep(f[n-1], parts[n])
            /\ NonEmpty(parts) = f[Len(parts)]
<1> DEFINE S == Parts
           N == Len(parts)
           b == <<>>
           G == [p \in S \X (1..N) |-> Keep(p[1], parts[p[2]])]
           E(g) == [n \in 0..N |->
                      IF n = 0 THEN <<>> ELSE Keep(g[n-1], parts[n])]
           cut == CHOOSE g : g = E(g)
<1>1. N \in Nat /\ b \in S /\ \A n \in 1..N : parts[n] \in Seq(Chars)
  BY EmptySeq, ElementOfSeq DEF Parts
<1>2. Steps(G, S, N)
  BY <1>1, KeepType DEF Steps
<1>3. PICK f \in [0..N -> S] :
         f[0] = b /\ \A n \in 1..N : f[n] = G[<<f[n-1], n>>]
  <2> HIDE DEF S, G, N, b
  <2>. QED
    BY <1>1, <1>2, Recursion DEF Run
<1>4. \A n \in 1..N : f[n] = Keep(f[n-1], parts[n])
  <2> SUFFICES ASSUME NEW n \in 1..N PROVE f[n] = Keep(f[n-1], parts[n])
    OBVIOUS
  <2>1. f[n-1] \in S
    BY <1>1
  <2>. QED
    BY <1>3, <2>1
<1>5. f = E(f)
  <2>1. ASSUME NEW n \in 0..N
        PROVE  f[n] = IF n = 0 THEN <<>> ELSE Keep(f[n-1], parts[n])
    BY <1>1, <1>3, <1>4
  <2>2. f = [n \in 0..N |-> f[n]]
    OBVIOUS
  <2>. QED
    BY <2>1, <2>2
<1>6. cut = E(cut)
  <2>1. \E g : g = E(g)
    BY <1>5
  <2> HIDE DEF E
  <2>. QED
    BY <2>1
<1>7. Alike(cut, f, N)
  <2> HIDE DEF cut
  <2>1. \A n \in 0..N : cut[n] = IF n = 0 THEN <<>> ELSE Keep(cut[n-1], parts[n])
    BY <1>6
  <2>. QED
    BY <1>1, <1>3, <1>4, <2>1 DEF Alike
<1>8. \A n \in 0..N : cut[n] = f[n]
  <2> HIDE DEF cut, N
  <2>. QED
    BY <1>1, <1>7, Agree
<1>9. NonEmpty(parts) = cut[N]
  BY DEF NonEmpty
<1>10. NonEmpty(parts) = f[N]
  <2> HIDE DEF cut
  <2>. QED
    BY <1>1, <1>8, <1>9
<1>. QED
  BY <1>3, <1>4, <1>10

LEMMA NonEmptyType ==
  ASSUME NEW parts \in Parts
  PROVE  NonEmpty(parts) \in Parts
BY NonEmptyRun

LEMMA NonEmptyEmpty == NonEmpty(<<>>) = <<>>
<1>1. <<>> \in Parts /\ Len(<<>>) = 0
  BY EmptySeq DEF Parts
<1>. QED
  BY <1>1, NonEmptyRun

LEMMA NonEmptyAppend ==
  ASSUME NEW parts \in Parts, NEW part \in Seq(Chars)
  PROVE  NonEmpty(Append(parts, part)) = Keep(NonEmpty(parts), part)
<1> DEFINE q == Append(parts, part)
           N == Len(parts)
<1>1. q \in Parts /\ Len(q) = N + 1 /\ q[N + 1] = part /\ N \in Nat
  BY AppendProperties DEF Parts
<1>2. \A n \in 1..N : q[n] = parts[n]
  BY AppendProperties
<1>3. PICK f \in [0..N -> Parts] :
         /\ f[0] = <<>>
         /\ \A n \in 1..N : f[n] = Keep(f[n-1], parts[n])
         /\ NonEmpty(parts) = f[N]
  BY NonEmptyRun
<1> HIDE DEF q, N
<1>4. PICK g \in [0..(N + 1) -> Parts] :
         /\ g[0] = <<>>
         /\ \A n \in 1..(N + 1) : g[n] = Keep(g[n-1], q[n])
         /\ NonEmpty(q) = g[N + 1]
  BY <1>1, NonEmptyRun
<1>5. \A n \in 0..N : f[n] = g[n]
  <2>1. Alike(f, g, N)
    BY <1>1, <1>2, <1>3, <1>4 DEF Alike
  <2>. QED
    BY <1>1, <2>1, Agree
<1>6. g[N + 1] = Keep(g[N], part)
  BY <1>1, <1>4
<1>. QED
  BY <1>1, <1>3, <1>4, <1>5, <1>6 DEF q, N

LEMMA AttachType ==
  ASSUME NEW s \in Seq(Chars), NEW part \in Seq(Chars)
  PROVE  Attach(s, part) \in Seq(Chars)
<1>1. <<Space>> \in Seq(Chars)
  BY FilterAssumption
<1>. QED
  BY <1>1, ConcatProperties DEF Attach

\* Join goes along the parts.
LEMMA JoinRun ==
  ASSUME NEW parts \in Parts
  PROVE  \E f \in [0..Len(parts) -> Seq(Chars)] :
            /\ f[0] = <<>>
            /\ \A n \in 1..Len(parts) : f[n] = Attach(f[n-1], parts[n])
            /\ Join(parts) = f[Len(parts)]
<1> DEFINE S == Seq(Chars)
           N == Len(parts)
           b == <<>>
           G == [p \in S \X (1..N) |-> Attach(p[1], parts[p[2]])]
           E(g) == [n \in 0..N |->
                      IF n = 0 THEN <<>> ELSE Attach(g[n-1], parts[n])]
           cut == CHOOSE g : g = E(g)
<1>1. N \in Nat /\ b \in S /\ \A n \in 1..N : parts[n] \in Seq(Chars)
  BY EmptySeq, ElementOfSeq DEF Parts
<1>2. Steps(G, S, N)
  BY <1>1, AttachType DEF Steps
<1>3. PICK f \in [0..N -> S] :
         f[0] = b /\ \A n \in 1..N : f[n] = G[<<f[n-1], n>>]
  <2> HIDE DEF S, G, N, b
  <2>. QED
    BY <1>1, <1>2, Recursion DEF Run
<1>4. \A n \in 1..N : f[n] = Attach(f[n-1], parts[n])
  <2> SUFFICES ASSUME NEW n \in 1..N PROVE f[n] = Attach(f[n-1], parts[n])
    OBVIOUS
  <2>1. f[n-1] \in S
    BY <1>1
  <2>. QED
    BY <1>3, <2>1
<1>5. f = E(f)
  <2>1. ASSUME NEW n \in 0..N
        PROVE  f[n] = IF n = 0 THEN <<>> ELSE Attach(f[n-1], parts[n])
    BY <1>1, <1>3, <1>4
  <2>2. f = [n \in 0..N |-> f[n]]
    OBVIOUS
  <2>. QED
    BY <2>1, <2>2
<1>6. cut = E(cut)
  <2>1. \E g : g = E(g)
    BY <1>5
  <2> HIDE DEF E
  <2>. QED
    BY <2>1
<1>7. Alike(cut, f, N)
  <2> HIDE DEF cut
  <2>1. \A n \in 0..N : cut[n] = IF n = 0 THEN <<>> ELSE Attach(cut[n-1], parts[n])
    BY <1>6
  <2>. QED
    BY <1>1, <1>3, <1>4, <2>1 DEF Alike
<1>8. \A n \in 0..N : cut[n] = f[n]
  <2> HIDE DEF cut, N
  <2>. QED
    BY <1>1, <1>7, Agree
<1>9. Join(parts) = cut[N]
  BY DEF Join
<1>10. Join(parts) = f[N]
  <2> HIDE DEF cut
  <2>. QED
    BY <1>1, <1>8, <1>9
<1>. QED
  BY <1>3, <1>4, <1>10

LEMMA JoinType ==
  ASSUME NEW parts \in Parts
  PROVE  Join(parts) \in Seq(Chars)
BY JoinRun

LEMMA JoinEmpty == Join(<<>>) = <<>>
<1>1. <<>> \in Parts /\ Len(<<>>) = 0
  BY EmptySeq DEF Parts
<1>. QED
  BY <1>1, JoinRun

LEMMA JoinAppend ==
  ASSUME NEW parts \in Parts, NEW part \in Seq(Chars)
  PROVE  Join(Append(parts, part)) = Attach(Join(parts), part)
<1> DEFINE q == Append(parts, part)
           N == Len(parts)
<1>1. q \in Parts /\ Len(q) = N + 1 /\ q[N + 1] = part /\ N \in Nat
  BY AppendProperties DEF Parts
<1>2. \A n \in 1..N : q[n] = parts[n]
  BY AppendProperties
<1>3. PICK f \in [0..N -> Seq(Chars)] :
         /\ f[0] = <<>>
         /\ \A n \in 1..N : f[n] = Attach(f[n-1], parts[n])
         /\ Join(parts) = f[N]
  BY JoinRun
<1> HIDE DEF q, N
<1>4. PICK g \in [0..(N + 1) -> Seq(Chars)] :
         /\ g[0] = <<>>
         /\ \A n \in 1..(N + 1) : g[n] = Attach(g[n-1], q[n])
         /\ Join(q) = g[N + 1]
  BY <1>1, JoinRun
<1>5. \A n \in 0..N : f[n] = g[n]
  <2>1. Alike(f, g, N)
    BY <1>1, <1>2, <1>3, <1>4 DEF Alike
  <2>2. N \in Nat
    BY <1>1
  <2>. QED
    BY <2>1, <2>2, Agree
<1>6. g[N + 1] = Attach(g[N], part)
  BY <1>1, <1>4
<1>. QED
  BY <1>1, <1>3, <1>4, <1>5, <1>6 DEF q, N

-----------------------------------------------------------------------------
(* Cutting                                                                 *)

LEMMA ConcatAppend ==
  ASSUME NEW S, NEW x \in Seq(S), NEW y \in Seq(S), NEW e \in S
  PROVE  x \o Append(y, e) = Append(x \o y, e)
<1>1. <<e>> \in Seq(S) /\ x \o y \in Seq(S)
  BY ConcatProperties
<1>2. Append(y, e) = y \o <<e>> /\ Append(x \o y, e) = (x \o y) \o <<e>>
  BY <1>1, AppendIsConcat
<1>. QED
  BY <1>1, <1>2, ConcatAssociative

\* A text without separators stays in one piece.
LEMMA SplitWhole ==
  ASSUME NEW s \in Seq(Chars), NEW separators, \A i \in 1..Len(s) : s[i] \notin separators
  PROVE  Split(s, separators) = <<s>>
<1> DEFINE Plain(q) == \A i \in 1..Len(q) : q[i] \notin separators
           T == {q \in Seq(Chars) : Plain(q) => Split(q, separators) = <<q>>}
<1>1. <<>> \in T
  BY EmptySeq, SplitEmpty
<1>2. ASSUME NEW q \in Seq(Chars), NEW c \in Chars, q \in T
      PROVE  Append(q, c) \in T
  <2>1. /\ Append(q, c) \in Seq(Chars)
        /\ Len(Append(q, c)) = Len(q) + 1
        /\ \A i \in 1..Len(q) : Append(q, c)[i] = q[i]
        /\ Append(q, c)[Len(q) + 1] = c
    BY AppendProperties
  <2> SUFFICES ASSUME Plain(Append(q, c))
               PROVE  Split(Append(q, c), separators) = <<Append(q, c)>>
    BY <2>1
  <2>2. c \notin separators /\ Plain(q)
    BY <2>1
  <2>3. Split(Append(q, c), separators) = Cut(<<q>>, c, separators)
    BY <1>2, <2>2, SplitAppend
  <2>4. [<<q>> EXCEPT ![1] = Append(@, c)] = <<Append(q, c)>>
    OBVIOUS
  <2>. QED
    BY <2>2, <2>3, <2>4 DEF Cut
<1>3. \A q \in Seq(Chars) : q \in T
  <2> HIDE DEF T
  <2>. QED
    BY <1>1, <1>2, SeqInduction
<1>. QED
  BY <1>3

LEMMA ConcatExcept ==
  ASSUME NEW S, NEW x \in Seq(S), NEW y \in Seq(S), y # <<>>, NEW e \in S
  PROVE  [x \o y EXCEPT ![Len(x \o y)] = e] = x \o [y EXCEPT ![Len(y)] = e]
<1> DEFINE m == Len(x)
           n == Len(y)
           xy == x \o y
           z == [y EXCEPT ![n] = e]
           w == [xy EXCEPT ![Len(xy)] = e]
           xz == x \o z
<1>1. m \in Nat /\ n \in Nat /\ n # 0 /\ n \in 1..Len(y)
  BY EmptySeq
<1>2. /\ xy \in Seq(S) /\ Len(xy) = m + n
      /\ \A i \in 1..(m + n) : xy[i] = IF i <= m THEN x[i] ELSE y[i - m]
  BY ConcatProperties
<1>3. z \in Seq(S) /\ Len(z) = n /\ \A j \in 1..n : z[j] = IF j = n THEN e ELSE y[j]
  BY <1>1, ExceptSeq
<1> HIDE DEF z, xy
<1>4. /\ w \in Seq(S) /\ Len(w) = m + n
      /\ \A j \in 1..(m + n) : w[j] = IF j = m + n THEN e ELSE xy[j]
  <2> HIDE DEF m, n
  <2>1. Len(xy) \in 1..Len(xy)
    BY <1>1, <1>2
  <2>. QED
    BY <1>2, <2>1, ExceptSeq
<1>5. /\ xz \in Seq(S) /\ Len(xz) = m + n
      /\ \A i \in 1..(m + n) : xz[i] = IF i <= m THEN x[i] ELSE z[i - m]
  <2>1. /\ xz \in Seq(S) /\ Len(xz) = m + Len(z)
        /\ \A i \in 1..(m + Len(z)) : xz[i] = IF i <= m THEN x[i] ELSE z[i - m]
    BY <1>3, ConcatProperties
  <2>. QED
    BY <1>3, <2>1
<1> HIDE DEF m, n, w, xz
<1>6. ASSUME NEW i \in 1..(m + n) PROVE w[i] = xz[i]
  <2>1. CASE i <= m
    BY <1>1, <1>2, <1>4, <1>5, <2>1
  <2>2. CASE ~ (i <= m)
    <3>1. i - m \in 1..n /\ (i - m = n <=> i = m + n)
      BY <1>1, <2>2
    <3>2. xz[i] = IF i = m + n THEN e ELSE y[i - m]
      BY <1>1, <1>3, <1>5, <2>2, <3>1
    <3>3. w[i] = IF i = m + n THEN e ELSE y[i - m]
      BY <1>1, <1>2, <1>4, <2>2
    <3>. QED
      BY <3>2, <3>3
  <2>. QED
    BY <2>1, <2>2
<1>7. w = xz
  BY <1>4, <1>5, <1>6, SeqEqual
<1>. QED
  BY <1>7 DEF w, z, n, xz, xy

\* What stands before the last part does not matter to the next character.
LEMMA CutConcat ==
  ASSUME NEW x \in Parts, NEW y \in Parts \ {<<>>}, NEW c \in Chars, NEW separators
  PROVE  Cut(x \o y, c, separators) = x \o Cut(y, c, separators)
<1>1. x \in Seq(Seq(Chars)) /\ y \in Seq(Seq(Chars)) /\ y # <<>> /\ <<>> \in Seq(Chars)
  BY EmptySeq DEF Parts
<1>2. x \o Append(y, <<>>) = Append(x \o y, <<>>)
  BY <1>1, ConcatAppend
<1> DEFINE e == Append(y[Len(y)], c)
<1>3. Len(y) \in 1..Len(y) /\ Len(x) \in Nat /\ Len(x \o y) = Len(x) + Len(y)
  BY <1>1, EmptySeq, ConcatProperties
<1>4. y[Len(y)] \in Seq(Chars)
  BY <1>1, <1>3, ElementOfSeq
<1>5. e \in Seq(Chars)
  BY <1>4, AppendProperties
<1>6. (x \o y)[Len(x \o y)] = y[Len(y)]
  <2>1. \A i \in 1..(Len(x) + Len(y)) :
           (x \o y)[i] = IF i <= Len(x) THEN x[i] ELSE y[i - Len(x)]
    BY <1>1, ConcatProperties
  <2>. QED
    BY <1>3, <2>1
<1> HIDE DEF e
<1>7. [x \o y EXCEPT ![Len(x \o y)] = e] = x \o [y EXCEPT ![Len(y)] = e]
  BY <1>1, <1>5, ConcatExcept
<1>. QED
  BY <1>2, <1>6, <1>7 DEF Cut, e

\* A separator between two texts separates their parts.
LEMMA SplitConcat ==
  ASSUME NEW a \in Seq(Chars), NEW b \in Seq(Chars), NEW separators,
         NEW c \in Chars, c \in separators
  PROVE  Split(Append(a, c) \o b, separators) = Split(a, separators) \o Split(b, separators)
<1> DEFINE ac == Append(a, c)
           T == {q \in Seq(Chars) :
                   Split(ac \o q, separators) = Split(a, separators) \o Split(q, separators)}
<1>1. ac \in Seq(Chars) /\ Split(a, separators) \in Parts
  BY AppendProperties, SplitType
<1>2. <<>> \in T
  <2>1. ac \o <<>> = ac /\ <<>> \in Seq(Chars)
    BY <1>1, ConcatEmptySeq, EmptySeq
  <2>2. Split(ac, separators) = Append(Split(a, separators), <<>>)
    BY SplitAppend DEF Cut
  <2>3. Append(Split(a, separators), <<>>) = Split(a, separators) \o << <<>> >>
    BY <1>1, <2>1, AppendIsConcat DEF Parts
  <2>. QED
    BY <2>1, <2>2, <2>3, SplitEmpty
<1>3. ASSUME NEW q \in Seq(Chars), NEW d \in Chars, q \in T
      PROVE  Append(q, d) \in T
  <2> HIDE DEF ac
  <2>1. ac \o Append(q, d) = Append(ac \o q, d) /\ ac \o q \in Seq(Chars)
    BY <1>1, ConcatAppend, ConcatProperties
  <2>2. Split(ac \o Append(q, d), separators)
          = Cut(Split(a, separators) \o Split(q, separators), d, separators)
    <3>1. Split(Append(ac \o q, d), separators) = Cut(Split(ac \o q, separators), d, separators)
      BY <2>1, SplitAppend
    <3>. QED
      BY <1>3, <2>1, <3>1
  <2>3. Split(q, separators) \in Parts \ {<<>>}
    BY SplitType
  <2>4. Cut(Split(a, separators) \o Split(q, separators), d, separators)
          = Split(a, separators) \o Split(Append(q, d), separators)
    <3>1. Split(Append(q, d), separators) = Cut(Split(q, separators), d, separators)
      BY SplitAppend
    <3>. QED
      BY <1>1, <2>3, <3>1, CutConcat
  <2>. QED
    BY <2>2, <2>4, AppendProperties
<1>4. \A q \in Seq(Chars) : q \in T
  <2> HIDE DEF T
  <2>. QED
    BY <1>2, <1>3, SeqInduction
<1>. QED
  BY <1>4

-----------------------------------------------------------------------------
(* Words                                                                   *)

LEMMA WordsType == ASSUME NEW s \in Seq(Chars) PROVE Words(s) \in Parts
BY SplitType, NonEmptyType DEF Words

LEMMA NonEmptyConcat ==
  ASSUME NEW x \in Parts, NEW y \in Parts
  PROVE  NonEmpty(x \o y) = NonEmpty(x) \o NonEmpty(y)
<1> DEFINE T == {q \in Seq(Seq(Chars)) : NonEmpty(x \o q) = NonEmpty(x) \o NonEmpty(q)}
<1>1. x \in Seq(Seq(Chars)) /\ NonEmpty(x) \in Seq(Seq(Chars))
  BY NonEmptyType DEF Parts
<1>2. <<>> \in T
  BY <1>1, EmptySeq, ConcatEmptySeq, NonEmptyEmpty
<1>3. ASSUME NEW q \in Seq(Seq(Chars)), NEW p \in Seq(Chars), q \in T
      PROVE  Append(q, p) \in T
  <2>1. x \o Append(q, p) = Append(x \o q, p) /\ x \o q \in Seq(Seq(Chars))
    BY <1>1, ConcatAppend, ConcatProperties
  <2>2. NonEmpty(x \o Append(q, p)) = Keep(NonEmpty(x \o q), p)
    BY <2>1, NonEmptyAppend DEF Parts
  <2>3. NonEmpty(Append(q, p)) = Keep(NonEmpty(q), p) /\ NonEmpty(q) \in Seq(Seq(Chars))
    BY NonEmptyAppend, NonEmptyType DEF Parts
  <2>4. NonEmpty(x) \o Append(NonEmpty(q), p) = Append(NonEmpty(x) \o NonEmpty(q), p)
    BY <1>1, <2>3, ConcatAppend
  <2>5. NonEmpty(x \o Append(q, p)) = NonEmpty(x) \o NonEmpty(Append(q, p))
    BY <1>3, <2>2, <2>3, <2>4 DEF Keep
  <2>. QED
    BY <2>5, AppendProperties
<1>4. \A q \in Seq(Seq(Chars)) : q \in T
  <2> HIDE DEF T
  <2>. QED
    BY <1>2, <1>3, SeqInduction
<1>. QED
  BY <1>4 DEF Parts

\* The words of two texts with a blank between them.
LEMMA WordsConcat ==
  ASSUME NEW a \in Seq(Chars), NEW b \in Seq(Chars), NEW c \in Blanks \cap Chars
  PROVE  Words(Append(a, c) \o b) = Words(a) \o Words(b)
<1>1. Split(Append(a, c) \o b, Blanks) = Split(a, Blanks) \o Split(b, Blanks)
  BY SplitConcat
<1>2. Split(a, Blanks) \in Parts /\ Split(b, Blanks) \in Parts
  BY SplitType
<1>. QED
  BY <1>1, <1>2, NonEmptyConcat DEF Words

\* One more character: a blank adds no word.
LEMMA WordsBlank ==
  ASSUME NEW s \in Seq(Chars), NEW c \in Chars \cap Blanks
  PROVE  Words(Append(s, c)) = Words(s)
<1>1. Split(s, Blanks) \in Parts /\ <<>> \in Seq(Chars)
  BY SplitType, EmptySeq
<1>2. Split(Append(s, c), Blanks) = Append(Split(s, Blanks), <<>>)
  BY SplitAppend DEF Cut
<1>. QED
  BY <1>1, <1>2, NonEmptyAppend DEF Words, Keep

\* Any other character makes or lengthens one.
LEMMA WordsLetter ==
  ASSUME NEW s \in Seq(Chars), NEW c \in Chars \ Blanks
  PROVE  Words(Append(s, c)) # <<>>
<1> DEFINE x == Split(s, Blanks)
           e == Append(x[Len(x)], c)
           y == [x EXCEPT ![Len(x)] = e]
<1>1. x \in Seq(Seq(Chars)) /\ x # <<>> /\ Len(x) \in 1..Len(x)
  BY SplitType, EmptySeq DEF Parts
<1>2. Split(Append(s, c), Blanks) = y
  BY SplitAppend DEF Cut
<1>3. e \in Seq(Chars) /\ e # <<>>
  <2>1. x[Len(x)] \in Seq(Chars)
    BY <1>1, ElementOfSeq
  <2>. QED
    BY <2>1, AppendProperties
<1> HIDE DEF x, e
<1>4. y \in Seq(Seq(Chars)) /\ Len(y) = Len(x) /\ y[Len(y)] = e /\ y # <<>>
  BY <1>1, <1>3, ExceptSeq, EmptySeq
<1> HIDE DEF y
<1>5. PICK q \in Seq(Seq(Chars)), p \in Seq(Chars) : y = Append(q, p)
  BY <1>4, SequenceEmptyOrAppend
<1>6. p = e
  BY <1>4, <1>5, AppendProperties
<1>7. NonEmpty(y) = Append(NonEmpty(q), e) /\ NonEmpty(q) \in Seq(Seq(Chars))
  BY <1>3, <1>5, <1>6, NonEmptyAppend, NonEmptyType DEF Keep, Parts
<1>8. NonEmpty(y) # <<>>
  BY <1>3, <1>7, AppendProperties
<1>. QED
  BY <1>2, <1>8 DEF Words

\* A text has words exactly when something in it is not blank.
LEMMA WordsExist ==
  ASSUME NEW s \in Seq(Chars)
  PROVE  Words(s) # <<>> <=> \E i \in 1..Len(s) : s[i] \notin Blanks
<1> DEFINE Solid(q) == \E i \in 1..Len(q) : q[i] \notin Blanks
           T == {q \in Seq(Chars) : Words(q) # <<>> <=> Solid(q)}
<1>1. <<>> \in T
  <2>1. Words(<<>>) = <<>>
    <3>1. << <<>> >> = Append(<<>>, <<>>) /\ <<>> \in Parts /\ <<>> \in Seq(Chars)
      BY EmptySeq DEF Parts
    <3>. QED
      BY <3>1, SplitEmpty, NonEmptyAppend, NonEmptyEmpty DEF Words, Keep
  <2>. QED
    BY <2>1, EmptySeq
<1>2. ASSUME NEW q \in Seq(Chars), NEW c \in Chars, q \in T
      PROVE  Append(q, c) \in T
  <2>1. /\ Append(q, c) \in Seq(Chars) /\ Len(q) \in Nat
        /\ Len(Append(q, c)) = Len(q) + 1
        /\ \A i \in 1..Len(q) : Append(q, c)[i] = q[i]
        /\ Append(q, c)[Len(q) + 1] = c
    BY AppendProperties
  <2>2. CASE c \in Blanks
    <3>1. Solid(Append(q, c)) <=> Solid(q)
      BY <2>1, <2>2
    <3>. QED
      BY <1>2, <2>1, <2>2, <3>1, WordsBlank
  <2>3. CASE c \notin Blanks
    <3>1. Solid(Append(q, c))
      BY <2>1, <2>3
    <3>. QED
      BY <2>1, <2>3, <3>1, WordsLetter
  <2>. QED
    BY <2>2, <2>3
<1>3. \A q \in Seq(Chars) : q \in T
  <2> HIDE DEF T
  <2>. QED
    BY <1>1, <1>2, SeqInduction
<1>. QED
  BY <1>3

-----------------------------------------------------------------------------
(* Normalising and joining                                                 *)

LEMMA LowerType ==
  ASSUME NEW s \in Seq(Chars)
  PROVE  /\ normalize_case(s) \in Seq(Chars) /\ Len(normalize_case(s)) = Len(s)
         /\ \A i \in 1..Len(s) : normalize_case(s)[i] = Normal[s[i]]
<1>1. DOMAIN s = 1..Len(s) /\ Len(s) \in Nat /\ \A i \in 1..Len(s) : Normal[s[i]] \in Chars
  BY LenProperties, FilterAssumption
<1>. QED
  BY <1>1 DEF normalize_case

LEMMA LowerConcat ==
  ASSUME NEW a \in Seq(Chars), NEW b \in Seq(Chars)
  PROVE  normalize_case(a \o b) = normalize_case(a) \o normalize_case(b)
<1> DEFINE la == normalize_case(a)
           lb == normalize_case(b)
           lab == normalize_case(a \o b)
<1>1. Len(a) \in Nat /\ Len(b) \in Nat
  OBVIOUS
<1>2. /\ a \o b \in Seq(Chars) /\ Len(a \o b) = Len(a) + Len(b)
      /\ \A i \in 1..(Len(a) + Len(b)) :
            (a \o b)[i] = IF i <= Len(a) THEN a[i] ELSE b[i - Len(a)]
  BY ConcatProperties
<1>3. /\ lab \in Seq(Chars) /\ Len(lab) = Len(a) + Len(b)
      /\ \A i \in 1..(Len(a) + Len(b)) : lab[i] = Normal[(a \o b)[i]]
  BY <1>2, LowerType
<1>4. /\ la \in Seq(Chars) /\ Len(la) = Len(a) /\ \A i \in 1..Len(a) : la[i] = Normal[a[i]]
      /\ lb \in Seq(Chars) /\ Len(lb) = Len(b) /\ \A i \in 1..Len(b) : lb[i] = Normal[b[i]]
  BY LowerType
<1> HIDE DEF la, lb, lab
<1>5. /\ la \o lb \in Seq(Chars) /\ Len(la \o lb) = Len(a) + Len(b)
      /\ \A i \in 1..(Len(a) + Len(b)) :
            (la \o lb)[i] = IF i <= Len(a) THEN la[i] ELSE lb[i - Len(a)]
  <2>1. /\ la \o lb \in Seq(Chars) /\ Len(la \o lb) = Len(la) + Len(lb)
        /\ \A i \in 1..(Len(la) + Len(lb)) :
              (la \o lb)[i] = IF i <= Len(la) THEN la[i] ELSE lb[i - Len(la)]
    BY <1>4, ConcatProperties
  <2>2. Len(la) = Len(a) /\ Len(lb) = Len(b)
    BY <1>4
  <2>. QED
    BY <2>1, <2>2
<1>6. ASSUME NEW i \in 1..(Len(a) + Len(b)) PROVE lab[i] = (la \o lb)[i]
  <2>1. CASE i <= Len(a)
    BY <1>1, <1>2, <1>3, <1>4, <1>5, <2>1
  <2>2. CASE ~ (i <= Len(a))
    <3>1. i - Len(a) \in 1..Len(b)
      BY <1>1, <2>2
    <3>. QED
      BY <1>1, <1>2, <1>3, <1>4, <1>5, <2>2, <3>1
  <2>. QED
    BY <2>1, <2>2
<1>7. lab = la \o lb
  BY <1>3, <1>5, <1>6, SeqEqual
<1>. QED
  BY <1>7 DEF la, lb, lab

\* The words of two texts joined with a space, in lower case.
LEMMA LowerWordsConcat ==
  ASSUME NEW a \in Seq(Chars), NEW b \in Seq(Chars)
  PROVE  LowerWords(a \o <<Space>> \o b) = LowerWords(a) \o LowerWords(b)
<1> DEFINE c == Normal[Space]
<1>1. Space \in Chars /\ <<Space>> \in Seq(Chars) /\ c \in Blanks \cap Chars
  BY FilterAssumption
<1>2. a \o <<Space>> \in Seq(Chars)
  BY <1>1, ConcatProperties
<1>3. normalize_case(<<Space>>) = <<c>>
  BY DEF normalize_case
<1>4. normalize_case(a \o <<Space>>) = normalize_case(a) \o <<c>>
  BY <1>1, <1>3, LowerConcat
<1>5. normalize_case(a) \in Seq(Chars) /\ normalize_case(b) \in Seq(Chars)
  BY LowerType
<1> HIDE DEF c
<1>6. normalize_case(a) \o <<c>> = Append(normalize_case(a), c)
  BY <1>1, <1>5, AppendIsConcat
<1>7. normalize_case(a \o <<Space>> \o b) = Append(normalize_case(a), c) \o normalize_case(b)
  BY <1>2, <1>4, <1>6, LowerConcat
<1>. QED
  <2>1. Words(Append(normalize_case(a), c) \o normalize_case(b))
          = Words(normalize_case(a)) \o Words(normalize_case(b))
    BY <1>1, <1>5, WordsConcat
  <2>. QED
    BY <1>7, <2>1 DEF LowerWords

\* Lower case neither makes nor takes words.
LEMMA LowerWordsExist ==
  ASSUME NEW s \in Seq(Chars), Words(s) # <<>>
  PROVE  LowerWords(s) # <<>>
<1>1. PICK i \in 1..Len(s) : s[i] \notin Blanks
  BY WordsExist
<1>2. s[i] \in Chars
  BY ElementOfSeq
<1>3. normalize_case(s)[i] \notin Blanks
  BY <1>1, <1>2, LowerType, FilterAssumption
<1>4. normalize_case(s) \in Seq(Chars) /\ i \in 1..Len(normalize_case(s))
  BY LowerType
<1>. QED
  BY <1>3, <1>4, WordsExist DEF LowerWords

\* Words joined are not nothing.
LEMMA JoinExists ==
  ASSUME NEW parts \in Parts, NonEmpty(parts) # <<>>
  PROVE  Join(NonEmpty(parts)) # <<>>
<1> DEFINE T == {q \in Seq(Seq(Chars)) : NonEmpty(q) # <<>> => Join(NonEmpty(q)) # <<>>}
<1>1. <<>> \in T
  BY EmptySeq, NonEmptyEmpty
<1>2. ASSUME NEW q \in Seq(Seq(Chars)), NEW p \in Seq(Chars), q \in T
      PROVE  Append(q, p) \in T
  <2>1. NonEmpty(Append(q, p)) = Keep(NonEmpty(q), p) /\ NonEmpty(q) \in Parts
    BY NonEmptyAppend, NonEmptyType DEF Parts
  <2>2. CASE p = <<>>
    BY <1>2, <2>1, <2>2, AppendProperties DEF Keep
  <2>3. CASE p # <<>>
    <3>1. Join(NonEmpty(Append(q, p))) = Attach(Join(NonEmpty(q)), p)
      BY <2>1, <2>3, JoinAppend DEF Keep
    <3>2. Join(NonEmpty(q)) \in Seq(Chars) /\ <<Space>> \in Seq(Chars)
      BY <2>1, JoinType, FilterAssumption
    <3>3. Attach(Join(NonEmpty(q)), p) # <<>>
      BY <2>3, <3>2, ConcatProperties, ConcatEqualIffEmpty DEF Attach
    <3>. QED
      BY <3>1, <3>3, AppendProperties
  <2>. QED
    BY <2>2, <2>3
<1>3. \A q \in Seq(Seq(Chars)) : q \in T
  <2> HIDE DEF T
  <2>. QED
    BY <1>1, <1>2, SeqInduction
<1>. QED
  BY <1>3 DEF Parts

\* More words go behind a space.
LEMMA JoinPrefix ==
  ASSUME NEW u \in Parts, NEW w \in Parts, Join(u) # <<>>
  PROVE  \E z \in Seq(Chars) : /\ Join(u \o w) = Join(u) \o z
                               /\ z = <<>> \/ (Len(z) > 0 /\ z[1] = Space)
<1> DEFINE Behind(z) == z = <<>> \/ (Len(z) > 0 /\ z[1] = Space)
           T == {q \in Seq(Seq(Chars)) :
                   \E z \in Seq(Chars) : Join(u \o q) = Join(u) \o z /\ Behind(z)}
<1>1. u \in Seq(Seq(Chars)) /\ Join(u) \in Seq(Chars) /\ <<Space>> \in Seq(Chars)
  BY JoinType, FilterAssumption DEF Parts
<1>2. <<>> \in T
  <2>1. u \o <<>> = u /\ Join(u) = Join(u) \o <<>> /\ <<>> \in Seq(Chars)
    BY <1>1, ConcatEmptySeq, EmptySeq
  <2>. QED
    BY <2>1, EmptySeq
<1>3. ASSUME NEW q \in Seq(Seq(Chars)), NEW p \in Seq(Chars), q \in T
      PROVE  Append(q, p) \in T
  <2>1. PICK z \in Seq(Chars) : Join(u \o q) = Join(u) \o z /\ Behind(z)
    BY <1>3
  <2>2. u \o Append(q, p) = Append(u \o q, p) /\ u \o q \in Seq(Seq(Chars))
    BY <1>1, ConcatAppend, ConcatProperties
  <2>3. Join(u \o q) # <<>>
    BY <1>1, <2>1, ConcatEqualIffEmpty
  <2>4. Join(u \o Append(q, p)) = (Join(u) \o z) \o <<Space>> \o p
    BY <2>1, <2>2, <2>3, JoinAppend DEF Parts, Attach
  <2> DEFINE y == z \o (<<Space>> \o p)
  <2>5. <<Space>> \o p \in Seq(Chars) /\ y \in Seq(Chars)
    BY <1>1, ConcatProperties
  <2>6. Join(u \o Append(q, p)) = Join(u) \o y
    <3>1. (Join(u) \o z) \o <<Space>> \o p = (Join(u) \o z) \o (<<Space>> \o p)
      BY <1>1, ConcatAssociative, ConcatProperties
    <3>2. (Join(u) \o z) \o (<<Space>> \o p) = Join(u) \o y
      BY <1>1, <2>5, ConcatAssociative
    <3>. QED
      BY <2>4, <3>1, <3>2
  <2>7. Behind(y)
    <3>1. Len(<<Space>> \o p) > 0 /\ (<<Space>> \o p)[1] = Space
      BY <1>1, ConcatProperties
    <3>2. CASE z = <<>>
      BY <2>5, <3>1, <3>2, ConcatEmptySeq
    <3>3. CASE Len(z) > 0 /\ z[1] = Space
      BY <2>5, <3>3, ConcatProperties
    <3>. QED
      BY <2>1, <3>2, <3>3
  <2>8. Append(q, p) \in Seq(Seq(Chars))
    BY AppendProperties
  <2> HIDE DEF y
  <2>. QED
    BY <2>5, <2>6, <2>7, <2>8
<1>4. \A q \in Seq(Seq(Chars)) : q \in T
  <2> HIDE DEF T
  <2>. QED
    BY <1>2, <1>3, SeqInduction
<1>. QED
  BY <1>4 DEF Parts

-----------------------------------------------------------------------------
(* The decision                                                            *)

\* What is stored as the decision is what find_exclusion returns.
DecisionInv ==
    decision # None => decision = find_exclusion(vacancy, parse_excluded_terms(typed), mode)

LEMMA DecisionKept == Spec => []DecisionInv
<1>1. Init => DecisionInv
  BY DEF Init, DecisionInv
<1>2. DecisionInv /\ [Next]_vars => DecisionInv'
  <2> SUFFICES ASSUME DecisionInv, [Next]_vars PROVE DecisionInv'
    OBVIOUS
  <2>1. CASE Decide
    BY <2>1 DEF Decide, DecisionInv
  <2>2. CASE UNCHANGED vars
    BY <2>2 DEF vars, DecisionInv
  <2>. QED
    BY <2>1, <2>2 DEF Next
<1>. QED
  BY <1>1, <1>2, PTL DEF Spec

-----------------------------------------------------------------------------
(* A vacancy whose title is typed in                                       *)

TextInv ==
    /\ typed \in Seq(Chars)
    /\ vacancy.name \in Seq(Chars)
    /\ vacancy.requirement \in Seq(Chars)
    /\ vacancy.responsibility \in Seq(Chars)

LEMMA TextsKept == Spec => []TextInv
<1>1. Init => TextInv
  <2>1. \A n \in Nat : Texts(n) \subseteq Seq(Chars)
    BY SeqDef DEF Texts
  <2>. QED
    BY <2>1, EmptySeq, FilterAssumption DEF Init, TextInv
<1>2. TextInv /\ [Next]_vars => TextInv'
  BY DEF TextInv, Next, Decide, vars
<1>. QED
  BY <1>1, <1>2, PTL DEF Spec

LEMMA NormalType ==
  ASSUME NEW s \in Seq(Chars) PROVE normalize_text(s) \in Seq(Chars)
BY LowerType, WordsType, JoinType DEF normalize_text

\* The text searched begins with the words of the title; what follows is set off.
LEMMA TitleFirst ==
  ASSUME NEW v, v.name \in Seq(Chars), v.requirement \in Seq(Chars),
         v.responsibility \in Seq(Chars), LowerWords(v.name) # <<>>
  PROVE  \E z \in Seq(Chars) : /\ build_vacancy_text(v) = normalize_text(v.name) \o z
                               /\ z = <<>> \/ (Len(z) > 0 /\ z[1] = Space)
<1> DEFINE a == v.name
           rest == v.requirement \o <<Space>> \o v.responsibility
           s == a \o <<Space>> \o v.requirement \o <<Space>> \o v.responsibility
           u == LowerWords(a)
           w == LowerWords(rest)
<1>1. <<Space>> \in Seq(Chars)
  BY FilterAssumption
<1>2. rest \in Seq(Chars) /\ s = a \o <<Space>> \o rest
  <2>1. /\ a \o <<Space>> \in Seq(Chars)
        /\ v.requirement \o <<Space>> \in Seq(Chars)
        /\ rest \in Seq(Chars)
    BY <1>1, ConcatProperties
  <2> DEFINE sp == <<Space>>
             title == a \o <<Space>>
             q == v.requirement
             r == v.responsibility
  <2>2. /\ title \in Seq(Chars) /\ sp \in Seq(Chars)
        /\ q \in Seq(Chars) /\ r \in Seq(Chars)
    BY <1>1, <2>1
  <2> HIDE DEF title, sp, q, r
  <2>3. title \o q \o sp \o r = title \o (q \o sp \o r)
    BY <2>2
  <2>. QED
    BY <2>1, <2>3 DEF title, sp, q, r
<1> HIDE DEF rest, s
<1>3. LowerWords(s) = u \o w
  BY <1>2, LowerWordsConcat
<1>4. u \in Parts /\ w \in Parts
  BY <1>2, LowerType, WordsType DEF LowerWords
<1>5. Join(u) # <<>>
  <2>1. normalize_case(a) \in Seq(Chars)
    BY LowerType
  <2>2. Split(normalize_case(a), Blanks) \in Parts
    BY <2>1, SplitType
  <2>. QED
    BY <2>2, JoinExists DEF LowerWords, Words
<1>6. PICK z \in Seq(Chars) : /\ Join(u \o w) = Join(u) \o z
                              /\ z = <<>> \/ (Len(z) > 0 /\ z[1] = Space)
  BY <1>4, <1>5, JoinPrefix
<1>7. build_vacancy_text(v) = Join(LowerWords(s))
  BY DEF build_vacancy_text, normalize_text, LowerWords, s
<1>8. normalize_text(a) = Join(u)
  BY DEF normalize_text, LowerWords
<1>. QED
  BY <1>3, <1>6, <1>7, <1>8

\* A text at the beginning of another, and set off from what follows, matches.
LEMMA PrefixMatches ==
  ASSUME NEW t \in Seq(Chars), NEW z \in Seq(Chars), NEW m,
         z = <<>> \/ (Len(z) > 0 /\ z[1] = Space)
  PROVE  matches(t \o z, t, m)
<1>1. /\ t \o z \in Seq(Chars) /\ Len(t \o z) = Len(t) + Len(z)
      /\ \A i \in 1..(Len(t) + Len(z)) :
            (t \o z)[i] = IF i <= Len(t) THEN t[i] ELSE z[i - Len(t)]
      /\ Len(t) \in Nat /\ Len(z) \in Nat
  BY ConcatProperties
<1>2. Occurs(t, t \o z, 0)
  <2> DEFINE q == t \o z
             p == SubSeq(q, 1, Len(t))
  <2>1. \A i \in 1..Len(t) : q[i] \in Chars /\ q[i] = t[i]
    BY <1>1, ElementOfSeq
  <2> HIDE DEF q
  <2>2. p \in Seq(Chars) /\ Len(p) = Len(t) /\ \A i \in 1..Len(t) : p[i] = q[i]
    <3>1. /\ p \in Seq(Chars) /\ Len(p) = IF 1 <= Len(t) THEN Len(t) - 1 + 1 ELSE 0
          /\ \A i \in 1..(Len(t) - 1 + 1) : p[i] = q[1 + i - 1]
      BY <1>1, <2>1, SubSeqProperties
    <3>. QED
      BY <1>1, <3>1
  <2> HIDE DEF p
  <2>3. p = t
    BY <2>1, <2>2, SeqEqual
  <2>. QED
    BY <1>1, <2>3 DEF Occurs, p, q
<1>3. ASSUME NEW solid, solid = Word \cup Marks \/ solid = Word
      PROVE  Apart(t, t \o z, 0, solid)
  <2>1. CASE z = <<>>
    <3>1. Len(z) = 0
      BY <2>1
    <3>. QED
      BY <1>1, <3>1 DEF Apart
  <2>2. CASE Len(z) > 0 /\ z[1] = Space
    <3>1. (t \o z)[Len(t) + 1] = Space
      BY <1>1, <2>2
    <3>2. Space \notin solid
      BY <1>3, FilterAssumption
    <3>. QED
      BY <1>1, <3>1, <3>2 DEF Apart
  <2>. QED
    BY <2>1, <2>2
<1>4. 0 \in 0..Len(t \o z)
  BY <1>1
<1>. QED
  BY <1>2, <1>3, <1>4 DEF matches, matches_partial, matches_default_safe

\* Text without a comma is one term, or none when it is blank.
LEMMA OneTerm ==
  ASSUME NEW s \in Seq(Chars), ~ Contains(s, Comma), normalize_text(s) # <<>>
  PROVE  parse_excluded_terms(s) = <<normalize_text(s)>>
<1> DEFINE t == normalize_text(s)
<1>1. \A i \in 1..Len(s) : s[i] \notin {Comma}
  BY DEF Contains
<1>2. Split(s, {Comma}) = <<s>>
  BY <1>1, SplitWhole
<1>3. [i \in DOMAIN <<s>> |-> normalize_text(<<s>>[i])] = <<t>>
  OBVIOUS
<1>4. t \in Seq(Chars) /\ <<>> \in Parts
  BY NormalType, EmptySeq DEF Parts
<1> HIDE DEF t
<1>5. NonEmpty(Append(<<>>, t)) = Keep(NonEmpty(<<>>), t)
  BY <1>4, NonEmptyAppend
<1>6. NonEmpty(<<t>>) = <<t>>
  BY <1>5, NonEmptyEmpty DEF Keep, t
<1>. QED
  BY <1>2, <1>3, <1>6 DEF parse_excluded_terms, t

\* A vacancy whose title was typed in is passed over, in either mode.
THEOREM TitleExcluded == Spec => []TitleIsExcluded
<1>1. DecisionInv /\ TextInv => TitleIsExcluded
  <2> SUFFICES ASSUME DecisionInv, TextInv, Decided, ~ Contains(typed, Comma),
                      Words(typed) # <<>>, LowerWords(vacancy.name) = LowerWords(typed)
               PROVE  decision.is_excluded
    BY DEF TitleIsExcluded
  <2> DEFINE t == normalize_text(typed)
             text == build_vacancy_text(vacancy)
             mm == normalize_exclude_mode(mode)
  <2>1. typed \in Seq(Chars) /\ t \in Seq(Chars)
    BY NormalType DEF TextInv
  <2>2. LowerWords(typed) # <<>>
    BY <2>1, LowerWordsExist
  <2>3. normalize_text(vacancy.name) = t
    BY DEF normalize_text, LowerWords
  <2>4. t # <<>>
    <3>1. Split(normalize_case(typed), Blanks) \in Parts
      BY <2>1, LowerType, SplitType
    <3>. QED
      BY <2>2, <3>1, JoinExists DEF LowerWords, Words, normalize_text
  <2>5. parse_excluded_terms(typed) = <<t>>
    BY <2>1, <2>4, OneTerm
  <2>6. PICK z \in Seq(Chars) : text = t \o z /\ (z = <<>> \/ (Len(z) > 0 /\ z[1] = Space))
    BY <2>2, <2>3, TitleFirst DEF TextInv
  <2>7. matches(text, t, mm)
    BY <2>1, <2>6, PrefixMatches
  <2> HIDE DEF t, text, mm
  <2>8. 1 \in Hits(vacancy, <<t>>, mode)
    BY <2>7 DEF Hits, text, mm
  <2>9. decision = find_exclusion(vacancy, <<t>>, mode)
    BY <2>5 DEF DecisionInv, Decided
  <2>. QED
    BY <2>8, <2>9 DEF find_exclusion
<1>. QED
  BY <1>1, DecisionKept, TextsKept, PTL
-----------------------------------------------------------------------------
(* The parts of a text are its longest stretches without a separator       *)

\* w is in s behind position i, has no separator, and begins where a part begins.
At(w, s, i, separators) ==
    /\ i \in 0..Len(s) /\ i + Len(w) <= Len(s)
    /\ \A j \in 1..Len(w) : s[i + j] = w[j] /\ w[j] \notin separators
    /\ i = 0 \/ s[i] \in separators

\* A part that a separator ends, and the one the text ends with.
Closed(w, s, separators) ==
    \E i \in 0..Len(s) : /\ At(w, s, i, separators)
                         /\ i + Len(w) < Len(s) /\ s[i + Len(w) + 1] \in separators
Open(w, s, separators) == At(w, s, Len(s) - Len(w), separators)

LEMMA AtAppend ==
  ASSUME NEW s \in Seq(Chars), NEW c \in Chars, NEW separators, NEW w \in Seq(Chars),
         NEW i \in Nat, i + Len(w) <= Len(s)
  PROVE  At(w, Append(s, c), i, separators) <=> At(w, s, i, separators)
<1> DEFINE q == Append(s, c)
<1>1. /\ Len(q) = Len(s) + 1 /\ Len(s) \in Nat /\ Len(w) \in Nat
      /\ \A k \in 1..Len(s) : q[k] = s[k]
  BY AppendProperties
<1> HIDE DEF q
<1>2. \A j \in 1..Len(w) : i + j \in 1..Len(s)
  BY <1>1
<1>3. i # 0 => i \in 1..Len(s)
  BY <1>1
<1>4. i \in 0..Len(s) /\ i \in 0..Len(q) /\ i + Len(w) <= Len(q)
  BY <1>1
<1>5. \A j \in 1..Len(w) : q[i + j] = s[i + j]
  BY <1>1, <1>2
<1>6. i # 0 => q[i] = s[i]
  BY <1>1, <1>3
<1>7. At(w, q, i, separators) <=> At(w, s, i, separators)
  BY <1>4, <1>5, <1>6 DEF At
<1>. QED
  BY <1>7 DEF q

LEMMA ClosedAppend ==
  ASSUME NEW s \in Seq(Chars), NEW c \in Chars, NEW separators, NEW w \in Seq(Chars)
  PROVE  Closed(w, Append(s, c), separators)
           <=> Closed(w, s, separators) \/ (c \in separators /\ Open(w, s, separators))
<1> DEFINE q == Append(s, c)
           n == Len(s)
           m == Len(w)
<1>1. /\ Len(q) = n + 1 /\ n \in Nat /\ m \in Nat
      /\ \A k \in 1..n : q[k] = s[k]
      /\ q[n + 1] = c
  BY AppendProperties
<1>2. \A i \in Nat : i + m <= n => (At(w, q, i, separators) <=> At(w, s, i, separators))
  BY AtAppend
<1>3. ASSUME Closed(w, q, separators)
      PROVE  Closed(w, s, separators) \/ (c \in separators /\ Open(w, s, separators))
  <2>1. PICK i \in 0..(n + 1) : /\ At(w, q, i, separators)
                                /\ i + m < n + 1 /\ q[i + m + 1] \in separators
    BY <1>1, <1>3 DEF Closed
  <2>2. i \in Nat /\ i + m <= n /\ i \in 0..n
    BY <1>1, <2>1
  <2>3. At(w, s, i, separators)
    BY <1>2, <2>1, <2>2
  <2>4. CASE i + m = n
    <3>1. i = n - m /\ q[i + m + 1] = c
      BY <1>1, <2>2, <2>4
    <3>. QED
      BY <2>1, <2>3, <3>1 DEF Open
  <2>5. CASE i + m < n
    <3>1. i + m + 1 \in 1..n
      BY <1>1, <2>2, <2>5
    <3>2. s[i + m + 1] \in separators
      BY <1>1, <2>1, <3>1
    <3>. QED
      BY <2>2, <2>3, <2>5, <3>2 DEF Closed
  <2>. QED
    BY <1>1, <2>2, <2>4, <2>5
<1>4. ASSUME Closed(w, s, separators) PROVE Closed(w, q, separators)
  <2>1. PICK i \in 0..n : /\ At(w, s, i, separators)
                          /\ i + m < n /\ s[i + m + 1] \in separators
    BY <1>4 DEF Closed
  <2>2. i \in Nat /\ i + m <= n /\ i + m + 1 \in 1..n /\ i \in 0..Len(q) /\ i + m < Len(q)
    BY <1>1, <2>1
  <2>3. At(w, q, i, separators) /\ q[i + m + 1] \in separators
    BY <1>1, <1>2, <2>1, <2>2
  <2>. QED
    BY <2>2, <2>3 DEF Closed
<1>5. ASSUME c \in separators, Open(w, s, separators) PROVE Closed(w, q, separators)
  <2> DEFINE i == n - m
  <2>1. At(w, s, i, separators)
    BY <1>5 DEF Open
  <2>2. i \in 0..n /\ i + m = n
    BY <1>1, <2>1 DEF At
  <2> HIDE DEF i
  <2>3. i \in Nat /\ i + m <= n /\ i \in 0..Len(q) /\ i + m < Len(q) /\ i + m + 1 = n + 1
    BY <1>1, <2>2
  <2>4. At(w, q, i, separators) /\ q[i + m + 1] \in separators
    BY <1>1, <1>2, <1>5, <2>1, <2>3
  <2>. QED
    BY <2>3, <2>4 DEF Closed
<1>. QED
  BY <1>3, <1>4, <1>5

LEMMA OpenUnique ==
  ASSUME NEW s \in Seq(Chars), NEW separators, NEW w \in Seq(Chars), NEW u \in Seq(Chars),
         Open(w, s, separators), Open(u, s, separators)
  PROVE  w = u
<1> DEFINE n == Len(s)
<1>1. n \in Nat /\ Len(w) \in Nat /\ Len(u) \in Nat
  OBVIOUS
<1>2. ASSUME NEW x \in Seq(Chars), NEW y \in Seq(Chars),
             Open(x, s, separators), Open(y, s, separators)
      PROVE  Len(x) <= Len(y)
  <2> SUFFICES ASSUME Len(y) < Len(x) PROVE FALSE
    OBVIOUS
  <2> DEFINE i == n - Len(x)
             k == n - Len(y)
  <2>1. At(x, s, i, separators) /\ At(y, s, k, separators)
    BY <1>2 DEF Open
  <2>2. i \in 0..n /\ k \in 0..n /\ i < k
    BY <2>1 DEF At
  <2>3. s[k] \in separators
    BY <2>1, <2>2 DEF At
  <2>4. k - i \in 1..Len(x) /\ i + (k - i) = k
    BY <2>2
  <2> HIDE DEF i, k
  <2>5. s[k] = x[k - i] /\ x[k - i] \notin separators
    BY <2>1, <2>4 DEF At
  <2>. QED
    BY <2>3, <2>5
<1>3. Len(w) = Len(u)
  <2>1. Len(w) <= Len(u) /\ Len(u) <= Len(w)
    BY <1>2
  <2>. QED
    BY <1>1, <2>1
<1>4. \A j \in 1..Len(w) : w[j] = u[j]
  BY <1>3 DEF Open, At
<1>. QED
  BY <1>3, <1>4, SeqEqual

LEMMA OpenAppend ==
  ASSUME NEW s \in Seq(Chars), NEW c \in Chars, NEW separators
  PROVE  /\ c \in separators => Open(<<>>, Append(s, c), separators)
         /\ c \notin separators => \A w \in Seq(Chars) :
               Open(w, s, separators) => Open(Append(w, c), Append(s, c), separators)
<1> DEFINE q == Append(s, c)
           n == Len(s)
<1>1. /\ q \in Seq(Chars) /\ Len(q) = n + 1 /\ n \in Nat
      /\ \A k \in 1..n : q[k] = s[k]
      /\ q[n + 1] = c
  BY AppendProperties
<1> HIDE DEF q
<1>2. ASSUME c \in separators PROVE Open(<<>>, q, separators)
  <2>1. Len(<<>>) = 0 /\ Len(q) - 0 = n + 1
    BY <1>1
  <2>. QED
    BY <1>1, <1>2, <2>1 DEF Open, At
<1>3. ASSUME c \notin separators, NEW w \in Seq(Chars), Open(w, s, separators)
      PROVE  Open(Append(w, c), q, separators)
  <2> DEFINE v == Append(w, c)
             m == Len(w)
             i == n - m
  <2>1. /\ v \in Seq(Chars) /\ Len(v) = m + 1 /\ m \in Nat
        /\ \A k \in 1..m : v[k] = w[k]
        /\ v[m + 1] = c
    BY AppendProperties
  <2>2. At(w, s, i, separators)
    BY <1>3 DEF Open
  <2>3. i \in 0..n /\ i + m = n /\ i + Len(v) = n + 1 /\ Len(q) - Len(v) = i
    BY <1>1, <2>1, <2>2 DEF At
  <2>4. \A j \in 1..m : s[i + j] = w[j] /\ w[j] \notin separators
    BY <2>2 DEF At
  <2>5. i = 0 \/ s[i] \in separators
    BY <2>2 DEF At
  <2> HIDE DEF v, i
  <2>6. ASSUME NEW j \in 1..Len(v) PROVE q[i + j] = v[j] /\ v[j] \notin separators
    <3>1. CASE j = m + 1
      <4>1. i + j = n + 1
        BY <2>3, <3>1
      <4>. QED
        BY <1>1, <1>3, <2>1, <3>1, <4>1
    <3>2. CASE j \in 1..m
      <4>1. i + j \in 1..n
        BY <1>1, <2>1, <2>3, <3>2
      <4>. QED
        BY <1>1, <2>1, <2>4, <3>2, <4>1
    <3>. QED
      BY <2>1, <3>1, <3>2
  <2>7. i = 0 \/ q[i] \in separators
    BY <1>1, <2>3, <2>5
  <2>8. i \in 0..Len(q) /\ i + Len(v) <= Len(q)
    BY <1>1, <2>1, <2>3
  <2>9. Open(v, q, separators)
    BY <2>3, <2>6, <2>7, <2>8 DEF Open, At
  <2>. QED
    BY <2>9 DEF v
<1>. QED
  BY <1>2, <1>3 DEF q

LEMMA SplitParts ==
  ASSUME NEW s \in Seq(Chars), NEW separators
  PROVE  LET x == Split(s, separators) IN
         /\ \A w \in Seq(Chars) :
               (\E k \in 1..(Len(x) - 1) : x[k] = w) <=> Closed(w, s, separators)
         /\ Open(x[Len(x)], s, separators)
<1> DEFINE Is(q) == LET x == Split(q, separators) IN
              /\ \A w \in Seq(Chars) :
                    (\E k \in 1..(Len(x) - 1) : x[k] = w) <=> Closed(w, q, separators)
              /\ Open(x[Len(x)], q, separators)
           T == {q \in Seq(Chars) : Is(q)}
<1>1. <<>> \in T
  <2>1. /\ Split(<<>>, separators) = << <<>> >> /\ Len(<< <<>> >>) = 1
        /\ << <<>> >>[1] = <<>> /\ <<>> \in Seq(Chars) /\ Len(<<>>) = 0
    BY SplitEmpty, EmptySeq
  <2>2. Open(<<>>, <<>>, separators)
    BY <2>1 DEF Open, At
  <2>3. \A w \in Seq(Chars) : ~ Closed(w, <<>>, separators)
    BY <2>1 DEF Closed
  <2> DEFINE x == Split(<<>>, separators)
  <2>4. Len(x) = 1 /\ x[Len(x)] = <<>>
    BY <2>1
  <2> HIDE DEF x
  <2>5. \A w \in Seq(Chars) : (\E k \in 1..(Len(x) - 1) : x[k] = w) <=> Closed(w, <<>>, separators)
    BY <2>3, <2>4
  <2>6. Is(<<>>)
    BY <2>2, <2>4, <2>5 DEF x
  <2>. QED
    BY <2>1, <2>6
<1>2. ASSUME NEW q \in Seq(Chars), NEW c \in Chars, q \in T
      PROVE  Append(q, c) \in T
  <2> DEFINE x == Split(q, separators)
             y == Split(Append(q, c), separators)
             n == Len(x)
  <2>1. /\ x \in Seq(Seq(Chars)) /\ n \in Nat \ {0} /\ x[n] \in Seq(Chars)
        /\ Append(q, c) \in Seq(Chars)
    <3>1. x \in Seq(Seq(Chars)) /\ x # <<>>
      BY SplitType DEF Parts
    <3>2. n \in Nat \ {0}
      BY <3>1, EmptySeq
    <3>. QED
      BY <3>1, <3>2, ElementOfSeq, AppendProperties
  <2>2. /\ \A w \in Seq(Chars) : (\E k \in 1..(n - 1) : x[k] = w) <=> Closed(w, q, separators)
        /\ Open(x[n], q, separators)
    BY <1>2
  <2>3. y = Cut(x, c, separators)
    BY SplitAppend
  <2> HIDE DEF x, y
  <2>4. CASE c \in separators
    <3>1. /\ y \in Seq(Seq(Chars)) /\ Len(y) = n + 1 /\ y[n + 1] = <<>>
          /\ \A k \in 1..n : y[k] = x[k]
      BY <2>1, <2>3, <2>4, EmptySeq, AppendProperties DEF Cut
    <3>2. ASSUME NEW w \in Seq(Chars)
          PROVE  (\E k \in 1..n : x[k] = w) <=> Closed(w, Append(q, c), separators)
      <4>1. (\E k \in 1..n : x[k] = w) <=> (\E k \in 1..(n - 1) : x[k] = w) \/ x[n] = w
        BY <2>1
      <4>2. x[n] = w <=> Open(w, q, separators)
        BY <2>1, <2>2, OpenUnique
      <4>. QED
        BY <2>2, <2>4, <4>1, <4>2, ClosedAppend
    <3>3. Open(<<>>, Append(q, c), separators)
      BY <2>4, OpenAppend
    <3>4. Len(y) - 1 = n /\ y[Len(y)] = <<>>
      BY <2>1, <3>1
    <3>5. \A w \in Seq(Chars) : (\E k \in 1..n : y[k] = w) <=> Closed(w, Append(q, c), separators)
      BY <3>1, <3>2
    <3>6. Is(Append(q, c))
      BY <3>3, <3>4, <3>5 DEF y
    <3>. QED
      BY <2>1, <3>6
  <2>5. CASE c \notin separators
    <3> DEFINE e == Append(x[n], c)
    <3>1. e \in Seq(Chars)
      BY <2>1, AppendProperties
    <3>2. Open(e, Append(q, c), separators)
      BY <2>1, <2>2, <2>5, OpenAppend
    <3>3. y = [x EXCEPT ![n] = e]
      BY <2>3, <2>5 DEF Cut
    <3> HIDE DEF e
    <3>4. n \in 1..Len(x)
      BY <2>1
    <3>5. Len(y) = n /\ \A k \in 1..n : y[k] = IF k = n THEN e ELSE x[k]
      BY <2>1, <3>1, <3>3, <3>4, ExceptSeq
    <3>6. y[n] = e /\ \A k \in 1..(n - 1) : y[k] = x[k]
      BY <2>1, <3>5
    <3>7. \A w \in Seq(Chars) :
             (\E k \in 1..(n - 1) : y[k] = w) <=> Closed(w, Append(q, c), separators)
      <4>1. \A w \in Seq(Chars) :
               Closed(w, Append(q, c), separators) <=> Closed(w, q, separators)
        BY <2>5, ClosedAppend
      <4>. QED
        BY <2>2, <3>6, <4>1
    <3>8. Is(Append(q, c))
      BY <3>2, <3>5, <3>6, <3>7 DEF y
    <3>. QED
      BY <2>1, <3>8
  <2>. QED
    BY <2>4, <2>5
<1>3. \A q \in Seq(Chars) : q \in T
  <2> HIDE DEF T
  <2>. QED
    BY <1>1, <1>2, SeqInduction
<1>. QED
  BY <1>3

-----------------------------------------------------------------------------
(* The safe mode and whole words                                           *)

\* A word is one of the parts exactly when it stands in the text between separators.
LEMMA PartsAreFields ==
  ASSUME NEW s \in Seq(Chars), NEW separators, NEW w \in Seq(Chars)
  PROVE  Contains(Split(s, separators), w)
           <=> \E i \in 0..Len(s) :
                  /\ At(w, s, i, separators)
                  /\ i + Len(w) = Len(s) \/ s[i + Len(w) + 1] \in separators
<1> DEFINE x == Split(s, separators)
           n == Len(x)
<1>1. x \in Seq(Seq(Chars)) /\ n \in Nat \ {0} /\ x[n] \in Seq(Chars)
  <2>1. x \in Seq(Seq(Chars)) /\ x # <<>>
    BY SplitType DEF Parts
  <2>2. n \in Nat \ {0}
    BY <2>1, EmptySeq
  <2>. QED
    BY <2>1, <2>2, ElementOfSeq
<1>2. /\ (\E k \in 1..(n - 1) : x[k] = w) <=> Closed(w, s, separators)
      /\ Open(x[n], s, separators)
  BY SplitParts
<1> HIDE DEF x
<1>3. Contains(x, w) <=> (\E k \in 1..(n - 1) : x[k] = w) \/ x[n] = w
  BY <1>1 DEF Contains
<1>4. x[n] = w <=> Open(w, s, separators)
  BY <1>1, <1>2, OpenUnique
<1>5. Contains(x, w) <=> Closed(w, s, separators) \/ Open(w, s, separators)
  BY <1>2, <1>3, <1>4
<1>6. Open(w, s, separators)
        <=> \E i \in 0..Len(s) : At(w, s, i, separators) /\ i + Len(w) = Len(s)
  <2>1. Len(s) \in Nat /\ Len(w) \in Nat
    OBVIOUS
  <2>2. \A i \in 0..Len(s) : i + Len(w) = Len(s) => i = Len(s) - Len(w)
    BY <2>1
  <2>3. At(w, s, Len(s) - Len(w), separators) => Len(s) - Len(w) \in 0..Len(s)
    BY DEF At
  <2>4. (Len(s) - Len(w)) + Len(w) = Len(s)
    BY <2>1
  <2>. QED
    BY <2>2, <2>3, <2>4 DEF Open
<1>7. Closed(w, s, separators)
        <=> \E i \in 0..Len(s) : /\ At(w, s, i, separators)
                                 /\ i + Len(w) # Len(s) /\ s[i + Len(w) + 1] \in separators
  <2>1. \A i \in 0..Len(s) : At(w, s, i, separators) =>
           (i + Len(w) < Len(s) <=> i + Len(w) # Len(s))
    BY DEF At
  <2>. QED
    BY <2>1 DEF Closed
<1>. QED
  BY <1>5, <1>6, <1>7 DEF x

\* Occurring and standing apart, for a word: standing between separators.
LEMMA WordBetween ==
  ASSUME NEW text \in Seq(Chars), NEW w \in Seq(Alnum), NEW i \in 0..Len(text)
  PROVE  LET solid == Word \cup Marks
             separators == Chars \ solid
         IN  Occurs(w, text, i) /\ Apart(w, text, i, solid)
               <=> /\ At(w, text, i, separators)
                   /\ i + Len(w) = Len(text) \/ text[i + Len(w) + 1] \in separators
<1> DEFINE solid == Word \cup Marks
           separators == Chars \ solid
           m == Len(w)
           n == Len(text)
           p == SubSeq(text, i + 1, i + m)
<1>1. m \in Nat /\ n \in Nat /\ i \in Nat /\ w \in Seq(Chars)
  <2>1. Alnum \subseteq Chars
    BY FilterAssumption
  <2>. QED
    BY <2>1, SeqMonotonic
<1>2. \A k \in 1..n : text[k] \in Chars
  BY ElementOfSeq
<1>3. \A j \in 1..m : w[j] \notin separators
  <2>1. \A j \in 1..m : w[j] \in Alnum
    BY ElementOfSeq
  <2>. QED
    BY <2>1, FilterAssumption
<1>4. ASSUME i + m <= n
      PROVE  p = w <=> \A j \in 1..m : text[i + j] = w[j]
  <2>1. \A k \in (i + 1)..(i + m) : text[k] \in Chars
    BY <1>1, <1>2, <1>4
  <2>2. /\ p \in Seq(Chars)
        /\ Len(p) = IF i + 1 <= i + m THEN (i + m) - (i + 1) + 1 ELSE 0
        /\ \A j \in 1..((i + m) - (i + 1) + 1) : p[j] = text[(i + 1) + j - 1]
    BY <1>1, <2>1, SubSeqProperties
  <2>3. Len(p) = m /\ \A j \in 1..m : p[j] = text[i + j]
    BY <1>1, <2>2
  <2> HIDE DEF p
  <2>4. (\A j \in 1..m : p[j] = w[j]) => p = w
    BY <1>1, <2>2, <2>3, SeqEqual
  <2>. QED
    BY <2>3, <2>4
<1>5. Occurs(w, text, i)
        <=> i + m <= n /\ \A j \in 1..m : text[i + j] = w[j]
  BY <1>4 DEF Occurs
<1>6. i # 0 => (text[i] \in separators <=> text[i] \notin solid)
  BY <1>1, <1>2
<1>7. i + m <= n /\ i + m # n =>
         (text[i + m + 1] \in separators <=> text[i + m + 1] \notin solid)
  <2>1. i + m <= n /\ i + m # n => i + m + 1 \in 1..n
    BY <1>1
  <2>. QED
    BY <1>2, <2>1
<1> HIDE DEF solid, separators
<1>8. At(w, text, i, separators)
        <=> Occurs(w, text, i) /\ (i = 0 \/ text[i] \notin solid)
  BY <1>3, <1>5, <1>6 DEF At
<1>9. Occurs(w, text, i) => i + m <= n
  BY <1>5
<1>10. Apart(w, text, i, solid)
         <=> /\ i = 0 \/ text[i] \notin solid
             /\ i + m = n \/ text[i + m + 1] \notin solid
  BY DEF Apart
<1>. QED
  BY <1>7, <1>8, <1>9, <1>10 DEF solid, separators

LEMMA SafeIsWholeWord ==
  ASSUME NEW text \in Seq(Chars), NEW w \in Seq(Alnum)
  PROVE  matches_default_safe(text, w)
           <=> Contains(Split(text, Chars \ (Word \cup Marks)), w)
<1> DEFINE solid == Word \cup Marks
           separators == Chars \ solid
<1>1. is_word_phrase(w)
  <2>1. \A i \in DOMAIN w : w[i] \in Alnum
    BY LenProperties
  <2>. QED
    BY <2>1 DEF is_word_phrase
<1>2. matches_default_safe(text, w)
        <=> \E i \in 0..Len(text) : Occurs(w, text, i) /\ Apart(w, text, i, solid)
  BY <1>1 DEF matches_default_safe
<1>3. w \in Seq(Chars)
  <2>1. Alnum \subseteq Chars
    BY FilterAssumption
  <2>. QED
    BY <2>1, SeqMonotonic
<1>4. Contains(Split(text, separators), w)
        <=> \E i \in 0..Len(text) :
               /\ At(w, text, i, separators)
               /\ i + Len(w) = Len(text) \/ text[i + Len(w) + 1] \in separators
  BY <1>3, PartsAreFields
<1>5. \A i \in 0..Len(text) :
         Occurs(w, text, i) /\ Apart(w, text, i, solid)
           <=> /\ At(w, text, i, separators)
               /\ i + Len(w) = Len(text) \/ text[i + Len(w) + 1] \in separators
  BY WordBetween
<1> HIDE DEF solid, separators
<1>6. matches_default_safe(text, w) <=> Contains(Split(text, separators), w)
  BY <1>2, <1>4, <1>5
<1>. QED
  BY <1>6 DEF solid, separators

LEMMA TermsType ==
  ASSUME NEW s \in Seq(Chars)
  PROVE  parse_excluded_terms(s) \in Seq(Seq(Chars))
<1> DEFINE raw == Split(s, {Comma})
           normal == [i \in DOMAIN raw |-> normalize_text(raw[i])]
<1>1. raw \in Seq(Seq(Chars))
  BY SplitType DEF Parts
<1>2. Len(raw) \in Nat /\ DOMAIN raw = 1..Len(raw) /\ \A i \in 1..Len(raw) : raw[i] \in Seq(Chars)
  BY <1>1, LenProperties, ElementOfSeq
<1>3. \A i \in 1..Len(raw) : normalize_text(raw[i]) \in Seq(Chars)
  BY <1>2, NormalType
<1>4. normal \in [1..Len(raw) -> Seq(Chars)]
  BY <1>2, <1>3
<1>5. normal \in Seq(Seq(Chars))
  <2> DEFINE n == Len(raw)
             S == Seq(Chars)
  <2>1. normal \in [1..n -> S] /\ n \in Nat
    BY <1>2, <1>4
  <2> HIDE DEF normal, n, S
  <2>2. normal \in UNION {[1..k -> S] : k \in Nat}
    BY <2>1
  <2>3. normal \in Seq(S)
    BY <2>2, SeqDef
  <2>. QED
    BY <2>3 DEF S
<1>. QED
  BY <1>5, NonEmptyType DEF parse_excluded_terms, Parts

LEMMA VacancyTextType ==
  ASSUME NEW v, v.name \in Seq(Chars), v.requirement \in Seq(Chars),
         v.responsibility \in Seq(Chars)
  PROVE  build_vacancy_text(v) \in Seq(Chars)
<1>1. <<Space>> \in Seq(Chars)
  BY FilterAssumption
<1>2. v.name \o <<Space>> \o v.requirement \o <<Space>> \o v.responsibility \in Seq(Chars)
  BY <1>1, ConcatProperties
<1>. QED
  BY <1>2, NormalType DEF build_vacancy_text

\* A single word is excluded in safe mode exactly when the vacancy has it as a whole word.
THEOREM WholeWords == Spec => []SafeMatchesWholeWords
<1>1. DecisionInv /\ TextInv => SafeMatchesWholeWords
  <2> DEFINE terms == parse_excluded_terms(typed)
             text == build_vacancy_text(vacancy)
             separators == Chars \ (Word \cup Marks)
  <2> SUFFICES ASSUME DecisionInv, TextInv, Decided,
                      normalize_exclude_mode(mode) = "default_safe",
                      Len(terms) = 1, terms[1] \in Seq(Alnum)
               PROVE  decision.is_excluded <=> Contains(Split(text, separators), terms[1])
    BY DEF SafeMatchesWholeWords
  <2>1. DOMAIN terms = {1}
    <3>1. terms \in Seq(Seq(Chars))
      BY TermsType DEF TextInv
    <3>. QED
      BY <3>1, LenProperties
  <2>2. text \in Seq(Chars)
    BY VacancyTextType DEF TextInv
  <2>3. matches_default_safe(text, terms[1]) <=> Contains(Split(text, separators), terms[1])
    BY <2>2, SafeIsWholeWord
  <2>4. decision = find_exclusion(vacancy, terms, mode)
    BY DEF DecisionInv, Decided
  <2> HIDE DEF terms
  <2>5. Hits(vacancy, terms, mode) # {} <=> matches_default_safe(text, terms[1])
    BY <2>1 DEF Hits, matches
  <2>. QED
    BY <2>3, <2>4, <2>5 DEF find_exclusion
<1>. QED
  BY <1>1, DecisionKept, TextsKept, PTL
=============================================================================
