------------------------- MODULE MessageBuildProofs -------------------------
(***************************************************************************)
(* Theorems about the generation of message code, for any files, targets,  *)
(* generators and edits.                                                   *)
(***************************************************************************)
EXTENDS MessageBuild, FiniteSetTheorems, TLAPS

-----------------------------------------------------------------------------
(* Numbers, sequences and recursion.                                       *)

\* A set of numbers that is not empty has a smallest one: its initial segments
\* are well-founded by inclusion.
LEMMA LeastNumber ==
  ASSUME NEW T, T \subseteq Nat, T # {}
  PROVE  \E x \in T : \A y \in T : x <= y
<1> DEFINE W == {1..n : n \in T}
           R == StrictSubsetOrdering(Nat)
<1>1. IsWellFoundedOn(R, FiniteSubsetsOf(Nat))
  BY FS_StrictSubsetOrderingWellFounded
<1>2. W \subseteq FiniteSubsetsOf(Nat) /\ W # {}
  <2>1. ASSUME NEW n \in T PROVE 1..n \in FiniteSubsetsOf(Nat)
    <3>1. n \in Int /\ 1 \in Int /\ 1..n \in SUBSET Nat
      OBVIOUS
    <3>2. IsFiniteSet(1..n)
      BY <3>1, FS_Interval
    <3> QED BY <3>1, <3>2 DEF FiniteSubsetsOf
  <2> QED BY <2>1
<1> HIDE DEF W, R
<1>3. PICK w \in W : \A v \in W : ~ (<<v, w>> \in R)
  BY <1>1, <1>2, WFMin
<1>4. PICK x \in T : w = 1..x
  BY DEF W
<1>5. ASSUME NEW y \in T, ~(x <= y) PROVE FALSE
  <2>1. 1..y \in W /\ 1..y \subseteq 1..x /\ x \in 1..x /\ x \notin 1..y
    BY <1>5 DEF W
  <2>2. <<1..y, w>> \in R
    BY <2>1, <1>4, <1>5 DEF R, StrictSubsetOrdering
  <2> QED BY <2>1, <2>2, <1>3
<1> QED BY <1>5

\* What holds of 0 and of every number after one it holds of: B is where it
\* does not.
LEMMA NoneBad ==
  ASSUME NEW N \in Nat, NEW B \in SUBSET (0..N), 0 \notin B,
         \A n \in B : n > 0 => n - 1 \in B
  PROVE  B = {}
<1>1. ASSUME B # {} PROVE FALSE
  <2>0. B \subseteq Nat
    OBVIOUS
  <2>1. PICK n \in B : \A k \in B : n <= k
    BY <1>1, <2>0, LeastNumber
  <2>2. n > 0 /\ n - 1 \in B /\ ~(n <= n - 1)
    BY <2>1
  <2> QED BY <2>1, <2>2
<1> QED BY <1>1

IsSeq(s) == s \in Seq(ToSet(s))

\* A sequence over any set is one over the set of its elements.
LEMMA OverASet ==
  ASSUME NEW S, NEW s, s \in Seq(S)
  PROVE  IsSeq(s) /\ ToSet(s) \subseteq S /\ Len(s) \in Nat /\ DOMAIN s = 1..Len(s)
<1>0. Len(s) \in Nat /\ DOMAIN s = 1..Len(s)
  OBVIOUS
<1>1. Len(s) \in Nat /\ DOMAIN s = 1..Len(s) /\ \A i \in 1..Len(s) : s[i] \in S
  BY <1>0
<1>2. s = [i \in 1..Len(s) |-> s[i]]
  OBVIOUS
<1>3. s \in [1..Len(s) -> ToSet(s)]
  BY <1>1, <1>2 DEF ToSet
<1>4. s \in Seq(ToSet(s))
  BY <1>1, <1>3
<1> QED BY <1>1, <1>4 DEF IsSeq, ToSet

\* One more element.
LEMMA AppendSeq ==
  ASSUME NEW s, IsSeq(s), NEW e
  PROVE  /\ IsSeq(Append(s, e)) /\ ToSet(Append(s, e)) = ToSet(s) \cup {e}
         /\ Len(Append(s, e)) = Len(s) + 1
         /\ \A i \in 1..Len(s) : Append(s, e)[i] = s[i]
         /\ Append(s, e)[Len(s) + 1] = e
<1> DEFINE T == ToSet(s) \cup {e}
<1>1. s \in Seq(T) /\ e \in T
  BY DEF IsSeq, ToSet
<1> HIDE DEF T
<1>2. /\ Append(s, e) \in Seq(T) /\ Len(Append(s, e)) = Len(s) + 1
      /\ \A i \in 1..Len(s) : Append(s, e)[i] = s[i]
      /\ Append(s, e)[Len(s) + 1] = e /\ Len(s) \in Nat
      /\ DOMAIN Append(s, e) = 1 .. Len(s) + 1 /\ DOMAIN s = 1..Len(s)
  BY <1>1
<1>3. ToSet(Append(s, e)) = ToSet(s) \cup {e}
  BY <1>2 DEF ToSet
<1>4. IsSeq(Append(s, e))
  BY <1>2, OverASet
<1> QED BY <1>2, <1>3, <1>4

\* A function on 1..n is a sequence.
LEMMA FunctionSeq ==
  ASSUME NEW n \in Nat, NEW f, f = [i \in 1..n |-> f[i]]
  PROVE  IsSeq(f) /\ Len(f) = n
<1>1. f \in [1..n -> ToSet(f)]
  BY DEF ToSet
<1>2. f \in Seq(ToSet(f)) /\ Len(f) = n
  BY <1>1
<1> QED BY <1>2 DEF IsSeq

\* A sequence without its last element.
LEMMA FrontSeq ==
  ASSUME NEW s, IsSeq(s), s # <<>>
  PROVE  /\ Len(s) \in Nat \ {0} /\ Last(s) = s[Len(s)] /\ DOMAIN s = 1..Len(s)
         /\ IsSeq(Front(s)) /\ Len(Front(s)) = Len(s) - 1
         /\ \A i \in 1 .. Len(s) - 1 : Front(s)[i] = s[i]
<1>1. Len(s) \in Nat \ {0} /\ DOMAIN s = 1..Len(s)
  BY DEF IsSeq
<1>2. Front(s) = [i \in 1 .. Len(s) - 1 |-> s[i]]
  BY <1>1 DEF Front, IsSeq
<1>3. Len(s) - 1 \in Nat
  BY <1>1
<1> HIDE DEF Front
<1>4. IsSeq(Front(s)) /\ Len(Front(s)) = Len(s) - 1
  BY <1>2, <1>3, FunctionSeq
<1> QED BY <1>1, <1>2, <1>4 DEF Last

\* g is defined by recursion on 0..N: step[n] makes its value at n of the one
\* before.
Recursive(g, N, V, first, step) ==
  g \in [0..N -> V] /\ g[0] = first /\ \A n \in 1..N : g[n] = step[n][g[n - 1]]

\* There is one.
LEMMA RecursionOnNumbers ==
  ASSUME NEW N, NEW V, NEW first, NEW step,
         N \in Nat, first \in V, step \in [1..N -> [V -> V]]
  PROVE  \E g : Recursive(g, N, V, first, step)
<1> DEFINE Is(g, n) == /\ g \in [0..n -> V] /\ g[0] = first
                       /\ \A m \in 1..n : g[m] = step[m][g[m - 1]]
           B == {n \in 0..N : ~ \E g : Is(g, n)}
<1>1. 0 \notin B
  <2>1. Is([m \in 0..0 |-> first], 0)
    OBVIOUS
  <2> QED BY <2>1
<1>2. ASSUME NEW n \in B, n > 0, n - 1 \notin B PROVE FALSE
  <2>1. n \in 1..N /\ n - 1 \in 0..N
    BY <1>2
  <2>2. PICK g : Is(g, n - 1)
    BY <1>2, <2>1
  <2> DEFINE h == [m \in 0..n |-> IF m = n THEN step[n][g[n - 1]] ELSE g[m]]
  <2>3. g[n - 1] \in V /\ step[n][g[n - 1]] \in V
    BY <2>1, <2>2
  <2>4. h \in [0..n -> V] /\ h[0] = first /\ h[n] = step[n][g[n - 1]]
    BY <2>1, <2>2, <2>3
  <2>5. ASSUME NEW m \in 1..n PROVE h[m] = step[m][h[m - 1]]
    <3>1. h[m - 1] = g[m - 1]
      BY <2>1
    <3>2. CASE m = n
      BY <3>1, <3>2, <2>4
    <3>3. CASE m # n
      <4>1. m \in 1 .. n - 1 /\ h[m] = g[m]
        BY <3>3, <2>1
      <4> QED BY <4>1, <3>1, <2>2
    <3> QED BY <3>2, <3>3
  <2>6. Is(h, n)
    BY <2>4, <2>5
  <2> QED BY <2>6, <1>2
<1> HIDE DEF Is
<1>3. B = {}
  <2>1. B \in SUBSET (0..N) /\ \A n \in B : n > 0 => n - 1 \in B
    BY <1>2
  <2> HIDE DEF B
  <2> QED BY <1>1, <2>1, NoneBad
<1>4. N \notin B /\ N \in 0..N
  BY <1>3
<1>5. PICK g : Is(g, N)
  BY <1>4
<1> QED BY <1>5 DEF Is, Recursive

-----------------------------------------------------------------------------
(* What the recursive functions of the loading return.                     *)

\* The lines at some places are lines of the text at those places.
LEMMA LinesAtPlaces ==
  ASSUME NEW text, IsSeq(text), NEW places
  PROVE  /\ IsSeq(LinesAt(text, places))
         /\ ToSet(LinesAt(text, places)) \subseteq {text[i] : i \in DOMAIN text \cap places}
<1> DEFINE N == Len(text)
           S == {text[i] : i \in DOMAIN text \cap places}
           Is(g) == g = [i \in 0..N |-> IF i = 0 THEN <<>>
                                        ELSE IF i \in places THEN Append(g[i - 1], text[i])
                                        ELSE g[i - 1]]
           step == [n \in 1..N |-> [v \in Seq(S) |->
                      IF n \in places THEN Append(v, text[n]) ELSE v]]
<1>1. N \in Nat /\ DOMAIN text = 1..N
  BY DEF IsSeq
<1>2. \A n \in 1..N : n \in places => text[n] \in S
  BY <1>1
<1> HIDE DEF S
<1>3. step \in [1..N -> [Seq(S) -> Seq(S)]]
  BY <1>2
<1>4. <<>> \in Seq(S)
  OBVIOUS
<1> HIDE DEF N, step
<1>5. PICK g : Recursive(g, N, Seq(S), <<>>, step)
  BY <1>1, <1>3, <1>4, RecursionOnNumbers
<1>6. g[0] = <<>> /\ \A n \in 1..N : g[n] = IF n \in places THEN Append(g[n - 1], text[n])
                                          ELSE g[n - 1]
  <2>1. ASSUME NEW n \in 1..N PROVE g[n] = step[n][g[n - 1]] /\ g[n - 1] \in Seq(S)
    <3>1. n - 1 \in 0..N
      BY <1>1
    <3> QED BY <3>1, <1>5 DEF Recursive
  <2> QED BY <2>1, <1>5 DEF step, Recursive
<1>7. Is(g)
  <2>1. \A i \in 0..N : i = 0 \/ i \in 1..N
    BY <1>1
  <2>2. g = [i \in 0..N |-> g[i]]
    BY <1>5 DEF Recursive
  <2> QED BY <2>1, <2>2, <1>6
<1>8. PICK f : f = (CHOOSE h : Is(h)) /\ Is(f)
  BY <1>7
<1>9. f[0] = <<>> /\ \A n \in 1..N : f[n] = IF n \in places THEN Append(f[n - 1], text[n])
                                          ELSE f[n - 1]
  <2>1. 0 \in 0..N /\ \A n \in 1..N : n \in 0..N /\ n # 0
    BY <1>1
  <2>2. \A i \in 0..N : f[i] = IF i = 0 THEN <<>>
                             ELSE IF i \in places THEN Append(f[i - 1], text[i]) ELSE f[i - 1]
    BY <1>8
  <2> QED BY <2>1, <2>2
<1> DEFINE B == {n \in 0..N : f[n] \notin Seq(S)}
<1>11. B = {}
  <2>1. 0 \notin B
    BY <1>4, <1>9
  <2>2. ASSUME NEW n \in B, n > 0 PROVE n - 1 \in B
    <3>1. n \in 1..N /\ n - 1 \in 0..N /\ f[n] \notin Seq(S)
      BY <2>2, <1>1
    <3>2. f[n - 1] \in Seq(S) => f[n] \in Seq(S)
      <4>1. CASE n \in places
        <5>1. text[n] \in S
          BY <3>1, <4>1, <1>2
        <5>2. f[n] = Append(f[n - 1], text[n])
          BY <4>1, <3>1, <1>9
        <5> QED BY <5>1, <5>2
      <4>2. CASE n \notin places
        BY <4>2, <3>1, <1>9
      <4> QED BY <4>1, <4>2
    <3> QED BY <3>1, <3>2
  <2>3. B \in SUBSET (0..N)
    OBVIOUS
  <2> HIDE DEF B
  <2> QED BY <2>1, <2>2, <2>3, <1>1, NoneBad
<1>12. f[N] \in Seq(S)
  <2>1. N \notin B /\ N \in 0..N
    BY <1>1, <1>11
  <2> QED BY <2>1
<1>13. LinesAt(text, places) = f[N]
  BY <1>8 DEF LinesAt, N
<1>14. IsSeq(f[N]) /\ ToSet(f[N]) \subseteq S
  BY <1>12, OverASet
<1> QED BY <1>13, <1>14 DEF S

\* The lines of a kind are lines of the text, of that kind.
LEMMA OfLines ==
  ASSUME NEW text, IsSeq(text), NEW kind
  PROVE  IsSeq(Of(text, kind)) /\ ToSet(Of(text, kind)) \subseteq {l \in ToSet(text) : l.k = kind}
<1>1. Of(text, kind) = LinesAt(text, {i \in DOMAIN text : text[i].k = kind})
  BY DEF Of
<1> QED BY <1>1, LinesAtPlaces DEF ToSet

\* Two sequences one after the other.
LEMMA Concatenated ==
  ASSUME NEW S, NEW s \in Seq(S), NEW t \in Seq(S)
  PROVE  s \o t \in Seq(S) /\ ToSet(s \o t) = ToSet(s) \cup ToSet(t)
<1>1. /\ s \o t \in Seq(S) /\ Len(s \o t) = Len(s) + Len(t)
      /\ Len(s) \in Nat /\ Len(t) \in Nat
  OBVIOUS
<1>2. DOMAIN s = 1..Len(s) /\ DOMAIN t = 1..Len(t) /\ DOMAIN (s \o t) = 1 .. Len(s) + Len(t)
  BY <1>1
<1>3. \A i \in 1..Len(s) : (s \o t)[i] = s[i]
  OBVIOUS
<1>4. \A i \in 1..Len(t) : (s \o t)[i + Len(s)] = t[i]
  BY <1>1
<1>5. ASSUME NEW i \in 1 .. Len(s) + Len(t), i \notin 1..Len(s)
      PROVE  (s \o t)[i] = t[i - Len(s)] /\ i - Len(s) \in 1..Len(t)
  BY <1>1, <1>4, <1>5
<1>6. \A i \in 1..Len(t) : i + Len(s) \in DOMAIN (s \o t)
  BY <1>1, <1>2
<1>7. \A i \in 1..Len(s) : i \in DOMAIN (s \o t)
  BY <1>1, <1>2
<1>8. ToSet(s) \subseteq ToSet(s \o t)
  BY <1>2, <1>3, <1>7 DEF ToSet
<1>9. ToSet(t) \subseteq ToSet(s \o t)
  BY <1>2, <1>4, <1>6 DEF ToSet
<1>10. ASSUME NEW i \in DOMAIN (s \o t) PROVE (s \o t)[i] \in ToSet(s) \cup ToSet(t)
  <2>1. CASE i \in 1..Len(s)
    BY <2>1, <1>2, <1>3 DEF ToSet
  <2>2. CASE i \notin 1..Len(s)
    BY <2>2, <1>2, <1>5 DEF ToSet
  <2> QED BY <2>1, <2>2
<1>11. ToSet(s \o t) \subseteq ToSet(s) \cup ToSet(t)
  BY <1>10 DEF ToSet
<1> QED BY <1>1, <1>8, <1>9, <1>11

\* Sequences put one after the other have the elements of all.
LEMMA Flattened ==
  ASSUME NEW ss, IsSeq(ss), NEW S, \A i \in DOMAIN ss : ss[i] \in Seq(S)
  PROVE  /\ FlattenSeq(ss) \in Seq(S)
         /\ ToSet(FlattenSeq(ss)) = UNION {ToSet(ss[i]) : i \in DOMAIN ss}
<1> DEFINE N == Len(ss)
           Is(g) == g = [i \in 1..N |-> IF i = 1 THEN ss[i] ELSE g[i - 1] \o ss[i]]
<1>1. N \in Nat /\ DOMAIN ss = 1..N
  BY DEF IsSeq
<1>2. CASE N = 0
  <2>1. ss = <<>>
    BY <1>2 DEF IsSeq
  <2>2. ToSet(ss) = {} /\ DOMAIN ss = {} /\ ss \in Seq(S)
    BY <2>1 DEF ToSet
  <2> QED BY <1>2, <2>2 DEF FlattenSeq
<1>3. CASE N # 0
  <2> DEFINE M == N - 1
             step == [n \in 1..M |-> [v \in Seq(S) |-> v \o ss[n + 1]]]
             All(n) == UNION {ToSet(ss[i]) : i \in 1..n}
             f == CHOOSE h : Is(h)
             B == {n \in 0..M : ~(f[n + 1] \in Seq(S) /\ ToSet(f[n + 1]) = All(n + 1))}
  <2>1. M \in Nat /\ N = M + 1 /\ ss[1] \in Seq(S) /\ \A n \in 1..M : ss[n + 1] \in Seq(S)
    BY <1>1, <1>3
  <2>2. step \in [1..M -> [Seq(S) -> Seq(S)]]
    <3>1. \A n \in 1..M : \A v \in Seq(S) : v \o ss[n + 1] \in Seq(S)
      BY <2>1
    <3> QED BY <3>1
  <2> HIDE DEF M, step
  <2>3. PICK g : Recursive(g, M, Seq(S), ss[1], step)
    BY <2>1, <2>2, RecursionOnNumbers
  <2>4. g[0] = ss[1] /\ \A n \in 1..M : g[n] = g[n - 1] \o ss[n + 1]
    <3>1. ASSUME NEW n \in 1..M PROVE g[n] = step[n][g[n - 1]] /\ g[n - 1] \in Seq(S)
      <4>1. n - 1 \in 0..M
        BY <2>1
      <4> QED BY <4>1, <2>3 DEF Recursive
    <3> QED BY <3>1, <2>3 DEF step, Recursive
  <2> DEFINE h == [i \in 1..N |-> g[i - 1]]
  <2>5. Is(h)
    <3>1. ASSUME NEW i \in 1..N PROVE h[i] = IF i = 1 THEN ss[i] ELSE h[i - 1] \o ss[i]
      <4>1. CASE i = 1
        BY <4>1, <2>4
      <4>2. CASE i # 1
        <5>1. i - 1 \in 1..M /\ i - 1 \in 1..N /\ (i - 1) + 1 = i /\ (i - 1) - 1 \in 0..M
          BY <4>2, <2>1
        <5>2. g[i - 1] = g[(i - 1) - 1] \o ss[(i - 1) + 1]
          BY <5>1, <2>4
        <5> QED BY <4>2, <5>1, <5>2
      <4> QED BY <4>1, <4>2
    <3> QED BY <3>1
  <2>6. Is(f)
    BY <2>5
  <2> HIDE DEF f
  <2>7. f[1] = ss[1] /\ \A n \in 1..M : f[n + 1] = f[n] \o ss[n + 1]
    <3>1. 1 \in 1..N /\ \A n \in 1..M : n + 1 \in 1..N /\ n + 1 # 1 /\ (n + 1) - 1 = n
      BY <2>1
    <3>2. \A i \in 1..N : f[i] = IF i = 1 THEN ss[i] ELSE f[i - 1] \o ss[i]
      BY <2>6
    <3>3. ASSUME NEW n \in 1..M PROVE f[n + 1] = f[n] \o ss[n + 1]
      BY <3>1, <3>2
    <3> QED BY <3>1, <3>2, <3>3
  <2>8. B = {}
    <3>1. 0 \notin B
      BY <2>1, <2>7
    <3>2. ASSUME NEW n \in B, n > 0, n - 1 \notin B PROVE FALSE
      <4>1. n \in 1..M /\ (n - 1) + 1 = n
        BY <2>1, <3>2
      <4>2. f[n] \in Seq(S) /\ ToSet(f[n]) = All(n)
        <5>1. n - 1 \in 0..M
          BY <4>1, <2>1
        <5>2. f[(n - 1) + 1] \in Seq(S) /\ ToSet(f[(n - 1) + 1]) = All((n - 1) + 1)
          BY <5>1, <3>2
        <5> QED BY <5>2, <4>1
      <4>3. ss[n + 1] \in Seq(S) /\ f[n + 1] = f[n] \o ss[n + 1]
        BY <4>1, <2>1, <2>7
      <4>4. f[n + 1] \in Seq(S) /\ ToSet(f[n + 1]) = ToSet(f[n]) \cup ToSet(ss[n + 1])
        BY <4>2, <4>3, Concatenated
      <4>5. 1 .. n + 1 = 1..n \cup {n + 1}
        BY <4>1
      <4>6. All(n + 1) = All(n) \cup ToSet(ss[n + 1])
        BY <4>5
      <4> QED BY <4>2, <4>4, <4>6, <3>2
    <3>3. B \in SUBSET (0..M) /\ \A n \in B : n > 0 => n - 1 \in B
      BY <3>2
    <3> HIDE DEF B
    <3> QED BY <3>1, <3>3, <2>1, NoneBad
  <2>9. M \in 0..M /\ M \notin B
    <3> HIDE DEF B
    <3> QED BY <2>1, <2>8
  <2>10. f[N] \in Seq(S) /\ ToSet(f[N]) = All(N)
    BY <2>9, <2>1
  <2>11. FlattenSeq(ss) = f[N]
    BY <1>3 DEF FlattenSeq, f
  <2> QED BY <2>10, <2>11, <1>1
<1> QED BY <1>2, <1>3

\* _unique_deps keeps one of each.
LEMMA UniqueDeps ==
  ASSUME NEW deps, IsSeq(deps)
  PROVE  /\ IsSeq(_unique_deps(deps)) /\ IsInjective(_unique_deps(deps))
         /\ ToSet(_unique_deps(deps)) = ToSet(deps)
<1> DEFINE N == Len(deps)
           S == ToSet(deps)
           Added(v, n) == IF Contains(v, deps[n]) THEN v ELSE Append(v, deps[n])
           Is(g) == g = [i \in 0..N |-> IF i = 0 THEN <<>>
                                        ELSE LET before == g[i - 1]
                                             IN  IF Contains(before, deps[i]) THEN before
                                                 ELSE Append(before, deps[i])]
           step == [n \in 1..N |-> [v \in Seq(S) |-> Added(v, n)]]
           f == CHOOSE g : Is(g)
           Good(n) == f[n] \in Seq(S) /\ IsInjective(f[n]) /\ ToSet(f[n]) = {deps[i] : i \in 1..n}
           B == {n \in 0..N : ~Good(n)}
<1>1. N \in Nat /\ DOMAIN deps = 1..N /\ \A n \in 1..N : deps[n] \in S
  BY DEF IsSeq, ToSet
<1> HIDE DEF S
<1>2. step \in [1..N -> [Seq(S) -> Seq(S)]]
  <2>1. \A n \in 1..N : \A v \in Seq(S) : Added(v, n) \in Seq(S)
    BY <1>1
  <2> QED BY <2>1
<1>3. <<>> \in Seq(S)
  OBVIOUS
<1> HIDE DEF N, step
<1>4. PICK g : Recursive(g, N, Seq(S), <<>>, step)
  BY <1>1, <1>2, <1>3, RecursionOnNumbers
<1>5. g[0] = <<>> /\ \A n \in 1..N : g[n] = Added(g[n - 1], n)
  <2>1. ASSUME NEW n \in 1..N PROVE g[n] = step[n][g[n - 1]] /\ g[n - 1] \in Seq(S)
    <3>1. n - 1 \in 0..N
      BY <1>1
    <3> QED BY <3>1, <1>4 DEF Recursive
  <2> QED BY <2>1, <1>4 DEF step, Recursive
<1>6. Is(g)
  <2>1. \A i \in 0..N : i = 0 \/ i \in 1..N
    BY <1>1
  <2>2. g = [i \in 0..N |-> g[i]]
    BY <1>4 DEF Recursive
  <2> QED BY <2>1, <2>2, <1>5
<1>7. Is(f)
  BY <1>6
<1> HIDE DEF f
<1>8. f[0] = <<>> /\ \A n \in 1..N : f[n] = Added(f[n - 1], n)
  <2>1. 0 \in 0..N /\ \A n \in 1..N : n \in 0..N /\ n # 0
    BY <1>1
  <2>2. \A i \in 0..N : f[i] = IF i = 0 THEN <<>> ELSE Added(f[i - 1], i)
    BY <1>7
  <2> QED BY <2>1, <2>2
<1>9. B = {}
  <2>1. 0 \notin B
    <3>1. ToSet(f[0]) = {} /\ IsInjective(f[0])
      BY <1>8 DEF IsInjective, ToSet
    <3>2. {deps[i] : i \in 1..0} = {}
      OBVIOUS
    <3> QED BY <3>1, <3>2, <1>3, <1>8
  <2>2. ASSUME NEW n \in B, n > 0, n - 1 \notin B PROVE FALSE
    <3>1. n \in 1..N /\ n - 1 \in 0..N
      BY <1>1, <2>2
    <3>2. Good(n - 1)
      BY <2>2, <3>1
    <3> DEFINE v == f[n - 1]
    <3>3. v \in Seq(S) /\ IsInjective(v) /\ ToSet(v) = {deps[i] : i \in 1 .. n - 1}
      BY <3>2
    <3>4. f[n] = Added(v, n)
      BY <1>8, <3>1
    <3> HIDE DEF v
    <3>5. 1..n = 1 .. n - 1 \cup {n}
      BY <3>1
    <3>6. {deps[i] : i \in 1..n} = ToSet(v) \cup {deps[n]}
      BY <3>3, <3>5
    <3>7. Contains(v, deps[n]) <=> deps[n] \in ToSet(v)
      BY <3>3 DEF Contains, ToSet
    <3>8. CASE Contains(v, deps[n])
      BY <3>3, <3>4, <3>6, <3>7, <3>8, <2>2
    <3>9. CASE ~Contains(v, deps[n])
      <4>1. IsSeq(v) /\ Len(v) \in Nat /\ DOMAIN v = 1..Len(v)
        BY <3>3, OverASet
      <4> DEFINE w == Append(v, deps[n])
      <4>2. /\ w \in Seq(S) /\ DOMAIN w = 1 .. Len(v) + 1
            /\ \A i \in 1..Len(v) : w[i] = v[i] /\ w[i] \in ToSet(v)
            /\ w[Len(v) + 1] = deps[n]
        BY <3>1, <3>3, <1>1, <4>1 DEF ToSet
      <4>3. ToSet(w) = ToSet(v) \cup {deps[n]}
        BY <4>1, AppendSeq
      <4> HIDE DEF w
      <4>4. ASSUME NEW a \in DOMAIN w, NEW b \in DOMAIN w, w[a] = w[b] PROVE a = b
        <5>1. a \in 1..Len(v) \/ a = Len(v) + 1
          BY <4>1, <4>2
        <5>2. b \in 1..Len(v) \/ b = Len(v) + 1
          BY <4>1, <4>2
        <5> QED BY <5>1, <5>2, <4>1, <4>2, <4>4, <3>3, <3>7, <3>9 DEF IsInjective
      <4>5. IsInjective(w)
        BY <4>4 DEF IsInjective
      <4>6. f[n] = w
        BY <3>4, <3>9 DEF w
      <4> QED BY <4>2, <4>3, <4>5, <4>6, <3>6, <2>2
    <3> QED BY <3>8, <3>9
  <2>3. B \in SUBSET (0..N) /\ \A n \in B : n > 0 => n - 1 \in B
    BY <2>2
  <2> HIDE DEF B
  <2> QED BY <2>1, <2>3, <1>1, NoneBad
<1>10. Good(N)
  <2>1. N \in 0..N /\ N \notin B
    <3> HIDE DEF B
    <3> QED BY <1>1, <1>9
  <2> QED BY <2>1
<1>11. _unique_deps(deps) = f[N]
  BY DEF _unique_deps, f, N
<1>12. ToSet(deps) = {deps[i] : i \in 1..N}
  BY <1>1 DEF ToSet
<1>13. IsSeq(f[N])
  BY <1>10, OverASet
<1> QED BY <1>10, <1>11, <1>12, <1>13

\* A loading begins with the call for its specification and goes on step by step.
LEMMA LoadingSteps ==
  ASSUME NEW ctx, NEW env, NEW spec
  PROVE  LET L == Loading(ctx, env, spec)
         IN  /\ L[0] = [err |-> "none", ctx |-> ctx, calls |-> <<Call(spec)>>]
             /\ \A n \in 1..LoadSteps : L[n] = LoadStep(L[n - 1], env)
<1> DEFINE first == [err |-> "none", ctx |-> ctx, calls |-> <<Call(spec)>>]
           Is(g, k) == g = [n \in 0..k |-> IF n = 0 THEN first ELSE LoadStep(g[n - 1], env)]
           B == {n \in 0..LoadSteps : ~ \E g : Is(g, n)}
<1> HIDE DEF first
<1>0. LoadSteps \in Nat
  BY LoadStepsAssumption
<1>1. 0 \notin B
  <2>1. Is([m \in 0..0 |-> first], 0)
    OBVIOUS
  <2> QED BY <2>1
<1>2. ASSUME NEW n \in B, n > 0, n - 1 \notin B PROVE FALSE
  <2>1. n \in 1..LoadSteps /\ n - 1 \in 0..LoadSteps
    BY <1>0, <1>2
  <2>2. PICK g : Is(g, n - 1)
    BY <1>2, <2>1
  <2> DEFINE h == [m \in 0..n |-> IF m = n THEN LoadStep(g[n - 1], env) ELSE g[m]]
  <2>3. ASSUME NEW m \in 0..n
        PROVE  h[m] = IF m = 0 THEN first ELSE LoadStep(h[m - 1], env)
    <3>1. CASE m = 0
      BY <3>1, <2>1, <2>2
    <3>2. CASE m # 0 /\ m # n
      <4>1. m \in 0 .. n - 1 /\ m - 1 \in 0..n /\ m - 1 # n
        BY <3>2, <2>1
      <4>2. h[m] = g[m] /\ h[m - 1] = g[m - 1]
        BY <4>1, <3>2
      <4>3. g[m] = LoadStep(g[m - 1], env)
        BY <4>1, <3>2, <2>2
      <4> QED BY <4>2, <4>3, <3>2
    <3>3. CASE m = n
      <4>1. h[n - 1] = g[n - 1]
        BY <2>1
      <4> QED BY <4>1, <3>3, <2>1
    <3> QED BY <3>1, <3>2, <3>3
  <2>4. Is(h, n)
    BY <2>3
  <2> QED BY <2>4, <1>2
<1>3. B = {}
  <2>1. B \in SUBSET (0..LoadSteps) /\ \A n \in B : n > 0 => n - 1 \in B
    BY <1>2
  <2> HIDE DEF B
  <2> QED BY <1>0, <1>1, <2>1, NoneBad
<1>4. \E g : Is(g, LoadSteps)
  <2>1. LoadSteps \notin B /\ LoadSteps \in 0..LoadSteps
    BY <1>0, <1>3
  <2> HIDE DEF Is
  <2> QED BY <2>1, ZenonT(30)
<1>5. PICK f : f = (CHOOSE g : Is(g, LoadSteps)) /\ Is(f, LoadSteps)
  BY <1>4
<1>6. Loading(ctx, env, spec) = f
  BY <1>5 DEF Loading, first
<1>7. f[0] = first /\ \A n \in 1..LoadSteps : f[n] = LoadStep(f[n - 1], env)
  <2>1. 0 \in 0..LoadSteps /\ \A n \in 1..LoadSteps : n \in 0..LoadSteps /\ n # 0
    BY <1>0
  <2>2. \A n \in 0..LoadSteps : f[n] = IF n = 0 THEN first ELSE LoadStep(f[n - 1], env)
    BY <1>5
  <2> QED BY <2>1, <2>2
<1> QED BY <1>6, <1>7 DEF first

-----------------------------------------------------------------------------
(* What is loaded from a file.                                             *)

\* What a context holds, and a specification in it.
IsContext(ctx) == ctx = [reg |-> ctx.reg, dep |-> ctx.dep, file |-> ctx.file]
PackageOf(n) == package_resource_name(n).package
GoodParts(p, pkg) ==
  IsSeq(p) /\ p # <<>> /\ (pkg # NoPackage => is_builtin(p) \/ Len(p) > 1)
GoodSpec(spec, n) ==
  /\ spec.full_name = n /\ spec.package = PackageOf(n)
  /\ IsSeq(spec.fields)
  /\ \A i \in DOMAIN spec.fields : GoodParts(spec.fields[i].type.parts, spec.package)

\* The type of a field as its file names it, and the name it is looked up by.
FieldName(spec, i) == resolve_type(bare_msg_type(spec.fields[i].type), spec.package).parts

\* One element, then others.
LEMMA OneFirst ==
  ASSUME NEW e, NEW s, IsSeq(s)
  PROVE  IsSeq(<<e>> \o s) /\ Len(<<e>> \o s) = Len(s) + 1 /\ Len(s) \in Nat
<1> DEFINE T == ToSet(s) \cup {e}
<1>1. s \in Seq(T) /\ <<e>> \in Seq(T) /\ Len(s) \in Nat
  BY DEF IsSeq, ToSet
<1> HIDE DEF T
<1>2. <<e>> \o s \in Seq(T) /\ Len(<<e>> \o s) = 1 + Len(s)
  BY <1>1
<1>3. IsSeq(<<e>> \o s)
  BY <1>2, OverASet
<1> QED BY <1>1, <1>2, <1>3

\* The name of std_msgs/Header.
LEMMA HeaderName == IsSeq(HEADER_FULL_NAME) /\ Len(HEADER_FULL_NAME) = 2
<1>2. HEADER_FULL_NAME \in Seq({"std_msgs", "Header"})
  BY DEF HEADER_FULL_NAME
<1>3. Len(HEADER_FULL_NAME) = 2
  BY DEF HEADER_FULL_NAME
<1> QED BY <1>2, <1>3, OverASet

\* A sequence that is not empty has one element or more.
LEMMA OneOrMore == ASSUME NEW p, IsSeq(p), p # <<>> PROVE Len(p) = 1 \/ Len(p) > 1
<1>1. PICK n : n = Len(p)
  OBVIOUS
<1>2. n \in Nat \ {0}
  BY <1>1 DEF IsSeq
<1>3. n = 1 \/ n > 1
  BY <1>2
<1> QED BY <1>1, <1>3

\* The parts of a name are good unless they are one, of a file of a package.
LEMMA GoodIf ==
  ASSUME NEW p, NEW pkg, IsSeq(p), p # <<>>, Len(p) = 1 => pkg = NoPackage \/ is_builtin(p)
  PROVE  GoodParts(p, pkg)
<1>1. Len(p) = 1 \/ Len(p) > 1
  BY OneOrMore
<1>2. CASE Len(p) = 1
  BY <1>2 DEF GoodParts
<1>3. CASE Len(p) > 1
  BY <1>3 DEF GoodParts
<1> QED BY <1>1, <1>2, <1>3

\* _load_field_line gives a type without a package that of its file.
LEMMA LoadedField ==
  ASSUME NEW l, NEW pkg, IsSeq(l.type.parts), l.type.parts # <<>>
  PROVE  GoodParts(_load_field_line(l, pkg).type.parts, pkg)
<1>0. PICK p, q, header : /\ p = l.type.parts /\ q = _load_field_line(l, pkg).type.parts
                          /\ header = (l.type = Type(HEADER, <<>>))
  OBVIOUS
<1>1. IsSeq(p) /\ p # <<>>
  BY <1>0
<1>2. \/ q = HEADER_FULL_NAME
      \/ q = <<pkg>> \o p
      \/ q = p /\ (Len(p) = 1 => pkg = NoPackage \/ is_builtin(p))
  <2>1. CASE header
    BY <1>0, <2>1 DEF _load_field_line, Type
  <2>2. CASE ~header /\ pkg # NoPackage /\ Len(p) = 1 /\ ~is_builtin(p)
    BY <1>0, <2>2 DEF _load_field_line, Type
  <2>3. CASE ~header /\ ~(pkg # NoPackage /\ Len(p) = 1 /\ ~is_builtin(p))
    <3>1. q = p
      BY <1>0, <2>3 DEF _load_field_line
    <3> QED BY <3>1, <2>3
  <2> QED BY <2>1, <2>2, <2>3
<1>3. CASE q = HEADER_FULL_NAME
  <2>1. IsSeq(q) /\ Len(q) = 2
    BY <1>3, HeaderName
  <2>2. q # <<>> /\ Len(q) # 1
    BY <2>1
  <2>3. GoodParts(q, pkg)
    BY <2>1, <2>2, GoodIf
  <2> QED BY <2>3, <1>0
<1>4. CASE q = <<pkg>> \o p
  <2>1. IsSeq(q) /\ Len(q) = Len(p) + 1 /\ Len(p) \in Nat
    BY <1>1, <1>4, OneFirst
  <2>2. q # <<>> /\ Len(p) # 0
    BY <1>1, <2>1 DEF IsSeq
  <2>3. Len(q) # 1
    BY <2>1, <2>2
  <2>4. GoodParts(q, pkg)
    BY <2>1, <2>2, <2>3, GoodIf
  <2> QED BY <2>4, <1>0
<1>5. CASE q = p /\ (Len(p) = 1 => pkg = NoPackage \/ is_builtin(p))
  <2>1. GoodParts(q, pkg)
    BY <1>1, <1>5, GoodIf
  <2> QED BY <2>1, <1>0
<1> QED BY <1>2, <1>3, <1>4, <1>5

\* A type that is looked up has a package, and in a file of a package it is the
\* one the loaded field names.
LEMMA LookedUp ==
  ASSUME NEW spec, NEW n, GoodSpec(spec, n), NEW i \in DOMAIN spec.fields
  PROVE  /\ \/ is_builtin(FieldName(spec, i))
            \/ IsSeq(FieldName(spec, i)) /\ Len(FieldName(spec, i)) > 1
         /\ spec.package # NoPackage => FieldName(spec, i) = spec.fields[i].type.parts
<1>0. PICK p, pkg, t : p = spec.fields[i].type.parts /\ pkg = spec.package
                           /\ t = bare_msg_type(spec.fields[i].type)
  OBVIOUS
<1>1. GoodParts(p, pkg) /\ t.parts = p /\ FieldName(spec, i) = resolve_type(t, pkg).parts
  BY <1>0 DEF GoodSpec, bare_msg_type, Type, FieldName
<1>2. IsSeq(p) /\ p # <<>> /\ Len(p) \in Nat \ {0}
  BY <1>1 DEF GoodParts, IsSeq
<1>3. PICK r : r = resolve_type(t, pkg).parts
  OBVIOUS
<1> DEFINE goal == /\ is_builtin(r) \/ (IsSeq(r) /\ Len(r) > 1)
                   /\ pkg # NoPackage => r = p
<1>4. ASSUME is_builtin(p) PROVE goal
  <2>1. r = p
    BY <1>1, <1>3, <1>4 DEF resolve_type
  <2>2. is_builtin(r)
    BY <2>1, <1>4
  <2> QED BY <2>1, <2>2
<1>5. ASSUME ~is_builtin(p), p = HEADER PROVE goal
  <2>1. Len(p) = 1
    BY <1>5 DEF HEADER
  <2>2. r = HEADER_FULL_NAME
    BY <1>1, <1>3, <1>5 DEF resolve_type, Type
  <2>3. pkg = NoPackage
    BY <2>1, <1>1, <1>5 DEF GoodParts
  <2>4. IsSeq(r) /\ Len(r) > 1
    BY <2>2, HeaderName
  <2> QED BY <2>3, <2>4
<1>6. ASSUME ~is_builtin(p), p # HEADER, Len(p) > 1 PROVE goal
  <2>1. r = p
    BY <1>1, <1>3, <1>6 DEF resolve_type
  <2> QED BY <2>1, <1>2, <1>6
<1>7. ASSUME ~is_builtin(p), p # HEADER, ~(Len(p) > 1) PROVE goal
  <2>1. r = <<pkg>> \o p
    BY <1>1, <1>3, <1>7 DEF resolve_type, Type
  <2>2. pkg = NoPackage
    BY <1>1, <1>7 DEF GoodParts
  <2>3. IsSeq(r) /\ Len(r) = Len(p) + 1
    BY <2>1, <1>2, OneFirst
  <2>4. Len(r) > 1
    BY <2>3, <1>2
  <2> QED BY <2>2, <2>3, <2>4
<1>8. goal
  BY <1>4, <1>5, <1>6, <1>7
<1>9. FieldName(spec, i) = r
  BY <1>1, <1>3
<1> QED BY <1>0, <1>8, <1>9

\* load_msg_from_string registers a good specification or leaves the context.
LEMMA FromString ==
  ASSUME NEW ctx, NEW text, IsText(text), NEW full
  PROVE  LET loaded == load_msg_from_string(ctx, text, full)
         IN  \/ loaded.err # "none" /\ loaded.ctx = ctx
             \/ /\ loaded.err = "none" /\ GoodSpec(loaded.spec, full) /\ ~(Len(full) > 2)
                /\ loaded.ctx = Register(ctx, full, loaded.spec)
<1> DEFINE names == package_resource_name(full)
           lines == Of(text, "field")
           fields == [i \in DOMAIN lines |-> _load_field_line(lines[i], names.package)]
           spec == MsgSpecOf(text, full, names.package, fields)
           err == IF names.err # "none" THEN names.err
                  ELSE IF \E i \in DOMAIN text: LineError(text[i]) # "none" THEN "InvalidMsgSpec"
                  ELSE MsgSpecError(fields)
<1>1. load_msg_from_string(ctx, text, full) = Registered(ctx, spec, err)
  BY DEF load_msg_from_string
<1>2. IsSeq(lines) /\ ToSet(lines) \subseteq {l \in ToSet(text) : l.k = "field"}
  BY OfLines DEF IsText, IsSeq
<1>3. ASSUME NEW i \in DOMAIN lines PROVE IsSeq(lines[i].type.parts) /\ lines[i].type.parts # <<>>
  <2>1. lines[i] \in ToSet(text) /\ lines[i].k = "field"
    BY <1>2 DEF ToSet
  <2> QED BY <2>1 DEF IsText, IsSeq
<1> HIDE DEF lines
<1>4. Len(lines) \in Nat /\ DOMAIN lines = 1..Len(lines)
  BY <1>2 DEF IsSeq
<1>5. IsSeq(fields)
  BY <1>4, FunctionSeq
<1>6. \A i \in DOMAIN fields : GoodParts(fields[i].type.parts, names.package)
  BY <1>3, LoadedField
<1> HIDE DEF fields, err
<1>7. GoodSpec(spec, full) /\ spec.full_name = full
  BY <1>5, <1>6 DEF GoodSpec, MsgSpecOf, PackageOf
<1>8. err = "none" => ~(Len(full) > 2)
  BY DEF err, package_resource_name
<1> HIDE DEF spec
<1> QED BY <1>1, <1>7, <1>8 DEF Registered

-----------------------------------------------------------------------------
(* Finding and loading the file of a type.                                 *)

\* Texts for the files there are, and the environment they make.
IsSources(f) == DOMAIN f = DOMAIN Initial /\ \A x \in DOMAIN f : IsText(f[x])
EnvOf(f) == [path |-> Path, fs |-> f]

\* Which file a type has depends on which files there are.
LEMMA SameFile ==
  ASSUME NEW f, NEW g, DOMAIN f = DOMAIN g, NEW pkg, NEW base
  PROVE  get_msg_file(EnvOf(f), pkg, base) = get_msg_file(EnvOf(g), pkg, base)
BY DEF get_msg_file, EnvOf

\* A file that is found is there, and its package has a name.
LEMMA FoundFile ==
  ASSUME NEW f, NEW pkg, NEW base, get_msg_file(EnvOf(f), pkg, base).err = "none"
  PROVE  get_msg_file(EnvOf(f), pkg, base).file \in DOMAIN f /\ pkg # NoPackage
<1> DEFINE dirs == IF pkg \in DOMAIN Path THEN Path[pkg] ELSE <<>>
           holding == {i \in DOMAIN dirs : <<dirs[i], base>> \in DOMAIN f}
           at == get_msg_file(EnvOf(f), pkg, base)
<1>1. at = IF holding = {} THEN [err |-> "MsgNotFound"]
           ELSE [err |-> "none", file |-> <<dirs[Min(holding)], base>>]
  BY DEF get_msg_file, EnvOf
<1>2. holding # {} /\ at.file = <<dirs[Min(holding)], base>>
  <2> HIDE DEF holding, dirs
  <2>1. CASE holding = {}
    <3>1. at.err = "MsgNotFound"
      BY <1>1, <2>1
    <3> QED BY <3>1
  <2> QED BY <1>1, <2>1
<1>3. pkg \in DOMAIN Path /\ dirs = Path[pkg]
  <2>1. PICK i \in DOMAIN dirs : TRUE
    BY <1>2
  <2>2. dirs # <<>>
    BY <2>1
  <2> QED BY <2>2
<1>4. holding \subseteq Nat
  <2>1. Path[pkg] \in Seq(ToSet(Path[pkg]))
    BY <1>3, SourcesAssumption
  <2>2. DOMAIN Path[pkg] \subseteq Nat
    BY <2>1
  <2> QED BY <2>2, <1>3
<1>5. PICK x \in holding : \A y \in holding : x <= y
  <2> HIDE DEF holding
  <2> QED BY <1>2, <1>4, LeastNumber
<1>6. Min(holding) \in holding
  BY <1>5 DEF Min
<1>7. <<dirs[Min(holding)], base>> \in DOMAIN f
  BY <1>6
<1> QED BY <1>2, <1>3, <1>7, SourcesAssumption

\* A type that is loaded is registered with what its file says, and the file is
\* noted; other texts of other files make no difference.
LEMMA ByType ==
  ASSUME NEW ctx, IsContext(ctx), NEW f, IsSources(f), NEW t, t # HEADER,
         load_msg_by_type(ctx, EnvOf(f), t).err = "none"
  PROVE  \E spec, file :
           /\ file \in DOMAIN f /\ GoodSpec(spec, t) /\ spec.package # NoPackage
           /\ load_msg_by_type(ctx, EnvOf(f), t).ctx =
                [reg |-> Put(ctx.reg, t, spec), dep |-> ctx.dep, file |-> Put(ctx.file, t, file)]
           /\ \A g : DOMAIN g = DOMAIN f /\ g[file] = f[file]
                => load_msg_by_type(ctx, EnvOf(g), t) = load_msg_by_type(ctx, EnvOf(f), t)
<1> DEFINE names == package_resource_name(t)
           at == get_msg_file(EnvOf(f), names.package, names.base)
           read(g) == load_msg_from_string(ctx, g[at.file], t)
           load(g) == load_msg_by_type(ctx, EnvOf(g), t)
<1>1. names.err = "none"
  BY DEF load_msg_by_type
<1>2. \A g : DOMAIN g = DOMAIN f => load(g) = LoadFound(ctx, EnvOf(g), t, at)
  <2>1. ASSUME NEW g, DOMAIN g = DOMAIN f PROVE load(g) = LoadFound(ctx, EnvOf(g), t, at)
    <3>1. get_msg_file(EnvOf(g), names.package, names.base) = at
      BY <2>1, SameFile
    <3> QED BY <1>1, <3>1 DEF load_msg_by_type
  <2> QED BY <2>1
<1>3. load(f) = LoadFound(ctx, EnvOf(f), t, at)
  BY <1>2
<1>4. at.err = "none"
  BY <1>3 DEF LoadFound
<1>5. at.file \in DOMAIN f /\ names.package # NoPackage
  BY <1>4, FoundFile
<1>6. PICK file : file = at.file
  OBVIOUS
<1>7. \A g : DOMAIN g = DOMAIN f => load(g) = LoadedFrom(read(g), t, file)
  <2>1. ASSUME NEW g PROVE load_msg_from_file(ctx, EnvOf(g), at.file, t) = read(g)
    BY DEF load_msg_from_file, EnvOf
  <2> HIDE DEF at, read, load
  <2>2. ASSUME NEW g, DOMAIN g = DOMAIN f PROVE load(g) = LoadedFrom(read(g), t, file)
    <3>1. load(g) = LoadFound(ctx, EnvOf(g), t, at)
      BY <1>2, <2>2
    <3> QED BY <3>1, <1>4, <1>6, <2>1 DEF LoadFound
  <2> QED BY <2>2
<1>8. load(f) = LoadedFrom(read(f), t, file)
  BY <1>7
<1>9. IsText(f[file])
  BY <1>5, <1>6 DEF IsSources
<1>10. read(f).err = "none"
  BY <1>8 DEF LoadedFrom
<1>11. GoodSpec(read(f).spec, t) /\ read(f).ctx = Register(ctx, t, read(f).spec)
  <2>1. read(f) = load_msg_from_string(ctx, f[file], t)
    BY <1>6
  <2> QED BY <2>1, <1>9, <1>10, FromString
<1>12. PICK spec : spec = read(f).spec
  OBVIOUS
<1>13. spec.package # NoPackage
  <2>1. spec.package = PackageOf(t)
    BY <1>11, <1>12 DEF GoodSpec
  <2> QED BY <2>1, <1>5 DEF PackageOf
<1>14. Register(ctx, t, spec) = [reg |-> Put(ctx.reg, t, spec), dep |-> ctx.dep, file |-> ctx.file]
  BY DEF Register, IsContext
<1>15. PICK r : r = read(f)
  OBVIOUS
<1>16. load(f) = [r EXCEPT !.ctx = SetFile(@, t, file)]
  BY <1>8, <1>10, <1>15 DEF LoadedFrom
<1>17. "ctx" \in DOMAIN r
  <2>1. r = Registered(ctx, MsgSpecOf(f[file], t, names.package,
                [i \in DOMAIN Of(f[file], "field") |->
                   _load_field_line(Of(f[file], "field")[i], names.package)]), "none")
    BY <1>6, <1>10, <1>15 DEF load_msg_from_string, Registered
  <2> QED BY <2>1 DEF Registered
<1>18. load(f).ctx = SetFile(r.ctx, t, file)
  BY <1>16, <1>17
<1>19. load(f).ctx = [reg |-> Put(ctx.reg, t, spec), dep |-> ctx.dep, file |-> Put(ctx.file, t, file)]
  <2>1. r.ctx = [reg |-> Put(ctx.reg, t, spec), dep |-> ctx.dep, file |-> ctx.file]
    BY <1>11, <1>12, <1>14, <1>15
  <2>2. SetFile(r.ctx, t, file) = [reg |-> Put(ctx.reg, t, spec), dep |-> ctx.dep, file |-> Put(ctx.file, t, file)]
    BY <2>1 DEF SetFile
  <2> QED BY <1>18, <2>2
<1>20. \A g : DOMAIN g = DOMAIN f /\ g[file] = f[file] => load(g) = load(f)
  <2>1. ASSUME NEW g, g[file] = f[file] PROVE read(g) = read(f)
    BY <2>1, <1>6
  <2> HIDE DEF read, load
  <2> QED BY <1>7, <2>1
<1> QED BY <1>5, <1>6, <1>11, <1>12, <1>13, <1>19, <1>20

\* What LoadUnlessRegistered leaves when it does not fail.
LEMMA UnlessRegistered ==
  ASSUME NEW ctx, IsContext(ctx), NEW f, IsSources(f), NEW t, t # HEADER,
         LoadUnlessRegistered(ctx, EnvOf(f), t).err = "none"
  PROVE  \/ /\ t \in DOMAIN ctx.reg /\ LoadUnlessRegistered(ctx, EnvOf(f), t).ctx = ctx
            /\ \A g : LoadUnlessRegistered(ctx, EnvOf(g), t) = LoadUnlessRegistered(ctx, EnvOf(f), t)
         \/ /\ t \notin DOMAIN ctx.reg
            /\ \E spec, file :
                 /\ file \in DOMAIN f /\ GoodSpec(spec, t) /\ spec.package # NoPackage
                 /\ LoadUnlessRegistered(ctx, EnvOf(f), t).ctx =
                      [reg |-> Put(ctx.reg, t, spec), dep |-> ctx.dep, file |-> Put(ctx.file, t, file)]
                 /\ \A g : DOMAIN g = DOMAIN f /\ g[file] = f[file]
                      => LoadUnlessRegistered(ctx, EnvOf(g), t) = LoadUnlessRegistered(ctx, EnvOf(f), t)
<1>1. ~(Len(t) > 2)
  <2>1. CASE Len(t) > 2
    <3>1. LoadUnlessRegistered(ctx, EnvOf(f), t).err = "ValueError"
      BY <2>1 DEF LoadUnlessRegistered
    <3> QED BY <3>1
  <2> QED BY <2>1
<1>2. CASE t \in DOMAIN ctx.reg
  <2>1. \A g : LoadUnlessRegistered(ctx, EnvOf(g), t) = [err |-> "none", ctx |-> ctx]
    BY <1>1, <1>2 DEF LoadUnlessRegistered, is_registered
  <2> QED BY <2>1, <1>2
<1>3. CASE t \notin DOMAIN ctx.reg
  <2>1. \A g : LoadUnlessRegistered(ctx, EnvOf(g), t) = load_msg_by_type(ctx, EnvOf(g), t)
    BY <1>1, <1>3 DEF LoadUnlessRegistered, is_registered
  <2>2. load_msg_by_type(ctx, EnvOf(f), t).err = "none"
    BY <2>1
  <2>3. PICK spec, file :
           /\ file \in DOMAIN f /\ GoodSpec(spec, t) /\ spec.package # NoPackage
           /\ load_msg_by_type(ctx, EnvOf(f), t).ctx =
                [reg |-> Put(ctx.reg, t, spec), dep |-> ctx.dep, file |-> Put(ctx.file, t, file)]
           /\ \A g : DOMAIN g = DOMAIN f /\ g[file] = f[file]
                => load_msg_by_type(ctx, EnvOf(g), t) = load_msg_by_type(ctx, EnvOf(f), t)
    BY <2>2, ByType
  <2> QED BY <2>1, <2>3, <1>3
<1> QED BY <1>2, <1>3

-----------------------------------------------------------------------------
(* The context and the calls while dependencies are loaded.                *)

\* The names the first fields of a specification need, and those all need.
Uses(spec, n) ==
  {FieldName(spec, i) : i \in {k \in DOMAIN spec.fields : k < n /\ ~is_builtin(FieldName(spec, k))}}
AllUses(spec) ==
  {FieldName(spec, i) : i \in {k \in DOMAIN spec.fields : ~is_builtin(FieldName(spec, k))}}

\* Dependencies have a smaller rank.
Ranked(dep, r, k) ==
  /\ k \in Nat /\ r \in [DOMAIN dep -> 0..k]
  /\ \A n \in DOMAIN dep : \A d \in ToSet(dep[n]) : r[d] < r[n]

\* Besides the builtin types a context holds the roots, which the loading began
\* with, and what was loaded from files. The dependencies it has for a name are
\* what the fields of its specification need, and they have dependencies too.
GoodContext(ctx, Roots) ==
  /\ IsContext(ctx)
  /\ \A n \in DOMAIN ctx.reg : /\ GoodSpec(ctx.reg[n], n)
                               /\ is_builtin(n) \/ n \in DOMAIN ctx.file \cup Roots
  /\ \A n \in DOMAIN ctx.file : n \in DOMAIN ctx.reg /\ ctx.file[n] \in DOMAIN Initial
  /\ \A n \in DOMAIN ctx.file \cup Roots : n \in DOMAIN ctx.reg => ctx.reg[n].package # NoPackage
  /\ \A n \in DOMAIN ctx.dep : /\ n \in DOMAIN ctx.file \cup Roots /\ n \in DOMAIN ctx.reg
                               /\ IsSeq(ctx.dep[n]) /\ ToSet(ctx.dep[n]) = AllUses(ctx.reg[n])
                               /\ ToSet(ctx.dep[n]) \subseteq DOMAIN ctx.dep
  /\ \E r, k : Ranked(ctx.dep, r, k)

\* A call has collected what its fields so far need.
GoodCall(ctx, c, Roots) ==
  /\ c = [spec |-> c.spec, at |-> c.at, deps |-> c.deps]
  /\ c.spec.full_name \in DOMAIN ctx.reg /\ ctx.reg[c.spec.full_name] = c.spec
  /\ c.spec.full_name \in DOMAIN ctx.file \cup Roots
  /\ c.at \in 1 .. Len(c.spec.fields) + 1
  /\ IsSeq(c.deps) /\ ToSet(c.deps) = Uses(c.spec, c.at)

\* A call that has not returned and is not the innermost waits for the name its
\* last field needs; all before have their dependencies.
Waiting(ctx, c, name) ==
  /\ c.at > 1 /\ c.at - 1 \in DOMAIN c.spec.fields
  /\ FieldName(c.spec, c.at - 1) = name /\ ~is_builtin(name)
  /\ Uses(c.spec, c.at - 1) \subseteq DOMAIN ctx.dep

\* No name on the way has its dependencies set: only the root of a loading may,
\* when an earlier loading met it, and then nothing is left to load.
GoodCalls(ctx, calls, Roots) ==
  /\ IsSeq(calls)
  /\ \A i \in DOMAIN calls : GoodCall(ctx, calls[i], Roots)
  /\ \A i \in DOMAIN calls : i < Len(calls) => Waiting(ctx, calls[i], calls[i + 1].spec.full_name)
  /\ calls # <<>> => Uses(Last(calls).spec, Last(calls).at) \subseteq DOMAIN ctx.dep
  /\ Len(calls) > 1 => \A i \in DOMAIN calls : calls[i].spec.full_name \notin DOMAIN ctx.dep

\* Whatever was loaded is a dependency of something.
Accounted(ctx, calls, Roots) ==
  \A n \in DOMAIN ctx.file \ Roots :
    \/ \E m \in DOMAIN ctx.dep : n \in ToSet(ctx.dep[m])
    \/ \E i \in DOMAIN calls : n \in ToSet(calls[i].deps)

GoodLoading(l, Roots) ==
  /\ l = [err |-> l.err, ctx |-> l.ctx, calls |-> l.calls]
  /\ l.err = "none" => /\ GoodContext(l.ctx, Roots) /\ GoodCalls(l.ctx, l.calls, Roots)
                       /\ Accounted(l.ctx, l.calls, Roots)

\* One field more.
LEMMA UsesNext ==
  ASSUME NEW spec, NEW n, IsSeq(spec.fields), n \in DOMAIN spec.fields
  PROVE  /\ n + 1 \in 1 .. Len(spec.fields) + 1
         /\ is_builtin(FieldName(spec, n)) => Uses(spec, n + 1) = Uses(spec, n)
         /\ ~is_builtin(FieldName(spec, n)) =>
              Uses(spec, n + 1) = Uses(spec, n) \cup {FieldName(spec, n)}
<1>1. DOMAIN spec.fields \subseteq Nat /\ Len(spec.fields) \in Nat
      /\ DOMAIN spec.fields = 1 .. Len(spec.fields)
  BY DEF IsSeq
<1>2. \A k \in DOMAIN spec.fields : k < n + 1 <=> (k < n \/ k = n)
  BY <1>1
<1>3. n + 1 \in 1 .. Len(spec.fields) + 1
  BY <1>1
<1>4. CASE is_builtin(FieldName(spec, n))
  <2>1. {k \in DOMAIN spec.fields : k < n + 1 /\ ~is_builtin(FieldName(spec, k))} =
        {k \in DOMAIN spec.fields : k < n /\ ~is_builtin(FieldName(spec, k))}
    BY <1>2, <1>4
  <2> QED BY <2>1, <1>3, <1>4 DEF Uses
<1>5. CASE ~is_builtin(FieldName(spec, n))
  <2>1. {k \in DOMAIN spec.fields : k < n + 1 /\ ~is_builtin(FieldName(spec, k))} =
        {k \in DOMAIN spec.fields : k < n /\ ~is_builtin(FieldName(spec, k))} \cup {n}
    BY <1>2, <1>5
  <2> QED BY <2>1, <1>3, <1>5 DEF Uses
<1> QED BY <1>4, <1>5

\* No field, and all fields.
LEMMA UsesEnds ==
  ASSUME NEW spec, IsSeq(spec.fields)
  PROVE  /\ Uses(spec, 1) = {} /\ 1 \in 1 .. Len(spec.fields) + 1
         /\ \A n \in 1 .. Len(spec.fields) + 1 :
              /\ Uses(spec, n) \subseteq AllUses(spec)
              /\ n \notin DOMAIN spec.fields => Uses(spec, n) = AllUses(spec)
         /\ \A n \in DOMAIN spec.fields : ~is_builtin(FieldName(spec, n)) => FieldName(spec, n) \in AllUses(spec)
<1>1. Len(spec.fields) \in Nat /\ DOMAIN spec.fields = 1 .. Len(spec.fields)
  BY DEF IsSeq
<1>2. \A k \in DOMAIN spec.fields : ~(k < 1)
  BY <1>1
<1>3. Uses(spec, 1) = {}
  BY <1>2 DEF Uses
<1>4. ASSUME NEW n \in 1 .. Len(spec.fields) + 1
      PROVE  /\ Uses(spec, n) \subseteq AllUses(spec)
             /\ n \notin DOMAIN spec.fields => Uses(spec, n) = AllUses(spec)
  <2>1. Uses(spec, n) \subseteq AllUses(spec)
    BY DEF Uses, AllUses
  <2>2. n \notin DOMAIN spec.fields => \A k \in DOMAIN spec.fields : k < n
    BY <1>1
  <2>3. ASSUME n \notin DOMAIN spec.fields PROVE Uses(spec, n) = AllUses(spec)
    BY <2>2, <2>3 DEF Uses, AllUses
  <2> QED BY <2>1, <2>3
<1>5. ASSUME NEW n \in DOMAIN spec.fields, ~is_builtin(FieldName(spec, n))
      PROVE  FieldName(spec, n) \in AllUses(spec)
  BY <1>5 DEF AllUses
<1>6. 1 \in 1 .. Len(spec.fields) + 1
  BY <1>1
<1> QED BY <1>3, <1>4, <1>5, <1>6

\* ctx2 holds what ctx1 holds, and maybe more; what is registered is not loaded
\* again.
Grown(ctx1, ctx2) ==
  /\ \A n \in DOMAIN ctx1.reg : n \in DOMAIN ctx2.reg /\ ctx2.reg[n] = ctx1.reg[n]
  /\ \A n \in DOMAIN ctx1.file : n \in DOMAIN ctx2.file /\ ctx2.file[n] = ctx1.file[n]
  /\ DOMAIN ctx1.dep \subseteq DOMAIN ctx2.dep
  /\ \A n \in DOMAIN ctx1.reg : n \in DOMAIN ctx2.file => n \in DOMAIN ctx1.file

\* The calls are as good in a context that has grown.
LEMMA GrownCall ==
  ASSUME NEW ctx1, NEW ctx2, Grown(ctx1, ctx2), NEW c, NEW Roots
  PROVE  /\ GoodCall(ctx1, c, Roots) => GoodCall(ctx2, c, Roots)
         /\ \A name : Waiting(ctx1, c, name) => Waiting(ctx2, c, name)
BY DEF Grown, GoodCall, Waiting

\* A file that is loaded: the context after it.
AfterLoading(ctx, ctx2, t, spec, Roots) ==
  /\ GoodContext(ctx2, Roots) /\ Grown(ctx, ctx2)
  /\ t \in DOMAIN ctx2.file /\ ctx2.reg[t] = spec /\ t \in DOMAIN ctx2.reg
  /\ DOMAIN ctx2.file = DOMAIN ctx.file \cup {t} /\ ctx2.dep = ctx.dep

\* The file of a type is loaded: what the context keeps and gains.
LEMMA LoadedContext ==
  ASSUME NEW ctx, NEW Roots, GoodContext(ctx, Roots), NEW t, t \notin DOMAIN ctx.reg,
         NEW spec, NEW file, file \in DOMAIN Initial, GoodSpec(spec, t), spec.package # NoPackage,
         NEW ctx2,
         ctx2 = [reg |-> Put(ctx.reg, t, spec), dep |-> ctx.dep, file |-> Put(ctx.file, t, file)]
  PROVE  AfterLoading(ctx, ctx2, t, spec, Roots)
<1>1. /\ DOMAIN ctx2.reg = DOMAIN ctx.reg \cup {t} /\ DOMAIN ctx2.file = DOMAIN ctx.file \cup {t}
      /\ ctx2.dep = ctx.dep
      /\ \A n \in DOMAIN ctx2.reg : ctx2.reg[n] = IF n = t THEN spec ELSE ctx.reg[n]
      /\ \A n \in DOMAIN ctx2.file : ctx2.file[n] = IF n = t THEN file ELSE ctx.file[n]
  BY DEF Put
<1>2. IsContext(ctx2)
  BY DEF IsContext
<1>3. t \notin DOMAIN ctx.file /\ t \notin DOMAIN ctx.dep
  BY DEF GoodContext
<1>4. Grown(ctx, ctx2)
  BY <1>1, <1>3 DEF Grown
<1>5. \A n \in DOMAIN ctx2.reg : /\ GoodSpec(ctx2.reg[n], n)
                                 /\ is_builtin(n) \/ n \in DOMAIN ctx2.file \cup Roots
  BY <1>1 DEF GoodContext
<1>6. \A n \in DOMAIN ctx2.file : n \in DOMAIN ctx2.reg /\ ctx2.file[n] \in DOMAIN Initial
  BY <1>1 DEF GoodContext
<1>7. \A n \in DOMAIN ctx2.file \cup Roots : n \in DOMAIN ctx2.reg => ctx2.reg[n].package # NoPackage
  BY <1>1 DEF GoodContext
<1>8. \A n \in DOMAIN ctx2.dep : /\ n \in DOMAIN ctx2.file \cup Roots /\ n \in DOMAIN ctx2.reg
                                 /\ IsSeq(ctx2.dep[n]) /\ ToSet(ctx2.dep[n]) = AllUses(ctx2.reg[n])
                                 /\ ToSet(ctx2.dep[n]) \subseteq DOMAIN ctx2.dep
  BY <1>1, <1>3 DEF GoodContext
<1>9. \E r, k : Ranked(ctx2.dep, r, k)
  BY <1>1 DEF GoodContext
<1>10. GoodContext(ctx2, Roots)
  BY <1>2, <1>5, <1>6, <1>7, <1>8, <1>9 DEF GoodContext
<1> QED BY <1>1, <1>4, <1>10 DEF AfterLoading

\* The rank of a name whose dependencies are set is above theirs.
LEMMA NewRank ==
  ASSUME NEW dep, NEW a, a \notin DOMAIN dep, NEW deps, ToSet(deps) \subseteq DOMAIN dep,
         \A n \in DOMAIN dep : ToSet(dep[n]) \subseteq DOMAIN dep,
         \E r, k : Ranked(dep, r, k)
  PROVE  \E r, k : Ranked(Put(dep, a, deps), r, k)
<1>1. PICK r, k : Ranked(dep, r, k)
  OBVIOUS
<1> DEFINE dep2 == Put(dep, a, deps)
           r2 == [n \in DOMAIN dep2 |-> IF n = a THEN k + 1 ELSE r[n]]
<1>2. DOMAIN dep2 = DOMAIN dep \cup {a} /\ dep2[a] = deps /\ \A n \in DOMAIN dep : dep2[n] = dep[n]
  BY DEF Put
<1>3. k \in Nat /\ \A n \in DOMAIN dep : r[n] \in 0..k
  BY <1>1 DEF Ranked
<1> HIDE DEF dep2
<1>4. r2 \in [DOMAIN dep2 -> 0 .. k + 1] /\ k + 1 \in Nat
  BY <1>2, <1>3
<1>5. r2[a] = k + 1 /\ \A n \in DOMAIN dep : r2[n] = r[n]
  BY <1>2
<1> HIDE DEF r2
<1>6. ASSUME NEW n \in DOMAIN dep2, NEW d \in ToSet(dep2[n]) PROVE r2[d] < r2[n]
  <2>1. CASE n = a
    <3>1. d \in DOMAIN dep
      BY <2>1, <1>2
    <3>2. r2[d] \in 0..k
      BY <3>1, <1>3, <1>5
    <3> QED BY <3>2, <2>1, <1>3, <1>5
  <2>2. CASE n # a
    <3>1. n \in DOMAIN dep /\ d \in ToSet(dep[n]) /\ d \in DOMAIN dep
      BY <2>2, <1>2
    <3>2. r[d] < r[n]
      BY <3>1, <1>1 DEF Ranked
    <3> QED BY <3>1, <3>2, <1>5
  <2> QED BY <2>1, <2>2
<1>7. Ranked(dep2, r2, k + 1)
  BY <1>4, <1>6 DEF Ranked
<1> QED BY <1>7 DEF dep2

\* w is s with another last element.
EndsWith(w, s, e) ==
  /\ IsSeq(w) /\ w # <<>> /\ Len(w) = Len(s) /\ DOMAIN w = 1..Len(s)
  /\ Last(w) = e /\ w[Len(s)] = e
  /\ \A i \in 1..Len(s) : i # Len(s) => w[i] = s[i]

\* The innermost call replaced.
LEMMA Replaced ==
  ASSUME NEW s, IsSeq(s), s # <<>>, NEW e
  PROVE  EndsWith(Append(Front(s), e), s, e)
<1>0. PICK w : w = Append(Front(s), e)
  OBVIOUS
<1>1. PICK n, f : n = Len(s) /\ f = Front(s)
  OBVIOUS
<1>2. /\ n \in Nat \ {0} /\ DOMAIN s = 1..n /\ IsSeq(f) /\ Len(f) = n - 1
      /\ \A i \in 1 .. n - 1 : f[i] = s[i]
  BY <1>1, FrontSeq
<1>3. /\ IsSeq(w) /\ Len(w) = (n - 1) + 1 /\ \A i \in 1 .. n - 1 : w[i] = f[i]
      /\ w[(n - 1) + 1] = e
  BY <1>0, <1>1, <1>2, AppendSeq
<1>4. (n - 1) + 1 = n /\ Len(w) = n /\ \A i \in 1..n : i # n => i \in 1 .. n - 1
  BY <1>2, <1>3
<1>5. DOMAIN w = 1..n /\ w # <<>>
  BY <1>2, <1>3, <1>4 DEF IsSeq
<1>6. Last(w) = e /\ w[n] = e
  BY <1>3, <1>4 DEF Last
<1>7. \A i \in 1..n : i # n => w[i] = s[i]
  BY <1>2, <1>3, <1>4
<1>8. EndsWith(w, s, e)
  BY <1>1, <1>3, <1>4, <1>5, <1>6, <1>7 DEF EndsWith
<1> QED BY <1>0, <1>8

\* Facts about the calls, by their places.
LEMMA CallPlaces ==
  ASSUME NEW ctx, NEW calls, NEW Roots, GoodCalls(ctx, calls, Roots), calls # <<>>
  PROVE  /\ Len(calls) \in Nat \ {0} /\ DOMAIN calls = 1..Len(calls)
         /\ Last(calls) = calls[Len(calls)] /\ GoodCall(ctx, Last(calls), Roots)
<1>1. IsSeq(calls)
  BY DEF GoodCalls
<1>2. Len(calls) \in Nat \ {0} /\ DOMAIN calls = 1..Len(calls) /\ Last(calls) = calls[Len(calls)]
  BY <1>1, FrontSeq
<1>3. Len(calls) \in DOMAIN calls
  BY <1>2
<1> QED BY <1>2, <1>3 DEF GoodCalls

\* The innermost call goes to its next field.
LEMMA MovedCalls ==
  ASSUME NEW ctx, NEW ctx2, NEW calls, NEW Roots, GoodCalls(ctx, calls, Roots), calls # <<>>,
         Grown(ctx, ctx2), ctx2.dep = ctx.dep,
         NEW c, GoodCall(ctx2, c, Roots), c.spec = Last(calls).spec,
         Uses(c.spec, c.at) \subseteq DOMAIN ctx.dep,
         NEW calls2, calls2 = Append(Front(calls), c)
  PROVE  GoodCalls(ctx2, calls2, Roots)
<1>0. PICK n : n = Len(calls)
  OBVIOUS
<1>1. IsSeq(calls) /\ n \in Nat \ {0} /\ DOMAIN calls = 1..n /\ Last(calls) = calls[n]
  BY <1>0, CallPlaces DEF GoodCalls
<1>2. /\ IsSeq(calls2) /\ calls2 # <<>> /\ Len(calls2) = n /\ DOMAIN calls2 = 1..n
      /\ Last(calls2) = c /\ calls2[n] = c
      /\ \A i \in 1..n : i # n => calls2[i] = calls[i]
  <2>1. EndsWith(calls2, calls, c)
    BY <1>1, Replaced
  <2> QED BY <2>1, <1>0 DEF EndsWith
<1>3. \A i \in 1..n : calls2[i].spec = calls[i].spec
  BY <1>1, <1>2
<1>4. \A i \in 1..n : GoodCall(ctx2, calls2[i], Roots)
  <2>1. \A i \in 1..n : GoodCall(ctx2, calls[i], Roots)
    BY <1>1, GrownCall DEF GoodCalls
  <2> QED BY <1>2, <2>1
<1>5. ASSUME NEW i \in 1..n, i < n PROVE Waiting(ctx2, calls2[i], calls2[i + 1].spec.full_name)
  <2>1. Waiting(ctx, calls[i], calls[i + 1].spec.full_name)
    BY <1>0, <1>1, <1>5 DEF GoodCalls
  <2>2. i # n /\ i + 1 \in 1..n
    BY <1>1, <1>5
  <2>3. calls2[i] = calls[i] /\ calls2[i + 1].spec = calls[i + 1].spec
    BY <1>2, <1>3, <2>2
  <2> QED BY <2>1, <2>3, GrownCall
<1>6. n > 1 => \A i \in 1..n : calls2[i].spec.full_name \notin DOMAIN ctx2.dep
  BY <1>0, <1>1, <1>3 DEF GoodCalls
<1> QED BY <1>2, <1>4, <1>5, <1>6 DEF GoodCalls

\* The innermost call waits for a name and the call for it begins.
LEMMA PushedCalls ==
  ASSUME NEW ctx, NEW calls, NEW Roots, GoodCalls(ctx, calls, Roots), calls # <<>>,
         NEW c, GoodCall(ctx, c, Roots), c.spec = Last(calls).spec,
         NEW d, GoodCall(ctx, d, Roots), Uses(d.spec, d.at) = {},
         Waiting(ctx, c, d.spec.full_name), d.spec.full_name \notin DOMAIN ctx.dep,
         c.spec.full_name \notin DOMAIN ctx.dep,
         NEW calls2, calls2 = Append(Append(Front(calls), c), d)
  PROVE  GoodCalls(ctx, calls2, Roots)
<1>0. PICK n, w : n = Len(calls) /\ w = Append(Front(calls), c)
  OBVIOUS
<1>1. IsSeq(calls) /\ n \in Nat \ {0} /\ DOMAIN calls = 1..n /\ Last(calls) = calls[n]
  BY <1>0, CallPlaces DEF GoodCalls
<1>2. /\ IsSeq(w) /\ Len(w) = n /\ w[n] = c /\ \A i \in 1..n : i # n => w[i] = calls[i]
  <2>1. EndsWith(w, calls, c)
    BY <1>0, <1>1, Replaced
  <2> QED BY <2>1, <1>0 DEF EndsWith
<1>3. /\ IsSeq(calls2) /\ Len(calls2) = n + 1 /\ calls2[n + 1] = d
      /\ \A i \in 1..n : calls2[i] = w[i]
  BY <1>0, <1>2, AppendSeq
<1>4. DOMAIN calls2 = 1 .. n + 1 /\ calls2 # <<>> /\ Last(calls2) = d
  BY <1>1, <1>3 DEF IsSeq, Last
<1>5. \A i \in 1 .. n + 1 : i = n + 1 \/ i = n \/ (i \in 1..n /\ i # n)
  BY <1>1
<1>6. \A i \in 1..n : calls2[i].spec = calls[i].spec
  BY <1>1, <1>2, <1>3
<1>7. \A i \in 1 .. n + 1 : GoodCall(ctx, calls2[i], Roots)
  <2>1. \A i \in 1..n : GoodCall(ctx, calls[i], Roots)
    BY <1>1 DEF GoodCalls
  <2>2. n \in 1..n
    BY <1>1
  <2> QED BY <1>2, <1>3, <1>5, <2>1, <2>2
<1>8. ASSUME NEW i \in 1 .. n + 1, i < n + 1
      PROVE  Waiting(ctx, calls2[i], calls2[i + 1].spec.full_name)
  <2>1. CASE i = n
    <3>1. calls2[i] = c /\ calls2[i + 1] = d
      BY <2>1, <1>1, <1>2, <1>3
    <3> QED BY <3>1
  <2>2. CASE i # n
    <3>1. i \in 1..n /\ i < n /\ i + 1 \in 1..n
      BY <1>1, <1>8, <2>2
    <3>2. Waiting(ctx, calls[i], calls[i + 1].spec.full_name)
      BY <1>0, <1>1, <3>1 DEF GoodCalls
    <3>3. calls2[i] = calls[i] /\ calls2[i + 1].spec = calls[i + 1].spec
      BY <3>1, <2>2, <1>2, <1>3, <1>6
    <3> QED BY <3>2, <3>3
  <2> QED BY <2>1, <2>2
<1>9. \A i \in 1 .. n + 1 : calls2[i].spec.full_name \notin DOMAIN ctx.dep
  <2>1. CASE n = 1
    <3>1. \A i \in 1 .. n + 1 : calls2[i] = c \/ calls2[i] = d
      BY <2>1, <1>2, <1>3, <1>5
    <3> QED BY <3>1
  <2>2. CASE n > 1
    BY <2>2, <1>0, <1>1, <1>3, <1>5, <1>6 DEF GoodCalls
  <2>3. n = 1 \/ n > 1
    BY <1>1
  <2> QED BY <2>1, <2>2, <2>3
<1> QED BY <1>3, <1>4, <1>7, <1>8, <1>9 DEF GoodCalls

\* The innermost call returns: the dependencies of its name are set.
LEMMA ReturnedContext ==
  ASSUME NEW ctx, NEW calls, NEW Roots, GoodContext(ctx, Roots), GoodCalls(ctx, calls, Roots),
         calls # <<>>, NEW c, c = Last(calls), c.at \notin DOMAIN c.spec.fields,
         NEW a, a = c.spec.full_name, NEW ctx2, ctx2 = SetDepends(ctx, a, c.deps)
  PROVE  /\ GoodContext(ctx2, Roots) /\ Grown(ctx, ctx2)
         /\ ctx2.file = ctx.file /\ ctx2.reg = ctx.reg
         /\ DOMAIN ctx2.dep = DOMAIN ctx.dep \cup {a} /\ ctx2.dep[a] = c.deps
         /\ \A n \in DOMAIN ctx.dep : ToSet(ctx2.dep[n]) = ToSet(ctx.dep[n])
         /\ AllUses(c.spec) \subseteq DOMAIN ctx.dep /\ ctx.reg[a] = c.spec
<1>1. ctx2 = [reg |-> ctx.reg, dep |-> Put(ctx.dep, a, c.deps), file |-> ctx.file]
  BY DEF SetDepends, GoodContext, IsContext
<1>2. /\ DOMAIN ctx2.dep = DOMAIN ctx.dep \cup {a} /\ ctx2.dep[a] = c.deps
      /\ \A n \in DOMAIN ctx.dep : n # a => ctx2.dep[n] = ctx.dep[n]
      /\ ctx2.file = ctx.file /\ ctx2.reg = ctx.reg /\ ctx2.dep = Put(ctx.dep, a, c.deps)
  BY <1>1 DEF Put
<1>3. GoodCall(ctx, c, Roots) /\ Uses(c.spec, c.at) \subseteq DOMAIN ctx.dep
  BY CallPlaces DEF GoodCalls
<1>4. a \in DOMAIN ctx.reg /\ ctx.reg[a] = c.spec /\ a \in DOMAIN ctx.file \cup Roots
      /\ IsSeq(c.spec.fields)
  BY <1>3 DEF GoodCall, GoodContext, GoodSpec
<1>5. Uses(c.spec, c.at) = AllUses(c.spec)
  BY <1>3, <1>4, UsesEnds DEF GoodCall
<1>6. ToSet(c.deps) = AllUses(c.spec) /\ AllUses(c.spec) \subseteq DOMAIN ctx.dep /\ IsSeq(c.deps)
  BY <1>3, <1>5 DEF GoodCall
<1>7. \A n \in DOMAIN ctx.dep : ToSet(ctx2.dep[n]) = ToSet(ctx.dep[n])
  <2>1. a \in DOMAIN ctx.dep => ToSet(ctx.dep[a]) = AllUses(c.spec)
    BY <1>4 DEF GoodContext
  <2> QED BY <2>1, <1>2, <1>6
<1>8. Grown(ctx, ctx2)
  BY <1>2 DEF Grown
<1>9. \A n \in DOMAIN ctx2.dep : /\ n \in DOMAIN ctx2.file \cup Roots /\ n \in DOMAIN ctx2.reg
                                 /\ IsSeq(ctx2.dep[n]) /\ ToSet(ctx2.dep[n]) = AllUses(ctx2.reg[n])
                                 /\ ToSet(ctx2.dep[n]) \subseteq DOMAIN ctx2.dep
  BY <1>2, <1>4, <1>6 DEF GoodContext
<1>10. \E r, k : Ranked(ctx2.dep, r, k)
  <2>1. CASE a \in DOMAIN ctx.dep
    <3>1. PICK r, k : Ranked(ctx.dep, r, k)
      BY DEF GoodContext
    <3>2. DOMAIN ctx2.dep = DOMAIN ctx.dep
      BY <2>1, <1>2
    <3>3. Ranked(ctx2.dep, r, k)
      BY <3>1, <3>2, <1>7 DEF Ranked
    <3> QED BY <3>3
  <2>2. CASE a \notin DOMAIN ctx.dep
    <3>1. ToSet(c.deps) \subseteq DOMAIN ctx.dep
      BY <1>6
    <3>2. \A n \in DOMAIN ctx.dep : ToSet(ctx.dep[n]) \subseteq DOMAIN ctx.dep
      BY DEF GoodContext
    <3>3. \E r, k : Ranked(ctx.dep, r, k)
      BY DEF GoodContext
    <3> QED BY <2>2, <3>1, <3>2, <3>3, <1>2, NewRank
  <2> QED BY <2>1, <2>2
<1>11. IsContext(ctx2)
  BY <1>1 DEF IsContext
<1>12. GoodContext(ctx2, Roots)
  BY <1>2, <1>9, <1>10, <1>11 DEF GoodContext
<1> QED BY <1>2, <1>4, <1>6, <1>7, <1>8, <1>12

\* The calls that are left.
LEMMA ReturnedCalls ==
  ASSUME NEW ctx, NEW calls, NEW Roots, GoodContext(ctx, Roots), GoodCalls(ctx, calls, Roots),
         calls # <<>>, NEW c, c = Last(calls), c.at \notin DOMAIN c.spec.fields,
         NEW a, a = c.spec.full_name, NEW ctx2, ctx2 = SetDepends(ctx, a, c.deps)
  PROVE  GoodCalls(ctx2, Front(calls), Roots)
<1>0. PICK n, w : n = Len(calls) /\ w = Front(calls)
  OBVIOUS
<1>1. IsSeq(calls) /\ n \in Nat \ {0} /\ DOMAIN calls = 1..n /\ c = calls[n]
  BY <1>0, CallPlaces DEF GoodCalls
<1>2. IsSeq(w) /\ Len(w) = n - 1 /\ \A i \in 1 .. n - 1 : w[i] = calls[i]
  BY <1>0, <1>1, FrontSeq
<1>3. DOMAIN w = 1 .. n - 1 /\ (w # <<>> => n > 1 /\ Last(w) = calls[n - 1])
  <2>1. DOMAIN w = 1 .. n - 1
    BY <1>2 DEF IsSeq
  <2>2. w # <<>> => Len(w) # 0
    BY <1>2 DEF IsSeq
  <2>3. w # <<>> => n - 1 \in 1 .. n - 1 /\ n > 1
    BY <2>2, <1>1, <1>2
  <2> QED BY <2>1, <2>3, <1>2 DEF Last
<1>4. /\ Grown(ctx, ctx2) /\ DOMAIN ctx2.dep = DOMAIN ctx.dep \cup {a}
      /\ AllUses(c.spec) \subseteq DOMAIN ctx.dep /\ ctx.reg[a] = c.spec
  BY ReturnedContext
<1>5. \A i \in 1..n : GoodCall(ctx2, calls[i], Roots)
  BY <1>1, <1>4, GrownCall DEF GoodCalls
<1>6. \A i \in 1..n : i < n => Waiting(ctx, calls[i], calls[i + 1].spec.full_name)
  BY <1>0, <1>1 DEF GoodCalls
<1>7. ASSUME NEW i \in DOMAIN w, i < Len(w) PROVE Waiting(ctx2, w[i], w[i + 1].spec.full_name)
  <2>1. i \in 1..n /\ i < n /\ i + 1 \in 1 .. n - 1 /\ i \in 1 .. n - 1
    BY <1>1, <1>2, <1>3, <1>7
  <2>2. Waiting(ctx2, calls[i], calls[i + 1].spec.full_name)
    BY <1>4, <1>6, <2>1, GrownCall
  <2> QED BY <2>1, <2>2, <1>2
<1>8. ASSUME n > 1 PROVE Uses(calls[n - 1].spec, calls[n - 1].at) \subseteq DOMAIN ctx2.dep
  <2>1. n - 1 \in 1..n /\ n - 1 < n /\ (n - 1) + 1 = n
    BY <1>1, <1>8
  <2>2. PICK b : b = calls[n - 1]
    OBVIOUS
  <2>3. Waiting(ctx, b, a) /\ GoodCall(ctx2, b, Roots)
    BY <1>1, <1>5, <1>6, <2>1, <2>2
  <2>4. GoodSpec(b.spec, b.spec.full_name)
    <3>1. GoodContext(ctx2, Roots)
      BY ReturnedContext
    <3> QED BY <3>1, <2>3 DEF GoodCall, GoodContext
  <2>5. IsSeq(b.spec.fields)
    BY <2>4 DEF GoodSpec
  <2>6. b.at - 1 \in DOMAIN b.spec.fields /\ (b.at - 1) + 1 = b.at
    BY <2>3, <2>5 DEF Waiting, GoodCall, IsSeq
  <2>7. Uses(b.spec, b.at) = Uses(b.spec, b.at - 1) \cup {a}
    BY <2>3, <2>5, <2>6, UsesNext DEF Waiting
  <2> QED BY <2>2, <2>3, <2>7, <1>4 DEF Waiting
<1>9. ASSUME n > 1, NEW i \in 1 .. n - 1 PROVE calls[i].spec.full_name \notin DOMAIN ctx2.dep
  <2>1. i \in 1..n /\ i < n /\ i + 1 \in 1..n
    BY <1>1, <1>9
  <2>2. \A j \in 1..n : calls[j].spec.full_name \notin DOMAIN ctx.dep
    BY <1>0, <1>1, <1>9 DEF GoodCalls
  <2>3. Waiting(ctx, calls[i], calls[i + 1].spec.full_name) /\ GoodCall(ctx, calls[i], Roots)
    BY <1>1, <1>6, <2>1 DEF GoodCalls
  <2>4. PICK b : b = calls[i]
    OBVIOUS
  <2>5. b.spec.full_name # a
    <3>1. ASSUME b.spec.full_name = a PROVE FALSE
      <4>1. b.spec = c.spec
        BY <2>3, <2>4, <3>1, <1>4 DEF GoodCall
      <4>2. /\ b.at - 1 \in DOMAIN c.spec.fields /\ ~is_builtin(FieldName(c.spec, b.at - 1))
            /\ FieldName(c.spec, b.at - 1) = calls[i + 1].spec.full_name
        BY <2>3, <2>4, <4>1 DEF Waiting
      <4>3. calls[i + 1].spec.full_name \in AllUses(c.spec)
        BY <4>2 DEF AllUses
      <4> QED BY <4>3, <2>1, <2>2, <1>4
    <3> QED BY <3>1
  <2> QED BY <2>1, <2>2, <2>4, <2>5, <1>4
<1>10. Len(w) > 1 => n > 1
  BY <1>1, <1>2
<1>11. \A i \in DOMAIN w : GoodCall(ctx2, w[i], Roots)
  <2>1. \A i \in DOMAIN w : i \in 1..n /\ w[i] = calls[i]
    BY <1>1, <1>2, <1>3
  <2> QED BY <2>1, <1>5
<1>12. w # <<>> => Uses(Last(w).spec, Last(w).at) \subseteq DOMAIN ctx2.dep
  BY <1>3, <1>8
<1>13. Len(w) > 1 => \A i \in DOMAIN w : w[i].spec.full_name \notin DOMAIN ctx2.dep
  BY <1>2, <1>3, <1>9, <1>10
<1>14. GoodCalls(ctx2, w, Roots)
  BY <1>2, <1>7, <1>11, <1>12, <1>13 DEF GoodCalls
<1> QED BY <1>0, <1>14

\* What a step makes of the innermost call c, which comes to a field of type t.
KindOfStep(ctx, calls, c, t, env) ==
  IF c.at \notin DOMAIN c.spec.fields
  THEN [err |-> "none", ctx |-> SetDepends(ctx, c.spec.full_name, c.deps), calls |-> Front(calls)]
  ELSE IF is_builtin(t)
  THEN [err |-> "none", ctx |-> ctx,
        calls |-> Append(Front(calls), [spec |-> c.spec, at |-> c.at + 1, deps |-> c.deps])]
  ELSE Depending(Append(Front(calls), [spec |-> c.spec, at |-> c.at + 1, deps |-> Append(c.deps, t)]),
                 LoadUnlessRegistered(ctx, env, t), t)

\* The kinds of a step.
LEMMA StepKinds ==
  ASSUME NEW ctx, NEW calls, calls # <<>>, NEW env,
         NEW l, l = [err |-> "none", ctx |-> ctx, calls |-> calls],
         NEW c, c = Last(calls), c = [spec |-> c.spec, at |-> c.at, deps |-> c.deps],
         NEW t, t = FieldName(c.spec, c.at)
  PROVE  LoadStep(l, env) = KindOfStep(ctx, calls, c, t, env)
<1>0. PICK s, a, d : s = c.spec /\ a = c.at /\ d = c.deps
  OBVIOUS
<1>1. c = [spec |-> s, at |-> a, deps |-> d]
  BY <1>0
<1>2. t = FieldType(c)
  BY DEF FieldType, FieldName
<1>3. l.err = "none" /\ l.ctx = ctx /\ l.calls = calls
  OBVIOUS
<1>4. \A deps : NextField(c, deps) = [spec |-> s, at |-> a + 1, deps |-> deps]
  BY <1>0 DEF NextField
<1>5. \A w : [l EXCEPT !.calls = w] = [err |-> "none", ctx |-> ctx, calls |-> w]
  OBVIOUS
<1>6. LoadStep(l, env) =
        IF a \notin DOMAIN s.fields
        THEN [err |-> "none", ctx |-> SetDepends(ctx, s.full_name, d), calls |-> Front(calls)]
        ELSE IF is_builtin(t)
        THEN [l EXCEPT !.calls = Append(Front(calls), NextField(c, d))]
        ELSE Depending(Append(Front(calls), NextField(c, Append(d, t))),
                       LoadUnlessRegistered(ctx, env, t), t)
  BY <1>0, <1>2, <1>3 DEF LoadStep
<1>7. KindOfStep(ctx, calls, c, t, env) =
        IF a \notin DOMAIN s.fields
        THEN [err |-> "none", ctx |-> SetDepends(ctx, s.full_name, d), calls |-> Front(calls)]
        ELSE IF is_builtin(t)
        THEN [err |-> "none", ctx |-> ctx,
              calls |-> Append(Front(calls), [spec |-> s, at |-> a + 1, deps |-> d])]
        ELSE Depending(Append(Front(calls), [spec |-> s, at |-> a + 1, deps |-> Append(d, t)]),
                       LoadUnlessRegistered(ctx, env, t), t)
  BY <1>0 DEF KindOfStep
<1>8. NextField(c, d) = [spec |-> s, at |-> a + 1, deps |-> d]
      /\ NextField(c, Append(d, t)) = [spec |-> s, at |-> a + 1, deps |-> Append(d, t)]
  BY <1>4
<1>9. [l EXCEPT !.calls = Append(Front(calls), NextField(c, d))] =
      [err |-> "none", ctx |-> ctx, calls |-> Append(Front(calls), NextField(c, d))]
  BY <1>5
<1> QED BY <1>6, <1>7, <1>8, <1>9

\* c2 is the call c when it has come past a field of type t.
GoesOn(ctx, c, c2, t, Roots) ==
  /\ GoodCall(ctx, c2, Roots) /\ ToSet(c.deps) \subseteq ToSet(c2.deps)
  /\ is_builtin(t) => Uses(c2.spec, c2.at) \subseteq DOMAIN ctx.dep
  /\ ~is_builtin(t) => /\ Waiting(ctx, c2, t) /\ t \in ToSet(c2.deps) /\ t \in AllUses(c.spec)
                       /\ Uses(c2.spec, c2.at) = Uses(c.spec, c.at) \cup {t}

\* A call that goes to its next field.
LEMMA NextGood ==
  ASSUME NEW ctx, NEW c, NEW Roots, GoodContext(ctx, Roots), GoodCall(ctx, c, Roots),
         c.at \in DOMAIN c.spec.fields, Uses(c.spec, c.at) \subseteq DOMAIN ctx.dep,
         NEW t, t = FieldName(c.spec, c.at), NEW c2,
         c2 = [spec |-> c.spec, at |-> c.at + 1,
               deps |-> IF is_builtin(t) THEN c.deps ELSE Append(c.deps, t)]
  PROVE  GoesOn(ctx, c, c2, t, Roots)
<1>1. IsSeq(c.spec.fields)
  BY DEF GoodCall, GoodContext, GoodSpec
<1>2. /\ c.at + 1 \in 1 .. Len(c.spec.fields) + 1
      /\ is_builtin(t) => Uses(c.spec, c.at + 1) = Uses(c.spec, c.at)
      /\ ~is_builtin(t) => Uses(c.spec, c.at + 1) = Uses(c.spec, c.at) \cup {t}
  BY <1>1, UsesNext
<1>3. c.at \in Nat /\ (c.at + 1) - 1 = c.at /\ c.at + 1 > 1
  BY <1>1 DEF IsSeq
<1>4. IsSeq(c.deps) /\ ToSet(c.deps) = Uses(c.spec, c.at)
  BY DEF GoodCall
<1>5. CASE is_builtin(t)
  <2>1. c2 = [spec |-> c.spec, at |-> c.at + 1, deps |-> c.deps]
    BY <1>5
  <2>2. c2.spec = c.spec /\ c2.at = c.at + 1 /\ c2.deps = c.deps
    BY <2>1
  <2>3. GoodCall(ctx, c2, Roots)
    BY <2>1, <2>2, <1>2, <1>4, <1>5 DEF GoodCall
  <2> QED BY <2>2, <2>3, <1>2, <1>5 DEF GoesOn
<1>6. CASE ~is_builtin(t)
  <2>1. c2 = [spec |-> c.spec, at |-> c.at + 1, deps |-> Append(c.deps, t)]
    BY <1>6
  <2>2. c2.spec = c.spec /\ c2.at = c.at + 1 /\ c2.deps = Append(c.deps, t)
    BY <2>1
  <2>3. IsSeq(c2.deps) /\ ToSet(c2.deps) = ToSet(c.deps) \cup {t}
    BY <2>2, <1>4, AppendSeq
  <2>4. GoodCall(ctx, c2, Roots)
    BY <2>1, <2>2, <2>3, <1>2, <1>4, <1>6 DEF GoodCall
  <2>5. Waiting(ctx, c2, t)
    BY <2>2, <1>3, <1>6 DEF Waiting
  <2>6. t \in AllUses(c.spec)
    BY <1>6 DEF AllUses
  <2> QED BY <2>2, <2>3, <2>4, <2>5, <2>6, <1>2, <1>6 DEF GoesOn
<1> QED BY <1>5, <1>6

\* What was loaded stays accounted for while the innermost call goes on.
LEMMA MovedAccounted ==
  ASSUME NEW ctx, NEW ctx2, NEW calls, NEW Roots, Accounted(ctx, calls, Roots),
         IsSeq(calls), calls # <<>>, NEW c, ToSet(Last(calls).deps) \subseteq ToSet(c.deps),
         ctx2.dep = ctx.dep, NEW T, T \subseteq ToSet(c.deps),
         DOMAIN ctx2.file \subseteq DOMAIN ctx.file \cup T,
         NEW calls2, calls2 = Append(Front(calls), c)
  PROVE  Accounted(ctx2, calls2, Roots)
<1>0. PICK n : n = Len(calls)
  OBVIOUS
<1>1. n \in Nat \ {0} /\ DOMAIN calls = 1..n /\ Last(calls) = calls[n]
  BY <1>0, FrontSeq
<1>2. EndsWith(calls2, calls, c)
  BY Replaced
<1>3. DOMAIN calls2 = 1..n /\ calls2[n] = c /\ \A i \in 1..n : i # n => calls2[i] = calls[i]
  BY <1>0, <1>2 DEF EndsWith
<1>4. n \in 1..n
  BY <1>1
<1>5. ASSUME NEW x \in DOMAIN ctx2.file \ Roots
      PROVE  \/ \E m \in DOMAIN ctx2.dep : x \in ToSet(ctx2.dep[m])
             \/ \E i \in DOMAIN calls2 : x \in ToSet(calls2[i].deps)
  <2>1. CASE x \in T
    BY <2>1, <1>3, <1>4
  <2>2. CASE x \notin T
    <3>1. x \in DOMAIN ctx.file \ Roots
      BY <2>2
    <3>2. CASE \E m \in DOMAIN ctx.dep : x \in ToSet(ctx.dep[m])
      BY <3>2
    <3>3. CASE \E i \in DOMAIN calls : x \in ToSet(calls[i].deps)
      <4>1. PICK i \in 1..n : x \in ToSet(calls[i].deps)
        BY <3>3, <1>1
      <4>2. x \in ToSet(calls2[i].deps)
        BY <4>1, <1>1, <1>3
      <4> QED BY <4>1, <4>2, <1>3
    <3> QED BY <3>1, <3>2, <3>3 DEF Accounted
  <2> QED BY <2>1, <2>2
<1> QED BY <1>5 DEF Accounted

\* One step of a loading: it stays good, what it holds it keeps, and other texts
\* of files it has not read make no difference.
StepIsGood(l, l2, f, Roots) ==
  /\ GoodLoading(l2, Roots)
  /\ l2.err = "none" =>
       /\ Grown(l.ctx, l2.ctx)
       /\ \A g : /\ DOMAIN g = DOMAIN f
                 /\ \A n \in DOMAIN l2.ctx.file : g[l2.ctx.file[n]] = f[l2.ctx.file[n]]
            => LoadStep(l, EnvOf(g)) = l2

\* The last field is done.
LEMMA ReturnStep ==
  ASSUME NEW l, NEW Roots, GoodLoading(l, Roots), l.err = "none", l.calls # <<>>,
         Last(l.calls).at \notin DOMAIN Last(l.calls).spec.fields, NEW f, IsSources(f)
  PROVE  StepIsGood(l, LoadStep(l, EnvOf(f)), f, Roots)
<1>0. PICK c, a, ctx, calls, ctx2 :
        /\ c = Last(l.calls) /\ a = c.spec.full_name /\ ctx = l.ctx /\ calls = l.calls
        /\ ctx2 = SetDepends(ctx, a, c.deps)
  OBVIOUS
<1>1. /\ l = [err |-> "none", ctx |-> ctx, calls |-> calls]
      /\ GoodContext(ctx, Roots) /\ GoodCalls(ctx, calls, Roots) /\ Accounted(ctx, calls, Roots)
      /\ IsSeq(calls)
  BY <1>0 DEF GoodLoading, GoodCalls
<1>2. c = [spec |-> c.spec, at |-> c.at, deps |-> c.deps]
  BY <1>0, <1>1, CallPlaces DEF GoodCall
<1>3. \A g : LoadStep(l, EnvOf(g)) = [err |-> "none", ctx |-> ctx2, calls |-> Front(calls)]
  <2>1. \A g : LoadStep(l, EnvOf(g)) = KindOfStep(ctx, calls, c, FieldName(c.spec, c.at), EnvOf(g))
    BY <1>0, <1>1, <1>2, StepKinds
  <2> QED BY <2>1, <1>0 DEF KindOfStep
<1>4. /\ GoodContext(ctx2, Roots) /\ Grown(ctx, ctx2) /\ ctx2.file = ctx.file
      /\ DOMAIN ctx2.dep = DOMAIN ctx.dep \cup {a} /\ ctx2.dep[a] = c.deps
      /\ \A n \in DOMAIN ctx.dep : ToSet(ctx2.dep[n]) = ToSet(ctx.dep[n])
  <2>1. calls # <<>> /\ c = Last(calls) /\ c.at \notin DOMAIN c.spec.fields
    BY <1>0
  <2>2. GoodContext(ctx, Roots) /\ GoodCalls(ctx, calls, Roots)
    BY <1>1
  <2>3. a = c.spec.full_name /\ ctx2 = SetDepends(ctx, a, c.deps)
    BY <1>0
  <2> QED BY <2>1, <2>2, <2>3, ReturnedContext
<1>5. GoodCalls(ctx2, Front(calls), Roots)
  BY <1>0, <1>1, ReturnedCalls
<1>6. Accounted(ctx2, Front(calls), Roots)
  <2>0. PICK n, w : n = Len(calls) /\ w = Front(calls)
    OBVIOUS
  <2>1. /\ n \in Nat \ {0} /\ DOMAIN calls = 1..n /\ c = calls[n]
        /\ IsSeq(w) /\ Len(w) = n - 1 /\ \A i \in 1 .. n - 1 : w[i] = calls[i]
    BY <2>0, <1>0, <1>1, FrontSeq
  <2>2. DOMAIN w = 1 .. n - 1 /\ \A i \in 1..n : i # n => i \in 1 .. n - 1
    BY <2>1 DEF IsSeq
  <2>3. ASSUME NEW x \in DOMAIN ctx2.file \ Roots
        PROVE  \/ \E m \in DOMAIN ctx2.dep : x \in ToSet(ctx2.dep[m])
               \/ \E i \in DOMAIN w : x \in ToSet(w[i].deps)
    <3>1. CASE \E m \in DOMAIN ctx.dep : x \in ToSet(ctx.dep[m])
      BY <3>1, <1>4
    <3>2. ASSUME NEW i \in DOMAIN calls, x \in ToSet(calls[i].deps)
          PROVE  \/ \E m \in DOMAIN ctx2.dep : x \in ToSet(ctx2.dep[m])
                 \/ \E k \in DOMAIN w : x \in ToSet(w[k].deps)
      <4>1. CASE i = n
        BY <4>1, <3>2, <2>1, <1>4
      <4>2. CASE i # n
        BY <4>2, <3>2, <2>1, <2>2
      <4> QED BY <4>1, <4>2
    <3>3. x \in DOMAIN ctx.file \ Roots
      BY <1>4
    <3> QED BY <3>1, <3>2, <3>3, <1>1 DEF Accounted
  <2>4. Accounted(ctx2, w, Roots)
    BY <2>3 DEF Accounted
  <2> QED BY <2>0, <2>4
<1>7. PICK l2 : l2 = [err |-> "none", ctx |-> ctx2, calls |-> Front(calls)]
  OBVIOUS
<1>8. l2.err = "none" /\ l2.ctx = ctx2 /\ l2.calls = Front(calls)
  BY <1>7
<1>9. GoodLoading(l2, Roots)
  BY <1>4, <1>5, <1>6, <1>7, <1>8 DEF GoodLoading
<1>10. StepIsGood(l, l2, f, Roots)
  BY <1>0, <1>3, <1>4, <1>7, <1>8, <1>9 DEF StepIsGood
<1> QED BY <1>3, <1>7, <1>10

\* A field of a builtin type.
LEMMA BuiltinStep ==
  ASSUME NEW l, NEW Roots, GoodLoading(l, Roots), l.err = "none", l.calls # <<>>,
         Last(l.calls).at \in DOMAIN Last(l.calls).spec.fields,
         is_builtin(FieldName(Last(l.calls).spec, Last(l.calls).at)), NEW f, IsSources(f)
  PROVE  StepIsGood(l, LoadStep(l, EnvOf(f)), f, Roots)
<1>0. PICK c, t, ctx, calls, c2, calls2 :
        /\ c = Last(l.calls) /\ t = FieldName(c.spec, c.at) /\ ctx = l.ctx /\ calls = l.calls
        /\ c2 = [spec |-> c.spec, at |-> c.at + 1, deps |-> c.deps]
        /\ calls2 = Append(Front(calls), c2)
  OBVIOUS
<1>1. /\ l = [err |-> "none", ctx |-> ctx, calls |-> calls] /\ is_builtin(t)
      /\ GoodContext(ctx, Roots) /\ GoodCalls(ctx, calls, Roots) /\ Accounted(ctx, calls, Roots)
      /\ IsSeq(calls)
  BY <1>0 DEF GoodLoading, GoodCalls
<1>2. GoodCall(ctx, c, Roots) /\ Uses(c.spec, c.at) \subseteq DOMAIN ctx.dep
  BY <1>0, <1>1, CallPlaces DEF GoodCalls
<1>3. c = [spec |-> c.spec, at |-> c.at, deps |-> c.deps]
  BY <1>2 DEF GoodCall
<1>4. \A g : LoadStep(l, EnvOf(g)) = [err |-> "none", ctx |-> ctx, calls |-> calls2]
  <2>1. \A g : LoadStep(l, EnvOf(g)) = KindOfStep(ctx, calls, c, t, EnvOf(g))
    <3>1. l = [err |-> "none", ctx |-> ctx, calls |-> calls] /\ calls # <<>> /\ c = Last(calls)
      BY <1>0, <1>1
    <3>2. c = [spec |-> c.spec, at |-> c.at, deps |-> c.deps] /\ t = FieldName(c.spec, c.at)
      BY <1>0, <1>3
    <3> QED BY <3>1, <3>2, StepKinds
  <2> QED BY <2>1, <1>0, <1>1 DEF KindOfStep
<1>5. c2 = [spec |-> c.spec, at |-> c.at + 1,
            deps |-> IF is_builtin(t) THEN c.deps ELSE Append(c.deps, t)]
  BY <1>0, <1>1
<1>6. /\ GoodCall(ctx, c2, Roots) /\ ToSet(c.deps) \subseteq ToSet(c2.deps)
      /\ Uses(c2.spec, c2.at) \subseteq DOMAIN ctx.dep
  <2>1. GoesOn(ctx, c, c2, t, Roots)
    BY <1>0, <1>1, <1>2, <1>5, NextGood
  <2> QED BY <2>1, <1>1 DEF GoesOn
<1>7. Grown(ctx, ctx) /\ c2.spec = c.spec
  BY <1>0 DEF Grown
<1>8. GoodCalls(ctx, calls2, Roots)
  BY <1>0, <1>1, <1>6, <1>7, MovedCalls
<1>9. Accounted(ctx, calls2, Roots)
  <2>1. {} \subseteq ToSet(c2.deps) /\ DOMAIN ctx.file \subseteq DOMAIN ctx.file \cup {}
    OBVIOUS
  <2> QED BY <2>1, <1>0, <1>1, <1>6, MovedAccounted
<1>10. PICK l2 : l2 = [err |-> "none", ctx |-> ctx, calls |-> calls2]
  OBVIOUS
<1>11. l2.err = "none" /\ l2.ctx = ctx /\ l2.calls = calls2
  BY <1>10
<1>12. GoodLoading(l2, Roots)
  BY <1>1, <1>8, <1>9, <1>10, <1>11 DEF GoodLoading
<1>13. StepIsGood(l, l2, f, Roots)
  BY <1>0, <1>4, <1>7, <1>10, <1>11, <1>12 DEF StepIsGood
<1> QED BY <1>4, <1>10, <1>13

\* What is known of the context after LoadUnlessRegistered.
HasLoaded(ctx, ctx2, t, f, Roots) ==
  /\ GoodContext(ctx2, Roots) /\ Grown(ctx, ctx2) /\ ctx2.dep = ctx.dep
  /\ t \in DOMAIN ctx2.reg /\ t \in DOMAIN ctx2.file \cup Roots
  /\ DOMAIN ctx2.file \subseteq DOMAIN ctx.file \cup {t}
  /\ \A g : /\ DOMAIN g = DOMAIN f
            /\ \A n \in DOMAIN ctx2.file : g[ctx2.file[n]] = f[ctx2.file[n]]
       => LoadUnlessRegistered(ctx, EnvOf(g), t) = LoadUnlessRegistered(ctx, EnvOf(f), t)

\* A name of two parts is registered after LoadUnlessRegistered.
LEMMA LoadedOne ==
  ASSUME NEW ctx, NEW Roots, GoodContext(ctx, Roots), NEW f, IsSources(f),
         NEW t, ~is_builtin(t), t # HEADER, LoadUnlessRegistered(ctx, EnvOf(f), t).err = "none"
  PROVE  HasLoaded(ctx, LoadUnlessRegistered(ctx, EnvOf(f), t).ctx, t, f, Roots)
<1> DEFINE r == LoadUnlessRegistered(ctx, EnvOf(f), t)
<1>0. r = LoadUnlessRegistered(ctx, EnvOf(f), t)
  OBVIOUS
<1>1. IsContext(ctx)
  BY DEF GoodContext
<1>2. \/ /\ t \in DOMAIN ctx.reg /\ r.ctx = ctx
         /\ \A g : LoadUnlessRegistered(ctx, EnvOf(g), t) = r
      \/ /\ t \notin DOMAIN ctx.reg
         /\ \E spec, file :
              /\ file \in DOMAIN f /\ GoodSpec(spec, t) /\ spec.package # NoPackage
              /\ r.ctx = [reg |-> Put(ctx.reg, t, spec), dep |-> ctx.dep, file |-> Put(ctx.file, t, file)]
              /\ \A g : DOMAIN g = DOMAIN f /\ g[file] = f[file]
                   => LoadUnlessRegistered(ctx, EnvOf(g), t) = r
  BY <1>1, UnlessRegistered
<1> HIDE DEF r
<1>3. CASE t \in DOMAIN ctx.reg
  <2>1. r.ctx = ctx /\ \A g : LoadUnlessRegistered(ctx, EnvOf(g), t) = r
    BY <1>2, <1>3
  <2>2. Grown(ctx, ctx)
    BY DEF Grown
  <2>3. t \in DOMAIN ctx.file \cup Roots
    BY <1>3 DEF GoodContext
  <2> QED BY <2>1, <2>2, <2>3, <1>0, <1>3 DEF HasLoaded
<1>4. CASE t \notin DOMAIN ctx.reg
  <2>1. PICK spec, file :
              /\ file \in DOMAIN f /\ GoodSpec(spec, t) /\ spec.package # NoPackage
              /\ r.ctx = [reg |-> Put(ctx.reg, t, spec), dep |-> ctx.dep, file |-> Put(ctx.file, t, file)]
              /\ \A g : DOMAIN g = DOMAIN f /\ g[file] = f[file]
                   => LoadUnlessRegistered(ctx, EnvOf(g), t) = r
    BY <1>2, <1>4
  <2>2. PICK ctx2 : ctx2 = r.ctx
    OBVIOUS
  <2>3. file \in DOMAIN Initial
    BY <2>1 DEF IsSources
  <2>4. /\ GoodContext(ctx2, Roots) /\ Grown(ctx, ctx2)
        /\ t \in DOMAIN ctx2.file /\ ctx2.reg[t] = spec /\ t \in DOMAIN ctx2.reg
        /\ DOMAIN ctx2.file = DOMAIN ctx.file \cup {t} /\ ctx2.dep = ctx.dep
    <3>1. ctx2 = [reg |-> Put(ctx.reg, t, spec), dep |-> ctx.dep, file |-> Put(ctx.file, t, file)]
      BY <2>1, <2>2
    <3>2. GoodSpec(spec, t) /\ spec.package # NoPackage
      BY <2>1
    <3>3. AfterLoading(ctx, ctx2, t, spec, Roots)
      BY <3>1, <3>2, <2>1, <2>3, <1>4, LoadedContext
    <3> QED BY <3>3 DEF AfterLoading
  <2>5. ctx2.file[t] = file
    <3>1. ctx2.file = Put(ctx.file, t, file)
      BY <2>1, <2>2
    <3> QED BY <3>1 DEF Put
  <2>6. \A g : /\ DOMAIN g = DOMAIN f
               /\ \A n \in DOMAIN ctx2.file : g[ctx2.file[n]] = f[ctx2.file[n]]
          => LoadUnlessRegistered(ctx, EnvOf(g), t) = r
    BY <2>1, <2>4, <2>5
  <2>7. HasLoaded(ctx, ctx2, t, f, Roots)
    BY <2>4, <2>6, <1>0 DEF HasLoaded
  <2> QED BY <2>2, <2>7, <1>0
<1> QED BY <1>3, <1>4

\* The call d for t, which has come to no field.
Begun(ctx, d, t, Roots) ==
  /\ GoodCall(ctx, d, Roots) /\ Uses(d.spec, d.at) = {} /\ d.spec = ctx.reg[t]
  /\ d.spec.full_name = t /\ d.deps = <<>>

\* A call that begins.
LEMMA CallBegins ==
  ASSUME NEW ctx, NEW Roots, GoodContext(ctx, Roots), NEW t, t \in DOMAIN ctx.reg,
         t \in DOMAIN ctx.file \cup Roots, NEW d, d = Call(ctx.reg[t])
  PROVE  Begun(ctx, d, t, Roots)
<1>1. PICK spec : spec = ctx.reg[t]
  OBVIOUS
<1>2. GoodSpec(spec, t)
  BY <1>1 DEF GoodContext
<1>3. IsSeq(spec.fields) /\ spec.full_name = t
  BY <1>2 DEF GoodSpec
<1>4. d = [spec |-> spec, at |-> 1, deps |-> <<>>]
  BY <1>1 DEF Call
<1>5. d.spec = spec /\ d.at = 1 /\ d.deps = <<>> /\ d = [spec |-> d.spec, at |-> d.at, deps |-> d.deps]
  BY <1>4
<1>6. Uses(spec, 1) = {} /\ 1 \in 1 .. Len(spec.fields) + 1
  BY <1>3, UsesEnds
<1>7. IsSeq(<<>>) /\ ToSet(<<>>) = {}
  BY DEF IsSeq, ToSet
<1>8. GoodCall(ctx, d, Roots)
  BY <1>1, <1>3, <1>5, <1>6, <1>7 DEF GoodCall
<1> QED BY <1>1, <1>3, <1>5, <1>6, <1>8 DEF Begun

\* A context that grows without dependencies changes nothing for the calls.
LEMMA GrownCalls ==
  ASSUME NEW ctx, NEW ctx2, NEW calls, NEW Roots, GoodCalls(ctx, calls, Roots),
         Grown(ctx, ctx2), ctx2.dep = ctx.dep
  PROVE  GoodCalls(ctx2, calls, Roots)
<1>1. \A i \in DOMAIN calls : GoodCall(ctx2, calls[i], Roots)
  BY GrownCall DEF GoodCalls
<1>2. \A i \in DOMAIN calls : i < Len(calls) => Waiting(ctx2, calls[i], calls[i + 1].spec.full_name)
  BY GrownCall DEF GoodCalls
<1> QED BY <1>1, <1>2 DEF GoodCalls

\* A loading that has failed.
LEMMA FailedStep ==
  ASSUME NEW l, NEW l2, NEW f, NEW Roots, NEW err, err # "none", NEW ctx, NEW calls,
         l2 = [err |-> err, ctx |-> ctx, calls |-> calls]
  PROVE  StepIsGood(l, l2, f, Roots)
<1>1. l2.err # "none" /\ l2 = [err |-> l2.err, ctx |-> l2.ctx, calls |-> l2.calls]
  OBVIOUS
<1> QED BY <1>1 DEF StepIsGood, GoodLoading

\* The dependency of a field has its own dependencies already.
LEMMA KnownStep ==
  ASSUME NEW l, NEW Roots, NEW ctx, NEW calls, NEW f,
         l = [err |-> "none", ctx |-> ctx, calls |-> calls], calls # <<>>,
         GoodContext(ctx, Roots), GoodCalls(ctx, calls, Roots), Accounted(ctx, calls, Roots),
         NEW ctx2, NEW t, HasLoaded(ctx, ctx2, t, f, Roots), t \in DOMAIN ctx2.dep,
         NEW c2, GoodCall(ctx2, c2, Roots), c2.spec = Last(calls).spec,
         ToSet(Last(calls).deps) \subseteq ToSet(c2.deps), t \in ToSet(c2.deps),
         Uses(c2.spec, c2.at) = Uses(c2.spec, Last(calls).at) \cup {t},
         NEW l2, l2 = [err |-> "none", ctx |-> ctx2, calls |-> Append(Front(calls), c2)],
         \A g : /\ DOMAIN g = DOMAIN f
                /\ \A n \in DOMAIN ctx2.file : g[ctx2.file[n]] = f[ctx2.file[n]]
            => LoadStep(l, EnvOf(g)) = l2
  PROVE  StepIsGood(l, l2, f, Roots)
<1>1. /\ GoodContext(ctx2, Roots) /\ Grown(ctx, ctx2) /\ ctx2.dep = ctx.dep
      /\ DOMAIN ctx2.file \subseteq DOMAIN ctx.file \cup {t}
  BY DEF HasLoaded
<1>2. IsSeq(calls) /\ Uses(Last(calls).spec, Last(calls).at) \subseteq DOMAIN ctx.dep
  BY DEF GoodCalls
<1>3. Uses(c2.spec, c2.at) \subseteq DOMAIN ctx.dep
  BY <1>1, <1>2
<1>4. PICK calls2 : calls2 = Append(Front(calls), c2)
  OBVIOUS
<1>5. GoodCalls(ctx2, calls2, Roots)
  BY <1>1, <1>3, <1>4, MovedCalls
<1>6. Accounted(ctx2, calls2, Roots)
  <2>1. {t} \subseteq ToSet(c2.deps)
    OBVIOUS
  <2> QED BY <2>1, <1>1, <1>2, <1>4, MovedAccounted
<1>7. l2.err = "none" /\ l2.ctx = ctx2 /\ l2.calls = calls2 /\ l.ctx = ctx
      /\ l2 = [err |-> l2.err, ctx |-> l2.ctx, calls |-> l2.calls]
  BY <1>4
<1>8. GoodLoading(l2, Roots)
  BY <1>1, <1>5, <1>6, <1>7 DEF GoodLoading
<1> QED BY <1>1, <1>7, <1>8 DEF StepIsGood

\* The dependency of a field has no dependencies yet: they are loaded first.
LEMMA DescentStep ==
  ASSUME NEW l, NEW Roots, NEW ctx, NEW calls, NEW f,
         l = [err |-> "none", ctx |-> ctx, calls |-> calls], calls # <<>>,
         GoodContext(ctx, Roots), GoodCalls(ctx, calls, Roots), Accounted(ctx, calls, Roots),
         NEW ctx2, NEW t, HasLoaded(ctx, ctx2, t, f, Roots), t \notin DOMAIN ctx2.dep,
         NEW c2, GoodCall(ctx2, c2, Roots), c2.spec = Last(calls).spec,
         ToSet(Last(calls).deps) \subseteq ToSet(c2.deps), t \in ToSet(c2.deps),
         t \in AllUses(c2.spec), Waiting(ctx2, c2, t),
         NEW l2, l2 = Descends(ctx2, Append(Front(calls), c2), t),
         \A g : /\ DOMAIN g = DOMAIN f
                /\ \A n \in DOMAIN ctx2.file : g[ctx2.file[n]] = f[ctx2.file[n]]
            => LoadStep(l, EnvOf(g)) = l2
  PROVE  StepIsGood(l, l2, f, Roots)
<1>1. /\ GoodContext(ctx2, Roots) /\ Grown(ctx, ctx2) /\ ctx2.dep = ctx.dep
      /\ DOMAIN ctx2.file \subseteq DOMAIN ctx.file \cup {t}
      /\ t \in DOMAIN ctx2.reg /\ t \in DOMAIN ctx2.file \cup Roots
  BY DEF HasLoaded
<1>2. PICK d, w, calls2 : /\ d = Call(ctx2.reg[t]) /\ w = Append(Front(calls), c2)
                          /\ calls2 = Append(w, d)
  OBVIOUS
<1>3. /\ GoodCall(ctx2, d, Roots) /\ Uses(d.spec, d.at) = {} /\ d.spec.full_name = t
      /\ d.deps = <<>>
  <2>1. d = Call(ctx2.reg[t])
    BY <1>2
  <2>2. Begun(ctx2, d, t, Roots)
    BY <2>1, <1>1, CallBegins
  <2> QED BY <2>2 DEF Begun
<1>4. GoodCalls(ctx2, calls, Roots)
  BY <1>1, GrownCalls
<1>5. c2.spec.full_name \notin DOMAIN ctx2.dep
  <2>1. c2.spec.full_name \in DOMAIN ctx2.reg /\ ctx2.reg[c2.spec.full_name] = c2.spec
    BY DEF GoodCall
  <2>2. c2.spec.full_name \in DOMAIN ctx2.dep => AllUses(c2.spec) \subseteq DOMAIN ctx2.dep
    BY <1>1, <2>1 DEF GoodContext
  <2> QED BY <2>2
<1>6. GoodCalls(ctx2, calls2, Roots)
  BY <1>2, <1>3, <1>4, <1>5, PushedCalls
<1>7. Accounted(ctx2, calls2, Roots)
  <2>1. {t} \subseteq ToSet(c2.deps) /\ IsSeq(calls)
    BY DEF GoodCalls
  <2>2. Accounted(ctx2, w, Roots)
    BY <2>1, <1>1, <1>2, MovedAccounted
  <2>3. EndsWith(w, calls, c2)
    BY <2>1, <1>2, Replaced
  <2>4. IsSeq(w)
    BY <2>3 DEF EndsWith
  <2>5. /\ IsSeq(calls2) /\ Len(calls2) = Len(w) + 1 /\ Len(w) \in Nat
        /\ \A i \in 1..Len(w) : calls2[i] = w[i]
    <3>1. calls2 = Append(w, d) /\ Len(w) \in Nat
      BY <2>4, <1>2 DEF IsSeq
    <3> QED BY <3>1, <2>4, AppendSeq
  <2>6. DOMAIN w \subseteq DOMAIN calls2 /\ \A i \in DOMAIN w : calls2[i] = w[i]
    BY <2>4, <2>5 DEF IsSeq
  <2> QED BY <2>2, <2>6 DEF Accounted
<1>8. PICK err : err = IF Len(w) = RecursionLimit THEN "RecursionError" ELSE "none"
  OBVIOUS
<1>9. l2 = [err |-> err, ctx |-> ctx2, calls |-> calls2]
  BY <1>2, <1>8 DEF Descends
<1>10. l2.err = err /\ l2.ctx = ctx2 /\ l2.calls = calls2 /\ l.ctx = ctx
      /\ l2 = [err |-> l2.err, ctx |-> l2.ctx, calls |-> l2.calls]
  BY <1>9
<1>11. GoodLoading(l2, Roots)
  BY <1>1, <1>6, <1>7, <1>10 DEF GoodLoading
<1> QED BY <1>1, <1>10, <1>11 DEF StepIsGood

\* A field of another type.
LEMMA FieldStep ==
  ASSUME NEW l, NEW Roots, GoodLoading(l, Roots), l.err = "none", l.calls # <<>>,
         Last(l.calls).at \in DOMAIN Last(l.calls).spec.fields,
         ~is_builtin(FieldName(Last(l.calls).spec, Last(l.calls).at)), NEW f, IsSources(f)
  PROVE  StepIsGood(l, LoadStep(l, EnvOf(f)), f, Roots)
<1>0. PICK c, t, ctx, calls, c2, w :
        /\ c = Last(l.calls) /\ t = FieldName(c.spec, c.at) /\ ctx = l.ctx /\ calls = l.calls
        /\ c2 = [spec |-> c.spec, at |-> c.at + 1, deps |-> Append(c.deps, t)]
        /\ w = Append(Front(calls), c2)
  OBVIOUS
<1>1. /\ l = [err |-> "none", ctx |-> ctx, calls |-> calls] /\ ~is_builtin(t)
      /\ GoodContext(ctx, Roots) /\ GoodCalls(ctx, calls, Roots) /\ Accounted(ctx, calls, Roots)
      /\ IsSeq(calls) /\ calls # <<>>
  BY <1>0 DEF GoodLoading, GoodCalls
<1>2. GoodCall(ctx, c, Roots) /\ Uses(c.spec, c.at) \subseteq DOMAIN ctx.dep
  BY <1>0, <1>1, CallPlaces DEF GoodCalls
<1>3. c = [spec |-> c.spec, at |-> c.at, deps |-> c.deps] /\ c = Last(calls)
  BY <1>0, <1>2 DEF GoodCall
<1>4. \A g : LoadStep(l, EnvOf(g)) = Depending(w, LoadUnlessRegistered(ctx, EnvOf(g), t), t)
  <2>1. l = [err |-> "none", ctx |-> ctx, calls |-> calls] /\ calls # <<>>
    BY <1>1
  <2>2. t = FieldName(c.spec, c.at)
    BY <1>0
  <2>3. \A g : LoadStep(l, EnvOf(g)) = KindOfStep(ctx, calls, c, t, EnvOf(g))
    BY <2>1, <2>2, <1>3, StepKinds
  <2> QED BY <2>3, <1>0, <1>1 DEF KindOfStep
<1>5. PICK r, l2 : r = LoadUnlessRegistered(ctx, EnvOf(f), t) /\ l2 = LoadStep(l, EnvOf(f))
  OBVIOUS
<1>6. l2 = Depending(w, r, t)
  BY <1>4, <1>5
<1>7. CASE r.err # "none"
  <2>1. l2 = [err |-> r.err, ctx |-> r.ctx, calls |-> w]
    BY <1>6, <1>7 DEF Depending
  <2>2. StepIsGood(l, l2, f, Roots)
    BY <2>1, <1>7, FailedStep
  <2> QED BY <2>2, <1>5
<1>8. CASE r.err = "none"
  <2>1. t # HEADER
    <3>1. GoodSpec(c.spec, c.spec.full_name) /\ c.at \in DOMAIN c.spec.fields
      BY <1>0, <1>1, <1>2 DEF GoodCall, GoodContext
    <3>2. Len(t) > 1
      BY <3>1, <1>0, <1>1, LookedUp
    <3>3. PICK n : n = Len(t)
      OBVIOUS
    <3>4. t = HEADER => n = 1
      BY <3>3 DEF HEADER
    <3> HIDE DEF HEADER
    <3> QED BY <3>2, <3>3, <3>4
  <2>2. PICK ctx2 : ctx2 = r.ctx
    OBVIOUS
  <2>3. HasLoaded(ctx, ctx2, t, f, Roots)
    BY <2>1, <2>2, <1>1, <1>5, <1>8, LoadedOne
  <2>4. Grown(ctx, ctx2) /\ ctx2.dep = ctx.dep
    BY <2>3 DEF HasLoaded
  <2>5. /\ GoodCall(ctx, c2, Roots) /\ ToSet(c.deps) \subseteq ToSet(c2.deps)
        /\ Waiting(ctx, c2, t) /\ t \in ToSet(c2.deps) /\ t \in AllUses(c.spec)
        /\ Uses(c2.spec, c2.at) = Uses(c.spec, c.at) \cup {t}
    <3>1. c2 = [spec |-> c.spec, at |-> c.at + 1,
                deps |-> IF is_builtin(t) THEN c.deps ELSE Append(c.deps, t)]
      BY <1>0, <1>1
    <3>2. c.at \in DOMAIN c.spec.fields /\ t = FieldName(c.spec, c.at)
      BY <1>0
    <3>3. GoesOn(ctx, c, c2, t, Roots)
      BY <3>1, <3>2, <1>1, <1>2, NextGood
    <3> QED BY <3>3, <1>1 DEF GoesOn
  <2>6. GoodCall(ctx2, c2, Roots) /\ Waiting(ctx2, c2, t) /\ c2.spec = c.spec
    BY <2>4, <2>5, <1>0, GrownCall
  <2>7. \A g : /\ DOMAIN g = DOMAIN f
               /\ \A n \in DOMAIN ctx2.file : g[ctx2.file[n]] = f[ctx2.file[n]]
           => LoadStep(l, EnvOf(g)) = l2
    <3>1. \A g : /\ DOMAIN g = DOMAIN f
                 /\ \A n \in DOMAIN ctx2.file : g[ctx2.file[n]] = f[ctx2.file[n]]
             => LoadUnlessRegistered(ctx, EnvOf(g), t) = r
      BY <2>3, <1>5 DEF HasLoaded
    <3> QED BY <3>1, <1>4, <1>6
  <2>8. CASE t \in DOMAIN ctx2.dep
    <3>1. l2 = [err |-> "none", ctx |-> ctx2, calls |-> Append(Front(calls), c2)]
      BY <2>2, <2>8, <1>0, <1>6, <1>8 DEF Depending
    <3>2. StepIsGood(l, l2, f, Roots)
      BY <3>1, <2>3, <2>5, <2>6, <2>7, <2>8, <1>1, <1>3, KnownStep
    <3> QED BY <3>2, <1>5
  <2>9. CASE t \notin DOMAIN ctx2.dep
    <3>1. l2 = Descends(ctx2, Append(Front(calls), c2), t)
      BY <2>2, <2>9, <1>0, <1>6, <1>8 DEF Depending
    <3>2. StepIsGood(l, l2, f, Roots)
      BY <3>1, <2>3, <2>5, <2>6, <2>7, <2>9, <1>1, <1>3, DescentStep
    <3> QED BY <3>2, <1>5
  <2> QED BY <2>8, <2>9
<1> QED BY <1>7, <1>8

\* Every step.
LEMMA EveryStep ==
  ASSUME NEW l, NEW Roots, GoodLoading(l, Roots), NEW f, IsSources(f)
  PROVE  StepIsGood(l, LoadStep(l, EnvOf(f)), f, Roots)
<1>1. CASE l.err # "none" \/ l.calls = <<>>
  <2>1. \A g : LoadStep(l, EnvOf(g)) = l
    BY <1>1 DEF LoadStep
  <2>2. Grown(l.ctx, l.ctx)
    BY DEF Grown
  <2>3. StepIsGood(l, l, f, Roots)
    BY <2>1, <2>2 DEF StepIsGood
  <2> QED BY <2>1, <2>3
<1>2. CASE l.err = "none" /\ l.calls # <<>>
  <2>1. CASE Last(l.calls).at \notin DOMAIN Last(l.calls).spec.fields
    BY <1>2, <2>1, ReturnStep
  <2>2. CASE Last(l.calls).at \in DOMAIN Last(l.calls).spec.fields
    <3>1. CASE is_builtin(FieldName(Last(l.calls).spec, Last(l.calls).at))
      BY <1>2, <2>2, <3>1, BuiltinStep
    <3>2. CASE ~is_builtin(FieldName(Last(l.calls).spec, Last(l.calls).at))
      BY <1>2, <2>2, <3>2, FieldStep
    <3> QED BY <3>1, <3>2
  <2> QED BY <2>1, <2>2
<1> QED BY <1>1, <1>2

-----------------------------------------------------------------------------
(* A loading from its beginning to its end.                                *)

\* The outermost call is the one for root, until root has its dependencies.
KeepsRoot(l, root) ==
  l.err = "none" => \/ l.calls # <<>> /\ l.calls[1].spec.full_name = root
                    \/ root \in DOMAIN l.ctx.dep

\* The last call replaced by one of the same specification.
LEMMA SameFirst ==
  ASSUME NEW calls, IsSeq(calls), calls # <<>>, NEW c, c.spec = Last(calls).spec,
         NEW w, w = Append(Front(calls), c)
  PROVE  /\ IsSeq(w) /\ w # <<>> /\ w[1].spec = calls[1].spec
         /\ \A d : Append(w, d) # <<>> /\ Append(w, d)[1] = w[1]
<1>0. PICK n : n = Len(calls)
  OBVIOUS
<1>1. n \in Nat \ {0} /\ Last(calls) = calls[n]
  BY <1>0, FrontSeq
<1>2. EndsWith(w, calls, c)
  BY Replaced
<1>3. /\ IsSeq(w) /\ w # <<>> /\ Len(w) = n /\ w[n] = c
      /\ \A i \in 1..n : i # n => w[i] = calls[i]
  BY <1>0, <1>2 DEF EndsWith
<1>4. w[1].spec = calls[1].spec
  <2>1. CASE n = 1
    BY <2>1, <1>1, <1>3
  <2>2. CASE n # 1
    <3>1. 1 \in 1..n /\ 1 # n
      BY <2>2, <1>1
    <3> QED BY <3>1, <1>3
  <2> QED BY <2>1, <2>2
<1>5. ASSUME NEW d PROVE Append(w, d) # <<>> /\ Append(w, d)[1] = w[1]
  <2>1. IsSeq(Append(w, d)) /\ Len(Append(w, d)) = n + 1 /\ \A i \in 1..n : Append(w, d)[i] = w[i]
    BY <1>3, AppendSeq
  <2>2. 1 \in 1..n /\ n + 1 # 0
    BY <1>1
  <2> QED BY <2>1, <2>2 DEF IsSeq
<1> QED BY <1>3, <1>4, <1>5

\* A step keeps it.
LEMMA RootStep ==
  ASSUME NEW l, NEW Roots, GoodLoading(l, Roots), NEW f, IsSources(f), NEW root, KeepsRoot(l, root)
  PROVE  KeepsRoot(LoadStep(l, EnvOf(f)), root)
<1>0. PICK l2 : l2 = LoadStep(l, EnvOf(f))
  OBVIOUS
<1>1. CASE l.err # "none" \/ l.calls = <<>>
  BY <1>1 DEF LoadStep
<1>2. CASE l.err = "none" /\ root \in DOMAIN l.ctx.dep
  <2>1. StepIsGood(l, l2, f, Roots)
    BY <1>0, EveryStep
  <2> QED BY <2>1, <1>0, <1>2 DEF StepIsGood, Grown, KeepsRoot
<1>3. CASE l.err = "none" /\ l.calls # <<>> /\ l.calls[1].spec.full_name = root
  <2>0. PICK c, t, ctx, calls, r :
          /\ c = Last(l.calls) /\ t = FieldName(c.spec, c.at) /\ ctx = l.ctx /\ calls = l.calls
          /\ r = LoadUnlessRegistered(ctx, EnvOf(f), t)
    OBVIOUS
  <2>1. /\ l = [err |-> "none", ctx |-> ctx, calls |-> calls] /\ calls # <<>> /\ IsSeq(calls)
        /\ GoodCalls(ctx, calls, Roots) /\ calls[1].spec.full_name = root
    BY <2>0, <1>3 DEF GoodLoading, GoodCalls
  <2>2. c = [spec |-> c.spec, at |-> c.at, deps |-> c.deps] /\ c = Last(calls)
    BY <2>0, <2>1, CallPlaces DEF GoodCall
  <2>3. l2 = KindOfStep(ctx, calls, c, t, EnvOf(f))
    <3>1. t = FieldName(c.spec, c.at)
      BY <2>0
    <3> QED BY <3>1, <2>1, <2>2, <1>0, StepKinds
  <2>4. ASSUME NEW c2, c2.spec = c.spec, NEW w, w = Append(Front(calls), c2)
        PROVE  w # <<>> /\ w[1].spec.full_name = root
               /\ \A d : Append(w, d) # <<>> /\ Append(w, d)[1].spec.full_name = root
    BY <2>1, <2>2, <2>4, SameFirst
  <2>5. CASE c.at \notin DOMAIN c.spec.fields
    <3>1. PICK w, ctx2 : w = Front(calls) /\ ctx2 = SetDepends(ctx, c.spec.full_name, c.deps)
      OBVIOUS
    <3>2. l2 = [err |-> "none", ctx |-> ctx2, calls |-> w]
      BY <2>3, <2>5, <3>1 DEF KindOfStep
    <3>3. PICK n : n = Len(calls)
      OBVIOUS
    <3>4. /\ n \in Nat \ {0} /\ c = calls[n] /\ IsSeq(w) /\ Len(w) = n - 1
          /\ \A i \in 1 .. n - 1 : w[i] = calls[i]
      BY <2>1, <2>2, <3>1, <3>3, FrontSeq
    <3>5. CASE n = 1
      <4>1. c.spec.full_name = root
        BY <3>4, <3>5, <2>1
      <4>2. ctx = [reg |-> ctx.reg, dep |-> ctx.dep, file |-> ctx.file]
        BY <2>1, <2>0, <1>3 DEF GoodLoading, GoodContext, IsContext
      <4>3. root \in DOMAIN ctx2.dep
        BY <4>1, <4>2, <3>1 DEF SetDepends, Put
      <4> QED BY <4>3, <3>2, <1>0 DEF KeepsRoot
    <3>6. CASE n # 1
      <4>1. 1 \in 1 .. n - 1 /\ n - 1 # 0
        BY <3>4, <3>6
      <4>2. w # <<>> /\ w[1] = calls[1]
        BY <3>4, <4>1 DEF IsSeq
      <4> QED BY <4>2, <2>1, <3>2, <1>0 DEF KeepsRoot
    <3> QED BY <3>5, <3>6
  <2>6. CASE c.at \in DOMAIN c.spec.fields /\ is_builtin(t)
    <3>1. PICK c2, w : /\ c2 = [spec |-> c.spec, at |-> c.at + 1, deps |-> c.deps]
                       /\ w = Append(Front(calls), c2)
      OBVIOUS
    <3>2. l2 = [err |-> "none", ctx |-> ctx, calls |-> w]
      BY <2>3, <2>6, <3>1 DEF KindOfStep
    <3>3. w # <<>> /\ w[1].spec.full_name = root
      BY <2>4, <3>1
    <3> QED BY <3>2, <3>3, <1>0 DEF KeepsRoot
  <2>7. CASE c.at \in DOMAIN c.spec.fields /\ ~is_builtin(t)
    <3>1. PICK c2, w : /\ c2 = [spec |-> c.spec, at |-> c.at + 1, deps |-> Append(c.deps, t)]
                       /\ w = Append(Front(calls), c2)
      OBVIOUS
    <3>2. l2 = Depending(w, r, t)
      BY <2>0, <2>3, <2>7, <3>1 DEF KindOfStep
    <3>3. /\ w # <<>> /\ w[1].spec.full_name = root
          /\ \A d : Append(w, d) # <<>> /\ Append(w, d)[1].spec.full_name = root
      BY <2>4, <3>1
    <3>4. l2.calls = w \/ \E d : l2.calls = Append(w, d)
      BY <3>2 DEF Depending, Descends
    <3> QED BY <3>3, <3>4, <1>0 DEF KeepsRoot
  <2> QED BY <2>5, <2>6, <2>7
<1> QED BY <1>1, <1>2, <1>3 DEF KeepsRoot

\* What is held stays held.
LEMMA GrownTwice ==
  ASSUME NEW ctx1, NEW ctx2, NEW ctx3, Grown(ctx1, ctx2), Grown(ctx2, ctx3)
  PROVE  Grown(ctx1, ctx3)
BY DEF Grown

\* The loadings of a call that has ended without an error: good all along, and
\* nothing that was held is lost.
GoodRun(L, ctx, root, f, Roots) ==
  /\ L[0].ctx = ctx
  /\ \A n \in 0..LoadSteps : /\ GoodLoading(L[n], Roots) /\ L[n].err = "none"
                             /\ KeepsRoot(L[n], root)
                             /\ Grown(ctx, L[n].ctx) /\ Grown(L[n].ctx, L[LoadSteps].ctx)
  /\ \A n \in 1..LoadSteps :
       \A g : /\ DOMAIN g = DOMAIN f
              /\ \A m \in DOMAIN L[n].ctx.file : g[L[n].ctx.file[m]] = f[L[n].ctx.file[m]]
           => LoadStep(L[n - 1], EnvOf(g)) = L[n]

\* All steps of a loading are good.
LEMMA LoadingIsGood ==
  ASSUME NEW ctx, NEW Roots, GoodContext(ctx, Roots), Accounted(ctx, <<>>, Roots),
         NEW root \in DOMAIN ctx.reg, root \in DOMAIN ctx.file \cup Roots,
         NEW spec, spec = ctx.reg[root], NEW f, IsSources(f),
         NEW L, L = Loading(ctx, EnvOf(f), spec), L[LoadSteps].err = "none"
  PROVE  GoodRun(L, ctx, root, f, Roots)
<1> DEFINE N == LoadSteps
<1>0. N \in Nat
  BY LoadStepsAssumption
<1>1. /\ L[0] = [err |-> "none", ctx |-> ctx, calls |-> <<Call(spec)>>]
      /\ \A n \in 1..N : L[n] = LoadStep(L[n - 1], EnvOf(f))
  BY LoadingSteps
<1> HIDE DEF N
<1>2. GoodLoading(L[0], Roots) /\ KeepsRoot(L[0], root) /\ L[0].ctx = ctx
  <2>1. PICK d, calls : d = Call(spec) /\ calls = <<d>>
    OBVIOUS
  <2>2. Begun(ctx, d, root, Roots)
    BY <2>1, CallBegins
  <2>3. L[0].err = "none" /\ L[0].ctx = ctx /\ L[0].calls = calls
        /\ L[0] = [err |-> L[0].err, ctx |-> L[0].ctx, calls |-> L[0].calls]
    BY <1>1, <2>1
  <2>4. /\ IsSeq(calls) /\ calls # <<>> /\ Len(calls) = 1 /\ calls[1] = d /\ Last(calls) = d
        /\ DOMAIN calls = {1}
    <3>1. calls \in Seq({d})
      BY <2>1
    <3>2. IsSeq(calls)
      BY <3>1, OverASet
    <3> QED BY <2>1, <3>2 DEF Last
  <2>5. GoodCalls(ctx, calls, Roots)
    <3>1. Uses(d.spec, d.at) \subseteq DOMAIN ctx.dep /\ GoodCall(ctx, d, Roots)
      BY <2>2 DEF Begun
    <3> QED BY <3>1, <2>4 DEF GoodCalls
  <2>6. Accounted(ctx, calls, Roots)
    <3>1. DOMAIN <<>> = {}
      OBVIOUS
    <3> QED BY <3>1 DEF Accounted
  <2>7. GoodLoading(L[0], Roots)
    BY <2>3, <2>5, <2>6 DEF GoodLoading
  <2>8. KeepsRoot(L[0], root)
    BY <2>2, <2>3, <2>4 DEF KeepsRoot, Begun
  <2> QED BY <2>3, <2>7, <2>8
<1>3. \A n \in 0..N : GoodLoading(L[n], Roots) /\ KeepsRoot(L[n], root)
  <2> DEFINE B == {n \in 0..N : ~(GoodLoading(L[n], Roots) /\ KeepsRoot(L[n], root))}
  <2>1. 0 \notin B
    BY <1>2
  <2>2. ASSUME NEW n \in B, n > 0 PROVE n - 1 \in B
    <3>1. n \in 1..N /\ n - 1 \in 0..N
      BY <1>0, <2>2
    <3>2. ASSUME GoodLoading(L[n - 1], Roots), KeepsRoot(L[n - 1], root)
          PROVE  GoodLoading(L[n], Roots) /\ KeepsRoot(L[n], root)
      <4>1. L[n] = LoadStep(L[n - 1], EnvOf(f))
        BY <1>1, <3>1
      <4>2. StepIsGood(L[n - 1], L[n], f, Roots)
        BY <4>1, <3>2, EveryStep
      <4> QED BY <4>1, <4>2, <3>2, RootStep DEF StepIsGood
    <3> QED BY <3>1, <3>2
  <2>3. B \in SUBSET (0..N)
    OBVIOUS
  <2> HIDE DEF B
  <2>4. B = {}
    BY <1>0, <2>1, <2>2, <2>3, NoneBad
  <2> QED BY <2>4 DEF B
<1>4. \A n \in 1..N : StepIsGood(L[n - 1], L[n], f, Roots) /\ (L[n - 1].err # "none" => L[n] = L[n - 1])
  <2>1. ASSUME NEW n \in 1..N
        PROVE  StepIsGood(L[n - 1], L[n], f, Roots) /\ (L[n - 1].err # "none" => L[n] = L[n - 1])
    <3>0. n - 1 \in 0..N
      BY <1>0
    <3>1. L[n] = LoadStep(L[n - 1], EnvOf(f))
      BY <1>1
    <3>2. StepIsGood(L[n - 1], L[n], f, Roots)
      BY <3>0, <3>1, <1>3, EveryStep
    <3>3. L[n - 1].err # "none" => L[n] = L[n - 1]
      BY <3>1 DEF LoadStep
    <3> QED BY <3>2, <3>3
  <2> QED BY <2>1
<1>5. \A n \in 0..N : L[n].err = "none"
  <2> DEFINE B == {n \in 0..N : L[N - n].err # "none"}
  <2>1. 0 \notin B
    BY <1>0 DEF N
  <2>2. ASSUME NEW n \in B, n > 0 PROVE n - 1 \in B
    <3>1. (N - n) + 1 \in 1..N /\ n - 1 \in 0..N /\ N - (n - 1) = (N - n) + 1
          /\ ((N - n) + 1) - 1 = N - n
      BY <1>0, <2>2
    <3>2. L[N - n].err # "none"
      OBVIOUS
    <3> HIDE DEF B
    <3>3. L[(N - n) + 1].err # "none"
      BY <3>1, <3>2, <1>4
    <3> QED BY <3>1, <3>3 DEF B
  <2>3. B \in SUBSET (0..N)
    OBVIOUS
  <2> HIDE DEF B
  <2>4. B = {}
    BY <1>0, <2>1, <2>2, <2>3, NoneBad
  <2>5. ASSUME NEW n \in 0..N PROVE L[n].err = "none"
    <3>1. N - n \in 0..N /\ N - (N - n) = n
      BY <1>0
    <3>2. N - n \notin B
      BY <2>4
    <3>3. L[N - (N - n)].err = "none"
      BY <3>1, <3>2 DEF B
    <3> QED BY <3>1, <3>3
  <2> QED BY <2>5
<1>6. \A n \in 1..N : Grown(L[n - 1].ctx, L[n].ctx)
  BY <1>4, <1>5 DEF StepIsGood
<1>7. \A n \in 0..N : Grown(ctx, L[n].ctx)
  <2> DEFINE B == {n \in 0..N : ~Grown(ctx, L[n].ctx)}
  <2>1. 0 \notin B
    BY <1>2 DEF Grown
  <2>2. ASSUME NEW n \in B, n > 0 PROVE n - 1 \in B
    <3>1. n \in 1..N /\ n - 1 \in 0..N
      BY <1>0, <2>2
    <3>2. Grown(ctx, L[n - 1].ctx) => Grown(ctx, L[n].ctx)
      BY <3>1, <1>6, GrownTwice
    <3> QED BY <3>1, <3>2
  <2>3. B \in SUBSET (0..N)
    OBVIOUS
  <2> HIDE DEF B
  <2>4. B = {}
    BY <1>0, <2>1, <2>2, <2>3, NoneBad
  <2> QED BY <2>4 DEF B
<1>8. \A n \in 0..N : Grown(L[n].ctx, L[N].ctx)
  <2> DEFINE B == {n \in 0..N : ~Grown(L[N - n].ctx, L[N].ctx)}
  <2>1. 0 \notin B
    BY <1>0 DEF Grown
  <2>2. ASSUME NEW n \in B, n > 0 PROVE n - 1 \in B
    <3>1. (N - n) + 1 \in 1..N /\ n - 1 \in 0..N /\ N - (n - 1) = (N - n) + 1
          /\ ((N - n) + 1) - 1 = N - n
      BY <1>0, <2>2
    <3>2. ~Grown(L[N - n].ctx, L[N].ctx)
      OBVIOUS
    <3> HIDE DEF B
    <3>3. Grown(L[N - n].ctx, L[(N - n) + 1].ctx)
      BY <3>1, <1>6
    <3>4. ~Grown(L[(N - n) + 1].ctx, L[N].ctx)
      BY <3>2, <3>3, GrownTwice
    <3> QED BY <3>1, <3>4 DEF B
  <2>3. B \in SUBSET (0..N)
    OBVIOUS
  <2> HIDE DEF B
  <2>4. B = {}
    BY <1>0, <2>1, <2>2, <2>3, NoneBad
  <2>5. ASSUME NEW n \in 0..N PROVE Grown(L[n].ctx, L[N].ctx)
    <3>1. N - n \in 0..N /\ N - (N - n) = n
      BY <1>0
    <3>2. N - n \notin B
      BY <2>4
    <3>3. Grown(L[N - (N - n)].ctx, L[N].ctx)
      BY <3>1, <3>2 DEF B
    <3> QED BY <3>1, <3>3
  <2> QED BY <2>5
<1>9. ASSUME NEW n \in 1..N,
             NEW g, DOMAIN g = DOMAIN f,
             \A m \in DOMAIN L[n].ctx.file : g[L[n].ctx.file[m]] = f[L[n].ctx.file[m]]
      PROVE  LoadStep(L[n - 1], EnvOf(g)) = L[n]
  <2>1. n \in 0..N
    BY <1>0
  <2>2. StepIsGood(L[n - 1], L[n], f, Roots) /\ L[n].err = "none"
    BY <2>1, <1>4, <1>5
  <2> QED BY <2>2, <1>9 DEF StepIsGood
<1> QED BY <1>2, <1>3, <1>5, <1>7, <1>8, <1>9 DEF GoodRun, N

\* What load_msg_depends leaves when it does not fail.
AfterDepends(ctx, ctx2, root, Roots) ==
  /\ GoodContext(ctx2, Roots) /\ Accounted(ctx2, <<>>, Roots) /\ Grown(ctx, ctx2)
  /\ root \in DOMAIN ctx2.dep
SameUnder(ctx, spec, f, ctx2) ==
  \A g : /\ DOMAIN g = DOMAIN f
         /\ \A n \in DOMAIN ctx2.file : g[ctx2.file[n]] = f[ctx2.file[n]]
      => load_msg_depends(ctx, EnvOf(g), spec) = load_msg_depends(ctx, EnvOf(f), spec)

\* The dependencies of a message are loaded, and other texts of files that were
\* not read make no difference.
LEMMA DependsLoaded ==
  ASSUME NEW ctx, NEW Roots, GoodContext(ctx, Roots), Accounted(ctx, <<>>, Roots),
         NEW root \in DOMAIN ctx.reg, root \in DOMAIN ctx.file \cup Roots,
         NEW spec, spec = ctx.reg[root], NEW f, IsSources(f),
         load_msg_depends(ctx, EnvOf(f), spec).err = "none"
  PROVE  /\ AfterDepends(ctx, load_msg_depends(ctx, EnvOf(f), spec).ctx, root, Roots)
         /\ SameUnder(ctx, spec, f, load_msg_depends(ctx, EnvOf(f), spec).ctx)
<1>0. PICK N, L : N = LoadSteps /\ L = Loading(ctx, EnvOf(f), spec)
  OBVIOUS
<1>1. N \in Nat /\ 0 \in 0..N /\ N \in 0..N
  BY <1>0, LoadStepsAssumption
<1>2. /\ load_msg_depends(ctx, EnvOf(f), spec) = Returned(L[N])
      /\ \A g : load_msg_depends(ctx, EnvOf(g), spec) = Returned(Loading(ctx, EnvOf(g), spec)[N])
  BY <1>0 DEF load_msg_depends
<1>3. L[N].err = "none" /\ L[N].calls = <<>>
  BY <1>2 DEF Returned
<1>4. GoodRun(L, ctx, root, f, Roots)
  BY <1>0, <1>3, LoadingIsGood
<1>5. PICK ctx2 : ctx2 = L[N].ctx
  OBVIOUS
<1>6. load_msg_depends(ctx, EnvOf(f), spec).ctx = ctx2
  BY <1>2, <1>5 DEF Returned
<1>7. GoodLoading(L[N], Roots) /\ KeepsRoot(L[N], root) /\ Grown(ctx, ctx2)
  BY <1>0, <1>1, <1>4, <1>5 DEF GoodRun
<1>8. AfterDepends(ctx, ctx2, root, Roots)
  <2>1. GoodContext(ctx2, Roots) /\ Accounted(ctx2, <<>>, Roots)
    BY <1>3, <1>5, <1>7 DEF GoodLoading
  <2>2. root \in DOMAIN ctx2.dep
    BY <1>3, <1>5, <1>7 DEF KeepsRoot
  <2> QED BY <2>1, <2>2, <1>7 DEF AfterDepends
<1>9. ASSUME NEW g, DOMAIN g = DOMAIN f,
             \A n \in DOMAIN ctx2.file : g[ctx2.file[n]] = f[ctx2.file[n]]
      PROVE  load_msg_depends(ctx, EnvOf(g), spec) = load_msg_depends(ctx, EnvOf(f), spec)
  <2>1. PICK G : G = Loading(ctx, EnvOf(g), spec)
    OBVIOUS
  <2>2. G[0] = L[0] /\ \A n \in 1..N : G[n] = LoadStep(G[n - 1], EnvOf(g))
    <3>1. L[0] = [err |-> "none", ctx |-> ctx, calls |-> <<Call(spec)>>]
      BY <1>0, LoadingSteps
    <3>2. /\ G[0] = [err |-> "none", ctx |-> ctx, calls |-> <<Call(spec)>>]
          /\ \A n \in 1..LoadSteps : G[n] = LoadStep(G[n - 1], EnvOf(g))
      BY <2>1, LoadingSteps
    <3> QED BY <3>1, <3>2, <1>0
  <2>3. \A n \in 1..N : LoadStep(L[n - 1], EnvOf(g)) = L[n]
    <3>1. ASSUME NEW n \in 1..N PROVE LoadStep(L[n - 1], EnvOf(g)) = L[n]
      <4>1. Grown(L[n].ctx, ctx2)
        BY <1>0, <1>1, <1>4, <1>5 DEF GoodRun
      <4>2. \A m \in DOMAIN L[n].ctx.file : g[L[n].ctx.file[m]] = f[L[n].ctx.file[m]]
        BY <4>1, <1>9 DEF Grown
      <4> QED BY <4>2, <1>0, <1>4, <1>9 DEF GoodRun
    <3> QED BY <3>1
  <2> DEFINE B == {n \in 0..N : G[n] # L[n]}
  <2>4. 0 \notin B
    BY <2>2
  <2>5. ASSUME NEW n \in B, n > 0 PROVE n - 1 \in B
    <3>1. n \in 1..N /\ n - 1 \in 0..N
      BY <1>1, <2>5
    <3>2. G[n - 1] = L[n - 1] => G[n] = L[n]
      BY <3>1, <2>2, <2>3
    <3> QED BY <3>1, <3>2
  <2>6. B \in SUBSET (0..N)
    OBVIOUS
  <2> HIDE DEF B
  <2>7. B = {}
    BY <1>1, <2>4, <2>5, <2>6, NoneBad
  <2>8. G[N] = L[N]
    BY <2>7, <1>1 DEF B
  <2> QED BY <2>1, <2>8, <1>2
<1>10. SameUnder(ctx, spec, f, ctx2)
  BY <1>9 DEF SameUnder
<1> QED BY <1>6, <1>8, <1>10

-----------------------------------------------------------------------------
(* Loading the file of a target, from any texts.                           *)

RootsOf(t) == IF KindOf[t] = "msg" THEN {<<Package, t>>}
              ELSE {<<Package, t \o "Request">>, <<Package, t \o "Response">>}
SpecIn(f, t) ==
  IF KindOf[t] = "msg" THEN load_msg_from_file(create_default, EnvOf(f), File(t), <<Package, t>>)
  ELSE load_srv_from_file(create_default, EnvOf(f), File(t), Package, t)
DependsIn(f, t) ==
  IF KindOf[t] = "msg" THEN load_depends(SpecIn(f, t).ctx, EnvOf(f), SpecIn(f, t).spec)
  ELSE load_srv_depends(SpecIn(f, t).ctx, EnvOf(f), SpecIn(f, t).spec)
DigestIn(f, t) == DigestOf(t, SpecIn(f, t).spec, DependsIn(f, t))

\* They are the operators of the generators for the texts there are.
LEMMA InTheFiles ==
  ASSUME NEW t
  PROVE  /\ LoadSpec(t) = SpecIn(fs, t) /\ LoadDepends(t) = DependsIn(fs, t)
         /\ compute_digest(t) = DigestIn(fs, t)
<1>1. Env = EnvOf(fs)
  BY DEF Env, EnvOf
<1>2. LoadSpec(t) = SpecIn(fs, t)
  BY <1>1 DEF LoadSpec, SpecIn
<1>3. LoadDepends(t) = DependsIn(fs, t)
  BY <1>1, <1>2 DEF LoadDepends, DependsOf, DependsIn
<1> QED BY <1>2, <1>3 DEF compute_digest, DigestIn

\* A context before any dependency was loaded for a target.
StartContext(ctx, t) ==
  /\ IsContext(ctx) /\ ctx.dep = <<>>
  /\ \A n \in DOMAIN ctx.reg : GoodSpec(ctx.reg[n], n) /\ (is_builtin(n) \/ n \in RootsOf(t))
  /\ \A n \in DOMAIN ctx.file : n \in RootsOf(t) /\ n \in DOMAIN ctx.reg /\ ctx.file[n] = File(t)

\* What a string adds to it.
Started(ctx, loaded, full, t) ==
  /\ StartContext(loaded.ctx, t) /\ loaded.ctx.file = ctx.file
  /\ loaded.err = "none" => /\ full \in DOMAIN loaded.ctx.reg /\ loaded.ctx.reg[full] = loaded.spec
                            /\ loaded.spec.full_name = full
                            /\ \A n \in DOMAIN ctx.reg : n # full =>
                                 n \in DOMAIN loaded.ctx.reg /\ loaded.ctx.reg[n] = ctx.reg[n]

\* A string is loaded into it.
LEMMA StringStarts ==
  ASSUME NEW t, NEW ctx, StartContext(ctx, t), NEW text, IsText(text),
         NEW full, is_builtin(full) \/ full \in RootsOf(t)
  PROVE  Started(ctx, load_msg_from_string(ctx, text, full), full, t)
<1>1. PICK loaded : loaded = load_msg_from_string(ctx, text, full)
  OBVIOUS
<1>2. \/ loaded.err # "none" /\ loaded.ctx = ctx
      \/ /\ loaded.err = "none" /\ GoodSpec(loaded.spec, full)
         /\ loaded.ctx = Register(ctx, full, loaded.spec)
  BY <1>1, FromString
<1>3. CASE loaded.err # "none" /\ loaded.ctx = ctx
  BY <1>1, <1>3 DEF Started
<1>4. CASE /\ loaded.err = "none" /\ GoodSpec(loaded.spec, full)
           /\ loaded.ctx = Register(ctx, full, loaded.spec)
  <2>1. PICK spec, ctx2 : spec = loaded.spec /\ ctx2 = loaded.ctx
    OBVIOUS
  <2>2. ctx = [reg |-> ctx.reg, dep |-> ctx.dep, file |-> ctx.file]
    BY DEF StartContext, IsContext
  <2>3. ctx2 = [reg |-> Put(ctx.reg, full, spec), dep |-> ctx.dep, file |-> ctx.file]
    BY <2>1, <2>2, <1>4 DEF Register
  <2>4. /\ DOMAIN ctx2.reg = DOMAIN ctx.reg \cup {full} /\ ctx2.dep = ctx.dep /\ ctx2.file = ctx.file
        /\ \A n \in DOMAIN ctx2.reg : ctx2.reg[n] = IF n = full THEN spec ELSE ctx.reg[n]
        /\ IsContext(ctx2)
    BY <2>3 DEF Put, IsContext
  <2>5. GoodSpec(spec, full) /\ spec.full_name = full
    BY <2>1, <1>4 DEF GoodSpec
  <2>6. StartContext(ctx2, t)
    BY <2>4, <2>5 DEF StartContext
  <2> QED BY <2>1, <2>4, <2>5, <2>6, <1>1, <1>4 DEF Started
<1> QED BY <1>2, <1>3, <1>4

\* The texts of time and duration.
LEMMA DefaultTexts == IsText(TIME_MSG) /\ IsText(DURATION_MSG)
<1>1. ASSUME NEW p, NEW q, NEW text, NEW a, NEW b,
             text = <<Field(<<p>>, <<>>, a), Field(<<q>>, <<>>, b)>>
      PROVE  IsText(text)
  <2>0. PICK x, y : x = Field(<<p>>, <<>>, a) /\ y = Field(<<q>>, <<>>, b)
    OBVIOUS
  <2>1. text = <<x, y>>
    BY <2>0, <1>1
  <2>2. text \in Seq({x, y})
    BY <2>1
  <2>3. text \in Seq(ToSet(text)) /\ ToSet(text) \subseteq {x, y}
    BY <2>2, OverASet DEF IsSeq
  <2>4. \A r : <<r>> \in Seq({r}) /\ <<r>> # <<>>
    OBVIOUS
  <2>5. \A r : <<r>> \in Seq(ToSet(<<r>>))
    BY <2>4, OverASet DEF IsSeq
  <2>6. x.k = "field" /\ y.k = "field" /\ x.type.parts = <<p>> /\ y.type.parts = <<q>>
    BY <2>0 DEF Field, Type
  <2> QED BY <2>3, <2>4, <2>5, <2>6 DEF IsText
<1>2. IsText(TIME_MSG)
  BY <1>1 DEF TIME_MSG
<1>3. IsText(DURATION_MSG)
  BY <1>1 DEF DURATION_MSG
<1> QED BY <1>2, <1>3

\* A context begins with time and duration.
LEMMA DefaultStarts == ASSUME NEW t PROVE StartContext(create_default, t) /\ create_default.file = <<>>
<1> DEFINE empty == [reg |-> <<>>, dep |-> <<>>, file |-> <<>>]
           one == load_msg_from_string(empty, TIME_MSG, <<"time">>)
           two == load_msg_from_string(one.ctx, DURATION_MSG, <<"duration">>)
<1>1. create_default = two.ctx
  BY DEF create_default
<1>2. is_builtin(<<"time">>) /\ is_builtin(<<"duration">>)
  BY DEF is_builtin, BUILTIN_TYPES
<1>3. DOMAIN <<>> = {}
  OBVIOUS
<1>4. empty.reg = <<>> /\ empty.dep = <<>> /\ empty.file = <<>>
      /\ empty = [reg |-> empty.reg, dep |-> empty.dep, file |-> empty.file]
  OBVIOUS
<1> HIDE DEF empty
<1>5. StartContext(empty, t)
  BY <1>3, <1>4 DEF StartContext, IsContext
<1>6. Started(empty, one, <<"time">>, t)
  BY <1>2, <1>5, DefaultTexts, StringStarts
<1>7. StartContext(one.ctx, t)
  BY <1>6 DEF Started
<1>8. Started(one.ctx, two, <<"duration">>, t)
  BY <1>2, <1>7, DefaultTexts, StringStarts
<1> QED BY <1>1, <1>4, <1>6, <1>8 DEF Started

\* The lines of a half of a service are lines.
LEMMA HalfText ==
  ASSUME NEW text, IsText(text), NEW places
  PROVE  IsText(CutLines(text, places))
<1>0. PICK lines, half : /\ lines = LinesAt(text, places)
                         /\ half = CutLines(text, places)
  OBVIOUS
<1>1. IsSeq(lines) /\ ToSet(lines) \subseteq ToSet(text)
  <2>1. IsSeq(text)
    BY DEF IsText, IsSeq
  <2>2. IsSeq(lines) /\ ToSet(lines) \subseteq {text[i] : i \in DOMAIN text \cap places}
    BY <2>1, <1>0, LinesAtPlaces
  <2>3. {text[i] : i \in DOMAIN text \cap places} \subseteq ToSet(text)
    BY DEF ToSet
  <2> QED BY <2>2, <2>3
<1>2. half = [i \in DOMAIN lines |-> Cut(lines[i])]
  BY <1>0 DEF CutLines
<1>3. IsSeq(half) /\ ToSet(half) \subseteq {Cut(l) : l \in ToSet(text)}
  <2>1. Len(lines) \in Nat /\ DOMAIN lines = 1..Len(lines)
    BY <1>1 DEF IsSeq
  <2>2. IsSeq(half)
    BY <2>1, <1>2, FunctionSeq
  <2>3. \A i \in DOMAIN lines : lines[i] \in ToSet(text)
    BY <1>1 DEF ToSet
  <2>4. ToSet(half) \subseteq {Cut(l) : l \in ToSet(text)}
    BY <2>3, <1>2 DEF ToSet
  <2> QED BY <2>2, <2>4
<1>4. ASSUME NEW l \in ToSet(text), NEW c, c = Cut(l)
      PROVE  /\ c.k = "field" => c.type.parts \in Seq(ToSet(c.type.parts)) \ {<<>>}
             /\ c.k = "const" => c = Const(c.type, c.name, c.val)
  <2>1. /\ l.k = "field" => l.type.parts \in Seq(ToSet(l.type.parts)) \ {<<>>}
        /\ l.k = "const" => l = Const(l.type, l.name, l.val)
    BY DEF IsText
  <2>2. CASE l.k = "const" /\ l.type = "string"
    <3>0. PICK v, name, type : v = <<l.val[1], NoComment>> /\ name = l.name /\ type = l.type
      OBVIOUS
    <3>1. c = [l EXCEPT !.val = v]
      BY <2>2, <3>0, <1>4 DEF Cut
    <3>2. PICK w : l = [k |-> "const", type |-> type, name |-> name, val |-> w]
      BY <2>1, <2>2, <3>0 DEF Const
    <3>3. c = [k |-> "const", type |-> type, name |-> name, val |-> v]
      BY <3>1, <3>2
    <3>4. c.k = "const" /\ c = Const(c.type, c.name, c.val)
      BY <3>3 DEF Const
    <3> QED BY <3>4
  <2>3. CASE ~(l.k = "const" /\ l.type = "string")
    <3>1. c = l
      BY <2>3, <1>4 DEF Cut
    <3> QED BY <3>1, <2>1
  <2> QED BY <2>2, <2>3
<1>5. IsText(half)
  BY <1>3, <1>4 DEF IsText, IsSeq
<1> QED BY <1>0, <1>5

\* The names of what is loaded from the file of a target.
LEMMA RootNames ==
  ASSUME NEW t, NEW n \in RootsOf(t)
  PROVE  PackageOf(n) = Package /\ Package # NoPackage /\ ~is_builtin(n) /\ n # HEADER
<1>1. PICK base : n = <<Package, base>>
  BY DEF RootsOf
<1>2. Len(n) = 2
  BY <1>1
<1>3. PackageOf(n) = Package
  BY <1>1 DEF PackageOf, package_resource_name
<1>4. ~is_builtin(n) /\ n # HEADER
  <2>1. PICK k : k = Len(n)
    OBVIOUS
  <2>2. k = 2 /\ (is_builtin(n) => k = 1) /\ (n = HEADER => k = 1)
    BY <1>2, <2>1 DEF is_builtin, HEADER
  <2> QED BY <2>2
<1> QED BY <1>3, <1>4, SourcesAssumption

\* What is loaded for a target before its dependencies.
StartGood(loaded, t) ==
  /\ GoodContext(loaded.ctx, RootsOf(t)) /\ Accounted(loaded.ctx, <<>>, RootsOf(t))
  /\ \A n \in DOMAIN loaded.ctx.file : n \in RootsOf(t) /\ loaded.ctx.file[n] = File(t)
  /\ \A s \in SpecHalves(t, loaded.spec) :
       /\ s.full_name \in RootsOf(t) /\ s.full_name \in DOMAIN loaded.ctx.reg
       /\ loaded.ctx.reg[s.full_name] = s
  /\ RootsOf(t) = {s.full_name : s \in SpecHalves(t, loaded.spec)}

\* The context is good then.
LEMMA StartContextGood ==
  ASSUME NEW t \in Targets, NEW ctx, StartContext(ctx, t)
  PROVE  /\ GoodContext(ctx, RootsOf(t)) /\ Accounted(ctx, <<>>, RootsOf(t))
         /\ \A n \in DOMAIN ctx.file : n \in RootsOf(t) /\ ctx.file[n] = File(t)
<1>1. DOMAIN ctx.dep = {}
  BY DEF StartContext
<1>2. Ranked(ctx.dep, [n \in DOMAIN ctx.dep |-> 0], 0)
  BY <1>1 DEF Ranked
<1>3. \A n \in DOMAIN ctx.file \cup RootsOf(t) : n \in DOMAIN ctx.reg => ctx.reg[n].package # NoPackage
  BY RootNames DEF StartContext, GoodSpec
<1>4. File(t) \in DOMAIN Initial
  BY SourcesAssumption
<1>5. \A n \in DOMAIN ctx.reg : /\ GoodSpec(ctx.reg[n], n)
                                /\ is_builtin(n) \/ n \in DOMAIN ctx.file \cup RootsOf(t)
  BY DEF StartContext
<1>6. \A n \in DOMAIN ctx.file : n \in DOMAIN ctx.reg /\ ctx.file[n] \in DOMAIN Initial
  BY <1>4 DEF StartContext
<1>7. \E r, k : Ranked(ctx.dep, r, k)
  BY <1>2
<1>8. GoodContext(ctx, RootsOf(t))
  BY <1>1, <1>3, <1>5, <1>6, <1>7 DEF StartContext, GoodContext
<1> QED BY <1>8 DEF StartContext, Accounted

\* The file of a message.
LEMMA MsgStarts ==
  ASSUME NEW t \in Targets, KindOf[t] = "msg", NEW f, IsSources(f), SpecIn(f, t).err = "none"
  PROVE  StartGood(SpecIn(f, t), t)
<1>0. PICK root, loaded : root = <<Package, t>> /\ loaded = SpecIn(f, t)
  OBVIOUS
<1>1. loaded = load_msg_from_string(create_default, f[File(t)], root)
  BY <1>0 DEF SpecIn, load_msg_from_file, EnvOf
<1>2. RootsOf(t) = {root}
  BY <1>0 DEF RootsOf
<1>3. IsText(f[File(t)])
  BY SourcesAssumption DEF IsSources
<1>4. Started(create_default, loaded, root, t)
  BY <1>1, <1>2, <1>3, DefaultStarts, StringStarts
<1>5. /\ StartContext(loaded.ctx, t) /\ root \in DOMAIN loaded.ctx.reg
      /\ loaded.ctx.reg[root] = loaded.spec /\ loaded.spec.full_name = root
  BY <1>0, <1>4 DEF Started
<1>6. SpecHalves(t, loaded.spec) = {loaded.spec}
  BY DEF SpecHalves
<1>7. StartGood(loaded, t)
  BY <1>2, <1>5, <1>6, StartContextGood DEF StartGood
<1> QED BY <1>0, <1>7

\* The file of a service.
LEMMA SrvStarts ==
  ASSUME NEW t \in Targets, KindOf[t] = "srv", NEW f, IsSources(f), SpecIn(f, t).err = "none"
  PROVE  StartGood(SpecIn(f, t), t)
<1>0. PICK n1, n2, loaded, text : /\ n1 = <<Package, t \o "Request">> /\ n2 = <<Package, t \o "Response">>
                                  /\ loaded = SpecIn(f, t) /\ text = f[File(t)]
  OBVIOUS
<1>1. RootsOf(t) = {n1, n2} /\ n1 # n2
  BY <1>0, SourcesAssumption DEF RootsOf
<1>2. IsText(text)
  BY <1>0, SourcesAssumption DEF IsSources
<1>3. PICK half1, half2 : /\ IsText(half1) /\ IsText(half2)
                          /\ load_srv_from_string(create_default, text, Package, t) =
                               WithResponse(load_msg_from_string(create_default, half1, n1), half2, n2)
  BY <1>0, <1>2, HalfText DEF load_srv_from_string
<1>4. PICK one, both : /\ one = load_msg_from_string(create_default, half1, n1)
                       /\ both = WithResponse(one, half2, n2)
  OBVIOUS
<1>5. loaded = SrvFrom(both, File(t), Package, t)
  BY <1>0, <1>3, <1>4 DEF SpecIn, load_srv_from_file, EnvOf
<1>6. both.err = "none"
  BY <1>0, <1>5 DEF SrvFrom
<1>7. one.err = "none"
  BY <1>4, <1>6 DEF WithResponse
<1>8. PICK two : two = load_msg_from_string(one.ctx, half2, n2)
  OBVIOUS
<1>9. both = SrvSpec(one, two)
  BY <1>4, <1>7, <1>8 DEF WithResponse
<1>10. two.err = "none"
  BY <1>6, <1>9 DEF SrvSpec
<1>11. PICK spec : spec = [request |-> one.spec, response |-> two.spec]
  OBVIOUS
<1>12. both = [err |-> "none", ctx |-> two.ctx, spec |-> spec]
  BY <1>9, <1>10, <1>11 DEF SrvSpec
<1>13. PICK ctx2 : ctx2 = SetFile(SetFile(two.ctx, n1, File(t)), n2, File(t))
  OBVIOUS
<1>14. loaded = [err |-> "none", ctx |-> ctx2, spec |-> spec]
  BY <1>0, <1>5, <1>12, <1>13 DEF SrvFrom
<1>15. Started(create_default, one, n1, t)
  BY <1>1, <1>3, <1>4, DefaultStarts, StringStarts
<1>16. Started(one.ctx, two, n2, t)
  BY <1>1, <1>3, <1>8, <1>15, StringStarts DEF Started
<1>17. PICK ctx, s1, s2 : ctx = two.ctx /\ s1 = one.spec /\ s2 = two.spec
  OBVIOUS
<1>18. /\ StartContext(ctx, t) /\ n1 \in DOMAIN ctx.reg /\ n2 \in DOMAIN ctx.reg
       /\ ctx.reg[n1] = s1 /\ ctx.reg[n2] = s2 /\ s1.full_name = n1 /\ s2.full_name = n2
       /\ ctx.file = <<>>
  BY <1>1, <1>7, <1>10, <1>15, <1>16, <1>17, DefaultStarts DEF Started
<1>19. ctx = [reg |-> ctx.reg, dep |-> ctx.dep, file |-> ctx.file]
  BY <1>18 DEF StartContext, IsContext
<1>20. ctx2 = [reg |-> ctx.reg, dep |-> ctx.dep, file |-> Put(Put(ctx.file, n1, File(t)), n2, File(t))]
  BY <1>13, <1>17, <1>19 DEF SetFile
<1>21. /\ ctx2.reg = ctx.reg /\ ctx2.dep = ctx.dep /\ DOMAIN ctx2.file = {n1, n2}
       /\ \A n \in {n1, n2} : ctx2.file[n] = File(t)
  BY <1>18, <1>20 DEF Put
<1>22. StartContext(ctx2, t)
  <2>1. IsContext(ctx2)
    BY <1>20, <1>21 DEF IsContext
  <2>2. /\ ctx2.dep = <<>>
        /\ \A n \in DOMAIN ctx2.reg : GoodSpec(ctx2.reg[n], n) /\ (is_builtin(n) \/ n \in RootsOf(t))
    BY <1>18, <1>21 DEF StartContext
  <2>3. \A n \in DOMAIN ctx2.file : n \in RootsOf(t) /\ n \in DOMAIN ctx2.reg /\ ctx2.file[n] = File(t)
    BY <1>1, <1>18, <1>21
  <2> QED BY <2>1, <2>2, <2>3 DEF StartContext
<1>23. spec.request = s1 /\ spec.response = s2 /\ loaded.spec = spec /\ loaded.ctx = ctx2
  BY <1>11, <1>14, <1>17
<1>24. SpecHalves(t, loaded.spec) = {s1, s2}
  BY <1>23 DEF SpecHalves
<1>25. /\ GoodContext(ctx2, RootsOf(t)) /\ Accounted(ctx2, <<>>, RootsOf(t))
       /\ \A n \in DOMAIN ctx2.file : n \in RootsOf(t) /\ ctx2.file[n] = File(t)
  BY <1>22, StartContextGood
<1>26. \A s \in {s1, s2} : /\ s.full_name \in RootsOf(t) /\ s.full_name \in DOMAIN ctx2.reg
                           /\ ctx2.reg[s.full_name] = s
  BY <1>1, <1>18, <1>21
<1>27. RootsOf(t) = {s.full_name : s \in {s1, s2}}
  BY <1>1, <1>18
<1>28. StartGood(loaded, t)
  BY <1>23, <1>24, <1>25, <1>26, <1>27 DEF StartGood
<1> QED BY <1>0, <1>28

\* The texts in the files that were read are the same.
Alike(f, g, ctx) ==
  DOMAIN g = DOMAIN f /\ \A n \in DOMAIN ctx.file : g[ctx.file[n]] = f[ctx.file[n]]

\* What is loaded for a target when nothing fails.
EndGood(f, t, spec, ctx) ==
  /\ GoodContext(ctx, RootsOf(t)) /\ Accounted(ctx, <<>>, RootsOf(t))
  /\ RootsOf(t) \subseteq DOMAIN ctx.dep
  /\ \A n \in DOMAIN ctx.file \cap RootsOf(t) : ctx.file[n] = File(t)
  /\ \A s \in SpecHalves(t, spec) : /\ s.full_name \in RootsOf(t) /\ s.full_name \in DOMAIN ctx.reg
                                    /\ ctx.reg[s.full_name] = s
  /\ RootsOf(t) = {s.full_name : s \in SpecHalves(t, spec)}
  /\ \A g : Alike(f, g, ctx) /\ g[File(t)] = f[File(t)]
       => SpecIn(g, t) = SpecIn(f, t) /\ DependsIn(g, t) = DependsIn(f, t)

\* The file of a target is all that is read at first.
LEMMA SameSpec ==
  ASSUME NEW t, NEW f, NEW g, g[File(t)] = f[File(t)]
  PROVE  SpecIn(g, t) = SpecIn(f, t)
BY DEF SpecIn, load_msg_from_file, load_srv_from_file, EnvOf

\* A half of a target and its dependencies.
LEMMA HalfLoaded ==
  ASSUME NEW t, NEW f, IsSources(f), NEW ctx, NEW s, NEW root, root = s.full_name,
         GoodContext(ctx, RootsOf(t)), Accounted(ctx, <<>>, RootsOf(t)),
         root \in RootsOf(t), root \in DOMAIN ctx.reg, ctx.reg[root] = s,
         load_msg_depends(ctx, EnvOf(f), s).err = "none"
  PROVE  /\ AfterDepends(ctx, load_msg_depends(ctx, EnvOf(f), s).ctx, root, RootsOf(t))
         /\ SameUnder(ctx, s, f, load_msg_depends(ctx, EnvOf(f), s).ctx)
<1>1. root \in DOMAIN ctx.file \cup RootsOf(t)
  OBVIOUS
<1>2. s = ctx.reg[root]
  OBVIOUS
<1> QED BY <1>1, <1>2, DependsLoaded

\* What holds of the specifications goes on to hold.
LEMMA StillGood ==
  ASSUME NEW t, NEW loaded, StartGood(loaded, t), NEW ctx, Grown(loaded.ctx, ctx)
  PROVE  /\ \A n \in DOMAIN ctx.file \cap RootsOf(t) : ctx.file[n] = File(t)
         /\ \A s \in SpecHalves(t, loaded.spec) :
              /\ s.full_name \in RootsOf(t) /\ s.full_name \in DOMAIN ctx.reg
              /\ ctx.reg[s.full_name] = s
         /\ RootsOf(t) = {s.full_name : s \in SpecHalves(t, loaded.spec)}
<1>1. RootsOf(t) \subseteq DOMAIN loaded.ctx.reg
  BY DEF StartGood
<1> QED BY <1>1 DEF StartGood, Grown

\* The dependencies of a message.
LEMMA MsgEnds ==
  ASSUME NEW t \in Targets, KindOf[t] = "msg", NEW f, IsSources(f),
         SpecIn(f, t).err = "none", DependsIn(f, t).err = "none"
  PROVE  EndGood(f, t, SpecIn(f, t).spec, DependsIn(f, t).ctx)
<1>0. PICK loaded, s, ctx, ctx2 : /\ loaded = SpecIn(f, t) /\ s = loaded.spec /\ ctx = loaded.ctx
                                  /\ ctx2 = DependsIn(f, t).ctx
  OBVIOUS
<1>1. StartGood(loaded, t)
  BY <1>0, MsgStarts
<1>2. /\ GoodContext(ctx, RootsOf(t)) /\ Accounted(ctx, <<>>, RootsOf(t))
      /\ s.full_name \in RootsOf(t) /\ s.full_name \in DOMAIN ctx.reg /\ ctx.reg[s.full_name] = s
      /\ RootsOf(t) = {s.full_name}
  BY <1>0, <1>1 DEF StartGood, SpecHalves
<1>3. \A g : DependsIn(g, t) = load_msg_depends(SpecIn(g, t).ctx, EnvOf(g), SpecIn(g, t).spec)
  BY DEF DependsIn, load_depends
<1>4. DependsIn(f, t) = load_msg_depends(ctx, EnvOf(f), s)
  BY <1>0, <1>3
<1>5. AfterDepends(ctx, ctx2, s.full_name, RootsOf(t)) /\ SameUnder(ctx, s, f, ctx2)
  BY <1>0, <1>2, <1>4, HalfLoaded
<1>6. /\ GoodContext(ctx2, RootsOf(t)) /\ Accounted(ctx2, <<>>, RootsOf(t))
      /\ RootsOf(t) \subseteq DOMAIN ctx2.dep /\ Grown(ctx, ctx2)
  BY <1>2, <1>5 DEF AfterDepends
<1>7. ASSUME NEW g, Alike(f, g, ctx2), g[File(t)] = f[File(t)]
      PROVE  SpecIn(g, t) = SpecIn(f, t) /\ DependsIn(g, t) = DependsIn(f, t)
  <2>1. SpecIn(g, t) = SpecIn(f, t)
    BY <1>7, SameSpec
  <2>2. load_msg_depends(ctx, EnvOf(g), s) = load_msg_depends(ctx, EnvOf(f), s)
    BY <1>5, <1>7 DEF SameUnder, Alike
  <2> QED BY <2>1, <2>2, <1>0, <1>3, <1>4
<1>8. EndGood(f, t, s, ctx2)
  BY <1>0, <1>1, <1>6, <1>7, StillGood DEF EndGood
<1> QED BY <1>0, <1>8

\* The dependencies of a service: those of the request, then of the response.
LEMMA SrvEnds ==
  ASSUME NEW t \in Targets, KindOf[t] = "srv", NEW f, IsSources(f),
         SpecIn(f, t).err = "none", DependsIn(f, t).err = "none"
  PROVE  EndGood(f, t, SpecIn(f, t).spec, DependsIn(f, t).ctx)
<1>0. PICK loaded, s, s1, s2, ctx, ctx2 :
        /\ loaded = SpecIn(f, t) /\ s = loaded.spec /\ ctx = loaded.ctx
        /\ s1 = s.request /\ s2 = s.response /\ ctx2 = DependsIn(f, t).ctx
  OBVIOUS
<1>1. StartGood(loaded, t)
  BY <1>0, SrvStarts
<1>2. SpecHalves(t, s) = {s1, s2}
  BY <1>0 DEF SpecHalves
<1>3. /\ GoodContext(ctx, RootsOf(t)) /\ Accounted(ctx, <<>>, RootsOf(t))
      /\ s1.full_name \in RootsOf(t) /\ s1.full_name \in DOMAIN ctx.reg /\ ctx.reg[s1.full_name] = s1
      /\ s2.full_name \in RootsOf(t) /\ s2.full_name \in DOMAIN ctx.reg /\ ctx.reg[s2.full_name] = s2
      /\ RootsOf(t) = {s1.full_name, s2.full_name}
  BY <1>0, <1>1, <1>2 DEF StartGood
<1>4. \A g : DependsIn(g, t) =
               SrvDepends(load_msg_depends(SpecIn(g, t).ctx, EnvOf(g), SpecIn(g, t).spec.request),
                          EnvOf(g), SpecIn(g, t).spec)
  BY DEF DependsIn, load_srv_depends, load_depends
<1>5. PICK mid : mid = load_msg_depends(ctx, EnvOf(f), s1)
  OBVIOUS
<1>6. DependsIn(f, t) = SrvDepends(mid, EnvOf(f), s)
  BY <1>0, <1>4, <1>5
<1>7. mid.err = "none"
  BY <1>6 DEF SrvDepends
<1>8. DependsIn(f, t) = load_msg_depends(mid.ctx, EnvOf(f), s2)
  BY <1>0, <1>6, <1>7 DEF SrvDepends, load_depends
<1>9. AfterDepends(ctx, mid.ctx, s1.full_name, RootsOf(t)) /\ SameUnder(ctx, s1, f, mid.ctx)
  BY <1>3, <1>5, <1>7, HalfLoaded
<1>10. /\ GoodContext(mid.ctx, RootsOf(t)) /\ Accounted(mid.ctx, <<>>, RootsOf(t))
       /\ Grown(ctx, mid.ctx) /\ s1.full_name \in DOMAIN mid.ctx.dep
  BY <1>9 DEF AfterDepends
<1>11. s2.full_name \in DOMAIN mid.ctx.reg /\ mid.ctx.reg[s2.full_name] = s2
  BY <1>3, <1>10 DEF Grown
<1>12. AfterDepends(mid.ctx, ctx2, s2.full_name, RootsOf(t)) /\ SameUnder(mid.ctx, s2, f, ctx2)
  <2>1. load_msg_depends(mid.ctx, EnvOf(f), s2).err = "none"
    BY <1>8
  <2>2. ctx2 = load_msg_depends(mid.ctx, EnvOf(f), s2).ctx
    BY <1>0, <1>8
  <2> QED BY <2>1, <2>2, <1>3, <1>10, <1>11, HalfLoaded
<1>13. /\ GoodContext(ctx2, RootsOf(t)) /\ Accounted(ctx2, <<>>, RootsOf(t))
       /\ RootsOf(t) \subseteq DOMAIN ctx2.dep /\ Grown(mid.ctx, ctx2)
  BY <1>3, <1>10, <1>12 DEF AfterDepends, Grown
<1>14. Grown(ctx, ctx2)
  BY <1>10, <1>13, GrownTwice
<1>15. ASSUME NEW g, Alike(f, g, ctx2), g[File(t)] = f[File(t)]
      PROVE  SpecIn(g, t) = SpecIn(f, t) /\ DependsIn(g, t) = DependsIn(f, t)
  <2>1. SpecIn(g, t) = SpecIn(f, t)
    BY <1>15, SameSpec
  <2>2. Alike(f, g, mid.ctx)
    BY <1>13, <1>15 DEF Alike, Grown
  <2>3. load_msg_depends(ctx, EnvOf(g), s1) = mid
    BY <2>2, <1>5, <1>9 DEF SameUnder, Alike
  <2>4. load_msg_depends(mid.ctx, EnvOf(g), s2) = load_msg_depends(mid.ctx, EnvOf(f), s2)
    BY <1>12, <1>15 DEF SameUnder, Alike
  <2>5. DependsIn(g, t) = SrvDepends(mid, EnvOf(g), s)
    BY <2>1, <2>3, <1>0, <1>4
  <2>6. DependsIn(g, t) = load_msg_depends(mid.ctx, EnvOf(g), s2)
    BY <2>5, <1>0, <1>7 DEF SrvDepends, load_depends
  <2> QED BY <2>1, <2>4, <2>6, <1>8
<1>16. EndGood(f, t, s, ctx2)
  BY <1>0, <1>1, <1>13, <1>14, <1>15, StillGood DEF EndGood
<1> QED BY <1>0, <1>16

\* Any target.
LEMMA TargetEnds ==
  ASSUME NEW t \in Targets, NEW f, IsSources(f),
         SpecIn(f, t).err = "none", DependsIn(f, t).err = "none"
  PROVE  EndGood(f, t, SpecIn(f, t).spec, DependsIn(f, t).ctx)
<1>1. KindOf[t] = "msg" \/ KindOf[t] = "srv"
  BY BuildAssumption
<1> QED BY <1>1, MsgEnds, SrvEnds

-----------------------------------------------------------------------------
(* All the dependencies of a name.                                         *)

\* Dependencies are names that have dependencies, and there are no cycles.
Acyclic(dep, r, k) ==
  /\ Ranked(dep, r, k)
  /\ \A n \in DOMAIN dep : IsSeq(dep[n]) /\ ToSet(dep[n]) \subseteq DOMAIN dep

\* What get_all_depends makes of a name when it has made all of the others.
AllOne(dep, all, n) == FlattenSeq([i \in DOMAIN dep[n] |-> <<dep[n][i]>> \o all[dep[n][i]]])

\* It only looks at the dependencies of the name.
LEMMA AllOneOf ==
  ASSUME NEW dep, NEW n, NEW g, NEW h, \A d \in ToSet(dep[n]) : g[d] = h[d]
  PROVE  AllOne(dep, g, n) = AllOne(dep, h, n)
<1>1. \A i \in DOMAIN dep[n] : g[dep[n][i]] = h[dep[n][i]]
  BY DEF ToSet
<1>2. [i \in DOMAIN dep[n] |-> <<dep[n][i]>> \o g[dep[n][i]]] =
      [i \in DOMAIN dep[n] |-> <<dep[n][i]>> \o h[dep[n][i]]]
  BY <1>1
<1> QED BY <1>2 DEF AllOne

\* The recursion of get_all_depends ends.
LEMMA AllExists ==
  ASSUME NEW dep, NEW r, NEW k, Acyclic(dep, r, k)
  PROVE  \E all : all = [n \in DOMAIN dep |-> AllOne(dep, all, n)]
<1> DEFINE Is(all, m) == all = [n \in {x \in DOMAIN dep : r[x] < m} |-> AllOne(dep, all, n)]
           B == {m \in 0 .. k + 1 : ~ \E all : Is(all, m)}
<1>0. k \in Nat /\ k + 1 \in Nat /\ \A x \in DOMAIN dep : r[x] \in 0..k
  BY DEF Acyclic, Ranked
<1>1. 0 \notin B
  <2>1. {x \in DOMAIN dep : r[x] < 0} = {}
    BY <1>0
  <2>2. Is([n \in {} |-> 0], 0)
    BY <2>1
  <2> QED BY <2>2
<1>2. ASSUME NEW m \in B, m > 0 PROVE m - 1 \in B
  <2>1. m - 1 \in 0 .. k + 1 /\ m \in Nat
    BY <1>0, <1>2
  <2>2. ASSUME NEW h, Is(h, m - 1) PROVE \E all : Is(all, m)
    <3>1. PICK g : g = [n \in {x \in DOMAIN dep : r[x] < m} |-> AllOne(dep, h, n)]
      OBVIOUS
    <3>2. \A x \in DOMAIN dep : r[x] < m - 1 => h[x] = AllOne(dep, h, x)
      BY <2>2
    <3>3. \A x \in DOMAIN dep : r[x] < m => g[x] = AllOne(dep, h, x)
      BY <3>1
    <3>4. \A x \in DOMAIN dep : r[x] < m - 1 => g[x] = h[x]
      BY <1>0, <2>1, <3>2, <3>3
    <3>5. ASSUME NEW x \in DOMAIN dep, r[x] < m PROVE AllOne(dep, g, x) = AllOne(dep, h, x)
      <4>1. ASSUME NEW d \in ToSet(dep[x]) PROVE g[d] = h[d]
        <5>1. d \in DOMAIN dep /\ r[d] < r[x]
          BY DEF Acyclic, Ranked
        <5>2. r[d] < m - 1
          BY <5>1, <3>5, <1>0, <2>1
        <5> QED BY <5>1, <5>2, <3>4
      <4> QED BY <4>1, AllOneOf
    <3>6. Is(g, m)
      BY <3>1, <3>5
    <3> QED BY <3>6
  <2> QED BY <2>1, <2>2
<1>3. B \in SUBSET (0 .. k + 1)
  OBVIOUS
<1> HIDE DEF B
<1>4. B = {}
  BY <1>0, <1>1, <1>2, <1>3, NoneBad
<1>5. k + 1 \notin B /\ k + 1 \in 0 .. k + 1
  BY <1>0, <1>4
<1>6. PICK all : Is(all, k + 1)
  BY <1>5 DEF B
<1>7. {x \in DOMAIN dep : r[x] < k + 1} = DOMAIN dep
  BY <1>0
<1> QED BY <1>6, <1>7

\* What the equation of get_all_depends says of sets.
AllNext(dep, all, n) ==
  ToSet(all[n]) = ToSet(dep[n]) \cup UNION {ToSet(all[d]) : d \in ToSet(dep[n])}
AllGood(dep, r, all, n) ==
  /\ all[n] \in Seq(DOMAIN dep) /\ AllNext(dep, all, n)
  /\ \A m \in ToSet(all[n]) : /\ m \in DOMAIN dep /\ r[m] < r[n]
                              /\ ToSet(dep[m]) \subseteq ToSet(all[n])

\* A name, when it holds of its dependencies.
LEMMA AllOneGood ==
  ASSUME NEW dep, NEW r, NEW k, Acyclic(dep, r, k), NEW all, NEW n \in DOMAIN dep,
         all[n] = AllOne(dep, all, n), \A d \in ToSet(dep[n]) : AllGood(dep, r, all, d)
  PROVE  AllGood(dep, r, all, n)
<1>0. PICK deps, ss : /\ deps = dep[n]
                      /\ ss = [i \in DOMAIN deps |-> <<deps[i]>> \o all[deps[i]]]
  OBVIOUS
<1>1. /\ IsSeq(deps) /\ Len(deps) \in Nat /\ DOMAIN deps = 1..Len(deps)
      /\ ToSet(deps) \subseteq DOMAIN dep /\ \A i \in DOMAIN deps : deps[i] \in ToSet(deps)
  BY <1>0 DEF Acyclic, IsSeq, ToSet
<1>2. ASSUME NEW i \in DOMAIN deps
      PROVE  ss[i] \in Seq(DOMAIN dep) /\ ToSet(ss[i]) = {deps[i]} \cup ToSet(all[deps[i]])
  <2>1. <<deps[i]>> \in Seq(DOMAIN dep) /\ all[deps[i]] \in Seq(DOMAIN dep)
    BY <1>0, <1>1 DEF AllGood
  <2>2. ToSet(<<deps[i]>>) = {deps[i]}
    BY DEF ToSet
  <2>3. ss[i] = <<deps[i]>> \o all[deps[i]]
    BY <1>0
  <2>4. PICK a, b : a = <<deps[i]>> /\ b = all[deps[i]]
    OBVIOUS
  <2>5. a \in Seq(DOMAIN dep) /\ b \in Seq(DOMAIN dep)
    BY <2>1, <2>4
  <2>6. a \o b \in Seq(DOMAIN dep) /\ ToSet(a \o b) = ToSet(a) \cup ToSet(b)
    BY <2>5, Concatenated
  <2> QED BY <2>2, <2>3, <2>4, <2>6
<1>3. IsSeq(ss) /\ DOMAIN ss = DOMAIN deps
  BY <1>0, <1>1, FunctionSeq
<1>4. all[n] = FlattenSeq(ss)
  BY <1>0 DEF AllOne
<1>5. all[n] \in Seq(DOMAIN dep) /\ ToSet(all[n]) = UNION {ToSet(ss[i]) : i \in DOMAIN ss}
  BY <1>2, <1>3, <1>4, Flattened
<1>6. \A m : m \in ToSet(all[n]) <=> \E d \in ToSet(deps) : m = d \/ m \in ToSet(all[d])
  <2>1. \A m : m \in ToSet(all[n]) <=> \E i \in DOMAIN deps : m = deps[i] \/ m \in ToSet(all[deps[i]])
    BY <1>2, <1>3, <1>5
  <2>2. \A d : d \in ToSet(deps) <=> \E i \in DOMAIN deps : d = deps[i]
    BY DEF ToSet
  <2> QED BY <2>1, <2>2
<1>7. AllNext(dep, all, n)
  BY <1>0, <1>6 DEF AllNext
<1>8. ASSUME NEW m \in ToSet(all[n])
      PROVE  m \in DOMAIN dep /\ r[m] < r[n] /\ ToSet(dep[m]) \subseteq ToSet(all[n])
  <2>1. PICK d \in ToSet(deps) : m = d \/ m \in ToSet(all[d])
    BY <1>6
  <2>2. /\ AllGood(dep, r, all, d) /\ r[d] < r[n] /\ d \in DOMAIN dep
        /\ ToSet(all[d]) \subseteq ToSet(all[n]) /\ ToSet(dep[d]) \subseteq ToSet(all[d])
    BY <1>0, <1>1, <1>6 DEF Acyclic, Ranked, AllGood, AllNext
  <2>3. CASE m = d
    BY <2>2, <2>3
  <2>4. CASE m \in ToSet(all[d])
    <3>1. m \in DOMAIN dep /\ r[m] < r[d] /\ ToSet(dep[m]) \subseteq ToSet(all[d])
      BY <2>2, <2>4 DEF AllGood
    <3>2. r[m] \in Nat /\ r[d] \in Nat /\ r[n] \in Nat
      BY <2>2, <3>1 DEF Acyclic, Ranked
    <3> QED BY <2>2, <3>1, <3>2
  <2> QED BY <2>1, <2>3, <2>4
<1> QED BY <1>5, <1>7, <1>8 DEF AllGood

\* All names.
LEMMA AllAreGood ==
  ASSUME NEW dep, NEW r, NEW k, Acyclic(dep, r, k), NEW all,
         \A n \in DOMAIN dep : all[n] = AllOne(dep, all, n)
  PROVE  \A n \in DOMAIN dep : AllGood(dep, r, all, n)
<1> DEFINE B == {m \in 0 .. k + 1 : ~ \A n \in DOMAIN dep : r[n] < m => AllGood(dep, r, all, n)}
<1>0. k \in Nat /\ k + 1 \in Nat /\ \A x \in DOMAIN dep : r[x] \in 0..k
  BY DEF Acyclic, Ranked
<1>1. 0 \notin B
  BY <1>0
<1>2. ASSUME NEW m \in B, m > 0 PROVE m - 1 \in B
  <2>1. m - 1 \in 0 .. k + 1 /\ m \in Nat
    BY <1>0, <1>2
  <2>2. ASSUME \A n \in DOMAIN dep : r[n] < m - 1 => AllGood(dep, r, all, n),
               NEW n \in DOMAIN dep, r[n] < m
        PROVE  AllGood(dep, r, all, n)
    <3>1. ASSUME NEW d \in ToSet(dep[n]) PROVE AllGood(dep, r, all, d)
      <4>1. d \in DOMAIN dep /\ r[d] < r[n]
        BY DEF Acyclic, Ranked
      <4>2. r[d] < m - 1
        BY <4>1, <2>1, <2>2, <1>0
      <4> QED BY <4>1, <4>2, <2>2
    <3> QED BY <3>1, AllOneGood
  <2> QED BY <2>1, <2>2
<1>3. B \in SUBSET (0 .. k + 1)
  OBVIOUS
<1> HIDE DEF B
<1>4. B = {}
  BY <1>0, <1>1, <1>2, <1>3, NoneBad
<1>5. k + 1 \notin B /\ k + 1 \in 0 .. k + 1
  BY <1>0, <1>4
<1>6. \A n \in DOMAIN dep : r[n] < k + 1
  BY <1>0
<1> QED BY <1>5, <1>6 DEF B

\* What get_all_depends returns for every name that has dependencies: these and
\* theirs, all of a smaller rank.
AllDepends(ctx, r) ==
  \A n \in DOMAIN ctx.dep :
    /\ IsSeq(get_all_depends(ctx, n)) /\ ToSet(ctx.dep[n]) \subseteq ToSet(get_all_depends(ctx, n))
    /\ \A m \in ToSet(get_all_depends(ctx, n)) :
         /\ m \in DOMAIN ctx.dep /\ r[m] < r[n]
         /\ ToSet(ctx.dep[m]) \subseteq ToSet(get_all_depends(ctx, n))

\* get_all_depends returns that.
LEMMA AllDependsGood ==
  ASSUME NEW ctx, NEW Roots, GoodContext(ctx, Roots)
  PROVE  \E r, k : Ranked(ctx.dep, r, k) /\ AllDepends(ctx, r)
<1>1. PICK r, k : Ranked(ctx.dep, r, k)
  BY DEF GoodContext
<1>2. PICK dep : dep = ctx.dep
  OBVIOUS
<1>3. Acyclic(dep, r, k)
  BY <1>1, <1>2 DEF Acyclic, GoodContext
<1> DEFINE Is(all) == all = [n \in DOMAIN dep |-> AllOne(dep, all, n)]
<1>4. PICK all : all = (CHOOSE h : Is(h)) /\ Is(all)
  <2>1. \E h : Is(h)
    BY <1>3, AllExists
  <2> QED BY <2>1
<1>5. \A n \in DOMAIN dep : all[n] = AllOne(dep, all, n)
  BY <1>4
<1>6. \A n \in DOMAIN dep : AllGood(dep, r, all, n)
  BY <1>3, <1>5, AllAreGood
<1>7. \A n : get_all_depends(ctx, n) = all[n]
  BY <1>2, <1>4 DEF get_all_depends, AllOne
<1>8. ASSUME NEW n \in DOMAIN dep
      PROVE  /\ IsSeq(all[n]) /\ ToSet(dep[n]) \subseteq ToSet(all[n])
             /\ \A m \in ToSet(all[n]) : /\ m \in DOMAIN dep /\ r[m] < r[n]
                                         /\ ToSet(dep[m]) \subseteq ToSet(all[n])
  <2>1. all[n] \in Seq(DOMAIN dep)
    BY <1>6 DEF AllGood
  <2>2. IsSeq(all[n])
    BY <2>1, OverASet
  <2> QED BY <2>2, <1>6 DEF AllGood, AllNext
<1>9. AllDepends(ctx, r)
  BY <1>2, <1>7, <1>8 DEF AllDepends
<1> QED BY <1>1, <1>9

\* Whatever was loaded from a file is a dependency of a root or a root.
LEMMA RootsNeedAll ==
  ASSUME NEW ctx, NEW Roots, GoodContext(ctx, Roots), Accounted(ctx, <<>>, Roots),
         Roots \subseteq DOMAIN ctx.dep
  PROVE  \A x \in DOMAIN ctx.file \ Roots :
           \E root \in Roots : x \in ToSet(get_all_depends(ctx, root))
<1>1. PICK r, k : Ranked(ctx.dep, r, k) /\ AllDepends(ctx, r)
  BY AllDependsGood
<1> DEFINE needed(x) == \E root \in Roots : x \in ToSet(get_all_depends(ctx, root))
           Bad == {x \in DOMAIN ctx.file \ Roots : ~needed(x)}
           Heights == {k - r[x] : x \in Bad}
<1>2. k \in Nat /\ \A x \in DOMAIN ctx.dep : r[x] \in 0..k
  BY <1>1 DEF Ranked
<1>3. ASSUME NEW x \in Bad
      PROVE  x \in DOMAIN ctx.dep /\ \E m \in Bad : m \in DOMAIN ctx.dep /\ r[m] > r[x]
  <2>1. DOMAIN <<>> = {}
    OBVIOUS
  <2>2. PICK m \in DOMAIN ctx.dep : x \in ToSet(ctx.dep[m])
    BY <2>1 DEF Accounted
  <2>3. /\ m \in DOMAIN ctx.file \cup Roots /\ x \in DOMAIN ctx.dep /\ r[x] < r[m]
    BY <2>2, <1>1 DEF GoodContext, Ranked
  <2>4. m \notin Roots
    BY <2>2, <1>1 DEF AllDepends
  <2>5. ~needed(m)
    BY <2>2, <1>1 DEF AllDepends
  <2>6. r[m] > r[x]
    BY <2>2, <2>3, <1>2
  <2> QED BY <2>2, <2>3, <2>4, <2>5, <2>6
<1> HIDE DEF Bad
<1>4. Bad = {}
  <2>1. ASSUME Bad # {} PROVE FALSE
    <3>1. Heights \subseteq Nat /\ Heights # {}
      BY <2>1, <1>2, <1>3
    <3>2. PICK n \in Heights : \A y \in Heights : n <= y
      <4> HIDE DEF Heights
      <4> QED BY <3>1, LeastNumber
    <3>3. PICK x \in Bad : n = k - r[x]
      OBVIOUS
    <3>4. PICK m \in Bad : m \in DOMAIN ctx.dep /\ r[m] > r[x] /\ x \in DOMAIN ctx.dep
      BY <1>3
    <3>5. k - r[m] \in Heights /\ r[m] \in 0..k /\ r[x] \in 0..k
      BY <3>4, <1>2
    <3>6. PICK a, b : a = r[x] /\ b = r[m]
      OBVIOUS
    <3>7. n <= k - b
      BY <3>2, <3>5, <3>6
    <3>8. n = k - a /\ b > a /\ a \in 0..k /\ b \in 0..k
      BY <3>3, <3>4, <3>5, <3>6
    <3> HIDE DEF Heights
    <3> QED BY <3>7, <3>8, <1>2
  <2> QED BY <2>1
<1> QED BY <1>4 DEF Bad

\* Every file that was read is that of the target or of a dependency.
LEMMA FilesTracked ==
  ASSUME NEW f, NEW t, NEW spec, NEW ctx, EndGood(f, t, spec, ctx)
  PROVE  \A n \in DOMAIN ctx.file :
           \/ ctx.file[n] = File(t)
           \/ n \in UNION {ToSet(get_all_depends(ctx, s.full_name)) : s \in SpecHalves(t, spec)}
<1>1. /\ GoodContext(ctx, RootsOf(t)) /\ Accounted(ctx, <<>>, RootsOf(t))
      /\ RootsOf(t) \subseteq DOMAIN ctx.dep
      /\ \A n \in DOMAIN ctx.file \cap RootsOf(t) : ctx.file[n] = File(t)
      /\ RootsOf(t) = {s.full_name : s \in SpecHalves(t, spec)}
  BY DEF EndGood
<1>2. \A x \in DOMAIN ctx.file \ RootsOf(t) :
        \E root \in RootsOf(t) : x \in ToSet(get_all_depends(ctx, root))
  BY <1>1, RootsNeedAll
<1>3. ASSUME NEW n \in DOMAIN ctx.file \ RootsOf(t)
      PROVE  n \in UNION {ToSet(get_all_depends(ctx, s.full_name)) : s \in SpecHalves(t, spec)}
  <2>1. PICK root \in RootsOf(t) : n \in ToSet(get_all_depends(ctx, root))
    BY <1>2
  <2>2. PICK s \in SpecHalves(t, spec) : root = s.full_name
    BY <1>1
  <2> QED BY <2>1, <2>2
<1> QED BY <1>1, <1>3

-----------------------------------------------------------------------------
(* The full text of a message.                                             *)

\* They are the name of the message and those of its dependencies, each once.
LEMMA SectionNames ==
  ASSUME NEW ctx, NEW s, NEW all, all = get_all_depends(ctx, s.full_name), IsSeq(all),
         s.full_name \notin ToSet(all)
  PROVE  /\ IsInjective(Sections(compute_full_text(ctx, s)))
         /\ ToSet(Sections(compute_full_text(ctx, s))) = {s.full_name} \cup ToSet(all)
<1>0. PICK root, deps, full, head, tail :
        /\ root = s.full_name /\ deps = _unique_deps(all)
        /\ full = compute_full_text(ctx, s)
        /\ head = [msg |-> root, text |-> s.text]
        /\ tail = [i \in DOMAIN deps |-> [msg |-> deps[i], text |-> ctx.reg[deps[i]].text]]
  OBVIOUS
<1>1. IsSeq(deps) /\ IsInjective(deps) /\ ToSet(deps) = ToSet(all)
  BY <1>0, UniqueDeps
<1>2. Len(deps) \in Nat /\ DOMAIN deps = 1..Len(deps)
  BY <1>1 DEF IsSeq
<1>3. IsSeq(tail) /\ DOMAIN tail = DOMAIN deps /\ \A i \in DOMAIN deps : tail[i].msg = deps[i]
  <2>1. tail = [i \in 1..Len(deps) |-> tail[i]]
    BY <1>0, <1>2
  <2>2. IsSeq(tail)
    BY <2>1, <1>2, FunctionSeq
  <2>3. DOMAIN tail = DOMAIN deps /\ \A i \in DOMAIN deps : tail[i].msg = deps[i]
    BY <1>0
  <2> QED BY <2>2, <2>3
<1>4. full = <<head>> \o tail
  BY <1>0 DEF compute_full_text
<1>5. PICK n : n = Len(deps)
  OBVIOUS
<1>6. n \in Nat /\ DOMAIN deps = 1..n /\ DOMAIN tail = 1..n
  BY <1>2, <1>3, <1>5
<1>7. Len(tail) = n /\ tail \in Seq(ToSet(tail))
  BY <1>3, <1>6 DEF IsSeq
<1>8. DOMAIN full = 1 .. n + 1 /\ full[1] = head /\ \A i \in 2 .. n + 1 : full[i] = tail[i - 1]
  <2>1. PICK T : T = ToSet(tail) \cup {head}
    OBVIOUS
  <2>2. <<head>> \in Seq(T) /\ tail \in Seq(T)
    BY <2>1, <1>7
  <2>3. <<head>> \o tail \in Seq(T) /\ Len(<<head>> \o tail) = 1 + n
    BY <2>2, <1>7
  <2>4. (<<head>> \o tail)[1] = head
    BY <2>2
  <2>5. ASSUME NEW i \in 2 .. n + 1 PROVE (<<head>> \o tail)[i] = tail[i - 1]
    BY <2>2, <1>6, <1>7
  <2> QED BY <2>3, <2>4, <2>5, <1>4, <1>6
<1>9. PICK names : names = Sections(full)
  OBVIOUS
<1>10. /\ DOMAIN names = 1 .. n + 1 /\ names[1] = root
       /\ \A i \in 2 .. n + 1 : i - 1 \in 1..n /\ names[i] = deps[i - 1]
  <2>1. ASSUME NEW i \in 2 .. n + 1 PROVE i - 1 \in 1..n /\ i \in 1 .. n + 1
    BY <1>6
  <2>2. 1 \in 1 .. n + 1 /\ head.msg = root
    BY <1>0, <1>6
  <2>3. DOMAIN names = DOMAIN full /\ \A i \in DOMAIN full : names[i] = full[i].msg
    BY <1>9 DEF Sections
  <2> QED BY <2>1, <2>2, <2>3, <1>3, <1>6, <1>8
<1>11. \A i \in 1..n : deps[i] \in ToSet(all) /\ deps[i] # root
  BY <1>0, <1>1, <1>6 DEF ToSet
<1>12. ASSUME NEW i \in 1 .. n + 1, NEW j \in 1 .. n + 1, names[i] = names[j] PROVE i = j
  <2>1. \A m \in 1 .. n + 1 : m = 1 \/ m \in 2 .. n + 1
    BY <1>6
  <2>2. CASE i = 1
    BY <2>1, <2>2, <1>10, <1>11, <1>12
  <2>3. CASE j = 1
    BY <2>1, <2>3, <1>10, <1>11, <1>12
  <2>4. CASE i \in 2 .. n + 1 /\ j \in 2 .. n + 1
    <3>1. deps[i - 1] = deps[j - 1] /\ i - 1 \in 1..n /\ j - 1 \in 1..n
      BY <2>4, <1>10, <1>12
    <3>2. i - 1 = j - 1
      BY <3>1, <1>1, <1>6 DEF IsInjective
    <3> QED BY <3>2, <2>4, <1>6
  <2> QED BY <2>1, <2>2, <2>3, <2>4
<1>13. IsInjective(names)
  BY <1>10, <1>12 DEF IsInjective
<1>14. ASSUME NEW m PROVE m \in ToSet(names) <=> m = root \/ m \in ToSet(all)
  <2>1. m \in ToSet(names) <=> \E i \in 1 .. n + 1 : m = names[i]
    BY <1>10 DEF ToSet
  <2>2. m \in ToSet(all) <=> \E i \in 1..n : m = deps[i]
    BY <1>1, <1>6 DEF ToSet
  <2>3. ASSUME NEW i \in 1..n PROVE i + 1 \in 2 .. n + 1 /\ names[i + 1] = deps[i] /\ i + 1 \in 1 .. n + 1
    <3>1. i + 1 \in 2 .. n + 1 /\ (i + 1) - 1 = i /\ i + 1 \in 1 .. n + 1
      BY <1>6
    <3>2. names[i + 1] = deps[(i + 1) - 1]
      BY <3>1, <1>10
    <3> QED BY <3>1, <3>2
  <2>4. 1 \in 1 .. n + 1 /\ \A i \in 1 .. n + 1 : i = 1 \/ i \in 2 .. n + 1
    BY <1>6
  <2>5. ASSUME NEW i \in 1 .. n + 1 PROVE names[i] = root \/ names[i] \in ToSet(all)
    BY <2>4, <1>10, <1>11
  <2> QED BY <2>1, <2>2, <2>3, <2>4, <2>5, <1>10
<1>15. ToSet(names) = {root} \cup ToSet(all)
  BY <1>14
<1> QED BY <1>0, <1>9, <1>13, <1>15

\* It has a section for every type that one of its sections uses.
LEMMA FullTextIsGood ==
  ASSUME NEW f, NEW t, NEW spec, NEW ctx, EndGood(f, t, spec, ctx), NEW s \in SpecHalves(t, spec)
  PROVE  OneForEachType(ctx, Sections(compute_full_text(ctx, s)))
<1>0. PICK root, all : root = s.full_name /\ all = get_all_depends(ctx, root)
  OBVIOUS
<1>1. GoodContext(ctx, RootsOf(t)) /\ root \in DOMAIN ctx.dep
  BY <1>0 DEF EndGood
<1>2. PICK r, k : Ranked(ctx.dep, r, k) /\ AllDepends(ctx, r)
  BY <1>1, AllDependsGood
<1>3. /\ IsSeq(all) /\ ToSet(ctx.dep[root]) \subseteq ToSet(all)
      /\ \A m \in ToSet(all) : m \in DOMAIN ctx.dep /\ r[m] < r[root]
                               /\ ToSet(ctx.dep[m]) \subseteq ToSet(all)
  BY <1>0, <1>1, <1>2 DEF AllDepends
<1>4. root \notin ToSet(all)
  <2>1. r[root] \in Nat
    BY <1>1, <1>2 DEF Ranked
  <2>2. ~(r[root] < r[root])
    BY <2>1
  <2> QED BY <2>2, <1>3
<1>5. PICK names : names = Sections(compute_full_text(ctx, s))
  OBVIOUS
<1>6. IsInjective(names) /\ ToSet(names) = {root} \cup ToSet(all)
  BY <1>0, <1>3, <1>4, <1>5, SectionNames
<1>7. ASSUME NEW m \in ToSet(names), NEW i \in DOMAIN ctx.reg[m].fields
      PROVE  \/ is_builtin(ctx.reg[m].fields[i].type.parts)
             \/ ctx.reg[m].fields[i].type.parts \in ToSet(names)
  <2>1. m \in DOMAIN ctx.dep /\ ToSet(ctx.dep[m]) \subseteq ToSet(names)
    BY <1>1, <1>3, <1>6
  <2>2. PICK about : about = ctx.reg[m]
    OBVIOUS
  <2>3. m \in DOMAIN ctx.reg /\ m \in DOMAIN ctx.file \cup RootsOf(t)
        /\ ToSet(ctx.dep[m]) = AllUses(about)
    BY <1>1, <2>1, <2>2 DEF GoodContext
  <2>4. GoodSpec(about, m) /\ about.package # NoPackage
    BY <1>1, <2>2, <2>3 DEF GoodContext
  <2>5. i \in DOMAIN about.fields
    BY <2>2
  <2>6. FieldName(about, i) = about.fields[i].type.parts
    BY <2>4, <2>5, LookedUp
  <2>7. is_builtin(FieldName(about, i)) \/ FieldName(about, i) \in AllUses(about)
    BY <2>5 DEF AllUses
  <2> QED BY <2>1, <2>2, <2>3, <2>6, <2>7
<1> QED BY <1>5, <1>6, <1>7 DEF OneForEachType

\* The full texts are self-contained whatever the files say.
LEMMA TextsAreSelfContained ==
  ASSUME IsSources(fs)
  PROVE  DefinitionSelfContained
<1>1. ASSUME NEW t \in Targets, SpecIn(fs, t).err = "none", DependsIn(fs, t).err = "none"
      PROVE  \A s \in SpecHalves(t, SpecIn(fs, t).spec) :
               OneForEachType(DependsIn(fs, t).ctx,
                              Sections(compute_full_text(DependsIn(fs, t).ctx, s)))
  <2>1. EndGood(fs, t, SpecIn(fs, t).spec, DependsIn(fs, t).ctx)
    BY <1>1, TargetEnds
  <2> QED BY <2>1, FullTextIsGood
<1>2. ASSUME NEW t \in Targets PROVE SelfContained(t, LoadSpec(t), LoadDepends(t))
  BY <1>1, InTheFiles DEF SelfContained
<1> QED BY <1>2 DEF DefinitionSelfContained

-----------------------------------------------------------------------------
USE BuildAssumption

-----------------------------------------------------------------------------
(* The processes of a build and the index of the package.                  *)

Phases == {"idle", "checked", "succeeded", "failed"}
Steps == {"none", "loading", "writing", "index", "look", "package", "done", "failed"}
Indexing == {"index", "look", "package"}

TypeInv ==
  /\ DOMAIN fs = DOMAIN Initial
  /\ \A f \in DOMAIN fs : fs[f] \in Variants[f] \cup {Initial[f]}
  /\ phase \in Phases
  /\ job \in [Jobs -> Steps]
  /\ out = [j \in Jobs |-> out[j]]
  /\ newer = [j \in Jobs |-> newer[j]]
  /\ seen = [j \in Jobs |-> seen[j]]
  /\ overlap \in BOOLEAN /\ killed \in BOOLEAN

\* No process runs between builds; only gennodejs writes indexes, and only
\* genmsg_py.py has an output open.
ProcessInv ==
  /\ Resting => \A j \in Jobs : job[j] \in {"none", "done", "failed"}
  /\ \A j \in Jobs : job[j] \in Indexing => j[2] = "nodejs"
  /\ \A j \in Jobs : job[j] = "writing" => j[2] = "py"

\* Without overlap one nodejs process runs at a time; from its look at the
\* directories on it knows the indexes there are, and the index of the package
\* is behind only while it is on its way.
IndexInv ==
  /\ package \subseteq index
  /\ \A j \in Jobs : seen[j] \subseteq index
  /\ ~overlap => \A j, k \in Running : j[2] = "nodejs" /\ k[2] = "nodejs" => j = k
  /\ ~overlap /\ ~killed =>
       /\ \A j \in Jobs : job[j] = "package" => seen[j] = index
       /\ package # index => \E j \in Jobs : job[j] \in {"look", "package"}

BaseInv == TypeInv /\ ProcessInv /\ IndexInv

\* Nothing is generated in the first state.
LEMMA InitBase == Init => BaseInv
<1> SUFFICES ASSUME Init PROVE BaseInv
  OBVIOUS
<1>1. TypeInv
  BY DEF Init, TypeInv, Phases, Steps
<1>2. ProcessInv
  BY DEF Init, ProcessInv, Indexing
<1>3. IndexInv
  BY DEF Init, IndexInv, Running
<1> QED BY <1>1, <1>2, <1>3 DEF BaseInv

\* What a process does to its own step, its output and its marks, when it is
\* not one of the steps around the index.
LEMMA OwnStepBase ==
  ASSUME BaseInv, NEW j \in Jobs, NEW step \in Steps \ {"look", "package"},
         job' = [job EXCEPT ![j] = step],
         phase = "checked", phase' = phase, fs' = fs, job[j] \notin {"look", "package"},
         \E o : out' = [out EXCEPT ![j] = o], \E n : newer' = [newer EXCEPT ![j] = n],
         UNCHANGED <<index, package, seen, killed>>, overlap' \in BOOLEAN,
         step \in Indexing => j[2] = "nodejs",
         step = "writing" => j[2] = "py",
         ~overlap' => ~overlap /\ \A k \in Running' : k[2] = "nodejs" /\ j \in Running' /\ j[2] = "nodejs"
                                     => k = j
  PROVE  BaseInv'
<1>0. \A k \in Jobs : job'[k] = (IF k = j THEN step ELSE job[k])
  BY DEF BaseInv, TypeInv
<1>1. TypeInv'
  <2>1. job' \in [Jobs -> Steps]
    BY DEF BaseInv, TypeInv
  <2>2. out' = [k \in Jobs |-> out'[k]] /\ newer' = [k \in Jobs |-> newer'[k]]
    BY DEF BaseInv, TypeInv
  <2> QED BY <2>1, <2>2 DEF BaseInv, TypeInv
<1>2. ProcessInv'
  BY <1>0 DEF BaseInv, ProcessInv, Resting, Indexing
<1>3. \A k \in Running' : k \in Running \/ k = j
  BY <1>0 DEF Running
<1>4. IndexInv'
  BY <1>0, <1>3 DEF BaseInv, IndexInv
<1> QED BY <1>1, <1>2, <1>4 DEF BaseInv

\* Steps of a process that runs already, other than those around the index.
LEMMA RunningStepBase ==
  ASSUME BaseInv, NEW j \in Jobs, NEW step \in Steps \ {"look", "package"},
         job' = [job EXCEPT ![j] = step], job[j] \in {"loading", "writing"},
         phase' = phase, fs' = fs,
         \E o : out' = [out EXCEPT ![j] = o], \E n : newer' = [newer EXCEPT ![j] = n],
         UNCHANGED <<index, package, seen, killed, overlap>>,
         step \in Indexing => j[2] = "nodejs",
         step = "writing" => j[2] = "py"
  PROVE  BaseInv'
<1>1. phase = "checked"
  BY DEF BaseInv, TypeInv, ProcessInv, Resting, Phases
<1>2. j \in Running
  BY DEF Running
<1>3. \A k \in Jobs : job'[k] = (IF k = j THEN step ELSE job[k])
  BY DEF BaseInv, TypeInv
<1>4. \A k \in Running' : k \in Running \/ k = j
  BY <1>3 DEF Running
<1>5. ~overlap => \A k \in Running' : k[2] = "nodejs" /\ j \in Running' /\ j[2] = "nodejs" => k = j
  BY <1>2, <1>4 DEF BaseInv, IndexInv
<1>6. overlap' \in BOOLEAN
  BY DEF BaseInv, TypeInv
<1> QED BY <1>1, <1>5, <1>6, OwnStepBase

\* make starts a process.
LEMMA StartBase == ASSUME BaseInv, NEW j \in Jobs, Start(j) PROVE BaseInv'
<1>1. out' = [out EXCEPT ![j] = out[j]] /\ newer' = [newer EXCEPT ![j] = newer[j]]
  BY DEF BaseInv, TypeInv, Start
<1>2. overlap' \in BOOLEAN
  BY DEF BaseInv, TypeInv, Start
<1>3. \A k \in Jobs : job'[k] = (IF k = j THEN "loading" ELSE job[k])
  BY DEF BaseInv, TypeInv, Start
<1>4. \A k \in Running' : k \in Running \/ k = j
  BY <1>3 DEF Running
<1>5. ~overlap' => ~overlap /\ \A k \in Running' :
                      k[2] = "nodejs" /\ j \in Running' /\ j[2] = "nodejs" => k = j
  BY <1>4 DEF Start
<1>6. /\ job' = [job EXCEPT ![j] = "loading"] /\ phase = "checked" /\ phase' = phase /\ fs' = fs
      /\ job[j] \notin {"look", "package"}
      /\ UNCHANGED <<index, package, seen, killed>>
  BY DEF Start
<1>7. \E o : out' = [out EXCEPT ![j] = o]
  BY <1>1
<1>8. \E n : newer' = [newer EXCEPT ![j] = n]
  BY <1>1
<1>9. "loading" \in Steps \ {"look", "package"} /\ "loading" \notin Indexing
  BY DEF Steps, Indexing
<1> QED BY <1>2, <1>5, <1>6, <1>7, <1>8, <1>9, OwnStepBase

\* The generator processes, up to the index.
LEMMA GeneratorBase ==
  ASSUME BaseInv, NEW j \in Jobs,
         \/ OpenOutput(j) \/ WriteOutput(j) \/ GenerateMessagesFails(j)
         \/ generate_from_file(j) \/ generate_msg_from_spec(j) \/ generate_srv_from_spec(j)
         \/ GenerateFails(j)
  PROVE  BaseInv'
<1> DEFINE same == UNCHANGED <<index, package, seen, killed, overlap>> /\ phase' = phase /\ fs' = fs
           moves(s) == job' = [job EXCEPT ![j] = s] /\ job[j] \in {"loading", "writing"}
<1>0. out = [out EXCEPT ![j] = out[j]] /\ newer = [newer EXCEPT ![j] = newer[j]]
  BY DEF BaseInv, TypeInv
<1>1. ASSUME NEW s \in {"writing", "done", "failed", "index"}, moves(s), same,
             s = "index" => j[2] = "nodejs", s = "writing" => j[2] = "py",
             \E o : out' = [out EXCEPT ![j] = o], \E n : newer' = [newer EXCEPT ![j] = n]
      PROVE  BaseInv'
  <2>1. s \in Steps \ {"look", "package"} /\ (s \in Indexing => j[2] = "nodejs")
    BY <1>1 DEF Steps, Indexing
  <2> QED BY <1>1, <2>1, RunningStepBase
<1>2. CASE OpenOutput(j)
  <2>1. moves("writing") /\ same /\ j[2] = "py"
    BY <1>2 DEF OpenOutput
  <2>2. \E o : out' = [out EXCEPT ![j] = o]
    BY <1>2 DEF OpenOutput
  <2>3. \E n : newer' = [newer EXCEPT ![j] = n]
    BY <1>2 DEF OpenOutput
  <2> QED BY <1>1, <2>1, <2>2, <2>3
<1>3. CASE WriteOutput(j)
  <2>1. moves("done") /\ same /\ newer' = newer
    BY <1>3 DEF WriteOutput
  <2>2. \E o : out' = [out EXCEPT ![j] = o]
    BY <1>3 DEF WriteOutput, Written
  <2>3. \E n : newer' = [newer EXCEPT ![j] = n]
    BY <2>1, <1>0
  <2> QED BY <1>1, <2>1, <2>2, <2>3
<1>4. CASE GenerateMessagesFails(j)
  <2>1. moves("failed") /\ same /\ newer' = newer
    BY <1>4 DEF GenerateMessagesFails, Fails
  <2>2. \E o : out' = [out EXCEPT ![j] = o]
    BY <1>4 DEF GenerateMessagesFails
  <2>3. \E n : newer' = [newer EXCEPT ![j] = n]
    BY <2>1, <1>0
  <2> QED BY <1>1, <2>1, <2>2, <2>3
<1>5. CASE generate_from_file(j) \/ generate_msg_from_spec(j) \/ generate_srv_from_spec(j)
  <2>1. PICK s \in {"done", "index"} : Generates(j, s) /\ (s = "index" => j[2] = "nodejs")
    BY <1>5 DEF generate_from_file, generate_msg_from_spec, generate_srv_from_spec
  <2>2. moves(s) /\ same
    BY <2>1 DEF Generates
  <2>3. \E o : out' = [out EXCEPT ![j] = o]
    BY <2>1 DEF Generates, Written
  <2>4. \E n : newer' = [newer EXCEPT ![j] = n]
    BY <2>1 DEF Generates
  <2> QED BY <1>1, <2>1, <2>2, <2>3, <2>4
<1>6. CASE GenerateFails(j)
  <2>1. moves("failed") /\ same /\ newer' = newer /\ out' = out
    BY <1>6 DEF GenerateFails, Fails
  <2>2. \E o : out' = [out EXCEPT ![j] = o]
    BY <2>1, <1>0
  <2>3. \E n : newer' = [newer EXCEPT ![j] = n]
    BY <2>1, <1>0
  <2> QED BY <1>1, <2>1, <2>2, <2>3
<1> QED BY <1>2, <1>3, <1>4, <1>5, <1>6

\* gennodejs writes the index of its directory, looks which directories have
\* one, and writes the index of the package.
LEMMA IndexStepBase ==
  ASSUME BaseInv, NEW j \in Jobs,
         \/ write_msg_index(j) \/ write_srv_index(j) \/ LookForIndexes(j) \/ write_package_index(j)
  PROVE  BaseInv'
<1>1. PICK s \in {"look", "package", "done"} : job' = [job EXCEPT ![j] = s]
  BY DEF write_msg_index, write_srv_index, WritesIndex, LookForIndexes, write_package_index
<1>2. \A k \in Jobs : job'[k] = (IF k = j THEN s ELSE job[k])
  BY <1>1 DEF BaseInv, TypeInv
<1>3. /\ UNCHANGED <<fs, phase, out, newer, killed, overlap>>
      /\ job[j] \in Indexing /\ seen' = [k \in Jobs |-> seen'[k]]
  BY DEF write_msg_index, write_srv_index, WritesIndex, LookForIndexes, write_package_index,
         Indexing, BaseInv, TypeInv
<1>4. j[2] = "nodejs" /\ j \in Running
  BY <1>3 DEF BaseInv, ProcessInv, Running, Indexing
<1>5. TypeInv' /\ ProcessInv'
  BY <1>1, <1>2, <1>3, <1>4 DEF BaseInv, TypeInv, ProcessInv, Resting, Steps, Indexing, Phases
<1>6. \A k \in Running' : k \in Running
  BY <1>2, <1>4 DEF Running
<1>7. ~overlap => \A k \in Jobs : k[2] = "nodejs" /\ k \in Running => k = j
  BY <1>4 DEF BaseInv, IndexInv
<1>8. ~overlap => \A k \in Jobs \ {j} : job[k] \notin {"look", "package"}
  BY <1>7 DEF BaseInv, ProcessInv, Indexing, Running
<1>9. IndexInv'
  <2>1. CASE write_msg_index(j) \/ write_srv_index(j)
    <3>1. s = "look" /\ index \subseteq index' /\ package' = package /\ seen' = seen
      BY <2>1, <1>1, <1>2 DEF write_msg_index, write_srv_index, WritesIndex
    <3> QED BY <3>1, <1>2, <1>3, <1>6, <1>8 DEF BaseInv, IndexInv
  <2>2. CASE LookForIndexes(j)
    <3>1. s = "package" /\ index' = index /\ package' = package
          /\ \A k \in Jobs : seen'[k] = IF k = j THEN index ELSE seen[k]
      BY <2>2, <1>1, <1>2 DEF LookForIndexes, BaseInv, TypeInv
    <3> QED BY <3>1, <1>2, <1>3, <1>6, <1>8 DEF BaseInv, IndexInv
  <2>3. CASE write_package_index(j)
    <3>1. s = "done" /\ index' = index /\ package' = seen[j] /\ job[j] = "package"
          /\ \A k \in Jobs : seen'[k] = IF k = j THEN {} ELSE seen[k]
      BY <2>3, <1>1, <1>2 DEF write_package_index, BaseInv, TypeInv
    <3> QED BY <3>1, <1>2, <1>3, <1>6, <1>8 DEF BaseInv, IndexInv
  <2> QED BY <2>1, <2>2, <2>3
<1> QED BY <1>5, <1>9 DEF BaseInv

\* Edits, cmake, the verification and the ends of a build.
LEMMA BetweenBuildsBase ==
  ASSUME BaseInv, Edit \/ Configure \/ Check \/ EndBuild \/ Kill
  PROVE  BaseInv'
<1>1. CASE Edit
  <2>1. \A j \in Jobs : job'[j] \in {"none", "done", "failed"}
    BY <1>1 DEF Edit, BaseInv, ProcessInv
  <2>2. TypeInv'
    <3>1. PICK f \in DOMAIN fs : \E text \in Variants[f] \ {fs[f]} : fs' = [fs EXCEPT ![f] = text]
      BY <1>1 DEF Edit
    <3>2. PICK text \in Variants[f] : fs' = [fs EXCEPT ![f] = text]
      BY <3>1
    <3>3. DOMAIN fs' = DOMAIN Initial
          /\ \A g \in DOMAIN fs' : fs'[g] \in Variants[g] \cup {Initial[g]}
      BY <3>2 DEF BaseInv, TypeInv
    <3>4. newer' = [j \in Jobs |-> newer'[j]]
      BY <1>1 DEF Edit
    <3> QED BY <1>1, <3>3, <3>4 DEF Edit, BaseInv, TypeInv, Phases
  <2>3. ProcessInv' /\ IndexInv'
    BY <1>1, <2>1 DEF Edit, BaseInv, ProcessInv, IndexInv, Indexing, Running, Resting
  <2> QED BY <2>2, <2>3 DEF BaseInv
<1>2. CASE Configure
  BY <1>2 DEF Configure, BaseInv, TypeInv, ProcessInv, IndexInv, Indexing, Running, Resting
<1>3. ASSUME job' = [j \in Jobs |-> "none"], phase' \in Phases,
             UNCHANGED <<fs, out, newer, index, package, overlap>>,
             \/ seen' = seen /\ killed' = killed /\ \A j \in Jobs : job[j] \in {"none", "done", "failed"}
             \/ seen' = [j \in Jobs |-> {}] /\ killed' = TRUE
      PROVE  BaseInv'
  <2>1. TypeInv'
    BY <1>3 DEF BaseInv, TypeInv, Steps
  <2>2. ProcessInv' /\ Running' = {}
    BY <1>3 DEF ProcessInv, Indexing, Running
  <2>3. IndexInv'
    BY <1>3, <2>2 DEF BaseInv, IndexInv
  <2> QED BY <2>1, <2>2, <2>3 DEF BaseInv
<1>4. CASE Check
  <2>1. \A j \in Jobs : job[j] \in {"none", "done", "failed"}
    BY <1>4 DEF Check, BaseInv, ProcessInv
  <2> QED BY <1>3, <1>4, <2>1 DEF Check, Phases
<1>5. CASE EndBuild
  <2>1. \A j \in Jobs : job[j] \in {"none", "done", "failed"}
    BY <1>5 DEF EndBuild, Running
  <2> QED BY <1>3, <1>5, <2>1 DEF EndBuild, Phases
<1>6. CASE Kill
  BY <1>3, <1>6 DEF Kill, Phases
<1> QED BY <1>1, <1>2, <1>4, <1>5, <1>6

\* Every step keeps the invariant.
LEMMA NextBase == BaseInv /\ [Next]_vars => BaseInv'
<1> SUFFICES ASSUME BaseInv, [Next]_vars PROVE BaseInv'
  OBVIOUS
<1>1. CASE UNCHANGED vars
  BY <1>1 DEF vars, BaseInv, TypeInv, ProcessInv, IndexInv, Running, Resting
<1>2. CASE Edit \/ Configure \/ Check \/ EndBuild \/ Kill
  BY <1>2, BetweenBuildsBase
<1>3. ASSUME NEW j \in Jobs,
             \/ Start(j) \/ OpenOutput(j) \/ WriteOutput(j) \/ GenerateMessagesFails(j)
             \/ generate_from_file(j) \/ generate_msg_from_spec(j)
             \/ generate_srv_from_spec(j) \/ GenerateFails(j)
             \/ write_msg_index(j) \/ write_srv_index(j) \/ LookForIndexes(j) \/ write_package_index(j)
      PROVE  BaseInv'
  BY <1>3, StartBase, GeneratorBase, IndexStepBase
<1> QED BY <1>1, <1>2, <1>3 DEF Next

\* The index of the package names directories that have an index, all of them
\* after a build that succeeded, unless it was killed or nodejs processes ran
\* side by side.
THEOREM PackageIndexIsComplete == Spec => []PackageIndexComplete
<1>1. BaseInv => PackageIndexComplete
  BY DEF BaseInv, IndexInv, ProcessInv, PackageIndexComplete, Resting
<1> QED BY <1>1, InitBase, NextBase, PTL DEF Spec
-----------------------------------------------------------------------------
(* What a build that succeeds leaves is current.                           *)

\* The output of a job is what the generator makes of some texts, which differ
\* from those there are only in files that were edited after it; or the generator
\* could not load these texts.
CodeOf(j) ==
  \E f : /\ DOMAIN f = DOMAIN fs /\ \A x \in DOMAIN fs \ newer[j] : f[x] = fs[x]
         /\ SpecIn(f, j[1]).err = "none" /\ DependsIn(f, j[1]).err = "none" =>
              out[j] = [whole |-> TRUE, digest |-> DigestIn(f, j[1])]

\* While genmsg_py.py has its output open no file is edited; all other outputs
\* that were made are code. When make has succeeded nothing is out of date.
CodeInv ==
  ~killed =>
    /\ \A j \in Jobs : Made(j) => IF job[j] = "writing" THEN newer[j] = {} ELSE CodeOf(j)
    /\ phase = "succeeded" => \A j \in Jobs : ~OutOfDate(j)

\* No output is made in the first state.
LEMMA InitCode == Init => CodeInv
BY DEF Init, CodeInv, Made

\* What is written is the code of the texts there are.
LEMMA WrittenIsCode ==
  ASSUME NEW j \in Jobs, fs' = fs,
         \/ out'[j] = [whole |-> TRUE, digest |-> compute_digest(j[1])]
         \/ LoadDepends(j[1]).err # "none"
  PROVE  CodeOf(j)'
<1>1. compute_digest(j[1]) = DigestIn(fs, j[1]) /\ LoadDepends(j[1]) = DependsIn(fs, j[1])
  BY InTheFiles
<1>2. \/ out'[j] = [whole |-> TRUE, digest |-> DigestIn(fs, j[1])]
      \/ DependsIn(fs, j[1]).err # "none"
  BY <1>1
<1>3. PICK f : f = fs
  OBVIOUS
<1>4. /\ DOMAIN f = DOMAIN fs' /\ \A x \in DOMAIN fs' \ newer'[j] : f[x] = fs'[x]
      /\ SpecIn(f, j[1]).err = "none" /\ DependsIn(f, j[1]).err = "none" =>
           out'[j] = [whole |-> TRUE, digest |-> DigestIn(f, j[1])]
  BY <1>2, <1>3
<1> QED BY <1>4 DEF CodeOf

\* An output that nobody writes is the code it was.
LEMMA SameCode ==
  ASSUME NEW j \in Jobs, fs' = fs, out'[j] = out[j], newer'[j] = newer[j], CodeOf(j)
  PROVE  CodeOf(j)'
BY DEF CodeOf

\* The steps of a process.
LEMMA ProcessCode ==
  ASSUME BaseInv, CodeInv, NEW j \in Jobs,
         \/ Start(j) \/ OpenOutput(j) \/ WriteOutput(j) \/ GenerateMessagesFails(j)
         \/ generate_from_file(j) \/ generate_msg_from_spec(j)
         \/ generate_srv_from_spec(j) \/ GenerateFails(j)
         \/ write_msg_index(j) \/ write_srv_index(j) \/ LookForIndexes(j) \/ write_package_index(j)
  PROVE  CodeInv'
<1>1. fs' = fs /\ phase' = phase /\ killed' = killed /\ phase # "succeeded"
  BY DEF Start, OpenOutput, WriteOutput, GenerateMessagesFails, generate_from_file,
         generate_msg_from_spec, generate_srv_from_spec, Generates, GenerateFails, Fails,
         write_msg_index, write_srv_index, WritesIndex, LookForIndexes, write_package_index,
         BaseInv, ProcessInv, Resting
<1>2. \E s \in Steps : job' = [job EXCEPT ![j] = s]
  BY DEF Start, OpenOutput, WriteOutput, GenerateMessagesFails, generate_from_file,
         generate_msg_from_spec, generate_srv_from_spec, Generates, GenerateFails, Fails,
         write_msg_index, write_srv_index, WritesIndex, LookForIndexes, write_package_index, Steps
<1>3. PICK s \in Steps : job' = [job EXCEPT ![j] = s]
  BY <1>2
<1>4. \A k \in Jobs : job'[k] = IF k = j THEN s ELSE job[k]
  BY <1>3 DEF BaseInv, TypeInv
<1>5. /\ DOMAIN out = Jobs /\ DOMAIN newer = Jobs
      /\ \A k \in Jobs \ {j} : out'[k] = out[k] /\ newer'[k] = newer[k]
  BY DEF Start, OpenOutput, WriteOutput, GenerateMessagesFails, generate_from_file,
         generate_msg_from_spec, generate_srv_from_spec, Generates, GenerateFails, Fails, Written,
         write_msg_index, write_srv_index, WritesIndex, LookForIndexes, write_package_index,
         BaseInv, TypeInv
<1>6. ASSUME NEW k \in Jobs \ {j}, ~killed, Made(k)'
      PROVE  IF job'[k] = "writing" THEN newer'[k] = {} ELSE CodeOf(k)'
  <2>1. Made(k) /\ out'[k] = out[k] /\ newer'[k] = newer[k] /\ job'[k] = job[k]
    BY <1>4, <1>5, <1>6 DEF Made
  <2>2. IF job[k] = "writing" THEN newer[k] = {} ELSE CodeOf(k)
    BY <2>1, <1>6 DEF CodeInv
  <2> QED BY <2>1, <2>2, <1>1, SameCode
<1>7. ASSUME ~killed, Made(j)'
      PROVE  IF job'[j] = "writing" THEN newer'[j] = {} ELSE CodeOf(j)'
  <2>1. CASE OpenOutput(j)
    <3>1. s = "writing" /\ newer'[j] = {}
      BY <2>1, <1>3, <1>5 DEF OpenOutput, BaseInv, TypeInv
    <3> QED BY <3>1, <1>4
  <2>2. CASE \/ WriteOutput(j) \/ generate_from_file(j) \/ generate_msg_from_spec(j)
             \/ generate_srv_from_spec(j)
    <3>1. Written(j) /\ job'[j] # "writing"
      BY <2>2, <1>4 DEF WriteOutput, generate_from_file, generate_msg_from_spec,
                        generate_srv_from_spec, Generates, BaseInv, TypeInv
    <3>2. out'[j] = [whole |-> TRUE, digest |-> compute_digest(j[1])]
      BY <3>1, <1>5 DEF Written
    <3> QED BY <3>1, <3>2, <1>1, WrittenIsCode
  <2>3. CASE GenerateMessagesFails(j)
    <3>1. job'[j] # "writing" /\ LoadDepends(j[1]).err # "none"
      BY <2>3 DEF GenerateMessagesFails, Fails, BaseInv, TypeInv
    <3> QED BY <3>1, <1>1, WrittenIsCode
  <2>4. CASE \/ Start(j) \/ GenerateFails(j) \/ write_msg_index(j) \/ write_srv_index(j)
             \/ LookForIndexes(j) \/ write_package_index(j)
    <3>1. /\ out' = out /\ newer' = newer /\ job'[j] # "writing" /\ job[j] # "writing"
      BY <2>4 DEF Start, GenerateFails, Fails, write_msg_index, write_srv_index, WritesIndex,
                  LookForIndexes, write_package_index, BaseInv, TypeInv
    <3>2. Made(j)
      BY <3>1, <1>7 DEF Made
    <3>3. CodeOf(j)
      BY <3>1, <3>2, <1>7 DEF CodeInv
    <3> QED BY <3>1, <3>3, <1>1, SameCode
  <2> QED BY <2>1, <2>2, <2>3, <2>4
<1> QED BY <1>1, <1>6, <1>7 DEF CodeInv

\* Edits, cmake, the verification and the ends of a build.
LEMMA BetweenBuildsCode ==
  ASSUME BaseInv, CodeInv, Edit \/ Configure \/ Check \/ EndBuild \/ Kill
  PROVE  CodeInv'
<1>1. CASE Edit
  <2>1. /\ out' = out /\ job' = job /\ killed' = killed /\ phase' = "idle"
        /\ \A j \in Jobs : job[j] # "writing"
    BY <1>1 DEF Edit, BaseInv, ProcessInv
  <2>2. PICK x \in DOMAIN fs : /\ \E text : fs' = [fs EXCEPT ![x] = text]
                              /\ newer' = [j \in Jobs |-> newer[j] \cup {x}]
    BY <1>1 DEF Edit
  <2>3. DOMAIN fs' = DOMAIN fs /\ \A y \in DOMAIN fs \ {x} : fs'[y] = fs[y]
    BY <2>2
  <2>4. ASSUME NEW j \in Jobs, CodeOf(j) PROVE CodeOf(j)'
    <3>1. PICK f : /\ DOMAIN f = DOMAIN fs /\ \A y \in DOMAIN fs \ newer[j] : f[y] = fs[y]
                   /\ SpecIn(f, j[1]).err = "none" /\ DependsIn(f, j[1]).err = "none" =>
                        out[j] = [whole |-> TRUE, digest |-> DigestIn(f, j[1])]
      BY <2>4 DEF CodeOf
    <3>2. newer'[j] = newer[j] \cup {x}
      BY <2>2
    <3>3. DOMAIN f = DOMAIN fs' /\ \A y \in DOMAIN fs' \ newer'[j] : f[y] = fs'[y]
      BY <3>1, <3>2, <2>3
    <3> QED BY <3>1, <3>3, <2>1 DEF CodeOf
  <2>5. ASSUME ~killed, NEW j \in Jobs, Made(j)' PROVE job'[j] # "writing" /\ CodeOf(j)'
    <3>1. Made(j)
      BY <2>1, <2>5 DEF Made
    <3> QED BY <3>1, <2>1, <2>4, <2>5 DEF CodeInv
  <2> QED BY <2>1, <2>5 DEF CodeInv
<1>2. CASE Configure
  BY <1>2 DEF Configure, CodeInv, CodeOf, Made
<1>3. ASSUME UNCHANGED <<fs, out, newer, killed, rules>>, job' = [j \in Jobs |-> "none"],
             ~killed => \A j \in Jobs : job[j] # "writing",
             phase' = "succeeded" => \A j \in Jobs : ~OutOfDate(j)
      PROVE  CodeInv'
  <2>1. ASSUME ~killed, NEW j \in Jobs, Made(j)' PROVE job'[j] # "writing" /\ CodeOf(j)'
    <3>1. Made(j) /\ job'[j] # "writing"
      BY <1>3, <2>1 DEF Made
    <3>2. CodeOf(j)
      BY <3>1, <1>3, <2>1 DEF CodeInv
    <3> QED BY <3>1, <3>2, <1>3, SameCode
  <2>2. ASSUME phase' = "succeeded", NEW j \in Jobs PROVE ~OutOfDate(j)'
    BY <1>3, <2>2 DEF OutOfDate, Made
  <2> QED BY <2>1, <2>2, <1>3 DEF CodeInv
<1>4. CASE Check
  BY <1>3, <1>4 DEF Check, BaseInv, ProcessInv
<1>5. CASE EndBuild
  BY <1>3, <1>5 DEF EndBuild, Running
<1>6. CASE Kill
  BY <1>6 DEF Kill, CodeInv
<1> QED BY <1>1, <1>2, <1>4, <1>5, <1>6

\* Every step keeps the invariant.
LEMMA NextCode == BaseInv /\ CodeInv /\ [Next]_vars => CodeInv'
<1> SUFFICES ASSUME BaseInv, CodeInv, [Next]_vars PROVE CodeInv'
  OBVIOUS
<1>1. CASE UNCHANGED vars
  BY <1>1 DEF vars, CodeInv, CodeOf, Made, OutOfDate
<1>2. CASE Edit \/ Configure \/ Check \/ EndBuild \/ Kill
  BY <1>2, BetweenBuildsCode
<1>3. ASSUME NEW j \in Jobs,
             \/ Start(j) \/ OpenOutput(j) \/ WriteOutput(j) \/ GenerateMessagesFails(j)
             \/ generate_from_file(j) \/ generate_msg_from_spec(j)
             \/ generate_srv_from_spec(j) \/ GenerateFails(j)
             \/ write_msg_index(j) \/ write_srv_index(j) \/ LookForIndexes(j) \/ write_package_index(j)
      PROVE  CodeInv'
  BY <1>3, ProcessCode
<1> QED BY <1>1, <1>2, <1>3 DEF Next

\* The files are texts, whatever was edited.
LEMMA FilesAreSources == BaseInv => IsSources(fs)
BY SourcesAssumption DEF BaseInv, TypeInv, IsSources

\* An output that is not out of date is that of the files as they are, if the
\* rules name all that its target depends on: the texts it was made of are the
\* same in every file that is read.
LEMMA UpToDateIsCurrent ==
  ASSUME BaseInv, NEW j \in Jobs, CodeOf(j), ~OutOfDate(j),
         Dependencies(j[1]).err = "none", Dependencies(j[1]).files \subseteq rules[j[1]].files
  PROVE  Current(j)
<1>0. PICK t, spec, all, ctx : t = j[1] /\ spec = SpecIn(fs, t).spec /\ all = DependsIn(fs, t)
                               /\ ctx = all.ctx
  OBVIOUS
<1>1. t \in Targets
  BY <1>0
<1> DEFINE types == UNION {ToSet(get_all_depends(ctx, s.full_name)) : s \in SpecHalves(t, spec)}
<1>2. Dependencies(t) = Found(SpecIn(fs, t), all, types)
  <2>1. LoadSpec(t) = SpecIn(fs, t) /\ LoadDepends(t) = all /\ Halves(t) = SpecHalves(t, spec)
    BY <1>0, InTheFiles DEF Halves
  <2> QED BY <2>1, <1>0 DEF Dependencies, AllOf
<1>3. /\ SpecIn(fs, t).err = "none" /\ all.err = "none"
      /\ Dependencies(t).files = {ctx.file[d] : d \in types}
  <2> HIDE DEF types
  <2>1. SpecIn(fs, t).err = "none"
    BY <1>0, <1>2 DEF Found
  <2>2. all.err = "none"
    BY <1>0, <1>2, <2>1 DEF Found
  <2> QED BY <1>0, <1>2, <2>1, <2>2 DEF Found
<1>4. EndGood(fs, t, spec, ctx)
  BY <1>0, <1>1, <1>3, TargetEnds, FilesAreSources
<1>5. \A n \in DOMAIN ctx.file : ctx.file[n] = File(t) \/ n \in types
  BY <1>4, FilesTracked
<1>6. Made(j) /\ newer[j] \cap (Dependencies(t).files \cup {File(t)}) = {}
  BY <1>0 DEF OutOfDate
<1>7. \A n \in DOMAIN ctx.file : ctx.file[n] \notin newer[j] /\ ctx.file[n] \in DOMAIN fs
  <2>1. \A n \in DOMAIN ctx.file : ctx.file[n] \in DOMAIN fs
    BY <1>4 DEF EndGood, GoodContext, BaseInv, TypeInv
  <2> HIDE DEF types
  <2> QED BY <2>1, <1>3, <1>5, <1>6
<1>8. File(t) \notin newer[j] /\ File(t) \in DOMAIN fs
  BY <1>1, <1>6, SourcesAssumption DEF BaseInv, TypeInv
<1>9. PICK f : /\ DOMAIN f = DOMAIN fs /\ \A x \in DOMAIN fs \ newer[j] : f[x] = fs[x]
               /\ SpecIn(f, t).err = "none" /\ DependsIn(f, t).err = "none" =>
                    out[j] = [whole |-> TRUE, digest |-> DigestIn(f, t)]
  BY <1>0 DEF CodeOf
<1>10. Alike(fs, f, ctx) /\ f[File(t)] = fs[File(t)]
  BY <1>7, <1>8, <1>9 DEF Alike
<1>11. SpecIn(f, t) = SpecIn(fs, t) /\ DependsIn(f, t) = DependsIn(fs, t)
  BY <1>4, <1>10 DEF EndGood
<1>12. DigestIn(f, t) = DigestIn(fs, t)
  BY <1>11 DEF DigestIn
<1>13. out[j] = [whole |-> TRUE, digest |-> DigestIn(fs, t)]
  BY <1>0, <1>3, <1>9, <1>11, <1>12
<1> QED BY <1>0, <1>13, InTheFiles DEF Current

\* What a build that succeeds leaves is the code of the definitions as they are,
\* if the rules name all that these depend on and no build was killed; the index
\* is complete; and every full text that is sent along can be read by itself.
THEOREM BuildIsSound == Spec => []BuildSound
<1>1. ASSUME BaseInv, CodeInv PROVE BuildIsCurrent
  <2>1. ASSUME phase = "succeeded", Tracked, ~killed, NEW j \in Jobs PROVE Current(j)
    <3>1. ~OutOfDate(j) /\ job[j] # "writing"
      BY <1>1, <2>1 DEF CodeInv, BaseInv, ProcessInv, Resting
    <3>2. CodeOf(j)
      BY <1>1, <2>1, <3>1 DEF CodeInv, OutOfDate
    <3>3. j[1] \in Targets
      OBVIOUS
    <3>4. Dependencies(j[1]).err = "none" /\ Dependencies(j[1]).files \subseteq rules[j[1]].files
      BY <2>1, <3>3 DEF Tracked, Covered
    <3> QED BY <1>1, <3>1, <3>2, <3>4, UpToDateIsCurrent
  <2> QED BY <2>1 DEF BuildIsCurrent
<1>2. BaseInv => PackageIndexComplete
  BY DEF BaseInv, IndexInv, ProcessInv, PackageIndexComplete, Resting
<1>3. BaseInv => DefinitionSelfContained
  BY FilesAreSources, TextsAreSelfContained
<1>4. BaseInv /\ CodeInv => BuildSound
  BY <1>1, <1>2, <1>3 DEF BuildSound
<1> QED BY <1>4, InitBase, NextBase, InitCode, NextCode, PTL DEF Spec
=============================================================================
