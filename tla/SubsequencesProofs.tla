-------------------------- MODULE SubsequencesProofs --------------------------
(***************************************************************************)
(* Induction over the numbers up to a bound, for sets instead of           *)
(* operators, and what it gives of recursive functions: that they are      *)
(* defined, and what a filter leaves of a list.                            *)
(***************************************************************************)
EXTENDS Subsequences, WellFoundedInduction, SequenceTheorems, TLAPS

\* Every set of natural numbers that is not empty has a least element.
THEOREM Least ==
  ASSUME NEW T \in SUBSET Nat, T # {}
  PROVE  \E x \in T : \A y \in T : ~ (y < x)
<1>1. IsWellFoundedOn(OpToRel(<, Nat), Nat)
  BY NatLessThanWellFounded
<1>2. \E x \in T : \A y \in T : ~ (<<y, x>> \in OpToRel(<, Nat))
  BY <1>1, WFMin
<1> QED BY <1>2 DEF OpToRel

\* Induction over the natural numbers, for a set of them.
THEOREM Ind ==
  ASSUME NEW T \in SUBSET Nat, 0 \in T, \A n \in T : n + 1 \in T
  PROVE  T = Nat
<1> SUFFICES ASSUME Nat \ T # {} PROVE FALSE
  OBVIOUS
<1>1. PICK x \in Nat \ T : \A y \in Nat \ T : ~ (y < x)
  BY Least
<1>2. x - 1 \in Nat /\ x - 1 < x
  OBVIOUS
<1> QED BY <1>1, <1>2

\* The same up to a bound, for a family of sets: what holds at each step of a recursion.
LEMMA UpTo ==
  ASSUME NEW N \in Nat, NEW f, NEW V, f[0] \in V[0],
         \A n \in 1 .. N : f[n - 1] \in V[n - 1] => f[n] \in V[n]
  PROVE  \A n \in 0 .. N : f[n] \in V[n]
<1> DEFINE T == {n \in Nat : n <= N => f[n] \in V[n]}
<1>1. ASSUME NEW n \in T PROVE n + 1 \in T
  <2> SUFFICES ASSUME n + 1 <= N PROVE f[n + 1] \in V[n + 1]
    OBVIOUS
  <2>1. n + 1 \in 1 .. N /\ (n + 1) - 1 = n /\ f[n] \in V[n]
    OBVIOUS
  <2> QED BY <2>1
<1>2. 0 \in T
  OBVIOUS
<1>3. T = Nat
  BY <1>1, <1>2, Ind
<1> QED BY <1>3

\* The ways to go from one value to the next, N times.
Steps(N, U) == [(1 .. N) \X U -> U]

\* What f becomes that starts with base and goes on with step.
Follows(f, N, base, step) == f[0] = base /\ \A n \in 1 .. N : f[n] = step[<<n, f[n - 1]>>]

\* A recursive function exists: what is defined by recursion is what it says.
LEMMA Recursion ==
  ASSUME NEW N \in Nat, NEW U, NEW base \in U, NEW step \in Steps(N, U)
  PROVE  \E f \in [0 .. N -> U] : Follows(f, N, base, step)
<1> USE DEF Steps, Follows
<1> DEFINE Is(f, k) == f[0] = base /\ \A n \in 1 .. k : f[n] = step[<<n, f[n - 1]>>]
           T == {k \in Nat : k <= N => \E f \in [0 .. k -> U] : Is(f, k)}
<1>1. 0 \in T
  <2>1. [n \in 0 .. 0 |-> base] \in [0 .. 0 -> U] /\ Is([n \in 0 .. 0 |-> base], 0)
    OBVIOUS
  <2> QED BY <2>1
<1>2. ASSUME NEW k \in T PROVE k + 1 \in T
  <2> SUFFICES ASSUME k + 1 <= N PROVE \E f \in [0 .. k + 1 -> U] : Is(f, k + 1)
    OBVIOUS
  <2>1. k \in Nat /\ k + 1 \in 1 .. N /\ (k + 1) - 1 = k
    OBVIOUS
  <2>2. PICK f \in [0 .. k -> U] : Is(f, k)
    BY <2>1
  <2> DEFINE last == step[<<k + 1, f[k]>>]
             next == [n \in 0 .. k + 1 |-> IF n = k + 1 THEN last ELSE f[n]]
  <2>3. last \in U
    <3>1. <<k + 1, f[k]>> \in (1 .. N) \X U BY <2>1
    <3> QED BY <3>1
  <2> HIDE DEF last
  <2>4. next \in [0 .. k + 1 -> U] /\ next[k + 1] = last /\ \A n \in 0 .. k : next[n] = f[n]
    BY <2>1, <2>3
  <2> HIDE DEF next
  <2>5. next[0] = base
    BY <2>1, <2>2, <2>4
  <2>6. next[k + 1] = step[<<k + 1, next[k]>>]
    <3>1. next[k] = f[k] /\ next[k + 1] = last
      BY <2>1, <2>4
    <3> QED BY <3>1 DEF last
  <2>7. ASSUME NEW n \in 1 .. k + 1 PROVE next[n] = step[<<n, next[n - 1]>>]
    <3>1. CASE n = k + 1
      BY <3>1, <2>1, <2>6
    <3>2. CASE n # k + 1
      <4>1. n \in 1 .. k /\ n \in 0 .. k /\ n - 1 \in 0 .. k BY <3>2, <2>1
      <4> QED BY <4>1, <2>2, <2>4
    <3> QED BY <3>1, <3>2
  <2> QED BY <2>4, <2>5, <2>7
<1>3. N \in T
  BY <1>1, <1>2, Ind
<1> QED BY <1>3

\* What a filter keeps is put together element by element.
LEMMA KeptSteps ==
  ASSUME NEW X, NEW s \in Seq(X), NEW S
  PROVE  \E kept :
           /\ kept[0] = <<>>
           /\ \A n \in 1 .. Len(s) :
                kept[n] = IF s[n] \in S THEN Append(kept[n - 1], s[n]) ELSE kept[n - 1]
           /\ Kept(s, S) = kept[Len(s)]
<1> DEFINE N == Len(s)
           U == Seq(X \cap S)
           Step(n, t) == IF s[n] \in S THEN Append(t, s[n]) ELSE t
           step == [p \in (1 .. N) \X U |-> Step(p[1], p[2])]
           Is(kept) == kept = [n \in 0 .. N |-> IF n = 0 THEN <<>> ELSE Step(n, kept[n - 1])]
<1>1. N \in Nat /\ <<>> \in U /\ \A n \in 1 .. N : n \in DOMAIN s /\ s[n] \in X
  OBVIOUS
<1>2. ASSUME NEW n \in 1 .. N, NEW t \in U PROVE Step(n, t) \in U
  BY <1>1
<1> HIDE DEF N, U, Step
<1>4. step \in Steps(N, U) /\ \A n \in 1 .. N : \A t \in U : step[<<n, t>>] = Step(n, t)
  BY <1>2 DEF Steps
<1> HIDE DEF step
<1>5. PICK f \in [0 .. N -> U] : Follows(f, N, <<>>, step)
  BY <1>1, <1>4, Recursion
<1>6. Is(f)
  <2> SUFFICES ASSUME NEW n \in 0 .. N, n # 0 PROVE f[n] = Step(n, f[n - 1])
    BY <1>5 DEF Follows
  <2>1. n \in 1 .. N /\ n - 1 \in 0 .. N
    BY <1>1
  <2> QED BY <2>1, <1>4, <1>5 DEF Follows
<1> DEFINE kept == CHOOSE g : Is(g)
<1>7. Is(kept)
  BY <1>6
<1>8. Kept(s, S) = kept[N]
  BY DEF Kept, N, Step
<1> HIDE DEF kept
<1>9. kept[0] = <<>> /\ \A n \in 1 .. N : kept[n] = Step(n, kept[n - 1])
  <2>1. \A n \in 1 .. N : n \in 0 .. N /\ n # 0
    BY <1>1
  <2>2. 0 \in 0 .. N
    BY <1>1
  <2> QED BY <2>1, <2>2, <1>7
<1> QED BY <1>8, <1>9 DEF N, Step

\* t is made of the elements of the first n of s that belong to S, at the places f.
Embedded(t, s, S, n, f) ==
  /\ f \in [DOMAIN t -> 1 .. n]
  /\ \A k \in DOMAIN t : t[k] = s[f[k]] /\ t[k] \in S
  /\ \A k, l \in DOMAIN t : k < l => f[k] < f[l]
  /\ \A j \in 1 .. n : s[j] \in S => \E k \in DOMAIN t : f[k] = j

\* What is kept of a list are its elements that belong to the set, in their order.
LEMMA KeptEmbeds ==
  ASSUME NEW X, NEW s \in Seq(X), NEW S
  PROVE  /\ Kept(s, S) \in Seq(X)
         /\ \E f : Embedded(Kept(s, S), s, S, Len(s), f)
<1> DEFINE N == Len(s)
           V == [n \in 0 .. N |-> {t \in Seq(X) : \E f : Embedded(t, s, S, n, f)}]
<1>1. PICK kept :
        /\ kept[0] = <<>>
        /\ \A n \in 1 .. N : kept[n] = IF s[n] \in S THEN Append(kept[n - 1], s[n]) ELSE kept[n - 1]
        /\ Kept(s, S) = kept[N]
  BY KeptSteps
<1>n. N \in Nat /\ \A n \in 1 .. N : s[n] \in X
  OBVIOUS
<1>2. <<>> \in V[0]
  <2>1. Embedded(<<>>, s, S, 0, <<>>)
    BY DEF Embedded
  <2> QED BY <2>1, <1>n
<1>3. ASSUME NEW n \in 1 .. N, NEW t \in Seq(X), NEW f, Embedded(t, s, S, n - 1, f), s[n] \in S
      PROVE  \E g : Embedded(Append(t, s[n]), s, S, n, g)
  <2> DEFINE u == Append(t, s[n])
             g == [k \in DOMAIN u |-> IF k = Len(t) + 1 THEN n ELSE f[k]]
  <2>1. /\ DOMAIN u = DOMAIN t \cup {Len(t) + 1} /\ u[Len(t) + 1] = s[n]
        /\ DOMAIN t = 1 .. Len(t) /\ Len(t) \in Nat
        /\ \A k \in DOMAIN t : u[k] = t[k] /\ k # Len(t) + 1 /\ k \in Nat /\ k < Len(t) + 1
    BY <1>n
  <2> HIDE DEF u
  <2>2. g[Len(t) + 1] = n /\ \A k \in DOMAIN t : g[k] = f[k] /\ f[k] \in 1 .. n - 1
    BY <2>1, <1>3 DEF Embedded
  <2>3. g \in [DOMAIN u -> 1 .. n]
    <3>1. n \in 1 .. n /\ 1 .. n - 1 \subseteq 1 .. n
      BY <1>n
    <3>2. \A k \in DOMAIN u : g[k] \in 1 .. n
      BY <2>1, <2>2, <3>1
    <3> QED BY <3>2
  <2> HIDE DEF g
  <2>4. ASSUME NEW k \in DOMAIN u PROVE u[k] = s[g[k]] /\ u[k] \in S
    BY <2>1, <2>2, <1>3 DEF Embedded
  <2>5. ASSUME NEW k \in DOMAIN u, NEW l \in DOMAIN u, k < l PROVE g[k] < g[l]
    BY <2>1, <2>2, <2>5, <1>3 DEF Embedded
  <2>6. ASSUME NEW j \in 1 .. n, s[j] \in S PROVE \E k \in DOMAIN u : g[k] = j
    <3>1. CASE j = n
      BY <3>1, <2>1, <2>2
    <3>2. CASE j # n
      <4>1. j \in 1 .. n - 1
        BY <3>2, <1>n
      <4>2. \E k \in DOMAIN t : f[k] = j
        BY <4>1, <2>6, <1>3 DEF Embedded
      <4> QED BY <4>2, <2>1, <2>2
    <3> QED BY <3>1, <3>2
  <2>7. Embedded(u, s, S, n, g)
    BY <2>3, <2>4, <2>5, <2>6 DEF Embedded
  <2> QED BY <2>7 DEF u
<1>4. ASSUME NEW n \in 1 .. N, NEW t \in Seq(X), NEW f, Embedded(t, s, S, n - 1, f), s[n] \notin S
      PROVE  Embedded(t, s, S, n, f)
  <2>1. \A j \in 1 .. n : s[j] \in S => j \in 1 .. n - 1
    BY <1>4, <1>n
  <2>2. 1 .. n - 1 \subseteq 1 .. n
    BY <1>n
  <2> QED BY <2>1, <2>2, <1>4 DEF Embedded
<1> HIDE DEF N
<1>5. ASSUME NEW n \in 1 .. N, kept[n - 1] \in V[n - 1] PROVE kept[n] \in V[n]
  <2>1. n \in 0 .. N /\ n - 1 \in 0 .. N /\ s[n] \in X
    BY <1>n
  <2>2. PICK f : kept[n - 1] \in Seq(X) /\ Embedded(kept[n - 1], s, S, n - 1, f)
    BY <2>1, <1>5
  <2>3. CASE s[n] \in S
    <3>0. kept[n] = Append(kept[n - 1], s[n])
      BY <2>3, <1>1
    <3>1. kept[n] = Append(kept[n - 1], s[n]) /\ kept[n] \in Seq(X)
      BY <2>1, <2>2, <3>0
    <3>2. \E g : Embedded(kept[n], s, S, n, g)
      BY <3>1, <2>2, <2>3, <1>3
    <3> QED BY <3>1, <3>2, <2>1
  <2>4. CASE s[n] \notin S
    <3>1. kept[n] = kept[n - 1]
      BY <2>4, <1>1
    <3>2. Embedded(kept[n], s, S, n, f)
      BY <3>1, <2>2, <2>4, <1>4
    <3> QED BY <3>1, <3>2, <2>1, <2>2
  <2> QED BY <2>3, <2>4
<1>6. kept[N] \in V[N]
  <2> HIDE DEF V
  <2>1. kept[0] \in V[0]
    BY <1>1, <1>2
  <2>2. \A n \in 0 .. N : kept[n] \in V[n]
    BY <1>n, <2>1, <1>5, UpTo
  <2> QED BY <2>2, <1>n
<1>7. N \in 0 .. N
  BY <1>n
<1> QED BY <1>1, <1>6, <1>7 DEF N

\* What is kept of a list is a list of its elements that belong to the set: all of those,
\* and no longer than the list.
LEMMA KeptFacts ==
  ASSUME NEW X, NEW s \in Seq(X), NEW S
  PROVE  /\ Kept(s, S) \in Seq(X \cap S)
         /\ Len(Kept(s, S)) <= Len(s)
         /\ \A j \in DOMAIN Kept(s, S) : \E i \in DOMAIN s : s[i] = Kept(s, S)[j]
<1> DEFINE N == Len(s)
           Step(n, t) == IF s[n] \in S THEN Append(t, s[n]) ELSE t
           From(t, n) == /\ t \in Seq(X \cap S) /\ Len(t) <= n
                         /\ \A j \in DOMAIN t : \E i \in DOMAIN s : s[i] = t[j]
           V == [n \in 0 .. N |-> {t \in Seq(X \cap S) : From(t, n)}]
<1>1. N \in Nat /\ From(<<>>, 0) /\ \A n \in 1 .. N : n \in DOMAIN s /\ s[n] \in X
  OBVIOUS
<1>3. ASSUME NEW n \in 1 .. N, NEW t, From(t, n - 1) PROVE From(Step(n, t), n)
  <2>1. CASE s[n] \in S
    <3>1. /\ Step(n, t) = Append(t, s[n]) /\ Len(Append(t, s[n])) <= n
          /\ Append(t, s[n]) \in Seq(X \cap S)
      BY <2>1, <1>1, <1>3
    <3>2. ASSUME NEW j \in DOMAIN Append(t, s[n])
          PROVE  \E i \in DOMAIN s : s[i] = Append(t, s[n])[j]
      <4>1. CASE j = Len(t) + 1
        BY <4>1, <2>1, <1>1, <1>3
      <4>2. CASE j # Len(t) + 1
        <5>1. j \in DOMAIN t /\ Append(t, s[n])[j] = t[j] BY <4>2, <2>1, <1>1, <1>3
        <5> QED BY <5>1, <1>3
      <4> QED BY <4>1, <4>2
    <3> QED BY <3>1, <3>2
  <2>2. CASE s[n] \notin S
    BY <2>2, <1>3
  <2> QED BY <2>1, <2>2
<1>5. PICK kept :
        /\ kept[0] = <<>>
        /\ \A n \in 1 .. N : kept[n] = Step(n, kept[n - 1])
        /\ Kept(s, S) = kept[N]
  BY KeptSteps
<1> HIDE DEF N, Step, From
<1>9. kept[0] \in V[0]
  <2>1. kept[0] \in Seq(X \cap S)
    BY <1>1, <1>5 DEF From
  <2> QED BY <2>1, <1>1, <1>5
<1>10. ASSUME NEW n \in 1 .. N, kept[n - 1] \in V[n - 1] PROVE kept[n] \in V[n]
  <2>1. n \in 0 .. N /\ n - 1 \in 0 .. N
    BY <1>1
  <2>2. From(kept[n], n)
    BY <2>1, <1>3, <1>5, <1>10
  <2>3. kept[n] \in Seq(X \cap S)
    BY <2>2 DEF From
  <2> QED BY <2>1, <2>2, <2>3
<1>11. kept[N] \in V[N]
  <2> HIDE DEF V
  <2>1. \A n \in 0 .. N : kept[n] \in V[n]
    BY <1>1, <1>9, <1>10, UpTo
  <2> QED BY <2>1, <1>1
<1>12. From(kept[N], N)
  BY <1>1, <1>11
<1> QED BY <1>5, <1>12 DEF From, N
=============================================================================
