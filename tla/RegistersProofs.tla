----------------------------- MODULE RegistersProofs -----------------------------
(***************************************************************************)
(* Three results about Registers, for every configuration of the schema,   *)
(* every set of missing addresses and every value written:                 *)
(*   WritesReadBackAlways   what a client writes reads back,               *)
(*   OwnRegistersAlways     a Good tag holds its own registers,            *)
(*   PlanCoversAlways       the plan covers the configuration.             *)
(*                                                                         *)
(* Induction over a list or a number is induction over a set of naturals   *)
(* (NatInd), which follows from the well-foundedness of <.  A recursive    *)
(* function is known by its recursion once a function with that recursion  *)
(* is shown to exist (Iteration).                                          *)
(***************************************************************************)
EXTENDS Registers, FiniteSetTheorems, SequenceTheorems, NaturalsInduction,
        WellFoundedInduction, TLAPS

-----------------------------------------------------------------------------
(* Induction, sequences, ascending lists                                   *)

\* Induction on the naturals, for a set instead of a predicate: a least counterexample
\* exists because < is well founded.
LEMMA NatInd ==
    ASSUME NEW S, 0 \in S, \A n \in Nat : n \in S => n + 1 \in S
    PROVE  Nat \subseteq S
<1> DEFINE R == {ss \in Nat \X Nat : ss[1] < ss[2]}
<1>1. SUFFICES ASSUME Nat \ S # {} PROVE FALSE
  OBVIOUS
<1>2. IsWellFoundedOn(R, Nat)
  BY NatLessThanWellFounded DEF OpToRel
<1>3. Nat \ S \subseteq Nat
  OBVIOUS
<1> HIDE DEF R
<1>4. PICK x \in Nat \ S : \A y \in Nat \ S : ~(<<y, x>> \in R)
  BY <1>1, <1>2, <1>3, WFMin
<1> USE DEF R
<1>5. x # 0 /\ x - 1 \in Nat /\ x - 1 < x
  OBVIOUS
<1>6. x - 1 \in S
  BY <1>4, <1>5
<1> QED
  BY <1>4, <1>5, <1>6

\* Step functions for values of A, one for each of 1..N, and the values they lead to from base.
Steps(G, N, A) == G \in [1..N -> [A -> A]]

\* f is those values, one after the other.
Iterates(f, N, A, base, G) ==
    f \in [0..N -> A] /\ f[0] = base /\ \A n \in 1..N : f[n] = G[n][f[n - 1]]

\* Applying the step functions of G one after the other from base gives a sequence of values.
LEMMA Iteration ==
    ASSUME NEW N \in Nat, NEW A, NEW base \in A, NEW G, Steps(G, N, A)
    PROVE  \E f : Iterates(f, N, A, base, G)
<1> DEFINE Up(k, f) == f[0] = base /\ \A n \in 1..k : f[n] = G[n][f[n - 1]]
           S == {k \in Nat : k <= N => \E f \in [0..k -> A] : Up(k, f)}
<1> USE DEF Steps
<1>1. 0 \in S
  <2>1. [n \in 0..0 |-> base] \in [0..0 -> A] /\ Up(0, [n \in 0..0 |-> base])
    OBVIOUS
  <2> QED
    BY <2>1
<1>2. ASSUME NEW k \in Nat, k \in S PROVE k + 1 \in S
  <2>1. SUFFICES ASSUME k + 1 <= N PROVE \E f \in [0..(k + 1) -> A] : Up(k + 1, f)
    OBVIOUS
  <2>2. PICK f \in [0..k -> A] : Up(k, f)
    BY <1>2, <2>1
  <2> DEFINE g == [n \in 0..(k + 1) |-> IF n <= k THEN f[n] ELSE G[k + 1][f[k]]]
  <2>3. G[k + 1][f[k]] \in A
    BY <2>1
  <2>4. g \in [0..(k + 1) -> A]
    BY <2>3
  <2>5. Up(k + 1, g)
    <3>1. g[0] = base
      BY <2>2
    <3>2. ASSUME NEW n \in 1..(k + 1) PROVE g[n] = G[n][g[n - 1]]
      <4>1. n - 1 \in 0..k /\ g[n - 1] = f[n - 1]
        OBVIOUS
      <4>2. CASE n \in 1..k
        BY <4>1, <4>2, <2>2
      <4>3. CASE n = k + 1
        BY <4>1, <4>3
      <4> QED
        BY <4>2, <4>3
    <3> QED
      BY <3>1, <3>2
  <2> QED
    BY <2>4, <2>5
<1>3. N \in S
  <2> HIDE DEF S
  <2> QED
    BY <1>1, <1>2, NatInd
<1> QED
  BY <1>3 DEF Iterates

\* A finite sequence, of whatever elements.
IsSeq(s) == s \in Seq(ToSet(s))

\* A function on 1..n is a sequence of length n.
LEMMA SeqIntro ==
    ASSUME NEW n \in Nat, NEW s, s = [i \in 1..n |-> s[i]]
    PROVE  IsSeq(s) /\ Len(s) = n /\ DOMAIN s = 1..n
<1>1. DOMAIN s = 1..n
  OBVIOUS
<1>2. \A i \in 1..n : s[i] \in ToSet(s)
  BY <1>1 DEF ToSet
<1>3. s \in [1..n -> ToSet(s)]
  BY <1>1, <1>2
<1>4. s \in Seq(ToSet(s))
  BY <1>3
<1> QED
  BY <1>1, <1>4 DEF IsSeq

\* What IsSeq says of length and domain.
LEMMA SeqElim ==
    ASSUME NEW s, IsSeq(s)
    PROVE  Len(s) \in Nat /\ DOMAIN s = 1..Len(s) /\ s = [i \in 1..Len(s) |-> s[i]]
  BY DEF IsSeq

\* The members of Seq(S) are sequences.
LEMMA SeqMember ==
    ASSUME NEW S, NEW s \in Seq(S)
    PROVE  IsSeq(s)
<1>1. Len(s) \in Nat /\ DOMAIN s = 1..Len(s) /\ s = [i \in 1..Len(s) |-> s[i]]
  OBVIOUS
<1>2. \A i \in 1..Len(s) : s[i] \in ToSet(s)
  BY <1>1 DEF ToSet
<1>3. s \in Seq(ToSet(s))
  BY <1>1, <1>2
<1> QED
  BY <1>3 DEF IsSeq

\* The positions <<sequence, element>> of a sequence of sequences.
Cells(ss) == UNION {{<<a, b>> : b \in DOMAIN ss[a]} : a \in DOMAIN ss}

\* pos tells where each element of flat comes from.
Traces(pos, flat, ss) ==
    /\ pos \in [DOMAIN flat -> Cells(ss)]
    /\ \A i \in DOMAIN flat : flat[i] = ss[pos[i][1]][pos[i][2]]
    /\ \A i, j \in DOMAIN flat : pos[i] = pos[j] => i = j
    /\ \A c \in Cells(ss) : \E i \in DOMAIN flat : pos[i] = c

\* The cells of a sequence of sequences: row and place in the row.
LEMMA CellsDef ==
    ASSUME NEW ss, NEW c
    PROVE  c \in Cells(ss) <=> \E a \in DOMAIN ss : \E b \in DOMAIN ss[a] : c = <<a, b>>
  BY DEF Cells

\* Flattening one row more: the cells of the longer list are traced by the concatenation.
LEMMA TracedConcat ==
    ASSUME NEW n \in Nat, NEW ss, DOMAIN ss = 1..(n + 1),
           IsSeq(ss[n + 1]),
           NEW part, DOMAIN part = 1..n, \A a \in 1..n : part[a] = ss[a],
           NEW flat, IsSeq(flat), NEW pos, Traces(pos, flat, part)
    PROVE  /\ IsSeq(flat \o ss[n + 1])
           /\ \E p : Traces(p, flat \o ss[n + 1], ss)
<1> DEFINE t == ss[n + 1]
           both == flat \o t
           m == Len(flat)
           p == [i \in DOMAIN both |-> IF i <= m THEN pos[i] ELSE <<n + 1, i - m>>]
<1>1. /\ m \in Nat /\ DOMAIN flat = 1..m
      /\ Len(t) \in Nat /\ DOMAIN t = 1..Len(t)
  BY SeqElim
<1>2. both = [i \in 1..(m + Len(t)) |-> IF i <= m THEN flat[i] ELSE t[i - m]]
  <2>1. flat \in Seq(ToSet(flat) \cup ToSet(t)) /\ t \in Seq(ToSet(flat) \cup ToSet(t))
    BY DEF IsSeq
  <2> DEFINE S == ToSet(flat) \cup ToSet(t)
  <2> HIDE DEF t, S
  <2>2. both \in Seq(S) /\ Len(both) = m + Len(t)
    BY <2>1 DEF S
  <2>3. DOMAIN both = 1..(m + Len(t)) /\ both = [i \in 1..(m + Len(t)) |-> both[i]]
    <3> HIDE DEF both, m
    <3> QED
      BY <2>2, <1>1
  <2>4. \A i \in 1..(m + Len(t)) : both[i] = IF i <= m THEN flat[i] ELSE t[i - m]
    BY <2>1, <2>2, <1>1 DEF S
  <2> HIDE DEF both
  <2> QED
    BY <2>3, <2>4
<1>3. DOMAIN both = 1..(m + Len(t))
  BY <1>2
<1>4. IsSeq(both)
  <2>1. both = [i \in 1..(m + Len(t)) |-> both[i]]
    BY <1>2
  <2> HIDE DEF both
  <2> QED
    BY <2>1, <1>1, SeqIntro
<1> HIDE DEF t, m, both
<1>5. \A c : c \in Cells(ss) <=> c \in Cells(part) \/ \E b \in 1..Len(t) : c = <<n + 1, b>>
  <2>1. ASSUME NEW c, c \in Cells(ss)
        PROVE  c \in Cells(part) \/ \E b \in 1..Len(t) : c = <<n + 1, b>>
    <3>1. PICK a \in DOMAIN ss : \E b \in DOMAIN ss[a] : c = <<a, b>>
      BY <2>1, CellsDef
    <3>2. CASE a = n + 1
      BY <3>1, <3>2, <1>1 DEF t
    <3>3. CASE a \in 1..n
      <4>1. a \in DOMAIN part /\ part[a] = ss[a]
        BY <3>3
      <4> QED
        BY <3>1, <4>1, CellsDef
    <3> QED
      BY <3>2, <3>3
  <2>2. ASSUME NEW c, c \in Cells(part) PROVE c \in Cells(ss)
    <3>1. PICK a \in DOMAIN part : \E b \in DOMAIN part[a] : c = <<a, b>>
      BY <2>2, CellsDef
    <3>2. a \in DOMAIN ss /\ part[a] = ss[a]
      BY <3>1
    <3> QED
      BY <3>1, <3>2, CellsDef
  <2>3. ASSUME NEW b \in 1..Len(t) PROVE <<n + 1, b>> \in Cells(ss)
    <3>1. n + 1 \in DOMAIN ss /\ b \in DOMAIN ss[n + 1]
      BY <1>1 DEF t
    <3> QED
      BY <3>1, CellsDef
  <2> QED
    BY <2>1, <2>2, <2>3
<1>6. \A c \in Cells(part) : c[1] \in 1..n
  BY CellsDef
<1>7. Traces(p, both, ss)
  <2>1. p \in [DOMAIN both -> Cells(ss)]
    <3>1. ASSUME NEW i \in DOMAIN both PROVE p[i] \in Cells(ss)
      <4>1. CASE i <= m
        BY <4>1, <1>1, <1>3, <1>5 DEF Traces
      <4>2. CASE i > m
        BY <4>2, <1>1, <1>3, <1>5
      <4> QED
        BY <4>1, <4>2, <1>1, <1>3
    <3> QED
      BY <3>1
  <2>2. ASSUME NEW i \in DOMAIN both PROVE both[i] = ss[p[i][1]][p[i][2]]
    <3>1. CASE i <= m
      <4>1. i \in DOMAIN flat /\ p[i] = pos[i] /\ pos[i] \in Cells(part)
        BY <3>1, <1>1, <1>3 DEF Traces
      <4>2. both[i] = flat[i] /\ flat[i] = part[pos[i][1]][pos[i][2]]
        BY <3>1, <4>1, <1>2, <1>3 DEF Traces
      <4> QED
        BY <4>1, <4>2, <1>6
    <3>2. CASE i > m
      <4>1. both[i] = t[i - m] /\ p[i] = <<n + 1, i - m>>
        BY <3>2, <1>1, <1>2, <1>3
      <4> QED
        BY <4>1 DEF t
    <3> QED
      BY <3>1, <3>2, <1>1, <1>3
  <2>3. ASSUME NEW i \in DOMAIN both, NEW j \in DOMAIN both, p[i] = p[j] PROVE i = j
    <3>1. \A k \in DOMAIN both : k <= m =>
             k \in DOMAIN flat /\ p[k] = pos[k] /\ p[k][1] \in 1..n
      BY <1>1, <1>3, <1>6 DEF Traces
    <3>2. \A k \in DOMAIN both : k > m => p[k] = <<n + 1, k - m>>
      BY <1>1, <1>3
    <3>3. CASE i <= m /\ j <= m
      <4>1. pos[i] = pos[j] /\ i \in DOMAIN flat /\ j \in DOMAIN flat
        BY <3>1, <3>3, <2>3
      <4> QED
        BY <4>1 DEF Traces
    <3>4. CASE i > m /\ j > m
      BY <3>2, <3>4, <2>3, <1>1, <1>3
    <3>5. CASE i <= m /\ j > m
      BY <3>1, <3>2, <3>5, <2>3
    <3>6. CASE i > m /\ j <= m
      BY <3>1, <3>2, <3>6, <2>3
    <3> QED
      BY <3>3, <3>4, <3>5, <3>6, <1>1, <1>3
  <2>4. ASSUME NEW c \in Cells(ss) PROVE \E i \in DOMAIN both : p[i] = c
    <3>1. CASE c \in Cells(part)
      <4>1. PICK i \in DOMAIN flat : pos[i] = c
        BY <3>1 DEF Traces
      <4>2. i \in DOMAIN both /\ p[i] = c
        BY <4>1, <1>1, <1>3
      <4> QED
        BY <4>2
    <3>2. CASE \E b \in 1..Len(t) : c = <<n + 1, b>>
      <4>1. PICK b \in 1..Len(t) : c = <<n + 1, b>>
        BY <3>2
      <4>2. m + b \in DOMAIN both /\ p[m + b] = c
        BY <4>1, <1>1, <1>3
      <4> QED
        BY <4>2
    <3> QED
      BY <3>1, <3>2, <1>5
  <2> HIDE DEF p
  <2> QED
    BY <2>1, <2>2, <2>3, <2>4 DEF Traces
<1> QED
  BY <1>4, <1>7 DEF both, t

\* FlattenSeq lists the cells of ss once each.
LEMMA Flattened ==
    ASSUME NEW n \in Nat, NEW ss, ss = [a \in 1..n |-> ss[a]],
           \A a \in 1..n : IsSeq(ss[a])
    PROVE  /\ IsSeq(FlattenSeq(ss))
           /\ \E pos : Traces(pos, FlattenSeq(ss), ss)
<1>1. IsSeq(ss) /\ Len(ss) = n /\ DOMAIN ss = 1..n
  BY SeqIntro
<1>2. CASE n = 0
  <2>1. ss = << >> /\ FlattenSeq(ss) = << >>
    BY <1>1, <1>2 DEF FlattenSeq, IsSeq
  <2>2. DOMAIN ss = {} /\ Cells(ss) = {}
    BY <1>1, <1>2 DEF Cells
  <2>3. DOMAIN << >> = {}
    OBVIOUS
  <2>4. Traces(<< >>, << >>, ss)
    BY <2>2, <2>3 DEF Traces
  <2> QED
    BY <2>1, <2>4, <1>1
<1>3. CASE n > 0
  <2> DEFINE E == UNION {ToSet(ss[a]) : a \in 1..n}
             A == Seq(E)
             Flat(f) == f = [i \in 1..n |-> IF i = 1 THEN ss[i] ELSE f[i - 1] \o ss[i]]
             h == CHOOSE f : Flat(f)
  <2>1. FlattenSeq(ss) = h[n]
    BY <1>1, <1>3 DEF FlattenSeq
  <2>2. \A a \in 1..n : ss[a] \in A
    <3>1. ASSUME NEW a \in 1..n PROVE ss[a] \in A
      <4>1. ToSet(ss[a]) \subseteq E
        OBVIOUS
      <4> HIDE DEF E
      <4> QED
        BY <4>1 DEF IsSeq
    <3> QED
      BY <3>1
  <2>3. \E f : Flat(f)
    <3> HIDE DEF E
    <3> DEFINE G == [k \in 1..n |-> [x \in A |-> x \o ss[k]]]
    <3>1. G \in [1..n -> [A -> A]]
      BY <2>2
    <3>2. << >> \in A
      OBVIOUS
    <3>3. \E f : Iterates(f, n, A, << >>, G)
      <4>1. Steps(G, n, A)
        BY <3>1 DEF Steps
      <4> HIDE DEF G, A
      <4> QED
        BY <3>2, <4>1, Iteration
    <3>7. PICK f \in [0..n -> A] : f[0] = << >> /\ \A k \in 1..n : f[k] = f[k - 1] \o ss[k]
      <4>1. PICK f \in [0..n -> A] : f[0] = << >> /\ \A k \in 1..n : f[k] = G[k][f[k - 1]]
        <5> HIDE DEF G, A
        <5> QED
          BY <3>3 DEF Iterates
      <4>2. ASSUME NEW k \in 1..n PROVE f[k] = f[k - 1] \o ss[k]
        <5>1. k - 1 \in 0..n /\ f[k - 1] \in A
          BY <4>1
        <5>2. G[k][f[k - 1]] = f[k - 1] \o ss[k]
          <6> HIDE DEF A
          <6> QED
            BY <5>1
        <5> QED
          BY <4>1, <5>2
      <4> QED
        BY <4>1, <4>2
    <3> HIDE DEF G
    <3> DEFINE g == [k \in 1..n |-> f[k]]
    <3>4. g[1] = ss[1]
      <4>1. f[1] = << >> \o ss[1]
        <5>1. 1 \in 1..n /\ 1 - 1 = 0
          BY <1>3
        <5> QED
          BY <5>1, <3>7
      <4> QED
        BY <4>1, <1>3, <2>2
    <3>5. ASSUME NEW k \in 1..n, k # 1 PROVE g[k] = g[k - 1] \o ss[k]
      <4>1. k - 1 \in 1..n /\ k - 1 \in 0..n
        BY <3>5
      <4>2. f[k - 1] \in A
        BY <4>1
      <4> QED
        BY <3>7, <3>5, <4>1, <4>2
    <3>6. Flat(g)
      BY <3>4, <3>5, <1>3
    <3> QED
      BY <3>6
  <2>4. Flat(h)
    BY <2>3
  <2> HIDE DEF h
  <2> DEFINE Part(k) == [a \in 1..k |-> ss[a]]
             Good(k) == IsSeq(h[k]) /\ \E pos : Traces(pos, h[k], Part(k))
             S == {k \in Nat : k + 1 <= n => Good(k + 1)}
  <2>5. 0 \in S
    <3>1. h[1] = ss[1] /\ IsSeq(ss[1])
      BY <2>4, <1>3
    <3> DEFINE p == [b \in DOMAIN ss[1] |-> <<1, b>>]
               w == Part(0 + 1)
    <3>2. \A c : c \in Cells(w) <=> \E b \in DOMAIN ss[1] : c = <<1, b>>
      BY CellsDef
    <3>3. Traces(p, ss[1], w)
      <4>1. \A b \in DOMAIN ss[1] : ss[1][b] = w[1][b]
        OBVIOUS
      <4> HIDE DEF w
      <4> QED
        BY <3>2, <4>1 DEF Traces
    <3>4. IsSeq(h[0 + 1]) /\ Traces(p, h[0 + 1], w)
      <4> HIDE DEF w, p
      <4>1. 0 + 1 = 1
        OBVIOUS
      <4> QED
        BY <3>1, <3>3, <4>1
    <3>5. Good(0 + 1)
      <4> HIDE DEF p
      <4> QED
        BY <3>4
    <3> HIDE DEF Good
    <3> QED
      BY <3>5
  <2>6. ASSUME NEW k \in Nat, k \in S PROVE k + 1 \in S
    <3> DEFINE l == k + 1
               w == Part(l + 1)
               v == Part(l)
    <3>1. SUFFICES ASSUME l + 1 <= n PROVE Good(l + 1)
      <4> HIDE DEF Good
      <4> QED
        OBVIOUS
    <3>2. IsSeq(h[l]) /\ \E pos : Traces(pos, h[l], v)
      <4>1. Good(l)
        <5> HIDE DEF Good
        <5> QED
          BY <2>6, <3>1
      <4> QED
        BY <4>1
    <3>3. h[l + 1] = h[l] \o ss[l + 1] /\ IsSeq(ss[l + 1])
      <4>1. l + 1 \in 1..n /\ l + 1 # 1 /\ (l + 1) - 1 = l
        BY <3>1
      <4> HIDE DEF l
      <4> QED
        BY <2>4, <4>1
    <3>4. /\ DOMAIN w = 1..(l + 1) /\ IsSeq(w[l + 1]) /\ w[l + 1] = ss[l + 1]
          /\ DOMAIN v = 1..l /\ \A a \in 1..l : v[a] = w[a] /\ l \in Nat
      <4>1. l \in Nat /\ l + 1 \in 1..(l + 1) /\ \A a \in 1..l : a \in 1..(l + 1)
        OBVIOUS
      <4> HIDE DEF l
      <4> QED
        BY <3>3, <4>1
    <3>5. PICK pos : Traces(pos, h[l], v)
      BY <3>2
    <3>6. l \in Nat
      OBVIOUS
    <3> HIDE DEF w, v, l
    <3>7. /\ IsSeq(h[l] \o w[l + 1])
          /\ \E p : Traces(p, h[l] \o w[l + 1], w)
      BY <3>2, <3>4, <3>5, <3>6, TracedConcat
    <3> QED
      BY <3>3, <3>4, <3>7 DEF w
  <2>7. n - 1 \in S
    <3> HIDE DEF S
    <3> QED
      BY <2>5, <2>6, NatInd, <1>3
  <2>8. Part(n) = ss /\ (n - 1) + 1 = n /\ n - 1 \in Nat
    BY <1>3
  <2>9. Good((n - 1) + 1)
    <3> HIDE DEF Good
    <3> QED
      BY <2>7, <2>8
  <2>10. Good(n)
    <3> HIDE DEF Good
    <3> QED
      BY <2>8, <2>9
  <2> HIDE DEF Part
  <2> QED
    BY <2>1, <2>8, <2>10
<1>4. n = 0 \/ n > 0
  OBVIOUS
<1> QED
  BY <1>2, <1>3, <1>4

\* earlier orders S strictly and totally.
Orders(earlier, S) ==
    /\ \A x, y \in S : x # y => <<x, y>> \in earlier \/ <<y, x>> \in earlier
    /\ \A x \in S : <<x, x>> \notin earlier
    /\ \A x, y, z \in S : <<x, y>> \in earlier /\ <<y, z>> \in earlier => <<x, z>> \in earlier

\* Listed enumerates S, each element once, in the order of earlier.
LEMMA ListedOrder ==
    ASSUME NEW S, IsFiniteSet(S), NEW earlier, Orders(earlier, S)
    PROVE  LET L == Listed(S, earlier)
               n == Cardinality(S)
           IN  /\ n \in Nat
               /\ L \in [1..n -> S]
               /\ \A i, j \in 1..n : L[i] = L[j] => i = j
               /\ \A x \in S : \E i \in 1..n : L[i] = x
               /\ \A i, j \in 1..n : i < j => <<L[i], L[j]>> \in earlier
<1> DEFINE n == Cardinality(S)
           Below(x) == {y \in S : <<y, x>> \in earlier}
           rank == [x \in S |-> Cardinality(Below(x)) + 1]
           L == Listed(S, earlier)
<1>1. n \in Nat
  BY FS_CardinalityType
<1>2. ASSUME NEW x \in S
      PROVE  IsFiniteSet(Below(x)) /\ Cardinality(Below(x)) \in 0..(n - 1)
  <2>1. Below(x) \in SUBSET S /\ x \notin Below(x)
    BY DEF Orders
  <2> HIDE DEF Below
  <2>2. /\ IsFiniteSet(Below(x)) /\ Cardinality(Below(x)) <= n
        /\ n = Cardinality(Below(x)) => S = Below(x)
    BY <2>1, FS_Subset
  <2>3. Cardinality(Below(x)) \in Nat
    BY <2>2, FS_CardinalityType
  <2> QED
    BY <1>1, <2>1, <2>2, <2>3
<1>3. ASSUME NEW x \in S, NEW y \in S, <<x, y>> \in earlier
      PROVE  Cardinality(Below(x)) < Cardinality(Below(y))
  <2>1. Below(x) \in SUBSET Below(y) /\ x \in Below(y) /\ x \notin Below(x)
    BY <1>3 DEF Orders
  <2>2. IsFiniteSet(Below(y)) /\ Cardinality(Below(x)) \in Nat /\ Cardinality(Below(y)) \in Nat
    BY <1>1, <1>2
  <2> HIDE DEF Below
  <2>3. /\ Cardinality(Below(x)) <= Cardinality(Below(y))
        /\ Cardinality(Below(y)) = Cardinality(Below(x)) => Below(y) = Below(x)
    BY <2>1, <2>2, FS_Subset
  <2> QED
    BY <2>1, <2>2, <2>3
<1> HIDE DEF n, Below
<1>4. rank \in [S -> 1..n]
  BY <1>1, <1>2
<1>5. \A x, y \in S : rank[x] = rank[y] => x = y
  <2>1. SUFFICES ASSUME NEW x \in S, NEW y \in S, x # y PROVE rank[x] # rank[y]
    OBVIOUS
  <2>2. Cardinality(Below(x)) \in Nat /\ Cardinality(Below(y)) \in Nat
    BY <1>1, <1>2
  <2>3. Cardinality(Below(x)) # Cardinality(Below(y))
    <3>1. CASE <<x, y>> \in earlier
      BY <1>3, <2>2, <3>1
    <3>2. CASE <<y, x>> \in earlier
      BY <1>3, <2>2, <3>2
    <3> QED
      BY <2>1, <3>1, <3>2 DEF Orders
  <2> QED
    BY <2>2, <2>3
<1>6. \A k \in 1..n : \E x \in S : rank[x] = k
  <2>1. IsFiniteSet(1..n) /\ Cardinality(1..n) = n
    BY <1>1, FS_Interval
  <2>2. rank \in Injection(S, 1..n)
    BY <1>4, <1>5 DEF Injection, IsInjective
  <2> HIDE DEF rank
  <2>3. Cardinality(S) = Cardinality(1..n) <=> rank \in Surjection(S, 1..n)
    BY <2>1, <2>2, FS_Injection
  <2> QED
    BY <2>1, <2>3 DEF n, Surjection
<1>7. ASSUME NEW i \in 1..n PROVE L[i] \in S /\ rank[L[i]] = i
  <2>1. L[i] = CHOOSE x \in S : Cardinality(Below(x)) = i - 1
    BY DEF Listed, n, Below
  <2>2. PICK x \in S : rank[x] = i
    BY <1>6
  <2>3. Cardinality(Below(x)) = i - 1 /\ \A y \in S : Cardinality(Below(y)) \in Nat
    BY <2>2, <1>1, <1>2
  <2>4. L[i] \in S /\ Cardinality(Below(L[i])) = i - 1
    BY <2>1, <2>3
  <2> QED
    BY <2>3, <2>4
<1>8. L = [i \in 1..n |-> L[i]]
  <2> DEFINE F(i) == CHOOSE x \in S : Cardinality({y \in S : <<y, x>> \in earlier}) = i - 1
  <2>1. L = [i \in 1..n |-> F(i)]
    BY DEF Listed, n
  <2> HIDE DEF L, F
  <2> QED
    BY <2>1
<1> HIDE DEF L
<1>9. L \in [1..n -> S]
  BY <1>7, <1>8
<1>10. \A i, j \in 1..n : L[i] = L[j] => i = j
  BY <1>7
<1>11. \A x \in S : \E i \in 1..n : L[i] = x
  <2>1. SUFFICES ASSUME NEW x \in S PROVE \E i \in 1..n : L[i] = x
    OBVIOUS
  <2>2. rank[x] \in 1..n
    BY <1>4
  <2>3. L[rank[x]] \in S /\ rank[L[rank[x]]] = rank[x]
    BY <1>7, <2>2
  <2> HIDE DEF rank
  <2> QED
    BY <1>5, <2>2, <2>3
<1>12. ASSUME NEW i \in 1..n, NEW j \in 1..n, i < j PROVE <<L[i], L[j]>> \in earlier
  <2>1. L[i] \in S /\ L[j] \in S /\ L[i] # L[j] /\ rank[L[i]] = i /\ rank[L[j]] = j
    BY <1>7, <1>12
  <2>2. <<L[j], L[i]>> \notin earlier
    <3>1. ASSUME <<L[j], L[i]>> \in earlier PROVE FALSE
      <4>1. Cardinality(Below(L[j])) < Cardinality(Below(L[i]))
        BY <1>3, <2>1, <3>1
      <4>2. Cardinality(Below(L[j])) \in Nat /\ Cardinality(Below(L[i])) \in Nat
        BY <1>1, <1>2, <2>1
      <4> QED
        BY <1>12, <2>1, <4>1, <4>2
    <3> QED
      BY <3>1
  <2> QED
    BY <2>1, <2>2 DEF Orders
<1> QED
  BY <1>1, <1>9, <1>10, <1>11, <1>12 DEF n, L

\* Ascending lists a finite set of integers, each once and in increasing order.
LEMMA AscendingOrder ==
    ASSUME NEW S \in SUBSET Int, IsFiniteSet(S)
    PROVE  LET L == Ascending(S)
               n == Cardinality(S)
           IN  /\ n \in Nat
               /\ L \in [1..n -> S]
               /\ \A i, j \in 1..n : L[i] = L[j] => i = j
               /\ \A x \in S : \E i \in 1..n : L[i] = x
               /\ \A i, j \in 1..n : i < j => L[i] < L[j]
<1> DEFINE earlier == {p \in S \X S : p[1] < p[2]}
<1>1. Orders(earlier, S)
  BY DEF Orders
<1>2. \A x, y : <<x, y>> \in earlier => x < y
  OBVIOUS
<1>3. Ascending(S) = Listed(S, earlier)
  BY DEF Ascending
<1> HIDE DEF earlier
<1> DEFINE n == Cardinality(S)
           L == Listed(S, earlier)
<1>4. /\ n \in Nat
      /\ L \in [1..n -> S]
      /\ \A i, j \in 1..n : L[i] = L[j] => i = j
      /\ \A x \in S : \E i \in 1..n : L[i] = x
      /\ \A i, j \in 1..n : i < j => <<L[i], L[j]>> \in earlier
  BY <1>1, ListedOrder
<1> HIDE DEF n, L
<1>5. \A i, j \in 1..n : i < j => L[i] < L[j]
  BY <1>2, <1>4
<1> QED
  BY <1>3, <1>4, <1>5 DEF n, L

-----------------------------------------------------------------------------
(* Powers, words and numbers: the decoder and the encoder                  *)

\* Quotient and remainder: ranges, and the number they make up.
LEMMA DivMod ==
    ASSUME NEW a \in Int, NEW b \in Nat, b > 0
    PROVE  /\ a \div b \in Int /\ a % b \in 0..(b - 1)
           /\ a = (a \div b) * b + (a % b)
  OBVIOUS

\* Quotient and remainder are unique.
LEMMA DivModUnique ==
    ASSUME NEW q \in Int, NEW b \in Nat, b > 0, NEW r \in 0..(b - 1)
    PROVE  (q * b + r) \div b = q /\ (q * b + r) % b = r
  OBVIOUS

\* Dividing by a product is dividing twice.
LEMMA DivDiv ==
    ASSUME NEW a \in Nat, NEW b \in Nat, b > 0, NEW c \in Nat, c > 0
    PROVE  a \div (b * c) = (a \div b) \div c
<1> DEFINE q == a \div b
           r == a % b
           p == q \div c
           s == q % c
           t == s * b + r
<1>1. q \in Int /\ r \in 0..(b - 1) /\ a = q * b + r
  BY DivMod
<1> HIDE DEF q, r
<1>2. p \in Int /\ s \in 0..(c - 1) /\ q = p * c + s
  BY <1>1, DivMod
<1> HIDE DEF p, s
<1>3. b * c \in Nat /\ b * c > 0
  OBVIOUS
<1>4. s * b <= (c - 1) * b /\ s * b \in Nat
  BY <1>2
<1>5. (c - 1) * b = b * c - b
  OBVIOUS
<1>6. t \in 0..(b * c - 1)
  BY <1>1, <1>3, <1>4, <1>5
<1>7. a = p * (b * c) + t
  <2>1. (p * c + s) * b = p * (b * c) + s * b
    BY <1>2
  <2> QED
    BY <1>1, <1>2, <2>1, <1>4
<1> HIDE DEF t
<1>8. a \div (b * c) = p
  BY <1>2, <1>3, <1>6, <1>7, DivModUnique
<1> QED
  BY <1>8 DEF p, q

\* The greatest exponent the powers of two are tabled for.
MaxPower == Mantissa + Finest + Coarsest

\* The exponents reach past every register and every double.
LEMMA MaxPowerAssumption ==
    /\ MaxPower \in Nat /\ 4 * WordBits < MaxPower /\ Finest \in Nat /\ Mantissa \in Nat
    /\ Coarsest \in Nat /\ Finest >= Mantissa /\ Mantissa > 0
    /\ 4 * WordBits < Mantissa + Coarsest /\ WordBits \in Nat /\ WordBits > 0
  BY CapsAssumption, DoublesAssumption DEF MaxPower

\* Pow2 is total on its domain and doubles at each step.
LEMMA Exponents ==
    /\ Pow2 \in [0..MaxPower -> Nat \ {0}]
    /\ Pow2[0] = 1
    /\ \A n \in 1..MaxPower : Pow2[n] = 2 * Pow2[n - 1]
<1> DEFINE N == MaxPower
           A == Nat \ {0}
           G == [k \in 1..N |-> [x \in A |-> 2 * x]]
           Body(f) == [n \in 0..N |-> IF n = 0 THEN 1 ELSE 2 * f[n - 1]]
<1>1. N \in Nat
  BY MaxPowerAssumption
<1> HIDE DEF N
<1>2. G \in [1..N -> [A -> A]] /\ 1 \in A
  OBVIOUS
<1>3. \E f \in [0..N -> A] : f[0] = 1 /\ \A k \in 1..N : f[k] = G[k][f[k - 1]]
  <2> DEFINE base == 1
  <2>1. base \in A
    BY <1>2
  <2>2. Steps(G, N, A)
    BY <1>2 DEF Steps
  <2> HIDE DEF G, A, base
  <2>3. \E f : Iterates(f, N, A, base, G)
    BY <1>1, <2>1, <2>2, Iteration
  <2> QED
    BY <2>3 DEF base, Iterates
<1>4. PICK f \in [0..N -> A] : f[0] = 1 /\ \A k \in 1..N : f[k] = G[k][f[k - 1]]
  BY <1>3
<1>5. ASSUME NEW k \in 1..N PROVE f[k] = 2 * f[k - 1]
  <2>1. k - 1 \in 0..N /\ f[k - 1] \in A
    BY <1>1, <1>4
  <2> QED
    BY <1>4, <2>1
<1>6. f = Body(f)
  BY <1>1, <1>4, <1>5
<1>7. Pow2 = Body(Pow2)
  BY <1>6 DEF Pow2, MaxPower, N
<1>8. /\ Pow2[0] = 1
      /\ \A n \in 1..N : Pow2[n] = 2 * Pow2[n - 1]
  BY <1>1, <1>7
<1> DEFINE S == {n \in Nat : n <= N => Pow2[n] \in A}
<1>9. 0 \in S
  BY <1>8
<1>10. ASSUME NEW n \in Nat, n \in S PROVE n + 1 \in S
  <2>1. SUFFICES ASSUME n + 1 <= N PROVE Pow2[n + 1] \in A
    OBVIOUS
  <2>2. Pow2[n] \in A /\ n + 1 \in 1..N /\ (n + 1) - 1 = n
    BY <1>1, <1>10, <2>1
  <2> QED
    BY <1>8, <2>2
<1>11. Nat \subseteq S
  <2> HIDE DEF S
  <2> QED
    BY <1>9, <1>10, NatInd
<1>12. \A n \in 0..N : Pow2[n] \in A
  BY <1>1, <1>11
<1>13. Pow2 \in [0..N -> A]
  <2> HIDE DEF A
  <2> QED
    BY <1>7, <1>12
<1> QED
  BY <1>8, <1>13 DEF N

\* The power of a sum is the product of the powers.
LEMMA ExponentsAdd ==
    ASSUME NEW m \in Nat, NEW n \in Nat, m + n <= MaxPower
    PROVE  Pow2[m + n] = Pow2[m] * Pow2[n]
<1> DEFINE N == MaxPower
           S == {k \in Nat : m + k <= N => Pow2[m + k] = Pow2[m] * Pow2[k]}
<1>1. N \in Nat
  BY MaxPowerAssumption
<1>2. /\ \A k \in 0..N : Pow2[k] \in Nat
      /\ Pow2[0] = 1
      /\ \A k \in 1..N : Pow2[k] = 2 * Pow2[k - 1]
  BY Exponents
<1> HIDE DEF N
<1>3. 0 \in S
  BY <1>1, <1>2
<1>4. ASSUME NEW k \in Nat, k \in S PROVE k + 1 \in S
  <2>1. SUFFICES ASSUME m + (k + 1) <= N PROVE Pow2[m + (k + 1)] = Pow2[m] * Pow2[k + 1]
    OBVIOUS
  <2>2. Pow2[m + k] = Pow2[m] * Pow2[k]
    BY <1>1, <1>4, <2>1
  <2>3. Pow2[m + (k + 1)] = 2 * Pow2[m + k]
    <3>1. m + (k + 1) \in 1..N /\ (m + (k + 1)) - 1 = m + k
      BY <1>1, <2>1
    <3> QED
      BY <1>2, <3>1
  <2>4. Pow2[k + 1] = 2 * Pow2[k]
    <3>1. k + 1 \in 1..N /\ (k + 1) - 1 = k
      BY <1>1, <2>1
    <3> QED
      BY <1>2, <3>1
  <2>5. Pow2[m] \in Nat /\ Pow2[k] \in Nat
    BY <1>1, <1>2, <2>1
  <2>6. \A x, y \in Nat : 2 * (x * y) = x * (2 * y)
    OBVIOUS
  <2> QED
    BY <2>2, <2>3, <2>4, <2>5, <2>6
<1>5. Nat \subseteq S
  <2> HIDE DEF S
  <2> QED
    BY <1>3, <1>4, NatInd
<1> QED
  BY <1>5 DEF N

\* k words tell Word times as many numbers apart as k - 1 words; a word is two bytes.
LEMMA NumbersOfWords ==
    /\ Byte \in Nat \ {0} /\ Word = Byte * Byte /\ Word \in Nat \ {0}
    /\ \A k \in 0..4 : Numbers(k) \in Nat \ {0}
    /\ Numbers(0) = 1
    /\ \A k \in 1..4 : Numbers(k) = Numbers(k - 1) * Word
<1> DEFINE h == WordBits \div 2
<1>1. WordBits \in Nat /\ WordBits > 0 /\ h \in Nat /\ h + h = WordBits
  BY CapsAssumption
<1>2. Byte \in Nat \ {0} /\ Word \in Nat \ {0} /\ Word = Byte * Byte
  <2> HIDE DEF h
  <2>1. h \in 0..MaxPower /\ WordBits \in 0..MaxPower /\ h + h <= MaxPower
    BY <1>1, MaxPowerAssumption
  <2>2. Pow2[h + h] = Pow2[h] * Pow2[h]
    BY <1>1, <2>1, ExponentsAdd
  <2>3. Byte = Pow2[h] /\ Word = Pow2[WordBits]
    BY DEF Byte, Word, h
  <2> QED
    BY <1>1, <2>1, <2>2, <2>3, Exponents
<1> HIDE DEF h
<1>3. \A k \in 0..4 : k * WordBits \in 0..MaxPower
  BY <1>1, MaxPowerAssumption
<1>4. ASSUME NEW k \in 0..4 PROVE Numbers(k) \in Nat \ {0}
  BY <1>3, Exponents DEF Numbers
<1>5. Numbers(0) = 1
  <2>1. 0 * WordBits = 0
    BY <1>1
  <2> QED
    BY <2>1, Exponents DEF Numbers
<1>6. ASSUME NEW k \in 1..4 PROVE Numbers(k) = Numbers(k - 1) * Word
  <2> DEFINE m == (k - 1) * WordBits
  <2>1. m \in Nat /\ m + WordBits <= MaxPower /\ k * WordBits = m + WordBits
    BY <1>1, MaxPowerAssumption
  <2> HIDE DEF m
  <2>2. Pow2[m + WordBits] = Pow2[m] * Pow2[WordBits]
    BY <1>1, <2>1, ExponentsAdd
  <2>3. Numbers(k) = Pow2[m + WordBits]
    BY <2>1 DEF Numbers
  <2> QED
    BY <2>2, <2>3 DEF Numbers, Word, m
<1> QED
  BY <1>2, <1>4, <1>5, <1>6

\* Swapping the bytes of a word stays a word and undoes itself (decode.rs swap).
LEMMA SwapBytesTwice ==
    ASSUME NEW w \in 0..(Word - 1)
    PROVE  SwapBytes(w) \in 0..(Word - 1) /\ SwapBytes(SwapBytes(w)) = w
<1> DEFINE h == w \div Byte
           l == w % Byte
<1>1. Byte \in Nat /\ Byte > 0 /\ Word = Byte * Byte /\ Word \in Nat
  BY NumbersOfWords
<1>2. h \in Int /\ l \in 0..(Byte - 1) /\ w = h * Byte + l
  BY <1>1, DivMod
<1>3. SwapBytes(w) = l * Byte + h
  BY DEF SwapBytes
<1> HIDE DEF h, l
<1>4. h \in 0..(Byte - 1)
  <2>1. h * Byte + l < Byte * Byte /\ h * Byte + l >= 0
    BY <1>1, <1>2
  <2>2. h < Byte
    <3>1. ASSUME h >= Byte PROVE FALSE
      <4>1. h * Byte >= Byte * Byte
        BY <1>1, <1>2, <3>1
      <4> QED
        BY <1>1, <1>2, <2>1, <4>1
    <3> QED
      BY <1>1, <1>2, <3>1
  <2>3. h >= 0
    <3>1. ASSUME h <= -1 PROVE FALSE
      <4>1. h * Byte <= (-1) * Byte
        BY <1>1, <1>2, <3>1
      <4> QED
        BY <1>1, <1>2, <2>1, <4>1
    <3> QED
      BY <1>1, <1>2, <3>1
  <2> QED
    BY <1>1, <1>2, <2>2, <2>3
<1>5. (l * Byte + h) \div Byte = l /\ (l * Byte + h) % Byte = h
  BY <1>1, <1>2, <1>4, DivModUnique
<1>6. l * Byte + h \in 0..(Word - 1)
  <2>1. l * Byte <= (Byte - 1) * Byte /\ l * Byte >= 0
    BY <1>1, <1>2
  <2>2. (Byte - 1) * Byte = Byte * Byte - Byte
    BY <1>1
  <2> QED
    BY <1>1, <1>2, <1>4, <2>1, <2>2
<1> QED
  BY <1>2, <1>3, <1>5, <1>6 DEF SwapBytes

\* The byte and the word order keep words words, and each undoes itself.
LEMMA SwappedWords ==
    ASSUME NEW k \in Nat, NEW words \in [1..k -> 0..(Word - 1)], NEW e
    PROVE  /\ Swapped(words, e) \in [1..k -> 0..(Word - 1)]
           /\ InOrder(words, e) \in [1..k -> 0..(Word - 1)]
           /\ Swapped(Swapped(words, e), e) = words
           /\ InOrder(InOrder(words, e), e) = words
<1> DEFINE W == 0..(Word - 1)
<1>1. \A w \in W : SwapBytes(w) \in W /\ SwapBytes(SwapBytes(w)) = w
  BY SwapBytesTwice
<1>2. Len(words) = k /\ DOMAIN words = 1..k
  BY SeqIntro
<1>3. Swapped(words, e) \in [1..k -> W] /\ Swapped(Swapped(words, e), e) = words
  <2>1. CASE e.bytes = "little"
    <3> DEFINE t == [i \in DOMAIN words |-> SwapBytes(words[i])]
    <3>1. Swapped(words, e) = t
      BY <2>1 DEF Swapped
    <3>2. t \in [1..k -> W] /\ DOMAIN t = 1..k
      BY <1>1, <1>2
    <3>3. \A i \in 1..k : t[i] = SwapBytes(words[i])
      BY <1>2
    <3>4. Swapped(t, e) = [i \in DOMAIN t |-> SwapBytes(t[i])]
      BY <2>1 DEF Swapped
    <3> HIDE DEF t
    <3>5. \A i \in 1..k : SwapBytes(t[i]) = words[i]
      BY <1>1, <3>3
    <3>6. [i \in DOMAIN t |-> SwapBytes(t[i])] = words
      BY <3>2, <3>5
    <3> QED
      BY <3>1, <3>2, <3>4, <3>6
  <2>2. CASE e.bytes # "little"
    BY <2>2 DEF Swapped
  <2> QED
    BY <2>1, <2>2
<1>4. InOrder(words, e) \in [1..k -> W] /\ InOrder(InOrder(words, e), e) = words
  <2>1. CASE e.words = "little"
    <3> DEFINE t == [i \in 1..k |-> words[(k - i) + 1]]
    <3>1. InOrder(words, e) = t
      BY <1>2, <2>1 DEF InOrder, Reverse
    <3>2. t \in [1..k -> W] /\ DOMAIN t = 1..k
      OBVIOUS
    <3>3. \A i \in 1..k : t[i] = words[(k - i) + 1]
      OBVIOUS
    <3> HIDE DEF t, W
    <3>4. Len(t) = k
      BY <3>2, SeqIntro
    <3>5. InOrder(t, e) = [i \in 1..k |-> t[(k - i) + 1]]
      BY <2>1, <3>4 DEF InOrder, Reverse
    <3>6. \A i \in 1..k : (k - i) + 1 \in 1..k /\ (k - ((k - i) + 1)) + 1 = i
      OBVIOUS
    <3>7. \A i \in 1..k : t[(k - i) + 1] = words[i]
      BY <3>3, <3>6
    <3> QED
      BY <3>1, <3>2, <3>5, <3>7
  <2>2. CASE e.words # "little"
    BY <2>2 DEF InOrder
  <2> QED
    BY <2>1, <2>2
<1> QED
  BY <1>3, <1>4

\* Decoding what the encoder made of a number that fits gives the number back: the encoder of
\* tags-core is a right inverse of its decoder, for every width, sign, byte and word order.
LEMMA DecodeEncode ==
    ASSUME NEW e, Width(e) \in 1..4, NEW n \in Int, Fits(n, e)
    PROVE  /\ Encode(n, e) \in [1..Width(e) -> 0..(Word - 1)]
           /\ Decode(Encode(n, e), e) = n
<1> DEFINE k == Width(e)
           size == Numbers(k)
           bits == n % size
           digits == [i \in 1..k |-> (bits \div Numbers(k - i)) % Word]
           sent == Encode(n, e)
           ordered == InOrder(Swapped(sent, e), e)
           Body(f) == [i \in 0..k |-> IF i = 0 THEN 0 ELSE f[i - 1] * Word + ordered[i]]
           number == CHOOSE f : f = Body(f)
<1>1. /\ Word \in Nat /\ Word > 0
      /\ \A i \in 0..k : Numbers(i) \in Nat /\ Numbers(i) > 0
      /\ Numbers(0) = 1
      /\ \A i \in 1..k : Numbers(i) = Numbers(i - 1) * Word
  <2>1. k \in 1..4
    OBVIOUS
  <2> HIDE DEF k
  <2>2. 0..k \subseteq 0..4 /\ 1..k \subseteq 1..4
    BY <2>1
  <2> QED
    BY <2>2, NumbersOfWords
<1>2. k \in 1..4 /\ size \in Nat /\ size > 0 /\ bits \in 0..(size - 1)
  <2>1. size \in Nat /\ size > 0
    BY <1>1
  <2> HIDE DEF size
  <2> QED
    BY <2>1, DivMod
<1> HIDE DEF k, size, bits
<1>3. digits \in [1..k -> 0..(Word - 1)]
  <2>1. ASSUME NEW i \in 1..k PROVE (bits \div Numbers(k - i)) % Word \in 0..(Word - 1)
    <3> DEFINE m == Numbers(k - i)
    <3>1. m \in Nat /\ m > 0
      BY <1>1, <1>2
    <3> HIDE DEF m
    <3>2. bits \div m \in Int
      BY <1>2, <3>1, DivMod
    <3> QED
      BY <1>1, <3>2, DivMod DEF m
  <2> QED
    BY <2>1
<1>4. sent = Swapped(InOrder(digits, e), e)
  BY DEF Encode, k, size, bits
<1> HIDE DEF sent
<1>5. sent \in [1..k -> 0..(Word - 1)] /\ ordered = digits
  <2> HIDE DEF digits
  <2>1. InOrder(digits, e) \in [1..k -> 0..(Word - 1)]
    BY <1>2, <1>3, SwappedWords
  <2>2. /\ sent \in [1..k -> 0..(Word - 1)]
        /\ Swapped(sent, e) = InOrder(digits, e)
    BY <1>2, <1>4, <2>1, SwappedWords
  <2> QED
    BY <1>2, <1>3, <2>2, SwappedWords
<1>6. Len(sent) = k
  BY <1>2, <1>5, SeqIntro
<1> HIDE DEF ordered
<1>7. number = Body(number)
  <2> DEFINE A == Int
             G == [i \in 1..k |-> [x \in A |-> x * Word + ordered[i]]]
             base == 0
  <2>1. ordered \in [1..k -> 0..(Word - 1)]
    BY <1>3, <1>5
  <2>2. G \in [1..k -> [A -> A]] /\ base \in A /\ k \in Nat
    BY <1>1, <1>2, <2>1
  <2>3. \E f : Iterates(f, k, A, base, G)
    <3>1. Steps(G, k, A)
      BY <2>2 DEF Steps
    <3> HIDE DEF A, G, base
    <3> QED
      BY <2>2, <3>1, Iteration
  <2>4. PICK f \in [0..k -> A] : f[0] = base /\ \A i \in 1..k : f[i] = G[i][f[i - 1]]
    <3> HIDE DEF A, G, base
    <3> QED
      BY <2>3 DEF Iterates
  <2>5. \A i \in 1..k : f[i] = f[i - 1] * Word + ordered[i]
    <3>1. \A i \in 1..k : i - 1 \in 0..k
      BY <1>2
    <3> QED
      BY <2>4, <3>1
  <2>6. f = Body(f)
    BY <2>4, <2>5
  <2> QED
    BY <2>6
<1> HIDE DEF number
<1>8. number[0] = 0 /\ \A i \in 1..k : number[i] = number[i - 1] * Word + digits[i]
  <2>1. \A i \in 1..k : i \in 0..k /\ i # 0
    BY <1>2
  <2>2. 0 \in 0..k
    BY <1>2
  <2> HIDE DEF digits
  <2>3. number = [i \in 0..k |-> IF i = 0 THEN 0 ELSE number[i - 1] * Word + digits[i]]
    BY <1>5, <1>7
  <2> QED
    BY <2>1, <2>2, <2>3
<1> DEFINE S == {i \in Nat : i <= k => number[i] = bits \div Numbers(k - i)}
<1>9. 0 \in S
  <2>1. bits = 0 * size + bits /\ 0 \in Int
    BY <1>2
  <2>2. bits \div size = 0
    BY <1>2, <2>1, DivModUnique
  <2>3. k - 0 = k
    BY <1>2
  <2> QED
    BY <1>8, <2>2, <2>3 DEF size
<1>10. ASSUME NEW i \in Nat, i \in S PROVE i + 1 \in S
  <2> DEFINE j == i + 1
             m == Numbers(k - j)
             a == bits \div m
  <2>1. SUFFICES ASSUME j <= k PROVE number[j] = a
    OBVIOUS
  <2>2. /\ j \in 1..k /\ j - 1 = i /\ k - i \in 1..k /\ (k - i) - 1 = k - j /\ k - j \in 0..k
        /\ number[i] = bits \div Numbers(k - i)
    BY <1>2, <1>10, <2>1
  <2>3. Numbers(k - i) = m * Word /\ m \in Nat /\ m > 0
    BY <1>1, <2>2
  <2>4. digits[j] = a % Word
    BY <2>2
  <2> HIDE DEF m, j
  <2>5. bits \div (m * Word) = a \div Word
    BY <1>1, <1>2, <2>3, DivDiv
  <2>6. a \in Int
    BY <1>2, <2>3, DivMod
  <2> HIDE DEF a, digits
  <2>7. number[j] = (a \div Word) * Word + (a % Word)
    BY <1>8, <2>2, <2>3, <2>4, <2>5
  <2> QED
    BY <1>1, <2>6, <2>7, DivMod
<1>11. Nat \subseteq S
  <2> HIDE DEF S
  <2> QED
    BY <1>9, <1>10, NatInd
<1>12. number[k] = bits
  <2>1. number[k] = bits \div Numbers(k - k) /\ k - k = 0
    BY <1>2, <1>11
  <2> QED
    BY <1>1, <1>2, <2>1
<1>13. Decode(sent, e) = IF IsSigned(e.type) /\ bits >= size \div 2 THEN bits - size ELSE bits
  BY <1>6, <1>12 DEF Decode, number, ordered, size
<1>14. IF IsSigned(e.type) THEN n \in (-(size \div 2))..(size \div 2 - 1) ELSE n \in 0..(size - 1)
  BY <1>1, <1>2 DEF Fits, Lowest, Highest, k, size
<1>15. size \div 2 \in Nat /\ 2 * (size \div 2) <= size
  BY <1>2
<1>16. CASE n \in 0..(size - 1)
  <2>1. n = 0 * size + n
    BY <1>2
  <2>2. bits = n
    BY <1>2, <1>16, <2>1, DivModUnique DEF bits
  <2> QED
    BY <1>2, <1>5, <1>13, <1>14, <1>15, <2>2 DEF sent, k
<1>17. CASE n < 0
  <2>1. n = (-1) * size + (n + size) /\ n + size \in 0..(size - 1) /\ n + size >= size \div 2
    BY <1>2, <1>14, <1>15, <1>17
  <2>2. bits = n + size
    BY <1>2, <2>1, DivModUnique DEF bits
  <2> QED
    BY <1>2, <1>5, <1>13, <1>14, <1>15, <1>17, <2>1, <2>2 DEF sent, k
<1> QED
  BY <1>2, <1>14, <1>15, <1>16, <1>17

-----------------------------------------------------------------------------
(* Doubles: rounding, exact numbers, quotients                             *)

\* A positive factor cancels.
LEMMA Cancel ==
    ASSUME NEW x \in Int, NEW y \in Int, NEW p \in Int, p > 0
    PROVE  /\ x * p <= y * p => x <= y
           /\ x * p < y * p => x < y
<1>1. ASSUME x > y PROVE x * p > y * p
  <2>1. x >= y + 1 /\ (x - (y + 1)) * p >= 0
    BY <1>1
  <2>2. (x - (y + 1)) * p = x * p - y * p - p
    OBVIOUS
  <2> QED
    BY <2>1, <2>2
<1>2. ASSUME x >= y PROVE x * p >= y * p
  <2>1. (x - y) * p >= 0
    BY <1>2
  <2>2. (x - y) * p = x * p - y * p
    OBVIOUS
  <2> QED
    BY <2>1, <2>2
<1>3. x * p \in Int /\ y * p \in Int
  OBVIOUS
<1> QED
  BY <1>1, <1>2, <1>3

\* The powers of two are positive and grow.
LEMMA Powers ==
    /\ \A k \in 0..MaxPower : Pow2[k] \in Nat /\ Pow2[k] > 0
    /\ Pow2[0] = 1
    /\ \A k \in 1..MaxPower : Pow2[k] = 2 * Pow2[k - 1]
    /\ \A j, k \in 0..MaxPower : j <= k => Pow2[j] <= Pow2[k] /\ Pow2[k] = Pow2[j] * Pow2[k - j]
    /\ Unit \in Nat /\ Unit > 0
<1>1. \A k \in 0..MaxPower : Pow2[k] \in Nat /\ Pow2[k] > 0
  BY Exponents
<1>2. ASSUME NEW j \in 0..MaxPower, NEW k \in 0..MaxPower, j <= k
      PROVE  Pow2[j] <= Pow2[k] /\ Pow2[k] = Pow2[j] * Pow2[k - j]
  <2>1. k - j \in Nat /\ j + (k - j) = k /\ j \in Nat /\ k <= MaxPower /\ k - j \in 0..MaxPower
    BY <1>2, MaxPowerAssumption
  <2>2. Pow2[j + (k - j)] = Pow2[j] * Pow2[k - j]
    BY <2>1, ExponentsAdd
  <2> DEFINE x == Pow2[j]
             y == Pow2[k - j]
  <2>3. x \in Nat /\ x > 0 /\ y \in Nat /\ y > 0
    BY <1>1, <2>1
  <2> HIDE DEF x, y
  <2>4. x <= x * y
    BY <2>3
  <2> QED
    BY <2>1, <2>2, <2>4 DEF x, y
<1>3. Unit \in Nat /\ Unit > 0
  BY <1>1, MaxPowerAssumption DEF Unit, MaxPower
<1> QED
  BY <1>1, <1>2, <1>3, Exponents

\* The nearest integer to a quotient is within half of it.
LEMMA NearestHalf ==
    ASSUME NEW num \in Int, NEW den \in Int, den # 0
    PROVE  /\ Nearest(num, den) \in Int
           /\ 2 * Abs(Nearest(num, den) * den - num) <= Abs(den)
<1> DEFINE a == Sign(den) * num
           d == Abs(den)
           q == a \div d
           r == a % d
           m == Nearest(num, den)
<1>1. /\ a \in Int /\ d \in Nat /\ d > 0
      /\ \/ den = d /\ a = num
         \/ den = -d /\ a = -num
  <2>1. CASE den > 0
    BY <2>1 DEF Abs, Sign
  <2>2. CASE den < 0
    BY <2>2 DEF Abs, Sign
  <2> QED
    BY <2>1, <2>2
<1>2. m = IF 2 * r < d \/ (2 * r = d /\ q % 2 = 0) THEN q ELSE q + 1
  BY DEF Nearest
<1> HIDE DEF a, d, m
<1>3. q \in Int /\ r \in 0..(d - 1) /\ a = q * d + r
  BY <1>1, DivMod
<1> HIDE DEF q, r
<1>4. /\ m \in Int
      /\ \/ m = q /\ 2 * r <= d
         \/ m = q + 1 /\ 2 * r >= d
  <2>1. CASE 2 * r < d
    BY <1>1, <1>2, <1>3, <2>1
  <2>2. CASE 2 * r >= d
    BY <1>1, <1>2, <1>3, <2>2
  <2> QED
    BY <1>1, <1>3, <2>1, <2>2
<1>5. 2 * Abs(m * d - a) <= d
  <2> DEFINE t == q * d
  <2>1. t \in Int /\ a = t + r /\ q * d = t
    BY <1>1, <1>3
  <2> HIDE DEF t
  <2>2. CASE m = q /\ 2 * r <= d
    <3>1. m * d = t
      BY <2>1, <2>2
    <3>2. m * d - a = -r
      BY <1>1, <1>3, <2>1, <3>1
    <3> QED
      BY <1>1, <1>3, <2>2, <3>2 DEF Abs
  <2>3. CASE m = q + 1 /\ 2 * r >= d
    <3>1. m * d = t + d
      BY <1>1, <1>3, <2>1, <2>3
    <3>2. m * d - a = d - r
      BY <1>1, <1>3, <2>1, <3>1
    <3> QED
      BY <1>1, <1>3, <2>3, <3>2 DEF Abs
  <2> QED
    BY <1>4, <2>2, <2>3
<1>6. Abs(m * den - num) = Abs(m * d - a)
  <2> DEFINE t == m * d
  <2>1. t \in Int
    BY <1>1, <1>4
  <2>3. CASE den = d /\ a = num
    BY <2>3
  <2>4. CASE den = -d /\ a = -num
    <3>1. m * den = -t
      BY <1>1, <1>4, <2>4
    <3> HIDE DEF t
    <3>2. m * den - num = -(t - a)
      BY <1>1, <2>1, <2>4, <3>1
    <3>3. Abs(-(t - a)) = Abs(t - a)
      BY <1>1, <2>1 DEF Abs
    <3> QED
      BY <3>2, <3>3 DEF t
  <2> QED
    BY <1>1, <2>3, <2>4
<1> QED
  BY <1>4, <1>5, <1>6 DEF m, d

\* What a double is: an integer of steps of 2^k units, at most half a step off, and no finer
\* step would have reached.
LEMMA DoubleOf ==
    ASSUME NEW num \in Int, NEW den \in Int, den # 0, Finite(num, den)
    PROVE  \E k \in 0..(Finest + Coarsest), m \in Int :
              /\ Double(num, den) = Pow2[k] * m
              /\ 2 * Abs(m * (den * Pow2[k]) - num) <= Abs(den * Pow2[k])
              /\ \/ k = 0
                 \/ Pow2[Mantissa + (k - 1)] * Abs(den) <= Abs(num)
<1> DEFINE N == Finest + Coarsest
           R(k) == Reaches(k, num, den)
           Least(k) == R(k) /\ (k > 0 => ~R(k - 1))
           S == {k \in Nat : k <= N => ~R(k)}
<1>1. N \in Nat
  BY MaxPowerAssumption
<1>2. R(N)
  BY DEF Finite
<1>3. \E k \in 0..N : Least(k)
  <2>1. SUFFICES ASSUME \A k \in 0..N : ~Least(k) PROVE FALSE
    OBVIOUS
  <2> HIDE DEF R, N
  <2>2. 0 \in S
    BY <1>1, <2>1
  <2>3. ASSUME NEW k \in Nat, k \in S PROVE k + 1 \in S
    <3>1. SUFFICES ASSUME k + 1 <= N, R(k + 1) PROVE FALSE
      OBVIOUS
    <3>2. ~R(k) /\ k + 1 \in 0..N /\ (k + 1) - 1 = k /\ k + 1 > 0
      BY <1>1, <2>3, <3>1
    <3> QED
      BY <2>1, <3>1, <3>2
  <2>4. Nat \subseteq S
    <3> HIDE DEF S
    <3> QED
      BY <2>2, <2>3, NatInd
  <2> QED
    BY <1>1, <1>2, <2>4
<1> DEFINE k == CHOOSE k \in 0..N : Least(k)
           p == Pow2[k]
           m == Nearest(num, den * p)
<1>4. k \in 0..N /\ Least(k)
  <2> HIDE DEF Least
  <2> QED
    BY <1>3
<1>5. Double(num, den) = p * m
  BY DEF Double
<1> HIDE DEF k
<1>6. p \in Nat /\ p > 0
  <2>1. k \in 0..MaxPower
    BY <1>4, MaxPowerAssumption DEF MaxPower
  <2> QED
    BY <2>1, Powers
<1> HIDE DEF p
<1>7. den * p \in Int /\ den * p # 0
  BY <1>6
<1>8. m \in Int /\ 2 * Abs(m * (den * p) - num) <= Abs(den * p)
  BY <1>7, NearestHalf
<1>9. k = 0 \/ Pow2[Mantissa + (k - 1)] * Abs(den) <= Abs(num)
  <2>1. SUFFICES ASSUME k # 0 PROVE Pow2[Mantissa + (k - 1)] * Abs(den) <= Abs(num)
    OBVIOUS
  <2>2. ~R(k - 1)
    BY <1>1, <1>4, <2>1
  <2>3. Mantissa + (k - 1) \in 0..MaxPower
    BY <1>4, <2>1, MaxPowerAssumption DEF MaxPower
  <2>4. Pow2[Mantissa + (k - 1)] \in Nat
    BY <2>3, Powers
  <2>5. Abs(den) \in Nat /\ Abs(num) \in Nat
    BY DEF Abs
  <2>6. Pow2[Mantissa + (k - 1)] * Abs(den) \in Int
    BY <2>4, <2>5
  <2> QED
    BY <2>2, <2>5, <2>6 DEF Reaches
<1> HIDE DEF m
<1> QED
  BY <1>4, <1>5, <1>8, <1>9 DEF p

\* Absolute values: of a negation, of a product.
LEMMA AbsFacts ==
    ASSUME NEW x \in Int, NEW y \in Int
    PROVE  /\ Abs(x) \in Nat /\ (x >= 0 => Abs(x) = x) /\ (x <= 0 => Abs(x) = -x)
           /\ Abs(-x) = Abs(x) /\ x <= Abs(x) /\ -x <= Abs(x)
           /\ Abs(x * y) = Abs(x) * Abs(y)
<1>1. /\ Abs(x) \in Nat /\ (x >= 0 => Abs(x) = x) /\ (x <= 0 => Abs(x) = -x)
      /\ Abs(-x) = Abs(x) /\ x <= Abs(x) /\ -x <= Abs(x)
  BY DEF Abs
<1>2. CASE x >= 0 /\ y >= 0
  <2>1. x * y >= 0 /\ x * y \in Int
    BY <1>2
  <2>2. Abs(x * y) = x * y /\ Abs(x) = x /\ Abs(y) = y
    BY <1>2, <2>1 DEF Abs
  <2> QED
    BY <1>1, <2>2
<1>3. CASE x >= 0 /\ y < 0
  <2>1. x * (-y) >= 0 /\ x * y = -(x * (-y)) /\ x * (-y) \in Int
    BY <1>3
  <2>2. Abs(x * y) = x * (-y) /\ Abs(x) = x /\ Abs(y) = -y
    BY <1>3, <2>1 DEF Abs
  <2> QED
    BY <1>1, <2>2
<1>4. CASE x < 0 /\ y >= 0
  <2>1. (-x) * y >= 0 /\ x * y = -((-x) * y) /\ (-x) * y \in Int
    BY <1>4
  <2>2. Abs(x * y) = (-x) * y /\ Abs(x) = -x /\ Abs(y) = y
    BY <1>4, <2>1 DEF Abs
  <2> QED
    BY <1>1, <2>2
<1>5. CASE x < 0 /\ y < 0
  <2>1. (-x) * (-y) >= 0 /\ x * y = (-x) * (-y) /\ (-x) * (-y) \in Int
    BY <1>5
  <2>2. Abs(x * y) = (-x) * (-y) /\ Abs(x) = -x /\ Abs(y) = -y
    BY <1>5, <2>1 DEF Abs
  <2> QED
    BY <1>1, <2>2
<1> QED
  BY <1>1, <1>2, <1>3, <1>4, <1>5

\* f64::round is at most half a unit of one off.
LEMMA RoundedHalf ==
    ASSUME NEW x \in Int
    PROVE  Rounded(x) \in Int /\ 2 * Abs(Rounded(x) * Unit - x) <= Unit
<1> DEFINE a == Abs(x)
           s == Sign(x)
           u == Unit
           m == (2 * a + u) \div (2 * u)
           r == (2 * a + u) % (2 * u)
<1>1. /\ a \in Nat /\ u \in Nat /\ u > 0 /\ s \in {-1, 0, 1} /\ x = s * a
      /\ s = 0 => a = 0
  BY Powers DEF Abs, Sign
<1>2. Rounded(x) = s * m
  BY DEF Rounded
<1> HIDE DEF a, s, u
<1>3. m \in Int /\ r \in 0..(2 * u - 1) /\ 2 * a + u = m * (2 * u) + r
  <2> DEFINE y == 2 * a + u
             z == 2 * u
  <2>1. y \in Int /\ z \in Nat /\ z > 0
    BY <1>1
  <2> HIDE DEF y, z
  <2>2. y \div z \in Int /\ y % z \in 0..(z - 1) /\ y = (y \div z) * z + (y % z)
    BY <2>1, DivMod
  <2> QED
    BY <2>2 DEF y, z
<1> HIDE DEF m, r
<1> DEFINE t == m * u
<1>4. t \in Int /\ m * (2 * u) = 2 * t
  BY <1>1, <1>3
<1>5. (s * m) * u = s * t
  BY <1>1, <1>3
<1> HIDE DEF t
<1>6. 2 * (t - a) <= u /\ 2 * (a - t) <= u
  BY <1>1, <1>3, <1>4
<1>7. (s * m) * u - x = s * (t - a)
  BY <1>1, <1>4, <1>5
<1>8. 2 * Abs(s * (t - a)) <= u
  <2>1. CASE s = 0
    BY <1>1, <1>4, <2>1 DEF Abs
  <2>2. CASE s = 1
    BY <1>1, <1>4, <1>6, <2>2 DEF Abs
  <2>3. CASE s = -1
    BY <1>1, <1>4, <1>6, <2>3 DEF Abs
  <2> QED
    BY <1>1, <2>1, <2>2, <2>3
<1>9. s * m \in Int
  BY <1>1, <1>3
<1> QED
  BY <1>2, <1>7, <1>8, <1>9 DEF u

\* Multiples of p less than p apart are equal.
LEMMA NearMultiple ==
    ASSUME NEW i \in Int, NEW j \in Int, NEW p \in Nat, p > 0,
           2 * Abs(i * p - j * p) <= p
    PROVE  i = j
<1>1. i * p - j * p = (i - j) * p
  OBVIOUS
<1>2. Abs((i - j) * p) = Abs(i - j) * p
  BY AbsFacts DEF Abs
<1>3. Abs(i - j) \in Nat
  BY DEF Abs
<1> DEFINE d == Abs(i - j)
<1>4. (2 * d) * p <= 1 * p
  <2> HIDE DEF d
  <2>1. 2 * (d * p) <= p
    BY <1>1, <1>2 DEF d
  <2>2. 2 * (d * p) = (2 * d) * p
    BY <1>3 DEF d
  <2> QED
    BY <2>1, <2>2
<1>5. 2 * d <= 1
  <2> HIDE DEF d
  <2> QED
    BY <1>3, <1>4, Cancel DEF d
<1> QED
  BY <1>3, <1>5 DEF Abs

\* A whole number rounds to itself.
LEMMA RoundedWhole ==
    ASSUME NEW j \in Int
    PROVE  Rounded(j * Unit) = j
<1>1. Unit \in Nat /\ Unit > 0 /\ j * Unit \in Int
  BY Powers
<1>2. Rounded(j * Unit) \in Int /\ 2 * Abs(Rounded(j * Unit) * Unit - j * Unit) <= Unit
  BY <1>1, RoundedHalf
<1> QED
  BY <1>1, <1>2, NearMultiple

\* The double of an integer is an integer, and near it.
LEMMA FromIntWhole ==
    ASSUME NEW n \in Int, Finite(n * Unit, 1)
    PROVE  \E j \in Int : /\ FromInt(n) = j * Unit
                          /\ Abs(j - n) * (2 * Pow2[Mantissa - 1]) <= Abs(n)
                          /\ Abs(n) < Pow2[Mantissa] => j = n
<1> DEFINE u == Unit
           x == n * u
           b == Pow2[Mantissa - 1]
<1>1. u \in Nat /\ u > 0 /\ x \in Int /\ u = Pow2[Finest]
  BY Powers DEF Unit
<1>2. b \in Nat /\ b > 0 /\ Pow2[Mantissa] = 2 * b
  <2>1. Mantissa - 1 \in 0..MaxPower /\ Mantissa \in 1..MaxPower
    BY MaxPowerAssumption DEF MaxPower
  <2> QED
    BY <2>1, Powers
<1>3. PICK k \in 0..(Finest + Coarsest), m \in Int :
              /\ Double(x, 1) = Pow2[k] * m
              /\ 2 * Abs(m * (1 * Pow2[k]) - x) <= Abs(1 * Pow2[k])
              /\ \/ k = 0
                 \/ Pow2[Mantissa + (k - 1)] * Abs(1) <= Abs(x)
  BY <1>1, DoubleOf
<1> DEFINE p == Pow2[k]
<1> HIDE DEF u, b
<1>4. p \in Nat /\ p > 0 /\ k \in 0..MaxPower
  <2>1. k \in 0..MaxPower
    BY MaxPowerAssumption DEF MaxPower
  <2> QED
    BY <2>1, Powers
<1>5. /\ Double(x, 1) = p * m
      /\ 2 * Abs(m * p - x) <= p
      /\ k = 0 \/ Pow2[Mantissa + (k - 1)] <= Abs(x)
  <2> HIDE DEF x
  <2>1. 1 * p = p /\ Abs(p) = p /\ Abs(1) = 1
    BY <1>4 DEF Abs
  <2>2. k = 0 \/ Pow2[Mantissa + (k - 1)] * Abs(1) <= Abs(x)
    BY <1>3
  <2>3. k # 0 => Pow2[Mantissa + (k - 1)] \in Nat
    <3>1. k # 0 => Mantissa + (k - 1) \in 0..MaxPower
      BY MaxPowerAssumption DEF MaxPower
    <3> QED
      BY <3>1, Powers
  <2>4. k # 0 => Pow2[Mantissa + (k - 1)] <= Abs(x)
    BY <2>1, <2>2, <2>3
  <2> QED
    BY <1>3, <2>1, <2>4
<1>6. k # 0 => Pow2[Mantissa + (k - 1)] = b * p
  <2>1. SUFFICES ASSUME k # 0 PROVE Pow2[Mantissa + (k - 1)] = b * p
    OBVIOUS
  <2>2. /\ Mantissa - 1 \in Nat /\ k \in Nat /\ (Mantissa - 1) + k = Mantissa + (k - 1)
        /\ (Mantissa - 1) + k <= MaxPower
    BY <2>1, MaxPowerAssumption DEF MaxPower
  <2> QED
    BY <2>2, ExponentsAdd DEF b
<1>7. k # 0 => b * p <= Abs(x)
  BY <1>5, <1>6
<1>8. FromInt(n) = p * m
  BY <1>5 DEF FromInt, u
<1> HIDE DEF p, x
\* The double is whole: either the spacing is below one and n is a double, or it is a power of two.
<1>9. CASE k <= Finest
  <2> DEFINE w == Pow2[Finest - k]
  <2>1. u = p * w /\ w \in Nat
    <3>1. Finest \in 0..MaxPower /\ Finest - k \in 0..MaxPower
      BY <1>9, MaxPowerAssumption DEF MaxPower
    <3> QED
      BY <1>1, <1>4, <1>9, <3>1, Powers DEF p
  <2> HIDE DEF w
  <2>2. x = (n * w) * p /\ n * w \in Int
    BY <1>1, <1>4, <2>1 DEF x
  <2>3. m = n * w
    BY <1>4, <1>5, <2>2, NearMultiple
  <2>4. FromInt(n) = n * u
    BY <1>1, <1>4, <1>8, <2>1, <2>3
  <2>5. Abs(n - n) * (2 * b) = 0
    BY <1>2 DEF Abs
  <2>6. Abs(n) \in Nat
    BY DEF Abs
  <2> QED
    BY <2>4, <2>5, <2>6 DEF u, b
<1>10. CASE k > Finest
  <2> DEFINE w == Pow2[k - Finest]
             j == m * w
  <2>1. p = u * w /\ w \in Nat
    <3>1. Finest \in 0..MaxPower /\ k - Finest \in 0..MaxPower
      BY <1>4, <1>10, MaxPowerAssumption DEF MaxPower
    <3> QED
      BY <1>1, <1>4, <1>10, <3>1, Powers DEF p
  <2> HIDE DEF w
  <2>2. j \in Int /\ FromInt(n) = j * u /\ m * p = j * u
    BY <1>1, <1>8, <2>1
  <2> HIDE DEF j
  <2>3. m * p - x = (j - n) * u
    BY <1>1, <2>2 DEF x
  <2>4. Abs(m * p - x) = Abs(j - n) * u /\ Abs(x) = Abs(n) * u
    <3> DEFINE y == j - n
    <3>1. y \in Int /\ Abs(u) = u
      BY <1>1, <2>2 DEF Abs
    <3> HIDE DEF y
    <3>2. u \in Int
      BY <1>1
    <3>3. Abs(y * u) = Abs(y) * Abs(u)
      BY <3>1, <3>2, AbsFacts
    <3>4. Abs(n * u) = Abs(n) * Abs(u)
      BY <3>2, AbsFacts
    <3> QED
      BY <2>3, <3>1, <3>3, <3>4 DEF x, y
  <2> DEFINE d == Abs(j - n)
             a == Abs(n)
  <2>5. d \in Nat /\ a \in Nat
    BY <2>2 DEF Abs
  <2>6. 2 * (d * u) <= p /\ b * p <= a * u
    <3>1. k # 0 /\ 2 * Abs(m * p - x) <= p
      BY <1>5, <1>10, MaxPowerAssumption
    <3>2. b * p <= Abs(x)
      BY <1>7, <3>1
    <3> QED
      BY <2>4, <3>1, <3>2
  <2>7. d * (2 * b) <= a
    <3> HIDE DEF d, a
    <3>1. b * (2 * (d * u)) <= b * p
      <4>1. 2 * (d * u) \in Int
        BY <1>1, <2>5
      <4> DEFINE y == 2 * (d * u)
      <4> HIDE DEF y
      <4>2. y \in Int /\ y <= p
        BY <2>6, <4>1 DEF y
      <4>3. b * y <= b * p
        <5>1. b * (p - y) >= 0
          BY <1>2, <1>4, <4>2
        <5>2. b * (p - y) = b * p - b * y
          BY <1>2, <1>4, <4>2
        <5>3. b * p \in Int /\ b * y \in Int
          BY <1>2, <1>4, <4>2
        <5> QED
          BY <5>1, <5>2, <5>3
      <4> QED
        BY <4>3 DEF y
    <3>2. b * (2 * (d * u)) = (d * (2 * b)) * u
      BY <1>1, <1>2, <2>5
    <3>3. b * p \in Int /\ a * u \in Int /\ d * (2 * b) \in Int /\ (d * (2 * b)) * u \in Int
      BY <1>1, <1>2, <1>4, <2>5
    <3>4. (d * (2 * b)) * u <= a * u
      BY <2>6, <3>1, <3>2, <3>3
    <3> QED
      BY <1>1, <2>5, <3>3, <3>4, Cancel
  <2>8. a >= Pow2[Mantissa]
    <3> HIDE DEF d, a
    <3>1. p >= 2 * u
      <4>1. Finest + 1 \in 1..MaxPower /\ Finest + 1 <= k /\ (Finest + 1) - 1 = Finest
        BY <1>4, <1>10, MaxPowerAssumption
      <4>2. Pow2[Finest + 1] = 2 * Pow2[Finest] /\ Pow2[Finest + 1] <= Pow2[k]
        BY <1>4, <4>1, Powers
      <4> QED
        BY <1>1, <4>2 DEF p
    <3>2. b * (2 * u) <= b * p
      <4>1. b * (p - 2 * u) >= 0
        BY <1>1, <1>2, <1>4, <3>1
      <4>2. b * (p - 2 * u) = b * p - b * (2 * u)
        BY <1>1, <1>2, <1>4
      <4>3. b * p \in Int /\ b * (2 * u) \in Int
        BY <1>1, <1>2, <1>4
      <4> QED
        BY <4>1, <4>2, <4>3
    <3>3. b * (2 * u) = (2 * b) * u /\ (2 * b) * u \in Int /\ b * p \in Int /\ a * u \in Int
      BY <1>1, <1>2, <1>4, <2>5
    <3>4. (2 * b) * u <= a * u
      BY <2>6, <3>2, <3>3
    <3> QED
      BY <1>1, <1>2, <2>5, <3>4, Cancel
  <2> HIDE DEF d, a
  <2>9. ~(a < Pow2[Mantissa])
    BY <1>2, <2>5, <2>8
  <2> QED
    BY <2>2, <2>7, <2>9 DEF d, a, u, b
<1> QED
  BY <1>4, <1>9, <1>10, MaxPowerAssumption

\* Integers of as many bits as the mantissa are doubles.
LEMMA SmallFinite ==
    ASSUME NEW n \in Int, Abs(n) < Pow2[Mantissa + Coarsest]
    PROVE  Finite(n * Unit, 1)
<1> DEFINE b == Pow2[Mantissa + Coarsest]
           u == Unit
           a == Abs(n)
<1>1. u \in Nat /\ u > 0 /\ u = Pow2[Finest]
  BY Powers DEF Unit
<1>2. b \in Nat /\ Pow2[Mantissa + (Finest + Coarsest)] = b * u
  <2> DEFINE s == Mantissa + Coarsest
  <2>1. /\ s \in Nat /\ Finest \in Nat /\ s + Finest = Mantissa + (Finest + Coarsest)
        /\ s + Finest <= MaxPower /\ s \in 0..MaxPower
    BY MaxPowerAssumption DEF MaxPower
  <2> HIDE DEF s
  <2>2. Pow2[s + Finest] = Pow2[s] * Pow2[Finest]
    BY <2>1, ExponentsAdd
  <2> QED
    BY <1>1, <2>1, <2>2, Powers DEF s
<1>3. a \in Nat /\ a < b
  BY DEF Abs
<1>4. Abs(n * u) = a * u
  <2>1. Abs(u) = u
    BY <1>1 DEF Abs
  <2> QED
    BY <1>1, <2>1, AbsFacts
<1> HIDE DEF a, b, u
<1>5. a * u < b * u
  <2>1. (b - a) * u > 0
    BY <1>1, <1>2, <1>3
  <2>2. \A x, y, z \in Nat : (x - y) * z = x * z - y * z
    OBVIOUS
  <2>3. b * u \in Int /\ a * u \in Int /\ (b - a) * u = b * u - a * u
    BY <1>1, <1>2, <1>3, <2>2
  <2> QED
    BY <2>1, <2>3
<1>6. Abs(1) = 1 /\ b * u \in Int
  BY <1>1, <1>2 DEF Abs
<1> QED
  BY <1>2, <1>4, <1>5, <1>6 DEF Finite, Reaches, u

\* Integers below 2^Mantissa are doubles.
LEMMA ExactInt ==
    ASSUME NEW n \in Int, Abs(n) < Pow2[Mantissa]
    PROVE  FromInt(n) = n * Unit /\ Finite(n * Unit, 1)
<1>1. Pow2[Mantissa] <= Pow2[Mantissa + Coarsest] /\ Pow2[Mantissa] \in Nat
      /\ Pow2[Mantissa + Coarsest] \in Nat
  <2>1. /\ Mantissa \in 0..MaxPower /\ Mantissa + Coarsest \in 0..MaxPower
        /\ Mantissa <= Mantissa + Coarsest
    BY MaxPowerAssumption DEF MaxPower
  <2> QED
    BY <2>1, Powers
<1>2. Abs(n) < Pow2[Mantissa + Coarsest] /\ Abs(n) \in Nat
  BY <1>1 DEF Abs
<1>3. Finite(n * Unit, 1)
  BY <1>2, SmallFinite
<1> QED
  BY <1>3, FromIntWhole

\* The arithmetic of a rounded quotient: w is even, and a * p less than p * (2 * w).
LEMMA QuotientArithmetic ==
    ASSUME NEW a \in Nat, NEW w \in Nat, w > 0, NEW p \in Nat, p > 0,
           NEW D \in Int, NEW m \in Int, NEW n \in Int,
           a < 2 * w,
           2 * Abs(m * (a * p) - D * (p * (2 * w))) <= a * p,
           2 * Abs(n * (p * (2 * w)) - m * p) <= p * (2 * w)
    PROVE  2 * Abs(n * a - D) <= a
<1>1. 2 * Abs(m * a - D * (2 * w)) <= a
  <2> DEFINE x == m * a - D * (2 * w)
  <2>1. x \in Int /\ m * (a * p) - D * (p * (2 * w)) = x * p
    OBVIOUS
  <2> HIDE DEF x
  <2>2. Abs(x * p) = Abs(x) * p
    BY <2>1, AbsFacts DEF Abs
  <2> DEFINE d == Abs(x)
  <2>3. d \in Nat
    BY <2>1 DEF Abs
  <2>4. (2 * d) * p <= a * p
    <3> HIDE DEF d
    <3>1. 2 * (d * p) <= a * p
      BY <2>1, <2>2 DEF d
    <3> QED
      BY <2>3, <3>1
  <2>5. 2 * d <= a
    <3> HIDE DEF d
    <3> QED
      BY <2>3, <2>4, Cancel
  <2> QED
    BY <2>5 DEF x
<1>2. 2 * Abs(n * (2 * w) - m) <= 2 * w
  <2> DEFINE x == n * (2 * w) - m
  <2>1. x \in Int /\ n * (p * (2 * w)) - m * p = x * p
    OBVIOUS
  <2> HIDE DEF x
  <2>2. Abs(x * p) = Abs(x) * p
    BY <2>1, AbsFacts DEF Abs
  <2> DEFINE d == Abs(x)
  <2>3. d \in Nat
    BY <2>1 DEF Abs
  <2>4. (2 * d) * p <= (2 * w) * p
    <3> HIDE DEF d
    <3>1. 2 * (d * p) <= p * (2 * w)
      BY <2>1, <2>2 DEF d
    <3> QED
      BY <2>3, <3>1
  <2>5. 2 * d <= 2 * w
    <3> HIDE DEF d
    <3> QED
      BY <2>3, <2>4, Cancel
  <2> QED
    BY <2>5 DEF x
<1> DEFINE r == n * a
           t == m * a
           y == D * w
<1>3. r \in Int /\ t \in Int /\ y \in Int /\ D * (2 * w) = 2 * y
  OBVIOUS
\* m lies within w of 2nw, and D within a / (4w) of ma / (2w).
<1>4. m <= (2 * n + 1) * w /\ (2 * n - 1) * w <= m
  <2> DEFINE z == n * w
  <2>1. /\ z \in Int /\ n * (2 * w) = 2 * z
        /\ (2 * n + 1) * w = 2 * z + w /\ (2 * n - 1) * w = 2 * z - w
    OBVIOUS
  <2> HIDE DEF z
  <2> QED
    BY <1>2, <2>1 DEF Abs
<1>5. 4 * y <= 2 * t + a /\ 2 * t - a <= 4 * y
  <2> HIDE DEF t, y
  <2>1. 2 * Abs(t - 2 * y) <= a
    BY <1>1, <1>3 DEF t
  <2> QED
    BY <1>3, <2>1 DEF Abs
<1>6. t <= (2 * r + a) * w /\ (2 * r - a) * w <= t
  <2>1. ((2 * n + 1) * w - m) * a >= 0 /\ (m - (2 * n - 1) * w) * a >= 0
    <3> DEFINE g == (2 * n + 1) * w - m
               h == m - (2 * n - 1) * w
    <3>1. g \in Nat /\ h \in Nat
      BY <1>4
    <3> HIDE DEF g, h
    <3>2. g * a >= 0 /\ h * a >= 0
      BY <3>1
    <3> QED
      BY <3>2 DEF g, h
  <2>2. /\ ((2 * n + 1) * w - m) * a = (2 * r + a) * w - t
        /\ (m - (2 * n - 1) * w) * a = t - (2 * r - a) * w
    OBVIOUS
  <2>3. (2 * r + a) * w \in Int /\ (2 * r - a) * w \in Int
    BY <1>3
  <2> HIDE DEF r, t
  <2> QED
    BY <1>3, <2>1, <2>2, <2>3
<1>7. 2 * D < 2 * r + a + 1 /\ 2 * r - a - 1 < 2 * D
  <2> HIDE DEF r, t
  <2> DEFINE g == (2 * r + a) * w
             h == (2 * r - a) * w
  <2>1. g \in Int /\ h \in Int
    BY <1>3
  <2>2. /\ (2 * D) * (2 * w) = 4 * y
        /\ (2 * r + a + 1) * (2 * w) = 2 * g + 2 * w
        /\ (2 * r - a - 1) * (2 * w) = 2 * h - 2 * w
    BY <1>3
  <2> HIDE DEF g, h, y
  <2>3. 4 * y < 2 * g + 2 * w /\ 2 * h - 2 * w < 4 * y
    <3>1. t <= g /\ h <= t
      BY <1>6 DEF g, h
    <3> QED
      BY <1>3, <1>5, <2>1, <3>1
  <2>4. /\ (2 * D) * (2 * w) < (2 * r + a + 1) * (2 * w)
        /\ (2 * r - a - 1) * (2 * w) < (2 * D) * (2 * w)
    BY <2>2, <2>3
  <2>5. /\ 2 * D \in Int /\ 2 * r + a + 1 \in Int /\ 2 * r - a - 1 \in Int
        /\ 2 * w \in Int /\ 2 * w > 0
    BY <1>3
  <2> QED
    BY <2>4, <2>5, Cancel
<1> HIDE DEF r
<1> QED
  BY <1>3, <1>7 DEF Abs, r

\* The inverse of a scale: rounding the nearest double of a quotient is as good as rounding the
\* quotient, as long as doubles carry both with a fraction (formula.rs 257-272, write.rs 303-326).
LEMMA QuotientRounds ==
    ASSUME NEW D \in Int, NEW s \in Int, s # 0, Abs(D) + Abs(s) < Pow2[Mantissa - 1],
           Finite(D * Unit, s)
    PROVE  LET n == Rounded(Double(D * Unit, s))
           IN  /\ Double(D * Unit, s) \in Int /\ n \in Int
               /\ 2 * Abs(n * s - D) <= Abs(s)
               /\ D = 0 => Double(D * Unit, s) = 0
<1> DEFINE u == Unit
           x == D * u
           b == Pow2[Mantissa - 1]
           a == Abs(s)
           t == Sign(s)
           d == Abs(D)
<1>1. u \in Nat /\ u > 0 /\ x \in Int /\ u = Pow2[Finest]
  BY Powers DEF Unit
<1>2. b \in Nat /\ b > 0 /\ b <= u
  <2>1. Mantissa - 1 \in 0..MaxPower /\ Finest \in 0..MaxPower /\ Mantissa - 1 <= Finest
    BY MaxPowerAssumption DEF MaxPower
  <2> QED
    BY <1>1, <2>1, Powers
<1>3. a \in Nat /\ a > 0 /\ d \in Nat /\ d < b /\ a < b
  <2>1. a \in Nat /\ a > 0 /\ d \in Nat /\ d + a < b
    BY DEF Abs
  <2> QED
    BY <1>2, <2>1
<1>4. PICK k \in 0..(Finest + Coarsest), m \in Int :
              /\ Double(x, s) = Pow2[k] * m
              /\ 2 * Abs(m * (s * Pow2[k]) - x) <= Abs(s * Pow2[k])
              /\ \/ k = 0
                 \/ Pow2[Mantissa + (k - 1)] * Abs(s) <= Abs(x)
  BY <1>1, DoubleOf
<1> DEFINE p == Pow2[k]
           f == Double(x, s)
           n == Rounded(f)
<1> HIDE DEF u, b
<1>5. p \in Nat /\ p > 0 /\ k \in 0..MaxPower
  <2>1. k \in 0..MaxPower
    BY MaxPowerAssumption DEF MaxPower
  <2> QED
    BY <2>1, Powers
<1>6. Abs(x) = d * u
  <2>1. u \in Int /\ Abs(u) = u
    BY <1>1 DEF Abs
  <2> QED
    BY <2>1, AbsFacts
\* The spacing of the quotient is so fine that a step of the scale holds a unit's worth of it.
<1>7. a * p < u
  <2>1. CASE k = 0
    <3>1. p = 1
      BY <2>1, Powers
    <3> QED
      BY <1>1, <1>2, <1>3, <3>1
  <2>2. CASE k # 0
    <3>1. Pow2[Mantissa + (k - 1)] = b * p
      <4>1. /\ Mantissa - 1 \in Nat /\ k \in Nat /\ (Mantissa - 1) + k = Mantissa + (k - 1)
            /\ (Mantissa - 1) + k <= MaxPower
        BY <2>2, MaxPowerAssumption DEF MaxPower
      <4> QED
        BY <4>1, ExponentsAdd DEF b
    <3>2. (b * p) * a <= d * u
      BY <1>4, <1>6, <2>2, <3>1
    <3> HIDE DEF p, a, d
    <3>3. d * u < b * u
      <4>1. (b - d) * u > 0
        BY <1>1, <1>2, <1>3
      <4>2. \A i, j, l \in Nat : (i - j) * l = i * l - j * l
        OBVIOUS
      <4>3. (b - d) * u = b * u - d * u /\ b * u \in Int /\ d * u \in Int
        BY <1>1, <1>2, <1>3, <4>2
      <4> QED
        BY <4>1, <4>3
    <3>4. (b * p) * a = (a * p) * b /\ b * u = u * b
      BY <1>1, <1>2, <1>3, <1>5
    <3>5. a * p \in Int /\ (a * p) * b \in Int /\ u * b \in Int /\ d * u \in Int
      BY <1>1, <1>2, <1>3, <1>5
    <3>6. (a * p) * b < u * b
      BY <3>2, <3>3, <3>4, <3>5
    <3> QED
      BY <1>1, <1>2, <3>5, <3>6, Cancel
  <2> QED
    BY <2>1, <2>2
<1>8. k < Finest
  <2>1. SUFFICES ASSUME k >= Finest PROVE FALSE
    BY <1>5, MaxPowerAssumption
  <2>2. u <= p
    <3>1. Finest \in 0..MaxPower
      BY MaxPowerAssumption DEF MaxPower
    <3> QED
      BY <1>1, <1>5, <2>1, <3>1, Powers
  <2> HIDE DEF p, a
  <2>3. p <= a * p
    <3>1. (a - 1) * p >= 0 /\ (a - 1) * p = a * p - p /\ a * p \in Int
      BY <1>3, <1>5
    <3> QED
      BY <1>5, <3>1
  <2>4. a * p \in Int
    BY <1>3, <1>5
  <2> QED
    BY <1>1, <1>5, <1>7, <2>2, <2>3, <2>4
<1> DEFINE w == Pow2[(Finest - k) - 1]
<1>9. w \in Nat /\ w > 0 /\ u = p * (2 * w)
  <2>1. /\ Finest \in 0..MaxPower /\ Finest - k \in 1..MaxPower /\ (Finest - k) - 1 \in 0..MaxPower
        /\ k <= Finest
    BY <1>5, <1>8, MaxPowerAssumption DEF MaxPower
  <2>2. Pow2[Finest - k] = 2 * w /\ w \in Nat /\ w > 0
    BY <2>1, Powers
  <2>3. u = Pow2[k] * Pow2[Finest - k]
    BY <1>1, <1>5, <2>1, Powers
  <2> QED
    BY <2>2, <2>3
<1> HIDE DEF w, p
<1>10. f \in Int /\ f = m * p
  BY <1>4, <1>5 DEF p
<1> HIDE DEF f
<1>11. n \in Int /\ 2 * Abs(n * u - m * p) <= u
  BY <1>10, RoundedHalf DEF u
<1> HIDE DEF n
<1>12. t \in {-1, 1} /\ s = t * a /\ (t = 1 \/ t = -1)
  BY DEF Sign, Abs
<1> HIDE DEF t
<1> DEFINE E == t * D
<1>13. E \in Int /\ Abs(t) = 1
  BY <1>12 DEF Abs
<1>14. 2 * Abs(m * (a * p) - E * u) <= a * p
  <2>1. a * p \in Nat /\ s * p = t * (a * p)
    BY <1>3, <1>5, <1>12
  <2> DEFINE q == a * p
             z == m * q - E * u
  <2>2. z \in Int /\ m * (t * q) - D * u = t * z /\ q \in Nat
    <3>1. q \in Nat
      BY <2>1
    <3> HIDE DEF q
    <3>2. CASE t = 1
      BY <1>1, <1>13, <3>1, <3>2
    <3>3. CASE t = -1
      BY <1>1, <1>13, <3>1, <3>3
    <3> QED
      BY <1>12, <3>1, <3>2, <3>3
  <2>3. Abs(s * p) = q
    <3> HIDE DEF q
    <3>1. Abs(t * q) = q
      BY <1>12, <2>2 DEF Abs
    <3> QED
      BY <2>1, <3>1 DEF q
  <2>4. 2 * Abs(m * (s * p) - D * u) <= q
    BY <1>4, <2>3 DEF p
  <2>5. 2 * Abs(t * z) <= q
    BY <2>1, <2>2, <2>4
  <2>6. Abs(t * z) = Abs(z)
    <3> HIDE DEF z
    <3> QED
      BY <1>12, <2>2 DEF Abs
  <2> QED
    BY <2>5, <2>6
<1>15. 2 * Abs(n * a - E) <= a
  <2>1. a < 2 * w
    <3> HIDE DEF a
    <3>1. a * p < (2 * w) * p
      BY <1>5, <1>7, <1>9
    <3> QED
      BY <1>3, <1>5, <1>9, <3>1, Cancel
  <2> HIDE DEF a, E
  <2>2. 2 * Abs(m * (a * p) - E * (p * (2 * w))) <= a * p
    BY <1>9, <1>14
  <2>3. 2 * Abs(n * (p * (2 * w)) - m * p) <= p * (2 * w)
    BY <1>9, <1>11
  <2> QED
    BY <1>3, <1>5, <1>9, <1>11, <1>13, <2>1, <2>2, <2>3, QuotientArithmetic
<1>16. 2 * Abs(n * s - D) <= Abs(s)
  <2>1. n * s - D = t * (n * a - E)
    <3> HIDE DEF a
    <3>1. CASE t = 1
      BY <1>3, <1>11, <1>12, <3>1
    <3>2. CASE t = -1
      BY <1>3, <1>11, <1>12, <3>2
    <3> QED
      BY <1>12, <3>1, <3>2
  <2> DEFINE z == n * a - E
  <2>2. z \in Int
    BY <1>3, <1>11, <1>13
  <2> HIDE DEF z
  <2>3. Abs(t * z) = Abs(z)
    BY <1>12, <2>2 DEF Abs
  <2> QED
    BY <1>15, <2>1, <2>3 DEF z
<1>17. D = 0 => f = 0
  <2>1. SUFFICES ASSUME D = 0 PROVE m = 0
    BY <1>5, <1>10
  <2>2. a * p \in Nat /\ a * p > 0 /\ E = 0
    BY <1>3, <1>5, <1>12, <2>1
  <2> DEFINE q == a * p
  <2> HIDE DEF q, a, E
  <2>3. 2 * Abs(m * q - 0 * q) <= q
    <3>1. E * u = 0 /\ 0 * q = 0
      BY <1>1, <2>2 DEF q
    <3> QED
      BY <1>14, <3>1 DEF q
  <2>4. q \in Nat /\ q > 0 /\ m \in Int /\ 0 \in Int
    BY <1>4, <2>2 DEF q
  <2> HIDE DEF f, n
  <2> QED
    BY <2>3, <2>4, NearMultiple
<1> QED
  BY <1>10, <1>11, <1>16, <1>17 DEF f, n, u

\* The ends of a type.
LEMMA Ends ==
    ASSUME NEW e, NEW k \in 1..4
    PROVE  /\ Highest(e, 4) \in Nat /\ Highest(e, k) \in Nat /\ Lowest(e, k) \in Int
           /\ Highest(e, k) <= Highest(e, 4)
           /\ Lowest(e, 4) <= 0
           /\ Abs(Highest(e, 4)) < Pow2[Mantissa + Coarsest]
<1> DEFINE N(i) == Numbers(i)
<1>1. \A i \in 0..4 : N(i) \in Nat /\ N(i) > 0
  BY NumbersOfWords
<1>2. N(k) <= N(4) /\ N(4) <= Pow2[Mantissa + Coarsest] /\ 2 <= N(k)
      /\ Pow2[Mantissa + Coarsest] \in Nat
  <2>1. /\ k * WordBits \in 0..MaxPower /\ 4 * WordBits \in 0..MaxPower
        /\ Mantissa + Coarsest \in 0..MaxPower
        /\ k * WordBits <= 4 * WordBits /\ 4 * WordBits <= Mantissa + Coarsest
        /\ 1 <= k * WordBits /\ 1 \in 1..MaxPower /\ 1 - 1 = 0
    <3>1. CASE k = 1
      BY <3>1, MaxPowerAssumption DEF MaxPower
    <3>2. CASE k = 2
      BY <3>2, MaxPowerAssumption DEF MaxPower
    <3>3. CASE k = 3
      BY <3>3, MaxPowerAssumption DEF MaxPower
    <3>4. CASE k = 4
      BY <3>4, MaxPowerAssumption DEF MaxPower
    <3> QED
      BY <3>1, <3>2, <3>3, <3>4
  <2>2. Pow2[1] = 2
    BY <2>1, Powers
  <2>3. 1 \in 0..MaxPower
    BY <2>1
  <2> QED
    BY <2>1, <2>2, <2>3, Powers DEF Numbers
<1> DEFINE h(i) == N(i) \div 2
<1>3. h(k) \in Nat /\ h(4) \in Nat /\ h(k) >= 1 /\ h(k) <= h(4) /\ h(4) <= N(4)
  <2> DEFINE x == N(k)
             y == N(4)
  <2>1. x \in Nat /\ y \in Nat /\ 2 <= x /\ x <= y
    BY <1>1, <1>2
  <2> HIDE DEF x, y
  <2>2. /\ x \div 2 \in Nat /\ y \div 2 \in Nat
        /\ x \div 2 >= 1 /\ x \div 2 <= y \div 2 /\ y \div 2 <= y
    BY <2>1
  <2> QED
    BY <2>2 DEF x, y
<1>4. CASE IsSigned(e.type)
  <2>1. /\ Highest(e, 4) = h(4) - 1 /\ Highest(e, k) = h(k) - 1
        /\ Lowest(e, k) = -h(k) /\ Lowest(e, 4) = -h(4)
    BY <1>4 DEF Highest, Lowest
  <2> HIDE DEF h, N
  <2>2. N(4) \in Nat
    BY <1>1
  <2> QED
    BY <1>2, <1>3, <2>1, <2>2 DEF Abs
<1>5. CASE ~IsSigned(e.type)
  <2>1. Highest(e, 4) = N(4) - 1 /\ Highest(e, k) = N(k) - 1 /\ Lowest(e, k) = 0 /\ Lowest(e, 4) = 0
    BY <1>5 DEF Highest, Lowest
  <2>2. N(4) \in Nat /\ N(k) \in Nat
    BY <1>1
  <2> HIDE DEF h, N
  <2> QED
    BY <1>2, <2>1, <2>2 DEF Abs
<1> QED
  BY <1>4, <1>5

-----------------------------------------------------------------------------
(* A client's value on its way to the registers and back                   *)

\* Two halves of 2^Mantissa.
LEMMA HalfPower ==
    /\ Pow2[Mantissa] = 2 * Pow2[Mantissa - 1]
    /\ Pow2[Mantissa - 1] \in Nat /\ Pow2[Mantissa - 1] > 0
<1>1. Mantissa \in 1..MaxPower /\ Mantissa - 1 \in 0..MaxPower
  BY MaxPowerAssumption DEF MaxPower
<1> QED
  BY <1>1, Powers

\* Multiples of a unit compare and add as their counts.
LEMMA Units ==
    ASSUME NEW x \in Int, NEW y \in Int
    PROVE  /\ x * Unit \in Int
           /\ x * Unit = y * Unit => x = y
           /\ x * Unit <= y * Unit => x <= y
           /\ x * Unit - y * Unit = (x - y) * Unit
           /\ x * Unit + y * Unit = (x + y) * Unit
           /\ -(x * Unit) = (-x) * Unit
           /\ Abs(x * Unit - y * Unit) = Abs(x - y) * Unit
<1> DEFINE u == Unit
<1>1. u \in Int /\ u > 0
  BY Powers
<1> HIDE DEF u
<1>2. \A i, j \in Int : /\ (i - j) * u = i * u - j * u /\ (i + j) * u = i * u + j * u
                        /\ (-i) * u = -(i * u) /\ i * u \in Int
  BY <1>1
<1>3. \A i, j \in Int : i * u <= j * u => i <= j
  BY <1>1, Cancel
<1>4. x * u = y * u => x = y
  <2>1. SUFFICES ASSUME x * u = y * u PROVE x = y
    OBVIOUS
  <2>2. x * u <= y * u /\ y * u <= x * u
    BY <1>2, <2>1
  <2>3. x <= y /\ y <= x
    BY <1>3, <2>2
  <2> QED
    BY <2>3
<1>5. Abs((x - y) * u) = Abs(x - y) * u
  <2>1. Abs(u) = u /\ x - y \in Int
    BY <1>1, AbsFacts
  <2> QED
    BY <1>1, <2>1, AbsFacts
<1> QED
  BY <1>2, <1>3, <1>4, <1>5 DEF u

\* A number doubles hold exactly is not clipped.
LEMMA NotClipped ==
    ASSUME NEW e, NEW n \in Int, Abs(n) < Pow2[Mantissa], ~OutOfRange(n, e)
    PROVE  Saturated(n, e) = n
<1> DEFINE h == Highest(e, 4)
<1>1. h \in Nat /\ h \in Int /\ 4 \in 1..4
  BY Ends
<1> HIDE DEF h
<1>2. n * Unit <= FromInt(h)
  <2>1. FromInt(h) \in Int /\ n * Unit \in Int
    <3>1. Finite(h * Unit, 1)
      BY <1>1, Ends, SmallFinite DEF h
    <3>2. PICK j \in Int : FromInt(h) = j * Unit
      BY <1>1, <3>1, FromIntWhole
    <3> QED
      BY <3>2, Units
  <2> QED
    BY <2>1 DEF OutOfRange, h
<1>3. n <= h
  <2>1. CASE Abs(h) < Pow2[Mantissa]
    <3>1. FromInt(h) = h * Unit
      BY <1>1, <2>1, ExactInt
    <3> QED
      BY <1>1, <1>2, <3>1, Units
  <2>2. CASE ~(Abs(h) < Pow2[Mantissa])
    <3>1. Abs(h) = h /\ n <= Abs(n) /\ Abs(n) \in Nat
      BY <1>1, AbsFacts
    <3> QED
      BY <1>1, <2>2, <3>1, HalfPower
  <2> QED
    BY <2>1, <2>2
<1> QED
  BY <1>1, <1>3 DEF Saturated, h

\* What a double loses of an untransformed value, and what clipping adds.
LEMMA NativeWrite ==
    ASSUME NEW e, Width(e) \in 1..4, NEW v \in Int, Finite(v * Unit, 1),
           ~OutOfRange(Rounded(FromInt(v)), e)
    PROVE  LET n == Saturated(Rounded(FromInt(v)), e)
           IN  /\ n \in Int
               /\ FromInt(v) = v * Unit /\ Fits(v, e) => n = v
               /\ Abs(n - v) * Pow2[Mantissa - 1] <= Abs(v)
<1> DEFINE h == Highest(e, 4)
           b == Pow2[Mantissa - 1]
           n == Saturated(Rounded(FromInt(v)), e)
<1>1. h \in Nat /\ h \in Int /\ 4 \in 1..4
  BY Ends
<1>2. b \in Nat /\ b > 0
  BY HalfPower
<1>3. PICK j \in Int : FromInt(v) = j * Unit /\ Abs(j - v) * (2 * b) <= Abs(v)
  BY FromIntWhole
<1>4. PICK g \in Int : FromInt(h) = g * Unit /\ Abs(g - h) * (2 * b) <= Abs(h)
  <2>1. Finite(h * Unit, 1)
    BY <1>1, Ends, SmallFinite
  <2> HIDE DEF h
  <2> QED
    BY <1>1, <2>1, FromIntWhole
<1>5. n = IF j > h THEN h ELSE j
  BY <1>3, RoundedWhole DEF Saturated
<1> HIDE DEF h, b, n
<1>6. j <= g
  <2>1. Rounded(FromInt(v)) = j
    BY <1>3, RoundedWhole
  <2>2. j * Unit \in Int /\ g * Unit \in Int
    BY Units
  <2>3. j * Unit <= g * Unit
    BY <1>4, <2>1, <2>2 DEF OutOfRange, h
  <2> QED
    BY <2>3, Units
<1>7. FromInt(v) = v * Unit /\ Fits(v, e) => n = v
  <2>1. SUFFICES ASSUME FromInt(v) = v * Unit, Fits(v, e) PROVE n = v
    OBVIOUS
  <2>2. j = v
    BY <1>3, <2>1, Units
  <2>3. v <= h
    <3>1. Highest(e, Width(e)) \in Nat /\ Highest(e, Width(e)) <= h /\ Lowest(e, Width(e)) \in Int
      BY Ends DEF h
    <3>2. v \in Lowest(e, Width(e))..Highest(e, Width(e))
      BY <2>1 DEF Fits
    <3> QED
      BY <1>1, <3>1, <3>2
  <2> QED
    BY <1>1, <1>5, <2>2, <2>3
<1>8. Abs(n - v) * b <= Abs(v)
  <2>1. \A x, y \in Int : (x + y) * b = x * b + y * b /\ x * b \in Int /\ x * (2 * b) = 2 * (x * b)
    BY <1>2
  <2>2. \A x, y \in Int : x <= y => x * b <= y * b
    <3>1. SUFFICES ASSUME NEW x \in Int, NEW y \in Int, x <= y PROVE x * b <= y * b
      OBVIOUS
    <3>2. y - x \in Nat /\ (y - x) + x = y
      BY <3>1
    <3>3. (y - x) * b \in Nat
      BY <1>2, <3>2
    <3>4. ((y - x) + x) * b = (y - x) * b + x * b /\ x * b \in Int
      <4> DEFINE z == y - x
      <4>1. z \in Int /\ x \in Int
        BY <3>1
      <4> HIDE DEF z
      <4>2. (z + x) * b = z * b + x * b /\ x * b \in Int
        BY <2>1, <4>1
      <4> QED
        BY <4>2 DEF z
    <3>5. y * b = (y - x) * b + x * b
      BY <3>2, <3>4
    <3> QED
      BY <3>3, <3>4, <3>5
  <2>3. /\ Abs(v) \in Nat /\ Abs(n - v) \in Nat /\ Abs(j - v) \in Nat /\ Abs(g - h) \in Nat
        /\ n \in Int /\ Abs(h) = h
    BY <1>1, <1>5 DEF Abs
  <2>4. 2 * (Abs(j - v) * b) <= Abs(v) /\ 2 * (Abs(g - h) * b) <= h
    BY <1>3, <1>4, <2>1, <2>3
  <2>5. Abs(j - v) * b \in Nat /\ Abs(g - h) * b \in Nat /\ Abs(n - v) * b \in Nat
    BY <1>2, <2>3
  <2>6. CASE j <= h
    <3>1. n = j
      BY <1>1, <1>5, <2>6
    <3> QED
      BY <2>3, <2>4, <2>5, <3>1
  <2>7. CASE j > h /\ v <= h
    <3>1. n = h /\ Abs(n - v) <= Abs(j - v)
      BY <1>1, <1>5, <2>7 DEF Abs
    <3>2. Abs(n - v) * b <= Abs(j - v) * b
      BY <2>2, <2>3, <3>1
    <3> QED
      BY <2>3, <2>4, <2>5, <3>2
  <2>8. CASE j > h /\ v > h
    <3>1. n = h /\ Abs(n - v) <= Abs(j - v) + Abs(g - h)
      BY <1>1, <1>5, <1>6, <2>8 DEF Abs
    <3>2. Abs(n - v) * b <= Abs(j - v) * b + Abs(g - h) * b
      <4>1. Abs(j - v) + Abs(g - h) \in Int
        BY <2>3
      <4>2. Abs(n - v) * b <= (Abs(j - v) + Abs(g - h)) * b
        BY <2>2, <2>3, <3>1, <4>1
      <4> QED
        BY <2>1, <2>3, <4>2
    <3>3. h <= Abs(v)
      BY <1>1, <2>8 DEF Abs
    <3> QED
      BY <1>1, <2>3, <2>4, <2>5, <3>2, <3>3
  <2> QED
    BY <1>1, <2>6, <2>7, <2>8
<1>9. n \in Int
  BY <1>1, <1>5
<1> QED
  BY <1>7, <1>8, <1>9 DEF n, b

\* What a number of a linearly transformed tag stands for, as long as doubles hold it exactly.
LEMMA ApplyLinear ==
    ASSUME NEW e, e.formula = None, e.scale \in Int, e.offset \in Int, NEW n \in Int,
           Abs(n) < Pow2[Mantissa], Abs(n * e.scale) < Pow2[Mantissa],
           Abs(n * e.scale + e.offset) < Pow2[Mantissa]
    PROVE  Apply(e, n) = (n * e.scale + e.offset) * Unit
<1> DEFINE s == e.scale
           o == e.offset
           u == Unit
<1>1. s \in Int /\ o \in Int /\ u \in Int /\ n * s \in Int /\ n * s + o \in Int
  BY Powers
<1>2. e.formula # "minus"
  BY NoneAssumption
<1>3. CASE Native(e)
  <2>1. n * s + o = n
    BY <1>3 DEF Native
  <2> QED
    BY <1>2, <1>3, <2>1 DEF Apply
<1>4. CASE ~Native(e)
  <2>1. Apply(e, n) = Double(Double(FromInt(n) * s, 1) + o * u, 1)
    BY <1>2, <1>4 DEF Apply
  <2> DEFINE y == n * s
  <2>2. FromInt(n) * s = y * u
    <3>1. FromInt(n) = n * u
      BY ExactInt
    <3> HIDE DEF s, u
    <3> QED
      BY <1>1, <3>1
  <2>3. Abs(y) < Pow2[Mantissa] /\ Abs(y + o) < Pow2[Mantissa] /\ y \in Int /\ y + o \in Int
    BY <1>1
  <2> HIDE DEF y, s, o, u
  <2>4. Double(y * u, 1) = y * u
    BY <2>3, ExactInt DEF FromInt, u
  <2>5. y * u + o * u = (y + o) * u
    BY <1>1, <2>3, Units DEF u
  <2>6. Double((y + o) * u, 1) = (y + o) * u
    BY <2>3, ExactInt DEF FromInt, u
  <2> QED
    BY <2>1, <2>2, <2>4, <2>5, <2>6 DEF y, s, o, u
<1> QED
  BY <1>3, <1>4

\* What the value of a linearly transformed tag becomes on the way to its registers.
LEMMA LinearRaw ==
    ASSUME NEW e, e.inverse = None, ~Native(e), e.scale \in Int, e.offset \in Int,
           NEW v \in Int, RawFinite(e, v), Carried(e, v)
    PROVE  LET n == Rounded(RawOf(e, v))
               D == v - e.offset
           IN  /\ e.scale # 0 /\ RawOf(e, v) \in Int /\ n \in Int
               /\ 2 * Abs(n * e.scale - D) <= Abs(e.scale)
               /\ D = 0 => RawOf(e, v) = 0
               /\ Abs(D) + Abs(e.scale) < Pow2[Mantissa - 1]
<1> DEFINE s == e.scale
           o == e.offset
           u == Unit
           D == v - o
           b == Pow2[Mantissa - 1]
<1>1. s \in Int /\ o \in Int /\ D \in Int /\ e.inverse # "minus"
  BY NoneAssumption
<1>2. /\ b \in Nat /\ b > 0 /\ Pow2[Mantissa] = 2 * b
      /\ Abs(v) + Abs(o) + Abs(s) < b
  BY HalfPower DEF Carried
<1>3. Abs(D) + Abs(s) < b /\ Abs(D) < 2 * b /\ Abs(v) < 2 * b
  <2> HIDE DEF b, s, o
  <2>1. Abs(v) \in Nat /\ Abs(o) \in Nat /\ Abs(s) \in Nat /\ Abs(D) \in Nat
        /\ Abs(D) <= Abs(v) + Abs(o)
    BY <1>1 DEF Abs
  <2> QED
    BY <1>2, <2>1
<1>4. Shifted(e, v) = D * u
  <2>1. FromInt(v) = v * u
    BY <1>2, <1>3, ExactInt
  <2>2. Shifted(e, v) = FromInt(v) - o * u
    BY DEF Shifted
  <2> HIDE DEF o
  <2>3. v * u - o * u = (v - o) * u
    BY <1>1, Units
  <2> QED
    BY <2>1, <2>2, <2>3
<1>5. Double(D * u, 1) = D * u
  <2> HIDE DEF D, b
  <2> QED
    BY <1>1, <1>2, <1>3, ExactInt DEF FromInt
<1>6. Finite(D * u, s) /\ RawOf(e, v) = Double(D * u, s)
  <2> HIDE DEF D, u
  <2> QED
    BY <1>1, <1>4, <1>5 DEF RawFinite, RawOf
<1>7. s # 0
  <2>1. SUFFICES ASSUME s = 0 PROVE FALSE
    OBVIOUS
  <2>2. D * u \in Int
    BY <1>1, Units
  <2>3. Mantissa + (Finest + Coarsest) \in 0..MaxPower
    BY MaxPowerAssumption DEF MaxPower
  <2> DEFINE P == Pow2[Mantissa + (Finest + Coarsest)]
             x == D * u
  <2>4. P \in Nat
    BY <2>3, Powers
  <2>5. Abs(x) < P * Abs(s)
    BY <1>6 DEF Finite, Reaches
  <2> HIDE DEF P, x, D, u
  <2>6. Abs(x) \in Nat /\ Abs(s) = 0
    BY <2>1, <2>2, AbsFacts DEF x
  <2> QED
    BY <2>4, <2>5, <2>6
<1> HIDE DEF D, b, u, s, o
<1>8. LET n == Rounded(Double(D * Unit, s))
      IN  /\ Double(D * Unit, s) \in Int /\ n \in Int
          /\ 2 * Abs(n * s - D) <= Abs(s)
          /\ D = 0 => Double(D * Unit, s) = 0
  BY <1>1, <1>3, <1>6, <1>7, QuotientRounds DEF b, u
<1> QED
  BY <1>3, <1>6, <1>7, <1>8 DEF D, b, u, s, o

\* A carried value, rounded, transforms back exactly.
LEMMA LinearBack ==
    ASSUME NEW e, e.formula = None, e.scale \in Int, e.scale # 0, e.offset \in Int,
           NEW v \in Int, Carried(e, v), NEW n \in Int,
           2 * Abs(n * e.scale - (v - e.offset)) <= Abs(e.scale)
    PROVE  /\ Abs(n) < Pow2[Mantissa]
           /\ Apply(e, n) = (n * e.scale + e.offset) * Unit
           /\ Apply(e, n) \in Int /\ Apply(e, n) - v * Unit \in Int
           /\ 2 * Abs(Apply(e, n) - v * Unit) <= Abs(e.scale) * Unit
<1> DEFINE s == e.scale
           o == e.offset
           b == Pow2[Mantissa - 1]
           y == n * s
           z == y - (v - o)
<1>1. /\ s \in Int /\ o \in Int /\ s # 0 /\ y \in Int /\ z \in Int /\ 2 * Abs(z) <= Abs(s)
      /\ Abs(v) + Abs(o) + Abs(s) < b /\ b \in Nat /\ Pow2[Mantissa] = 2 * b
  BY HalfPower DEF Carried
<1>2. Abs(n) <= Abs(y)
  <2>1. Abs(y) = Abs(n) * Abs(s)
    BY <1>1, AbsFacts
  <2>2. Abs(n) \in Nat /\ Abs(s) \in Nat /\ Abs(s) - 1 \in Nat
    BY <1>1 DEF Abs
  <2>3. \A i, j \in Nat : i * (j + 1) = i * j + i /\ i * j \in Nat
    OBVIOUS
  <2> DEFINE i == Abs(n)
             j == Abs(s) - 1
  <2>4. i \in Nat /\ j \in Nat /\ j + 1 = Abs(s)
    BY <2>2
  <2>5. Abs(y) = i * (j + 1)
    BY <2>1, <2>4
  <2> HIDE DEF i, j, y
  <2>6. i * (j + 1) = i * j + i /\ i * j \in Nat
    BY <2>3, <2>4
  <2>7. i <= Abs(y)
    BY <2>4, <2>5, <2>6
  <2> QED
    BY <2>7 DEF i
<1> HIDE DEF s, o, b
<1>3. Abs(y) < 2 * b /\ Abs(y + o) < 2 * b /\ Abs(n) < 2 * b
  <2>1. Abs(n) \in Nat /\ Abs(y) \in Nat
    BY <1>1 DEF Abs
  <2> HIDE DEF y
  <2>2. Abs(y) < 2 * b /\ Abs(y + o) < 2 * b
    BY <1>1 DEF Abs, z
  <2> QED
    BY <1>1, <1>2, <2>1, <2>2
<1>4. Apply(e, n) = (y + o) * Unit
  BY <1>1, <1>3, ApplyLinear DEF s, o
<1>5. /\ Apply(e, n) \in Int /\ v * Unit \in Int
      /\ Abs(Apply(e, n) - v * Unit) = Abs(z) * Unit
  <2>1. y + o \in Int /\ (y + o) - v = z
    BY <1>1
  <2> HIDE DEF y, z
  <2> QED
    BY <1>4, <2>1, Units
<1>6. 2 * (Abs(z) * Unit) <= Abs(s) * Unit
  <2> DEFINE i == Abs(z)
             j == Abs(s)
             u == Unit
  <2>1. i \in Nat /\ j \in Nat /\ 2 * i <= j /\ u \in Nat
    BY <1>1, Powers DEF Abs
  <2>2. (j - 2 * i) * u \in Nat
    BY <2>1
  <2>3. \A a, c, d \in Nat : (a - 2 * c) * d = a * d - 2 * (c * d)
    OBVIOUS
  <2> HIDE DEF i, j, u
  <2>4. (j - 2 * i) * u = j * u - 2 * (i * u) /\ j * u \in Int /\ i * u \in Int
    BY <2>1, <2>3
  <2>5. 2 * (i * u) <= j * u
    BY <2>2, <2>4
  <2> QED
    BY <2>5 DEF i, j, u
<1>7. Apply(e, n) - v * Unit \in Int
  BY <1>5
<1> QED
  BY <1>1, <1>3, <1>4, <1>5, <1>6, <1>7 DEF s, o, y

\* The transforms that negate.
LEMMA NegatedBack ==
    ASSUME NEW e, e.formula = "minus", NEW n \in Int, Abs(n) < Pow2[Mantissa]
    PROVE  Apply(e, n) = (-n) * Unit
<1>1. FromInt(n) = n * Unit
  BY ExactInt
<1> QED
  BY <1>1, Units DEF Apply

\* The inverse that negates, on a carried value.
LEMMA NegatedRaw ==
    ASSUME NEW e, e.inverse = "minus", e.scale \in Int, e.offset \in Int,
           NEW v \in Int, Carried(e, v)
    PROVE  RawOf(e, v) = (-v) * Unit /\ Rounded(RawOf(e, v)) = -v /\ Abs(-v) < Pow2[Mantissa]
<1> DEFINE b == Pow2[Mantissa - 1]
<1>1. Abs(v) < Pow2[Mantissa] /\ Abs(-v) = Abs(v)
  <2>1. Abs(v) \in Nat /\ Abs(e.scale) \in Nat /\ Abs(e.offset) \in Nat /\ Abs(-v) = Abs(v)
    BY DEF Abs
  <2>2. Abs(v) + Abs(e.offset) + Abs(e.scale) < b /\ b \in Nat /\ Pow2[Mantissa] = 2 * b
    BY HalfPower DEF Carried
  <2> QED
    BY <2>1, <2>2
<1>2. RawOf(e, v) = (-v) * Unit
  <2>1. FromInt(v) = v * Unit
    BY <1>1, ExactInt
  <2> QED
    BY <2>1, Units DEF RawOf
<1>3. Rounded((-v) * Unit) = -v
  <2>1. -v \in Int
    OBVIOUS
  <2> QED
    BY <2>1, RoundedWhole
<1> QED
  BY <1>1, <1>2, <1>3

-----------------------------------------------------------------------------
(* What an accepted configuration is known to be, and what resolution makes of it *)

\* No rule of a set of named rules is broken when none is named.
LEMMA NamedNone ==
    ASSUME NEW rules, Named(rules) = {}, NEW name \in DOMAIN rules
    PROVE  ~rules[name]
  BY DEF Named

\* What an accepted entry is known to be.
SoundEntry(cfg, e) ==
    /\ e.writable => Writable(e)
    /\ e.fn = "Custom" \/ IsRead(e.fn)
    /\ \E i \in DOMAIN cfg.groups : cfg.groups[i].id = e.group
    /\ IsRead(e.fn) /\ ~BitDomain(ReadArea[e.fn]) =>
          Width(e) \in 1..RegCap /\ e.address + Width(e) <= AddrSpace

\* What an entry without errors satisfies: addresses in range, a width its block can carry, a
\* writable entry with a write function (validate.rs).
LEMMA SoundEntries ==
    ASSUME NEW cfg, NEW ch, NEW e \in Entries, EntryErrors(cfg, ch, e) = {}
    PROVE  SoundEntry(cfg, e)
<1> DEFINE unknown == \A i \in DOMAIN cfg.groups : cfg.groups[i].id # e.group
           notWritable == IF e.writable THEN ~Writable(e) ELSE e.inverse # None
           badRequest == e.request # None /\ e.fn # "Custom"
           nonRead == e.fn # "Custom" /\ ~IsRead(e.fn)
           rules == [UnknownPollGroup |-> unknown, NotWritable |-> notWritable,
                     BadCustomRequest |-> badRequest, NonReadFunction |-> nonRead]
<1>1. Named(rules) = {} /\ (IsRead(e.fn) => ReadErrors(e) = {})
  BY DEF EntryErrors
<1>2. ~unknown /\ ~notWritable /\ ~nonRead
  <2> HIDE DEF unknown, notWritable, badRequest, nonRead
  <2>1. ~rules["UnknownPollGroup"] /\ ~rules["NotWritable"] /\ ~rules["NonReadFunction"]
    BY <1>1, NamedNone
  <2> QED
    BY <2>1
<1>3. ASSUME IsRead(e.fn), ~BitDomain(ReadArea[e.fn])
      PROVE  Width(e) \in 1..RegCap /\ e.address + Width(e) <= AddrSpace
  <2> DEFINE span == Width(e)
             known == span # None /\ span # 0
             a1 == ~TRUE /\ e.type # "bit"
             a2 == e.type = "bit" /\ e.bit = None
             a3 == e.bit # None /\ e.bit >= WordBits
             a4 == span = None
             a5 == span = 0
             a6 == known /\ (span > RegCap \/ span > MaxLength)
             a7 == known /\ Overflows(e, span)
             rds == [IncompatibleDataType |-> a1, MissingBitIndex |-> a2, BadBitIndex |-> a3,
                     MissingLength |-> a4, ZeroLength |-> a5, QtyExceedsCap |-> a6,
                     AddressOverflow |-> a7]
  <2>1. Named(rds) = {}
    BY <1>1, <1>3 DEF ReadErrors
  <2>2. ~a4 /\ ~a5 /\ ~a6 /\ ~a7
    <3> HIDE DEF a1, a2, a3, a4, a5, a6, a7
    <3>1. ~rds["MissingLength"] /\ ~rds["ZeroLength"] /\ ~rds["QtyExceedsCap"]
          /\ ~rds["AddressOverflow"]
      BY <2>1, NamedNone
    <3> QED
      BY <3>1
  <2>3. span \in Nat \cup {None} /\ e.address \in Nat
    BY CapsAssumption DEF Entries, Width, RegisterCount
  <2> HIDE DEF span
  <2> QED
    BY <2>2, <2>3, CapsAssumption DEF Overflows, span
<1> QED
  BY <1>2, <1>3 DEF SoundEntry

\* The places of the devices and of the entries of a configuration.
DeviceSet(cfg) ==
    UNION {{<<c, d>> : d \in DOMAIN cfg.channels[c].devices} : c \in DOMAIN cfg.channels}

EntrySet(cfg) ==
    UNION {{<<p[1], p[2], r>> : r \in DOMAIN cfg.channels[p[1]].devices[p[2]].registers} :
              p \in DeviceSet(cfg)}

\* places lists S, each element once.
Lists(places, S) ==
    /\ IsSeq(places)
    /\ \A i \in DOMAIN places : places[i] \in S
    /\ \A i, j \in DOMAIN places : places[i] = places[j] => i = j
    /\ \A x \in S : \E i \in DOMAIN places : places[i] = x

\* The shape of a configuration, level by level.
LEMMA ConfigurationParts ==
    ASSUME NEW cfg \in Configurations
    PROVE  /\ IsSeq(cfg.channels) /\ IsSeq(cfg.groups)
           /\ \A c \in DOMAIN cfg.channels :
                /\ cfg.channels[c] \in Channels
                /\ IsSeq(cfg.channels[c].devices)
                /\ \A d \in DOMAIN cfg.channels[c].devices :
                     /\ cfg.channels[c].devices[d] \in Devices
                     /\ IsSeq(cfg.channels[c].devices[d].registers)
                     /\ \A r \in DOMAIN cfg.channels[c].devices[d].registers :
                          cfg.channels[c].devices[d].registers[r] \in Entries
<1>1. cfg.channels \in Seq(Channels) /\ IsSeq(cfg.channels) /\ IsSeq(cfg.groups)
  BY SeqMember DEF Configurations
<1>2. ASSUME NEW c \in DOMAIN cfg.channels
      PROVE  cfg.channels[c] \in Channels /\ cfg.channels[c].devices \in Seq(Devices)
  <2>1. c \in 1..Len(cfg.channels)
    BY <1>1
  <2>2. cfg.channels[c] \in Channels
    BY <1>1, <2>1, ElementOfSeq
  <2> QED
    BY <2>2 DEF Channels
<1>3. ASSUME NEW c \in DOMAIN cfg.channels, NEW d \in DOMAIN cfg.channels[c].devices
      PROVE  /\ cfg.channels[c].devices[d] \in Devices
             /\ cfg.channels[c].devices[d].registers \in Seq(Entries)
  <2> DEFINE devs == cfg.channels[c].devices
  <2>1. devs \in Seq(Devices) /\ d \in 1..Len(devs)
    BY <1>2
  <2> HIDE DEF devs
  <2>2. devs[d] \in Devices
    BY <2>1, ElementOfSeq
  <2> QED
    BY <2>2 DEF Devices, devs
<1>4. ASSUME NEW c \in DOMAIN cfg.channels, NEW d \in DOMAIN cfg.channels[c].devices,
             NEW r \in DOMAIN cfg.channels[c].devices[d].registers
      PROVE  cfg.channels[c].devices[d].registers[r] \in Entries
  BY <1>3
<1> QED
  BY <1>1, <1>2, <1>3, <1>4, SeqMember

\* DevicePlaces lists every device of the file once.
LEMMA DevicePlacesList ==
    ASSUME NEW cfg \in Configurations
    PROVE  Lists(DevicePlaces(cfg), DeviceSet(cfg))
<1> DEFINE n == Len(cfg.channels)
           ss == [c \in DOMAIN cfg.channels |->
                    [d \in DOMAIN cfg.channels[c].devices |-> <<c, d>>]]
           flat == DevicePlaces(cfg)
<1>1. n \in Nat /\ DOMAIN cfg.channels = 1..n
  BY ConfigurationParts, SeqElim
<1>2. ASSUME NEW c \in 1..n
      PROVE  /\ IsSeq(ss[c]) /\ DOMAIN ss[c] = DOMAIN cfg.channels[c].devices
             /\ \A d \in DOMAIN ss[c] : ss[c][d] = <<c, d>>
  <2> DEFINE m == Len(cfg.channels[c].devices)
  <2>1. m \in Nat /\ DOMAIN cfg.channels[c].devices = 1..m
    BY <1>1, ConfigurationParts, SeqElim
  <2>2. ss[c] = [d \in 1..m |-> <<c, d>>]
    BY <1>1, <2>1
  <2> HIDE DEF ss, m
  <2>3. ss[c] = [d \in 1..m |-> ss[c][d]]
    BY <2>2
  <2> QED
    BY <2>1, <2>2, <2>3, SeqIntro
<1>3. ss = [c \in 1..n |-> ss[c]] /\ DOMAIN ss = 1..n
  BY <1>1
<1>4. flat = FlattenSeq(ss)
  BY DEF DevicePlaces
<1> HIDE DEF n, ss, flat
<1>5. IsSeq(flat) /\ \E pos : Traces(pos, flat, ss)
  BY <1>1, <1>2, <1>3, <1>4, Flattened
<1>6. PICK pos : Traces(pos, flat, ss)
  BY <1>5
<1>7. \A c : c \in Cells(ss) <=> c \in DeviceSet(cfg)
  BY <1>1, <1>2, <1>3 DEF Cells, DeviceSet
<1>8. \A i \in DOMAIN flat : flat[i] = pos[i] /\ pos[i] \in DeviceSet(cfg)
  <2>1. SUFFICES ASSUME NEW i \in DOMAIN flat
                 PROVE  flat[i] = pos[i] /\ pos[i] \in DeviceSet(cfg)
    OBVIOUS
  <2>2. pos[i] \in Cells(ss) /\ flat[i] = ss[pos[i][1]][pos[i][2]]
    BY <1>6 DEF Traces
  <2>3. PICK a \in DOMAIN ss : \E b \in DOMAIN ss[a] : pos[i] = <<a, b>>
    BY <2>2, CellsDef
  <2> QED
    BY <1>2, <1>3, <1>7, <2>2, <2>3
<1> QED
  BY <1>5, <1>6, <1>7, <1>8 DEF Lists, Traces, flat

\* EntryPlaces lists every register entry of the file once: a tag is a place.
LEMMA EntryPlacesList ==
    ASSUME NEW cfg \in Configurations
    PROVE  Lists(EntryPlaces(cfg), EntrySet(cfg))
<1> DEFINE places == DevicePlaces(cfg)
           n == Len(places)
           Regs(i) == cfg.channels[places[i][1]].devices[places[i][2]].registers
           ss == [i \in DOMAIN places |->
                    [r \in DOMAIN Regs(i) |-> <<places[i][1], places[i][2], r>>]]
           flat == EntryPlaces(cfg)
<1>1. /\ n \in Nat /\ DOMAIN places = 1..n
      /\ \A i \in 1..n : places[i] \in DeviceSet(cfg)
      /\ \A i, j \in 1..n : places[i] = places[j] => i = j
      /\ \A x \in DeviceSet(cfg) : \E i \in 1..n : places[i] = x
  BY DevicePlacesList, SeqElim DEF Lists
<1>2. \A i \in 1..n : IsSeq(Regs(i)) /\ places[i] = <<places[i][1], places[i][2]>>
  BY <1>1, ConfigurationParts DEF DeviceSet
<1>3. flat = FlattenSeq(ss)
  BY DEF EntryPlaces
<1> HIDE DEF Regs, places, n
<1>4. ASSUME NEW i \in 1..n
      PROVE  /\ IsSeq(ss[i]) /\ DOMAIN ss[i] = DOMAIN Regs(i)
             /\ \A r \in DOMAIN ss[i] : ss[i][r] = <<places[i][1], places[i][2], r>>
  <2> DEFINE m == Len(Regs(i))
  <2>1. m \in Nat /\ DOMAIN Regs(i) = 1..m
    BY <1>2, SeqElim
  <2>2. ss[i] = [r \in 1..m |-> <<places[i][1], places[i][2], r>>]
    BY <1>1, <2>1
  <2> HIDE DEF ss, m
  <2>3. ss[i] = [d \in 1..m |-> ss[i][d]]
    BY <2>2
  <2> QED
    BY <2>1, <2>2, <2>3, SeqIntro
<1>5. ss = [i \in 1..n |-> ss[i]] /\ DOMAIN ss = 1..n
  BY <1>1
<1> HIDE DEF ss, flat
<1>6. IsSeq(flat) /\ \E pos : Traces(pos, flat, ss)
  BY <1>1, <1>3, <1>4, <1>5, Flattened
<1>7. PICK pos : Traces(pos, flat, ss)
  BY <1>6
<1>8. ASSUME NEW i \in DOMAIN flat
      PROVE  /\ pos[i][1] \in 1..n /\ pos[i][2] \in DOMAIN Regs(pos[i][1])
             /\ pos[i] = <<pos[i][1], pos[i][2]>>
             /\ flat[i] = <<places[pos[i][1]][1], places[pos[i][1]][2], pos[i][2]>>
  <2>1. pos[i] \in Cells(ss) /\ flat[i] = ss[pos[i][1]][pos[i][2]]
    BY <1>7 DEF Traces
  <2>2. PICK a \in DOMAIN ss : \E b \in DOMAIN ss[a] : pos[i] = <<a, b>>
    BY <2>1, CellsDef
  <2> QED
    BY <1>4, <1>5, <2>1, <2>2
<1>9. ASSUME NEW i \in DOMAIN flat PROVE flat[i] \in EntrySet(cfg)
  <2> DEFINE p == places[pos[i][1]]
             r == pos[i][2]
  <2>1. p \in DeviceSet(cfg) /\ flat[i] = <<p[1], p[2], r>>
    BY <1>1, <1>8
  <2>2. r \in DOMAIN cfg.channels[p[1]].devices[p[2]].registers
    BY <1>8 DEF Regs
  <2> HIDE DEF p, r
  <2> QED
    BY <2>1, <2>2 DEF EntrySet
<1>10. ASSUME NEW i \in DOMAIN flat, NEW j \in DOMAIN flat, flat[i] = flat[j] PROVE i = j
  <2>1. places[pos[i][1]] = places[pos[j][1]] /\ pos[i][2] = pos[j][2]
    BY <1>2, <1>8, <1>10
  <2>2. pos[i] = pos[j]
    BY <1>1, <1>8, <2>1
  <2> QED
    BY <1>7, <2>2 DEF Traces
<1>11. ASSUME NEW x \in EntrySet(cfg) PROVE \E i \in DOMAIN flat : flat[i] = x
  <2>1. PICK p \in DeviceSet(cfg) :
           \E r \in DOMAIN cfg.channels[p[1]].devices[p[2]].registers : x = <<p[1], p[2], r>>
    BY DEF EntrySet
  <2>2. PICK a \in 1..n : places[a] = p
    BY <1>1, <2>1
  <2>3. PICK r \in DOMAIN Regs(a) : x = <<p[1], p[2], r>>
    BY <2>1, <2>2 DEF Regs
  <2>4. <<a, r>> \in Cells(ss)
    BY <1>4, <1>5, <2>3, CellsDef
  <2>5. PICK i \in DOMAIN flat : pos[i] = <<a, r>>
    BY <1>7, <2>4 DEF Traces
  <2> QED
    BY <1>8, <2>2, <2>3, <2>5
<1> QED
  BY <1>6, <1>9, <1>10, <1>11 DEF Lists, flat

\* Through with an ascending list of positions keeps those elements, in order, each once.
LEMMA KeptPositions ==
    ASSUME NEW s, IsSeq(s), NEW at \in SUBSET DOMAIN s
    PROVE  LET L == Ascending(at)
               n == Cardinality(at)
               t == Through(s, L)
           IN  /\ n \in Nat /\ IsSeq(t) /\ Len(t) = n /\ DOMAIN t = 1..n
               /\ \A i \in 1..n : L[i] \in at /\ t[i] = s[L[i]]
               /\ \A i, j \in 1..n : L[i] = L[j] => i = j
               /\ \A x \in at : \E i \in 1..n : L[i] = x
               /\ \A i, j \in 1..n : i < j => L[i] < L[j]
<1> DEFINE L == Ascending(at)
           n == Cardinality(at)
           t == Through(s, L)
<1>1. IsFiniteSet(at) /\ at \in SUBSET Int
  <2>1. Len(s) \in Nat /\ DOMAIN s = 1..Len(s)
    BY SeqElim
  <2>2. IsFiniteSet(1..Len(s))
    BY <2>1, FS_Interval
  <2> QED
    BY <2>1, <2>2, FS_Subset
<1>2. /\ n \in Nat
      /\ L \in [1..n -> at]
      /\ \A i, j \in 1..n : L[i] = L[j] => i = j
      /\ \A x \in at : \E i \in 1..n : L[i] = x
      /\ \A i, j \in 1..n : i < j => L[i] < L[j]
  BY <1>1, AscendingOrder
<1> HIDE DEF L, n
<1>3. t = [i \in 1..n |-> s[L[i]]]
  BY <1>2 DEF Through
<1> HIDE DEF t
<1>4. t = [i \in 1..n |-> t[i]] /\ DOMAIN t = 1..n /\ \A i \in 1..n : t[i] = s[L[i]]
  BY <1>3
<1>5. IsSeq(t) /\ Len(t) = n
  BY <1>2, <1>4, SeqIntro
<1>6. \A i \in 1..n : L[i] \in at
  BY <1>2
<1> QED
  BY <1>2, <1>4, <1>5, <1>6 DEF L, n, t

\* Every element Enabled keeps is an enabled element of the list.
LEMMA EnabledParts ==
    ASSUME NEW s, IsSeq(s)
    PROVE  /\ IsSeq(Enabled(s))
           /\ \A i \in DOMAIN Enabled(s) :
                 \E j \in DOMAIN s : s[j].enabled /\ Enabled(s)[i] = s[j]
<1> DEFINE at == {i \in DOMAIN s : s[i].enabled}
           L == Ascending(at)
<1>1. at \in SUBSET DOMAIN s
  OBVIOUS
<1>2. Enabled(s) = Through(s, L)
  BY DEF Enabled
<1> HIDE DEF at
<1>3. /\ IsSeq(Through(s, L)) /\ DOMAIN Through(s, L) = 1..Cardinality(at)
      /\ \A i \in 1..Cardinality(at) : L[i] \in at /\ Through(s, L)[i] = s[L[i]]
  BY <1>1, KeptPositions
<1> HIDE DEF L
<1> QED
  BY <1>2, <1>3 DEF at

\* What acceptance gives: poll groups have distinct names and every entry is sound.
LEMMA AcceptedParts ==
    ASSUME NEW cfg \in Configurations, Errors(cfg) = {}
    PROVE  /\ \A i, j \in DOMAIN cfg.groups : cfg.groups[i].id = cfg.groups[j].id => i = j
           /\ \A c \in DOMAIN cfg.channels : \A d \in DOMAIN cfg.channels[c].devices :
                 \A r \in DOMAIN cfg.channels[c].devices[d].registers :
                    SoundEntry(cfg, cfg.channels[c].devices[d].registers[r])
<1> DEFINE places == EntryPlaces(cfg)
           devices == DevicePlaces(cfg)
           ids == Ids(cfg.groups)
           u1 == Unique(Ids(cfg.channels))
           u2 == Unique(ids)
           u3 == Unique([i \in DOMAIN devices |->
                           cfg.channels[devices[i][1]].devices[devices[i][2]].id])
           u4 == Unique([i \in DOMAIN places |-> EntryAt(cfg, places[i]).tag])
           duplicate == ~u1 \/ ~u2 \/ ~u3 \/ ~u4
           period == \E i \in DOMAIN cfg.groups : cfg.groups[i].period = 0
           Folder(p) == "dev:" \o cfg.channels[p[1]].devices[p[2]].id
           collision == \E i \in DOMAIN places, j \in DOMAIN devices :
                           EntryAt(cfg, places[i]).tag = Folder(devices[j])
           rules == [DuplicateId |-> duplicate, BadPollPeriod |-> period,
                     TagFolderCollision |-> collision]
           Errs(p) == EntryErrors(cfg, cfg.channels[p[1]], EntryAt(cfg, p))
<1>1. /\ Named(rules) = {}
      /\ \A p \in {places[i] : i \in DOMAIN places} : Errs(p) = {}
  <2> DEFINE X == UNION {ChannelErrors(cfg.channels[c]) : c \in DOMAIN cfg.channels}
             Q == {places[i] : i \in DOMAIN places}
             Y == UNION {Errs(p) : p \in Q}
             Z == Named(rules)
  <2>1. Errors(cfg) = (Z \cup X) \cup Y
    BY DEF Errors
  <2> HIDE DEF Z, X, Q, Errs, places
  <2>2. Z = {} /\ Y = {}
    <3> HIDE DEF Y
    <3> QED
      BY <2>1
  <2>3. ASSUME NEW p \in Q PROVE Errs(p) = {}
    BY <2>2
  <2> QED
    BY <2>2, <2>3 DEF Z, Q
<1>2. \A i, j \in DOMAIN cfg.groups : cfg.groups[i].id = cfg.groups[j].id => i = j
  <2>1. ~duplicate
    <3> HIDE DEF duplicate, period, collision
    <3>1. ~rules["DuplicateId"]
      BY <1>1, NamedNone
    <3> QED
      BY <3>1
  <2>2. u2
    <3> HIDE DEF u1, u2, u3, u4
    <3> QED
      BY <2>1
  <2> QED
    BY <2>2 DEF Unique, IsInjective, Ids
<1> HIDE DEF rules, places
<1>3. ASSUME NEW c \in DOMAIN cfg.channels, NEW d \in DOMAIN cfg.channels[c].devices,
             NEW r \in DOMAIN cfg.channels[c].devices[d].registers
      PROVE  SoundEntry(cfg, cfg.channels[c].devices[d].registers[r])
  <2> DEFINE p == <<c, d, r>>
             e == cfg.channels[c].devices[d].registers[r]
  <2>1. <<c, d>> \in DeviceSet(cfg)
    BY DEF DeviceSet
  <2>2. p \in EntrySet(cfg)
    BY <2>1 DEF EntrySet
  <2>3. PICK i \in DOMAIN places : places[i] = p
    BY <2>2, EntryPlacesList DEF Lists, places
  <2>4. EntryAt(cfg, p) = e /\ p[1] = c
    BY DEF EntryAt
  <2>5. Errs(p) = {}
    <3> HIDE DEF Errs, p
    <3> QED
      BY <1>1, <2>3
  <2>6. EntryErrors(cfg, cfg.channels[c], e) = {}
    BY <2>4, <2>5
  <2>7. e \in Entries
    BY ConfigurationParts
  <2> HIDE DEF e
  <2> QED
    BY <2>6, <2>7, SoundEntries DEF e
<1> QED
  BY <1>2, <1>3

\* The tag and the poll group resolution gives an entry.
TagAt(cfg, p) == CHOOSE i \in DOMAIN EntryPlaces(cfg) : EntryPlaces(cfg)[i] = p
GroupNamed(cfg, name) == CHOOSE i \in DOMAIN cfg.groups : cfg.groups[i].id = name

\* The tag of a place is the one position at which the place is listed.
LEMMA TagOfPlace ==
    ASSUME NEW cfg \in Configurations, NEW p \in EntrySet(cfg)
    PROVE  /\ TagAt(cfg, p) \in DOMAIN EntryPlaces(cfg)
           /\ EntryPlaces(cfg)[TagAt(cfg, p)] = p
           /\ \A i \in DOMAIN EntryPlaces(cfg) : EntryPlaces(cfg)[i] = p => i = TagAt(cfg, p)
<1> DEFINE places == EntryPlaces(cfg)
<1>1. Lists(places, EntrySet(cfg))
  BY EntryPlacesList
<1>2. TagAt(cfg, p) = CHOOSE i \in DOMAIN places : places[i] = p
  BY DEF TagAt
<1> HIDE DEF places
<1>3. PICK i \in DOMAIN places : places[i] = p
  BY <1>1 DEF Lists
<1>4. TagAt(cfg, p) \in DOMAIN places /\ places[TagAt(cfg, p)] = p
  BY <1>2, <1>3
<1> QED
  BY <1>1, <1>4 DEF Lists, places

\* The entry at <<c, d, r>> as resolution leaves it.
ResolvedEntry(cfg, c, d, r) ==
    LET e == cfg.channels[c].devices[d].registers[r]
    IN  [e EXCEPT !.tag = TagAt(cfg, <<c, d, r>>), !.group = GroupNamed(cfg, e.group)]

\* What Resolve makes of a configuration, level by level (resolve in config).
LEMMA ResolvedParts ==
    ASSUME NEW cfg \in Configurations
    PROVE  LET R == Resolve(cfg) IN
           /\ IsSeq(R) /\ DOMAIN R = DOMAIN cfg.channels
           /\ \A c \in DOMAIN cfg.channels :
                LET ch == cfg.channels[c] IN
                /\ R[c].enabled = ch.enabled
                /\ IsSeq(R[c].devices) /\ DOMAIN R[c].devices = DOMAIN ch.devices
                /\ \A d \in DOMAIN ch.devices :
                     LET dev == ch.devices[d] IN
                     /\ R[c].devices[d].id = <<c, d>>
                     /\ R[c].devices[d].enabled = (dev.enabled /\ ch.enabled)
                     /\ R[c].devices[d].max_gap =
                           IF dev.max_gap = None THEN ch.max_gap ELSE dev.max_gap
                     /\ IsSeq(R[c].devices[d].registers)
                     /\ DOMAIN R[c].devices[d].registers = DOMAIN dev.registers
                     /\ \A r \in DOMAIN dev.registers :
                          R[c].devices[d].registers[r] = ResolvedEntry(cfg, c, d, r)
<1> DEFINE Entry(c, d, r) == ResolvedEntry(cfg, c, d, r)
           Regs(c, d) == [r \in DOMAIN cfg.channels[c].devices[d].registers |-> Entry(c, d, r)]
           Dev(c, d) == LET ch == cfg.channels[c]
                            dev == ch.devices[d]
                        IN [id |-> <<c, d>>, enabled |-> dev.enabled /\ ch.enabled,
                            max_gap |-> IF dev.max_gap = None THEN ch.max_gap ELSE dev.max_gap,
                            registers |-> Regs(c, d)]
           Devs(c) == [d \in DOMAIN cfg.channels[c].devices |-> Dev(c, d)]
           R == Resolve(cfg)
<1>1. R = [c \in DOMAIN cfg.channels |->
             [id |-> c, enabled |-> cfg.channels[c].enabled, max_inflight |-> 1,
              devices |-> Devs(c)]]
  BY DEF Resolve, TagAt, GroupNamed, ResolvedEntry
<1> HIDE DEF Entry
<1>2. ASSUME NEW s, IsSeq(s), NEW t, t = [i \in DOMAIN s |-> t[i]] PROVE IsSeq(t)
  <2>1. Len(s) \in Nat /\ DOMAIN s = 1..Len(s)
    BY <1>2, SeqElim
  <2> QED
    BY <1>2, <2>1, SeqIntro
<1>3. ASSUME NEW c \in DOMAIN cfg.channels, NEW d \in DOMAIN cfg.channels[c].devices
      PROVE  IsSeq(Regs(c, d))
  <2>1. IsSeq(cfg.channels[c].devices[d].registers)
    BY ConfigurationParts
  <2>2. Regs(c, d) = [r \in DOMAIN cfg.channels[c].devices[d].registers |-> Regs(c, d)[r]]
    OBVIOUS
  <2> HIDE DEF Regs
  <2> QED
    BY <1>2, <2>1, <2>2
<1>4. ASSUME NEW c \in DOMAIN cfg.channels PROVE IsSeq(Devs(c))
  <2>1. IsSeq(cfg.channels[c].devices)
    BY ConfigurationParts
  <2>2. Devs(c) = [d \in DOMAIN cfg.channels[c].devices |-> Devs(c)[d]]
    OBVIOUS
  <2> HIDE DEF Devs
  <2> QED
    BY <1>2, <2>1, <2>2
<1>5. IsSeq(R)
  <2>1. R = [c \in DOMAIN cfg.channels |-> R[c]]
    <3> HIDE DEF Devs
    <3> QED
      BY <1>1
  <2> HIDE DEF R
  <2> QED
    BY <1>2, <2>1, ConfigurationParts
<1> HIDE DEF R
<1>6. ASSUME NEW c \in DOMAIN cfg.channels
      PROVE  R[c].enabled = cfg.channels[c].enabled /\ R[c].devices = Devs(c)
  <2> HIDE DEF Devs
  <2> QED
    BY <1>1
<1>7. ASSUME NEW c \in DOMAIN cfg.channels, NEW d \in DOMAIN cfg.channels[c].devices
      PROVE  LET ch == cfg.channels[c]
                 dev == ch.devices[d]
                 D == Devs(c)[d]
             IN  /\ D.id = <<c, d>> /\ D.enabled = (dev.enabled /\ ch.enabled)
                 /\ D.max_gap = IF dev.max_gap = None THEN ch.max_gap ELSE dev.max_gap
                 /\ D.registers = Regs(c, d)
  <2> HIDE DEF Regs
  <2> QED
    OBVIOUS
<1>8. DOMAIN R = DOMAIN cfg.channels
  BY <1>1
<1> QED
  <2>1. \A c \in DOMAIN cfg.channels : DOMAIN Devs(c) = DOMAIN cfg.channels[c].devices
    OBVIOUS
  <2>2. \A c \in DOMAIN cfg.channels : \A d \in DOMAIN cfg.channels[c].devices :
           /\ DOMAIN Regs(c, d) = DOMAIN cfg.channels[c].devices[d].registers
           /\ \A r \in DOMAIN cfg.channels[c].devices[d].registers :
                 Regs(c, d)[r] = Entry(c, d, r)
    OBVIOUS
  <2> HIDE DEF Devs, Regs
  <2>3. ASSUME NEW c \in DOMAIN cfg.channels, NEW d \in DOMAIN cfg.channels[c].devices
        PROVE  LET dev == cfg.channels[c].devices[d] IN
               /\ R[c].devices[d].id = <<c, d>>
               /\ R[c].devices[d].enabled = (dev.enabled /\ cfg.channels[c].enabled)
               /\ R[c].devices[d].max_gap =
                     IF dev.max_gap = None THEN cfg.channels[c].max_gap ELSE dev.max_gap
               /\ IsSeq(R[c].devices[d].registers)
               /\ DOMAIN R[c].devices[d].registers = DOMAIN dev.registers
               /\ \A r \in DOMAIN dev.registers :
                    R[c].devices[d].registers[r] = Entry(c, d, r)
    <3>1. R[c].devices[d] = Devs(c)[d]
      BY <1>6
    <3>2. R[c].devices[d].registers = Regs(c, d)
      BY <1>7, <3>1
    <3> QED
      BY <1>3, <1>7, <2>2, <3>1, <3>2
  <2>4. ASSUME NEW c \in DOMAIN cfg.channels
        PROVE  /\ R[c].enabled = cfg.channels[c].enabled
               /\ IsSeq(R[c].devices) /\ DOMAIN R[c].devices = DOMAIN cfg.channels[c].devices
    BY <1>4, <1>6, <2>1
  <2> USE DEF Entry
  <2> QED
    BY <1>5, <1>8, <2>3, <2>4 DEF R

-----------------------------------------------------------------------------
(* Writing                                                                 *)

\* What a resolved writable entry keeps of its configuration.
WritableEntry(e) ==
    /\ Writable(e)
    /\ e.scale \in Int /\ e.offset \in Int
    /\ e.formula \in {None, "minus"} /\ e.inverse \in {None, "minus"}
    /\ e.type \in DOMAIN RegisterCount \cup {"ascii", "bcd"}

\* How many words a write of e carries.
Count(e) == IF BitDomain(ReadArea[e.fn]) THEN 1 ELSE Width(e)

\* words read back as v, in the sense of WritesReadBack.
ReadsBack(e, v, words) ==
    LET read == Apply(e, IF BitDomain(ReadArea[e.fn]) THEN words[1] ELSE Decode(words, e))
        off == Abs(read - v * Unit)
    IN  IF e.fn = "ReadCoils"
        THEN Carried(e, v) /\ v * Unit \in {Apply(e, 0), Apply(e, 1)} => off = 0
        ELSE IF Native(e) /\ e.formula = None
        THEN IF FromInt(v) = v * Unit /\ Fits(v, e) THEN off = 0
             ELSE off * Pow2[Mantissa - 1] <= Abs(v) * Unit
        ELSE Carried(e, v) => 2 * off <= (IF e.formula = None THEN Abs(e.scale) * Unit ELSE 0)

\* The numbers a coil holds are carried.
LEMMA CoilEnds ==
    ASSUME NEW e, e.formula = None, e.scale \in Int, e.offset \in Int, NEW v \in Int, Carried(e, v)
    PROVE  Apply(e, 0) = e.offset * Unit /\ Apply(e, 1) = (e.scale + e.offset) * Unit
<1> DEFINE s == e.scale
           o == e.offset
           b == Pow2[Mantissa - 1]
<1>1. /\ s \in Int /\ o \in Int /\ b \in Nat /\ b > 0 /\ Pow2[Mantissa] = 2 * b
      /\ Abs(v) + Abs(o) + Abs(s) < b /\ 0 * s = 0 /\ 1 * s = s
  BY HalfPower DEF Carried
<1> HIDE DEF b
<1>2. /\ Abs(0) < 2 * b /\ Abs(1) < 2 * b
      /\ Abs(0 * s) < 2 * b /\ Abs(0 * s + o) < 2 * b
      /\ Abs(1 * s) < 2 * b /\ Abs(1 * s + o) < 2 * b
  <2> HIDE DEF s, o
  <2> QED
    BY <1>1 DEF Abs
<1>3. Apply(e, 0) = (0 * s + o) * Unit
  BY <1>1, <1>2, ApplyLinear
<1>4. Apply(e, 1) = (1 * s + o) * Unit
  BY <1>1, <1>2, ApplyLinear
<1> QED
  BY <1>1, <1>3, <1>4

\* A write to a coil that is sent is one word, and reads back.
LEMMA CoilRequest ==
    ASSUME NEW e, WritableEntry(e), e.fn = "ReadCoils", NEW v \in Int,
           ToRequest(e, v).status = "Good"
    PROVE  LET words == ToRequest(e, v).words
           IN  /\ words = [i \in 1..1 |-> words[i]] /\ Len(words) = 1
               /\ Invertible(e) => ReadsBack(e, v, words)
<1> DEFINE raw == RawOf(e, v)
           words == ToRequest(e, v).words
           w == IF raw = 0 THEN 0 ELSE 1
<1>1. RawFinite(e, v) /\ words = <<w>>
  <2> HIDE DEF raw
  <2>1. ToRequest(e, v) = IF ~RawFinite(e, v) THEN [status |-> "BadOutOfRange", words |-> << >>]
                          ELSE [status |-> "Good", words |-> <<w>>]
    BY DEF ToRequest, raw
  <2> HIDE DEF w
  <2> QED
    BY <2>1
<1>2. words = [i \in 1..1 |-> words[i]] /\ Len(words) = 1 /\ words[1] = w
  BY <1>1
<1>3. BitDomain(ReadArea[e.fn])
  BY DEF BitDomain, ReadArea
<1>4. e.scale \in Int /\ e.offset \in Int
  BY DEF WritableEntry
<1>5. ASSUME Invertible(e), Carried(e, v), v * Unit \in {Apply(e, 0), Apply(e, 1)}
      PROVE  Apply(e, w) = v * Unit
  <2>1. CASE e.formula = "minus" /\ e.inverse = "minus"
    <3>1. raw = (-v) * Unit /\ 0 \in Int /\ 1 \in Int /\ -v \in Int
      BY <1>4, <1>5, <2>1, NegatedRaw
    <3>2. Apply(e, 0) = (-0) * Unit /\ Apply(e, 1) = (-1) * Unit
      <4>1. Abs(0) < Pow2[Mantissa] /\ Abs(1) < Pow2[Mantissa]
        BY HalfPower DEF Abs
      <4> QED
        BY <2>1, <4>1, NegatedBack
    <3>3. v = -0 \/ v = -1
      <4>1. v * Unit = (-0) * Unit \/ v * Unit = (-1) * Unit
        BY <1>5, <3>2
      <4> QED
        BY <4>1, Units
    <3>4. w = -v
      <4>1. raw = 0 => -v = 0
        <5>1. 0 = 0 * Unit
          BY Powers
        <5> QED
          BY <3>1, <5>1, Units
      <4>2. v = 0 => raw = 0
        BY <3>1, Powers
      <4> QED
        BY <3>3, <4>1, <4>2
    <3> QED
      BY <3>2, <3>3, <3>4
  <2>2. CASE e.formula = None /\ e.inverse = None
    <3>1. Apply(e, 0) = e.offset * Unit /\ Apply(e, 1) = (e.scale + e.offset) * Unit
      BY <1>4, <1>5, <2>2, CoilEnds
    <3>2. v = e.offset \/ v = e.scale + e.offset
      <4> DEFINE x == e.offset
                 y == e.scale + e.offset
      <4>1. x \in Int /\ y \in Int /\ (v * Unit = x * Unit \/ v * Unit = y * Unit)
        BY <1>4, <1>5, <3>1
      <4> HIDE DEF x, y
      <4>2. v = x \/ v = y
        BY <4>1, Units
      <4> QED
        BY <4>2 DEF x, y
    <3>3. v = e.offset => raw = 0
      <4>1. CASE Native(e)
        <5>1. 0 \in Int /\ Abs(0) < Pow2[Mantissa]
          BY HalfPower DEF Abs
        <5>2. FromInt(0) = 0 * Unit
          BY <5>1, ExactInt
        <5> QED
          BY <2>2, <4>1, <5>2, NoneAssumption, Powers DEF RawOf, Native
      <4>2. CASE ~Native(e)
        BY <1>1, <1>4, <1>5, <2>2, <4>2, LinearRaw
      <4> QED
        BY <4>1, <4>2
    <3>4. v # e.offset => raw # 0
      <4>1. SUFFICES ASSUME v # e.offset, raw = 0 PROVE FALSE
        OBVIOUS
      <4>2. v - e.offset = e.scale
        BY <1>4, <3>2, <4>1
      <4>3. Rounded(raw) = 0
        <5>1. raw = 0 * Unit
          BY <4>1, Powers
        <5> QED
          BY <5>1, RoundedWhole
      <4>4. CASE Native(e)
        <5>1. v = 1 /\ raw = FromInt(v)
          BY <2>2, <4>2, <4>4, NoneAssumption DEF Native, RawOf
        <5>2. Abs(1) < Pow2[Mantissa]
          BY HalfPower DEF Abs
        <5>3. raw = 1 * Unit
          BY <5>1, <5>2, ExactInt
        <5> QED
          BY <4>1, <5>3, Powers
      <4>5. CASE ~Native(e)
        <5>1. e.scale # 0 /\ 2 * Abs(0 * e.scale - (v - e.offset)) <= Abs(e.scale)
          BY <1>1, <1>4, <1>5, <2>2, <4>3, <4>5, LinearRaw
        <5>2. 2 * Abs(0 - e.scale) <= Abs(e.scale)
          BY <1>4, <4>2, <5>1
        <5> QED
          BY <1>4, <5>1, <5>2 DEF Abs
      <4> QED
        BY <4>4, <4>5
    <3> QED
      BY <3>1, <3>2, <3>3, <3>4
  <2>3. (e.inverse = "minus") = (e.formula = "minus")
    BY <1>5, NoneAssumption DEF Invertible, WritableEntry
  <2> QED
    BY <2>1, <2>2, <2>3 DEF WritableEntry
<1> HIDE DEF words, w
<1>6. Invertible(e) => ReadsBack(e, v, words)
  <2>1. SUFFICES ASSUME Invertible(e), Carried(e, v), v * Unit \in {Apply(e, 0), Apply(e, 1)}
                 PROVE  Abs(Apply(e, words[1]) - v * Unit) = 0
    BY <1>3 DEF ReadsBack
  <2>2. Apply(e, words[1]) = v * Unit /\ v * Unit \in Int
    BY <1>2, <1>5, <2>1, Units
  <2> DEFINE x == v * Unit
  <2> HIDE DEF x
  <2>3. Abs(x - x) = 0
    BY <2>2 DEF Abs, x
  <2> QED
    BY <2>2, <2>3 DEF x
<1> QED
  BY <1>2, <1>6 DEF words

\* A write to holding registers that is sent has the width of its entry, and reads back to within
\* half a step of its scale.
LEMMA RegisterRequest ==
    ASSUME NEW e, WritableEntry(e), e.fn # "ReadCoils", NEW v \in Int,
           ToRequest(e, v).status = "Good"
    PROVE  LET words == ToRequest(e, v).words
               k == Width(e)
           IN  /\ e.fn = "ReadHoldingRegisters" /\ k \in 1..4
               /\ words = [i \in 1..k |-> words[i]] /\ Len(words) = k
               /\ Invertible(e) => ReadsBack(e, v, words)
<1> DEFINE raw == RawOf(e, v)
           n == Saturated(Rounded(raw), e)
           k == Width(e)
           words == ToRequest(e, v).words
<1>1. /\ e.fn = "ReadHoldingRegisters" /\ k \in 1..4 /\ ~BitDomain(ReadArea[e.fn])
  BY DEF WritableEntry, Writable, CoilWritable, HoldingWritable, Width, RegisterCount,
         BitDomain, ReadArea
<1>2. RawFinite(e, v) /\ ~OutOfRange(Rounded(raw), e) /\ Fits(n, e) /\ words = Encode(n, e)
  <2> DEFINE out == OutOfRange(Rounded(raw), e)
             misfit == ~Fits(n, e) \/ (WriteFn(e) = "WriteSingleRegister" /\ k # 1)
             code == Encode(n, e)
  <2>1. ToRequest(e, v) =
          IF ~RawFinite(e, v) THEN [status |-> "BadOutOfRange", words |-> << >>]
          ELSE IF out THEN [status |-> "BadOutOfRange", words |-> << >>]
          ELSE IF misfit THEN [status |-> "BadTypeMismatch", words |-> << >>]
          ELSE [status |-> "Good", words |-> code]
    BY DEF ToRequest
  <2> HIDE DEF out, misfit, code, n, raw
  <2>2. RawFinite(e, v) /\ ~out /\ ~misfit /\ words = code
    BY <2>1
  <2> QED
    BY <2>2 DEF out, misfit, code
<1>3. e.scale \in Int /\ e.offset \in Int /\ Finite(v * Unit, 1)
  BY <1>2 DEF WritableEntry, RawFinite
<1> HIDE DEF n, k, words, raw
<1>4. n \in Int
  BY <1>1, <1>2, Ends DEF Fits, k
<1>5. words \in [1..k -> 0..(Word - 1)] /\ Decode(words, e) = n
  BY <1>1, <1>2, <1>4, DecodeEncode DEF k
<1>6. words = [i \in 1..k |-> words[i]] /\ Len(words) = k
  <2>1. words = [i \in 1..k |-> words[i]] /\ k \in Nat
    BY <1>1, <1>5
  <2> QED
    BY <2>1, SeqIntro
<1> DEFINE off == Abs(Apply(e, n) - v * Unit)
<1>7. ASSUME e.formula = None, e.inverse = None, Native(e)
      PROVE  IF FromInt(v) = v * Unit /\ Fits(v, e) THEN off = 0
             ELSE off * Pow2[Mantissa - 1] <= Abs(v) * Unit
  <2>1. raw = FromInt(v) /\ Apply(e, n) = n * Unit
    BY <1>7, NoneAssumption DEF RawOf, Apply, raw
  <2>2. /\ FromInt(v) = v * Unit /\ Fits(v, e) => n = v
        /\ Abs(n - v) * Pow2[Mantissa - 1] <= Abs(v)
    BY <1>1, <1>2, <1>3, <2>1, NativeWrite DEF n, k
  <2>3. off = Abs(n - v) * Unit
    BY <1>4, <2>1, Units
  <2> DEFINE i == Abs(n - v)
             j == Abs(v)
             b == Pow2[Mantissa - 1]
             u == Unit
  <2>4. i \in Nat /\ j \in Nat /\ b \in Nat /\ u \in Nat /\ i * b <= j
    BY <1>4, <2>2, HalfPower, Powers DEF Abs
  <2>5. n = v => i = 0
    BY <1>4 DEF Abs
  <2> HIDE DEF i, j, b, u, off
  <2>6. off = 0 * u => off = 0
    BY <2>4
  <2>7. (i * u) * b <= j * u
    <3>1. \A x, y, z \in Nat : x <= y => x * z <= y * z
      <4>1. SUFFICES ASSUME NEW x \in Nat, NEW y \in Nat, NEW z \in Nat, x <= y
                     PROVE  x * z <= y * z
        OBVIOUS
      <4>2. (y - x) * z \in Nat /\ (y - x) * z = y * z - x * z /\ x * z \in Int /\ y * z \in Int
        BY <4>1
      <4> QED
        BY <4>2
    <3>2. i * b \in Nat /\ (i * u) * b = (i * b) * u
      BY <2>4
    <3> QED
      BY <2>4, <3>1, <3>2
  <2> QED
    BY <2>2, <2>3, <2>5, <2>6, <2>7 DEF i, j, b, u
<1>8. ASSUME e.formula = None, e.inverse = None, ~Native(e), Carried(e, v)
      PROVE  2 * off <= Abs(e.scale) * Unit
  <2> DEFINE m == Rounded(raw)
  <2>1. e.scale # 0 /\ m \in Int /\ 2 * Abs(m * e.scale - (v - e.offset)) <= Abs(e.scale)
    BY <1>2, <1>3, <1>8, LinearRaw DEF raw
  <2> HIDE DEF m
  <2>2. Abs(m) < Pow2[Mantissa] /\ 2 * Abs(Apply(e, m) - v * Unit) <= Abs(e.scale) * Unit
    BY <1>3, <1>8, <2>1, LinearBack
  <2>3. n = m
    BY <1>2, <2>1, <2>2, NotClipped DEF n, m
  <2> QED
    BY <2>2, <2>3
<1>9. ASSUME e.formula = "minus", e.inverse = "minus", Carried(e, v)
      PROVE  off = 0
  <2>1. Rounded(raw) = -v /\ -v \in Int /\ Abs(-v) < Pow2[Mantissa] /\ -(-v) = v
    BY <1>3, <1>9, NegatedRaw DEF raw
  <2>2. n = -v
    BY <1>2, <2>1, NotClipped DEF n
  <2>3. Apply(e, n) = v * Unit
    BY <1>9, <2>1, <2>2, NegatedBack
  <2> DEFINE x == v * Unit
  <2>4. x \in Int
    BY Units
  <2> HIDE DEF x
  <2>5. Abs(x - x) = 0
    BY <2>4 DEF Abs
  <2> QED
    BY <2>3, <2>5 DEF x
<1> HIDE DEF off
<1>10. ASSUME Invertible(e) PROVE ReadsBack(e, v, words)
  <2>1. \/ e.formula = None /\ e.inverse = None
        \/ e.formula = "minus" /\ e.inverse = "minus"
    BY <1>10, NoneAssumption DEF Invertible, WritableEntry
  <2>2. ReadsBack(e, v, words) =
          IF Native(e) /\ e.formula = None
          THEN IF FromInt(v) = v * Unit /\ Fits(v, e) THEN off = 0
               ELSE off * Pow2[Mantissa - 1] <= Abs(v) * Unit
          ELSE Carried(e, v) => 2 * off <= (IF e.formula = None THEN Abs(e.scale) * Unit ELSE 0)
    BY <1>1, <1>5 DEF ReadsBack, off
  <2> DEFINE exact == FromInt(v) = v * Unit /\ Fits(v, e)
             near == off * Pow2[Mantissa - 1] <= Abs(v) * Unit
             step == Abs(e.scale) * Unit
             half == 2 * off <= step
  <2> HIDE DEF exact, near, step, half
  <2>3. CASE e.formula = None /\ e.inverse = None /\ Native(e)
    BY <1>7, <2>2, <2>3 DEF exact, near
  <2>4. CASE e.formula = None /\ e.inverse = None /\ ~Native(e)
    <3>1. ReadsBack(e, v, words) = (Carried(e, v) => half)
      BY <2>2, <2>4 DEF half, step
    <3> QED
      BY <1>8, <2>4, <3>1 DEF half, step
  <2>5. CASE e.formula = "minus" /\ e.inverse = "minus"
    <3>1. ReadsBack(e, v, words) = (Carried(e, v) => 2 * off <= 0)
      BY <2>2, <2>5, NoneAssumption
    <3>2. off = 0 => 2 * off <= 0
      OBVIOUS
    <3>3. Carried(e, v) => off = 0
      BY <1>9, <2>5
    <3> QED
      BY <3>1, <3>2, <3>3
  <2> QED
    BY <2>1, <2>3, <2>4, <2>5
<1> QED
  BY <1>1, <1>6, <1>10 DEF words, k

\* The channels of a resolved configuration and their devices are those of the file.
LEMMA ResolvedShape ==
    ASSUME NEW cfg \in Configurations
    PROVE  /\ IsSeq(Resolve(cfg)) /\ DOMAIN Resolve(cfg) = DOMAIN cfg.channels
           /\ \A c \in DOMAIN cfg.channels :
                 /\ Resolve(cfg)[c].enabled = cfg.channels[c].enabled
                 /\ IsSeq(Resolve(cfg)[c].devices)
                 /\ DOMAIN Resolve(cfg)[c].devices = DOMAIN cfg.channels[c].devices
<1> DEFINE R == Resolve(cfg)
<1>1. /\ IsSeq(R) /\ DOMAIN R = DOMAIN cfg.channels
      /\ \A c \in DOMAIN cfg.channels :
            /\ R[c].enabled = cfg.channels[c].enabled
            /\ IsSeq(R[c].devices) /\ DOMAIN R[c].devices = DOMAIN cfg.channels[c].devices
  BY ResolvedParts
<1> QED
  BY <1>1

\* One resolved device.
LEMMA ResolvedDevice ==
    ASSUME NEW cfg \in Configurations, NEW c \in DOMAIN cfg.channels,
           NEW d \in DOMAIN cfg.channels[c].devices
    PROVE  LET ch == cfg.channels[c]
               dev == ch.devices[d]
               D == Resolve(cfg)[c].devices[d]
           IN  /\ D.id = <<c, d>> /\ D.enabled = (dev.enabled /\ ch.enabled)
               /\ D.max_gap = IF dev.max_gap = None THEN ch.max_gap ELSE dev.max_gap
               /\ IsSeq(D.registers) /\ DOMAIN D.registers = DOMAIN dev.registers
               /\ \A r \in DOMAIN dev.registers :
                    D.registers[r] = ResolvedEntry(cfg, c, d, r)
<1> DEFINE R == Resolve(cfg)
           D(a, b) == R[a].devices[b]
<1>1. \A a \in DOMAIN cfg.channels : \A b \in DOMAIN cfg.channels[a].devices :
         LET ch == cfg.channels[a]
             dev == ch.devices[b]
         IN  /\ D(a, b).id = <<a, b>> /\ D(a, b).enabled = (dev.enabled /\ ch.enabled)
             /\ D(a, b).max_gap = IF dev.max_gap = None THEN ch.max_gap ELSE dev.max_gap
             /\ IsSeq(D(a, b).registers) /\ DOMAIN D(a, b).registers = DOMAIN dev.registers
             /\ \A r \in DOMAIN dev.registers :
                  D(a, b).registers[r] = ResolvedEntry(cfg, a, b, r)
  BY ResolvedParts
<1> HIDE DEF R
<1> QED
  BY <1>1 DEF R

\* A polled device of an enabled channel is an enabled device of the file.
LEMMA PolledParts ==
    ASSUME NEW cfg \in Configurations,
           NEW i \in DOMAIN Enabled(Resolve(cfg)),
           NEW j \in DOMAIN Polled(Enabled(Resolve(cfg))[i])
    PROVE  \E c \in DOMAIN cfg.channels : \E d \in DOMAIN cfg.channels[c].devices :
              /\ cfg.channels[c].enabled /\ cfg.channels[c].devices[d].enabled
              /\ Enabled(Resolve(cfg))[i] = Resolve(cfg)[c]
              /\ Polled(Enabled(Resolve(cfg))[i])[j] = Resolve(cfg)[c].devices[d]
<1> DEFINE R == Resolve(cfg)
<1>1. IsSeq(R)
  BY ResolvedShape
<1>2. PICK c \in DOMAIN R : R[c].enabled /\ Enabled(R)[i] = R[c]
  BY <1>1, EnabledParts
<1>3. c \in DOMAIN cfg.channels /\ IsSeq(R[c].devices) /\ cfg.channels[c].enabled
      /\ DOMAIN R[c].devices = DOMAIN cfg.channels[c].devices
  BY <1>2, ResolvedShape
<1>4. PICK d \in DOMAIN R[c].devices :
         R[c].devices[d].enabled /\ Polled(Enabled(R)[i])[j] = R[c].devices[d]
  BY <1>2, <1>3, EnabledParts DEF Polled
<1>5. d \in DOMAIN cfg.channels[c].devices /\ cfg.channels[c].devices[d].enabled
  BY <1>3, <1>4, ResolvedDevice
<1> HIDE DEF R
<1> QED
  BY <1>2, <1>3, <1>4, <1>5 DEF R

\* A write plan belongs to a device of the file, is writable and inside the address space.
LEMMA WritePlanParts ==
    ASSUME NEW cfg \in Configurations, Errors(cfg) = {}, NEW p \in WritePlans(Resolve(cfg))
    PROVE  /\ p.dev \in DeviceSet(cfg)
           /\ WritableEntry(p.entry) /\ p.entry.address \in 0..(AddrSpace - 1)
           /\ IsRead(p.entry.fn)
           /\ ~BitDomain(ReadArea[p.entry.fn]) => p.entry.address + Width(p.entry) <= AddrSpace
<1> DEFINE R == Resolve(cfg)
           E == Enabled(R)
<1>1. PICK i \in DOMAIN E : \E j \in DOMAIN Polled(E[i]) :
         \E r \in DOMAIN Polled(E[i])[j].registers :
            /\ Polled(E[i])[j].registers[r].writable
            /\ p = [dev |-> Polled(E[i])[j].id, entry |-> Polled(E[i])[j].registers[r]]
  <2> HIDE DEF E
  <2>1. PICK dev \in UNION {{Polled(ch)[d] : d \in DOMAIN Polled(ch)} :
                              ch \in {E[c] : c \in DOMAIN E}} :
           p \in {[dev |-> dev.id, entry |-> dev.registers[r]] :
                    r \in {r \in DOMAIN dev.registers : dev.registers[r].writable}}
    BY DEF WritePlans, E
  <2>2. PICK ch \in {E[c] : c \in DOMAIN E} : dev \in {Polled(ch)[d] : d \in DOMAIN Polled(ch)}
    OBVIOUS
  <2>3. PICK i \in DOMAIN E : ch = E[i]
    OBVIOUS
  <2>4. PICK j \in DOMAIN Polled(ch) : dev = Polled(ch)[j]
    BY <2>2
  <2> QED
    BY <2>1, <2>3, <2>4
<1>2. PICK j \in DOMAIN Polled(E[i]) : \E r \in DOMAIN Polled(E[i])[j].registers :
            /\ Polled(E[i])[j].registers[r].writable
            /\ p = [dev |-> Polled(E[i])[j].id, entry |-> Polled(E[i])[j].registers[r]]
  BY <1>1
<1>3. PICK c \in DOMAIN cfg.channels : \E d \in DOMAIN cfg.channels[c].devices :
              Polled(E[i])[j] = R[c].devices[d]
  BY PolledParts
<1>4. PICK d \in DOMAIN cfg.channels[c].devices : Polled(E[i])[j] = R[c].devices[d]
  BY <1>3
<1> DEFINE dev == cfg.channels[c].devices[d]
<1>5. PICK r \in DOMAIN R[c].devices[d].registers :
            /\ R[c].devices[d].registers[r].writable
            /\ p = [dev |-> R[c].devices[d].id, entry |-> R[c].devices[d].registers[r]]
  BY <1>2, <1>4
<1>6. /\ R[c].devices[d].id = <<c, d>> /\ r \in DOMAIN dev.registers
      /\ R[c].devices[d].registers[r] = ResolvedEntry(cfg, c, d, r)
  <2>1. r \in DOMAIN R[c].devices[d].registers
    BY <1>5
  <2>2. /\ R[c].devices[d].id = <<c, d>>
        /\ DOMAIN R[c].devices[d].registers = DOMAIN dev.registers
        /\ \A q \in DOMAIN dev.registers :
             R[c].devices[d].registers[q] = ResolvedEntry(cfg, c, d, q)
    BY ResolvedDevice
  <2> HIDE DEF R, dev
  <2> QED
    BY <2>1, <2>2
<1> DEFINE e == dev.registers[r]
           x == p.entry
<1>7. e \in Entries /\ SoundEntry(cfg, e)
  BY <1>6, ConfigurationParts, AcceptedParts
<1>8. x = [e EXCEPT !.tag = TagAt(cfg, <<c, d, r>>), !.group = GroupNamed(cfg, e.group)]
  BY <1>5, <1>6 DEF ResolvedEntry
<1>9. p.dev \in DeviceSet(cfg)
  BY <1>5, <1>6 DEF DeviceSet
<1>10. x.writable
  BY <1>5
<1> HIDE DEF e, x
<1>11. /\ x.fn = e.fn /\ x.address = e.address /\ x.type = e.type /\ x.length = e.length
       /\ x.write = e.write /\ x.formula = e.formula /\ x.inverse = e.inverse
       /\ x.scale = e.scale /\ x.offset = e.offset /\ x.writable = e.writable
  BY <1>7, <1>8 DEF Entries
<1>12. Width(x) = Width(e) /\ Writable(e)
  BY <1>7, <1>10, <1>11 DEF Width, SoundEntry
<1>13. Writable(x)
  BY <1>11, <1>12 DEF Writable, CoilWritable, HoldingWritable
<1>14. WritableEntry(x) /\ x.address \in 0..(AddrSpace - 1)
  BY <1>7, <1>11, <1>13 DEF Entries, WritableEntry
<1>15. IsRead(x.fn)
  BY <1>13 DEF Writable, CoilWritable, HoldingWritable, IsRead, ReadArea
<1>16. ~BitDomain(ReadArea[x.fn]) => x.address + Width(x) <= AddrSpace
  BY <1>7, <1>11, <1>12, <1>15 DEF SoundEntry
<1> QED
  BY <1>9, <1>14, <1>15, <1>16 DEF x

\* The addresses of an area.
Addresses == 0..(AddrSpace - 1)

\* Every device has its four areas, and an area a content at every address.
MemoryShape ==
    /\ DeviceSet(file) \subseteq DOMAIN memory
    /\ \A p \in DeviceSet(file) :
          /\ ToSet(Areas) \subseteq DOMAIN memory[p]
          /\ \A area \in ToSet(Areas) : DOMAIN memory[p][area] = Addresses

\* The file has the schema's shape, and a file that runs has no errors.
Loaded ==
    /\ file \in Configurations
    /\ status = "running" => Accepted

\* The inductive invariant of the write path.
WriteInv == Loaded /\ MemoryShape /\ WritesReadBack

\* The area of a read function is one of the four areas.
LEMMA ReadAreas == \A fn \in DOMAIN ReadArea : ReadArea[fn] \in ToSet(Areas)
  BY DEF ReadArea, ToSet, Areas

\* The invariant of the write path holds at the start.
LEMMA InitWriteInv == Init => WriteInv
<1> SUFFICES ASSUME Init PROVE WriteInv
  OBVIOUS
<1>1. file \in Configurations
  BY FilesAssumption DEF Init
<1>2. Loaded
  BY <1>1 DEF Init, Loaded
<1>3. Lists(DevicePlaces(file), DeviceSet(file))
  BY <1>1, DevicePlacesList
<1>4. DeviceSet(file) \subseteq ToSet(DevicePlaces(file))
  BY <1>3 DEF Lists, ToSet
<1>5. memory = [p \in ToSet(DevicePlaces(file)) |->
                  [area \in ToSet(Areas) |-> [a \in Addresses |-> Content(p, area, a)]]]
  BY DEF Init, Addresses
<1>6. MemoryShape
  BY <1>4, <1>5 DEF MemoryShape
<1>7. WritesReadBack
  BY DEF Init, WritesReadBack
<1> QED
  BY <1>2, <1>6, <1>7 DEF WriteInv

\* A write keeps the invariant of the write path.
LEMMA WriteKeepsInv == WriteInv /\ Write => WriteInv'
<1> SUFFICES ASSUME WriteInv, Write PROVE WriteInv'
  OBVIOUS
<1>1. file \in Configurations /\ Errors(file) = {} /\ UNCHANGED <<file, status>>
  BY DEF WriteInv, Loaded, Write, Accepted, loaded
<1>2. PICK p \in WritePlans(Resolve(file)), v \in Amounts :
         LET e == p.entry
             area == ReadArea[e.fn]
             req == ToRequest(e, v)
             at == e.address..(e.address + Len(req.words) - 1)
             refused == req.status = "Good" /\ at \cap missing # {}
         IN  /\ memory' = IF req.status = "Good" /\ ~refused
                          THEN [memory EXCEPT ![p.dev][area] =
                                  [a \in DOMAIN @ |->
                                     IF a \in at THEN req.words[a - e.address + 1] ELSE @[a]]]
                          ELSE memory
             /\ answer' = [plan |-> p, value |-> v,
                           status |-> IF refused THEN "BadDeviceFailure" ELSE req.status]
  BY DEF Write
<1> DEFINE e == p.entry
           area == ReadArea[e.fn]
           req == ToRequest(e, v)
           words == req.words
           k == IF BitDomain(area) THEN 1 ELSE Width(e)
           at == e.address..(e.address + Len(words) - 1)
           refused == req.status = "Good" /\ at \cap missing # {}
           sent == req.status = "Good" /\ ~refused
           new == [a \in Addresses |->
                     IF a \in at THEN words[a - e.address + 1] ELSE memory[p.dev][area][a]]
<1>3. /\ p.dev \in DeviceSet(file) /\ WritableEntry(e) /\ e.address \in Addresses /\ IsRead(e.fn)
      /\ ~BitDomain(area) => e.address + Width(e) <= AddrSpace
  BY <1>1, WritePlanParts DEF Addresses
<1>4. v \in Int
  BY AmountsAssumption
<1>5. area \in ToSet(Areas)
  BY <1>3, ReadAreas DEF IsRead
<1>6. /\ DeviceSet(file) \subseteq DOMAIN memory
      /\ \A x \in DeviceSet(file) :
           /\ ToSet(Areas) \subseteq DOMAIN memory[x]
           /\ \A y \in ToSet(Areas) : DOMAIN memory[x][y] = Addresses
  BY DEF WriteInv, MemoryShape
<1>7. memory' = IF sent THEN [memory EXCEPT ![p.dev][area] = new] ELSE memory
  <2>1. DOMAIN memory[p.dev][area] = Addresses
    BY <1>3, <1>5, <1>6
  <2> QED
    BY <1>2, <2>1
<1>8. answer' = [plan |-> p, value |-> v,
                 status |-> IF refused THEN "BadDeviceFailure" ELSE req.status]
  BY <1>2
<1>9. DOMAIN new = Addresses
  OBVIOUS
<1>10. MemoryShape'
  <2> HIDE DEF new, sent, area, e
  <2>1. CASE ~sent
    BY <1>1, <1>6, <1>7, <2>1 DEF MemoryShape, DeviceSet
  <2>2. CASE sent
    <3>1. memory' = [memory EXCEPT ![p.dev] = [memory[p.dev] EXCEPT ![area] = new]]
      BY <1>7, <2>2
    <3>2. DOMAIN memory' = DOMAIN memory
      BY <3>1
    <3>3. ASSUME NEW x \in DeviceSet(file)
          PROVE  /\ ToSet(Areas) \subseteq DOMAIN memory'[x]
                 /\ \A y \in ToSet(Areas) : DOMAIN memory'[x][y] = Addresses
      <4>1. CASE x = p.dev
        <5>1. memory'[x] = [memory[x] EXCEPT ![area] = new]
          BY <1>6, <3>1, <4>1
        <5> QED
          BY <1>6, <1>9, <5>1
      <4>2. CASE x # p.dev
        <5>1. memory'[x] = memory[x]
          BY <1>6, <3>1, <4>2
        <5> QED
          BY <1>6, <5>1
      <4> QED
        BY <4>1, <4>2
    <3> QED
      BY <1>1, <1>6, <3>2, <3>3 DEF MemoryShape, DeviceSet
  <2> QED
    BY <2>1, <2>2
<1>11. WritesReadBack'
  <2>1. SUFFICES ASSUME answer'.status = "Good", Invertible(e), sent
                 PROVE  ReadsBack(e, v, [i \in 1..k |-> memory'[p.dev][area][e.address + i - 1]])
    <3>1. /\ answer'.plan = p /\ answer'.value = v
          /\ answer'.status = IF refused THEN "BadDeviceFailure" ELSE req.status
      BY <1>8
    <3>2. answer'.status = "Good" => sent
      BY <3>1
    <3> HIDE DEF sent, refused, req
    <3> QED
      BY <3>1, <3>2 DEF WritesReadBack, ReadsBack
  <2>2. req.status = "Good"
    BY <2>1
  <2>3. /\ words = [i \in 1..k |-> words[i]] /\ Len(words) = k /\ k \in 1..4
        /\ ReadsBack(e, v, words) /\ e.address + k <= AddrSpace
    <3>1. CASE e.fn = "ReadCoils"
      <4>1. k = 1
        BY <3>1 DEF BitDomain, ReadArea
      <4>2. words = [i \in 1..1 |-> words[i]] /\ Len(words) = 1 /\ ReadsBack(e, v, words)
        BY <1>3, <1>4, <2>1, <2>2, <3>1, CoilRequest
      <4> HIDE DEF words, k, e
      <4> QED
        BY <1>3, <4>1, <4>2, CapsAssumption DEF Addresses
    <3>2. CASE e.fn # "ReadCoils"
      <4>1. /\ e.fn = "ReadHoldingRegisters" /\ Width(e) \in 1..4
            /\ words = [i \in 1..Width(e) |-> words[i]] /\ Len(words) = Width(e)
            /\ ReadsBack(e, v, words)
        BY <1>3, <1>4, <2>1, <2>2, <3>2, RegisterRequest
      <4>2. k = Width(e) /\ ~BitDomain(area)
        BY <4>1 DEF BitDomain, ReadArea
      <4> HIDE DEF words, k, area, e
      <4> QED
        BY <1>3, <4>1, <4>2
    <3> QED
      BY <3>1, <3>2
  <2>4. memory'[p.dev][area] = new
    <3>1. memory' = [memory EXCEPT ![p.dev] = [memory[p.dev] EXCEPT ![area] = new]]
      BY <1>7, <2>1
    <3> HIDE DEF new, area
    <3>2. p.dev \in DOMAIN memory /\ area \in DOMAIN memory[p.dev]
      BY <1>3, <1>5, <1>6
    <3> QED
      BY <3>1, <3>2
  <2>5. ASSUME NEW i \in 1..k PROVE new[e.address + i - 1] = words[i]
    <3> HIDE DEF words, k
    <3> DEFINE b == e.address
    <3>1. b \in Addresses /\ b + k <= AddrSpace /\ k \in 1..4 /\ Len(words) = k
      BY <1>3, <2>3
    <3>2. at = b..(b + Len(words) - 1)
      OBVIOUS
    <3>3. new = [a \in Addresses |->
                   IF a \in at THEN words[a - b + 1] ELSE memory[p.dev][area][a]]
      OBVIOUS
    <3> HIDE DEF at, b, new, e, area
    <3>4. /\ b + i - 1 \in Addresses /\ b + i - 1 \in at /\ (b + i - 1) - b + 1 = i
      BY <3>1, <3>2, CapsAssumption DEF Addresses
    <3>5. new[b + i - 1] = words[i]
      BY <3>3, <3>4
    <3> QED
      BY <3>5 DEF b
  <2>6. [i \in 1..k |-> memory'[p.dev][area][e.address + i - 1]] = words
    <3> HIDE DEF words, k, new, area, e
    <3> QED
      BY <2>3, <2>4, <2>5
  <2> QED
    BY <2>3, <2>6
<1>12. Loaded'
  BY <1>1 DEF WriteInv, Loaded, Accepted
<1> QED
  BY <1>10, <1>11, <1>12 DEF WriteInv

\* For every configuration, every value and every width of the doubles: a write the gateway
\* reports Good, through a transform that has an inverse, left in the registers what reads back
\* as the client's value - exactly where a double and the type both hold it, within a double's
\* precision where they do not, within half a step of the scale when it is transformed
\* (WritesReadBack; opcua-gateway write.rs, tags-core decode.rs).
THEOREM WritesReadBackAlways == Spec => []WritesReadBack
<1>1. WriteInv /\ [Next]_vars => WriteInv'
  <2> SUFFICES ASSUME WriteInv, [Next]_vars PROVE WriteInv'
    OBVIOUS
  <2>1. CASE UNCHANGED <<file, status, memory, answer>>
    <3>1. Loaded' /\ MemoryShape'
      BY <2>1 DEF WriteInv, Loaded, Accepted, MemoryShape, DeviceSet
    <3>2. WritesReadBack'
      BY <2>1 DEF WriteInv, WritesReadBack, ReadsBack
    <3> QED
      BY <3>1, <3>2 DEF WriteInv
  <2>4. CASE Poll
    <3>1. UNCHANGED <<file, status, memory, answer>>
      BY <2>4 DEF Poll, loaded
    <3> QED
      BY <2>1, <3>1
  <2>2. CASE Write
    BY <2>2, WriteKeepsInv
  <2>3. CASE UNCHANGED vars
    BY <2>1, <2>3 DEF vars
  <2> QED
    BY <2>2, <2>3, <2>4 DEF Next
<1>2. WriteInv => WritesReadBack
  BY DEF WriteInv
<1> QED
  BY <1>1, <1>2, InitWriteInv, PTL DEF Spec

-----------------------------------------------------------------------------
(* The coalescer                                                           *)

\* What the coalescer is given: an address span with its tag.
Intervals(T) == [start : Nat, end : Nat, tag : T]

\* n intervals of at most cap addresses each, with different tags of T.
IntervalList(ivals, n, T, cap) ==
    /\ n \in Nat /\ cap \in Nat
    /\ ivals \in [1..n -> Intervals(T)]
    /\ \A i \in 1..n : /\ ivals[i].start < ivals[i].end /\ ivals[i].end <= AddrSpace
                       /\ ivals[i].end - ivals[i].start <= cap
    /\ \A i, j \in 1..n : ivals[i].tag = ivals[j].tag => i = j

\* Sorted is a rearrangement of the intervals in the order of their starts.
LEMMA ByStart ==
    ASSUME NEW n \in Nat, NEW ivals, DOMAIN ivals = 1..n,
           \A i \in 1..n : ivals[i].start \in Int
    PROVE  \E L \in [1..n -> 1..n] :
              /\ Sorted(ivals) = [i \in 1..n |-> ivals[L[i]]]
              /\ \A i, j \in 1..n : L[i] = L[j] => i = j
              /\ \A x \in 1..n : \E i \in 1..n : L[i] = x
              /\ \A i, j \in 1..n : i < j => ivals[L[i]].start <= ivals[L[j]].start
<1> DEFINE earlier == {p \in (1..n) \X (1..n) :
                         \/ ivals[p[1]].start < ivals[p[2]].start
                         \/ ivals[p[1]].start = ivals[p[2]].start /\ p[1] < p[2]}
           L == Listed(1..n, earlier)
<1>1. Sorted(ivals) = Through(ivals, L)
  BY DEF Sorted
<1>2. \A i, j \in 1..n : <<i, j>> \in earlier <=>
         \/ ivals[i].start < ivals[j].start
         \/ ivals[i].start = ivals[j].start /\ i < j
  OBVIOUS
<1> HIDE DEF earlier
<1>3. Orders(earlier, 1..n)
  BY <1>2 DEF Orders
<1>4. IsFiniteSet(1..n) /\ Cardinality(1..n) = n
  BY FS_Interval
<1>5. /\ L \in [1..n -> 1..n]
      /\ \A i, j \in 1..n : L[i] = L[j] => i = j
      /\ \A x \in 1..n : \E i \in 1..n : L[i] = x
      /\ \A i, j \in 1..n : i < j => <<L[i], L[j]>> \in earlier
  <2> DEFINE m == Cardinality(1..n)
  <2>1. /\ L \in [1..m -> 1..n]
        /\ \A i, j \in 1..m : L[i] = L[j] => i = j
        /\ \A x \in 1..n : \E i \in 1..m : L[i] = x
        /\ \A i, j \in 1..m : i < j => <<L[i], L[j]>> \in earlier
    BY <1>3, <1>4, ListedOrder
  <2>2. m = n
    BY <1>4
  <2> HIDE DEF m, L
  <2> QED
    BY <2>1, <2>2
<1> HIDE DEF L
<1>6. Sorted(ivals) = [i \in 1..n |-> ivals[L[i]]]
  BY <1>1, <1>5 DEF Through
<1>7. \A i, j \in 1..n : i < j => ivals[L[i]].start <= ivals[L[j]].start
  <2>1. SUFFICES ASSUME NEW i \in 1..n, NEW j \in 1..n, i < j
                 PROVE  ivals[L[i]].start <= ivals[L[j]].start
    OBVIOUS
  <2>2. L[i] \in 1..n /\ L[j] \in 1..n /\ <<L[i], L[j]>> \in earlier
    BY <1>5, <2>1
  <2>3. \/ ivals[L[i]].start < ivals[L[j]].start
        \/ ivals[L[i]].start = ivals[L[j]].start
    BY <1>2, <2>2
  <2>4. ivals[L[i]].start \in Int /\ ivals[L[j]].start \in Int
    BY <2>2
  <2> QED
    BY <2>3, <2>4
<1> QED
  BY <1>5, <1>6, <1>7

\* Sorting keeps a list of intervals a list of intervals, with the same members.
LEMMA SortedList ==
    ASSUME NEW n, NEW T, NEW cap, NEW ivals, IntervalList(ivals, n, T, cap)
    PROVE  LET s == Sorted(ivals) IN
           /\ IntervalList(s, n, T, cap)
           /\ \A i \in 1..n : \E j \in 1..n : s[i] = ivals[j]
           /\ \A j \in 1..n : \E i \in 1..n : s[i] = ivals[j]
           /\ \A i, j \in 1..n : i < j => s[i].start <= s[j].start
<1> DEFINE s == Sorted(ivals)
<1>1. /\ n \in Nat /\ cap \in Nat /\ DOMAIN ivals = 1..n
      /\ \A i \in 1..n : ivals[i] \in Intervals(T)
      /\ \A i \in 1..n : /\ ivals[i].start < ivals[i].end /\ ivals[i].end <= AddrSpace
                         /\ ivals[i].end - ivals[i].start <= cap
      /\ \A i, j \in 1..n : ivals[i].tag = ivals[j].tag => i = j
  BY DEF IntervalList
<1>2. PICK L \in [1..n -> 1..n] :
              /\ s = [i \in 1..n |-> ivals[L[i]]]
              /\ \A i, j \in 1..n : L[i] = L[j] => i = j
              /\ \A x \in 1..n : \E i \in 1..n : L[i] = x
              /\ \A i, j \in 1..n : i < j => ivals[L[i]].start <= ivals[L[j]].start
  <2>1. \A i \in 1..n : ivals[i].start \in Int
    BY <1>1 DEF Intervals
  <2> HIDE DEF s
  <2> QED
    BY <1>1, <2>1, ByStart DEF s
<1> HIDE DEF s
<1>3. \A i \in 1..n : L[i] \in 1..n /\ s[i] = ivals[L[i]]
  BY <1>2
<1>4. IntervalList(s, n, T, cap)
  <2>1. s \in [1..n -> Intervals(T)]
    BY <1>1, <1>2, <1>3
  <2>2. ASSUME NEW i \in 1..n, NEW j \in 1..n, s[i].tag = s[j].tag PROVE i = j
    <3>1. L[i] \in 1..n /\ L[j] \in 1..n /\ ivals[L[i]].tag = ivals[L[j]].tag
      BY <1>3, <2>2
    <3>2. L[i] = L[j]
      BY <1>1, <3>1
    <3> QED
      BY <1>2, <3>2
  <2>3. \A i \in 1..n : /\ s[i].start < s[i].end /\ s[i].end <= AddrSpace
                        /\ s[i].end - s[i].start <= cap
    BY <1>1, <1>3
  <2> QED
    BY <1>1, <2>1, <2>2, <2>3 DEF IntervalList
<1>5. /\ \A i \in 1..n : \E j \in 1..n : s[i] = ivals[j]
      /\ \A j \in 1..n : \E i \in 1..n : s[i] = ivals[j]
  BY <1>2, <1>3
<1>6. \A i, j \in 1..n : i < j => s[i].start <= s[j].start
  BY <1>2, <1>3
<1> QED
  BY <1>4, <1>5, <1>6 DEF s

\* The runs of the coalescer, fields and all.
Fields(T) == [tag : T, off : Int, len : Int]
Runs(T) == [start : Int, end : Int, fields : Seq(Fields(T))]

\* One step of the coalescer either extends the last run or starts a new one.
LEMMA AddedType ==
    ASSUME NEW T, NEW runs \in Seq(Runs(T)), NEW iv \in Intervals(T),
           NEW gap, NEW cap
    PROVE  /\ Added(runs, iv, gap, cap) \in Seq(Runs(T))
           /\ \/ /\ runs # <<>> /\ Extends(runs[Len(runs)], iv, gap, cap)
                 /\ Added(runs, iv, gap, cap) =
                       [runs EXCEPT ![Len(runs)] = Joined(runs[Len(runs)], iv)]
              \/ /\ runs = <<>> \/ ~Extends(runs[Len(runs)], iv, gap, cap)
                 /\ Added(runs, iv, gap, cap) = Append(runs, Started(iv))
<1>1. Started(iv) \in Runs(T)
  BY DEF Started, Runs, Fields, Intervals
<1>2. CASE runs # <<>> /\ Extends(runs[Len(runs)], iv, gap, cap)
  <2> DEFINE n == Len(runs)
             last == runs[n]
             joined == Joined(last, iv)
  <2>1. n \in Nat /\ n > 0 /\ last \in Runs(T) /\ DOMAIN runs = 1..n
    BY <1>2
  <2>2. joined \in Runs(T)
    <3>1. last.start \in Int /\ last.end \in Int /\ last.fields \in Seq(Fields(T))
      BY <2>1 DEF Runs
    <3>2. Larger(last.end, iv.end) \in Int
      BY <3>1 DEF Larger, Intervals
    <3>3. [tag |-> iv.tag, off |-> iv.start - last.start, len |-> iv.end - iv.start] \in Fields(T)
      BY <3>1 DEF Fields, Intervals
    <3> DEFINE fs == Append(last.fields, [tag |-> iv.tag, off |-> iv.start - last.start,
                                          len |-> iv.end - iv.start])
    <3>4. fs \in Seq(Fields(T))
      BY <3>1, <3>3
    <3>5. joined = [last EXCEPT !.end = Larger(last.end, iv.end), !.fields = fs]
      BY DEF Joined
    <3> HIDE DEF fs, last, joined
    <3> QED
      BY <2>1, <3>2, <3>4, <3>5 DEF Runs
  <2>3. Added(runs, iv, gap, cap) = Append(Front(runs), joined)
    BY <1>2 DEF Added, Last
  <2>4. Append(Front(runs), joined) = [runs EXCEPT ![n] = joined]
    <3>1. Front(runs) = [i \in 1..(n - 1) |-> runs[i]]
      <4>1. Front(runs) = SubSeq(runs, 1, n - 1)
        BY DEF Front
      <4> HIDE DEF last, joined
      <4> QED
        BY <4>1, <2>1
    <3>2. Front(runs) \in Seq(Runs(T)) /\ Len(Front(runs)) = n - 1
      <4> HIDE DEF n
      <4>1. n - 1 \in Nat /\ \A i \in 1..(n - 1) : runs[i] \in Runs(T)
        BY <2>1 DEF n
      <4> QED
        BY <3>1, <4>1
    <3> HIDE DEF n, last, joined
    <3> DEFINE a == Append(Front(runs), joined)
               b == [runs EXCEPT ![n] = joined]
    <3>3. a \in Seq(Runs(T)) /\ Len(a) = n /\ DOMAIN a = 1..n /\ a[n] = joined
          /\ \A i \in 1..(n - 1) : a[i] = runs[i]
      <4> HIDE DEF a
      <4>1. a \in Seq(Runs(T)) /\ Len(a) = n
        BY <3>2, <2>1, <2>2 DEF a
      <4>2. a[n] = joined /\ \A i \in 1..(n - 1) : a[i] = runs[i]
        BY <3>1, <3>2, <2>1, <2>2 DEF a
      <4> QED
        BY <4>1, <4>2
    <3>4. DOMAIN b = 1..n /\ \A i \in 1..n : b[i] = IF i = n THEN joined ELSE runs[i]
      BY <2>1
    <3>5. a = [i \in 1..n |-> a[i]] /\ b = [i \in 1..n |-> b[i]]
      <4>1. b = [i \in 1..n |-> b[i]]
        BY <2>1
      <4> HIDE DEF a, b
      <4> QED
        BY <3>3, <4>1
    <3> HIDE DEF a, b
    <3>6. \A i \in 1..n : a[i] = b[i]
      BY <3>3, <3>4, <2>1
    <3>7. a = b
      BY <3>5, <3>6
    <3> QED
      BY <3>7 DEF a, b
  <2>5. [runs EXCEPT ![n] = joined] \in Seq(Runs(T))
    <3> HIDE DEF joined
    <3> QED
      BY <2>1, <2>2
  <2> QED
    BY <1>2, <2>3, <2>4, <2>5
<1>3. CASE ~(runs # <<>> /\ Extends(runs[Len(runs)], iv, gap, cap))
  <2>1. Added(runs, iv, gap, cap) = Append(runs, Started(iv))
    BY <1>3 DEF Added, Last
  <2> QED
    BY <1>1, <1>3, <2>1
<1> QED
  BY <1>2, <1>3

\* The field f of a run is the slice of interval iv.
SliceOf(run, f, iv) ==
    /\ f.tag = iv.tag /\ f.off = iv.start - run.start /\ f.len = iv.end - iv.start
    /\ f.off >= 0 /\ f.off + f.len <= run.end - run.start

\* A run over the first n of the N sorted intervals: inside the address space and the cap, its
\* fields slices of those intervals, and starting no later than any interval to come.
SoundRun(run, s, n, N, cap) ==
    /\ run.start \in Nat /\ run.start < run.end /\ run.end <= AddrSpace
    /\ run.end - run.start <= cap /\ Len(run.fields) > 0
    /\ \A k \in 1..Len(run.fields) : \E i \in 1..n : SliceOf(run, run.fields[k], s[i])
    /\ \A i \in (n + 1)..N : run.start <= s[i].start

\* The first n tags each have a field, and only one.
AllTags(runs, s, n) ==
    \A i \in 1..n : \E x \in 1..Len(runs) : \E k \in 1..Len(runs[x].fields) :
       runs[x].fields[k].tag = s[i].tag

\* No tag has two fields.
OnceEach(runs) ==
    \A x, y \in 1..Len(runs) : \A k \in 1..Len(runs[x].fields), l \in 1..Len(runs[y].fields) :
       runs[x].fields[k].tag = runs[y].fields[l].tag => x = y /\ k = l

\* The runs after the first n of the N sorted intervals.
Packed(runs, s, n, N, T, cap) ==
    /\ runs \in Seq(Runs(T))
    /\ \A x \in 1..Len(runs) : SoundRun(runs[x], s, n, N, cap)
    /\ AllTags(runs, s, n) /\ OnceEach(runs)

\* A sound run stays sound when one more interval has been consumed.
LEMMA SoundRunLater ==
    ASSUME NEW T, NEW run \in Runs(T), NEW s, NEW n \in Nat, NEW N \in Nat, NEW cap,
           SoundRun(run, s, n, N, cap)
    PROVE  SoundRun(run, s, n + 1, N, cap)
  BY DEF SoundRun

\* runs became more by one field for s[n + 1], the last of the last run of more.
Grown(runs, more, s, n) ==
    \E q \in Nat :
       /\ Len(more) \in {Len(runs), Len(runs) + 1} /\ Len(more) > 0
       /\ Len(more) = Len(runs) => q = Len(runs[Len(runs)].fields)
       /\ Len(more) # Len(runs) => q = 0
       /\ Len(more[Len(more)].fields) = q + 1
       /\ more[Len(more)].fields[q + 1].tag = s[n + 1].tag
       /\ \A k \in 1..q : more[Len(more)].fields[k].tag = runs[Len(more)].fields[k].tag
       /\ \A x \in 1..Len(runs) : x # Len(more) => more[x] = runs[x]

\* Runs and their fields can be counted.
Listing(runs) ==
    Len(runs) \in Nat /\ \A x \in 1..Len(runs) : Len(runs[x].fields) \in Nat

\* tag has no field yet.
Fresh(runs, tag) ==
    \A x \in 1..Len(runs) : \A k \in 1..Len(runs[x].fields) : runs[x].fields[k].tag # tag

\* The fields of the runs feed each tag once: one interval more keeps it so.
LEMMA GrownTags ==
    ASSUME NEW n \in Nat, NEW s, NEW runs, NEW more, Grown(runs, more, s, n),
           Listing(runs), Fresh(runs, s[n + 1].tag),
           AllTags(runs, s, n), OnceEach(runs)
    PROVE  AllTags(more, s, n + 1) /\ OnceEach(more)
<1> DEFINE m == Len(runs)
           M == Len(more)
           old(x) == Len(runs[x].fields)
           now(x) == Len(more[x].fields)
           was(x, k) == runs[x].fields[k].tag
           is(x, k) == more[x].fields[k].tag
           new == s[n + 1].tag
<1>1. PICK q \in Nat :
         /\ M \in {m, m + 1} /\ M > 0 /\ (M = m => q = old(m)) /\ (M # m => q = 0)
         /\ now(M) = q + 1 /\ is(M, q + 1) = new /\ \A k \in 1..q : is(M, k) = was(M, k)
         /\ \A x \in 1..m : x # M => more[x] = runs[x]
  BY DEF Grown
<1>2. \A x \in 1..m : x # M => now(x) = old(x) /\ \A k \in 1..old(x) : is(x, k) = was(x, k)
  BY <1>1
<1>3. /\ m \in Nat /\ \A x \in 1..m : old(x) \in Nat
      /\ \A x \in 1..m : \A k \in 1..old(x) : was(x, k) # new
      /\ \A i \in 1..n : \E x \in 1..m : \E k \in 1..old(x) : was(x, k) = s[i].tag
      /\ \A x, y \in 1..m : \A k \in 1..old(x), l \in 1..old(y) :
            was(x, k) = was(y, l) => x = y /\ k = l
  BY DEF AllTags, OnceEach, Listing, Fresh
<1> SUFFICES /\ \A i \in 1..(n + 1) : \E x \in 1..M : \E k \in 1..now(x) : is(x, k) = s[i].tag
             /\ \A x, y \in 1..M : \A k \in 1..now(x), l \in 1..now(y) :
                   is(x, k) = is(y, l) => x = y /\ k = l
  BY DEF AllTags, OnceEach
<1>4. new = s[n + 1].tag
  OBVIOUS
<1> HIDE DEF m, M, old, now, was, is, new
<1>0. M \in Nat
  BY <1>1, <1>3
<1>5. ASSUME NEW x \in 1..M, NEW k \in 1..now(x)
      PROVE  \/ x = M /\ k = q + 1 /\ is(x, k) = new
             \/ x \in 1..m /\ k \in 1..old(x) /\ is(x, k) = was(x, k)
  <2>1. CASE x = M
    BY <1>1, <1>3, <2>1
  <2>2. CASE x # M
    BY <1>1, <1>2, <1>3, <2>2
  <2> QED
    BY <2>1, <2>2
<1>6. ASSUME NEW x \in 1..m, NEW k \in 1..old(x)
      PROVE  x \in 1..M /\ k \in 1..now(x) /\ is(x, k) = was(x, k)
  <2>1. CASE x = M
    <3>1. M = m /\ x = m
      BY <1>1, <1>3, <2>1
    <3>2. q = old(x) /\ now(x) = q + 1 /\ \A l \in 1..q : is(x, l) = was(x, l)
      BY <1>1, <3>1
    <3> QED
      BY <1>0, <2>1, <3>2
  <2>2. CASE x # M
    BY <1>1, <1>2, <1>3, <2>2
  <2> QED
    BY <2>1, <2>2
<1>7. ASSUME NEW i \in 1..(n + 1)
      PROVE  \E x \in 1..M : \E k \in 1..now(x) : is(x, k) = s[i].tag
  <2>1. CASE i = n + 1
    BY <1>1, <1>3, <1>4, <2>1
  <2>2. CASE i \in 1..n
    <3>1. PICK x \in 1..m : \E k \in 1..old(x) : was(x, k) = s[i].tag
      BY <1>3, <2>2
    <3>2. PICK k \in 1..old(x) : was(x, k) = s[i].tag
      BY <3>1
    <3> QED
      BY <1>6, <3>2
  <2> QED
    BY <2>1, <2>2
<1>8. ASSUME NEW x \in 1..M, NEW y \in 1..M, NEW k \in 1..now(x), NEW l \in 1..now(y),
             is(x, k) = is(y, l)
      PROVE  x = y /\ k = l
  <2>1. \/ x = M /\ k = q + 1 /\ is(x, k) = new
        \/ x \in 1..m /\ k \in 1..old(x) /\ is(x, k) = was(x, k)
    BY <1>5
  <2>2. \/ y = M /\ l = q + 1 /\ is(y, l) = new
        \/ y \in 1..m /\ l \in 1..old(y) /\ is(y, l) = was(y, l)
    BY <1>5
  <2>3. CASE x \in 1..m /\ k \in 1..old(x) /\ is(x, k) = was(x, k)
    <3>1. is(x, k) # new
      BY <1>3, <2>3
    <3>2. y \in 1..m /\ l \in 1..old(y) /\ was(x, k) = was(y, l)
      BY <1>8, <2>2, <2>3, <3>1
    <3> QED
      BY <1>3, <2>3, <3>2
  <2>4. CASE x = M /\ k = q + 1 /\ is(x, k) = new
    <3>1. ~(y \in 1..m /\ l \in 1..old(y) /\ is(y, l) = was(y, l))
      BY <1>3, <1>8, <2>4
    <3> QED
      BY <2>2, <2>4, <3>1
  <2> QED
    BY <2>1, <2>3, <2>4
<1> QED
  BY <1>7, <1>8

\* The field a run that begins at start has for an interval.
SliceField(start, iv) ==
    [tag |-> iv.tag, off |-> iv.start - start, len |-> iv.end - iv.start]

\* What a run gains when an interval joins it, and what it starts as.
LEMMA JoinedRun ==
    ASSUME NEW T, NEW run \in Runs(T), NEW iv \in Intervals(T)
    PROVE  LET z == Joined(run, iv)
               q == Len(run.fields)
           IN  /\ z \in Runs(T) /\ q \in Nat
               /\ z.start = run.start /\ z.end = Larger(run.end, iv.end)
               /\ Len(z.fields) = q + 1
               /\ z.fields[q + 1] = SliceField(run.start, iv)
               /\ \A k \in 1..q : z.fields[k] = run.fields[k] /\ run.fields[k] \in Fields(T)
<1> DEFINE fs == run.fields
           f == SliceField(run.start, iv)
           z == Joined(run, iv)
<1>1. run.start \in Int /\ run.end \in Int /\ fs \in Seq(Fields(T))
  BY DEF Runs
<1>2. Larger(run.end, iv.end) \in Int
  BY <1>1 DEF Larger, Intervals
<1>3. f \in Fields(T)
  BY <1>1 DEF Fields, SliceField, Intervals
<1>4. z = [run EXCEPT !.end = Larger(run.end, iv.end), !.fields = Append(fs, f)]
  BY DEF Joined, SliceField
<1>5. Append(fs, f) \in Seq(Fields(T))
  BY <1>1, <1>3
<1> HIDE DEF fs, z
<1>6. z \in Runs(T) /\ z.start = run.start /\ z.end = Larger(run.end, iv.end)
      /\ z.fields = Append(fs, f)
  BY <1>2, <1>4, <1>5 DEF Runs
<1>7. /\ Len(fs) \in Nat /\ Len(Append(fs, f)) = Len(fs) + 1
      /\ Append(fs, f)[Len(fs) + 1] = f
      /\ \A k \in 1..Len(fs) : Append(fs, f)[k] = fs[k] /\ fs[k] \in Fields(T)
  BY <1>1, <1>3
<1> QED
  BY <1>6, <1>7 DEF fs, z

\* A slice of a run stays one when the run grows.
LEMMA SliceLater ==
    ASSUME NEW run, NEW z, NEW f, NEW iv, SliceOf(run, f, iv), z.start = run.start,
           run.start \in Int, run.end \in Int, z.end \in Int, z.end >= run.end,
           f.off \in Int, f.len \in Int
    PROVE  SliceOf(z, f, iv)
  BY DEF SliceOf

\* Joining an interval that starts no earlier and stays within the cap keeps a run sound.
LEMMA SoundJoined ==
    ASSUME NEW T, NEW run \in Runs(T), NEW iv \in Intervals(T),
           NEW s, NEW n \in Nat, NEW N \in Nat, NEW cap \in Nat, n < N, iv = s[n + 1],
           SoundRun(run, s, n, N, cap), iv.start < iv.end, iv.end <= AddrSpace,
           iv.end - run.start <= cap
    PROVE  SoundRun(Joined(run, iv), s, n + 1, N, cap)
<1> DEFINE z == Joined(run, iv)
           q == Len(run.fields)
           f == SliceField(run.start, iv)
<1>1. /\ q \in Nat /\ z.start = run.start /\ z.end = Larger(run.end, iv.end)
      /\ Len(z.fields) = q + 1 /\ z.fields[q + 1] = f
      /\ \A k \in 1..q : z.fields[k] = run.fields[k] /\ run.fields[k] \in Fields(T)
  BY JoinedRun
<1> HIDE DEF z
<1>2. /\ run.start \in Nat /\ run.end \in Int /\ run.start < run.end /\ run.end <= AddrSpace
      /\ run.end - run.start <= cap
      /\ \A k \in 1..q : \E i \in 1..n : SliceOf(run, run.fields[k], s[i])
      /\ \A i \in (n + 1)..N : run.start <= s[i].start
  BY DEF SoundRun, Runs
<1>3. /\ z.end \in Int /\ z.end >= run.end /\ z.end >= iv.end
      /\ z.end = run.end \/ z.end = iv.end
  BY <1>1, <1>2 DEF Larger, Intervals
<1>4. run.start <= iv.start
  BY <1>2
<1>5. ASSUME NEW k \in 1..q PROVE \E i \in 1..(n + 1) : SliceOf(z, z.fields[k], s[i])
  <2>1. PICK i \in 1..n : SliceOf(run, run.fields[k], s[i])
    BY <1>2
  <2>2. z.fields[k] = run.fields[k] /\ run.fields[k].off \in Int /\ run.fields[k].len \in Int
    BY <1>1 DEF Fields
  <2>3. z.start = run.start /\ z.end \in Int /\ run.end \in Int /\ z.end >= run.end
    BY <1>1, <1>2, <1>3
  <2> DEFINE g == run.fields[k]
  <2>4. SliceOf(run, g, s[i]) /\ g.off \in Int /\ g.len \in Int /\ run.start \in Int
    BY <1>2, <2>1, <2>2
  <2> HIDE DEF g
  <2>5. SliceOf(z, g, s[i])
    BY ONLY <2>3, <2>4, SliceLater
  <2>6. i \in 1..(n + 1)
    OBVIOUS
  <2> QED
    BY <2>2, <2>5, <2>6 DEF g
<1>6. SliceOf(z, z.fields[q + 1], s[n + 1])
  <2>1. SliceOf(z, f, iv)
    BY <1>1, <1>2, <1>3, <1>4 DEF SliceOf, SliceField, Intervals
  <2> QED
    BY <1>1, <2>1
<1>7. \A k \in 1..Len(z.fields) : \E i \in 1..(n + 1) : SliceOf(z, z.fields[k], s[i])
  <2>1. n + 1 \in 1..(n + 1) /\ \A k \in 1..Len(z.fields) : k \in 1..q \/ k = q + 1
    BY <1>1
  <2> HIDE DEF q
  <2> QED
    BY <1>5, <1>6, <2>1
<1>8. \A i \in (n + 2)..N : z.start <= s[i].start
  <2>1. z.start = run.start /\ \A i \in (n + 2)..N : i \in (n + 1)..N
    BY <1>1
  <2> QED
    BY <1>2, <2>1
<1>9. z.start \in Nat /\ z.start < z.end /\ z.end <= AddrSpace /\ z.end - z.start <= cap
  BY <1>1, <1>2, <1>3
<1>10. Len(z.fields) > 0 /\ (n + 1) + 1 = n + 2
  BY <1>1
<1> QED
  BY <1>7, <1>8, <1>9, <1>10 DEF SoundRun, z

\* A run started by one interval is sound.
LEMMA SoundStarted ==
    ASSUME NEW T, NEW iv \in Intervals(T),
           NEW s, NEW n \in Nat, NEW N \in Nat, NEW cap \in Nat, n < N, iv = s[n + 1],
           iv.start < iv.end, iv.end <= AddrSpace, iv.end - iv.start <= cap,
           \A i \in (n + 2)..N : iv.start <= s[i].start
    PROVE  /\ SoundRun(Started(iv), s, n + 1, N, cap) /\ Started(iv) \in Runs(T)
           /\ Len(Started(iv).fields) = 1 /\ Started(iv).fields[1].tag = iv.tag
<1> DEFINE z == Started(iv)
           f == [tag |-> iv.tag, off |-> 0, len |-> iv.end - iv.start]
<1>1. z.start = iv.start /\ z.end = iv.end /\ Len(z.fields) = 1 /\ z.fields[1] = f
  BY DEF Started
<1>2. z \in Runs(T)
  BY DEF Started, Runs, Fields, Intervals
<1> HIDE DEF z
<1>3. SliceOf(z, z.fields[1], s[n + 1])
  <2>1. SliceOf(z, f, iv)
    BY <1>1 DEF SliceOf, Intervals
  <2> QED
    BY <1>1, <2>1
<1>4. \A k \in 1..Len(z.fields) : \E i \in 1..(n + 1) : SliceOf(z, z.fields[k], s[i])
  BY <1>1, <1>3
<1> QED
  BY <1>1, <1>2, <1>4 DEF SoundRun, z, Intervals

\* One step of the coalescer keeps its runs sound, complete and free of repetition
\* (coalesce.rs:38-60).
LEMMA PackedMore ==
    ASSUME NEW N, NEW T, NEW cap, NEW s, IntervalList(s, N, T, cap),
           \A i, j \in 1..N : i < j => s[i].start <= s[j].start,
           NEW n \in 0..(N - 1), NEW runs, Packed(runs, s, n, N, T, cap), NEW gap
    PROVE  Packed(Added(runs, s[n + 1], gap, cap), s, n + 1, N, T, cap)
<1> DEFINE m == Len(runs)
           iv == s[n + 1]
           more == Added(runs, iv, gap, cap)
<1>1. /\ N \in Nat /\ cap \in Nat /\ n + 1 \in 1..N /\ n \in Nat /\ n < N
      /\ iv \in Intervals(T)
      /\ iv.start < iv.end /\ iv.end <= AddrSpace /\ iv.end - iv.start <= cap
      /\ \A i \in 1..n : s[i].tag # iv.tag
      /\ \A i \in (n + 2)..N : iv.start <= s[i].start
  <2>1. /\ N \in Nat /\ cap \in Nat /\ n + 1 \in 1..N /\ n \in Nat
        /\ s \in [1..N -> Intervals(T)]
    BY DEF IntervalList
  <2>2. ASSUME NEW i \in 1..n PROVE s[i].tag # iv.tag
    BY <2>1 DEF IntervalList
  <2> QED
    BY <2>1, <2>2 DEF IntervalList
<1>2. /\ runs \in Seq(Runs(T)) /\ m \in Nat
      /\ \A x \in 1..m : runs[x] \in Runs(T) /\ SoundRun(runs[x], s, n, N, cap)
      /\ AllTags(runs, s, n) /\ OnceEach(runs)
  BY DEF Packed
<1>3. /\ more \in Seq(Runs(T))
      /\ \/ /\ runs # <<>> /\ Extends(runs[m], iv, gap, cap)
            /\ more = [runs EXCEPT ![m] = Joined(runs[m], iv)]
         \/ more = Append(runs, Started(iv))
  <2> HIDE DEF iv
  <2>1. /\ more \in Seq(Runs(T))
        /\ \/ /\ runs # <<>> /\ Extends(runs[Len(runs)], iv, gap, cap)
              /\ more = [runs EXCEPT ![Len(runs)] = Joined(runs[Len(runs)], iv)]
           \/ /\ runs = <<>> \/ ~Extends(runs[Len(runs)], iv, gap, cap)
              /\ more = Append(runs, Started(iv))
    BY <1>1, <1>2, AddedType
  <2> QED
    BY <2>1
<1>4. \A x \in 1..m : \A k \in 1..Len(runs[x].fields) : runs[x].fields[k].tag # iv.tag
  <2>1. SUFFICES ASSUME NEW x \in 1..m, NEW k \in 1..Len(runs[x].fields)
                 PROVE  runs[x].fields[k].tag # iv.tag
    OBVIOUS
  <2>2. PICK i \in 1..n : SliceOf(runs[x], runs[x].fields[k], s[i])
    BY <1>2 DEF SoundRun
  <2> HIDE DEF iv, m
  <2> QED
    BY <1>1, <2>2 DEF SliceOf
<1>5. \A x \in 1..m : Len(runs[x].fields) \in Nat
  <2>1. SUFFICES ASSUME NEW x \in 1..m PROVE Len(runs[x].fields) \in Nat
    OBVIOUS
  <2>2. runs[x].fields \in Seq(Fields(T))
    BY <1>2 DEF Runs
  <2> QED
    BY <2>2
<1>6. /\ Grown(runs, more, s, n)
      /\ \A x \in 1..Len(more) : SoundRun(more[x], s, n + 1, N, cap)
  <2> HIDE DEF more, m
  <2>1. CASE runs # <<>> /\ Extends(runs[m], iv, gap, cap)
             /\ more = [runs EXCEPT ![m] = Joined(runs[m], iv)]
    <3> DEFINE z == Joined(runs[m], iv)
               q == Len(runs[m].fields)
    <3>1. m \in 1..m /\ m > 0 /\ runs[m] \in Runs(T) /\ SoundRun(runs[m], s, n, N, cap)
          /\ q \in Nat
      BY <1>2, <1>5, <2>1 DEF m
    <3>2. iv.end - runs[m].start <= cap
      BY <2>1 DEF Extends
    <3>3. SoundRun(z, s, n + 1, N, cap)
      <4> HIDE DEF iv
      <4>1. iv = s[n + 1]
        BY DEF iv
      <4> QED
        BY <1>1, <3>1, <3>2, <4>1, SoundJoined
    <3>4. /\ Len(z.fields) = q + 1 /\ z.fields[q + 1].tag = iv.tag
          /\ \A k \in 1..q : z.fields[k] = runs[m].fields[k]
      <4> DEFINE f == SliceField(runs[m].start, iv)
      <4>1. /\ Len(z.fields) = q + 1 /\ z.fields[q + 1] = f
            /\ \A k \in 1..q : z.fields[k] = runs[m].fields[k]
        <5> HIDE DEF iv
        <5> QED
          BY <1>1, <3>1, JoinedRun
      <4>2. f.tag = iv.tag
        BY DEF SliceField
      <4> HIDE DEF z, q, iv, f
      <4> QED
        BY <4>1, <4>2
    <3> HIDE DEF z, q
    <3>5. Len(more) = m /\ more[m] = z /\ \A x \in 1..m : x # m => more[x] = runs[x]
      <4>1. more = [runs EXCEPT ![m] = z]
        BY <2>1 DEF z
      <4>2. Len(runs) = m /\ DOMAIN runs = 1..m
        BY <1>2 DEF m
      <4>3. DOMAIN more = 1..m /\ DOMAIN more = 1..Len(more) /\ Len(more) \in Nat
        BY <1>3, <4>1, <4>2
      <4> QED
        BY <3>1, <4>1, <4>2, <4>3
    <3>6. \A x \in 1..m : SoundRun(more[x], s, n + 1, N, cap)
      BY <1>1, <1>2, <3>3, <3>5, SoundRunLater
    <3>7. Grown(runs, more, s, n)
      <4>1. /\ q \in Nat /\ Len(more) = Len(runs) /\ Len(runs) > 0
            /\ q = Len(runs[Len(runs)].fields) /\ Len(more[Len(more)].fields) = q + 1
            /\ more[Len(more)].fields[q + 1].tag = s[n + 1].tag
            /\ \A k \in 1..q : more[Len(more)].fields[k].tag = runs[Len(more)].fields[k].tag
            /\ \A x \in 1..Len(runs) : x # Len(more) => more[x] = runs[x]
        BY <3>1, <3>4, <3>5 DEF m, q, iv
      <4> QED
        BY <4>1 DEF Grown
    <3> QED
      BY <3>5, <3>6, <3>7
  <2>2. CASE more = Append(runs, Started(iv))
    <3> DEFINE z == Started(iv)
    <3>1. /\ SoundRun(z, s, n + 1, N, cap) /\ z \in Runs(T)
          /\ Len(z.fields) = 1 /\ z.fields[1].tag = iv.tag
      <4> HIDE DEF iv
      <4>1. iv = s[n + 1]
        BY DEF iv
      <4> QED
        BY <1>1, <4>1, SoundStarted
    <3> HIDE DEF z
    <3>2. Len(more) = m + 1 /\ more[m + 1] = z /\ \A x \in 1..m : more[x] = runs[x]
      BY <1>2, <2>2, <3>1 DEF z, m
    <3>3. \A x \in 1..(m + 1) : SoundRun(more[x], s, n + 1, N, cap)
      <4>1. \A x \in 1..m : SoundRun(runs[x], s, n + 1, N, cap)
        BY <1>1, <1>2, SoundRunLater
      <4>2. m \in Nat
        BY <1>2
      <4> QED
        BY <3>1, <3>2, <4>1, <4>2
    <3>4. Grown(runs, more, s, n)
      <4>1. /\ Len(more) = Len(runs) + 1 /\ Len(more) > 0 /\ Len(more) # Len(runs)
            /\ Len(more[Len(more)].fields) = 0 + 1
            /\ more[Len(more)].fields[0 + 1].tag = s[n + 1].tag
            /\ \A x \in 1..Len(runs) : x # Len(more) => more[x] = runs[x]
        BY <1>2, <3>1, <3>2 DEF m, iv
      <4>2. \A k \in 1..0 : more[Len(more)].fields[k].tag = runs[Len(more)].fields[k].tag
        OBVIOUS
      <4> QED
        BY <4>1, <4>2 DEF Grown
    <3> QED
      BY <3>2, <3>3, <3>4
  <2> QED
    BY <1>3, <2>1, <2>2
<1>7. AllTags(more, s, n + 1) /\ OnceEach(more)
  <2>1. Listing(runs) /\ Fresh(runs, s[n + 1].tag)
    BY <1>2, <1>4, <1>5 DEF Listing, Fresh
  <2> HIDE DEF more, m, iv
  <2> QED
    BY <1>1, <1>2, <1>6, <2>1, GrownTags
<1> HIDE DEF more
<1> QED
  BY <1>3, <1>6, <1>7 DEF Packed, more, iv

\* f tells the coalescer's runs after each of the sorted intervals.
Folds(f, s, N, T, gap, cap) ==
    /\ f \in [0..N -> Seq(Runs(T))] /\ f[0] = <<>>
    /\ \A n \in 1..N : f[n] = Added(f[n - 1], s[n], gap, cap)

\* Coalesce is the fold of Added over the sorted intervals.
LEMMA CoalesceFolds ==
    ASSUME NEW area, NEW N, NEW T, NEW cap, cap = MaxQty(area),
           NEW ivals, IntervalList(ivals, N, T, cap), NEW gap
    PROVE  \E f : /\ Folds(f, Sorted(ivals), N, T, gap, cap)
                  /\ Coalesce(area, ivals, gap) = [i \in DOMAIN f[N] |-> Emit(area, f[N][i])]
<1> DEFINE s == Sorted(ivals)
           A == Seq(Runs(T))
           Up(f) == f = [n \in 0..N |-> IF n = 0 THEN <<>> ELSE Added(f[n - 1], s[n], gap, cap)]
           h == CHOOSE f : Up(f)
<1>1. N \in Nat /\ Len(ivals) = N
  <2>1. N \in Nat /\ ivals = [i \in 1..N |-> ivals[i]]
    BY DEF IntervalList
  <2> QED
    BY <2>1, SeqIntro
<1>2. IntervalList(s, N, T, cap)
  BY SortedList
<1>3. \A n \in 1..N : s[n] \in Intervals(T)
  <2> HIDE DEF s
  <2> QED
    BY <1>2 DEF IntervalList
<1>4. Coalesce(area, ivals, gap) = [i \in DOMAIN h[N] |-> Emit(area, h[N][i])]
  BY <1>1 DEF Coalesce
<1> HIDE DEF s
<1>5. \E f : Up(f)
  <2> DEFINE G == [n \in 1..N |-> [x \in A |-> Added(x, s[n], gap, cap)]]
  <2>1. Steps(G, N, A)
    <3>1. ASSUME NEW n \in 1..N, NEW x \in A PROVE Added(x, s[n], gap, cap) \in A
      BY <1>3, AddedType
    <3> HIDE DEF A
    <3>2. G \in [1..N -> [A -> A]]
      BY <3>1
    <3> HIDE DEF G
    <3> QED
      BY <3>2 DEF Steps
  <2>2. << >> \in A
    OBVIOUS
  <2>3. \E f : Iterates(f, N, A, << >>, G)
    <3> HIDE DEF A, G
    <3> QED
      BY <1>1, <2>1, <2>2, Iteration
  <2>4. PICK f : f \in [0..N -> A] /\ f[0] = <<>> /\ \A n \in 1..N : f[n] = G[n][f[n - 1]]
    <3> HIDE DEF A, G
    <3> QED
      BY <2>3 DEF Iterates
  <2>5. \A n \in 1..N : f[n] = Added(f[n - 1], s[n], gap, cap)
    <3>1. SUFFICES ASSUME NEW n \in 1..N PROVE f[n] = Added(f[n - 1], s[n], gap, cap)
      OBVIOUS
    <3>2. n - 1 \in 0..N
      BY <1>1
    <3> HIDE DEF A
    <3>3. f[n - 1] \in A
      BY <2>4, <3>2
    <3> QED
      BY <2>4, <3>3
  <2>6. Up(f)
    <3>1. f = [n \in 0..N |-> f[n]]
      BY <2>4
    <3>2. \A n \in 0..N : f[n] = IF n = 0 THEN <<>> ELSE Added(f[n - 1], s[n], gap, cap)
      BY <1>1, <2>4, <2>5
    <3> HIDE DEF A
    <3> QED
      BY <3>1, <3>2
  <2> QED
    BY <2>6
<1>6. Up(h)
  BY <1>5
<1> HIDE DEF h
<1>7. h[0] = <<>> /\ \A n \in 1..N : h[n] = Added(h[n - 1], s[n], gap, cap)
  BY <1>1, <1>6
<1>8. h \in [0..N -> A]
  <2> DEFINE S == {n \in Nat : n <= N => h[n] \in A}
  <2>1. 0 \in S
    <3>1. <<>> \in A
      OBVIOUS
    <3> HIDE DEF A
    <3> QED
      BY <1>7, <3>1
  <2>2. ASSUME NEW n \in Nat, n \in S PROVE n + 1 \in S
    <3>1. SUFFICES ASSUME n + 1 <= N PROVE h[n + 1] \in A
      OBVIOUS
    <3>2. h[n] \in A /\ n + 1 \in 1..N /\ (n + 1) - 1 = n
      BY <1>1, <2>2, <3>1
    <3>3. h[n + 1] = Added(h[n], s[n + 1], gap, cap)
      BY <1>7, <3>2
    <3> QED
      BY <1>3, <3>2, <3>3, AddedType
  <2>3. Nat \subseteq S
    <3> HIDE DEF S
    <3> QED
      BY <2>1, <2>2, NatInd
  <2>4. \A n \in 0..N : h[n] \in A
    <3> HIDE DEF A
    <3> QED
      BY <1>1, <2>3
  <2>5. h = [n \in 0..N |-> h[n]]
    <3> HIDE DEF A
    <3> QED
      BY <1>6
  <2> HIDE DEF A
  <2> QED
    BY <2>4, <2>5
<1>9. Folds(h, s, N, T, gap, cap)
  BY <1>7, <1>8 DEF Folds
<1> QED
  BY <1>4, <1>9 DEF s

\* All steps of the coalescer together.
LEMMA FoldsPack ==
    ASSUME NEW N, NEW T, NEW cap, NEW s, IntervalList(s, N, T, cap),
           \A i, j \in 1..N : i < j => s[i].start <= s[j].start,
           NEW gap, NEW f, Folds(f, s, N, T, gap, cap)
    PROVE  Packed(f[N], s, N, N, T, cap)
<1> DEFINE S == {n \in Nat : n <= N => Packed(f[n], s, n, N, T, cap)}
<1>1. N \in Nat
  BY DEF IntervalList
<1>2. f[0] = <<>> /\ \A n \in 1..N : f[n] = Added(f[n - 1], s[n], gap, cap)
  BY DEF Folds
<1>3. 0 \in S
  <2>1. Len(<<>>) = 0 /\ <<>> \in Seq(Runs(T))
    OBVIOUS
  <2>2. Packed(<<>>, s, 0, N, T, cap)
    BY <2>1 DEF Packed, AllTags, OnceEach
  <2> QED
    BY <1>2, <2>2
<1>4. ASSUME NEW n \in Nat, n \in S PROVE n + 1 \in S
  <2>1. SUFFICES ASSUME n + 1 <= N PROVE Packed(f[n + 1], s, n + 1, N, T, cap)
    OBVIOUS
  <2>2. Packed(f[n], s, n, N, T, cap) /\ n \in 0..(N - 1) /\ n + 1 \in 1..N /\ (n + 1) - 1 = n
    BY <1>1, <1>4, <2>1
  <2>3. f[n + 1] = Added(f[n], s[n + 1], gap, cap)
    BY <1>2, <2>2
  <2> QED
    BY <2>2, <2>3, PackedMore
<1> HIDE DEF S
<1>5. N \in S
  BY <1>1, <1>3, <1>4, NatInd
<1> USE DEF S
<1> QED
  BY <1>1, <1>5

\* A request of the plan: what Modbus can carry, and where its fields lie in it.
SoundRead(t, area) ==
    /\ t.area = area /\ t.base \in Nat /\ t.qty \in 1..MaxQty(area)
    /\ t.base + t.qty <= AddrSpace
    /\ IsSeq(t.fields) /\ Len(t.fields) > 0

\* A field has a tag, an offset and a length, and nothing else.
Shaped(f) == f = [tag |-> f.tag, off |-> f.off, len |-> f.len]

\* The field f of request t reads an interval.
Reads(t, f, iv) ==
    /\ Shaped(f)
    /\ f.tag = iv.tag /\ t.base + f.off = iv.start /\ f.len = iv.end - iv.start
    /\ f.off \in Nat /\ f.len \in Nat /\ f.off + f.len <= t.qty

\* OnceEach looks at the fields only.
LEMMA OnceEachFields ==
    ASSUME NEW s, NEW t, Len(s) = Len(t), OnceEach(t),
           \A x \in 1..Len(s) : s[x].fields = t[x].fields
    PROVE  OnceEach(s)
<1> SUFFICES ASSUME NEW x \in 1..Len(s), NEW y \in 1..Len(s),
                    NEW k \in 1..Len(s[x].fields), NEW l \in 1..Len(s[y].fields),
                    s[x].fields[k].tag = s[y].fields[l].tag
             PROVE  x = y /\ k = l
  BY DEF OnceEach
<1>1. /\ k \in 1..Len(t[x].fields) /\ l \in 1..Len(t[y].fields)
      /\ t[x].fields[k].tag = t[y].fields[l].tag
  OBVIOUS
<1> QED
  BY <1>1 DEF OnceEach

\* A slice of a run is what its request reads there.
LEMMA SliceReads ==
    ASSUME NEW t, NEW f, NEW iv, NEW a \in Nat, NEW b \in Int, t.base = a, t.qty = b - a,
           Shaped(f), f.off \in Int, f.len \in Int, f.off >= 0, f.off + f.len <= b - a,
           iv.start \in Nat, iv.end \in Nat, iv.start < iv.end,
           f.tag = iv.tag, f.off = iv.start - a, f.len = iv.end - iv.start
    PROVE  Reads(t, f, iv)
  BY DEF Reads

\* What Coalesce returns: blocks Modbus can carry, each interval fed by exactly one field, and
\* every field an interval at its own offset (coalesce.rs:33-66).
LEMMA CoalesceParts ==
    ASSUME NEW area, NEW N, NEW T, NEW cap, cap = MaxQty(area),
           NEW ivals, IntervalList(ivals, N, T, cap), NEW gap
    PROVE  LET txns == Coalesce(area, ivals, gap) IN
           /\ IsSeq(txns) /\ Listing(txns) /\ AllTags(txns, ivals, N) /\ OnceEach(txns)
           /\ \A x \in 1..Len(txns) : SoundRead(txns[x], area)
           /\ \A x \in 1..Len(txns) : \A k \in 1..Len(txns[x].fields) :
                 \E i \in 1..N : Reads(txns[x], txns[x].fields[k], ivals[i])
<1> DEFINE s == Sorted(ivals)
           txns == Coalesce(area, ivals, gap)
<1>1. PICK f : Folds(f, s, N, T, gap, cap) /\ txns = [i \in DOMAIN f[N] |-> Emit(area, f[N][i])]
  BY CoalesceFolds
<1>2. /\ IntervalList(s, N, T, cap)
      /\ \A i \in 1..N : \E j \in 1..N : s[i] = ivals[j]
      /\ \A j \in 1..N : \E i \in 1..N : s[i] = ivals[j]
      /\ \A i, j \in 1..N : i < j => s[i].start <= s[j].start
  BY SortedList
<1> HIDE DEF s, txns
<1> DEFINE runs == f[N]
<1>3. Packed(runs, s, N, N, T, cap)
  BY <1>1, <1>2, FoldsPack
<1> HIDE DEF runs
<1>4. /\ runs \in Seq(Runs(T)) /\ AllTags(runs, s, N) /\ OnceEach(runs)
      /\ \A x \in 1..Len(runs) : SoundRun(runs[x], s, N, N, cap)
  BY <1>3 DEF Packed
<1> DEFINE m == Len(runs)
<1>5. m \in Nat /\ DOMAIN runs = 1..m /\ \A x \in 1..m : runs[x] \in Runs(T)
  BY <1>4
<1> HIDE DEF m
<1>6. txns = [x \in 1..m |-> Emit(area, runs[x])]
  BY <1>1, <1>5 DEF runs
<1>7. IsSeq(txns) /\ Len(txns) = m
  <2>1. txns = [x \in 1..m |-> txns[x]]
    BY <1>6
  <2> QED
    BY <1>5, <2>1, SeqIntro
<1>8. cap \in 1..(AddrSpace - 1) /\ AddrSpace \in Nat
  BY CapsAssumption DEF MaxQty
<1>9. ASSUME NEW x \in 1..m
      PROVE  /\ txns[x].fields = runs[x].fields /\ SoundRead(txns[x], area)
             /\ txns[x].base = runs[x].start /\ txns[x].qty = runs[x].end - runs[x].start
  <2> DEFINE run == runs[x]
             t == Emit(area, run)
  <2>1. SoundRun(run, s, N, N, cap) /\ run \in Runs(T)
    BY <1>4, <1>5 DEF m
  <2>2. /\ t.area = area /\ t.base = run.start % AddrSpace
        /\ t.qty = (run.end - run.start) % AddrSpace
        /\ t.fields = run.fields
    BY DEF Emit
  <2>3. txns[x] = t
    BY <1>6
  <2> HIDE DEF t, run
  <2>4. run.start \in 0..(AddrSpace - 1) /\ run.end - run.start \in 1..cap /\ run.end <= AddrSpace
        /\ run.end \in Int /\ Len(run.fields) > 0
    BY <1>8, <2>1 DEF SoundRun, Runs
  <2>5. t.base = run.start /\ t.qty = run.end - run.start
    <3>1. \A n \in 0..(AddrSpace - 1) : n % AddrSpace = n
      BY <1>8
    <3>2. run.end - run.start \in 0..(AddrSpace - 1)
      BY <1>8, <2>4
    <3> QED
      BY <2>2, <2>4, <3>1, <3>2
  <2>6. IsSeq(run.fields)
    <3>1. run.fields \in Seq(Fields(T))
      BY <2>1 DEF Runs
    <3> QED
      BY <3>1, SeqMember
  <2>7. SoundRead(t, area)
    <3>1. /\ t.base \in Nat /\ t.qty \in 1..MaxQty(area) /\ t.base + t.qty <= AddrSpace
      BY <1>8, <2>4, <2>5
    <3> QED
      BY <2>2, <2>4, <2>6, <3>1 DEF SoundRead
  <2> QED
    BY <2>2, <2>3, <2>5, <2>7 DEF run
<1>10. Listing(txns) /\ OnceEach(txns)
  <2>1. \A x \in 1..m : Len(txns[x].fields) \in Nat
    BY <1>9, SeqElim DEF SoundRead
  <2>2. \A x \in 1..Len(txns) : txns[x].fields = runs[x].fields
    BY <1>7, <1>9
  <2>3. Len(txns) = Len(runs)
    BY <1>7 DEF m
  <2>4. OnceEach(txns)
    <3>1. OnceEach(runs)
      BY <1>4
    <3> QED
      BY ONLY <2>2, <2>3, <3>1, OnceEachFields
  <2> QED
    BY <1>5, <1>7, <2>1, <2>4 DEF Listing
<1>11. AllTags(txns, ivals, N)
  <2>1. SUFFICES ASSUME NEW j \in 1..N
                 PROVE  \E x \in 1..m : \E k \in 1..Len(txns[x].fields) :
                           txns[x].fields[k].tag = ivals[j].tag
    BY <1>7 DEF AllTags
  <2>2. PICK i \in 1..N : s[i] = ivals[j]
    BY <1>2
  <2>3. \E x \in 1..m : \E k \in 1..Len(runs[x].fields) : runs[x].fields[k].tag = s[i].tag
    BY <1>4 DEF AllTags, m
  <2> QED
    BY <1>9, <2>2, <2>3
<1>12. ASSUME NEW x \in 1..m, NEW k \in 1..Len(txns[x].fields)
       PROVE  \E i \in 1..N : Reads(txns[x], txns[x].fields[k], ivals[i])
  <2> DEFINE g == runs[x].fields[k]
  <2>1. SoundRun(runs[x], s, N, N, cap) /\ runs[x] \in Runs(T)
        /\ k \in 1..Len(runs[x].fields)
    BY <1>4, <1>5, <1>9 DEF m
  <2>2. PICK i \in 1..N : SliceOf(runs[x], g, s[i])
    BY <2>1 DEF SoundRun
  <2>3. PICK j \in 1..N : s[i] = ivals[j]
    BY <1>2
  <2>4. g \in Fields(T) /\ txns[x].fields[k] = g
    <3>1. runs[x].fields \in Seq(Fields(T))
      BY <2>1 DEF Runs
    <3> QED
      BY <1>9, <2>1, <3>1
  <2> HIDE DEF g
  <2>5. s[i] \in Intervals(T) /\ s[i].start < s[i].end
    BY <1>2 DEF IntervalList
  <2>6. runs[x].start \in Nat /\ runs[x].end \in Int
    BY <2>1 DEF SoundRun, Runs
  <2>7. Reads(txns[x], g, s[i])
    <3>1. s[i].start \in Nat /\ s[i].end \in Nat /\ g.off \in Int /\ g.len \in Int
      BY <2>4, <2>5 DEF Intervals, Fields
    <3>2. /\ g.tag = s[i].tag /\ g.off = s[i].start - runs[x].start
          /\ g.len = s[i].end - s[i].start
          /\ g.off >= 0 /\ g.off + g.len <= runs[x].end - runs[x].start
      BY <2>2 DEF SliceOf
    <3>3. txns[x].base = runs[x].start /\ txns[x].qty = runs[x].end - runs[x].start
      BY <1>9
    <3>4. Shaped(g)
      BY <2>4 DEF Fields, Shaped
    <3> QED
      BY ONLY <2>5, <2>6, <3>1, <3>2, <3>3, <3>4, SliceReads
  <2> QED
    BY <2>3, <2>4, <2>7
<1> QED
  BY <1>7, <1>9, <1>10, <1>11, <1>12 DEF txns

-----------------------------------------------------------------------------
(* The requests of one device and poll group                               *)

\* Registers as resolution leaves them, when validation found no error.
SoundRegisters(regs) ==
    /\ IsSeq(regs)
    /\ \A r \in DOMAIN regs :
          /\ regs[r].fn = "Custom" \/ IsRead(regs[r].fn)
          /\ regs[r].address \in Nat /\ regs[r].response \in Nat \cup {None}
          /\ IsRead(regs[r].fn) =>
                /\ EntrySpan(regs[r], ReadArea[regs[r].fn]) \in 1..MaxQty(ReadArea[regs[r].fn])
                /\ regs[r].address + EntrySpan(regs[r], ReadArea[regs[r].fn]) <= AddrSpace
    /\ \A q, r \in DOMAIN regs : regs[q].tag = regs[r].tag => q = r

\* A request with at least one field, and a read Modbus can carry when it is a read.
SoundTxn(t) ==
    /\ IsSeq(t.fields) /\ Len(t.fields) > 0
    /\ t.area = "custom" \/ (t.area \in ToSet(Areas) /\ SoundRead(t, t.area))

\* The field f of request t is entry e's.
FieldOf(t, f, e) ==
    /\ Shaped(f)
    /\ f.tag = e.tag /\ f.off \in Nat /\ f.len \in Nat
    /\ IsRead(e.fn) => /\ t.area = ReadArea[e.fn] /\ t.base + f.off = e.address
                       /\ f.len = EntrySpan(e, t.area)
    /\ t.area # "custom" => IsRead(e.fn) /\ f.off + f.len <= t.qty

\* The requests txns hold one field for each of the registers S, and no other field.
FeedsFrom(txns, regs, S) ==
    /\ IsSeq(txns) /\ OnceEach(txns) /\ S \subseteq DOMAIN regs
    /\ \A x \in 1..Len(txns) : SoundTxn(txns[x])
    /\ \A x \in 1..Len(txns) : \A k \in 1..Len(txns[x].fields) :
          \E r \in S : FieldOf(txns[x], txns[x].fields[k], regs[r])
    /\ \A r \in S : \E x \in 1..Len(txns) : \E k \in 1..Len(txns[x].fields) :
          txns[x].fields[k].tag = regs[r].tag

\* There are four areas, no two of them equal, and every read function has one.
LEMMA AreaDistinct ==
    /\ DOMAIN Areas = 1..4
    /\ \A a \in 1..4 : Areas[a] \in ToSet(Areas) /\ Areas[a] # "custom"
    /\ \A a, b \in 1..4 : Areas[a] = Areas[b] => a = b
    /\ \A fn \in DOMAIN ReadArea : \E a \in 1..4 : Areas[a] = ReadArea[fn]
    /\ ~IsRead("Custom")
  BY DEF Areas, ToSet, ReadArea, IsRead

\* The registers of poll group g that are read from an area, the intervals they ask for, and
\* what the two have to do with each other.
AreaSet(regs, g, area) ==
    {r \in DOMAIN regs : /\ regs[r].group = g /\ IsRead(regs[r].fn)
                         /\ ReadArea[regs[r].fn] = area}

AreaIntervals(regs, g, area) ==
    [i \in DOMAIN ReadsOf(regs, g, area) |-> ToInterval(ReadsOf(regs, g, area)[i], area)]

AreaList(regs, g, area, ivals, n, L) ==
    /\ IntervalList(ivals, n, {regs[r].tag : r \in DOMAIN regs}, MaxQty(area))
    /\ \A i \in 1..n : /\ L[i] \in AreaSet(regs, g, area)
                       /\ ivals[i].start = regs[L[i]].address /\ ivals[i].tag = regs[L[i]].tag
                       /\ ivals[i].end = regs[L[i]].address + EntrySpan(regs[L[i]], area)
    /\ \A x \in AreaSet(regs, g, area) : \E i \in 1..n : L[i] = x

\* The reads of one group in one area, as intervals, are the registers of that area.
LEMMA AreaIntervalList ==
    ASSUME NEW regs, SoundRegisters(regs), NEW g, NEW a \in 1..4
    PROVE  AreaList(regs, g, Areas[a], AreaIntervals(regs, g, Areas[a]),
                    Cardinality(AreaSet(regs, g, Areas[a])),
                    Ascending(AreaSet(regs, g, Areas[a])))
<1> DEFINE area == Areas[a]
           S == AreaSet(regs, g, area)
           of == ReadsOf(regs, g, area)
           ivals == [i \in DOMAIN of |-> ToInterval(of[i], area)]
           cap == MaxQty(area)
           n == Cardinality(S)
           L == Ascending(S)
           T == {regs[r].tag : r \in DOMAIN regs}
<1>1. S \in SUBSET DOMAIN regs
  BY DEF AreaSet
<1>2. of = Through(regs, L)
  BY DEF ReadsOf, AreaSet
<1>4. \A r \in S : /\ IsRead(regs[r].fn) /\ ReadArea[regs[r].fn] = area
                   /\ EntrySpan(regs[r], area) \in 1..cap /\ regs[r].address \in Nat
                   /\ regs[r].address + EntrySpan(regs[r], area) <= AddrSpace
                   /\ regs[r].tag \in T /\ r \in DOMAIN regs
  BY DEF SoundRegisters, AreaSet
<1>5. IsSeq(regs) /\ \A q, r \in DOMAIN regs : regs[q].tag = regs[r].tag => q = r
  BY DEF SoundRegisters
<1> HIDE DEF S, T, area, cap, of
<1>6. /\ n \in Nat /\ IsSeq(of) /\ DOMAIN of = 1..n
      /\ \A i \in 1..n : L[i] \in S /\ of[i] = regs[L[i]]
      /\ \A i, j \in 1..n : L[i] = L[j] => i = j
      /\ \A x \in S : \E i \in 1..n : L[i] = x
  <2> DEFINE t == Through(regs, L)
  <2>1. /\ n \in Nat /\ IsSeq(t) /\ Len(t) = n /\ DOMAIN t = 1..n
        /\ \A i \in 1..n : L[i] \in S /\ t[i] = regs[L[i]]
        /\ \A i, j \in 1..n : L[i] = L[j] => i = j
        /\ \A x \in S : \E i \in 1..n : L[i] = x
    BY <1>1, <1>5, KeptPositions
  <2> QED
    BY <1>2, <2>1
<1> HIDE DEF n, L
<1>7. ASSUME NEW i \in 1..n
      PROVE  /\ ivals[i].start = regs[L[i]].address /\ ivals[i].tag = regs[L[i]].tag
             /\ ivals[i].end = regs[L[i]].address + EntrySpan(regs[L[i]], area)
             /\ ivals[i] \in Intervals(T)
  <2> DEFINE e == regs[L[i]]
             span == EntrySpan(e, area)
  <2>1. ivals[i] = [start |-> e.address, tag |-> e.tag, end |-> e.address + span]
    BY <1>6 DEF ToInterval, EntrySpan
  <2>2. e.address \in Nat /\ span \in Nat /\ e.tag \in T
    BY <1>4, <1>6
  <2> HIDE DEF e, span, ivals
  <2>3. ivals[i] \in Intervals(T)
    BY <2>1, <2>2 DEF Intervals
  <2> QED
    BY <2>1, <2>3 DEF e, span
<1>8. DOMAIN ivals = 1..n /\ ivals = [i \in 1..n |-> ivals[i]]
  BY <1>6
<1> HIDE DEF ivals
<1>9. cap \in Nat /\ cap = MaxQty(area)
  BY CapsAssumption DEF cap, MaxQty
<1>10. IntervalList(ivals, n, T, cap)
  <2>1. ASSUME NEW i \in 1..n
        PROVE  /\ ivals[i].start < ivals[i].end /\ ivals[i].end <= AddrSpace
               /\ ivals[i].end - ivals[i].start <= cap
    <3> DEFINE e == regs[L[i]]
               span == EntrySpan(e, area)
    <3>1. e.address \in Nat /\ span \in 1..cap /\ e.address + span <= AddrSpace
      BY <1>4, <1>6
    <3>2. ivals[i].start = e.address /\ ivals[i].end = e.address + span
      BY <1>7
    <3> HIDE DEF e, span
    <3> QED
      BY <1>9, <3>1, <3>2
  <2>2. ASSUME NEW i \in 1..n, NEW j \in 1..n, ivals[i].tag = ivals[j].tag PROVE i = j
    <3>1. L[i] \in S /\ L[j] \in S /\ regs[L[i]].tag = regs[L[j]].tag
      BY <1>6, <1>7, <2>2
    <3>2. L[i] = L[j]
      BY <1>4, <1>5, <3>1
    <3> QED
      BY <1>6, <3>2
  <2>3. ivals \in [1..n -> Intervals(T)]
    BY <1>7, <1>8
  <2> QED
    BY <1>6, <1>9, <2>1, <2>2, <2>3 DEF IntervalList
<1>11. AreaList(regs, g, area, ivals, n, L)
  BY <1>6, <1>7, <1>9, <1>10 DEF AreaList, S, T
<1> QED
  BY <1>11 DEF ivals, of, S, area, n, L, AreaIntervals

\* The blocks of one area feed exactly the registers of that group and area.
LEMMA AreaTransactions ==
    ASSUME NEW regs, SoundRegisters(regs), NEW g, NEW a \in 1..4, NEW gap
    PROVE  FeedsFrom(Coalesce(Areas[a], AreaIntervals(regs, g, Areas[a]), gap),
                     regs, AreaSet(regs, g, Areas[a]))
<1> DEFINE area == Areas[a]
           S == AreaSet(regs, g, area)
           ivals == AreaIntervals(regs, g, area)
           cap == MaxQty(area)
           n == Cardinality(S)
           L == Ascending(S)
           T == {regs[r].tag : r \in DOMAIN regs}
           txns == Coalesce(area, ivals, gap)
<1>1. area \in ToSet(Areas) /\ area # "custom"
  BY AreaDistinct
<1>2. \A r \in S : /\ IsRead(regs[r].fn) /\ ReadArea[regs[r].fn] = area
                   /\ EntrySpan(regs[r], area) \in 1..cap /\ regs[r].address \in Nat
                   /\ r \in DOMAIN regs
  BY DEF SoundRegisters, AreaSet
<1>3. AreaList(regs, g, area, ivals, n, L)
  BY AreaIntervalList
<1>4. cap \in Nat /\ cap = MaxQty(area)
  BY CapsAssumption DEF cap, MaxQty
<1> HIDE DEF S, T, area, cap, n, L, ivals
<1>5. /\ \A i \in 1..n : L[i] \in S
      /\ \A x \in S : \E i \in 1..n : L[i] = x
  BY <1>3 DEF AreaList, S
<1>6. \A i \in 1..n : /\ ivals[i].start = regs[L[i]].address /\ ivals[i].tag = regs[L[i]].tag
                      /\ ivals[i].end = regs[L[i]].address + EntrySpan(regs[L[i]], area)
  BY <1>3 DEF AreaList
<1>7. IntervalList(ivals, n, T, cap)
  BY <1>3, <1>4 DEF AreaList, T
<1>8. /\ IsSeq(txns) /\ Listing(txns) /\ AllTags(txns, ivals, n) /\ OnceEach(txns)
      /\ \A x \in 1..Len(txns) : SoundRead(txns[x], area)
      /\ \A x \in 1..Len(txns) : \A k \in 1..Len(txns[x].fields) :
            \E i \in 1..n : Reads(txns[x], txns[x].fields[k], ivals[i])
  BY <1>4, <1>7, CoalesceParts
<1> HIDE DEF txns
<1>9. \A x \in 1..Len(txns) : SoundTxn(txns[x])
  <2>1. SUFFICES ASSUME NEW x \in 1..Len(txns) PROVE SoundTxn(txns[x])
    OBVIOUS
  <2>2. SoundRead(txns[x], area) /\ txns[x].area = area
    BY <1>8 DEF SoundRead
  <2> QED
    BY <1>1, <2>2 DEF SoundTxn, SoundRead
<1>10. ASSUME NEW x \in 1..Len(txns), NEW k \in 1..Len(txns[x].fields)
       PROVE  \E r \in S : FieldOf(txns[x], txns[x].fields[k], regs[r])
  <2> DEFINE t == txns[x]
             f == txns[x].fields[k]
  <2>1. PICK i \in 1..n : Reads(t, f, ivals[i])
    BY <1>8
  <2>2. t.area = area
    BY <1>8 DEF SoundRead
  <2> HIDE DEF t, f
  <2> DEFINE e == regs[L[i]]
             span == EntrySpan(e, area)
  <2>3. /\ L[i] \in S /\ IsRead(e.fn) /\ ReadArea[e.fn] = area /\ e.address \in Nat /\ span \in Nat
    BY <1>2, <1>5
  <2>4. ivals[i].start = e.address /\ ivals[i].tag = e.tag /\ ivals[i].end = e.address + span
    BY <1>6
  <2>5. /\ Shaped(f)
        /\ f.tag = e.tag /\ t.base + f.off = e.address /\ f.len = span
        /\ f.off \in Nat /\ f.len \in Nat /\ f.off + f.len <= t.qty
    <3> HIDE DEF e, span
    <3> QED
      BY <2>1, <2>3, <2>4 DEF Reads
  <2>6. FieldOf(t, f, e)
    <3>1. span = EntrySpan(e, t.area)
      BY <2>2
    <3> HIDE DEF e, span
    <3> QED
      BY <2>2, <2>3, <2>5, <3>1 DEF FieldOf
  <2> QED
    BY <2>3, <2>6 DEF t, f
<1>11. ASSUME NEW r \in S
       PROVE  \E x \in 1..Len(txns) : \E k \in 1..Len(txns[x].fields) :
                 txns[x].fields[k].tag = regs[r].tag
  <2>1. PICK i \in 1..n : L[i] = r
    BY <1>5
  <2>2. ivals[i].tag = regs[r].tag
    BY <1>6, <2>1
  <2> QED
    BY <1>8, <2>2 DEF AllTags
<1>12. S \subseteq DOMAIN regs
  BY <1>2
<1>13. FeedsFrom(txns, regs, S)
  BY <1>8, <1>9, <1>10, <1>11, <1>12 DEF FeedsFrom
<1> QED
  BY <1>13 DEF txns, ivals, S, area

\* A Custom entry is a request of its own.
LEMMA CustomTransactions ==
    ASSUME NEW regs, SoundRegisters(regs), NEW g
    PROVE  LET S == {r \in DOMAIN regs : regs[r].group = g /\ regs[r].fn = "Custom"}
               custom == CustomsOf(regs, g)
           IN  /\ FeedsFrom([i \in DOMAIN custom |-> CustomTxn(custom[i])], regs, S)
               /\ Len([i \in DOMAIN custom |-> CustomTxn(custom[i])]) = Len(custom)
<1> DEFINE S == {r \in DOMAIN regs : regs[r].group = g /\ regs[r].fn = "Custom"}
           custom == CustomsOf(regs, g)
           n == Cardinality(S)
           L == Ascending(S)
           txns == [i \in DOMAIN custom |-> CustomTxn(custom[i])]
<1>1. S \in SUBSET DOMAIN regs
  OBVIOUS
<1>2. custom = Through(regs, L)
  BY DEF CustomsOf
<1>3. \A r \in S : /\ ~IsRead(regs[r].fn) /\ r \in DOMAIN regs
                   /\ regs[r].response \in Nat \cup {None}
  BY AreaDistinct DEF SoundRegisters
<1>4. IsSeq(regs) /\ \A q, r \in DOMAIN regs : regs[q].tag = regs[r].tag => q = r
  BY DEF SoundRegisters
<1> HIDE DEF S, custom
<1>5. /\ n \in Nat /\ IsSeq(custom) /\ DOMAIN custom = 1..n /\ Len(custom) = n
      /\ \A i \in 1..n : L[i] \in S /\ custom[i] = regs[L[i]]
      /\ \A i, j \in 1..n : L[i] = L[j] => i = j
      /\ \A x \in S : \E i \in 1..n : L[i] = x
  <2> DEFINE t == Through(regs, L)
  <2>1. /\ n \in Nat /\ IsSeq(t) /\ Len(t) = n /\ DOMAIN t = 1..n
        /\ \A i \in 1..n : L[i] \in S /\ t[i] = regs[L[i]]
        /\ \A i, j \in 1..n : L[i] = L[j] => i = j
        /\ \A x \in S : \E i \in 1..n : L[i] = x
    BY <1>1, <1>4, KeptPositions
  <2> QED
    BY <1>2, <2>1
<1> HIDE DEF n, L
<1>6. ASSUME NEW i \in 1..n
      PROVE  /\ Len(txns[i].fields) = 1 /\ SoundTxn(txns[i])
             /\ FieldOf(txns[i], txns[i].fields[1], regs[L[i]])
  <2> DEFINE e == regs[L[i]]
             len == IF e.response = None THEN 0 ELSE e.response
             f == [tag |-> e.tag, off |-> 0, len |-> len]
             t == txns[i]
  <2>1. t = [area |-> "custom", base |-> e.address, qty |-> 0, coalesced |-> FALSE,
             fields |-> <<f>>]
    BY <1>5 DEF CustomTxn
  <2>2. len \in Nat /\ ~IsRead(e.fn)
    BY <1>3, <1>5
  <2> HIDE DEF t, len, e
  <2>3. t.area = "custom" /\ t.fields = <<f>>
    BY <2>1
  <2>4. f.tag = e.tag /\ f.off = 0 /\ f.len = len
        /\ Shaped(f)
    BY DEF Shaped
  <2> HIDE DEF f
  <2>5. <<f>> = [j \in 1..1 |-> <<f>>[j]] /\ <<f>>[1] = f
    OBVIOUS
  <2>6. IsSeq(<<f>>) /\ Len(<<f>>) = 1
    BY <2>5, SeqIntro
  <2>7. SoundTxn(t)
    <3> DEFINE fs == <<f>>
    <3>1. t.fields = fs /\ IsSeq(fs) /\ Len(fs) > 0 /\ t.area = "custom"
      BY <2>3, <2>6
    <3> HIDE DEF fs
    <3>2. IsSeq(t.fields) /\ Len(t.fields) > 0
      BY <3>1
    <3> QED
      BY <3>1, <3>2 DEF SoundTxn
  <2>8. FieldOf(t, f, e)
    BY <2>2, <2>3, <2>4 DEF FieldOf
  <2> QED
    BY <2>3, <2>5, <2>6, <2>7, <2>8 DEF t, e
<1>7. txns = [i \in 1..n |-> txns[i]]
  BY <1>5
<1> HIDE DEF txns
<1>8. IsSeq(txns) /\ Len(txns) = n
  BY <1>5, <1>7, SeqIntro
<1>9. OnceEach(txns)
  <2>1. SUFFICES ASSUME NEW x \in 1..n, NEW y \in 1..n, NEW k \in 1..Len(txns[x].fields),
                        NEW l \in 1..Len(txns[y].fields),
                        txns[x].fields[k].tag = txns[y].fields[l].tag
                 PROVE  x = y /\ k = l
    BY <1>8 DEF OnceEach
  <2>2. k = 1 /\ l = 1
    <3>1. Len(txns[x].fields) = 1 /\ Len(txns[y].fields) = 1
      BY <1>6
    <3> QED
      BY <3>1
  <2>3. regs[L[x]].tag = regs[L[y]].tag
    BY <1>6, <2>1, <2>2 DEF FieldOf
  <2>4. L[x] = L[y]
    BY <1>3, <1>4, <1>5, <2>3
  <2> QED
    BY <1>5, <2>2, <2>4
<1>10. FeedsFrom(txns, regs, S)
  <2>1. ASSUME NEW x \in 1..n, NEW k \in 1..Len(txns[x].fields)
        PROVE  \E r \in S : FieldOf(txns[x], txns[x].fields[k], regs[r])
    <3>1. k = 1 /\ L[x] \in S
      <4>1. Len(txns[x].fields) = 1
        BY <1>6
      <4> QED
        BY <1>5, <4>1
    <3> QED
      BY <1>6, <3>1
  <2>2. ASSUME NEW r \in S
        PROVE  \E x \in 1..n : \E k \in 1..Len(txns[x].fields) :
                  txns[x].fields[k].tag = regs[r].tag
    <3>1. PICK x \in 1..n : L[x] = r
      BY <1>5
    <3>2. 1 \in 1..Len(txns[x].fields) /\ txns[x].fields[1].tag = regs[r].tag
      BY <1>6, <3>1 DEF FieldOf
    <3> QED
      BY <3>2
  <2>3. S \subseteq DOMAIN regs
    BY <1>3
  <2> QED
    BY <1>6, <1>8, <1>9, <2>1, <2>2, <2>3 DEF FeedsFrom
<1> QED
  BY <1>5, <1>8, <1>10 DEF txns, S, custom

\* Two fields of a list that feeds every tag once, with the same tag, are the same field.
LEMMA OnlyOnce ==
    ASSUME NEW t, OnceEach(t), NEW u \in 1..Len(t), NEW v \in 1..Len(t),
           NEW k \in 1..Len(t[u].fields), NEW l \in 1..Len(t[v].fields),
           t[u].fields[k].tag = t[v].fields[l].tag
    PROVE  u = v /\ k = l
  BY DEF OnceEach

\* n sets without common members, and all their members.
Disjoint(SS, n) == \A a, b \in 1..n : a # b => SS[a] \cap SS[b] = {}
Union(SS, n) == UNION {SS[a] : a \in 1..n}

\* Lists of requests that feed disjoint sets of registers, one after the other.
LEMMA FeedsFlattened ==
    ASSUME NEW regs, SoundRegisters(regs), NEW n \in Nat, NEW ss, ss = [a \in 1..n |-> ss[a]],
           NEW SS, \A a \in 1..n : FeedsFrom(ss[a], regs, SS[a]),
           Disjoint(SS, n)
    PROVE  FeedsFrom(FlattenSeq(ss), regs, Union(SS, n))
<1> DEFINE flat == FlattenSeq(ss)
           S == Union(SS, n)
<1>1. /\ \A a \in 1..n : IsSeq(ss[a]) /\ OnceEach(ss[a]) /\ SS[a] \subseteq DOMAIN regs
      /\ \A a \in 1..n : \A x \in 1..Len(ss[a]) : SoundTxn(ss[a][x])
      /\ \A a \in 1..n : \A x \in 1..Len(ss[a]) : \A k \in 1..Len(ss[a][x].fields) :
            \E r \in SS[a] : FieldOf(ss[a][x], ss[a][x].fields[k], regs[r])
      /\ \A a \in 1..n : \A r \in SS[a] : \E x \in 1..Len(ss[a]) :
            \E k \in 1..Len(ss[a][x].fields) : ss[a][x].fields[k].tag = regs[r].tag
  BY DEF FeedsFrom
<1>2. IsSeq(flat) /\ \E pos : Traces(pos, flat, ss)
  BY <1>1, Flattened
<1>3. PICK pos : Traces(pos, flat, ss)
  BY <1>2
<1> HIDE DEF flat, S
<1>4. Len(flat) \in Nat /\ DOMAIN flat = 1..Len(flat)
  BY <1>2, SeqElim
<1>5. ASSUME NEW i \in 1..Len(flat)
      PROVE  /\ pos[i][1] \in 1..n /\ pos[i][2] \in 1..Len(ss[pos[i][1]])
             /\ pos[i] = <<pos[i][1], pos[i][2]>>
             /\ flat[i] = ss[pos[i][1]][pos[i][2]]
  <2>1. pos[i] \in Cells(ss) /\ flat[i] = ss[pos[i][1]][pos[i][2]]
    BY <1>3, <1>4 DEF Traces
  <2>2. PICK a \in DOMAIN ss : \E b \in DOMAIN ss[a] : pos[i] = <<a, b>>
    BY <2>1, CellsDef
  <2>3. a \in 1..n /\ DOMAIN ss[a] = 1..Len(ss[a])
    BY <1>1, SeqElim
  <2> QED
    BY <2>1, <2>2, <2>3
<1>6. \A x \in 1..Len(flat) : SoundTxn(flat[x])
  BY <1>1, <1>5
<1>7. ASSUME NEW x \in 1..Len(flat), NEW k \in 1..Len(flat[x].fields)
      PROVE  \E r \in SS[pos[x][1]] : r \in S /\ FieldOf(flat[x], flat[x].fields[k], regs[r])
  <2> DEFINE a == pos[x][1]
             u == pos[x][2]
  <2>1. a \in 1..n /\ u \in 1..Len(ss[a]) /\ flat[x] = ss[a][u]
    BY <1>5
  <2> HIDE DEF a, u
  <2>2. PICK r \in SS[a] : FieldOf(ss[a][u], ss[a][u].fields[k], regs[r])
    BY <1>1, <2>1
  <2>3. r \in S
    BY <2>1 DEF S, Union
  <2> QED
    BY <2>1, <2>2, <2>3 DEF a
<1>8. ASSUME NEW r \in S
      PROVE  \E x \in 1..Len(flat) : \E k \in 1..Len(flat[x].fields) :
                flat[x].fields[k].tag = regs[r].tag
  <2>1. PICK a \in 1..n : r \in SS[a]
    BY DEF S, Union
  <2>2. PICK x \in 1..Len(ss[a]) : \E k \in 1..Len(ss[a][x].fields) :
           ss[a][x].fields[k].tag = regs[r].tag
    BY <1>1, <2>1
  <2>3. <<a, x>> \in Cells(ss)
    <3>1. a \in DOMAIN ss /\ x \in DOMAIN ss[a]
      BY <1>1, SeqElim
    <3> QED
      BY <3>1, CellsDef
  <2>4. PICK i \in DOMAIN flat : pos[i] = <<a, x>>
    BY <1>3, <2>3 DEF Traces
  <2>5. flat[i] = ss[a][x] /\ i \in 1..Len(flat)
    <3>1. i \in 1..Len(flat) /\ pos[i][1] = a /\ pos[i][2] = x
      BY <1>4, <2>4
    <3>2. flat[i] = ss[pos[i][1]][pos[i][2]]
      BY <1>5, <3>1
    <3> QED
      BY <3>1, <3>2
  <2> QED
    BY <2>2, <2>5
<1>9. OnceEach(flat)
  <2>1. SUFFICES ASSUME NEW x \in 1..Len(flat), NEW y \in 1..Len(flat),
                        NEW k \in 1..Len(flat[x].fields), NEW l \in 1..Len(flat[y].fields),
                        flat[x].fields[k].tag = flat[y].fields[l].tag
                 PROVE  x = y /\ k = l
    BY DEF OnceEach
  <2> DEFINE a == pos[x][1]
             b == pos[y][1]
             u == pos[x][2]
             v == pos[y][2]
  <2>2. /\ a \in 1..n /\ u \in 1..Len(ss[a]) /\ flat[x] = ss[a][u] /\ pos[x] = <<a, u>>
        /\ b \in 1..n /\ v \in 1..Len(ss[b]) /\ flat[y] = ss[b][v] /\ pos[y] = <<b, v>>
    BY <1>5
  <2>3. PICK q \in SS[a] : FieldOf(flat[x], flat[x].fields[k], regs[q])
    BY <1>7
  <2>4. PICK r \in SS[b] : FieldOf(flat[y], flat[y].fields[l], regs[r])
    BY <1>7
  <2> HIDE DEF a, b, u, v
  <2>5. q = r
    <3>1. regs[q].tag = regs[r].tag
      BY <2>1, <2>3, <2>4 DEF FieldOf
    <3>2. q \in DOMAIN regs /\ r \in DOMAIN regs
      BY <1>1, <2>2, <2>3, <2>4
    <3> QED
      BY <3>1, <3>2 DEF SoundRegisters
  <2>6. a = b
    BY <2>2, <2>3, <2>4, <2>5 DEF Disjoint
  <2>7. u = v /\ k = l
    <3> DEFINE t == ss[a]
    <3>1. OnceEach(t)
      BY <1>1, <2>2
    <3>2. /\ k \in 1..Len(t[u].fields) /\ l \in 1..Len(t[v].fields)
          /\ t[u].fields[k].tag = t[v].fields[l].tag
          /\ u \in 1..Len(t) /\ v \in 1..Len(t)
      BY <2>1, <2>2, <2>6
    <3> HIDE DEF t
    <3>3. k \in 1..Len(t[u].fields) /\ l \in 1..Len(t[v].fields)
      BY <3>2
    <3>4. t[u].fields[k].tag = t[v].fields[l].tag
      BY <3>2
    <3>5. u \in 1..Len(t) /\ v \in 1..Len(t)
      BY <3>2
    <3>6. \A i, j \in 1..Len(t) : \A g \in 1..Len(t[i].fields), h \in 1..Len(t[j].fields) :
             t[i].fields[g].tag = t[j].fields[h].tag => i = j /\ g = h
      BY ONLY <3>1 DEF OnceEach
    <3>7. \A g \in 1..Len(t[u].fields), h \in 1..Len(t[v].fields) :
             t[u].fields[g].tag = t[v].fields[h].tag => u = v /\ g = h
      BY ONLY <3>5, <3>6
    <3> QED
      BY ONLY <3>3, <3>4, <3>7
  <2>8. pos[x] = pos[y]
    BY <2>2, <2>6, <2>7
  <2> QED
    BY <1>3, <1>4, <2>7, <2>8 DEF Traces
<1>10. S \subseteq DOMAIN regs
  BY <1>1 DEF S, Union
<1>11. FeedsFrom(flat, regs, S)
  BY <1>2, <1>6, <1>7, <1>8, <1>9, <1>10 DEF FeedsFrom
<1> QED
  BY <1>11 DEF flat, S

\* The same for two lists.
LEMMA FeedsConcat ==
    ASSUME NEW regs, SoundRegisters(regs), NEW F, NEW C, NEW S, NEW Z,
           FeedsFrom(F, regs, S), FeedsFrom(C, regs, Z), S \cap Z = {}
    PROVE  FeedsFrom(F \o C, regs, S \cup Z) /\ Len(F \o C) = Len(F) + Len(C)
<1> DEFINE m == Len(F)
           q == Len(C)
           both == F \o C
<1>1. /\ IsSeq(F) /\ IsSeq(C) /\ OnceEach(F) /\ OnceEach(C)
      /\ S \subseteq DOMAIN regs /\ Z \subseteq DOMAIN regs
      /\ \A x \in 1..m : SoundTxn(F[x])
      /\ \A x \in 1..m : \A k \in 1..Len(F[x].fields) :
            \E r \in S : FieldOf(F[x], F[x].fields[k], regs[r])
      /\ \A r \in S : \E x \in 1..m : \E k \in 1..Len(F[x].fields) :
            F[x].fields[k].tag = regs[r].tag
      /\ \A x \in 1..q : SoundTxn(C[x])
      /\ \A x \in 1..q : \A k \in 1..Len(C[x].fields) :
            \E r \in Z : FieldOf(C[x], C[x].fields[k], regs[r])
      /\ \A r \in Z : \E x \in 1..q : \E k \in 1..Len(C[x].fields) :
            C[x].fields[k].tag = regs[r].tag
  BY DEF FeedsFrom
<1>2. /\ m \in Nat /\ q \in Nat /\ IsSeq(both) /\ Len(both) = m + q
      /\ \A x \in 1..m : both[x] = F[x]
      /\ \A x \in 1..q : both[m + x] = C[x]
  <2> DEFINE E == ToSet(F) \cup ToSet(C)
  <2>1. F \in Seq(E) /\ C \in Seq(E)
    BY <1>1 DEF IsSeq
  <2> HIDE DEF E
  <2>2. both \in Seq(E)
    BY <2>1
  <2>3. IsSeq(both)
    <3> HIDE DEF both
    <3> QED
      BY <2>2, SeqMember
  <2> QED
    BY <2>1, <2>3
<1> HIDE DEF m, q, both
<1>3. ASSUME NEW x \in 1..(m + q)
      PROVE  \/ x \in 1..m /\ both[x] = F[x]
             \/ \E y \in 1..q : x = m + y /\ both[x] = C[y]
  <2>1. CASE x \in 1..m
    BY <1>2, <2>1
  <2>2. CASE x \notin 1..m
    <3>1. x - m \in 1..q /\ x = m + (x - m)
      BY <1>2, <2>2
    <3> QED
      BY <1>2, <3>1
  <2> QED
    BY <2>1, <2>2
<1>4. \A x \in 1..(m + q) : SoundTxn(both[x])
  BY <1>1, <1>3
<1>5. ASSUME NEW x \in 1..(m + q), NEW k \in 1..Len(both[x].fields)
      PROVE  \E r \in S \cup Z : FieldOf(both[x], both[x].fields[k], regs[r])
  BY <1>1, <1>3
<1>6. ASSUME NEW r \in S \cup Z
      PROVE  \E x \in 1..(m + q) : \E k \in 1..Len(both[x].fields) :
                both[x].fields[k].tag = regs[r].tag
  <2>1. CASE r \in S
    <3>1. PICK x \in 1..m : \E k \in 1..Len(F[x].fields) : F[x].fields[k].tag = regs[r].tag
      BY <1>1, <2>1
    <3>2. x \in 1..(m + q) /\ both[x] = F[x]
      BY <1>2
    <3> QED
      BY <3>1, <3>2
  <2>2. CASE r \in Z
    <3>1. PICK x \in 1..q : \E k \in 1..Len(C[x].fields) : C[x].fields[k].tag = regs[r].tag
      BY <1>1, <2>2
    <3>2. m + x \in 1..(m + q) /\ both[m + x] = C[x]
      BY <1>2
    <3> QED
      BY <3>1, <3>2
  <2> QED
    BY <2>1, <2>2
<1>7. \A x \in 1..m : \A k \in 1..Len(F[x].fields) : \A y \in 1..q :
         \A l \in 1..Len(C[y].fields) : F[x].fields[k].tag # C[y].fields[l].tag
  <2>1. SUFFICES ASSUME NEW x \in 1..m, NEW k \in 1..Len(F[x].fields), NEW y \in 1..q,
                        NEW l \in 1..Len(C[y].fields), F[x].fields[k].tag = C[y].fields[l].tag
                 PROVE  FALSE
    OBVIOUS
  <2>2. PICK r \in S : FieldOf(F[x], F[x].fields[k], regs[r])
    BY <1>1
  <2>3. PICK s \in Z : FieldOf(C[y], C[y].fields[l], regs[s])
    BY <1>1
  <2>4. regs[r].tag = regs[s].tag /\ r \in DOMAIN regs /\ s \in DOMAIN regs
    BY <1>1, <2>1, <2>2, <2>3 DEF FieldOf
  <2> QED
    BY <2>4 DEF SoundRegisters
<1>8. OnceEach(both)
  <2>1. SUFFICES ASSUME NEW x \in 1..(m + q), NEW y \in 1..(m + q),
                        NEW k \in 1..Len(both[x].fields), NEW l \in 1..Len(both[y].fields),
                        both[x].fields[k].tag = both[y].fields[l].tag
                 PROVE  x = y /\ k = l
    BY <1>2 DEF OnceEach
  <2>2. CASE x \in 1..m /\ both[x] = F[x]
    <3>1. CASE y \in 1..m /\ both[y] = F[y]
      BY <1>1, <2>1, <2>2, <3>1 DEF OnceEach, m
    <3>2. CASE \E j \in 1..q : y = m + j /\ both[y] = C[j]
      BY <1>7, <2>1, <2>2, <3>2
    <3> QED
      BY <1>3, <3>1, <3>2
  <2>3. CASE \E i \in 1..q : x = m + i /\ both[x] = C[i]
    <3>1. CASE y \in 1..m /\ both[y] = F[y]
      BY <1>7, <2>1, <2>3, <3>1
    <3>2. CASE \E j \in 1..q : y = m + j /\ both[y] = C[j]
      BY <1>1, <2>1, <2>3, <3>2 DEF OnceEach, q
    <3> QED
      BY <1>3, <3>1, <3>2
  <2> QED
    BY <1>3, <2>2, <2>3
<1>9. FeedsFrom(both, regs, S \cup Z)
  BY <1>1, <1>2, <1>4, <1>5, <1>6, <1>8 DEF FeedsFrom
<1> QED
  BY <1>2, <1>9 DEF both, m, q

\* The requests of a device in one poll group hold each of the group's registers once.
LEMMA TransactionsFeed ==
    ASSUME NEW dev, SoundRegisters(dev.registers), NEW g
    PROVE  /\ FeedsFrom(Transactions(dev, g), dev.registers,
                        {r \in DOMAIN dev.registers : dev.registers[r].group = g})
<1> DEFINE regs == dev.registers
           ss == [a \in DOMAIN Areas |->
                    Coalesce(Areas[a], AreaIntervals(regs, g, Areas[a]), dev.max_gap)]
           custom == CustomsOf(regs, g)
           cs == [i \in DOMAIN custom |-> CustomTxn(custom[i])]
           SS == [a \in 1..4 |-> AreaSet(regs, g, Areas[a])]
           Z == {r \in DOMAIN regs : regs[r].group = g /\ regs[r].fn = "Custom"}
           S == Union(SS, 4)
<1>1. Transactions(dev, g) = FlattenSeq(ss) \o cs
  BY DEF Transactions, AreaIntervals
<1>2. ASSUME NEW a \in 1..4 PROVE FeedsFrom(ss[a], regs, SS[a])
  <2>1. FeedsFrom(Coalesce(Areas[a], AreaIntervals(regs, g, Areas[a]), dev.max_gap), regs,
                  AreaSet(regs, g, Areas[a]))
    BY AreaTransactions
  <2> QED
    BY <2>1, AreaDistinct
<1>3. FeedsFrom(cs, regs, Z)
  BY CustomTransactions
<1>4. ss = [a \in 1..4 |-> ss[a]]
  BY AreaDistinct
<1>5. Disjoint(SS, 4)
  BY AreaDistinct DEF Disjoint, AreaSet
<1>6. S \cap Z = {}
  BY AreaDistinct DEF Union, AreaSet
<1>7. S \cup Z = {r \in DOMAIN regs : regs[r].group = g}
  <2>1. ASSUME NEW r \in DOMAIN regs, regs[r].group = g PROVE r \in S \cup Z
    <3>1. regs[r].fn = "Custom" \/ IsRead(regs[r].fn)
      BY DEF SoundRegisters
    <3>2. CASE IsRead(regs[r].fn)
      <4>1. PICK a \in 1..4 : Areas[a] = ReadArea[regs[r].fn]
        BY <3>2, AreaDistinct DEF IsRead
      <4>2. r \in SS[a]
        BY <2>1, <3>2, <4>1 DEF AreaSet
      <4> QED
        BY <4>2 DEF Union
    <3> QED
      BY <2>1, <3>1, <3>2
  <2> QED
    BY <2>1 DEF Union, AreaSet
<1> HIDE DEF ss, cs, SS, Z, S, regs
<1>8. FeedsFrom(FlattenSeq(ss), regs, S)
  BY <1>2, <1>4, <1>5, FeedsFlattened DEF S, regs
<1>9. FeedsFrom(FlattenSeq(ss) \o cs, regs, S \cup Z)
  BY <1>3, <1>6, <1>8, FeedsConcat DEF regs
<1> QED
  BY <1>1, <1>7, <1>9 DEF regs

-----------------------------------------------------------------------------
(* The plan of a configuration                                             *)

\* Lists of disjoint sets, one after the other, list their union.
LEMMA ListsFlattened ==
    ASSUME NEW n \in Nat, NEW ss, ss = [a \in 1..n |-> ss[a]],
           NEW SS, \A a \in 1..n : Lists(ss[a], SS[a]), Disjoint(SS, n)
    PROVE  Lists(FlattenSeq(ss), Union(SS, n))
<1> DEFINE flat == FlattenSeq(ss)
<1>1. \A a \in 1..n : IsSeq(ss[a])
  BY DEF Lists
<1>2. IsSeq(flat) /\ \E pos : Traces(pos, flat, ss)
  BY <1>1, Flattened
<1>3. PICK pos : Traces(pos, flat, ss)
  BY <1>2
<1> HIDE DEF flat
<1>4. DOMAIN ss = 1..n
  OBVIOUS
<1>5. ASSUME NEW i \in DOMAIN flat
      PROVE  /\ pos[i][1] \in 1..n /\ pos[i][2] \in DOMAIN ss[pos[i][1]]
             /\ pos[i] = <<pos[i][1], pos[i][2]>>
             /\ flat[i] = ss[pos[i][1]][pos[i][2]]
             /\ flat[i] \in SS[pos[i][1]]
  <2>1. pos[i] \in Cells(ss) /\ flat[i] = ss[pos[i][1]][pos[i][2]]
    BY <1>3 DEF Traces
  <2>2. PICK a \in DOMAIN ss : \E b \in DOMAIN ss[a] : pos[i] = <<a, b>>
    BY <2>1, CellsDef
  <2> QED
    BY <2>1, <2>2 DEF Lists
<1>6. \A i \in DOMAIN flat : flat[i] \in Union(SS, n)
  BY <1>5 DEF Union
<1>7. ASSUME NEW i \in DOMAIN flat, NEW j \in DOMAIN flat, flat[i] = flat[j] PROVE i = j
  <2>1. pos[i][1] = pos[j][1]
    BY <1>5, <1>7 DEF Disjoint
  <2>2. /\ pos[i][2] \in DOMAIN ss[pos[i][1]] /\ pos[j][2] \in DOMAIN ss[pos[i][1]]
        /\ ss[pos[i][1]][pos[i][2]] = ss[pos[i][1]][pos[j][2]]
        /\ Lists(ss[pos[i][1]], SS[pos[i][1]])
    BY <1>5, <1>7, <2>1
  <2>4. pos[i][2] = pos[j][2]
    BY <2>2 DEF Lists
  <2>3. pos[i] = pos[j]
    BY <1>5, <2>1, <2>4
  <2> QED
    BY <1>3, <2>3 DEF Traces
<1>8. ASSUME NEW x \in Union(SS, n) PROVE \E i \in DOMAIN flat : flat[i] = x
  <2>1. PICK a \in 1..n : x \in SS[a]
    BY DEF Union
  <2>2. PICK b \in DOMAIN ss[a] : ss[a][b] = x
    BY <2>1 DEF Lists
  <2>3. <<a, b>> \in Cells(ss)
    BY <1>4, <2>2, CellsDef
  <2>4. PICK i \in DOMAIN flat : pos[i] = <<a, b>>
    BY <1>3, <2>3 DEF Traces
  <2>5. pos[i][1] = a /\ pos[i][2] = b
    BY <2>4
  <2> QED
    BY <1>5, <2>2, <2>5
<1> QED
  BY <1>2, <1>6, <1>7, <1>8 DEF Lists, flat

\* L tells where the elements of kept stand in s: at the positions all calls enabled.
Selects(L, kept, s, all) ==
    /\ \A i \in DOMAIN kept :
          L[i] \in DOMAIN s /\ all[L[i]].enabled /\ kept[i] = s[L[i]]
    /\ \A i, j \in DOMAIN kept : L[i] = L[j] => i = j
    /\ \A x \in DOMAIN s : all[x].enabled => \E i \in DOMAIN kept : L[i] = x

\* Enabled selects the enabled elements by an increasing list of positions.
LEMMA EnabledPositions ==
    ASSUME NEW s, IsSeq(s)
    PROVE  IsSeq(Enabled(s)) /\ \E L : Selects(L, Enabled(s), s, s)
<1> DEFINE at == {i \in DOMAIN s : s[i].enabled}
           L == Ascending(at)
           t == Through(s, L)
<1>1. at \in SUBSET DOMAIN s
  OBVIOUS
<1>2. Enabled(s) = t
  BY DEF Enabled
<1>3. \A x : x \in at <=> x \in DOMAIN s /\ s[x].enabled
  OBVIOUS
<1> HIDE DEF at
<1>4. /\ IsSeq(t) /\ DOMAIN t = 1..Cardinality(at)
      /\ \A i \in 1..Cardinality(at) : L[i] \in at /\ t[i] = s[L[i]]
      /\ \A i, j \in 1..Cardinality(at) : L[i] = L[j] => i = j
      /\ \A x \in at : \E i \in 1..Cardinality(at) : L[i] = x
  BY <1>1, KeptPositions
<1> HIDE DEF L, t
<1>5. Selects(L, t, s, s)
  BY <1>3, <1>4 DEF Selects
<1> QED
  BY <1>2, <1>4, <1>5

\* A configuration the program runs.
Accepts(cfg) == cfg \in Configurations /\ Errors(cfg) = {}

\* The entries of a device as the configuration states them, and as resolution leaves them.
Stated(cfg, c, d) == cfg.channels[c].devices[d].registers
Resolved(cfg, c, d) == Resolve(cfg)[c].devices[d].registers

\* The registers resolution gives a device: sound, one for each stated entry, with its tag, poll
\* group, function, address and width.
LEMMA ResolvedSound ==
    ASSUME NEW cfg, Accepts(cfg), NEW c \in DOMAIN cfg.channels,
           NEW d \in DOMAIN cfg.channels[c].devices
    PROVE  /\ SoundRegisters(Resolved(cfg, c, d))
           /\ DOMAIN Resolved(cfg, c, d) = DOMAIN Stated(cfg, c, d)
           /\ \A r \in DOMAIN Stated(cfg, c, d) :
                 /\ Resolved(cfg, c, d)[r].tag = TagAt(cfg, <<c, d, r>>)
                 /\ Resolved(cfg, c, d)[r].group \in DOMAIN cfg.groups
                 /\ cfg.groups[Resolved(cfg, c, d)[r].group].id = Stated(cfg, c, d)[r].group
                 /\ \A g \in DOMAIN cfg.groups :
                       cfg.groups[g].id = Stated(cfg, c, d)[r].group
                         => Resolved(cfg, c, d)[r].group = g
                 /\ Resolved(cfg, c, d)[r].fn = Stated(cfg, c, d)[r].fn
                 /\ Resolved(cfg, c, d)[r].address = Stated(cfg, c, d)[r].address
                 /\ Width(Resolved(cfg, c, d)[r]) = Width(Stated(cfg, c, d)[r])
<1> DEFINE regs == Resolve(cfg)[c].devices[d].registers
           es == cfg.channels[c].devices[d].registers
<1> USE DEF Accepts
<1>1. /\ IsSeq(regs) /\ DOMAIN regs = DOMAIN es
      /\ \A r \in DOMAIN es : regs[r] = ResolvedEntry(cfg, c, d, r)
  <2> DEFINE D == Resolve(cfg)[c].devices[d]
  <2>1. /\ IsSeq(D.registers) /\ DOMAIN D.registers = DOMAIN es
        /\ \A r \in DOMAIN es : D.registers[r] = ResolvedEntry(cfg, c, d, r)
    BY ResolvedDevice
  <2> QED
    BY <2>1
<1>2. \A r \in DOMAIN es : es[r] \in Entries /\ SoundEntry(cfg, es[r])
  BY ConfigurationParts, AcceptedParts
<1>3. <<c, d>> \in DeviceSet(cfg)
  BY DEF DeviceSet
<1>4. \A r \in DOMAIN es : <<c, d, r>> \in EntrySet(cfg)
  BY <1>3 DEF EntrySet
<1>5. \A i, j \in DOMAIN cfg.groups : cfg.groups[i].id = cfg.groups[j].id => i = j
  BY AcceptedParts
<1> HIDE DEF regs
<1>6. ASSUME NEW r \in DOMAIN es
      PROVE  /\ regs[r].tag = TagAt(cfg, <<c, d, r>>)
             /\ regs[r].group = GroupNamed(cfg, es[r].group)
             /\ regs[r].fn = es[r].fn /\ regs[r].address = es[r].address
             /\ regs[r].type = es[r].type /\ regs[r].length = es[r].length
             /\ regs[r].response = es[r].response
  <2> DEFINE e == es[r]
  <2>1. regs[r] = [e EXCEPT !.tag = TagAt(cfg, <<c, d, r>>), !.group = GroupNamed(cfg, e.group)]
    BY <1>1 DEF ResolvedEntry
  <2>2. e \in Entries
    BY <1>2
  <2> HIDE DEF e
  <2> QED
    BY <2>1, <2>2 DEF Entries, e
<1> HIDE DEF es
<1>7. ASSUME NEW r \in DOMAIN es
      PROVE  /\ regs[r].group \in DOMAIN cfg.groups
             /\ cfg.groups[regs[r].group].id = es[r].group
  BY <1>2, <1>6 DEF SoundEntry, GroupNamed
<1>8. ASSUME NEW r \in DOMAIN es, NEW g \in DOMAIN cfg.groups, cfg.groups[g].id = es[r].group
      PROVE  regs[r].group = g
  BY <1>5, <1>7, <1>8
<1>9. ASSUME NEW r \in DOMAIN es PROVE Width(regs[r]) = Width(es[r])
  BY <1>6 DEF Width
<1>10. ASSUME NEW r \in DOMAIN es
       PROVE  /\ regs[r].fn = "Custom" \/ IsRead(regs[r].fn)
              /\ regs[r].address \in Nat /\ regs[r].response \in Nat \cup {None}
              /\ IsRead(regs[r].fn) =>
                   /\ EntrySpan(regs[r], ReadArea[regs[r].fn]) \in 1..MaxQty(ReadArea[regs[r].fn])
                   /\ regs[r].address + EntrySpan(regs[r], ReadArea[regs[r].fn]) <= AddrSpace
  <2>1. SoundEntry(cfg, es[r]) /\ es[r] \in Entries
    BY <1>2
  <2>2. es[r].address \in 0..(AddrSpace - 1) /\ es[r].response \in Nat \cup {None}
    BY <2>1 DEF Entries
  <2>3. es[r].fn = "Custom" \/ IsRead(es[r].fn)
    BY <2>1 DEF SoundEntry
  <2>4. IsRead(es[r].fn) /\ ~BitDomain(ReadArea[es[r].fn]) =>
          Width(es[r]) \in 1..RegCap /\ es[r].address + Width(es[r]) <= AddrSpace
    BY <2>1 DEF SoundEntry
  <2>5. ASSUME IsRead(regs[r].fn)
        PROVE  /\ EntrySpan(regs[r], ReadArea[regs[r].fn]) \in 1..MaxQty(ReadArea[regs[r].fn])
               /\ regs[r].address + EntrySpan(regs[r], ReadArea[regs[r].fn]) <= AddrSpace
    <3>1. CASE BitDomain(ReadArea[regs[r].fn])
      <4>1. /\ EntrySpan(regs[r], ReadArea[regs[r].fn]) = 1
            /\ MaxQty(ReadArea[regs[r].fn]) = CoilCap
        BY <3>1 DEF EntrySpan, MaxQty
      <4>2. regs[r].address \in 0..(AddrSpace - 1)
        BY <1>6, <2>2
      <4> QED
        BY <4>1, <4>2, CapsAssumption
    <3>2. CASE ~BitDomain(ReadArea[regs[r].fn])
      BY <1>6, <1>9, <2>4, <2>5, <3>2 DEF EntrySpan, MaxQty
    <3> QED
      BY <3>1, <3>2
  <2>6. regs[r].fn = "Custom" \/ IsRead(regs[r].fn)
    BY <1>6, <2>3
  <2>7. regs[r].address \in Nat /\ regs[r].response \in Nat \cup {None}
    <3>1. regs[r].address = es[r].address /\ regs[r].response = es[r].response
      BY <1>6
    <3>2. 0..(AddrSpace - 1) \subseteq Nat
      BY CapsAssumption
    <3> QED
      BY <2>2, <3>1, <3>2
  <2> QED
    BY <2>5, <2>6, <2>7
<1>11. ASSUME NEW q \in DOMAIN es, NEW r \in DOMAIN es, regs[q].tag = regs[r].tag PROVE q = r
  <2> DEFINE x == <<c, d, q>>
             y == <<c, d, r>>
  <2>1. x \in EntrySet(cfg) /\ y \in EntrySet(cfg) /\ TagAt(cfg, x) = TagAt(cfg, y)
    BY <1>4, <1>6, <1>11 DEF es
  <2> HIDE DEF x, y
  <2>2. x = y
    BY <2>1, TagOfPlace
  <2> QED
    BY <2>2 DEF x, y
<1>12. SoundRegisters(regs)
  <2>1. IsSeq(regs) /\ DOMAIN regs = DOMAIN es
    BY <1>1 DEF es
  <2> QED
    BY <1>10, <1>11, <2>1 DEF SoundRegisters
<1> QED
  BY <1>1, <1>6, <1>7, <1>8, <1>9, <1>12 DEF regs, es, Stated, Resolved

\* The channels the plan is built from are the enabled channels of the file.
LEMMA PlanChannels ==
    ASSUME NEW cfg, Accepts(cfg)
    PROVE  /\ IsSeq(Enabled(Resolve(cfg)))
           /\ \E L : Selects(L, Enabled(Resolve(cfg)), Resolve(cfg), cfg.channels)
<1> DEFINE R == Resolve(cfg)
<1>1. /\ IsSeq(R) /\ DOMAIN R = DOMAIN cfg.channels
      /\ \A c \in DOMAIN cfg.channels : R[c].enabled = cfg.channels[c].enabled
  BY ResolvedShape DEF Accepts
<1> HIDE DEF R
<1>2. IsSeq(Enabled(R)) /\ \E L : Selects(L, Enabled(R), R, R)
  BY <1>1, EnabledPositions
<1>3. PICK L : Selects(L, Enabled(R), R, R)
  BY <1>2
<1>4. Selects(L, Enabled(R), R, cfg.channels)
  BY <1>1, <1>3 DEF Selects
<1> QED
  BY <1>2, <1>4 DEF R

\* The devices the plan of a channel is built from are its enabled devices.
LEMMA PlanDevices ==
    ASSUME NEW cfg, Accepts(cfg), NEW c \in DOMAIN cfg.channels, cfg.channels[c].enabled
    PROVE  /\ IsSeq(Polled(Resolve(cfg)[c]))
           /\ DOMAIN Resolve(cfg)[c].devices = DOMAIN cfg.channels[c].devices
           /\ \E L : Selects(L, Polled(Resolve(cfg)[c]), Resolve(cfg)[c].devices,
                             cfg.channels[c].devices)
<1> DEFINE ds == Resolve(cfg)[c].devices
           es == cfg.channels[c].devices
<1>1. IsSeq(ds) /\ DOMAIN ds = DOMAIN es
  BY ResolvedShape DEF Accepts
<1>2. \A d \in DOMAIN es : ds[d].enabled = (es[d].enabled /\ cfg.channels[c].enabled)
  BY ResolvedDevice DEF Accepts
<1>3. Polled(Resolve(cfg)[c]) = Enabled(ds)
  BY DEF Polled
<1> HIDE DEF ds
<1>4. \A d \in DOMAIN es : ds[d].enabled <=> es[d].enabled
  BY <1>2
<1> HIDE DEF es
<1>5. IsSeq(Enabled(ds)) /\ \E L : Selects(L, Enabled(ds), ds, ds)
  BY <1>1, EnabledPositions
<1>6. PICK L : Selects(L, Enabled(ds), ds, ds)
  BY <1>5
<1>7. Selects(L, Enabled(ds), ds, es)
  BY <1>1, <1>4, <1>6 DEF Selects
<1> QED
  BY <1>1, <1>3, <1>5, <1>7 DEF ds, es

\* The poll groups of a channel's entries, each once.
ChannelGroups(ch) ==
    UNION {{dev.registers[r].group : r \in DOMAIN dev.registers} :
              dev \in {Polled(ch)[d] : d \in DOMAIN Polled(ch)}}

\* GroupsOf lists the poll groups the polled devices of a channel use.
LEMMA GroupsList ==
    ASSUME NEW cfg, Accepts(cfg), NEW c \in DOMAIN cfg.channels, cfg.channels[c].enabled
    PROVE  /\ ChannelGroups(Resolve(cfg)[c]) \subseteq DOMAIN cfg.groups
           /\ Lists(GroupsOf(Resolve(cfg)[c]), ChannelGroups(Resolve(cfg)[c]))
<1> DEFINE ch == Resolve(cfg)[c]
           S == ChannelGroups(ch)
<1>1. \A d \in DOMAIN Polled(ch) : \A r \in DOMAIN Polled(ch)[d].registers :
         Polled(ch)[d].registers[r].group \in DOMAIN cfg.groups
  <2>1. \A d \in DOMAIN Polled(ch) :
           \E D \in DOMAIN cfg.channels[c].devices : Polled(ch)[d] = ch.devices[D]
    <3>1. PICK L : Selects(L, Polled(Resolve(cfg)[c]), Resolve(cfg)[c].devices,
                          cfg.channels[c].devices)
      BY PlanDevices
    <3>2. DOMAIN ch.devices = DOMAIN cfg.channels[c].devices
      BY PlanDevices
    <3> QED
      BY <3>1, <3>2 DEF Selects
  <2>2. \A D \in DOMAIN cfg.channels[c].devices : \A r \in DOMAIN Resolved(cfg, c, D) :
           Resolved(cfg, c, D)[r].group \in DOMAIN cfg.groups
    BY ResolvedSound
  <2>3. \A D : Resolved(cfg, c, D) = ch.devices[D].registers
    BY DEF Resolved
  <2> HIDE DEF ch
  <2> QED
    BY <2>1, <2>2, <2>3
<1> HIDE DEF ch
<1>2. \A x : x \in S <=> \E d \in DOMAIN Polled(ch) : \E r \in DOMAIN Polled(ch)[d].registers :
                            x = Polled(ch)[d].registers[r].group
  BY DEF ChannelGroups
<1>3. S \subseteq DOMAIN cfg.groups
  BY <1>1, <1>2
<1>4. IsSeq(cfg.groups)
  BY ConfigurationParts DEF Accepts
<1>5. S \in SUBSET Int /\ IsFiniteSet(S)
  <2>1. Len(cfg.groups) \in Nat /\ DOMAIN cfg.groups = 1..Len(cfg.groups)
    BY <1>4, SeqElim
  <2>2. IsFiniteSet(1..Len(cfg.groups))
    BY <2>1, FS_Interval
  <2> HIDE DEF S
  <2> QED
    BY <1>3, <2>1, <2>2, FS_Subset
<1>6. GroupsOf(ch) = Ascending(S)
  BY DEF GroupsOf, ChannelGroups
<1> HIDE DEF S
<1> DEFINE n == Cardinality(S)
           L == Ascending(S)
<1>7. /\ n \in Nat /\ L \in [1..n -> S]
      /\ \A i, j \in 1..n : L[i] = L[j] => i = j
      /\ \A x \in S : \E i \in 1..n : L[i] = x
  BY <1>5, AscendingOrder
<1> HIDE DEF n, L
<1>8. IsSeq(L) /\ DOMAIN L = 1..n
  <2>1. L = [i \in 1..n |-> L[i]]
    BY <1>7
  <2> QED
    BY <1>7, <2>1, SeqIntro
<1>9. GroupsOf(ch) = L
  BY <1>6 DEF L
<1>10. \A g \in 1..n : L[g] \in S
  BY <1>7
<1>11. Lists(L, S)
  BY <1>7, <1>8, <1>10 DEF Lists
<1> QED
  BY <1>3, <1>9, <1>11 DEF S, ch

\* The requests of one device in one poll group as the plan holds them; of a device; of a
\* channel; of a configuration.
Items(dev, g) ==
    {[dev |-> dev.id, group |-> g, index |-> x, txn |-> Transactions(dev, g)[x]] :
        x \in DOMAIN Transactions(dev, g)}
DeviceItems(dev, groups) == UNION {Items(dev, g) : g \in groups}
ChannelItems(ch) ==
    UNION {DeviceItems(Polled(ch)[d], ChannelGroups(ch)) : d \in DOMAIN Polled(ch)}

\* The parts of a member of Items.
LEMMA ItemsOf ==
    ASSUME NEW dev, NEW g, NEW item \in Items(dev, g)
    PROVE  /\ item.dev = dev.id /\ item.group = g
           /\ item.index \in DOMAIN Transactions(dev, g)
           /\ item.txn = Transactions(dev, g)[item.index]
           /\ item = [dev |-> dev.id, group |-> g, index |-> item.index,
                      txn |-> Transactions(dev, g)[item.index]]
  BY DEF Items

\* BuildChannel's innermost list lists the requests of one device and group.
LEMMA ItemsList ==
    ASSUME NEW dev, NEW g, IsSeq(Transactions(dev, g))
    PROVE  Lists([i \in DOMAIN Transactions(dev, g) |->
                    [dev |-> dev.id, group |-> g, index |-> i, txn |-> Transactions(dev, g)[i]]],
                 Items(dev, g))
<1> DEFINE T == Transactions(dev, g)
           s == [i \in DOMAIN T |->
                   [dev |-> dev.id, group |-> g, index |-> i, txn |-> T[i]]]
<1>1. \A x : x \in Items(dev, g) <=>
         \E i \in DOMAIN T : x = [dev |-> dev.id, group |-> g, index |-> i, txn |-> T[i]]
  BY DEF Items
<1>2. Len(T) \in Nat /\ DOMAIN T = 1..Len(T)
  BY SeqElim
<1> HIDE DEF T
<1>3. DOMAIN s = 1..Len(T) /\ s = [i \in 1..Len(T) |-> s[i]]
  BY <1>2
<1>4. \A i \in DOMAIN T :
         s[i] = [dev |-> dev.id, group |-> g, index |-> i, txn |-> T[i]]
  OBVIOUS
<1> HIDE DEF s
<1>5. IsSeq(s)
  BY <1>2, <1>3, SeqIntro
<1>6. \A i \in DOMAIN s : s[i] \in Items(dev, g)
  BY <1>1, <1>2, <1>3, <1>4
<1>7. ASSUME NEW i \in DOMAIN s, NEW j \in DOMAIN s, s[i] = s[j] PROVE i = j
  <2>1. s[i].index = i /\ s[j].index = j
    BY <1>2, <1>3, <1>4
  <2> QED
    BY <1>7, <2>1
<1>8. \A x \in Items(dev, g) : \E i \in DOMAIN s : s[i] = x
  BY <1>1, <1>2, <1>3, <1>4
<1>9. Lists(s, Items(dev, g))
  BY <1>5, <1>6, <1>7, <1>8 DEF Lists
<1> QED
  BY <1>9 DEF s, T

\* What Lists says, by number.
LEMMA ListedParts ==
    ASSUME NEW s, NEW S, Lists(s, S)
    PROVE  /\ Len(s) \in Nat /\ DOMAIN s = 1..Len(s)
           /\ \A i \in 1..Len(s) : s[i] \in S
           /\ \A i, j \in 1..Len(s) : s[i] = s[j] => i = j
           /\ \A x \in S : \E i \in 1..Len(s) : s[i] = x
  BY SeqElim DEF Lists

\* What BuildChannel makes of one device.
DeviceEntries(dev, groups) ==
    FlattenSeq([g \in DOMAIN groups |->
        LET txns == Transactions(dev, groups[g])
        IN  [i \in DOMAIN txns |-> [dev |-> dev.id, group |-> groups[g],
                                    index |-> i, txn |-> txns[i]]]])

\* The requests of one device over a list of groups.
LEMMA DeviceEntriesList ==
    ASSUME NEW dev, SoundRegisters(dev.registers), NEW groups, NEW S, Lists(groups, S)
    PROVE  Lists(DeviceEntries(dev, groups), DeviceItems(dev, S))
<1> DEFINE n == Len(groups)
           ss == [g \in DOMAIN groups |->
                    [i \in DOMAIN Transactions(dev, groups[g]) |->
                       [dev |-> dev.id, group |-> groups[g], index |-> i,
                        txn |-> Transactions(dev, groups[g])[i]]]]
           SS == [g \in DOMAIN groups |-> Items(dev, groups[g])]
<1>1. /\ n \in Nat /\ DOMAIN groups = 1..n /\ \A i \in 1..n : groups[i] \in S
      /\ \A i, j \in 1..n : groups[i] = groups[j] => i = j
      /\ \A x \in S : \E i \in 1..n : groups[i] = x
  BY ListedParts
<1> HIDE DEF n
<1>2. \A g : IsSeq(Transactions(dev, g))
  BY TransactionsFeed DEF FeedsFrom
<1>3. \A g \in 1..n : Lists(ss[g], SS[g])
  <2>1. TAKE g \in 1..n
  <2>2. ss[g] = [i \in DOMAIN Transactions(dev, groups[g]) |->
                   [dev |-> dev.id, group |-> groups[g], index |-> i,
                    txn |-> Transactions(dev, groups[g])[i]]]
    BY <1>1
  <2>3. SS[g] = Items(dev, groups[g])
    BY <1>1
  <2> HIDE DEF ss, SS
  <2>4. Lists([i \in DOMAIN Transactions(dev, groups[g]) |->
                   [dev |-> dev.id, group |-> groups[g], index |-> i,
                    txn |-> Transactions(dev, groups[g])[i]]], Items(dev, groups[g]))
    BY <1>2, ItemsList
  <2> QED
    BY <2>2, <2>3, <2>4
<1>4. \A g \in 1..n : SS[g] = Items(dev, groups[g])
  BY <1>1
<1>5. ss = [g \in 1..n |-> ss[g]]
  BY <1>1
<1>6. DeviceEntries(dev, groups) = FlattenSeq(ss)
  BY DEF DeviceEntries
<1> HIDE DEF ss, SS
<1>7. Disjoint(SS, n)
  <2>1. SUFFICES ASSUME NEW a \in 1..n, NEW b \in 1..n, NEW x, x \in SS[a], x \in SS[b]
                 PROVE  a = b
    BY DEF Disjoint
  <2>2. x.group = groups[a] /\ x.group = groups[b]
    BY <1>4, <2>1, ItemsOf
  <2> QED
    BY <1>1, <2>2
<1>8. Lists(FlattenSeq(ss), Union(SS, n))
  BY <1>1, <1>3, <1>5, <1>7, ListsFlattened
<1>9. Union(SS, n) = DeviceItems(dev, S)
  <2>1. \A x : x \in Union(SS, n) <=> \E a \in 1..n : x \in Items(dev, groups[a])
    BY <1>4 DEF Union
  <2>2. \A x : x \in DeviceItems(dev, S) <=> \E g \in S : x \in Items(dev, g)
    BY DEF DeviceItems
  <2>3. \A x : x \in Union(SS, n) <=> x \in DeviceItems(dev, S)
    BY <1>1, <2>1, <2>2
  <2> QED
    BY <2>3
<1> QED
  BY <1>6, <1>8, <1>9

\* BuildChannel lists the requests of one channel.
LEMMA ChannelList ==
    ASSUME NEW cfg, Accepts(cfg), NEW c \in DOMAIN cfg.channels, cfg.channels[c].enabled
    PROVE  /\ Lists(BuildChannel(Resolve(cfg)[c]), ChannelItems(Resolve(cfg)[c]))
           /\ \A x \in ChannelItems(Resolve(cfg)[c]) : x.dev[1] = c
<1> DEFINE ch == Resolve(cfg)[c]
           P == Polled(ch)
           n == Len(P)
           ss == [d \in DOMAIN P |-> DeviceEntries(P[d], GroupsOf(ch))]
           SS == [d \in DOMAIN P |-> DeviceItems(P[d], ChannelGroups(ch))]
<1>1. Lists(GroupsOf(ch), ChannelGroups(ch))
  BY GroupsList
<1>2. IsSeq(P)
  BY PlanDevices
<1>3. PICK L : Selects(L, P, ch.devices, cfg.channels[c].devices)
  BY PlanDevices
<1>31. DOMAIN ch.devices = DOMAIN cfg.channels[c].devices
  BY PlanDevices
<1>32. \A i \in DOMAIN P : L[i] \in DOMAIN cfg.channels[c].devices /\ P[i] = ch.devices[L[i]]
  BY <1>3, <1>31 DEF Selects
<1>33. \A i, j \in DOMAIN P : L[i] = L[j] => i = j
  BY <1>3 DEF Selects
<1>4. \A D \in DOMAIN cfg.channels[c].devices :
         SoundRegisters(ch.devices[D].registers) /\ ch.devices[D].id = <<c, D>>
  BY ResolvedSound, ResolvedDevice DEF Resolved, Accepts
<1>5. BuildChannel(ch) = FlattenSeq(ss)
  BY DEF BuildChannel, DeviceEntries
<1> HIDE DEF ch
<1>6. ChannelItems(ch) = UNION {SS[d] : d \in DOMAIN P}
  BY DEF ChannelItems
<1> HIDE DEF P
<1>7. n \in Nat /\ DOMAIN P = 1..n
  BY <1>2, SeqElim
<1> HIDE DEF n
<1>8. \A d \in 1..n : SoundRegisters(P[d].registers) /\ P[d].id = <<c, L[d]>>
  BY <1>32, <1>4, <1>7
<1>9. ss = [d \in 1..n |-> ss[d]]
      /\ \A d \in 1..n : ss[d] = DeviceEntries(P[d], GroupsOf(ch))
  BY <1>7
<1>10. \A d \in 1..n : SS[d] = DeviceItems(P[d], ChannelGroups(ch))
  BY <1>7
<1>11. ChannelItems(ch) = Union(SS, n)
  BY <1>6, <1>7 DEF Union
<1> HIDE DEF ss, SS
<1>12. \A d \in 1..n : Lists(ss[d], SS[d])
  BY <1>1, <1>8, <1>9, <1>10, DeviceEntriesList
<1>13. ASSUME NEW d \in 1..n, NEW x \in SS[d] PROVE x.dev = <<c, L[d]>>
  <2>1. PICK g \in ChannelGroups(ch) : x \in Items(P[d], g)
    BY <1>10, <1>13 DEF DeviceItems
  <2> QED
    BY <1>8, <2>1, ItemsOf
<1>14. Disjoint(SS, n)
  <2>1. SUFFICES ASSUME NEW a \in 1..n, NEW b \in 1..n, NEW x, x \in SS[a], x \in SS[b]
                 PROVE  a = b
    BY DEF Disjoint
  <2>2. <<c, L[a]>> = <<c, L[b]>>
    BY <1>13, <2>1
  <2>3. L[a] = L[b]
    BY <2>2
  <2> QED
    BY <1>33, <1>7, <2>3
<1>15. Lists(FlattenSeq(ss), Union(SS, n))
  BY <1>7, <1>9, <1>12, <1>14, ListsFlattened
<1>16. ASSUME NEW x \in ChannelItems(ch) PROVE x.dev[1] = c
  <2>1. PICK d \in 1..n : x \in SS[d]
    BY <1>11 DEF Union
  <2>2. x.dev = <<c, L[d]>>
    BY <1>13, <2>1
  <2> QED
    BY <2>2
<1> QED
  BY <1>5, <1>11, <1>15, <1>16 DEF ch

\* The requests of a configuration.
PlanItems(cfg) ==
    UNION {ChannelItems(Resolve(cfg)[c]) :
             c \in {c \in DOMAIN cfg.channels : cfg.channels[c].enabled}}

\* BuildAll lists every request of the configuration once (plan.rs:90-189).
LEMMA PlanList ==
    ASSUME NEW cfg, Accepts(cfg)
    PROVE  Lists(BuildAll(Resolve(cfg)), PlanItems(cfg))
<1> DEFINE R == Resolve(cfg)
           E == Enabled(R)
           n == Len(E)
           ss == [c \in DOMAIN E |-> BuildChannel(E[c])]
           SS == [c \in DOMAIN E |-> ChannelItems(E[c])]
           on == {c \in DOMAIN cfg.channels : cfg.channels[c].enabled}
<1>1. IsSeq(E) /\ \E L : Selects(L, E, R, cfg.channels)
  BY PlanChannels
<1>2. PICK L : /\ \A i \in DOMAIN E : L[i] \in on /\ E[i] = R[L[i]]
               /\ \A i, j \in DOMAIN E : L[i] = L[j] => i = j
               /\ \A x \in on : \E i \in DOMAIN E : L[i] = x
  <2>1. PICK L : Selects(L, E, R, cfg.channels)
    BY <1>1
  <2>2. DOMAIN R = DOMAIN cfg.channels
    BY ResolvedShape DEF Accepts
  <2> HIDE DEF E, R
  <2> QED
    BY <2>1, <2>2 DEF Selects
<1>3. BuildAll(R) = FlattenSeq(ss)
  BY DEF BuildAll
<1>4. \A c \in on : /\ Lists(BuildChannel(R[c]), ChannelItems(R[c]))
                    /\ \A x \in ChannelItems(R[c]) : x.dev[1] = c
  BY ChannelList
<1>5. \A x : x \in PlanItems(cfg) <=> \E c \in on : x \in ChannelItems(R[c])
  BY DEF PlanItems
<1> HIDE DEF E, R, on
<1>6. n \in Nat /\ DOMAIN E = 1..n
  BY <1>1, SeqElim
<1> HIDE DEF n
<1>7. ss = [c \in 1..n |-> ss[c]] /\ \A c \in 1..n : ss[c] = BuildChannel(R[L[c]])
  BY <1>2, <1>6
<1>8. \A c \in 1..n : SS[c] = ChannelItems(R[L[c]])
  BY <1>2, <1>6
<1> HIDE DEF ss, SS
<1>9. \A c \in 1..n : Lists(ss[c], SS[c])
  BY <1>2, <1>4, <1>6, <1>7, <1>8
<1>10. Disjoint(SS, n)
  <2>1. SUFFICES ASSUME NEW a \in 1..n, NEW b \in 1..n, NEW x, x \in SS[a], x \in SS[b]
                 PROVE  a = b
    BY DEF Disjoint
  <2>2. x.dev[1] = L[a] /\ x.dev[1] = L[b]
    BY <1>2, <1>4, <1>6, <1>8, <2>1
  <2> QED
    BY <1>2, <1>6, <2>2
<1>11. Lists(FlattenSeq(ss), Union(SS, n))
  BY <1>6, <1>7, <1>9, <1>10, ListsFlattened
<1>12. Union(SS, n) = PlanItems(cfg)
  <2>1. \A x : x \in Union(SS, n) <=> \E a \in 1..n : x \in ChannelItems(R[L[a]])
    BY <1>8 DEF Union
  <2>2. \A x : x \in Union(SS, n) <=> x \in PlanItems(cfg)
    BY <1>2, <1>5, <1>6, <2>1
  <2> QED
    BY <2>2
<1> QED
  BY <1>3, <1>11, <1>12 DEF R

\* Where a request of the plan comes from.
LEMMA PlanItemParts ==
    ASSUME NEW cfg, Accepts(cfg), NEW item \in PlanItems(cfg)
    PROVE  \E c \in DOMAIN cfg.channels : \E d \in DOMAIN cfg.channels[c].devices :
              /\ cfg.channels[c].enabled /\ cfg.channels[c].devices[d].enabled
              /\ item.group \in DOMAIN cfg.groups
              /\ item \in Items(Resolve(cfg)[c].devices[d], item.group)
<1> DEFINE R == Resolve(cfg)
<1>1. PICK c \in DOMAIN cfg.channels : cfg.channels[c].enabled /\ item \in ChannelItems(R[c])
  BY DEF PlanItems
<1>2. PICK b \in DOMAIN Polled(R[c]) : item \in DeviceItems(Polled(R[c])[b], ChannelGroups(R[c]))
  BY <1>1 DEF ChannelItems
<1>3. PICK g \in ChannelGroups(R[c]) : item \in Items(Polled(R[c])[b], g)
  BY <1>2 DEF DeviceItems
<1>4. item.group = g
  BY <1>3, ItemsOf
<1>5. g \in DOMAIN cfg.groups
  BY <1>1, GroupsList
<1>6. PICK L : Selects(L, Polled(R[c]), R[c].devices, cfg.channels[c].devices)
  BY <1>1, PlanDevices
<1>7. DOMAIN R[c].devices = DOMAIN cfg.channels[c].devices
  BY <1>1, PlanDevices
<1> HIDE DEF R
<1>8. /\ L[b] \in DOMAIN cfg.channels[c].devices /\ cfg.channels[c].devices[L[b]].enabled
      /\ Polled(R[c])[b] = R[c].devices[L[b]]
  BY <1>6, <1>7 DEF Selects
<1> QED
  BY <1>1, <1>3, <1>4, <1>5, <1>8 DEF R

\* A request of an enabled device of an enabled channel is in the plan.
LEMMA PlanItemOf ==
    ASSUME NEW cfg, Accepts(cfg), NEW c \in DOMAIN cfg.channels, cfg.channels[c].enabled,
           NEW d \in DOMAIN cfg.channels[c].devices, cfg.channels[c].devices[d].enabled,
           NEW g, NEW item \in Items(Resolve(cfg)[c].devices[d], g)
    PROVE  item \in PlanItems(cfg)
<1> DEFINE R == Resolve(cfg)
           dev == R[c].devices[d]
<1>1. PICK L : Selects(L, Polled(R[c]), R[c].devices, cfg.channels[c].devices)
  BY PlanDevices
<1>2. DOMAIN R[c].devices = DOMAIN cfg.channels[c].devices
  BY PlanDevices
<1>3. SoundRegisters(dev.registers)
  BY ResolvedSound DEF Resolved
<1>4. item \in Items(dev, g)
  OBVIOUS
<1> HIDE DEF R
<1>5. PICK b \in DOMAIN Polled(R[c]) : Polled(R[c])[b] = dev
  BY <1>1, <1>2 DEF Selects
<1> HIDE DEF dev
<1>6. g \in ChannelGroups(R[c])
  <2>1. item.index \in DOMAIN Transactions(dev, g)
    BY <1>4, ItemsOf
  <2> DEFINE S == {r \in DOMAIN dev.registers : dev.registers[r].group = g}
             txns == Transactions(dev, g)
             x == item.index
  <2>2. FeedsFrom(txns, dev.registers, S)
    BY <1>3, TransactionsFeed
  <2> HIDE DEF txns
  <2>3. /\ IsSeq(txns) /\ \A y \in 1..Len(txns) : SoundTxn(txns[y])
        /\ \A y \in 1..Len(txns) : \A k \in 1..Len(txns[y].fields) :
               \E r \in S : FieldOf(txns[y], txns[y].fields[k], dev.registers[r])
    BY <2>2 DEF FeedsFrom
  <2>4. x \in 1..Len(txns)
    BY <2>1, <2>3, SeqElim DEF txns
  <2>5. 1 \in 1..Len(txns[x].fields)
    <3>1. IsSeq(txns[x].fields) /\ Len(txns[x].fields) > 0
      BY <2>3, <2>4 DEF SoundTxn
    <3> HIDE DEF x
    <3>2. Len(txns[x].fields) \in Nat
      BY <3>1, SeqElim
    <3> QED
      BY <3>1, <3>2
  <2>6. PICK r \in S : FieldOf(txns[x], txns[x].fields[1], dev.registers[r])
    BY <2>3, <2>4, <2>5
  <2>7. r \in DOMAIN dev.registers /\ dev.registers[r].group = g
    OBVIOUS
  <2> QED
    BY <1>5, <2>7 DEF ChannelGroups
<1>7. item \in ChannelItems(R[c])
  BY <1>4, <1>5, <1>6 DEF ChannelItems, DeviceItems
<1> QED
  BY <1>7 DEF PlanItems, R

\* The field f of a request t to device dev is a tag of that device, at the tag's own addresses.
OwnField(dev, t, f) ==
    /\ Shaped(f) /\ f.off \in Nat /\ f.len \in Nat /\ f.tag \in DOMAIN EntryPlaces(file)
    /\ DeviceOf(f.tag) = dev
    /\ t.area # "custom" =>
          /\ f.off + f.len <= t.qty /\ f.len \in 1..MaxQty(t.area)
          /\ IsRead(EntryOf(f.tag).fn)
    /\ IsRead(EntryOf(f.tag).fn) =>
          /\ t.area = ReadArea[EntryOf(f.tag).fn]
          /\ t.base + f.off = EntryOf(f.tag).address
          /\ f.len = EntrySpan(EntryOf(f.tag), t.area)

\* A request Modbus can carry, with fields of its own device.
OwnRequest(dev, t) ==
    /\ IsSeq(t.fields) /\ Len(t.fields) > 0
    /\ \A k \in DOMAIN t.fields : OwnField(dev, t, t.fields[k])
    /\ t.area # "custom" =>
          /\ t.area \in ToSet(Areas) /\ t.base \in Nat /\ t.qty \in 1..MaxQty(t.area)
          /\ t.base + t.qty <= AddrSpace

\* What Init compiles from the file stays as it is.
PlanInv ==
    /\ file \in Configurations
    /\ \/ status = "running" /\ Accepted /\ plan = BuildAll(Resolve(file))
       \/ status # "running" /\ plan = <<>>

\* A request of the plan is one Modbus can carry, and its fields are tags of its own device.
LEMMA ItemRequest ==
    ASSUME Accepts(file), NEW item \in PlanItems(file)
    PROVE  OwnRequest(item.dev, item.txn) /\ item.dev \in DeviceSet(file)
<1>0. PICK c \in DOMAIN file.channels : \E d \in DOMAIN file.channels[c].devices :
         item \in Items(Resolve(file)[c].devices[d], item.group)
  BY PlanItemParts
<1>1. PICK d \in DOMAIN file.channels[c].devices :
         item \in Items(Resolve(file)[c].devices[d], item.group)
  BY <1>0
<1> DEFINE dev == Resolve(file)[c].devices[d]
           regs == dev.registers
           es == file.channels[c].devices[d].registers
           g == item.group
           t == item.txn
<1>2. /\ SoundRegisters(regs) /\ DOMAIN regs = DOMAIN es
      /\ \A r \in DOMAIN es : /\ regs[r].tag = TagAt(file, <<c, d, r>>)
                              /\ regs[r].fn = es[r].fn /\ regs[r].address = es[r].address
                              /\ Width(regs[r]) = Width(es[r])
  <2> DEFINE rs == Resolved(file, c, d)
             ss == Stated(file, c, d)
  <2>1. SoundRegisters(rs) /\ DOMAIN rs = DOMAIN ss
    BY <1>1, ResolvedSound
  <2>2. \A r \in DOMAIN ss : /\ rs[r].tag = TagAt(file, <<c, d, r>>)
                             /\ rs[r].fn = ss[r].fn /\ rs[r].address = ss[r].address
                             /\ Width(rs[r]) = Width(ss[r])
    BY <1>1, ResolvedSound
  <2>3. rs = regs /\ ss = es
    BY DEF Resolved, Stated
  <2> HIDE DEF rs, ss, regs, es
  <2> QED
    BY <2>1, <2>2, <2>3
<1>3. dev.id = <<c, d>>
  BY <1>1, ResolvedDevice DEF Accepts
<1>4. item \in Items(dev, g)
  BY <1>1
<1>5. <<c, d>> \in DeviceSet(file)
  BY <1>1 DEF DeviceSet
<1>6. ASSUME NEW r \in DOMAIN es
      PROVE  /\ regs[r].tag \in DOMAIN EntryPlaces(file)
             /\ DeviceOf(regs[r].tag) = <<c, d>>
             /\ EntryOf(regs[r].tag) = es[r]
  <2> DEFINE p == <<c, d, r>>
  <2>1. p \in EntrySet(file)
    BY <1>5 DEF EntrySet
  <2>2. TagAt(file, p) \in DOMAIN EntryPlaces(file) /\ EntryPlaces(file)[TagAt(file, p)] = p
    BY <2>1, TagOfPlace DEF Accepts
  <2>3. regs[r].tag = TagAt(file, p)
    BY <1>2
  <2> HIDE DEF dev, regs
  <2> QED
    BY <2>2, <2>3 DEF DeviceOf, EntryOf, EntryAt
<1> HIDE DEF dev, es
<1> DEFINE S == {r \in DOMAIN regs : regs[r].group = g}
           txns == Transactions(dev, g)
           x == item.index
<1>7. x \in DOMAIN txns /\ t = txns[x] /\ item.dev = <<c, d>>
  BY <1>3, <1>4, ItemsOf
<1>8. FeedsFrom(txns, regs, S)
  BY <1>2, TransactionsFeed
<1> HIDE DEF txns, x, t, regs, g
<1>9. SoundTxn(t) /\ \A k \in 1..Len(t.fields) : \E r \in S : FieldOf(t, t.fields[k], regs[r])
  <2>1. IsSeq(txns)
    BY <1>8 DEF FeedsFrom
  <2>2. DOMAIN txns = 1..Len(txns)
    BY <2>1, SeqElim
  <2> QED
    BY <1>7, <1>8, <2>2 DEF FeedsFrom
<1>10. IsSeq(t.fields) /\ Len(t.fields) > 0
  BY <1>9 DEF SoundTxn
<1>11. ASSUME NEW k \in DOMAIN t.fields PROVE OwnField(<<c, d>>, t, t.fields[k])
  <2> DEFINE f == t.fields[k]
  <2>1. k \in 1..Len(t.fields)
    BY <1>10, SeqElim
  <2>2. PICK r \in S : FieldOf(t, f, regs[r])
    BY <1>9, <2>1
  <2>3. r \in DOMAIN regs /\ r \in DOMAIN es
    BY <1>2
  <2> HIDE DEF f, S
  <2> DEFINE e == regs[r]
  <2>4. /\ Shaped(f) /\ f.tag = e.tag /\ f.off \in Nat /\ f.len \in Nat
        /\ IsRead(e.fn) => /\ t.area = ReadArea[e.fn] /\ t.base + f.off = e.address
                           /\ f.len = EntrySpan(e, t.area)
        /\ t.area # "custom" => IsRead(e.fn) /\ f.off + f.len <= t.qty
    BY <2>2 DEF FieldOf
  <2>5. IsRead(e.fn) => EntrySpan(e, ReadArea[e.fn]) \in 1..MaxQty(ReadArea[e.fn])
    BY <1>2, <2>3 DEF SoundRegisters
  <2>6. e.fn = es[r].fn /\ e.address = es[r].address
        /\ EntrySpan(e, t.area) = EntrySpan(es[r], t.area)
    BY <1>2, <2>3 DEF EntrySpan
  <2>7. e.tag \in DOMAIN EntryPlaces(file) /\ DeviceOf(e.tag) = <<c, d>>
        /\ EntryOf(e.tag) = es[r]
    BY <1>6, <2>3
  <2> HIDE DEF e
  <2>8. f.tag \in DOMAIN EntryPlaces(file) /\ DeviceOf(f.tag) = <<c, d>>
        /\ EntryOf(f.tag) = es[r]
    BY <2>4, <2>7
  <2>9. t.area # "custom" => f.len \in 1..MaxQty(t.area)
    BY <2>4, <2>5
  <2>10. IsRead(es[r].fn) => /\ t.area = ReadArea[es[r].fn] /\ t.base + f.off = es[r].address
                             /\ f.len = EntrySpan(es[r], t.area)
    BY <2>4, <2>6
  <2>11. t.area # "custom" => IsRead(es[r].fn)
    BY <2>4, <2>6
  <2>12. OwnField(<<c, d>>, t, f)
    BY <2>4, <2>8, <2>9, <2>10, <2>11 DEF OwnField
  <2> QED
    BY <2>12 DEF f
<1>12. t.area # "custom" =>
          /\ t.area \in ToSet(Areas) /\ t.base \in Nat /\ t.qty \in 1..MaxQty(t.area)
          /\ t.base + t.qty <= AddrSpace
  BY <1>9 DEF SoundTxn, SoundRead
<1>13. OwnRequest(<<c, d>>, t)
  BY <1>10, <1>11, <1>12 DEF OwnRequest
<1> QED
  BY <1>5, <1>7, <1>13 DEF t

-----------------------------------------------------------------------------
(* Polling                                                                 *)

\* So are the requests a refused one is split into (device.rs:150-182).
LEMMA SplitRequest ==
    ASSUME NEW dev, NEW t, OwnRequest(dev, t), NEW k \in DOMAIN t.fields
    PROVE  OwnRequest(dev, SplitTxn(t)[k])
<1> DEFINE f == t.fields[k]
           z == [f EXCEPT !.off = 0]
           s == SplitTxn(t)[k]
<1>1. OwnField(dev, t, f)
  BY DEF OwnRequest
<1>2. s = [area |-> t.area, base |-> t.base + f.off, qty |-> Larger(f.len, 1),
           fields |-> <<z>>, coalesced |-> FALSE]
  BY DEF SplitTxn
<1>3. t.area # "custom" =>
         /\ t.area \in ToSet(Areas) /\ t.base \in Nat /\ t.qty \in 1..MaxQty(t.area)
         /\ t.base + t.qty <= AddrSpace
  BY DEF OwnRequest
<1> HIDE DEF f, s
<1>4. /\ s.area = t.area /\ s.base = t.base + f.off /\ s.qty = Larger(f.len, 1)
      /\ s.fields = <<z>>
  BY <1>2
<1>5. z = [tag |-> f.tag, off |-> 0, len |-> f.len]
  <2>1. f = [tag |-> f.tag, off |-> f.off, len |-> f.len]
    BY <1>1 DEF OwnField, Shaped
  <2> QED
    BY <2>1
<1>6. z.tag = f.tag /\ z.off = 0 /\ z.len = f.len /\ Shaped(z)
  BY <1>5 DEF Shaped
<1> HIDE DEF z
<1>7. f.off \in Nat /\ f.len \in Nat
  BY <1>1 DEF OwnField
<1>8. t.area # "custom" => s.qty = f.len
  BY <1>1, <1>4 DEF OwnField, Larger
<1>9. s.area # "custom" =>
         /\ s.area \in ToSet(Areas) /\ s.base \in Nat /\ s.qty \in 1..MaxQty(s.area)
         /\ s.base + s.qty <= AddrSpace
  <2>1. SUFFICES ASSUME t.area # "custom"
                 PROVE  /\ t.base + f.off \in Nat /\ f.len \in 1..MaxQty(t.area)
                        /\ t.base + f.off + f.len <= AddrSpace
    BY <1>3, <1>4, <1>8
  <2>2. f.off + f.len <= t.qty /\ f.len \in 1..MaxQty(t.area)
    BY <1>1, <2>1 DEF OwnField
  <2>3. t.base \in Nat /\ t.qty \in Int /\ t.base + t.qty <= AddrSpace
    BY <1>3, <2>1
  <2>4. AddrSpace \in Int
    BY CapsAssumption
  <2> QED
    BY <1>7, <2>2, <2>3, <2>4
<1>10. OwnField(dev, s, z)
  <2>1. s.area # "custom" => z.off + z.len <= s.qty /\ z.len \in 1..MaxQty(s.area)
                             /\ IsRead(EntryOf(z.tag).fn)
    BY <1>1, <1>4, <1>6, <1>7, <1>8 DEF OwnField
  <2>2. IsRead(EntryOf(z.tag).fn) =>
          /\ s.area = ReadArea[EntryOf(z.tag).fn]
          /\ s.base + z.off = EntryOf(z.tag).address
          /\ z.len = EntrySpan(EntryOf(z.tag), s.area)
    <3>1. SUFFICES ASSUME IsRead(EntryOf(f.tag).fn)
                   PROVE  /\ t.area = ReadArea[EntryOf(f.tag).fn]
                          /\ t.base + f.off + 0 = EntryOf(f.tag).address
                          /\ f.len = EntrySpan(EntryOf(f.tag), t.area)
      BY <1>4, <1>6
    <3>2. /\ t.area = ReadArea[EntryOf(f.tag).fn]
          /\ t.base + f.off = EntryOf(f.tag).address
          /\ f.len = EntrySpan(EntryOf(f.tag), t.area)
      BY <1>1, <3>1 DEF OwnField
    <3>3. t.area # "custom"
      BY <3>1, <3>2, AreaDistinct, ReadAreas DEF IsRead
    <3>4. t.base \in Nat
      BY <1>3, <3>3
    <3> QED
      BY <1>7, <3>2, <3>4
  <2> QED
    BY <1>1, <1>6, <1>7, <2>1, <2>2 DEF OwnField
<1>11. IsSeq(s.fields) /\ Len(s.fields) = 1 /\ DOMAIN s.fields = 1..1 /\ s.fields[1] = z
  <2>1. s.fields = [j \in 1..1 |-> s.fields[j]] /\ s.fields[1] = z
    BY <1>4
  <2> QED
    BY <2>1, SeqIntro
<1>12. OwnRequest(dev, s)
  BY <1>9, <1>10, <1>11 DEF OwnRequest
<1> QED
  BY <1>12 DEF s

\* Every request of the compiled plan.
LEMMA PlanRequests ==
    ASSUME PlanInv
    PROVE  /\ IsSeq(plan)
           /\ \A i \in DOMAIN plan :
                 OwnRequest(plan[i].dev, plan[i].txn) /\ plan[i].dev \in DeviceSet(file)
<1>1. CASE status = "running" /\ Accepted /\ plan = BuildAll(Resolve(file))
  <2>1. Accepts(file)
    BY <1>1 DEF PlanInv, Accepts, Accepted
  <2>2. Lists(plan, PlanItems(file))
    BY <1>1, <2>1, PlanList
  <2>3. IsSeq(plan) /\ \A i \in DOMAIN plan : plan[i] \in PlanItems(file)
    BY <2>2 DEF Lists
  <2> QED
    BY <2>1, <2>3, ItemRequest
<1>2. CASE plan = <<>>
  <2>1. plan = [i \in 1..0 |-> plan[i]]
    BY <1>2
  <2>2. IsSeq(plan) /\ DOMAIN plan = 1..0
    BY <2>1, SeqIntro
  <2> QED
    BY <2>2
<1> QED
  BY <1>1, <1>2 DEF PlanInv

\* Init compiles the plan from the file it accepted.
LEMMA InitPlanInv == Init => PlanInv
  BY FilesAssumption DEF Init, PlanInv

\* No step changes the plan.
LEMMA StepKeepsPlan == PlanInv /\ [Next]_vars => PlanInv'
<1> SUFFICES ASSUME PlanInv, [Next]_vars PROVE PlanInv'
  OBVIOUS
<1>1. UNCHANGED <<file, status, plan>>
  BY DEF Next, Poll, Write, loaded, vars
<1> QED
  BY <1>1 DEF PlanInv, Accepted

\* The blocks of the plan fit, whole and split.
LEMMA PlanFits == PlanInv => BlocksFit
<1> SUFFICES ASSUME PlanInv, NEW i \in DOMAIN plan, NEW t \in Parts(i), t.area # "custom"
             PROVE  /\ t.qty \in 1..MaxQty(t.area)
                    /\ t.base + t.qty <= AddrSpace
                    /\ \A k \in DOMAIN t.fields : t.fields[k].off + t.fields[k].len <= t.qty
  BY DEF BlocksFit
<1>1. OwnRequest(plan[i].dev, plan[i].txn)
  BY PlanRequests
<1>2. OwnRequest(plan[i].dev, t)
  <2>1. CASE t = plan[i].txn
    BY <1>1, <2>1
  <2>2. CASE t \in ToSet(SplitTxn(plan[i].txn))
    <3>1. PICK k \in DOMAIN plan[i].txn.fields : t = SplitTxn(plan[i].txn)[k]
      BY <2>2 DEF ToSet, SplitTxn
    <3> QED
      BY <1>1, <3>1, SplitRequest
  <2> QED
    BY <2>1, <2>2 DEF Parts
<1> QED
  BY <1>2 DEF OwnRequest, OwnField

\* Every request of the plan, whole or split, is one Modbus can carry and stays inside the
\* address space (BlocksFit, a part of PlanCovers; coalesce.rs:38-66, device.rs:150-182).
THEOREM PlanFitsAlways == Spec => []BlocksFit
<1>1. Init => PlanInv
  BY InitPlanInv
<1>2. PlanInv /\ [Next]_vars => PlanInv'
  BY StepKeepsPlan
<1>3. PlanInv => BlocksFit
  BY PlanFits
<1> QED
  BY <1>1, <1>2, <1>3, PTL DEF Spec

\* The cache has an entry for every tag of the file.
CacheShape ==
    /\ DOMAIN cache = DOMAIN EntryPlaces(file)
    /\ \A tag \in DOMAIN cache : DOMAIN cache[tag] = {"quality", "words"}

\* The request to make next is one of the plan.
NextShape ==
    plan # <<>> =>
        \E a \in DOMAIN plan : \E b \in 1..Len(Effective(a)) : next = <<a, b>>

\* The inductive invariant of polling.
OwnInv == PlanInv /\ CacheShape /\ NextShape

\* What the poller sends for a request: the whole, or its parts.
LEMMA EffectiveParts ==
    ASSUME PlanInv, NEW a \in DOMAIN plan
    PROVE  /\ Len(Effective(a)) \in Nat \ {0}
           /\ a \notin splits => Len(Effective(a)) = 1
           /\ \A b \in 1..Len(Effective(a)) : OwnRequest(plan[a].dev, Effective(a)[b])
<1>1. OwnRequest(plan[a].dev, plan[a].txn)
  BY PlanRequests
<1> DEFINE t == plan[a].txn
           n == Len(t.fields)
<1>2. IsSeq(t.fields) /\ n > 0
  BY <1>1 DEF OwnRequest
<1>3. n \in Nat /\ DOMAIN t.fields = 1..n
  BY <1>2, SeqElim
<1>4. CASE a \in splits
  <2>1. Effective(a) = SplitTxn(t)
    BY <1>4 DEF Effective
  <2>2. SplitTxn(t) = [i \in 1..n |-> SplitTxn(t)[i]]
    BY <1>3 DEF SplitTxn
  <2>3. Len(SplitTxn(t)) = n
    BY <1>3, <2>2, SeqIntro
  <2>4. \A b \in 1..n : OwnRequest(plan[a].dev, SplitTxn(t)[b])
    BY <1>1, <1>3, SplitRequest
  <2> QED
    BY <1>2, <1>3, <1>4, <2>1, <2>3, <2>4
<1>5. CASE a \notin splits
  <2> HIDE DEF n
  <2>1. Effective(a) = <<t>>
    BY <1>5 DEF Effective
  <2> HIDE DEF t
  <2>2. Effective(a) = [i \in 1..1 |-> Effective(a)[i]] /\ Effective(a)[1] = t
    BY <2>1
  <2>3. Len(Effective(a)) = 1
    BY <2>2, SeqIntro
  <2> QED
    BY <1>1, <1>5, <2>2, <2>3 DEF t
<1> QED
  BY <1>4, <1>5

\* The invariant of polling holds at the start.
LEMMA InitOwnInv == Init => OwnInv
<1> SUFFICES ASSUME Init PROVE OwnInv
  OBVIOUS
<1>1. PlanInv
  BY InitPlanInv
<1>2. CacheShape
  BY DEF Init, CacheShape
<1>3. NextShape
  <2>1. SUFFICES ASSUME plan # <<>>
                 PROVE  1 \in DOMAIN plan /\ 1 \in 1..Len(Effective(1)) /\ next = <<1, 1>>
    BY DEF NextShape
  <2>2. IsSeq(plan)
    BY <1>1, PlanRequests
  <2>3. 1 \in DOMAIN plan
    BY <2>1, <2>2, SeqElim
  <2>4. Len(Effective(1)) \in Nat \ {0}
    BY <1>1, <2>3, EffectiveParts
  <2> QED
    BY <2>3, <2>4 DEF Init
<1> QED
  BY <1>1, <1>2, <1>3 DEF OwnInv

\* Every transaction of the plan has a first request.
FirstRequest == \A x \in DOMAIN plan : 1 \in 1..Len(Effective(x))

\* A poll starts at a request that exists: in this state ...
LEMMA FirstRequestNow == PlanInv => FirstRequest
<1> SUFFICES ASSUME PlanInv, NEW x \in DOMAIN plan PROVE 1 \in 1..Len(Effective(x))
  BY DEF FirstRequest
<1> DEFINE n == Len(Effective(x))
<1>1. n \in Nat \ {0}
  BY EffectiveParts
<1> HIDE DEF n
<1>2. 1 \in 1..n
  BY <1>1
<1> QED
  BY <1>2 DEF n

\* ... and in the next one.
LEMMA FirstRequestThen == PlanInv' => FirstRequest'
  BY FirstRequestNow, PTL

\* After a poll the next request is one that exists, also when the poll has split it.
LEMMA PollKeepsNext ==
    ASSUME OwnInv, Poll
    PROVE  NextShape'
<1>1. PlanInv /\ NextShape /\ plan # <<>>
  BY DEF OwnInv, Poll
<1>2. PlanInv' /\ plan' = plan
  BY <1>1, StepKeepsPlan DEF Next, Poll, loaded
<1> DEFINE N == Len(plan)
<1>3. IsSeq(plan)
  BY <1>1, PlanRequests
<1>4. N \in Nat /\ DOMAIN plan = 1..N /\ N > 0
  BY <1>1, <1>3, SeqElim
<1>5. PICK a \in DOMAIN plan : \E b \in 1..Len(Effective(a)) : next = <<a, b>>
  BY <1>1 DEF NextShape
<1>6. PICK b \in 1..Len(Effective(a)) : next = <<a, b>>
  BY <1>5
<1>7. next[1] = a /\ next[2] = b
  BY <1>6
<1>8. next' = Following
  BY DEF Poll
<1>9. Len(Effective(a)) \in Nat \ {0} /\ (a \notin splits => Len(Effective(a)) = 1)
  BY <1>1, EffectiveParts
<1>10. CASE b < Len(Effective(a))
  <2>1. next' = <<a, b + 1>>
    BY <1>7, <1>8, <1>10 DEF Following
  <2>2. a \in splits
    <3> DEFINE n == Len(Effective(a))
    <3>1. b \in 1..n /\ n \in Nat /\ b < n /\ (a \notin splits => n = 1)
      BY <1>9, <1>10
    <3> HIDE DEF n
    <3> QED
      BY <3>1
  <2>3. splits' = splits
    BY <1>7, <2>2 DEF Poll, Divisible
  <2>4. Effective(a)' = Effective(a)
    BY <1>2, <2>3 DEF Effective
  <2>5. b + 1 \in 1..Len(Effective(a)')
    BY <1>9, <1>10, <2>4
  <2> QED
    BY <1>2, <1>5, <2>1, <2>5 DEF NextShape
<1>11. CASE ~(b < Len(Effective(a)))
  <2> DEFINE c == (a % N) + 1
  <2>1. next' = <<c, 1>>
    BY <1>7, <1>8, <1>11 DEF Following
  <2>2. a \in Int
    BY <1>4
  <2> HIDE DEF N
  <2>3. c \in 1..N
    <3>1. a % N \in 0..(N - 1)
      BY <1>4, <2>2, DivMod
    <3> QED
      BY <1>4, <3>1
  <2> HIDE DEF c
  <2>4. FirstRequest'
    BY <1>2, FirstRequestThen
  <2>5. c \in DOMAIN plan'
    BY <1>2, <1>4, <2>3
  <2> QED
    BY <2>1, <2>4, <2>5 DEF NextShape, FirstRequest
<1> QED
  BY <1>10, <1>11

\* What a device holds at the tag's own addresses.
OwnContent(tag) ==
    [i \in 1..Cardinality(OwnAddresses(tag)) |->
       memory[DeviceOf(tag)][ReadArea[EntryOf(tag).fn]][EntryOf(tag).address + i - 1]]

\* A slice of a reply.
LEMMA SliceOfWords ==
    ASSUME NEW q \in Nat, NEW words, words = [i \in 1..q |-> words[i]],
           NEW off \in Nat, NEW len \in Nat, off + len <= q
    PROVE  /\ Len(words) = q
           /\ SubSeq(words, off + 1, off + len) = [i \in 1..len |-> words[off + i]]
<1>1. IsSeq(words) /\ Len(words) = q
  BY SeqIntro
<1>2. \A i \in (off + 1)..(off + len) : words[i] \in ToSet(words)
  <2>1. DOMAIN words = 1..q
    OBVIOUS
  <2> QED
    BY <2>1 DEF ToSet
<1> DEFINE s == SubSeq(words, off + 1, off + len)
           m == off + 1
           n == off + len
<1>3. m \in Int /\ n \in Int /\ n - m + 1 = len /\ (m <= n <=> len > 0)
  OBVIOUS
<1>4. s \in Seq(ToSet(words)) /\ Len(s) = len /\ \A i \in 1..len : s[i] = words[m + i - 1]
  <2>1. \A i \in m..n : words[i] \in ToSet(words)
    BY <1>2
  <2>2. s = SubSeq(words, m, n)
    OBVIOUS
  <2> HIDE DEF m, n, s
  <2>3. /\ SubSeq(words, m, n) \in Seq(ToSet(words))
        /\ Len(SubSeq(words, m, n)) = IF m <= n THEN n - m + 1 ELSE 0
        /\ \A i \in 1..(n - m + 1) : SubSeq(words, m, n)[i] = words[m + i - 1]
    <3>1. m \in Int /\ n \in Int
      BY <1>3
    <3> QED
      BY ONLY <2>1, <3>1, SubSeqProperties
  <2> QED
    BY <1>3, <2>2, <2>3
<1> HIDE DEF s
<1>5. s = [i \in 1..len |-> s[i]]
  BY <1>4, SeqMember, SeqElim
<1>6. \A i \in 1..len : m + i - 1 = off + i
  OBVIOUS
<1>7. s = [i \in 1..len |-> words[off + i]]
  BY <1>4, <1>5, <1>6
<1> QED
  BY <1>1, <1>7 DEF s

\* What scatter publishes as Good for a tag is the content of its own addresses
\* (channel.rs:713-719).
LEMMA ScatterOwn ==
    ASSUME NEW dev, NEW t, OwnRequest(dev, t), NEW tag \in DOMAIN cache,
           IsRead(EntryOf(tag).fn), DOMAIN cache[tag] = {"quality", "words"},
           Reply(dev, t).kind # "exception",
           Scatter(t, Reply(dev, t))[tag] # cache[tag],
           Scatter(t, Reply(dev, t))[tag].quality = "Good"
    PROVE  Scatter(t, Reply(dev, t))[tag].words = OwnContent(tag)
<1> DEFINE r == Reply(dev, t)
           i == CHOOSE i \in DOMAIN t.fields : t.fields[i].tag = tag
           f == t.fields[i]
           e == EntryOf(tag)
<1>1. Scatter(t, r)[tag] =
         IF \A k \in DOMAIN t.fields : t.fields[k].tag # tag THEN cache[tag]
         ELSE IF r.kind = "raw" THEN [quality |-> "Good", words |-> <<>>]
         ELSE IF InReply(f, r.words)
         THEN [quality |-> "Good", words |-> SubSeq(r.words, f.off + 1, f.off + f.len)]
         ELSE [cache[tag] EXCEPT !.quality = "Bad"]
  BY DEF Scatter
<1>2. \E k \in DOMAIN t.fields : t.fields[k].tag = tag
  BY <1>1
<1>3. i \in DOMAIN t.fields /\ f.tag = tag
  BY <1>2
<1> HIDE DEF i
<1>4. OwnField(dev, t, f)
  BY <1>3 DEF OwnRequest
<1> HIDE DEF f, e
<1>5. /\ f.off \in Nat /\ f.len \in Nat /\ DeviceOf(tag) = dev
      /\ t.area = ReadArea[e.fn] /\ t.base + f.off = e.address
      /\ f.len = EntrySpan(e, t.area)
  BY <1>3, <1>4 DEF OwnField, e
<1>6. t.area # "custom"
  BY <1>5, ReadAreas, AreaDistinct DEF IsRead, e
<1>7. /\ f.off + f.len <= t.qty /\ t.base \in Nat /\ t.qty \in Nat /\ f.len \in 1..MaxQty(t.area)
  <2>1. t.qty \in 1..MaxQty(t.area) /\ t.base \in Nat
    BY <1>6 DEF OwnRequest
  <2>2. MaxQty(t.area) \in Int
    BY CapsAssumption DEF MaxQty
  <2> QED
    BY <1>4, <1>6, <2>1, <2>2 DEF OwnField
<1> DEFINE W == [k \in 1..t.qty |-> memory[dev][t.area][t.base + k - 1]]
<1>8. r.kind = "words" /\ r.words = W
  BY <1>6 DEF Reply
<1>9. ASSUME NEW k \in 1..f.len PROVE W[f.off + k] = memory[dev][t.area][e.address + k - 1]
  <2>1. f.off + k \in 1..t.qty /\ t.base + (f.off + k) - 1 = e.address + k - 1
    BY <1>5, <1>7
  <2>2. W[f.off + k] = memory[dev][t.area][t.base + (f.off + k) - 1]
    BY <2>1
  <2> QED
    BY <2>1, <2>2
<1>10. W = [k \in 1..t.qty |-> W[k]]
  OBVIOUS
<1> HIDE DEF r, W
<1>11. /\ Len(W) = t.qty
       /\ SubSeq(W, f.off + 1, f.off + f.len) = [k \in 1..f.len |-> W[f.off + k]]
  <2> DEFINE q == t.qty
             off == f.off
             len == f.len
  <2>1. q \in Nat /\ off \in Nat /\ len \in Nat /\ off + len <= q
        /\ W = [k \in 1..q |-> W[k]]
    BY <1>5, <1>7, <1>10
  <2> HIDE DEF q, off, len
  <2>2. Len(W) = q /\ SubSeq(W, off + 1, off + len) = [k \in 1..len |-> W[off + k]]
    BY <2>1, SliceOfWords
  <2> QED
    BY <2>2 DEF q, off, len
<1>12. Scatter(t, r)[tag].words = [k \in 1..f.len |-> W[f.off + k]]
  <2>1. InReply(f, r.words)
    BY <1>7, <1>8, <1>11 DEF InReply
  <2>2. Scatter(t, r)[tag] =
           [quality |-> "Good", words |-> SubSeq(r.words, f.off + 1, f.off + f.len)]
    BY <1>1, <1>2, <1>8, <2>1
  <2> QED
    BY <1>8, <1>11, <2>2
<1>13. Cardinality(OwnAddresses(tag)) = f.len
  <2>1. OwnAddresses(tag) = e.address..(e.address + f.len - 1)
    BY <1>5 DEF OwnAddresses, EntrySpan, e
  <2>2. e.address \in Int /\ e.address + f.len - 1 \in Int
    BY <1>5, <1>7
  <2>3. f.len \in Nat \ {0}
    BY <1>5, <1>7 DEF MaxQty
  <2> DEFINE lo == e.address
             hi == e.address + f.len - 1
  <2>4. lo \in Int /\ hi \in Int /\ hi - lo + 1 = f.len /\ ~(lo > hi)
    BY <2>2, <2>3
  <2> HIDE DEF lo, hi
  <2>5. Cardinality(lo..hi) = f.len
    BY <2>4, FS_Interval
  <2> QED
    BY <2>1, <2>5 DEF lo, hi
<1>14. [k \in 1..f.len |-> W[f.off + k]] =
       [k \in 1..f.len |-> memory[dev][t.area][e.address + k - 1]]
  BY <1>9
<1>15. OwnContent(tag) = [k \in 1..f.len |-> memory[dev][t.area][e.address + k - 1]]
  BY <1>5, <1>13 DEF OwnContent, e
<1> QED
  BY <1>12, <1>14, <1>15 DEF r

\* The shape of an entry survives a poll, and a tag of a refused request is Bad.
LEMMA ScatterShape ==
    ASSUME CacheShape, NEW t, NEW reply
    PROVE  /\ DOMAIN Scatter(t, reply) = DOMAIN cache /\ DOMAIN TagsBad(t) = DOMAIN cache
           /\ \A tag \in DOMAIN cache :
                 /\ DOMAIN Scatter(t, reply)[tag] = {"quality", "words"}
                 /\ DOMAIN TagsBad(t)[tag] = {"quality", "words"}
                 /\ TagsBad(t)[tag] # cache[tag] => TagsBad(t)[tag].quality = "Bad"
<1>1. DOMAIN Scatter(t, reply) = DOMAIN cache /\ DOMAIN TagsBad(t) = DOMAIN cache
  BY DEF Scatter, TagsBad
<1>2. ASSUME NEW tag \in DOMAIN cache
      PROVE  /\ DOMAIN Scatter(t, reply)[tag] = {"quality", "words"}
             /\ DOMAIN TagsBad(t)[tag] = {"quality", "words"}
             /\ TagsBad(t)[tag] # cache[tag] => TagsBad(t)[tag].quality = "Bad"
  <2> DEFINE bad == [cache[tag] EXCEPT !.quality = "Bad"]
             f == t.fields[CHOOSE i \in DOMAIN t.fields : t.fields[i].tag = tag]
  <2>1. DOMAIN cache[tag] = {"quality", "words"}
    BY DEF CacheShape
  <2>2. DOMAIN bad = {"quality", "words"} /\ bad.quality = "Bad"
    BY <2>1
  <2>3. \A w : DOMAIN [quality |-> "Good", words |-> w] = {"quality", "words"}
    OBVIOUS
  <2>4. TagsBad(t)[tag] = bad \/ TagsBad(t)[tag] = cache[tag]
    BY DEF TagsBad
  <2>5. \/ Scatter(t, reply)[tag] = bad \/ Scatter(t, reply)[tag] = cache[tag]
        \/ Scatter(t, reply)[tag] = [quality |-> "Good", words |-> <<>>]
        \/ Scatter(t, reply)[tag] = [quality |-> "Good",
             words |-> SubSeq(reply.words, f.off + 1, f.off + f.len)]
    BY DEF Scatter
  <2> HIDE DEF bad, f
  <2> QED
    BY <2>1, <2>2, <2>3, <2>4, <2>5
<1> QED
  BY <1>1, <1>2

\* Every step keeps the invariant of polling.
LEMMA StepKeepsOwn == OwnInv /\ [Next]_vars => OwnInv'
<1> SUFFICES ASSUME OwnInv, [Next]_vars PROVE OwnInv'
  OBVIOUS
<1>1. PlanInv'
  BY StepKeepsPlan DEF OwnInv
<1>2. CASE Poll
  <2>1. NextShape'
    BY <1>2, PollKeepsNext
  <2>2. CacheShape'
    <3>1. file' = file
      BY <1>2 DEF Poll, loaded
    <3>2. \E t : \E reply : cache' \in {cache, Scatter(t, reply), TagsBad(t)}
      BY <1>2 DEF Poll
    <3>3. PICK t : \E reply : cache' \in {cache, Scatter(t, reply), TagsBad(t)}
      BY <3>2
    <3>4. PICK reply : cache' \in {cache, Scatter(t, reply), TagsBad(t)}
      BY <3>3
    <3>5. CacheShape
      BY DEF OwnInv
    <3>6. DOMAIN cache' = DOMAIN cache
      BY <3>4, <3>5, ScatterShape
    <3>7. \A tag \in DOMAIN cache : DOMAIN cache'[tag] = {"quality", "words"}
      <4>1. SUFFICES ASSUME NEW tag \in DOMAIN cache
                     PROVE  DOMAIN cache'[tag] = {"quality", "words"}
        OBVIOUS
      <4>2. /\ DOMAIN cache[tag] = {"quality", "words"}
            /\ DOMAIN Scatter(t, reply)[tag] = {"quality", "words"}
            /\ DOMAIN TagsBad(t)[tag] = {"quality", "words"}
        BY <3>5, ScatterShape DEF CacheShape
      <4>3. CASE cache' = cache
        BY <4>2, <4>3
      <4>4. CASE cache' = Scatter(t, reply)
        BY <4>2, <4>4
      <4>5. CASE cache' = TagsBad(t)
        BY <4>2, <4>5
      <4> QED
        BY <3>4, <4>3, <4>4, <4>5
    <3> QED
      BY <3>1, <3>5, <3>6, <3>7 DEF CacheShape
  <2> QED
    BY <1>1, <2>1, <2>2 DEF OwnInv
<1>3. CASE Write \/ UNCHANGED vars
  <2>1. UNCHANGED <<file, plan, next, splits, cache>>
    BY <1>3 DEF Write, loaded, vars
  <2>2. CacheShape' /\ NextShape'
    BY <2>1 DEF OwnInv, CacheShape, NextShape, Effective
  <2> QED
    BY <1>1, <2>2 DEF OwnInv
<1> QED
  BY <1>2, <1>3 DEF Next

\* One poll gives a tag what its device holds at its own addresses.
LEMMA PollOwn ==
    ASSUME OwnInv, Poll, NEW tag \in DOMAIN cache,
           cache'[tag] # cache[tag], cache'[tag].quality = "Good", IsRead(EntryOf(tag).fn)
    PROVE  cache'[tag].words = OwnContent(tag)
<1>1. PlanInv /\ NextShape /\ CacheShape /\ plan # <<>>
  BY DEF OwnInv, Poll
<1>2. PICK a \in DOMAIN plan : \E b \in 1..Len(Effective(a)) : next = <<a, b>>
  BY <1>1 DEF NextShape
<1>3. PICK b \in 1..Len(Effective(a)) : next = <<a, b>>
  BY <1>2
<1> DEFINE t == Effective(a)[b]
           dev == plan[a].dev
           reply == Reply(dev, t)
<1>4. \/ reply.kind # "exception" /\ cache' = Scatter(t, reply)
      \/ cache' = cache
      \/ cache' = TagsBad(t)
  BY <1>3 DEF Poll
<1>5. OwnRequest(dev, t)
  BY <1>1, EffectiveParts
<1>6. DOMAIN cache[tag] = {"quality", "words"}
  BY <1>1 DEF CacheShape
<1> HIDE DEF t, dev
<1>7. TagsBad(t)[tag] # cache[tag] => TagsBad(t)[tag].quality = "Bad"
  BY <1>1, ScatterShape
<1>8. reply.kind # "exception" /\ cache' = Scatter(t, reply)
  BY <1>4, <1>7
<1> QED
  BY <1>5, <1>6, <1>8, ScatterOwn

\* For every configuration: however reads were merged or split, a poll that publishes a tag as Good
\* publishes the content of the tag's own registers (OwnRegisters; channel.rs:713-719).
THEOREM OwnRegistersAlways == Spec => OwnRegisters
<1>1. OwnInv /\ [Next]_vars =>
         [\A tag \in DOMAIN cache :
            /\ cache'[tag] # cache[tag] /\ cache'[tag].quality = "Good"
            /\ IsRead(EntryOf(tag).fn)
            => cache'[tag].words =
                 [i \in 1..Cardinality(OwnAddresses(tag)) |->
                    memory[DeviceOf(tag)][ReadArea[EntryOf(tag).fn]][EntryOf(tag).address + i - 1]]]_vars
  <2>1. ASSUME OwnInv, Next, NEW tag \in DOMAIN cache, cache'[tag] # cache[tag],
               cache'[tag].quality = "Good", IsRead(EntryOf(tag).fn)
        PROVE  cache'[tag].words = OwnContent(tag)
    <3>1. ~Write
      BY <2>1 DEF Write
    <3> QED
      BY <2>1, <3>1, PollOwn DEF Next
  <2> QED
    BY <2>1 DEF OwnContent
<1>2. Init => OwnInv
  BY InitOwnInv
<1>3. OwnInv /\ [Next]_vars => OwnInv'
  BY StepKeepsOwn
<1> QED
  BY <1>1, <1>2, <1>3, PTL DEF Spec, OwnRegisters

-----------------------------------------------------------------------------
(* How many requests: the bus-load rule and the coalescer                  *)

\* How many runs the coalescer makes depends only on the set of the spans <<start, end>>: the
\* starts of the runs are determined by that set.
Spans(cap) == {q \in Nat \X Nat : q[1] < q[2] /\ q[2] - q[1] <= cap}

\* Some span begins at v, and the last run that began before v cannot take all of those.
Begins(v, X, P, gap, cap) ==
    /\ \E q \in P : q[1] = v
    /\ \/ \A x \in X : x >= v
       \/ \E p \in X :
             /\ p < v /\ \A x \in X : x < v => x <= p
             /\ \/ \E q \in P : q[1] = v /\ q[2] - p > cap
                \/ \A q \in P : p <= q[1] /\ q[1] < v => v - q[2] > gap

\* The runs that cover the spans P begin at X; the last one reaches from L to e.
Course(m, L, e, X, P, gap, cap) ==
    /\ X \subseteq Nat /\ IsFiniteSet(X) /\ m = Cardinality(X) /\ P \subseteq Spans(cap)
    /\ \A v \in Nat : v \in X <=> Begins(v, X, P, gap, cap)
    /\ X = {} => P = {}
    /\ X # {} => /\ L \in X /\ \A x \in X : x <= L
                 /\ \A q \in P : q[1] >= L => q[2] <= e
                 /\ \E q \in P : q[1] >= L /\ q[2] = e

\* Two courses over the same spans have the same number of blocks: where a block ends is decided
\* by the spans alone.
LEMMA CourseUnique ==
    ASSUME NEW m, NEW L, NEW e, NEW X, NEW P, NEW gap, NEW cap, Course(m, L, e, X, P, gap, cap),
           NEW k, NEW K, NEW d, NEW Y, Course(k, K, d, Y, P, gap, cap)
    PROVE  m = k
<1>1. X \subseteq Nat /\ Y \subseteq Nat /\ m = Cardinality(X) /\ k = Cardinality(Y)
  BY DEF Course
<1> DEFINE S == {n \in Nat : \A v \in Nat : v < n => (v \in X <=> v \in Y)}
<1>2. 0 \in S
  OBVIOUS
<1>3. ASSUME NEW n \in Nat, n \in S PROVE n + 1 \in S
  <2>1. \A v \in Nat : v < n => (v \in X <=> v \in Y)
    BY <1>3
  <2>2. Begins(n, X, P, gap, cap) <=> Begins(n, Y, P, gap, cap)
    <3>1. \A p : (p \in X /\ p < n) <=> (p \in Y /\ p < n)
      BY <1>1, <2>1
    <3>2. (\A x \in X : x >= n) <=> (\A y \in Y : y >= n)
      BY <1>1, <3>1
    <3>3. ASSUME NEW p
          PROVE  (p \in X /\ p < n /\ \A x \in X : x < n => x <= p) <=>
                 (p \in Y /\ p < n /\ \A x \in Y : x < n => x <= p)
      BY <3>1
    <3>4. ASSUME NEW A, NEW B,
                 (\A x \in A : x >= n) <=> (\A y \in B : y >= n),
                 \A p : (p \in A /\ p < n /\ \A x \in A : x < n => x <= p) <=>
                        (p \in B /\ p < n /\ \A x \in B : x < n => x <= p)
          PROVE  Begins(n, A, P, gap, cap) => Begins(n, B, P, gap, cap)
      <4>1. SUFFICES ASSUME Begins(n, A, P, gap, cap) PROVE Begins(n, B, P, gap, cap)
        OBVIOUS
      <4>2. CASE \A x \in A : x >= n
        BY <3>4, <4>1, <4>2 DEF Begins
      <4>3. CASE \E p \in A :
             /\ p < n /\ \A x \in A : x < n => x <= p
             /\ \/ \E q \in P : q[1] = n /\ q[2] - p > cap
                \/ \A q \in P : p <= q[1] /\ q[1] < n => n - q[2] > gap
        <5>1. PICK p \in A :
             /\ p < n /\ \A x \in A : x < n => x <= p
             /\ \/ \E q \in P : q[1] = n /\ q[2] - p > cap
                \/ \A q \in P : p <= q[1] /\ q[1] < n => n - q[2] > gap
          BY <4>3
        <5>2. p \in B /\ p < n /\ \A x \in B : x < n => x <= p
          BY <3>4, <5>1
        <5> QED
          BY <4>1, <5>1, <5>2 DEF Begins
      <4> QED
        BY <4>1, <4>2, <4>3 DEF Begins
    <3> QED
      BY <3>2, <3>3, <3>4
  <2>3. n \in X <=> n \in Y
    BY <2>2 DEF Course
  <2> QED
    BY <2>1, <2>3
<1> HIDE DEF S
<1>4. Nat \subseteq S
  BY <1>2, <1>3, NatInd
<1>5. ASSUME NEW v \in Nat PROVE v \in X <=> v \in Y
  <2>1. v + 1 \in S
    BY <1>4
  <2> QED
    BY <2>1 DEF S
<1>6. X = Y
  BY <1>1, <1>5
<1> QED
  BY <1>1, <1>6

\* Begins looks at the spans that begin at v or before it, and at the runs that begin before v.
LEMMA BeginsBelow ==
    ASSUME NEW v \in Nat, NEW a \in Nat, v < a, NEW X \in SUBSET Nat, NEW Y, Y \in {X, X \cup {a}},
           NEW gap, NEW cap, NEW P \in SUBSET Spans(cap), NEW b \in Nat
    PROVE  Begins(v, X, P, gap, cap) <=> Begins(v, Y, P \cup {<<a, b>>}, gap, cap)
<1> DEFINE Z == P \cup {<<a, b>>}
<1>1. \A q \in P : q \in Nat \X Nat
  BY DEF Spans
<1>2. \A q : (q \in P /\ q[1] <= v) <=> (q \in Z /\ q[1] <= v)
  <2>1. <<a, b>>[1] = a
    OBVIOUS
  <2> QED
    BY <2>1
<1>3. \A q \in Z : q[1] \in Nat
  BY <1>1
<1>4. \A x : (x \in X /\ x < v) <=> (x \in Y /\ x < v)
  OBVIOUS
<1>5. (\A x \in X : x >= v) <=> (\A x \in Y : x >= v)
  OBVIOUS
<1>6. \A p \in Nat : (p \in X /\ p < v /\ \A x \in X : x < v => x <= p) <=>
             (p \in Y /\ p < v /\ \A x \in Y : x < v => x <= p)
  BY <1>4
<1>7. (\E q \in P : q[1] = v) <=> (\E q \in Z : q[1] = v)
  BY <1>2
<1>8. \A p \in Nat : (\E q \in P : q[1] = v /\ q[2] - p > cap)
                      <=> (\E q \in Z : q[1] = v /\ q[2] - p > cap)
  BY <1>2
<1>9. \A p \in Nat : (\A q \in P : p <= q[1] /\ q[1] < v => v - q[2] > gap) <=>
             (\A q \in Z : p <= q[1] /\ q[1] < v => v - q[2] > gap)
  BY <1>1, <1>2, <1>3
<1>10. Y \subseteq Nat
  OBVIOUS
<1> HIDE DEF Z
<1>11. Begins(v, X, P, gap, cap) => Begins(v, Y, Z, gap, cap)
  <2> SUFFICES ASSUME Begins(v, X, P, gap, cap) PROVE Begins(v, Y, Z, gap, cap)
    OBVIOUS
  <2>1. CASE \A x \in X : x >= v
    BY <1>5, <1>7, <2>1 DEF Begins
  <2>2. CASE ~\A x \in X : x >= v
    <3>1. PICK p \in X :
             /\ p < v /\ \A x \in X : x < v => x <= p
             /\ \/ \E q \in P : q[1] = v /\ q[2] - p > cap
                \/ \A q \in P : p <= q[1] /\ q[1] < v => v - q[2] > gap
      BY <2>2 DEF Begins
    <3>2. p \in Nat /\ p \in Y /\ p < v /\ \A x \in Y : x < v => x <= p
      BY <1>6, <3>1
    <3>3. \/ \E q \in Z : q[1] = v /\ q[2] - p > cap
          \/ \A q \in Z : p <= q[1] /\ q[1] < v => v - q[2] > gap
      BY <1>8, <1>9, <3>1, <3>2
    <3> QED
      BY <1>7, <3>2, <3>3 DEF Begins
  <2> QED
    BY <2>1, <2>2
<1>12. Begins(v, Y, Z, gap, cap) => Begins(v, X, P, gap, cap)
  <2> SUFFICES ASSUME Begins(v, Y, Z, gap, cap) PROVE Begins(v, X, P, gap, cap)
    OBVIOUS
  <2>1. CASE \A x \in Y : x >= v
    BY <1>5, <1>7, <2>1 DEF Begins
  <2>2. CASE ~\A x \in Y : x >= v
    <3>1. PICK p \in Y :
             /\ p < v /\ \A x \in Y : x < v => x <= p
             /\ \/ \E q \in Z : q[1] = v /\ q[2] - p > cap
                \/ \A q \in Z : p <= q[1] /\ q[1] < v => v - q[2] > gap
      BY <2>2 DEF Begins
    <3>2. p \in Nat /\ p \in X /\ p < v /\ \A x \in X : x < v => x <= p
      BY <1>6, <1>10, <3>1
    <3>3. \/ \E q \in P : q[1] = v /\ q[2] - p > cap
          \/ \A q \in P : p <= q[1] /\ q[1] < v => v - q[2] > gap
      BY <1>8, <1>9, <3>1, <3>2
    <3> QED
      BY <1>7, <3>2, <3>3 DEF Begins
  <2> QED
    BY <2>1, <2>2
<1> QED
  BY <1>11, <1>12 DEF Z

\* Without spans there is no block.
LEMMA CourseEmpty ==
    ASSUME NEW L, NEW e, NEW gap, NEW cap
    PROVE  Course(0, L, e, {}, {}, gap, cap)
  BY FS_EmptySet DEF Course, Begins

\* The facts of a course before the span <<a, b>>, which begins no earlier than the others.
LEMMA CourseParts ==
    ASSUME NEW m, NEW L, NEW e, NEW X, NEW P, NEW gap, NEW cap, Course(m, L, e, X, P, gap, cap)
    PROVE  /\ m \in Nat /\ (m = 0 <=> X = {})
           /\ X # {} => L \in Nat /\ e \in Nat
  <1>1. IsFiniteSet(X) /\ m = Cardinality(X) /\ X \subseteq Nat /\ P \subseteq Spans(cap)
        /\ (X # {} => L \in X /\ \E q \in P : q[1] >= L /\ q[2] = e)
    BY DEF Course
  <1>2. m \in Nat /\ (m = 0 <=> X = {})
    BY <1>1, FS_CardinalityType, FS_EmptySet
  <1>3. \A q \in P : q[2] \in Nat
    BY <1>1 DEF Spans
  <1> QED
    BY <1>1, <1>2, <1>3

\* The last run takes the span.
LEMMA CourseJoined ==
    ASSUME NEW m, NEW L, NEW e, NEW X, NEW P, NEW gap \in Nat, NEW cap \in Nat,
           Course(m, L, e, X, P, gap, cap),
           NEW a \in Nat, NEW b \in Nat, a < b, b - a <= cap, \A q \in P : q[1] <= a,
           m # 0, a - e <= gap, b - L <= cap
    PROVE  Course(m, L, Larger(e, b), X, P \cup {<<a, b>>}, gap, cap)
<1> DEFINE Z == P \cup {<<a, b>>}
           w == <<a, b>>
<1>1. /\ X \subseteq Nat /\ IsFiniteSet(X) /\ m = Cardinality(X) /\ P \subseteq Spans(cap)
      /\ \A v \in Nat : v \in X <=> Begins(v, X, P, gap, cap)
      /\ L \in X /\ (\A x \in X : x <= L)
      /\ (\A q \in P : q[1] >= L => q[2] <= e)
      /\ \E q \in P : q[1] >= L /\ q[2] = e
  BY CourseParts DEF Course
<1>2. \A q \in P : q[1] \in Nat /\ q[2] \in Nat /\ q[1] < q[2] /\ q[2] - q[1] <= cap /\ q[1] <= a
  BY <1>1 DEF Spans
<1>3. w[1] = a /\ w[2] = b /\ w \in Spans(cap)
  BY DEF Spans
<1> HIDE DEF w
<1>4. Z = P \cup {w}
  BY DEF w
<1>5. L \in Nat /\ e \in Nat /\ L <= a
  <2>1. L \in Nat /\ e \in Nat
    BY <1>1, <1>2
  <2>2. \E q \in P : q[1] = L
    BY <1>1, <2>1 DEF Begins
  <2> QED
    BY <1>2, <2>1, <2>2
<1> HIDE DEF Z
<1>6. Z \subseteq Spans(cap)
  BY <1>1, <1>3, <1>4
<1>7. \A v \in Nat : v \in X <=> Begins(v, X, Z, gap, cap)
  <2>1. TAKE v \in Nat
  <2>2. CASE v < a
    <3>1. Begins(v, X, P, gap, cap) <=> Begins(v, X, Z, gap, cap)
      BY <1>1, <2>2, BeginsBelow DEF Z, w
    <3> QED
      BY <1>1, <3>1
  <2>3. CASE v > a
    <3>1. \A q \in Z : q[1] # v
      BY <1>2, <1>3, <1>4, <2>3
    <3>2. ~Begins(v, X, Z, gap, cap)
      BY <3>1 DEF Begins
    <3>3. v \notin X
      BY <1>1, <1>5, <2>3
    <3> QED
      BY <3>2, <3>3
  <2>4. CASE v = a /\ L = a
    <3>1. v \in X /\ Begins(v, X, P, gap, cap)
      BY <1>1, <2>4
    <3>2. Begins(v, X, Z, gap, cap)
      <4>1. CASE \A x \in X : x >= v
        BY <1>4, <3>1, <4>1 DEF Begins
      <4>2. CASE ~\A x \in X : x >= v
        <5>1. PICK p \in X :
                /\ p < v /\ \A x \in X : x < v => x <= p
                /\ \/ \E q \in P : q[1] = v /\ q[2] - p > cap
                   \/ \A q \in P : p <= q[1] /\ q[1] < v => v - q[2] > gap
          BY <3>1, <4>2 DEF Begins
        <5>2. \/ \E q \in Z : q[1] = v /\ q[2] - p > cap
              \/ \A q \in Z : p <= q[1] /\ q[1] < v => v - q[2] > gap
          BY <1>3, <1>4, <2>4, <5>1
        <5>3. \E q \in Z : q[1] = v
          BY <1>3, <1>4, <2>4
        <5> QED
          BY <5>1, <5>2, <5>3 DEF Begins
      <4> QED
        BY <4>1, <4>2
    <3> QED
      BY <3>1, <3>2
  <2>5. CASE v = a /\ L < a
    <3>1. v \notin X /\ ~Begins(v, X, P, gap, cap)
      BY <1>1, <1>5, <2>5
    <3>2. SUFFICES ASSUME Begins(v, X, Z, gap, cap) PROVE FALSE
      BY <3>1
    <3>3. ~\A x \in X : x >= v
      BY <1>1, <1>5, <2>5
    <3>4. PICK p \in X :
             /\ p < v /\ \A x \in X : x < v => x <= p
             /\ \/ \E q \in Z : q[1] = v /\ q[2] - p > cap
                \/ \A q \in Z : p <= q[1] /\ q[1] < v => v - q[2] > gap
      BY <3>2, <3>3 DEF Begins
    <3>5. p = L
      BY <1>1, <1>5, <2>5, <3>4
    <3>6. \A x \in X : x < v => x <= L
      BY <1>1
    <3>7. CASE \E q \in Z : q[1] = v /\ q[2] - p > cap
      <4>1. PICK q \in Z : q[1] = v /\ q[2] - L > cap
        BY <3>5, <3>7
      <4>2. q \in P
        BY <1>3, <1>4, <1>5, <4>1
      <4> QED
        BY <1>1, <2>5, <3>1, <3>6, <4>1, <4>2 DEF Begins
    <3>8. CASE \A q \in Z : p <= q[1] /\ q[1] < v => v - q[2] > gap
      <4>1. PICK q \in P : q[1] >= L /\ q[2] = e
        BY <1>1
      <4>2. CASE q[1] < a
        <5>1. v - q[2] > gap
          BY <1>4, <2>5, <3>5, <3>8, <4>1, <4>2
        <5> QED
          BY <1>5, <2>5, <4>1, <5>1
      <4>3. CASE q[1] = a
        <5>1. \A z \in P : L <= z[1] /\ z[1] < v => v - z[2] > gap
          BY <1>4, <3>5, <3>8
        <5> QED
          BY <1>1, <2>5, <3>1, <3>6, <4>1, <4>3, <5>1 DEF Begins
      <4> QED
        BY <1>2, <4>2, <4>3
    <3> QED
      BY <3>4, <3>7, <3>8
  <2> QED
    BY <1>5, <2>2, <2>3, <2>4, <2>5
<1>8. /\ \A q \in Z : q[1] >= L => q[2] <= Larger(e, b)
      /\ \E q \in Z : q[1] >= L /\ q[2] = Larger(e, b)
  <2>1. \A q \in Z : q[1] >= L => q[2] <= Larger(e, b)
    BY <1>1, <1>2, <1>3, <1>4, <1>5 DEF Larger
  <2>2. \E q \in Z : q[1] >= L /\ q[2] = Larger(e, b)
    <3>1. w \in Z /\ w[1] >= L /\ w[2] = b
      BY <1>3, <1>4, <1>5
    <3>2. \E q \in Z : q[1] >= L /\ q[2] = e
      BY <1>1, <1>4
    <3>3. Larger(e, b) = e \/ Larger(e, b) = b
      BY DEF Larger
    <3> QED
      BY <3>1, <3>2, <3>3
  <2> QED
    BY <2>1, <2>2
<1>9. Course(m, L, Larger(e, b), X, Z, gap, cap)
  BY <1>1, <1>6, <1>7, <1>8 DEF Course
<1> QED
  BY <1>9 DEF Z

\* The span begins a new run.
LEMMA CourseBegun ==
    ASSUME NEW m, NEW L, NEW e, NEW X, NEW P, NEW gap \in Nat, NEW cap \in Nat,
           Course(m, L, e, X, P, gap, cap),
           NEW a \in Nat, NEW b \in Nat, a < b, b - a <= cap, \A q \in P : q[1] <= a,
           ~(m # 0 /\ a - e <= gap /\ b - L <= cap)
    PROVE  Course(m + 1, a, b, X \cup {a}, P \cup {<<a, b>>}, gap, cap)
<1> DEFINE Z == P \cup {<<a, b>>}
           Y == X \cup {a}
           w == <<a, b>>
<1>1. /\ X \subseteq Nat /\ IsFiniteSet(X) /\ m = Cardinality(X) /\ P \subseteq Spans(cap)
      /\ \A v \in Nat : v \in X <=> Begins(v, X, P, gap, cap)
      /\ m \in Nat /\ (m = 0 <=> X = {}) /\ (X = {} => P = {})
  BY CourseParts DEF Course
<1>2. \A q \in P : q[1] \in Nat /\ q[2] \in Nat /\ q[1] < q[2] /\ q[2] - q[1] <= cap /\ q[1] <= a
  BY <1>1 DEF Spans
<1>3. w[1] = a /\ w[2] = b /\ w \in Spans(cap)
  BY DEF Spans
<1> HIDE DEF w
<1>4. Z = P \cup {w}
  BY DEF w
<1>5. X # {} => /\ L \in Nat /\ e \in Nat /\ L \in X /\ (\A x \in X : x <= L) /\ L <= a
                /\ (\A q \in P : q[1] >= L => q[2] <= e)
                /\ (a - e > gap \/ b - L > cap)
  <2>1. SUFFICES ASSUME X # {}
                 PROVE  /\ L \in Nat /\ e \in Nat /\ L \in X /\ (\A x \in X : x <= L) /\ L <= a
                        /\ (\A q \in P : q[1] >= L => q[2] <= e)
                        /\ (a - e > gap \/ b - L > cap)
    OBVIOUS
  <2>2. /\ L \in X /\ (\A x \in X : x <= L) /\ (\A q \in P : q[1] >= L => q[2] <= e)
        /\ L \in Nat /\ e \in Nat
    BY <2>1, CourseParts DEF Course
  <2>3. PICK q \in P : q[1] = L
    BY <1>1, <2>2 DEF Begins
  <2>4. L <= a
    BY <1>2, <2>3
  <2> QED
    BY <1>1, <2>1, <2>2, <2>4
\* A run that begins where the span does takes it.
<1>6. a \notin X
  <2>1. SUFFICES ASSUME a \in X PROVE FALSE
    OBVIOUS
  <2>2. L = a /\ X # {}
    BY <1>5, <2>1
  <2>3. PICK q \in P : q[1] = a
    BY <1>1, <2>1 DEF Begins
  <2>4. q[2] <= e /\ a < q[2] /\ q[2] \in Nat
    BY <1>2, <1>5, <2>2, <2>3
  <2> QED
    BY <1>5, <2>2, <2>4
<1>7. X # {} => L < a
  BY <1>5, <1>6
<1> HIDE DEF Z, Y
<1>8. Z \subseteq Spans(cap) /\ Y \subseteq Nat
  BY <1>1, <1>3, <1>4 DEF Y
<1>9. \A v \in Nat : v \in Y <=> Begins(v, Y, Z, gap, cap)
  <2>1. TAKE v \in Nat
  <2>2. CASE v < a
    <3>1. Begins(v, X, P, gap, cap) <=> Begins(v, Y, Z, gap, cap)
      BY <1>1, <2>2, BeginsBelow DEF Z, w, Y
    <3> QED
      BY <1>1, <2>2, <3>1 DEF Y
  <2>3. CASE v > a
    <3>1. \A q \in Z : q[1] # v
      BY <1>2, <1>3, <1>4, <2>3
    <3>2. ~Begins(v, Y, Z, gap, cap)
      BY <3>1 DEF Begins
    <3>3. v \notin Y
      <4>1. v \notin X
        BY <1>5, <2>3
      <4> QED
        BY <2>3, <4>1 DEF Y
    <3> QED
      BY <3>2, <3>3
  <2>4. CASE v = a
    <3>1. \E q \in Z : q[1] = v
      BY <1>3, <1>4, <2>4
    <3>2. CASE X = {}
      <4>1. \A x \in Y : x >= v
        BY <2>4, <3>2 DEF Y
      <4> QED
        BY <2>4, <3>1, <4>1 DEF Begins, Y
    <3>3. CASE X # {}
      <4>1. L \in Y /\ L < v /\ \A x \in Y : x < v => x <= L
        BY <1>5, <1>7, <2>4, <3>3 DEF Y
      <4>2. CASE b - L > cap
        <5>1. \E q \in Z : q[1] = v /\ q[2] - L > cap
          BY <1>3, <1>4, <2>4, <4>2
        <5> QED
          BY <2>4, <3>1, <4>1, <5>1 DEF Begins, Y
      <4>3. CASE a - e > gap
        <5>1. ASSUME NEW q \in Z, L <= q[1], q[1] < v PROVE v - q[2] > gap
          <6>1. q \in P
            BY <1>3, <1>4, <2>4, <5>1
          <6>2. q[2] <= e /\ q[2] \in Nat
            BY <1>2, <1>5, <3>3, <5>1, <6>1
          <6> QED
            BY <1>5, <2>4, <3>3, <4>3, <6>2
        <5> QED
          BY <2>4, <3>1, <4>1, <5>1 DEF Begins, Y
      <4> QED
        BY <1>5, <3>3, <4>2, <4>3
    <3> QED
      BY <3>2, <3>3
  <2> QED
    BY <2>2, <2>3, <2>4
<1>10. ASSUME NEW q \in Z, q[1] >= a PROVE q[2] <= b
  <2>1. CASE q = w
    BY <1>3, <2>1
  <2>2. CASE q \in P
    <3>1. q[1] = a /\ X # {} /\ q[2] \in Nat
      BY <1>1, <1>2, <1>10, <2>2
    <3>2. ~Begins(a, X, P, gap, cap)
      BY <1>1, <1>6
    <3>3. L \in X /\ L < a /\ \A x \in X : x < a => x <= L
      BY <1>5, <1>7, <3>1
    <3>4. ~(q[2] - L > cap)
      BY <2>2, <3>1, <3>2, <3>3 DEF Begins
    <3>5. PICK z \in P : L <= z[1] /\ z[1] < a /\ ~(a - z[2] > gap)
      BY <2>2, <3>1, <3>2, <3>3 DEF Begins
    <3>6. z[2] <= e /\ z[2] \in Nat
      BY <1>2, <1>5, <3>1, <3>5
    <3>7. ~(a - e > gap)
      BY <1>5, <3>1, <3>5, <3>6
    <3> QED
      BY <1>5, <3>1, <3>4, <3>7
  <2> QED
    BY <1>4, <2>1, <2>2
<1>11. \E q \in Z : q[1] >= a /\ q[2] = b
  BY <1>3, <1>4
<1>12. IsFiniteSet(Y) /\ m + 1 = Cardinality(Y)
  BY <1>1, <1>6, FS_AddElement DEF Y
<1>13. a \in Y /\ \A x \in Y : x <= a
  <2>1. \A x \in X : x <= a
    BY <1>1, <1>5
  <2> QED
    BY <2>1 DEF Y
<1>14. Course(m + 1, a, b, Y, Z, gap, cap)
  BY <1>8, <1>9, <1>10, <1>11, <1>12, <1>13 DEF Course
<1> QED
  BY <1>14 DEF Z, Y

\* A course takes the next span: the last run grows, or another begins.
LEMMA CourseMore ==
    ASSUME NEW m, NEW L, NEW e, NEW X, NEW P, NEW gap \in Nat, NEW cap \in Nat,
           Course(m, L, e, X, P, gap, cap),
           NEW a \in Nat, NEW b \in Nat, a < b, b - a <= cap, \A q \in P : q[1] <= a,
           NEW k, NEW K, NEW d,
           \/ /\ m # 0 /\ a - e <= gap /\ b - L <= cap
              /\ k = m /\ K = L /\ d = Larger(e, b)
           \/ /\ ~(m # 0 /\ a - e <= gap /\ b - L <= cap)
              /\ k = m + 1 /\ K = a /\ d = b
    PROVE  \E Y : Course(k, K, d, Y, P \cup {<<a, b>>}, gap, cap)
<1>1. CASE /\ m # 0 /\ a - e <= gap /\ b - L <= cap
           /\ k = m /\ K = L /\ d = Larger(e, b)
  <2>1. Course(m, L, Larger(e, b), X, P \cup {<<a, b>>}, gap, cap)
    BY <1>1, CourseJoined
  <2> QED
    BY <1>1, <2>1
<1>2. CASE /\ ~(m # 0 /\ a - e <= gap /\ b - L <= cap)
           /\ k = m + 1 /\ K = a /\ d = b
  <2>1. Course(m + 1, a, b, X \cup {a}, P \cup {<<a, b>>}, gap, cap)
    BY <1>2, CourseBegun
  <2> QED
    BY <1>2, <2>1
<1> QED
  BY <1>1, <1>2

\* The spans of the first n intervals.
SpansTo(s, n) == {<<s[i].start, s[i].end>> : i \in 1..n}

\* The coalescer's runs, as a course.
Coursed(runs, P, gap, cap) ==
    \E X : Course(Len(runs), runs[Len(runs)].start, runs[Len(runs)].end, X, P, gap, cap)

\* One step of the coalescer extends the course of the spans read so far.
LEMMA CoursedMore ==
    ASSUME NEW N, NEW T, NEW cap, NEW s, IntervalList(s, N, T, cap),
           \A i, j \in 1..N : i < j => s[i].start <= s[j].start,
           NEW gap \in Nat, NEW n \in 0..(N - 1), NEW runs \in Seq(Runs(T)),
           Coursed(runs, SpansTo(s, n), gap, cap)
    PROVE  Coursed(Added(runs, s[n + 1], gap, cap), SpansTo(s, n + 1), gap, cap)
<1> DEFINE iv == s[n + 1]
           a == iv.start
           b == iv.end
           P == SpansTo(s, n)
           m == Len(runs)
           L == runs[m].start
           e == runs[m].end
           more == Added(runs, iv, gap, cap)
           k == Len(more)
           K == more[k].start
           d == more[k].end
<1>1. /\ N \in Nat /\ cap \in Nat /\ n + 1 \in 1..N /\ iv \in Intervals(T)
      /\ a < b /\ b - a <= cap
  BY DEF IntervalList
<1>2. a \in Nat /\ b \in Nat
  BY <1>1 DEF Intervals
<1>3. \A q \in P : q[1] <= a
  <2>1. ASSUME NEW i \in 1..n PROVE s[i].start <= a
    BY <1>1
  <2> QED
    BY <2>1 DEF SpansTo
<1>4. PICK X : Course(m, L, e, X, P, gap, cap)
  BY DEF Coursed
<1>5. m \in Nat /\ (m = 0 <=> runs = <<>>) /\ DOMAIN runs = 1..m
  OBVIOUS
<1>6. \/ /\ m # 0 /\ a - e <= gap /\ b - L <= cap
         /\ k = m /\ K = L /\ d = Larger(e, b)
      \/ /\ ~(m # 0 /\ a - e <= gap /\ b - L <= cap)
         /\ k = m + 1 /\ K = a /\ d = b
  <2>1. more \in Seq(Runs(T))
        /\ \/ /\ runs # <<>> /\ Extends(runs[Len(runs)], iv, gap, cap)
              /\ more = [runs EXCEPT ![Len(runs)] = Joined(runs[Len(runs)], iv)]
           \/ /\ runs = <<>> \/ ~Extends(runs[Len(runs)], iv, gap, cap)
              /\ more = Append(runs, Started(iv))
    BY <1>1, AddedType
  <2>2. Extends(runs[m], iv, gap, cap) <=> (a - e <= gap /\ b - L <= cap)
    BY DEF Extends
  <2> HIDE DEF more, iv
  <2>3. CASE /\ runs # <<>> /\ Extends(runs[m], iv, gap, cap)
             /\ more = [runs EXCEPT ![m] = Joined(runs[m], iv)]
    <3> DEFINE z == Joined(runs[m], iv)
    <3>1. m \in 1..m
      BY <1>5, <2>3
    <3>2. runs[m] \in Runs(T)
      BY <1>5, <3>1
    <3>3. z.start = L /\ z.end = Larger(e, b)
      BY <1>1, <3>2, JoinedRun
    <3> HIDE DEF z
    <3>4. more = [runs EXCEPT ![m] = z]
      BY <2>3 DEF z
    <3>5. k = m /\ more[m] = z
      <4>1. more[m] = z /\ more = [i \in 1..m |-> more[i]]
        BY <1>5, <3>1, <3>4
      <4>2. Len(more) = m
        BY ONLY <1>5, <4>1, SeqIntro
      <4> QED
        BY <4>1, <4>2
    <3> QED
      BY <1>5, <2>2, <2>3, <3>3, <3>5
  <2>4. CASE /\ runs = <<>> \/ ~Extends(runs[m], iv, gap, cap)
             /\ more = Append(runs, Started(iv))
    <3>1. Started(iv).start = a /\ Started(iv).end = b
      BY DEF Started
    <3>2. k = m + 1 /\ more[m + 1] = Started(iv)
      BY <2>4
    <3> QED
      BY <1>5, <2>2, <2>4, <3>1, <3>2
  <2> QED
    BY <2>1, <2>3, <2>4
<1>7. SpansTo(s, n + 1) = P \cup {<<a, b>>}
  <2>1. 1..(n + 1) = (1..n) \cup {n + 1}
    OBVIOUS
  <2> QED
    BY <2>1 DEF SpansTo
<1> HIDE DEF P, m, L, e, k, K, d, a, b
<1>8. \E Y : Course(k, K, d, Y, P \cup {<<a, b>>}, gap, cap)
  <2>1. cap \in Nat /\ a < b /\ b - a <= cap
    BY <1>1
  <2> QED
    BY ONLY gap \in Nat, <2>1, <1>2, <1>3, <1>4, <1>6, CourseMore
<1>9. Coursed(more, SpansTo(s, n + 1), gap, cap)
  BY <1>7, <1>8 DEF Coursed, k, K, d
<1> QED
  BY <1>9

\* The runs of the coalescer follow the course of its intervals.
LEMMA FoldsCourse ==
    ASSUME NEW N, NEW T, NEW cap, NEW s, IntervalList(s, N, T, cap),
           \A i, j \in 1..N : i < j => s[i].start <= s[j].start,
           NEW gap \in Nat, NEW f, Folds(f, s, N, T, gap, cap)
    PROVE  Coursed(f[N], SpansTo(s, N), gap, cap)
<1> DEFINE S == {n \in Nat : n <= N => Coursed(f[n], SpansTo(s, n), gap, cap)}
<1>1. N \in Nat
  BY DEF IntervalList
<1>2. /\ f \in [0..N -> Seq(Runs(T))] /\ f[0] = <<>>
      /\ \A n \in 1..N : f[n] = Added(f[n - 1], s[n], gap, cap)
  BY DEF Folds
<1>3. 0 \in S
  <2>1. Len(f[0]) = 0 /\ SpansTo(s, 0) = {}
    BY <1>2 DEF SpansTo
  <2>2. Coursed(f[0], SpansTo(s, 0), gap, cap)
    BY <2>1, CourseEmpty DEF Coursed
  <2> QED
    BY <2>2
<1>4. ASSUME NEW n \in Nat, n \in S PROVE n + 1 \in S
  <2>1. SUFFICES ASSUME n + 1 <= N PROVE Coursed(f[n + 1], SpansTo(s, n + 1), gap, cap)
    OBVIOUS
  <2>2. /\ Coursed(f[n], SpansTo(s, n), gap, cap)
        /\ n \in 0..(N - 1) /\ n \in 0..N /\ n + 1 \in 1..N /\ (n + 1) - 1 = n
    BY <1>1, <1>4, <2>1
  <2>3. f[n + 1] = Added(f[n], s[n + 1], gap, cap)
    BY <1>2, <2>2
  <2>4. f[n] \in Seq(Runs(T))
    BY <1>2, <2>2
  <2> QED
    BY <2>2, <2>3, <2>4, CoursedMore
<1> HIDE DEF S
<1>5. N \in S
  BY <1>1, <1>3, <1>4, NatInd
<1> USE DEF S
<1> QED
  BY <1>1, <1>5

\* The bus-load rule sorts spans by start and end.
SpanSeq(pairs, n) ==
    n \in Nat /\ DOMAIN pairs = 1..n /\ \A i \in 1..n : pairs[i] \in Nat \X Nat

\* L is the order in which Ordered lists the n pairs.
ByEnd(L, pairs, n) ==
    /\ L \in [1..n -> 1..n]
    /\ Ordered(pairs) = [i \in 1..n |-> pairs[L[i]]]
    /\ \A x \in 1..n : \E i \in 1..n : L[i] = x
    /\ \A i, j \in 1..n : i < j => pairs[L[i]][1] <= pairs[L[j]][1]

\* The order by end of a list of spans.
LEMMA ByEnds ==
    ASSUME NEW n, NEW pairs, SpanSeq(pairs, n)
    PROVE  \E L : ByEnd(L, pairs, n)
<1> USE DEF SpanSeq
<1> DEFINE earlier == {p \in (1..n) \X (1..n) :
                         LET a == pairs[p[1]]
                             b == pairs[p[2]]
                         IN  \/ a[1] < b[1]
                             \/ a[1] = b[1] /\ a[2] < b[2]
                             \/ a = b /\ p[1] < p[2]}
           L == Listed(1..n, earlier)
<1>1. Ordered(pairs) = Through(pairs, L)
  BY DEF Ordered
<1>2. \A i, j \in 1..n : <<i, j>> \in earlier <=>
         \/ pairs[i][1] < pairs[j][1]
         \/ pairs[i][1] = pairs[j][1] /\ pairs[i][2] < pairs[j][2]
         \/ pairs[i] = pairs[j] /\ i < j
  OBVIOUS
<1> HIDE DEF earlier
<1>3. \A i \in 1..n : pairs[i][1] \in Nat /\ pairs[i][2] \in Nat
  OBVIOUS
<1>4. \A i, j \in 1..n : pairs[i][1] = pairs[j][1] /\ pairs[i][2] = pairs[j][2]
                          => pairs[i] = pairs[j]
  OBVIOUS
<1>5. Orders(earlier, 1..n)
  <2>1. \A x, y \in 1..n : x # y => <<x, y>> \in earlier \/ <<y, x>> \in earlier
    BY <1>2, <1>3, <1>4
  <2>2. \A x \in 1..n : <<x, x>> \notin earlier
    BY <1>2, <1>3
  <2>3. ASSUME NEW x \in 1..n, NEW y \in 1..n, NEW z \in 1..n,
               <<x, y>> \in earlier, <<y, z>> \in earlier
        PROVE  <<x, z>> \in earlier
    <3> DEFINE a == pairs[x]
               b == pairs[y]
               c == pairs[z]
    <3>1. /\ a[1] < b[1] \/ (a[1] = b[1] /\ a[2] < b[2]) \/ (a = b /\ x < y)
          /\ b[1] < c[1] \/ (b[1] = c[1] /\ b[2] < c[2]) \/ (b = c /\ y < z)
          /\ a[1] \in Nat /\ a[2] \in Nat /\ b[1] \in Nat /\ b[2] \in Nat
          /\ c[1] \in Nat /\ c[2] \in Nat
      BY <1>2, <1>3, <2>3
    <3> HIDE DEF a, b, c
    <3>2. a[1] < c[1] \/ (a[1] = c[1] /\ a[2] < c[2]) \/ (a = c /\ x < z)
      <4>1. CASE a = b /\ x < y
        <5>1. b = c /\ y < z => x < z
          BY <4>1
        <5> QED
          BY <3>1, <4>1, <5>1
      <4>2. CASE b = c /\ y < z
        <5>1. a = b /\ x < y => x < z
          BY <4>2
        <5> QED
          BY <3>1, <4>2, <5>1
      <4>3. CASE /\ a[1] < b[1] \/ (a[1] = b[1] /\ a[2] < b[2])
                 /\ b[1] < c[1] \/ (b[1] = c[1] /\ b[2] < c[2])
        <5> DEFINE i == a[1]
                   j == a[2]
                   k == b[1]
                   l == b[2]
                   p == c[1]
                   q == c[2]
        <5>1. /\ i < k \/ (i = k /\ j < l)
              /\ k < p \/ (k = p /\ l < q)
              /\ i \in Nat /\ j \in Nat /\ k \in Nat /\ l \in Nat /\ p \in Nat /\ q \in Nat
          BY <3>1, <4>3
        <5> HIDE DEF i, j, k, l, p, q
        <5>2. i < p \/ (i = p /\ j < q)
          BY <5>1
        <5> QED
          BY <5>2 DEF i, j, p, q
      <4> QED
        BY <3>1, <4>1, <4>2, <4>3
    <3> QED
      BY <1>2, <3>2 DEF a, c
  <2> QED
    BY <2>1, <2>2, <2>3 DEF Orders
<1>6. IsFiniteSet(1..n) /\ Cardinality(1..n) = n
  <2>1. n \in Nat
    OBVIOUS
  <2> HIDE DEF SpanSeq, L
  <2> QED
    BY <2>1, FS_Interval
<1>7. /\ L \in [1..n -> 1..n]
      /\ \A x \in 1..n : \E i \in 1..n : L[i] = x
      /\ \A i, j \in 1..n : i < j => <<L[i], L[j]>> \in earlier
  <2> DEFINE m == Cardinality(1..n)
  <2>1. /\ L \in [1..m -> 1..n]
        /\ \A i, j \in 1..m : L[i] = L[j] => i = j
        /\ \A x \in 1..n : \E i \in 1..m : L[i] = x
        /\ \A i, j \in 1..m : i < j => <<L[i], L[j]>> \in earlier
    BY ONLY <1>5, <1>6, ListedOrder
  <2>2. m = n
    BY <1>6
  <2> HIDE DEF m, L
  <2> QED
    BY <2>1, <2>2
<1> HIDE DEF L
<1>8. Ordered(pairs) = [i \in 1..n |-> pairs[L[i]]]
  BY <1>1, <1>7 DEF Through
<1>9. ASSUME NEW i \in 1..n, NEW j \in 1..n, i < j PROVE pairs[L[i]][1] <= pairs[L[j]][1]
  <2>1. L[i] \in 1..n /\ L[j] \in 1..n /\ <<L[i], L[j]>> \in earlier
    BY <1>7, <1>9
  <2>2. \/ pairs[L[i]][1] < pairs[L[j]][1]
        \/ pairs[L[i]][1] = pairs[L[j]][1]
    BY <1>2, <2>1
  <2>3. pairs[L[i]][1] \in Nat /\ pairs[L[j]][1] \in Nat
    BY <1>3, <2>1
  <2> DEFINE x == pairs[L[i]][1]
             y == pairs[L[j]][1]
  <2> HIDE DEF x, y
  <2>4. x <= y
    BY ONLY <2>2, <2>3 DEF x, y
  <2> QED
    BY <2>4 DEF x, y
<1>10. ByEnd(L, pairs, n)
  BY <1>7, <1>8, <1>9 DEF ByEnd
<1> QED
  BY <1>10

\* A list of spans, sorted by start.
SpanList(u, N, cap) ==
    /\ N \in Nat /\ cap \in Nat /\ u \in [1..N -> Spans(cap)]
    /\ \A i, j \in 1..N : i < j => u[i][1] <= u[j][1]

\* One span more: the last run grows, or the span begins another.
Widened(runs, m, more, iv, gap, cap) ==
    \/ /\ m # 0 /\ iv[1] - runs[m][2] <= gap /\ iv[2] - runs[m][1] <= cap
       /\ Len(more) = m /\ more[m] = <<runs[m][1], Larger(runs[m][2], iv[2])>>
    \/ /\ ~(m # 0 /\ iv[1] - runs[m][2] <= gap /\ iv[2] - runs[m][1] <= cap)
       /\ Len(more) = m + 1 /\ more[m + 1] = iv

\* What one step of the bus-load rule's merge does.
LEMMA MergedType ==
    ASSUME NEW runs \in Seq(Nat \X Nat), NEW iv \in Nat \X Nat, NEW gap, NEW cap
    PROVE  /\ Merged(runs, iv, gap, cap) \in Seq(Nat \X Nat)
           /\ Widened(runs, Len(runs), Merged(runs, iv, gap, cap), iv, gap, cap)
<1> DEFINE m == Len(runs)
           more == Merged(runs, iv, gap, cap)
           last == runs[m]
           z == <<last[1], Larger(last[2], iv[2])>>
           C == m # 0 /\ iv[1] - last[2] <= gap /\ iv[2] - last[1] <= cap
<1>1. m \in Nat /\ DOMAIN runs = 1..m /\ (m = 0 <=> runs = <<>>)
  OBVIOUS
<1>2. CASE C
  <2>1. m \in 1..m /\ last \in Nat \X Nat
    BY <1>1, <1>2
  <2>2. z \in Nat \X Nat
    <3> HIDE DEF last
    <3> QED
      BY <2>1 DEF Larger
  <2>3. Merged(runs, iv, gap, cap) = Append(Front(runs), z)
    BY <1>1, <1>2 DEF Merged, Last, Larger
  <2> HIDE DEF z, last
  <2>4. Front(runs) = [i \in 1..(m - 1) |-> runs[i]]
    <3>1. Front(runs) = SubSeq(runs, 1, m - 1)
      BY DEF Front
    <3> QED
      BY <1>1, <3>1
  <2>5. Front(runs) \in Seq(Nat \X Nat) /\ Len(Front(runs)) = m - 1
    <3> DEFINE A == Nat \X Nat
    <3>1. m - 1 \in Nat /\ \A i \in 1..(m - 1) : runs[i] \in A
      BY <1>1, <2>1
    <3> HIDE DEF A
    <3>2. Front(runs) \in Seq(A) /\ Len(Front(runs)) = m - 1
      BY ONLY <2>4, <3>1
    <3> QED
      BY <3>2 DEF A
  <2> DEFINE front == Front(runs)
             longer == Append(front, z)
  <2> HIDE DEF front
  <2>6. front \in Seq(Nat \X Nat) /\ Len(front) = m - 1
    BY <2>5 DEF front
  <2>7. longer \in Seq(Nat \X Nat) /\ Len(longer) = m /\ longer[m] = z
    <3> HIDE DEF m
    <3>1. m - 1 \in Nat /\ m - 1 + 1 = m
      BY <1>1, <2>1
    <3> QED
      BY ONLY <2>2, <2>6, <3>1
  <2>8. more = longer
    BY <2>3 DEF front
  <2> HIDE DEF longer
  <2>9. more \in Seq(Nat \X Nat) /\ Len(more) = m /\ more[m] = z
    BY <2>7, <2>8
  <2> QED
    BY <1>2, <2>9 DEF z, last, Widened
<1>3. CASE ~C
  <2>1. Merged(runs, iv, gap, cap) = Append(runs, iv)
    BY <1>1, <1>3 DEF Merged, Last
  <2>2. Append(runs, iv) \in Seq(Nat \X Nat) /\ Len(Append(runs, iv)) = m + 1
        /\ Append(runs, iv)[m + 1] = iv
    OBVIOUS
  <2> QED
    BY <1>3, <2>1, <2>2 DEF Widened
<1> QED
  BY <1>2, <1>3

\* The rule's runs, as a course.
SpansIn(u, n) == {u[i] : i \in 1..n}
Charged(runs, P, gap, cap) ==
    \E X : Course(Len(runs), runs[Len(runs)][1], runs[Len(runs)][2], X, P, gap, cap)

\* One step of the bus-load rule extends the course of the spans merged so far.
LEMMA ChargedMore ==
    ASSUME NEW N, NEW cap, NEW u, SpanList(u, N, cap), NEW gap \in Nat, NEW n \in 0..(N - 1),
           NEW runs \in Seq(Nat \X Nat), Charged(runs, SpansIn(u, n), gap, cap)
    PROVE  Charged(Merged(runs, u[n + 1], gap, cap), SpansIn(u, n + 1), gap, cap)
<1> DEFINE iv == u[n + 1]
           a == iv[1]
           b == iv[2]
           P == SpansIn(u, n)
           m == Len(runs)
           L == runs[m][1]
           e == runs[m][2]
           more == Merged(runs, iv, gap, cap)
           k == Len(more)
           K == more[k][1]
           d == more[k][2]
<1>1. N \in Nat /\ cap \in Nat /\ n + 1 \in 1..N /\ iv \in Spans(cap)
  BY DEF SpanList
<1>2. a \in Nat /\ b \in Nat /\ a < b /\ b - a <= cap /\ iv = <<a, b>> /\ iv \in Nat \X Nat
  BY <1>1 DEF Spans
<1>3. \A q \in P : q[1] <= a
  <2>1. ASSUME NEW i \in 1..n PROVE u[i][1] <= a
    BY <1>1 DEF SpanList
  <2> QED
    BY <2>1 DEF SpansIn
<1>4. PICK X : Course(m, L, e, X, P, gap, cap)
  BY DEF Charged
<1>5. \/ /\ m # 0 /\ a - e <= gap /\ b - L <= cap
         /\ k = m /\ more[m] = <<L, Larger(e, b)>>
      \/ /\ ~(m # 0 /\ a - e <= gap /\ b - L <= cap)
         /\ k = m + 1 /\ more[m + 1] = iv
  <2>1. Widened(runs, Len(runs), Merged(runs, iv, gap, cap), iv, gap, cap)
    BY ONLY runs \in Seq(Nat \X Nat), <1>2, MergedType
  <2>2. Widened(runs, m, more, iv, gap, cap)
    BY <2>1
  <2> HIDE DEF iv, m, more
  <2> QED
    BY <2>2 DEF Widened
<1>6. \/ /\ m # 0 /\ a - e <= gap /\ b - L <= cap
         /\ k = m /\ K = L /\ d = Larger(e, b)
      \/ /\ ~(m # 0 /\ a - e <= gap /\ b - L <= cap)
         /\ k = m + 1 /\ K = a /\ d = b
  <2> HIDE DEF iv, m, more, e, L, P
  <2> QED
    BY <1>5
<1>7. SpansIn(u, n + 1) = P \cup {iv}
  <2>1. 1..(n + 1) = (1..n) \cup {n + 1}
    OBVIOUS
  <2> QED
    BY <2>1 DEF SpansIn
<1> HIDE DEF P, m, L, e, k, K, d, a, b
<1>8. \E Y : Course(k, K, d, Y, P \cup {<<a, b>>}, gap, cap)
  <2>1. cap \in Nat
    BY <1>1
  <2> QED
    BY ONLY gap \in Nat, <2>1, <1>2, <1>3, <1>4, <1>6, CourseMore
<1>9. Charged(more, SpansIn(u, n + 1), gap, cap)
  <2>1. \E Y : Course(k, K, d, Y, SpansIn(u, n + 1), gap, cap)
    BY <1>2, <1>7, <1>8
  <2> QED
    BY <2>1 DEF Charged, k, K, d
<1> QED
  BY <1>9

\* f tells the bus-load rule's runs after each of the ordered spans.
Merges(f, u, N, gap, cap) ==
    /\ f \in [0..N -> Seq(Nat \X Nat)] /\ f[0] = <<>>
    /\ \A n \in 1..N : f[n] = Merged(f[n - 1], u[n], gap, cap)

\* The recursion of MergeRuns, step by step.
LEMMA MergeFolds ==
    ASSUME NEW N \in Nat, NEW cap, NEW pairs, Len(pairs) = N,
           \A n \in 1..N : Ordered(pairs)[n] \in Nat \X Nat, NEW gap
    PROVE  \E f : Merges(f, Ordered(pairs), N, gap, cap) /\ MergeRuns(pairs, gap, cap) = f[N]
<1> DEFINE u == Ordered(pairs)
           A == Seq(Nat \X Nat)
           Up(f) == f = [n \in 0..N |-> IF n = 0 THEN <<>> ELSE Merged(f[n - 1], u[n], gap, cap)]
           h == CHOOSE f : Up(f)
<1>1. MergeRuns(pairs, gap, cap) = h[N]
  BY DEF MergeRuns
<1> HIDE DEF u
<1>2. \A n \in 1..N : u[n] \in Nat \X Nat
  BY DEF u
<1>3. \E f : Up(f)
  <2> DEFINE G == [n \in 1..N |-> [x \in A |-> Merged(x, u[n], gap, cap)]]
  <2>1. Steps(G, N, A)
    <3>1. ASSUME NEW n \in 1..N, NEW x \in A PROVE Merged(x, u[n], gap, cap) \in A
      BY <1>2, MergedType
    <3> HIDE DEF A
    <3>2. G \in [1..N -> [A -> A]]
      BY <3>1
    <3> HIDE DEF G
    <3> QED
      BY <3>2 DEF Steps
  <2>2. << >> \in A
    OBVIOUS
  <2>3. \E f : Iterates(f, N, A, << >>, G)
    <3> HIDE DEF A, G
    <3> QED
      BY <2>1, <2>2, Iteration
  <2>4. PICK f : f \in [0..N -> A] /\ f[0] = <<>> /\ \A n \in 1..N : f[n] = G[n][f[n - 1]]
    <3> HIDE DEF A, G
    <3> QED
      BY <2>3 DEF Iterates
  <2>5. \A n \in 1..N : f[n] = Merged(f[n - 1], u[n], gap, cap)
    <3>1. SUFFICES ASSUME NEW n \in 1..N PROVE f[n] = Merged(f[n - 1], u[n], gap, cap)
      OBVIOUS
    <3>2. n - 1 \in 0..N
      OBVIOUS
    <3> HIDE DEF A
    <3>3. f[n - 1] \in A
      BY <2>4, <3>2
    <3> QED
      BY <2>4, <3>3
  <2>6. Up(f)
    <3>1. f = [n \in 0..N |-> f[n]]
      BY <2>4
    <3>2. \A n \in 0..N : f[n] = IF n = 0 THEN <<>> ELSE Merged(f[n - 1], u[n], gap, cap)
      BY <2>4, <2>5
    <3> HIDE DEF A
    <3> QED
      BY <3>1, <3>2
  <2> QED
    BY <2>6
<1>4. Up(h)
  BY <1>3
<1> HIDE DEF h
<1>5. h[0] = <<>> /\ \A n \in 1..N : h[n] = Merged(h[n - 1], u[n], gap, cap)
  BY <1>4
<1>6. h \in [0..N -> A]
  <2> DEFINE S == {n \in Nat : n <= N => h[n] \in A}
  <2>1. 0 \in S
    <3>1. <<>> \in A
      OBVIOUS
    <3> HIDE DEF A
    <3> QED
      BY <1>5, <3>1
  <2>2. ASSUME NEW n \in Nat, n \in S PROVE n + 1 \in S
    <3>1. SUFFICES ASSUME n + 1 <= N PROVE h[n + 1] \in A
      OBVIOUS
    <3>2. h[n] \in A /\ n + 1 \in 1..N /\ (n + 1) - 1 = n
      BY <2>2, <3>1
    <3>3. h[n + 1] = Merged(h[n], u[n + 1], gap, cap)
      BY <1>5, <3>2
    <3> QED
      BY <1>2, <3>2, <3>3, MergedType
  <2>3. Nat \subseteq S
    <3> HIDE DEF S
    <3> QED
      BY <2>1, <2>2, NatInd
  <2>4. \A n \in 0..N : h[n] \in A
    <3> HIDE DEF A
    <3> QED
      BY <2>3
  <2>5. h = [n \in 0..N |-> h[n]]
    <3> HIDE DEF A
    <3> QED
      BY <1>4
  <2> HIDE DEF A
  <2> QED
    BY <2>4, <2>5
<1>7. Merges(h, u, N, gap, cap)
  BY <1>5, <1>6 DEF Merges
<1> QED
  BY <1>1, <1>7 DEF u

\* The bus-load rule's runs are a course of its spans.
LEMMA MergesCourse ==
    ASSUME NEW N, NEW cap, NEW u, SpanList(u, N, cap), NEW gap \in Nat,
           NEW f, Merges(f, u, N, gap, cap)
    PROVE  Charged(f[N], SpansIn(u, N), gap, cap)
<1> DEFINE S == {n \in Nat : n <= N => Charged(f[n], SpansIn(u, n), gap, cap)}
<1>1. N \in Nat
  BY DEF SpanList
<1>2. /\ f \in [0..N -> Seq(Nat \X Nat)] /\ f[0] = <<>>
      /\ \A n \in 1..N : f[n] = Merged(f[n - 1], u[n], gap, cap)
  BY DEF Merges
<1>3. 0 \in S
  <2>1. Len(f[0]) = 0 /\ SpansIn(u, 0) = {}
    BY <1>2 DEF SpansIn
  <2>2. Charged(f[0], SpansIn(u, 0), gap, cap)
    BY <2>1, CourseEmpty DEF Charged
  <2> QED
    BY <2>2
<1>4. ASSUME NEW n \in Nat, n \in S PROVE n + 1 \in S
  <2>1. SUFFICES ASSUME n + 1 <= N PROVE Charged(f[n + 1], SpansIn(u, n + 1), gap, cap)
    OBVIOUS
  <2>2. /\ Charged(f[n], SpansIn(u, n), gap, cap)
        /\ n \in 0..(N - 1) /\ n \in 0..N /\ n + 1 \in 1..N /\ (n + 1) - 1 = n
    BY <1>1, <1>4, <2>1
  <2>3. f[n + 1] = Merged(f[n], u[n + 1], gap, cap)
    BY <1>2, <2>2
  <2>4. f[n] \in Seq(Nat \X Nat)
    BY <1>2, <2>2
  <2> QED
    BY <2>2, <2>3, <2>4, ChargedMore
<1> HIDE DEF S
<1>5. N \in S
  BY <1>1, <1>3, <1>4, NatInd
<1> USE DEF S
<1> QED
  BY <1>1, <1>5

\* The spans P need n runs.
Counted(n, P, gap, cap) == \E X, L, e : Course(n, L, e, X, P, gap, cap)

\* The bus-load rule counts the blocks of the course of its spans (validate.rs:619-633).
LEMMA RuleCounts ==
    ASSUME NEW N \in Nat, NEW cap \in Nat, NEW pairs, pairs \in [1..N -> Spans(cap)],
           NEW gap \in Nat
    PROVE  /\ IsSeq(MergeRuns(pairs, gap, cap))
           /\ Counted(Len(MergeRuns(pairs, gap, cap)), SpansIn(pairs, N), gap, cap)
<1> DEFINE u == Ordered(pairs)
<1>1. \A i \in 1..N : pairs[i] \in Spans(cap) /\ pairs[i] \in Nat \X Nat
  BY DEF Spans
<1>2. DOMAIN pairs = 1..N /\ Len(pairs) = N
  <2>1. DOMAIN pairs = 1..N /\ pairs = [i \in 1..N |-> pairs[i]]
    OBVIOUS
  <2> QED
    BY ONLY N \in Nat, <2>1, SeqIntro
<1>3. PICK L \in [1..N -> 1..N] :
              /\ Ordered(pairs) = [i \in 1..N |-> pairs[L[i]]]
              /\ \A x \in 1..N : \E i \in 1..N : L[i] = x
              /\ \A i, j \in 1..N : i < j => pairs[L[i]][1] <= pairs[L[j]][1]
  <2>1. SpanSeq(pairs, N)
    BY <1>1, <1>2 DEF SpanSeq
  <2>2. \E L : ByEnd(L, pairs, N)
    BY ONLY <2>1, ByEnds
  <2> QED
    BY ONLY <2>2 DEF ByEnd
<1>4. u = [i \in 1..N |-> pairs[L[i]]]
  BY <1>3
<1> HIDE DEF u
<1>5. \A i \in 1..N : u[i] = pairs[L[i]] /\ L[i] \in 1..N
  BY <1>3, <1>4
<1>6. SpanList(u, N, cap)
  <2>1. u \in [1..N -> Spans(cap)]
    BY <1>1, <1>3, <1>4
  <2>2. \A i, j \in 1..N : i < j => u[i][1] <= u[j][1]
    BY <1>3, <1>5
  <2> QED
    BY <2>1, <2>2 DEF SpanList
<1>7. SpansIn(u, N) = SpansIn(pairs, N)
  <2>1. SpansIn(u, N) \subseteq SpansIn(pairs, N)
    BY ONLY <1>5 DEF SpansIn
  <2>2. \A x \in 1..N : \E i \in 1..N : u[i] = pairs[x]
    <3>1. TAKE x \in 1..N
    <3>2. PICK i \in 1..N : L[i] = x
      BY <1>3
    <3> QED
      BY ONLY <1>5, <3>2
  <2>3. SpansIn(pairs, N) \subseteq SpansIn(u, N)
    BY ONLY <2>2 DEF SpansIn
  <2> QED
    BY ONLY <2>1, <2>3
<1>8. \A n \in 1..N : Ordered(pairs)[n] \in Nat \X Nat
  BY <1>1, <1>5 DEF u
<1>9. \E f : Merges(f, Ordered(pairs), N, gap, cap) /\ MergeRuns(pairs, gap, cap) = f[N]
  BY ONLY N \in Nat, <1>2, <1>8, MergeFolds
<1>10. PICK f : Merges(f, u, N, gap, cap) /\ MergeRuns(pairs, gap, cap) = f[N]
  BY ONLY <1>9 DEF u
<1>11. Charged(f[N], SpansIn(u, N), gap, cap)
  BY ONLY gap \in Nat, <1>6, <1>10, MergesCourse
<1>12. Counted(Len(MergeRuns(pairs, gap, cap)), SpansIn(pairs, N), gap, cap)
  BY ONLY <1>7, <1>10, <1>11 DEF Charged, Counted
<1>13. MergeRuns(pairs, gap, cap) \in Seq(Nat \X Nat)
  BY <1>10 DEF Merges
<1> QED
  BY <1>12, <1>13, SeqMember

\* The coalescer makes as many requests as the course of its intervals has blocks.
LEMMA CoalescerCounts ==
    ASSUME NEW area, NEW N, NEW T, NEW cap, cap = MaxQty(area),
           NEW ivals, IntervalList(ivals, N, T, cap), NEW gap \in Nat
    PROVE  Counted(Len(Coalesce(area, ivals, gap)), SpansTo(ivals, N), gap, cap)
<1> DEFINE s == Sorted(ivals)
<1>1. N \in Nat
  BY DEF IntervalList
<1>2. /\ IntervalList(s, N, T, cap)
      /\ \A i \in 1..N : \E j \in 1..N : s[i] = ivals[j]
      /\ \A j \in 1..N : \E i \in 1..N : s[i] = ivals[j]
      /\ \A i, j \in 1..N : i < j => s[i].start <= s[j].start
  BY ONLY IntervalList(ivals, N, T, cap), SortedList
<1>3. PICK f : Folds(f, s, N, T, gap, cap)
               /\ Coalesce(area, ivals, gap) = [i \in DOMAIN f[N] |-> Emit(area, f[N][i])]
  BY CoalesceFolds
<1> HIDE DEF s
<1>4. SpansTo(s, N) = SpansTo(ivals, N)
  <2>1. SpansTo(s, N) \subseteq SpansTo(ivals, N)
    BY ONLY <1>2 DEF SpansTo
  <2>2. SpansTo(ivals, N) \subseteq SpansTo(s, N)
    BY ONLY <1>2 DEF SpansTo
  <2> QED
    BY ONLY <2>1, <2>2
<1>5. Coursed(f[N], SpansTo(s, N), gap, cap)
  BY ONLY gap \in Nat, <1>2, <1>3, FoldsCourse
<1>6. Len(Coalesce(area, ivals, gap)) = Len(f[N])
  <2>1. f[N] \in Seq(Runs(T))
    BY <1>1, <1>3 DEF Folds
  <2> DEFINE runs == f[N]
             txns == Coalesce(area, ivals, gap)
  <2>2. Len(runs) \in Nat /\ DOMAIN runs = 1..Len(runs)
    BY <2>1
  <2>3. txns = [i \in 1..Len(runs) |-> txns[i]]
    BY <1>3, <2>2
  <2> HIDE DEF runs, txns
  <2>4. Len(txns) = Len(runs)
    BY ONLY <2>2, <2>3, SeqIntro
  <2> QED
    BY <2>4 DEF runs, txns
<1> QED
  BY ONLY <1>4, <1>5, <1>6 DEF Coursed, Counted

\* The bus-load rule counts as many requests as the coalescer makes of the same reads.
SpansOf(pairs, ivals, N) ==
    /\ DOMAIN pairs = 1..N /\ pairs = [i \in 1..N |-> pairs[i]]
    /\ \A i \in 1..N : pairs[i] = <<ivals[i].start, ivals[i].end>>

\* Over the same spans both count alike.
LEMMA SameCount ==
    ASSUME NEW area, NEW N, NEW T, NEW cap, cap = MaxQty(area),
           NEW ivals, IntervalList(ivals, N, T, cap), NEW gap \in Nat,
           NEW pairs, SpansOf(pairs, ivals, N)
    PROVE  /\ IsSeq(MergeRuns(pairs, gap, cap))
           /\ Len(Coalesce(area, ivals, gap)) = Len(MergeRuns(pairs, gap, cap))
<1>1. N \in Nat /\ cap \in Nat
  BY DEF IntervalList
<1>2. ASSUME NEW i \in 1..N PROVE pairs[i] \in Spans(cap)
  <2>1. ivals[i].start \in Nat /\ ivals[i].end \in Nat /\ ivals[i].start < ivals[i].end
        /\ ivals[i].end - ivals[i].start <= cap
    BY DEF IntervalList, Intervals
  <2> DEFINE x == ivals[i].start
             y == ivals[i].end
  <2> HIDE DEF x, y
  <2>2. x \in Nat /\ y \in Nat /\ x < y /\ y - x <= cap
    BY ONLY <2>1 DEF x, y
  <2>3. <<x, y>> \in Spans(cap)
    BY ONLY <2>2 DEF Spans
  <2>4. pairs[i] = <<x, y>>
    BY DEF SpansOf, x, y
  <2> QED
    BY <2>3, <2>4
<1>3. pairs \in [1..N -> Spans(cap)]
  <2>1. pairs = [i \in 1..N |-> pairs[i]]
    BY DEF SpansOf
  <2> QED
    BY ONLY <1>2, <2>1
<1>4. SpansIn(pairs, N) = SpansTo(ivals, N)
  <2>1. SpansIn(pairs, N) \subseteq SpansTo(ivals, N)
    BY DEF SpansOf, SpansTo, SpansIn
  <2>2. SpansTo(ivals, N) \subseteq SpansIn(pairs, N)
    BY DEF SpansOf, SpansTo, SpansIn
  <2> QED
    BY ONLY <2>1, <2>2
<1>5. /\ IsSeq(MergeRuns(pairs, gap, cap))
      /\ Counted(Len(MergeRuns(pairs, gap, cap)), SpansIn(pairs, N), gap, cap)
  BY ONLY gap \in Nat, <1>1, <1>3, RuleCounts
<1>6. Counted(Len(Coalesce(area, ivals, gap)), SpansTo(ivals, N), gap, cap)
  BY CoalescerCounts
<1>7. Counted(Len(MergeRuns(pairs, gap, cap)), SpansTo(ivals, N), gap, cap)
  BY ONLY <1>4, <1>5
<1> QED
  BY ONLY <1>5, <1>6, <1>7, CourseUnique DEF Counted

\* A one-to-one numbering counts a set.
LEMMA CountBy ==
    ASSUME NEW n \in Nat, NEW S, NEW f \in [1..n -> S],
           \A i, j \in 1..n : f[i] = f[j] => i = j,
           \A x \in S : \E i \in 1..n : f[i] = x
    PROVE  IsFiniteSet(S) /\ Cardinality(S) = n
<1>1. f \in Bijection(1..n, S)
  BY DEF Bijection, Injection, Surjection, IsInjective
<1>2. ExistsBijection(1..n, S)
  BY <1>1 DEF ExistsBijection
<1>3. IsFiniteSet(1..n) /\ Cardinality(1..n) = n
  BY FS_Interval
<1> QED
  BY ONLY <1>2, <1>3, FS_Bijection

\* Sequences of sequences of the same lengths flatten to the same length.
Alike(ss, tt, n) ==
    /\ n \in Nat /\ ss = [a \in 1..n |-> ss[a]] /\ tt = [a \in 1..n |-> tt[a]]
    /\ \A a \in 1..n : IsSeq(ss[a]) /\ IsSeq(tt[a]) /\ Len(ss[a]) = Len(tt[a])

\* Lists of lists of equal lengths flatten to the same length.
LEMMA SameLength ==
    ASSUME NEW n, NEW ss, NEW tt, Alike(ss, tt, n)
    PROVE  Len(FlattenSeq(ss)) = Len(FlattenSeq(tt))
<1> USE DEF Alike
<1>1. Cells(ss) = Cells(tt)
  <2>1. DOMAIN ss = 1..n /\ DOMAIN tt = 1..n
    OBVIOUS
  <2>2. \A a \in 1..n : DOMAIN ss[a] = DOMAIN tt[a]
    BY SeqElim
  <2>3. ASSUME NEW c
        PROVE  /\ c \in Cells(ss) <=> \E a \in 1..n : \E b \in DOMAIN ss[a] : c = <<a, b>>
               /\ c \in Cells(tt) <=> \E a \in 1..n : \E b \in DOMAIN tt[a] : c = <<a, b>>
    <3>1. c \in Cells(ss) <=> \E a \in DOMAIN ss : \E b \in DOMAIN ss[a] : c = <<a, b>>
      BY ONLY CellsDef
    <3>2. c \in Cells(tt) <=> \E a \in DOMAIN tt : \E b \in DOMAIN tt[a] : c = <<a, b>>
      BY ONLY CellsDef
    <3> QED
      BY ONLY <2>1, <3>1, <3>2
  <2>4. \A c : c \in Cells(ss) <=> c \in Cells(tt)
    BY ONLY <2>2, <2>3
  <2> QED
    BY ONLY <2>4
<1>2. ASSUME NEW zz, zz = [a \in 1..n |-> zz[a]], \A a \in 1..n : IsSeq(zz[a])
      PROVE  Len(FlattenSeq(zz)) = Cardinality(Cells(zz))
  <2> DEFINE flat == FlattenSeq(zz)
             m == Len(flat)
  <2>1. IsSeq(flat) /\ \E pos : Traces(pos, flat, zz)
    BY ONLY n \in Nat, <1>2, Flattened
  <2> HIDE DEF flat
  <2>2. PICK pos : Traces(pos, flat, zz)
    BY <2>1
  <2>3. m \in Nat /\ DOMAIN flat = 1..m
    BY <2>1, SeqElim
  <2> HIDE DEF m
  <2>4. /\ pos \in [1..m -> Cells(zz)]
        /\ \A i, j \in 1..m : pos[i] = pos[j] => i = j
        /\ \A c \in Cells(zz) : \E i \in 1..m : pos[i] = c
    BY <2>2, <2>3 DEF Traces
  <2>5. Cardinality(Cells(zz)) = m
    BY ONLY <2>3, <2>4, CountBy
  <2> QED
    BY <2>5 DEF m, flat
<1>3. Len(FlattenSeq(ss)) = Cardinality(Cells(ss)) /\ Len(FlattenSeq(tt)) = Cardinality(Cells(tt))
  BY <1>2
<1> QED
  BY <1>1, <1>3

\* What resolution makes of one entry.
LEMMA ResolvedAs ==
    ASSUME NEW cfg, Accepts(cfg), NEW c \in DOMAIN cfg.channels,
           NEW d \in DOMAIN cfg.channels[c].devices, NEW r \in DOMAIN Stated(cfg, c, d)
    PROVE  /\ Resolved(cfg, c, d)[r].tag = TagAt(cfg, <<c, d, r>>)
           /\ Resolved(cfg, c, d)[r].group \in DOMAIN cfg.groups
           /\ cfg.groups[Resolved(cfg, c, d)[r].group].id = Stated(cfg, c, d)[r].group
           /\ \A g \in DOMAIN cfg.groups :
                 cfg.groups[g].id = Stated(cfg, c, d)[r].group => Resolved(cfg, c, d)[r].group = g
           /\ Resolved(cfg, c, d)[r].fn = Stated(cfg, c, d)[r].fn
           /\ Resolved(cfg, c, d)[r].address = Stated(cfg, c, d)[r].address
           /\ Width(Resolved(cfg, c, d)[r]) = Width(Stated(cfg, c, d)[r])
  BY ResolvedSound

\* Rule 10 selects by the group's name the registers the plan selects by its index.
LEMMA SameSelection ==
    ASSUME NEW cfg, Accepts(cfg), NEW c \in DOMAIN cfg.channels,
           NEW d \in DOMAIN cfg.channels[c].devices, NEW g \in DOMAIN cfg.groups, NEW area
    PROVE  /\ AreaSet(Stated(cfg, c, d), cfg.groups[g].id, area)
                = AreaSet(Resolved(cfg, c, d), g, area)
           /\ {r \in DOMAIN Stated(cfg, c, d) : /\ Stated(cfg, c, d)[r].group = cfg.groups[g].id
                                                /\ Stated(cfg, c, d)[r].fn = "Custom"}
                = {r \in DOMAIN Resolved(cfg, c, d) : /\ Resolved(cfg, c, d)[r].group = g
                                                      /\ Resolved(cfg, c, d)[r].fn = "Custom"}
<1> DEFINE es == Stated(cfg, c, d)
           rs == Resolved(cfg, c, d)
<1>1. DOMAIN rs = DOMAIN es
  BY ResolvedSound
<1>2. ASSUME NEW r \in DOMAIN es
      PROVE  rs[r].fn = es[r].fn /\ (rs[r].group = g <=> es[r].group = cfg.groups[g].id)
  <2>1. /\ cfg.groups[rs[r].group].id = es[r].group
        /\ \A h \in DOMAIN cfg.groups : cfg.groups[h].id = es[r].group => rs[r].group = h
        /\ rs[r].fn = es[r].fn
    BY ResolvedAs
  <2> HIDE DEF es, rs
  <2> QED
    BY <2>1
<1> HIDE DEF es, rs
<1>3. AreaSet(es, cfg.groups[g].id, area) = AreaSet(rs, g, area)
  BY <1>1, <1>2 DEF AreaSet
<1>4. {r \in DOMAIN es : es[r].group = cfg.groups[g].id /\ es[r].fn = "Custom"}
        = {r \in DOMAIN rs : rs[r].group = g /\ rs[r].fn = "Custom"}
  BY <1>1, <1>2
<1> QED
  BY <1>3, <1>4 DEF es, rs

\* The entries rs ask for the addresses the entries es do.
SamePlaces(rs, es) ==
    \A r \in DOMAIN es : rs[r].address = es[r].address /\ Width(rs[r]) = Width(es[r])

\* Resolution changes neither the place nor the width of a register.
LEMMA SamePlacesResolved ==
    ASSUME NEW cfg, Accepts(cfg), NEW c \in DOMAIN cfg.channels,
           NEW d \in DOMAIN cfg.channels[c].devices
    PROVE  SamePlaces(Resolved(cfg, c, d), Stated(cfg, c, d))
<1>1. ASSUME NEW r \in DOMAIN Stated(cfg, c, d)
      PROVE  /\ Resolved(cfg, c, d)[r].tag = TagAt(cfg, <<c, d, r>>)
             /\ Resolved(cfg, c, d)[r].address = Stated(cfg, c, d)[r].address
             /\ Width(Resolved(cfg, c, d)[r]) = Width(Stated(cfg, c, d)[r])
  BY ResolvedAs
<1> QED
  BY <1>1 DEF SamePlaces

\* The spans rule 10 merges for an area.
StatedSpans(es, name, area) ==
    [i \in DOMAIN ReadsOf(es, name, area) |->
       <<ReadsOf(es, name, area)[i].address,
         ReadsOf(es, name, area)[i].address + EntrySpan(ReadsOf(es, name, area)[i], area)>>]

\* For one device, group and area the rule and the coalescer count alike.
LEMMA SpansAgree ==
    ASSUME NEW cfg, Accepts(cfg), NEW c \in DOMAIN cfg.channels,
           NEW d \in DOMAIN cfg.channels[c].devices, NEW g \in DOMAIN cfg.groups, NEW a \in 1..4,
           NEW gap \in Nat
    PROVE  LET runs == MergeRuns(StatedSpans(Stated(cfg, c, d), cfg.groups[g].id, Areas[a]), gap,
                                 MaxQty(Areas[a]))
               txns == Coalesce(Areas[a], AreaIntervals(Resolved(cfg, c, d), g, Areas[a]), gap)
           IN  IsSeq(runs) /\ IsSeq(txns) /\ Len(txns) = Len(runs)
<1> DEFINE es == Stated(cfg, c, d)
           rs == Resolved(cfg, c, d)
           area == Areas[a]
           name == cfg.groups[g].id
           S == AreaSet(rs, g, area)
           n == Cardinality(S)
           L == Ascending(S)
           ivals == AreaIntervals(rs, g, area)
           of == ReadsOf(es, name, area)
           pairs == StatedSpans(es, name, area)
           T == {rs[r].tag : r \in DOMAIN rs}
<1>1. /\ SoundRegisters(rs) /\ DOMAIN rs = DOMAIN es
      /\ \A r \in DOMAIN es : rs[r].address = es[r].address /\ Width(rs[r]) = Width(es[r])
  <2>1. SoundRegisters(rs) /\ DOMAIN rs = DOMAIN es
    BY ResolvedSound
  <2>2. SamePlaces(rs, es)
    BY SamePlacesResolved
  <2> HIDE DEF rs, es
  <2> QED
    BY <2>1, <2>2 DEF SamePlaces
<1>2. AreaSet(es, name, area) = S
  BY SameSelection
<1>3. IsSeq(es)
  BY ConfigurationParts DEF Accepts, Stated
<1>4. AreaList(rs, g, area, ivals, n, L)
  BY <1>1, AreaIntervalList
<1>5. of = Through(es, L)
  BY <1>2 DEF ReadsOf, AreaSet
<1>6. FeedsFrom(Coalesce(area, ivals, gap), rs, S)
  BY <1>1, AreaTransactions
<1>7. S \in SUBSET DOMAIN es
  BY <1>1 DEF AreaSet
<1> HIDE DEF es, rs, area, name, S, n, L, of, ivals
<1>8. /\ n \in Nat /\ DOMAIN of = 1..n
      /\ \A i \in 1..n : L[i] \in DOMAIN es /\ of[i] = es[L[i]]
  <2>1. LET t == Through(es, Ascending(S))
        IN  /\ Cardinality(S) \in Nat /\ DOMAIN t = 1..Cardinality(S)
            /\ \A i \in 1..Cardinality(S) : Ascending(S)[i] \in S /\ t[i] = es[Ascending(S)[i]]
    BY ONLY <1>3, <1>7, KeptPositions
  <2> QED
    BY <1>5, <1>7, <2>1 DEF n, L
<1>9. pairs = [i \in 1..n |-> <<of[i].address, of[i].address + EntrySpan(of[i], area)>>]
  BY <1>8 DEF StatedSpans, of
<1>10. ASSUME NEW i \in 1..n
       PROVE  <<of[i].address, of[i].address + EntrySpan(of[i], area)>>
                = <<ivals[i].start, ivals[i].end>>
  <2>1. ivals[i].start = rs[L[i]].address
        /\ ivals[i].end = rs[L[i]].address + EntrySpan(rs[L[i]], area)
    BY <1>4 DEF AreaList
  <2>2. of[i] = es[L[i]] /\ rs[L[i]].address = es[L[i]].address
        /\ Width(rs[L[i]]) = Width(es[L[i]])
    BY <1>1, <1>8
  <2> QED
    BY <2>1, <2>2 DEF EntrySpan
<1> HIDE DEF pairs
<1>11. SpansOf(pairs, ivals, n)
  <2>1. DOMAIN pairs = 1..n /\ pairs = [i \in 1..n |-> pairs[i]]
    BY ONLY <1>9
  <2>2. \A i \in 1..n : pairs[i] = <<of[i].address, of[i].address + EntrySpan(of[i], area)>>
    BY ONLY <1>9
  <2>3. \A i \in 1..n : pairs[i] = <<ivals[i].start, ivals[i].end>>
    BY ONLY <1>10, <2>2
  <2> QED
    BY ONLY <2>1, <2>3 DEF SpansOf
<1>12. IntervalList(ivals, n, T, MaxQty(area))
  BY <1>4 DEF AreaList
<1> HIDE DEF T
<1>13. /\ IsSeq(MergeRuns(pairs, gap, MaxQty(area)))
       /\ Len(Coalesce(area, ivals, gap)) = Len(MergeRuns(pairs, gap, MaxQty(area)))
  <2> DEFINE cap == MaxQty(area)
  <2>1. cap = MaxQty(area) /\ IntervalList(ivals, n, T, cap)
    BY <1>12
  <2> HIDE DEF cap
  <2>2. /\ IsSeq(MergeRuns(pairs, gap, cap))
        /\ Len(Coalesce(area, ivals, gap)) = Len(MergeRuns(pairs, gap, cap))
    BY ONLY gap \in Nat, <1>11, <2>1, SameCount
  <2> QED
    BY ONLY <2>1, <2>2
<1>14. IsSeq(Coalesce(area, ivals, gap))
  BY <1>6 DEF FeedsFrom
<1> QED
  BY <1>13, <1>14 DEF pairs, area, ivals, es, rs, name

\* The requests of a device in one poll group are as many as rule 10 charges.
LEMMA ChargedLength ==
    ASSUME NEW cfg, Accepts(cfg), NEW c \in DOMAIN cfg.channels,
           NEW d \in DOMAIN cfg.channels[c].devices, NEW g \in DOMAIN cfg.groups
    PROVE  /\ IsSeq(Transactions(Resolve(cfg)[c].devices[d], g))
           /\ Len(Transactions(Resolve(cfg)[c].devices[d], g))
                = ChargedRequests(cfg.channels[c], cfg.channels[c].devices[d], cfg.groups[g].id)
<1> DEFINE ch == cfg.channels[c]
           dev == ch.devices[d]
           D == Resolve(cfg)[c].devices[d]
           gap == IF dev.max_gap = None THEN ch.max_gap ELSE dev.max_gap
           es == Stated(cfg, c, d)
           rs == Resolved(cfg, c, d)
           name == cfg.groups[g].id
           ss == [a \in DOMAIN Areas |->
                    Coalesce(Areas[a], AreaIntervals(rs, g, Areas[a]), gap)]
           tt == [a \in DOMAIN Areas |->
                    MergeRuns(StatedSpans(es, name, Areas[a]), gap, MaxQty(Areas[a]))]
           custom == CustomsOf(rs, g)
           cs == [i \in DOMAIN custom |-> CustomTxn(custom[i])]
           SS == [a \in 1..4 |-> AreaSet(rs, g, Areas[a])]
           Z == {r \in DOMAIN rs : rs[r].group = g /\ rs[r].fn = "Custom"}
<1>1. D.max_gap = gap /\ D.registers = rs /\ dev.registers = es
  BY ResolvedDevice DEF Accepts, Resolved, Stated
<1>2. gap \in Nat
  <2>1. dev \in Devices /\ ch \in Channels
    BY ConfigurationParts DEF Accepts
  <2>2. dev.max_gap \in Nat \cup {None} /\ ch.max_gap \in Nat
    BY ONLY <2>1 DEF Devices, Channels
  <2> QED
    BY ONLY <2>2
<1>3. Transactions(D, g) = FlattenSeq(ss) \o cs
  BY <1>1 DEF Transactions, AreaIntervals
<1>4. ChargedRequests(ch, dev, name) = Len(CustomsOf(es, name)) + Len(FlattenSeq(tt))
  BY <1>1 DEF ChargedRequests, StatedSpans
<1> HIDE DEF ch, dev, D, gap, es, rs, name
<1>5. SoundRegisters(rs)
  BY ResolvedSound DEF rs
<1>6. \A a \in 1..4 : FeedsFrom(ss[a], rs, SS[a])
  BY <1>5, AreaDistinct, AreaTransactions
<1>7. FeedsFrom(cs, rs, Z) /\ Len(cs) = Len(custom)
  BY <1>5, CustomTransactions
<1>8. Disjoint(SS, 4) /\ Union(SS, 4) \cap Z = {}
  BY AreaDistinct DEF Disjoint, AreaSet, Union
<1>9. ss = [a \in 1..4 |-> ss[a]] /\ tt = [a \in 1..4 |-> tt[a]]
  BY AreaDistinct
<1>10. \A a \in 1..4 : IsSeq(ss[a]) /\ IsSeq(tt[a]) /\ Len(ss[a]) = Len(tt[a])
  <2>1. \A a \in 1..4 : /\ ss[a] = Coalesce(Areas[a], AreaIntervals(rs, g, Areas[a]), gap)
                        /\ tt[a] = MergeRuns(StatedSpans(es, name, Areas[a]), gap, MaxQty(Areas[a]))
    BY AreaDistinct
  <2> HIDE DEF ss, tt
  <2> QED
    BY <1>2, <2>1, SpansAgree DEF es, rs, name
<1>11. Len(CustomsOf(es, name)) = Len(custom)
  <2> DEFINE Y == {r \in DOMAIN es : es[r].group = name /\ es[r].fn = "Custom"}
  <2>1. Y = Z
    BY SameSelection DEF es, rs, name
  <2>2. IsSeq(es) /\ IsSeq(rs) /\ DOMAIN rs = DOMAIN es
    BY <1>5, ConfigurationParts, ResolvedSound DEF Accepts, Stated, SoundRegisters, es, rs
  <2>3. CustomsOf(es, name) = Through(es, Ascending(Y)) /\ custom = Through(rs, Ascending(Z))
    BY DEF CustomsOf
  <2>4. Y \in SUBSET DOMAIN es /\ Z \in SUBSET DOMAIN rs
    OBVIOUS
  <2> HIDE DEF Y, Z, custom
  <2>5. Len(Through(es, Ascending(Y))) = Cardinality(Y)
    BY ONLY <2>2, <2>4, KeptPositions
  <2>6. Len(Through(rs, Ascending(Z))) = Cardinality(Z)
    BY ONLY <2>2, <2>4, KeptPositions
  <2> QED
    BY <2>1, <2>3, <2>5, <2>6
<1> HIDE DEF ss, tt, cs, SS, Z, custom
<1>12. Len(FlattenSeq(ss)) = Len(FlattenSeq(tt))
  <2>1. Alike(ss, tt, 4)
    BY ONLY <1>9, <1>10 DEF Alike
  <2> QED
    BY ONLY <2>1, SameLength
<1>13. FeedsFrom(FlattenSeq(ss), rs, Union(SS, 4))
  BY <1>5, <1>6, <1>8, <1>9, FeedsFlattened
<1>14. /\ FeedsFrom(FlattenSeq(ss) \o cs, rs, Union(SS, 4) \cup Z)
       /\ Len(FlattenSeq(ss) \o cs) = Len(FlattenSeq(ss)) + Len(cs)
  BY ONLY <1>5, <1>7, <1>8, <1>13, FeedsConcat
<1>15. IsSeq(FlattenSeq(ss) \o cs)
  BY <1>14 DEF FeedsFrom
<1>16. Len(FlattenSeq(ss)) \in Nat /\ Len(cs) \in Nat
  BY <1>7, <1>13, SeqElim DEF FeedsFrom
<1>17. IsSeq(Transactions(D, g)) /\ Len(Transactions(D, g)) = ChargedRequests(ch, dev, name)
  BY <1>3, <1>4, <1>7, <1>11, <1>12, <1>14, <1>15, <1>16
<1> QED
  BY <1>17 DEF D, ch, dev, name

\* The requests of a running plan.
LEMMA RunningPlan ==
    ASSUME PlanInv, status = "running"
    PROVE  Accepts(file) /\ Lists(plan, PlanItems(file))
<1>1. Accepted /\ plan = BuildAll(Resolve(file)) /\ file \in Configurations
  BY DEF PlanInv
<1>2. Accepts(file)
  BY <1>1 DEF Accepts, Accepted
<1> QED
  BY <1>1, <1>2, PlanList

\* A request of the plan stands in its device's and poll group's requests, at its index.
LEMMA ItemOfDevice ==
    ASSUME NEW cfg, Accepts(cfg), NEW item \in PlanItems(cfg),
           NEW c, NEW d, item.dev = <<c, d>>
    PROVE  /\ c \in DOMAIN cfg.channels /\ d \in DOMAIN cfg.channels[c].devices
           /\ cfg.channels[c].enabled /\ cfg.channels[c].devices[d].enabled
           /\ item.group \in DOMAIN cfg.groups
           /\ item \in Items(Resolve(cfg)[c].devices[d], item.group)
<1>1. PICK a \in DOMAIN cfg.channels : \E b \in DOMAIN cfg.channels[a].devices :
              /\ cfg.channels[a].enabled /\ cfg.channels[a].devices[b].enabled
              /\ item.group \in DOMAIN cfg.groups
              /\ item \in Items(Resolve(cfg)[a].devices[b], item.group)
  BY PlanItemParts
<1>2. PICK b \in DOMAIN cfg.channels[a].devices :
              /\ cfg.channels[a].enabled /\ cfg.channels[a].devices[b].enabled
              /\ item.group \in DOMAIN cfg.groups
              /\ item \in Items(Resolve(cfg)[a].devices[b], item.group)
  BY <1>1
<1>3. item.dev = Resolve(cfg)[a].devices[b].id
  BY ONLY <1>2, ItemsOf
<1>4. Resolve(cfg)[a].devices[b].id = <<a, b>>
  BY ResolvedDevice DEF Accepts
<1>5. a = c /\ b = d
  BY <1>3, <1>4
<1> QED
  BY <1>2, <1>5

\* An item of the plan, by its place in its device's requests.
ItemAt(dev, g, x) == [dev |-> dev.id, group |-> g, index |-> x, txn |-> Transactions(dev, g)[x]]

\* The parts of one request of the plan.
LEMMA ItemAtParts ==
    ASSUME NEW dev, NEW g, NEW x
    PROVE  /\ ItemAt(dev, g, x).dev = dev.id /\ ItemAt(dev, g, x).group = g
           /\ ItemAt(dev, g, x).index = x
  BY DEF ItemAt

\* The plan holds as many requests of a device and a poll group as there are.
LEMMA PolledCount ==
    ASSUME PlanInv, status = "running",
           NEW c \in DOMAIN file.channels, file.channels[c].enabled,
           NEW d \in DOMAIN file.channels[c].devices, file.channels[c].devices[d].enabled,
           NEW g \in DOMAIN file.groups
    PROVE  Cardinality({i \in DOMAIN plan : plan[i].dev = <<c, d>> /\ plan[i].group = g})
             = Len(Transactions(Resolve(file)[c].devices[d], g))
<1> DEFINE dev == Resolve(file)[c].devices[d]
           T == Transactions(dev, g)
           n == Len(T)
           I == {i \in DOMAIN plan : plan[i].dev = <<c, d>> /\ plan[i].group = g}
           f == [x \in 1..n |-> CHOOSE i \in DOMAIN plan : plan[i] = ItemAt(dev, g, x)]
<1>1. Accepts(file) /\ Lists(plan, PlanItems(file))
  BY RunningPlan
<1>2. dev.id = <<c, d>>
  BY <1>1, ResolvedDevice DEF Accepts
<1>3. IsSeq(T)
  BY <1>1, ChargedLength
<1>4. n \in Nat /\ DOMAIN T = 1..n
  BY <1>3, SeqElim
<1>5. \A x \in 1..n : ItemAt(dev, g, x) \in PlanItems(file)
  <2>1. SUFFICES ASSUME NEW x \in 1..n PROVE ItemAt(dev, g, x) \in PlanItems(file)
    OBVIOUS
  <2>2. ItemAt(dev, g, x) \in Items(dev, g)
    BY <1>4, <2>1 DEF Items, ItemAt
  <2> QED
    BY <1>1, <2>2, PlanItemOf
<1>6. \A i \in I : plan[i].index \in 1..n /\ plan[i] = ItemAt(dev, g, plan[i].index)
  <2>1. SUFFICES ASSUME NEW i \in I
                 PROVE  plan[i].index \in 1..n /\ plan[i] = ItemAt(dev, g, plan[i].index)
    OBVIOUS
  <2>2. plan[i] \in PlanItems(file) /\ plan[i].dev = <<c, d>> /\ plan[i].group = g
    BY <1>1 DEF Lists
  <2>3. plan[i] \in Items(dev, g)
    BY <1>1, <2>2, ItemOfDevice
  <2> QED
    BY <1>4, <2>3, ItemsOf DEF ItemAt
<1> HIDE DEF dev, n, T
<1>7. \A i : i \in I <=> i \in DOMAIN plan /\ plan[i].dev = dev.id /\ plan[i].group = g
  BY <1>2
<1>8. \A x \in 1..n : f[x] \in DOMAIN plan /\ plan[f[x]] = ItemAt(dev, g, x)
  <2>1. SUFFICES ASSUME NEW x \in 1..n
                 PROVE  \E i \in DOMAIN plan : plan[i] = ItemAt(dev, g, x)
    OBVIOUS
  <2> QED
    BY <1>1, <1>5 DEF Lists
<1>9. f = [x \in 1..n |-> f[x]]
  OBVIOUS
<1> HIDE DEF f, I
<1>10. f \in [1..n -> I]
  <2>1. \A x \in 1..n : f[x] \in I
    BY <1>7, <1>8, ItemAtParts
  <2> QED
    BY ONLY <1>9, <2>1
<1>11. \A x, y \in 1..n : f[x] = f[y] => x = y
  BY <1>8, ItemAtParts
<1>12. \A i \in I : \E x \in 1..n : f[x] = i
  <2>1. SUFFICES ASSUME NEW i \in I PROVE f[plan[i].index] = i
    BY <1>6
  <2> DEFINE x == plan[i].index
  <2>2. x \in 1..n /\ plan[i] = ItemAt(dev, g, x) /\ i \in DOMAIN plan
    BY <1>6, <1>7
  <2> HIDE DEF x
  <2>3. f[x] \in DOMAIN plan /\ plan[f[x]] = plan[i]
    BY <1>8, <2>2
  <2>4. f[x] = i
    BY <1>1, <2>2, <2>3 DEF Lists
  <2> QED
    BY <2>4 DEF x
<1>13. Cardinality(I) = n
  BY ONLY <1>4, <1>10, <1>11, <1>12, CountBy
<1> QED
  BY <1>13 DEF I, n, T, dev

\* The bus-load rule charges what the plan polls.
LEMMA PlanCharged == PlanInv => ChargedAsPolled
<1> SUFFICES ASSUME PlanInv, status = "running", NEW p \in ToSet(DevicePlaces(file)),
                    NEW g \in DOMAIN file.groups,
                    file.channels[p[1]].enabled, file.channels[p[1]].devices[p[2]].enabled
             PROVE  Cardinality({i \in DOMAIN plan : plan[i].dev = p /\ plan[i].group = g})
                      = ChargedRequests(file.channels[p[1]], file.channels[p[1]].devices[p[2]],
                                        file.groups[g].id)
  BY DEF ChargedAsPolled
<1>1. Accepts(file)
  BY RunningPlan
<1>2. p \in DeviceSet(file)
  <2>1. Lists(DevicePlaces(file), DeviceSet(file))
    BY <1>1, DevicePlacesList DEF Accepts
  <2> QED
    BY <2>1 DEF Lists, ToSet
<1>3. /\ p[1] \in DOMAIN file.channels /\ p[2] \in DOMAIN file.channels[p[1]].devices
      /\ p = <<p[1], p[2]>>
  BY <1>2 DEF DeviceSet
<1> DEFINE c == p[1]
           d == p[2]
<1>4. c \in DOMAIN file.channels /\ file.channels[c].enabled
      /\ d \in DOMAIN file.channels[c].devices /\ file.channels[c].devices[d].enabled
      /\ p = <<c, d>>
  BY <1>3
<1> HIDE DEF c, d
<1>5. Cardinality({i \in DOMAIN plan : plan[i].dev = <<c, d>> /\ plan[i].group = g})
        = Len(Transactions(Resolve(file)[c].devices[d], g))
  BY <1>4, PolledCount
<1>6. Len(Transactions(Resolve(file)[c].devices[d], g))
        = ChargedRequests(file.channels[c], file.channels[c].devices[d], file.groups[g].id)
  BY <1>1, <1>4, ChargedLength
<1> QED
  BY <1>4, <1>5, <1>6 DEF c, d

-----------------------------------------------------------------------------
(* The plan covers the configuration                                       *)

\* Where a tag comes from, and the poll group resolution gives it.
PlaceOf(tag) == EntryPlaces(file)[tag]
GroupOf(tag) == Resolved(file, PlaceOf(tag)[1], PlaceOf(tag)[2])[PlaceOf(tag)[3]].group

\* Where a tag comes from.
LEMMA TagParts ==
    ASSUME Accepts(file), NEW tag \in DOMAIN EntryPlaces(file)
    PROVE  LET c == PlaceOf(tag)[1]
               d == PlaceOf(tag)[2]
               r == PlaceOf(tag)[3]
           IN  /\ c \in DOMAIN file.channels /\ d \in DOMAIN file.channels[c].devices
               /\ r \in DOMAIN Stated(file, c, d) /\ PlaceOf(tag) = <<c, d, r>>
               /\ DeviceOf(tag) = <<c, d>> /\ EntryOf(tag) = Stated(file, c, d)[r]
               /\ Resolved(file, c, d)[r].tag = tag
               /\ GroupOf(tag) = Resolved(file, c, d)[r].group
               /\ GroupOf(tag) \in DOMAIN file.groups
               /\ file.groups[GroupOf(tag)].id = EntryOf(tag).group
<1> DEFINE p == PlaceOf(tag)
           c == p[1]
           d == p[2]
           r == p[3]
<1>1. Lists(EntryPlaces(file), EntrySet(file))
  BY EntryPlacesList DEF Accepts
<1>2. p \in EntrySet(file)
  BY <1>1 DEF Lists, PlaceOf
<1>3. /\ DeviceOf(tag) = <<c, d>> /\ EntryOf(tag) = Stated(file, c, d)[r]
      /\ GroupOf(tag) = Resolved(file, c, d)[r].group
  BY DEF DeviceOf, EntryOf, EntryAt, Stated, PlaceOf, GroupOf
<1>4. tag = TagAt(file, p)
  BY <1>2, TagOfPlace DEF Accepts, PlaceOf
<1> HIDE DEF p
<1>5. /\ c \in DOMAIN file.channels /\ d \in DOMAIN file.channels[c].devices
      /\ r \in DOMAIN Stated(file, c, d) /\ p = <<c, d, r>>
  <2>1. PICK y \in DeviceSet(file) :
           p \in {<<y[1], y[2], s>> : s \in DOMAIN file.channels[y[1]].devices[y[2]].registers}
    BY <1>2 DEF EntrySet
  <2>2. PICK a \in DOMAIN file.channels : y \in {<<a, b>> : b \in DOMAIN file.channels[a].devices}
    BY DEF DeviceSet
  <2>3. PICK b \in DOMAIN file.channels[a].devices : y = <<a, b>>
    BY <2>2
  <2>4. PICK s \in DOMAIN file.channels[a].devices[b].registers : p = <<a, b, s>>
    BY <2>1, <2>3
  <2>5. c = a /\ d = b /\ r = s
    BY <2>4
  <2> QED
    BY <2>2, <2>3, <2>4, <2>5 DEF Stated
<1> HIDE DEF c, d, r
<1>6. /\ Resolved(file, c, d)[r].tag = TagAt(file, <<c, d, r>>)
      /\ Resolved(file, c, d)[r].group \in DOMAIN file.groups
      /\ file.groups[Resolved(file, c, d)[r].group].id = Stated(file, c, d)[r].group
  BY <1>5, ResolvedAs
<1> QED
  BY <1>3, <1>4, <1>5, <1>6 DEF p, c, d, r

\* What resolution makes of the registers of one device.
LEMMA ResolvedRegisters ==
    ASSUME Accepts(file), NEW c \in DOMAIN file.channels,
           NEW d \in DOMAIN file.channels[c].devices
    PROVE  /\ SoundRegisters(Resolved(file, c, d))
           /\ DOMAIN Resolved(file, c, d) = DOMAIN Stated(file, c, d)
<1> DEFINE rs == Resolved(file, c, d)
           ss == Stated(file, c, d)
<1>1. /\ SoundRegisters(rs) /\ DOMAIN rs = DOMAIN ss
      /\ \A r \in DOMAIN ss : rs[r].tag = TagAt(file, <<c, d, r>>)
  BY ResolvedSound
<1> QED
  BY <1>1

\* The requests of one device and one group feed exactly its tags of that group.
LEMMA DeviceFeeds ==
    ASSUME Accepts(file), NEW c \in DOMAIN file.channels,
           NEW d \in DOMAIN file.channels[c].devices, NEW g
    PROVE  FeedsFrom(Transactions(Resolve(file)[c].devices[d], g), Resolved(file, c, d),
                     {s \in DOMAIN Resolved(file, c, d) : Resolved(file, c, d)[s].group = g})
<1> DEFINE dev == Resolve(file)[c].devices[d]
           rs == Resolved(file, c, d)
<1>1. dev.registers = rs
  BY DEF Resolved
<1>2. SoundRegisters(rs)
  BY ResolvedRegisters
<1> HIDE DEF dev, rs
<1>3. SoundRegisters(dev.registers)
  BY <1>1, <1>2
<1>4. FeedsFrom(Transactions(dev, g), dev.registers,
                {s \in DOMAIN dev.registers : dev.registers[s].group = g})
  BY <1>3, TransactionsFeed
<1>5. FeedsFrom(Transactions(dev, g), rs, {s \in DOMAIN rs : rs[s].group = g})
  BY <1>1, <1>4
<1> QED
  BY <1>5 DEF dev, rs

\* What the plan says of the tag of one of its fields.
LEMMA FieldParts ==
    ASSUME PlanInv, status = "running", NEW i \in DOMAIN plan,
           NEW k \in DOMAIN plan[i].txn.fields,
           NEW tag, tag = plan[i].txn.fields[k].tag
    PROVE  LET c == PlaceOf(tag)[1]
               d == PlaceOf(tag)[2]
           IN  /\ tag \in DOMAIN EntryPlaces(file) /\ IsPolled(tag)
               /\ plan[i].dev = DeviceOf(tag) /\ plan[i].group = GroupOf(tag)
               /\ plan[i] \in Items(Resolve(file)[c].devices[d], GroupOf(tag))
<1> DEFINE c == PlaceOf(tag)[1]
           d == PlaceOf(tag)[2]
           r == PlaceOf(tag)[3]
           item == plan[i]
           f == item.txn.fields[k]
           dev == Resolve(file)[c].devices[d]
           T == Transactions(dev, item.group)
           rs == Resolved(file, c, d)
           S == {s \in DOMAIN rs : rs[s].group = item.group}
<1>1. Accepts(file) /\ Lists(plan, PlanItems(file))
  BY RunningPlan
<1>2. item \in PlanItems(file)
  BY <1>1 DEF Lists
<1>3. tag \in DOMAIN EntryPlaces(file) /\ item.dev = DeviceOf(tag)
  BY PlanRequests DEF OwnRequest, OwnField
<1>4. /\ c \in DOMAIN file.channels /\ d \in DOMAIN file.channels[c].devices
      /\ r \in DOMAIN Stated(file, c, d) /\ PlaceOf(tag) = <<c, d, r>>
      /\ DeviceOf(tag) = <<c, d>> /\ rs[r].tag = tag /\ GroupOf(tag) = rs[r].group
  BY <1>1, <1>3, TagParts
<1>5. /\ file.channels[c].enabled /\ file.channels[c].devices[d].enabled
      /\ item \in Items(dev, item.group)
  BY <1>1, <1>2, <1>3, <1>4, ItemOfDevice
<1>6. SoundRegisters(rs) /\ DOMAIN rs = DOMAIN Stated(file, c, d)
  BY <1>1, <1>4, ResolvedRegisters
<1>8. FeedsFrom(T, rs, S)
  <2>1. \A g : FeedsFrom(Transactions(dev, g), rs, {s \in DOMAIN rs : rs[s].group = g})
    BY <1>1, <1>4, DeviceFeeds
  <2> HIDE DEF dev, rs
  <2> QED
    BY ONLY <2>1
<1>9. item.index \in DOMAIN T /\ item.txn = T[item.index]
  BY ONLY <1>5, ItemsOf
<1> HIDE DEF item, dev, T, rs, S, c, d, r, f
<1>10. item.index \in 1..Len(T) /\ k \in 1..Len(T[item.index].fields)
  <2>1. IsSeq(T) /\ \A x \in 1..Len(T) : SoundTxn(T[x])
    BY <1>8 DEF FeedsFrom
  <2>2. item.index \in 1..Len(T)
    BY <1>9, <2>1, SeqElim
  <2>3. IsSeq(T[item.index].fields)
    BY <2>1, <2>2 DEF SoundTxn
  <2>4. k \in DOMAIN T[item.index].fields
    BY <1>9 DEF item
  <2> QED
    BY <2>2, <2>3, <2>4, SeqElim
<1>11. PICK s \in S : FieldOf(T[item.index], T[item.index].fields[k], rs[s])
  BY <1>8, <1>10 DEF FeedsFrom
<1>12. s \in DOMAIN rs /\ rs[s].group = item.group /\ rs[s].tag = tag
  BY <1>9, <1>11 DEF S, FieldOf, item
<1>13. s = r
  BY <1>4, <1>6, <1>12 DEF SoundRegisters
<1>14. item.group = GroupOf(tag)
  BY <1>4, <1>12, <1>13
<1>15. IsPolled(tag)
  <2>1. DeviceOf(tag)[1] = c /\ DeviceOf(tag)[2] = d
    BY <1>4
  <2> QED
    BY <1>5, <2>1 DEF IsPolled
<1> QED
  BY <1>3, <1>5, <1>14, <1>15 DEF item, dev, c, d

\* The parts of a poll request of a device.
LEMMA ItemsAt ==
    ASSUME NEW dev, NEW g, NEW item \in Items(dev, g)
    PROVE  /\ item.index \in DOMAIN Transactions(dev, g)
           /\ item.txn = Transactions(dev, g)[item.index]
           /\ item = ItemAt(dev, g, item.index)
<1>1. PICK x \in DOMAIN Transactions(dev, g) :
         item = [dev |-> dev.id, group |-> g, index |-> x, txn |-> Transactions(dev, g)[x]]
  BY DEF Items
<1> QED
  BY <1>1 DEF ItemAt

\* No two fields of the plan feed one tag.
LEMMA FieldUnique ==
    ASSUME PlanInv, status = "running",
           NEW i \in DOMAIN plan, NEW k \in DOMAIN plan[i].txn.fields,
           NEW j \in DOMAIN plan, NEW l \in DOMAIN plan[j].txn.fields,
           plan[i].txn.fields[k].tag = plan[j].txn.fields[l].tag
    PROVE  i = j /\ k = l
<1> DEFINE tag == plan[i].txn.fields[k].tag
           c == PlaceOf(tag)[1]
           d == PlaceOf(tag)[2]
           dev == Resolve(file)[c].devices[d]
           g == GroupOf(tag)
           T == Transactions(dev, g)
           rs == Resolved(file, c, d)
           S == {s \in DOMAIN rs : rs[s].group = g}
           x == plan[i].index
           y == plan[j].index
<1>1. Accepts(file) /\ Lists(plan, PlanItems(file))
  BY RunningPlan
<1>2. tag \in DOMAIN EntryPlaces(file) /\ plan[i] \in Items(dev, g)
  BY FieldParts
<1>3. plan[j] \in Items(dev, g)
  <2>1. tag = plan[j].txn.fields[l].tag
    OBVIOUS
  <2> HIDE DEF tag
  <2> QED
    BY <2>1, FieldParts
<1>4. /\ x \in DOMAIN T /\ plan[i].txn = T[x] /\ y \in DOMAIN T /\ plan[j].txn = T[y]
      /\ plan[i] = ItemAt(dev, g, x) /\ plan[j] = ItemAt(dev, g, y)
  <2> HIDE DEF tag, c, d, dev, g
  <2>1. x \in DOMAIN T /\ plan[i].txn = T[x] /\ plan[i] = ItemAt(dev, g, x)
    BY ONLY <1>2, ItemsAt
  <2>2. y \in DOMAIN T /\ plan[j].txn = T[y] /\ plan[j] = ItemAt(dev, g, y)
    BY ONLY <1>3, ItemsAt
  <2> QED
    BY ONLY <2>1, <2>2
<1>5. c \in DOMAIN file.channels /\ d \in DOMAIN file.channels[c].devices
  BY <1>1, <1>2, TagParts
<1>7. FeedsFrom(T, rs, S)
  BY <1>1, <1>5, DeviceFeeds
<1>8. /\ T[x].fields[k].tag = T[y].fields[l].tag
      /\ k \in DOMAIN T[x].fields /\ l \in DOMAIN T[y].fields
  BY <1>4
<1> HIDE DEF tag, c, d, dev, g, T, rs, S, x, y
<1>9. OnceEach(T) /\ IsSeq(T) /\ \A z \in 1..Len(T) : SoundTxn(T[z])
  BY <1>7 DEF FeedsFrom
<1>10. x \in 1..Len(T) /\ y \in 1..Len(T)
  BY <1>4, <1>9, SeqElim
<1>11. IsSeq(T[x].fields) /\ IsSeq(T[y].fields)
  BY <1>9, <1>10 DEF SoundTxn
<1>12. k \in 1..Len(T[x].fields) /\ l \in 1..Len(T[y].fields)
  BY <1>8, <1>11, SeqElim
<1>13. x = y /\ k = l
  BY ONLY <1>8, <1>9, <1>10, <1>12, OnlyOnce
<1>14. plan[i] = plan[j]
  BY ONLY <1>4, <1>13
<1> QED
  BY <1>1, <1>13, <1>14 DEF Lists

\* A polled tag has a field.
LEMMA FieldExists ==
    ASSUME PlanInv, status = "running", NEW tag \in DOMAIN EntryPlaces(file), IsPolled(tag)
    PROVE  \E i \in DOMAIN plan : \E k \in DOMAIN plan[i].txn.fields :
              plan[i].txn.fields[k].tag = tag
<1> DEFINE c == PlaceOf(tag)[1]
           d == PlaceOf(tag)[2]
           r == PlaceOf(tag)[3]
           dev == Resolve(file)[c].devices[d]
           g == GroupOf(tag)
           T == Transactions(dev, g)
           rs == Resolved(file, c, d)
           S == {s \in DOMAIN rs : rs[s].group = g}
<1>1. Accepts(file) /\ Lists(plan, PlanItems(file))
  BY RunningPlan
<1>2. /\ c \in DOMAIN file.channels /\ d \in DOMAIN file.channels[c].devices
      /\ r \in DOMAIN Stated(file, c, d)
      /\ DeviceOf(tag) = <<c, d>> /\ rs[r].tag = tag /\ g = rs[r].group
  BY <1>1, TagParts
<1>3. file.channels[c].enabled /\ file.channels[c].devices[d].enabled
  <2>1. DeviceOf(tag)[1] = c /\ DeviceOf(tag)[2] = d
    BY <1>2
  <2> QED
    BY <2>1 DEF IsPolled
<1>4. DOMAIN rs = DOMAIN Stated(file, c, d)
  BY <1>1, <1>2, ResolvedRegisters
<1>5. FeedsFrom(T, rs, S)
  BY <1>1, <1>2, DeviceFeeds
<1> HIDE DEF rs, T
<1>6. r \in S
  BY <1>2, <1>4
<1>7. /\ IsSeq(T) /\ \A x \in 1..Len(T) : SoundTxn(T[x])
      /\ \A s \in S : \E x \in 1..Len(T) : \E k \in 1..Len(T[x].fields) :
            T[x].fields[k].tag = rs[s].tag
  BY <1>5 DEF FeedsFrom
<1> HIDE DEF S
<1>8. PICK x \in 1..Len(T) : \E k \in 1..Len(T[x].fields) : T[x].fields[k].tag = tag
  BY <1>2, <1>6, <1>7
<1>9. PICK k \in 1..Len(T[x].fields) : T[x].fields[k].tag = tag
  BY <1>8
<1>10. x \in DOMAIN T /\ k \in DOMAIN T[x].fields
  <2>1. IsSeq(T[x].fields)
    BY <1>7 DEF SoundTxn
  <2> QED
    BY <1>7, <2>1, SeqElim
<1>11. ItemAt(dev, g, x) \in PlanItems(file)
  <2>1. ItemAt(dev, g, x) \in Items(dev, g)
    BY <1>10 DEF Items, ItemAt, T
  <2> QED
    BY <1>1, <1>2, <1>3, <2>1, PlanItemOf
<1>12. PICK i \in DOMAIN plan : plan[i] = ItemAt(dev, g, x)
  BY <1>1, <1>11 DEF Lists
<1>13. plan[i].txn = T[x]
  BY <1>12 DEF ItemAt, T
<1> QED
  BY <1>9, <1>10, <1>13

\* In the compiled plan every polled tag has exactly one field (EachTagOnce).
LEMMA PlanOnce == OwnInv => EachTagOnce
<1> SUFFICES ASSUME OwnInv, NEW tag \in DOMAIN cache
             PROVE  LET places == {p \in FieldPlaces : plan[p[1]].txn.fields[p[2]].tag = tag}
                    IN  /\ Cardinality(places) =
                              IF status = "running" /\ IsPolled(tag) THEN 1 ELSE 0
                        /\ \A p \in places :
                              /\ plan[p[1]].dev = DeviceOf(tag)
                              /\ file.groups[plan[p[1]].group].id = EntryOf(tag).group
  BY DEF EachTagOnce
<1> DEFINE places == {p \in FieldPlaces : plan[p[1]].txn.fields[p[2]].tag = tag}
<1>1. PlanInv /\ tag \in DOMAIN EntryPlaces(file)
  BY DEF OwnInv, CacheShape
<1>2. \A p : p \in places <=> \E i \in DOMAIN plan : \E k \in DOMAIN plan[i].txn.fields :
                               p = <<i, k>> /\ plan[i].txn.fields[k].tag = tag
  BY DEF FieldPlaces
<1> HIDE DEF places
<1>3. CASE status # "running"
  <2>1. plan = <<>>
    BY <1>1, <1>3 DEF PlanInv
  <2>2. places = {}
    BY <1>2, <2>1
  <2> QED
    BY <1>3, <2>2, FS_EmptySet DEF places
<1>4. CASE status = "running"
  <2>1. Accepts(file)
    BY <1>1, <1>4, RunningPlan
  <2>2. ASSUME NEW p \in places
        PROVE  /\ IsPolled(tag) /\ plan[p[1]].dev = DeviceOf(tag)
               /\ file.groups[plan[p[1]].group].id = EntryOf(tag).group
    <3>1. PICK i \in DOMAIN plan : \E k \in DOMAIN plan[i].txn.fields :
             p = <<i, k>> /\ plan[i].txn.fields[k].tag = tag
      BY <1>2
    <3>2. PICK k \in DOMAIN plan[i].txn.fields : p = <<i, k>> /\ plan[i].txn.fields[k].tag = tag
      BY <3>1
    <3>3. IsPolled(tag) /\ plan[i].dev = DeviceOf(tag) /\ plan[i].group = GroupOf(tag)
      BY <1>1, <1>4, <3>2, FieldParts
    <3>4. file.groups[GroupOf(tag)].id = EntryOf(tag).group
      BY <1>1, <2>1, TagParts
    <3>5. p[1] = i
      BY <3>2
    <3> QED
      BY <3>3, <3>4, <3>5
  <2>3. ASSUME NEW p \in places, NEW q \in places PROVE p = q
    <3>1. PICK i \in DOMAIN plan : \E k \in DOMAIN plan[i].txn.fields :
             p = <<i, k>> /\ plan[i].txn.fields[k].tag = tag
      BY <1>2
    <3>2. PICK k \in DOMAIN plan[i].txn.fields : p = <<i, k>> /\ plan[i].txn.fields[k].tag = tag
      BY <3>1
    <3>3. PICK j \in DOMAIN plan : \E l \in DOMAIN plan[j].txn.fields :
             q = <<j, l>> /\ plan[j].txn.fields[l].tag = tag
      BY <1>2
    <3>4. PICK l \in DOMAIN plan[j].txn.fields : q = <<j, l>> /\ plan[j].txn.fields[l].tag = tag
      BY <3>3
    <3>5. i = j /\ k = l
      BY <1>1, <1>4, <3>2, <3>4, FieldUnique
    <3> QED
      BY <3>2, <3>4, <3>5
  <2>4. CASE IsPolled(tag)
    <3>1. PICK i \in DOMAIN plan : \E k \in DOMAIN plan[i].txn.fields :
             plan[i].txn.fields[k].tag = tag
      BY <1>1, <1>4, <2>4, FieldExists
    <3>2. PICK k \in DOMAIN plan[i].txn.fields : plan[i].txn.fields[k].tag = tag
      BY <3>1
    <3> DEFINE p == <<i, k>>
    <3>3. p \in places
      BY <1>2, <3>2
    <3> HIDE DEF p
    <3>4. places = {p}
      BY <2>3, <3>3
    <3>5. Cardinality(places) = 1
      BY <3>4, FS_Singleton
    <3> QED
      BY <1>4, <2>2, <2>4, <3>5 DEF places
  <2>5. CASE ~IsPolled(tag)
    <3>1. places = {}
      BY <2>2, <2>5
    <3>2. Cardinality(places) = 0
      BY <3>1, FS_EmptySet
    <3> QED
      BY <2>2, <2>5, <3>2 DEF places
  <2> QED
    BY <2>4, <2>5
<1> QED
  BY <1>3, <1>4

\* For every configuration the plan covers: requests Modbus can carry, each polled tag once, and
\* as many requests as the bus-load rule charges (PlanCovers; coalesce.rs:33-66, plan.rs:90-189,
\* validate.rs:529-714).
THEOREM PlanCoversAlways == Spec => []PlanCovers
<1>1. Init => OwnInv
  BY InitOwnInv
<1>2. OwnInv /\ [Next]_vars => OwnInv'
  BY StepKeepsOwn
<1>3. OwnInv => PlanCovers
  BY PlanFits, PlanOnce, PlanCharged DEF OwnInv, PlanCovers
<1> QED
  BY <1>1, <1>2, <1>3, PTL DEF Spec
=============================================================================
