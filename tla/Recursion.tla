------------------------------ MODULE Recursion -------------------------------
(***************************************************************************)
(* What the proofs use of the natural numbers and of sequences: a least       *)
(* element, induction up to a number or along a sequence, and that a recursion *)
(* along 0 .. N has a solution.  A recursive function is a CHOOSE, so this      *)
(* comes before any of its equations.                                       *)
(***************************************************************************)
EXTENDS Integers, FiniteSetsExt, SequenceTheorems, NaturalsInduction, WellFoundedInduction, TLAPS

-----------------------------------------------------------------------------
(* A set of numbers has a least one. *)
LEMMA LeastNatural ==
  ASSUME NEW S, S \subseteq Nat, S # {}
  PROVE  \E n \in S : \A m \in S : n <= m
<1>1. PICK n \in S : \A m \in S : <<m, n>> \notin OpToRel(<, Nat)
  BY NatLessThanWellFounded, WFMin
<1>2. ASSUME NEW m \in S
      PROVE  n <= m
  <2>1. <<m, n>> \notin {ss \in Nat \X Nat : ss[1] < ss[2]}
    BY <1>1 DEF OpToRel
  <2> QED BY <2>1
<1> QED BY <1>2

(* Induction up to N, for the set of the numbers of which something holds. *)
LEMMA Steps ==
  ASSUME NEW N \in Nat, NEW S, 0 \in S, \A n \in 1 .. N : n - 1 \in S => n \in S
  PROVE  \A n \in 0 .. N : n \in S
<1> DEFINE Bad == {n \in 0 .. N : n \notin S}
<1>1. Bad = {}
  <2> SUFFICES ASSUME Bad # {} PROVE FALSE
    OBVIOUS
  <2>1. PICK n \in Bad : \A m \in Bad : n <= m
    <3>1. Bad \subseteq Nat  OBVIOUS
    <3> HIDE DEF Bad
    <3> QED BY <3>1, LeastNatural
  <2>2. n \in 1 .. N /\ n \notin S
    OBVIOUS
  <2>3. n - 1 \in 0 .. N /\ n - 1 \notin Bad
    BY <2>1, <2>2
  <2> QED BY <2>2, <2>3
<1> QED BY <1>1

(* The runs of a step from b on, N steps long. *)
Runs(B, b, N, step) ==
  {f \in [0 .. N -> B] : f[0] = b /\ \A i \in 1 .. N : f[i] = step[<<f[i - 1], i>>]}

LEMMA Iteration ==
  ASSUME NEW B, NEW b \in B, NEW N \in Nat, NEW step \in [B \X (1 .. N) -> B]
  PROVE  Runs(B, b, N, step) # {}
<1> DEFINE Prefix(n) == {f \in [0 .. n -> B] :
                           f[0] = b /\ \A i \in 1 .. n : f[i] = step[<<f[i - 1], i>>]}
           Bad == {n \in 0 .. N : Prefix(n) = {}}
<1>1. Bad = {}
  <2> SUFFICES ASSUME Bad # {} PROVE FALSE
    OBVIOUS
  <2>1. PICK n \in Bad : \A m \in Bad : n <= m
    <3>1. Bad \subseteq Nat  OBVIOUS
    <3> HIDE DEF Bad
    <3> QED BY <3>1, LeastNatural
  <2>2. n \in 0 .. N /\ Prefix(n) = {}
    OBVIOUS
  <2>3. n # 0
    <3>1. [i \in 0 .. 0 |-> b] \in Prefix(0)
      OBVIOUS
    <3> QED BY <2>2, <3>1
  <2>4. n - 1 \in 0 .. N /\ n - 1 \notin Bad
    BY <2>1, <2>2, <2>3
  <2>5. PICK f : f \in Prefix(n - 1)
    <3>1. Prefix(n - 1) # {}
      BY <2>4
    <3> HIDE DEF Prefix
    <3> QED BY <3>1
  <2> DEFINE g == [i \in 0 .. n |-> IF i < n THEN f[i] ELSE step[<<f[n - 1], n>>]]
  <2>6. step[<<f[n - 1], n>>] \in B
    BY <2>2, <2>3, <2>5
  <2>7. g \in [0 .. n -> B] /\ g[0] = b
    BY <2>2, <2>3, <2>5, <2>6
  <2>8. ASSUME NEW i \in 1 .. n
        PROVE  g[i] = step[<<g[i - 1], i>>]
    <3>1. CASE i < n
      BY <2>2, <2>5, <3>1
    <3>2. CASE i = n
      <4>1. g[n - 1] = f[n - 1] /\ n - 1 \in 0 .. n - 1
        BY <2>2, <2>3
      <4>2. g[n] = step[<<f[n - 1], n>>]
        BY <2>2
      <4> QED BY <3>2, <4>1, <4>2
    <3> QED BY <2>2, <3>1, <3>2
  <2> HIDE DEF g
  <2>9. g \in Prefix(n)
    BY <2>7, <2>8
  <2> QED BY <2>2, <2>9
<1>2. Prefix(N) # {}
  <2>1. N \notin Bad
    BY <1>1
  <2> QED BY <2>1
<1> QED BY <1>2, Zenon DEF Runs

LEMMA MinOf ==
  ASSUME NEW S, S \subseteq Nat, S # {}
  PROVE  Min(S) \in S /\ \A n \in S : Min(S) <= n
BY LeastNatural DEF Min
-----------------------------------------------------------------------------
(* Sequences, item by item and put together. *)
LEMMA PrefixGrows ==
  ASSUME NEW C, NEW s \in Seq(C), NEW n \in 1 .. Len(s)
  PROVE  /\ s[n] \in C /\ SubSeq(s, 1, n - 1) \in Seq(C)
         /\ SubSeq(s, 1, n) = Append(SubSeq(s, 1, n - 1), s[n])
<1>1. SubSeq(s, 1, n - 1) \in Seq(C) /\ s[n] \in C
  OBVIOUS
<1> DEFINE a == SubSeq(s, 1, n)
           d == Append(SubSeq(s, 1, n - 1), s[n])
<1>2. a \in Seq(C) /\ Len(a) = n /\ \A i \in 1 .. n : a[i] = s[i]
  OBVIOUS
<1>3. d \in Seq(C) /\ Len(d) = n /\ \A i \in 1 .. n : d[i] = s[i]
  BY <1>1
<1> HIDE DEF a, d
<1>4. a = d
  BY <1>2, <1>3, SeqEqual
<1> QED BY <1>1, <1>4 DEF a, d

LEMMA AppendAfter ==
  ASSUME NEW C, NEW s \in Seq(C), NEW t \in Seq(C), NEW c \in C
  PROVE  /\ s \o t \in Seq(C) /\ Append(t, c) \in Seq(C)
         /\ s \o Append(t, c) = Append(s \o t, c)
<1> DEFINE a == s \o Append(t, c)
           d == Append(s \o t, c)
<1>1. a \in Seq(C) /\ d \in Seq(C) /\ Len(a) = Len(s) + Len(t) + 1 /\ Len(d) = Len(a)
  OBVIOUS
<1>2. \A i \in 1 .. Len(a) : a[i] = d[i]
  OBVIOUS
<1>3. a = d
  <2> HIDE DEF a, d
  <2> QED BY <1>1, <1>2, SeqEqual
<1> QED BY <1>3

LEMMA AfterFirst ==
  ASSUME NEW C, NEW s \in Seq(C), NEW t \in Seq(C)
  PROVE  SubSeq(s \o t, Len(s) + 1, Len(s \o t)) = t
<1> DEFINE n == Len(s)
           m == Len(t)
           u == s \o t
<1>1. n \in Nat /\ m \in Nat /\ u \in Seq(C) /\ Len(u) = n + m
  OBVIOUS
<1>2. \A j \in 1 .. n + m : j > n => u[j] = t[j - n]
  OBVIOUS
<1> HIDE DEF n, m, u
<1> DEFINE a == SubSeq(u, n + 1, n + m)
<1>3. a \in Seq(C) /\ Len(a) = m
  BY <1>1
<1>4. ASSUME NEW i \in 1 .. m
      PROVE  a[i] = t[i]
  <2>1. n + i \in 1 .. n + m /\ n + i > n /\ (n + i) - n = i /\ n + 1 + i - 1 = n + i
    BY <1>1
  <2>2. a[i] = u[n + 1 + i - 1]
    BY <1>1
  <2> QED BY <1>2, <2>1, <2>2
<1> HIDE DEF a
<1>5. a = t
  BY <1>3, <1>4, SeqEqual DEF m
<1> QED BY <1>1, <1>5 DEF a, n, u

(* Induction over sequences, for the set of those of which something holds. *)
LEMMA EverySequence ==
  ASSUME NEW C, NEW S, <<>> \in S, \A t \in Seq(C) : \A c \in C : t \in S => Append(t, c) \in S
  PROVE  \A s \in Seq(C) : s \in S
<1> SUFFICES ASSUME NEW s \in Seq(C) PROVE s \in S
  OBVIOUS
<1> DEFINE N == Len(s)
           M == {n \in 0 .. N : SubSeq(s, 1, n) \in S}
<1>1. N \in Nat /\ SubSeq(s, 1, 0) = <<>> /\ SubSeq(s, 1, N) = s
  OBVIOUS
<1>2. 0 \in M
  <2>1. SubSeq(s, 1, 0) \in S
    BY <1>1
  <2> QED BY <2>1
<1>3. ASSUME NEW n \in 1 .. N, n - 1 \in M
      PROVE  n \in M
  <2>1. SubSeq(s, 1, n - 1) \in Seq(C) /\ s[n] \in C
    BY PrefixGrows
  <2>2. SubSeq(s, 1, n) = Append(SubSeq(s, 1, n - 1), s[n])
    BY PrefixGrows
  <2>3. SubSeq(s, 1, n - 1) \in S
    BY <1>3
  <2>4. SubSeq(s, 1, n) \in S
    BY <2>1, <2>2, <2>3
  <2> QED BY <2>4
<1>4. \A n \in 0 .. N : n \in M
  <2> HIDE DEF M, N
  <2> QED BY <1>1, <1>2, <1>3, Steps
<1>5. N \in M
  BY <1>1, <1>4
<1> QED BY <1>1, <1>5
=============================================================================
