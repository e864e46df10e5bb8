---------------------------- MODULE CommonLemmas ---------------------------
(***************************************************************************)
(* Least and greatest elements of sets of naturals, for the scans that     *)
(* stop at the first or look for the last; and sequences joined one after  *)
(* the other, as FlattenSeq does.                                          *)
(***************************************************************************)
EXTENDS Integers, SequencesExt, SequenceTheorems, WellFoundedInduction, TLAPS

\* A set of naturals has a least element.
LEMMA Least ==
  ASSUME NEW S \in SUBSET Nat, S # {}
  PROVE  \E m \in S : \A x \in S : m <= x
<1>1. PICK m \in S : \A x \in S : <<x, m>> \notin OpToRel(<, Nat)
  BY WFMin, NatLessThanWellFounded, Zenon
<1>2. \A x \in Nat : x < m => <<x, m>> \in OpToRel(<, Nat)
  BY Zenon DEF OpToRel
<1>3. \A x \in S : m \in Nat /\ x \in Nat /\ ~(x < m)
  BY <1>1, <1>2, Zenon
<1> QED
  BY <1>3

\* A set of naturals with a bound has a greatest element.
LEMMA Greatest ==
  ASSUME NEW S, NEW n \in Nat, S \subseteq 0..n, S # {}
  PROVE  \E m \in S : \A x \in S : x <= m
<1> DEFINE D == {n - x : x \in S}
<1>1. \A x \in S : n - x \in Nat
  OBVIOUS
<1>2. D \in SUBSET Nat /\ D # {}
  BY <1>1
<1>3. PICK d \in D : \A e \in D : d <= e
  BY <1>2, Least, Zenon
<1>4. PICK m \in S : d = n - m
  BY <1>3
<1>5. \A x \in S : x <= m
  <2> TAKE x \in S
  <2>1. d <= n - x
    BY <1>3
  <2> QED
    BY <1>4, <2>1
<1> QED
  BY <1>5
-----------------------------------------------------------------------------
(* Joined sequences.                                                       *)

\* The results of joining more and more of some sequences.
IsFlat(ss, n, f) ==
  f = [i \in 1..n |-> IF i = 1 THEN ss[i] ELSE f[i - 1] \o ss[i]]

Joins(ss, f) == f[1] = ss[1] /\ \A i \in 2..Len(ss) : f[i] = f[i - 1] \o ss[i]

\* The recursion over the sequences has a value.
LEMMA FlatExists ==
  ASSUME NEW ss, NEW n \in Nat
  PROVE  \E f : IsFlat(ss, n, f)
<1> DEFINE Bad == {m \in Nat : ~\E f : IsFlat(ss, m, f)}
<1>1. SUFFICES ASSUME Bad # {} PROVE FALSE
  OBVIOUS
<1>2. PICK m \in Bad : \A x \in Bad : m <= x
  BY <1>1, Least, Zenon
<1>3. CASE m = 0
  <2>1. IsFlat(ss, 0, [k \in 1..0 |-> <<>>])
    BY DEF IsFlat
  <2> QED
    BY <1>2, <1>3, <2>1
<1>4. CASE m # 0
  <2>1. m - 1 \in Nat /\ m - 1 \notin Bad
    BY <1>2, <1>4
  <2>2. PICK g : IsFlat(ss, m - 1, g)
    BY <2>1
  <2>3. \A k \in 1..(m - 1) : g[k] = IF k = 1 THEN ss[k] ELSE g[k - 1] \o ss[k]
    BY <2>2 DEF IsFlat
  <2> DEFINE f == [k \in 1..m |-> IF k = m THEN IF m = 1 THEN ss[m] ELSE g[m - 1] \o ss[m]
                                           ELSE g[k]]
             h == [k \in 1..m |-> IF k = 1 THEN ss[k] ELSE f[k - 1] \o ss[k]]
  <2>4. \A k \in 1..m : f[k] = h[k]
    <3> TAKE k \in 1..m
    <3>1. CASE k # m /\ k = 1
      <4>1. k \in 1..(m - 1)
        BY <1>2, <3>1
      <4> QED
        BY <2>3, <3>1, <4>1
    <3>2. CASE k # m /\ k # 1
      <4>1. k \in 1..(m - 1) /\ k - 1 \in 1..m /\ k - 1 # m
        BY <1>2, <3>2
      <4>2. f[k] = g[k] /\ f[k - 1] = g[k - 1]
        BY <3>2, <4>1
      <4>3. g[k] = g[k - 1] \o ss[k]
        BY <2>3, <3>2, <4>1
      <4>4. h[k] = f[k - 1] \o ss[k]
        BY <3>2
      <4> QED
        BY <4>2, <4>3, <4>4
    <3>3. CASE k = m /\ m = 1
      BY <3>3
    <3>4. CASE k = m /\ m # 1
      <4>1. m - 1 \in 1..m /\ m - 1 # m
        BY <1>2, <2>1, <3>4
      <4>2. f[m - 1] = g[m - 1] /\ f[k] = g[m - 1] \o ss[m]
        BY <3>4, <4>1
      <4>3. h[k] = f[m - 1] \o ss[m]
        BY <3>4
      <4> QED
        BY <4>2, <4>3
    <3> QED
      BY <3>1, <3>2, <3>3, <3>4
  <2>5. f = h
    BY <2>4, Zenon
  <2>6. IsFlat(ss, m, f)
    BY <2>5, Zenon DEF IsFlat
  <2> QED
    BY <1>2, <2>6
<1> QED
  BY <1>3, <1>4

\* FlattenSeq joins one sequence after the other.
LEMMA FlattenStepwise ==
  ASSUME NEW ss, Len(ss) \in Nat \ {0}
  PROVE  \E f : Joins(ss, f) /\ FlattenSeq(ss) = f[Len(ss)]
<1>1. PICK g : IsFlat(ss, Len(ss), g)
  BY FlatExists
<1>2. PICK f : IsFlat(ss, Len(ss), f) /\ FlattenSeq(ss) = f[Len(ss)]
  <2>1. Len(ss) # 0
    OBVIOUS
  <2> QED
    BY <1>1, <2>1, Zenon DEF FlattenSeq, IsFlat
<1>3. \A k \in 1..Len(ss) : f[k] = IF k = 1 THEN ss[k] ELSE f[k - 1] \o ss[k]
  BY <1>2 DEF IsFlat
<1>4. Joins(ss, f)
  <2>1. f[1] = ss[1]
    BY <1>3
  <2>2. \A k \in 2..Len(ss) : f[k] = f[k - 1] \o ss[k]
    <3> TAKE k \in 2..Len(ss)
    <3>1. k \in 1..Len(ss) /\ k # 1
      OBVIOUS
    <3> QED
      BY <1>3, <3>1
  <2> QED
    BY <2>1, <2>2 DEF Joins
<1> QED
  BY <1>2, <1>4

\* Joined sequences are sequences.
LEMMA JoinsType ==
  ASSUME NEW S, NEW ss \in Seq(Seq(S)), NEW f, Joins(ss, f)
  PROVE  \A i \in 1..Len(ss) : f[i] \in Seq(S)
<1>0. Len(ss) \in Nat /\ \A i \in 1..Len(ss) : ss[i] \in Seq(S)
  OBVIOUS
<1> DEFINE Bad == {i \in 1..Len(ss) : f[i] \notin Seq(S)}
<1>1. SUFFICES ASSUME Bad # {} PROVE FALSE
  OBVIOUS
<1>2. Bad \in SUBSET Nat
  BY <1>0
<1>3. PICK m \in Bad : \A x \in Bad : m <= x
  BY <1>1, <1>2, Least, Zenon
<1>4. m # 1
  BY <1>0, <1>3 DEF Joins
<1>5. m \in 2..Len(ss) /\ m \in 1..Len(ss) /\ m - 1 \in 1..Len(ss) /\ ~(m <= m - 1)
  BY <1>0, <1>3, <1>4
<1>6. f[m - 1] \in Seq(S) /\ ss[m] \in Seq(S)
  BY <1>0, <1>3, <1>5
<1>7. f[m - 1] \o ss[m] \in Seq(S)
  BY <1>6, ConcatProperties
<1> QED
  BY <1>3, <1>5, <1>7 DEF Joins

\* Nothing joined is nothing.
LEMMA FlattenEmpty == FlattenSeq(<<>>) = <<>>
BY DEF FlattenSeq

\* The parts of a concatenation are joined to a sequence.
LEMMA FlattenType ==
  ASSUME NEW S, NEW p \in Seq(Seq(S))
  PROVE  FlattenSeq(p) \in Seq(S)
<1>1. CASE p = <<>>
  BY <1>1, FlattenEmpty, EmptySeq
<1>2. CASE p # <<>>
  <2>1. Len(p) \in Nat \ {0}
    BY <1>2, EmptySeq
  <2>2. PICK f : Joins(p, f) /\ FlattenSeq(p) = f[Len(p)]
    BY <2>1, FlattenStepwise
  <2>3. \A i \in 1..Len(p) : f[i] \in Seq(S)
    BY <2>2, JoinsType
  <2> QED
    BY <2>1, <2>2, <2>3
<1> QED
  BY <1>1, <1>2
=============================================================================
