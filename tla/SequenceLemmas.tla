---------------------------- MODULE SequenceLemmas ----------------------------
(***************************************************************************)
(* What the proofs about bytes have in common: induction on natural        *)
(* numbers, which is stated for a set since the provers cannot instantiate *)
(* a predicate, iteration of a step, and what FlattenSeq does.             *)
(***************************************************************************)
EXTENDS Integers, Sequences, SequencesExt, SequenceTheorems,
        WellFoundedInduction, TLAPS

-----------------------------------------------------------------------------
(* Induction on natural numbers, for a set instead of a predicate          *)

\* A set of numbers that is not empty has a least one.
LEMMA Least ==
  ASSUME NEW T, T \subseteq Nat, T # {}
  PROVE  \E x \in T : \A y \in T : x <= y
<1>1. PICK x \in T : \A y \in T : ~(<<y, x>> \in OpToRel(<, Nat))
  BY WFMin, NatLessThanWellFounded
<1>2. \A y \in T : ~(y < x)
  BY <1>1 DEF OpToRel
<1>3. x \in Nat /\ \A y \in T : y \in Nat
  OBVIOUS
<1>4. \A y \in T : x <= y
  BY <1>2, <1>3
<1> QED BY <1>4

\* A set of numbers that holds 0 and the successor of each of its numbers
\* holds them all.
LEMMA InductionOnNat ==
  ASSUME NEW S, S \subseteq Nat, 0 \in S, \A n \in S : n + 1 \in S
  PROVE  S = Nat
<1>1. SUFFICES ASSUME S # Nat PROVE FALSE
  OBVIOUS
<1>2. PICK x \in Nat \ S : \A y \in Nat \ S : x <= y
  BY <1>1, Least
<1>3. x # 0 /\ x \in Nat
  OBVIOUS
<1>4. x - 1 \in Nat /\ x - 1 < x
  BY <1>3
<1>5. x - 1 \in S
  BY <1>2, <1>4
<1>6. (x - 1) + 1 \in S
  BY <1>5
<1> QED BY <1>3, <1>6

\* g is what n steps make of v
Iterates(g, V, v, step, n) ==
  /\ g \in [0 .. n -> V]
  /\ g[0] = v
  /\ \A i \in 0 .. n - 1 : g[i + 1] = step[i][g[i]]

\* Steps that map V to V can be iterated.
LEMMA Iteration ==
  ASSUME NEW V, NEW v \in V, NEW step \in [Nat -> [V -> V]]
  PROVE  \A n \in Nat : \E g : Iterates(g, V, v, step, n)
<1> DEFINE Is(g, n) == g[0] = v /\ \A i \in 0 .. n - 1 : g[i + 1] = step[i][g[i]]
           S == {n \in Nat : \E g \in [0 .. n -> V] : Is(g, n)}
<1>1. 0 \in S
  <2>1. [i \in 0 .. 0 |-> v] \in [0 .. 0 -> V] /\ Is([i \in 0 .. 0 |-> v], 0)
    OBVIOUS
  <2> QED BY <2>1
<1>2. \A n \in S : n + 1 \in S
  <2>1. SUFFICES ASSUME NEW n \in S PROVE n + 1 \in S
    OBVIOUS
  <2>2. PICK g \in [0 .. n -> V] : Is(g, n)
    OBVIOUS
  <2> DEFINE h == [i \in 0 .. n + 1 |-> IF i <= n THEN g[i] ELSE step[n][g[n]]]
  <2>3. n \in Nat /\ step[n] \in [V -> V] /\ g[n] \in V
    OBVIOUS
  <2>4. h \in [0 .. n + 1 -> V]
    BY <2>3
  <2>5. h[0] = v
    BY <2>2, <2>3
  <2>6. ASSUME NEW i \in 0 .. (n + 1) - 1 PROVE h[i + 1] = step[i][h[i]]
    <3>1. CASE i = n
      BY <3>1, <2>3
    <3>2. CASE i # n
      <4>1. i \in 0 .. n - 1 /\ i + 1 \in 0 .. n /\ i \in 0 .. n
        BY <3>2, <2>3
      <4>2. h[i + 1] = g[i + 1] /\ h[i] = g[i]
        BY <4>1, <2>3
      <4> QED BY <4>1, <4>2, <2>2
    <3> QED BY <3>1, <3>2
  <2>7. Is(h, n + 1)
    BY <2>5, <2>6
  <2>8. n + 1 \in Nat /\ \E z \in [0 .. n + 1 -> V] : Is(z, n + 1)
    <3> HIDE DEF h, Is
    <3> QED BY <2>3, <2>4, <2>7
  <2> QED BY <2>8
<1>3. S = Nat
  <2> HIDE DEF Is
  <2> SUFFICES S \subseteq Nat
    <3> HIDE DEF S
    <3> QED BY <1>1, <1>2, InductionOnNat
  <2> QED OBVIOUS
<1>4. SUFFICES ASSUME NEW n \in Nat PROVE \E g : Iterates(g, V, v, step, n)
  OBVIOUS
<1>5. PICK g \in [0 .. n -> V] : Is(g, n)
  BY <1>3
<1>6. Iterates(g, V, v, step, n)
  BY <1>5 DEF Iterates
<1> QED BY <1>6

-----------------------------------------------------------------------------
(* Flattened sequences                                                     *)

\* Sequences that can be concatenated without leaving W
Sequences(W) ==
  /\ <<>> \in W
  /\ \A x, y \in W : x \o y \in W
  /\ \A x, y, z \in W : (x \o y) \o z = x \o (y \o z)
  /\ \A x \in W : <<>> \o x = x /\ x \o <<>> = x

\* f is the function by which FlattenSeq(s) is defined
Flattens(f, s) ==
  f = [i \in 1 .. Len(s) |-> IF i = 1 THEN s[i] ELSE f[i - 1] \o s[i]]

\* There is such a function, and FlattenSeq gives its last value.
LEMMA FlattenSeqIs ==
  ASSUME NEW W, Sequences(W), NEW s \in Seq(W), s # <<>>
  PROVE  \E f \in [1 .. Len(s) -> W] : Flattens(f, s) /\ FlattenSeq(s) = f[Len(s)]
<1> DEFINE n == Len(s)
           step == [i \in Nat |-> [x \in W |->
                      IF i + 2 \in 1 .. n THEN x \o s[i + 2] ELSE x]]
<1>1. n \in Nat /\ n # 0 /\ \A i \in 1 .. n : s[i] \in W
  OBVIOUS
<1>2. step \in [Nat -> [W -> W]]
  BY <1>1 DEF Sequences
<1>3. PICK g \in [0 .. n - 1 -> W] :
        g[0] = s[1] /\ \A i \in 0 .. (n - 1) - 1 : g[i + 1] = step[i][g[i]]
  <2>1. n - 1 \in Nat /\ s[1] \in W
    BY <1>1
  <2>2. PICK g : Iterates(g, W, s[1], step, n - 1)
    <3> HIDE DEF n, step
    <3> QED BY <1>2, <2>1, Iteration
  <2> HIDE DEF n, step
  <2> QED BY <2>2 DEF Iterates
<1> DEFINE f == [i \in 1 .. n |-> g[i - 1]]
<1>4. f \in [1 .. n -> W]
  BY <1>1
<1>5. ASSUME NEW i \in 1 .. n
      PROVE  f[i] = IF i = 1 THEN s[i] ELSE f[i - 1] \o s[i]
  <2>1. CASE i = 1
    BY <2>1, <1>3
  <2>2. CASE i # 1
    <3>1. i - 2 \in 0 .. (n - 1) - 1 /\ i - 2 \in Nat /\ (i - 2) + 1 = i - 1
          /\ (i - 2) + 2 = i
      BY <2>2, <1>1
    <3>2. g[i - 1] = step[i - 2][g[i - 2]]
      BY <1>3, <3>1
    <3>3. g[i - 2] \in W
      <4>1. i - 2 \in 0 .. n - 1
        BY <3>1, <1>1
      <4> HIDE DEF n, step, f
      <4> QED BY <4>1
    <3>4. g[i - 1] = g[i - 2] \o s[i]
      BY <3>2, <3>3, <3>1
    <3>5. f[i] = g[i - 1] /\ f[i - 1] = g[i - 2]
      BY <2>2, <1>1
    <3> QED BY <3>4, <3>5, <2>2
  <2> QED BY <2>1, <2>2
<1>6. Flattens(f, s)
  <2> HIDE DEF n
  <2> SUFFICES f = [i \in 1 .. n |-> IF i = 1 THEN s[i] ELSE f[i - 1] \o s[i]]
    BY DEF Flattens, n
  <2> HIDE DEF f
  <2> QED BY <1>4, <1>5
<1> DEFINE c == CHOOSE c : c = [i \in 1 .. Len(s) |->
                                  IF i = 1 THEN s[i] ELSE c[i - 1] \o s[i]]
<1>7. FlattenSeq(s) = c[Len(s)]
  BY <1>1 DEF FlattenSeq
<1>8. Flattens(c, s)
  BY <1>6 DEF Flattens
<1>9. c \in [1 .. n -> W]
  <2> HIDE DEF c
  <2> DEFINE S == {k \in Nat : k \in 1 .. n => c[k] \in W}
  <2>1. 0 \in S
    OBVIOUS
  <2>2. ASSUME NEW k \in S PROVE k + 1 \in S
    <3>1. SUFFICES ASSUME k + 1 \in 1 .. n PROVE c[k + 1] \in W
      OBVIOUS
    <3>2. c[k + 1] = IF k + 1 = 1 THEN s[k + 1] ELSE c[(k + 1) - 1] \o s[k + 1]
      BY <1>8, <3>1 DEF Flattens
    <3>3. CASE k = 0
      BY <3>2, <3>3, <3>1, <1>1
    <3>4. CASE k # 0
      <4>1. k \in 1 .. n /\ (k + 1) - 1 = k /\ k + 1 # 1
        BY <3>4, <3>1, <1>1
      <4>2. c[k] \in W /\ s[k + 1] \in W
        BY <4>1, <3>1, <1>1
      <4>3. c[k + 1] = c[k] \o s[k + 1]
        BY <4>1, <3>2
      <4> QED BY <4>2, <4>3 DEF Sequences
    <3> QED BY <3>3, <3>4
  <2>3. S = Nat
    <3>1. S \subseteq Nat
      OBVIOUS
    <3> HIDE DEF S
    <3> QED BY <2>1, <2>2, <3>1, InductionOnNat
  <2>4. ASSUME NEW k \in 1 .. n PROVE c[k] \in W
    <3>1. k \in Nat
      BY <1>1
    <3>2. k \in S
      BY <3>1, <2>3
    <3> QED BY <3>2
  <2>5. c = [i \in 1 .. n |-> c[i]]
    BY <1>8 DEF Flattens
  <2> QED BY <2>4, <2>5
<1> QED
  <2> HIDE DEF c
  <2> QED BY <1>7, <1>8, <1>9

\* No sequences make the empty one.
LEMMA FlattenSeqEmpty == FlattenSeq(<<>>) = <<>>
  BY DEF FlattenSeq

\* A flattened sequence of members of W is in W.
LEMMA FlattenSeqType ==
  ASSUME NEW W, Sequences(W), NEW s \in Seq(W)
  PROVE  FlattenSeq(s) \in W
<1>1. CASE s = <<>>
  <2>1. FlattenSeq(s) = <<>>
    BY <1>1 DEF FlattenSeq
  <2>2. <<>> \in W
    BY DEF Sequences
  <2> QED BY <2>1, <2>2
<1>2. CASE s # <<>>
  <2>1. PICK f \in [1 .. Len(s) -> W] : FlattenSeq(s) = f[Len(s)]
    BY <1>2, FlattenSeqIs
  <2>2. Len(s) \in 1 .. Len(s)
    BY <1>2
  <2> QED BY <2>1, <2>2
<1> QED BY <1>1, <1>2

\* t goes on where s ends
GoesOn(s, t) ==
  /\ Len(s) \in Nat /\ Len(t) \in Nat /\ Len(s) <= Len(t)
  /\ \A i \in 1 .. Len(s) : s[i] = t[i]

\* The functions of a sequence and of a longer one agree.
LEMMA FlattensAgree ==
  ASSUME NEW s, NEW t, GoesOn(s, t), NEW f, Flattens(f, s), NEW g, Flattens(g, t)
  PROVE  \A k \in 1 .. Len(s) : f[k] = g[k]
<1> DEFINE S == {k \in Nat : k \in 1 .. Len(s) => f[k] = g[k]}
<1>1. 0 \in S
  OBVIOUS
<1>2. ASSUME NEW k \in S PROVE k + 1 \in S
  <2>1. SUFFICES ASSUME k + 1 \in 1 .. Len(s) PROVE f[k + 1] = g[k + 1]
    OBVIOUS
  <2>2. /\ k \in Nat /\ Len(s) \in Nat /\ Len(t) \in Nat
        /\ Len(s) <= Len(t) /\ (k + 1) - 1 = k
    BY DEF GoesOn
  <2>3. f[k + 1] = IF k + 1 = 1 THEN s[k + 1] ELSE f[(k + 1) - 1] \o s[k + 1]
    BY <2>1 DEF Flattens
  <2>4. k + 1 \in 1 .. Len(t)
    BY <2>1, <2>2
  <2>5. g[k + 1] = IF k + 1 = 1 THEN t[k + 1] ELSE g[(k + 1) - 1] \o t[k + 1]
    BY <2>4 DEF Flattens
  <2>6. s[k + 1] = t[k + 1]
    BY <2>1 DEF GoesOn
  <2>7. CASE k = 0
    BY <2>3, <2>5, <2>6, <2>7
  <2>8. CASE k # 0
    <3>1. f[k] = g[k]
      BY <2>8, <2>1, <2>2
    <3>2. k + 1 # 1
      BY <2>8, <2>2
    <3> QED BY <3>1, <3>2, <2>2, <2>3, <2>5, <2>6
  <2> QED BY <2>7, <2>8
<1>3. S = Nat
  <2>1. S \subseteq Nat
    OBVIOUS
  <2> HIDE DEF S
  <2> QED BY <1>1, <1>2, <2>1, InductionOnNat
<1>4. SUFFICES ASSUME NEW k \in 1 .. Len(s) PROVE f[k] = g[k]
  OBVIOUS
<1>5. k \in Nat
  OBVIOUS
<1> QED BY <1>3, <1>5

\* FlattenSeq of a sequence t that goes on where s ends, by one more.
LEMMA FlattenSeqOneMore ==
  ASSUME NEW W, Sequences(W), NEW s \in Seq(W), NEW t \in Seq(W),
         s # <<>>, GoesOn(s, t), Len(t) = Len(s) + 1
  PROVE  FlattenSeq(t) = FlattenSeq(s) \o t[Len(t)]
<1> DEFINE n == Len(s)
<1>1. n \in Nat /\ n # 0 /\ t # <<>>
  OBVIOUS
<1>2. PICK g \in [1 .. Len(t) -> W] : Flattens(g, t) /\ FlattenSeq(t) = g[Len(t)]
  BY <1>1, FlattenSeqIs
<1>3. PICK f \in [1 .. n -> W] : Flattens(f, s) /\ FlattenSeq(s) = f[n]
  BY <1>1, FlattenSeqIs
<1>4. \A k \in 1 .. n : f[k] = g[k]
  BY <1>2, <1>3, FlattensAgree
<1>5. g[n + 1] = g[n] \o t[n + 1]
  <2>1. n + 1 \in 1 .. Len(t) /\ n + 1 # 1 /\ (n + 1) - 1 = n
    BY <1>1
  <2> HIDE DEF n
  <2> QED BY <1>2, <2>1 DEF Flattens
<1>6. f[n] = g[n]
  <2> n \in 1 .. n
    BY <1>1
  <2> QED BY <1>4
<1>7. Len(t) = n + 1
  OBVIOUS
<1> HIDE DEF n
<1> QED BY <1>2, <1>3, <1>5, <1>6, <1>7

\* FlattenSeq of a sequence with one more at its end.
LEMMA FlattenSeqAppend ==
  ASSUME NEW W, Sequences(W), NEW s \in Seq(W), NEW p \in W
  PROVE  FlattenSeq(Append(s, p)) = FlattenSeq(s) \o p
<1> DEFINE t == Append(s, p)
           n == Len(s)
<1>1. /\ t \in Seq(W) /\ t # <<>> /\ Len(t) = n + 1 /\ n \in Nat
      /\ GoesOn(s, t) /\ t[n + 1] = p
  BY AppendProperties DEF GoesOn
<1>2. CASE s = <<>>
  <2>1. Len(t) = 1 /\ t[1] = p
    BY <1>1, <1>2
  <2>2. FlattenSeq(t) = p
    <3> HIDE DEF t
    <3>1. PICK g : Flattens(g, t) /\ FlattenSeq(t) = g[Len(t)]
      BY <1>1, FlattenSeqIs
    <3> QED BY <2>1, <3>1 DEF Flattens
  <2>3. FlattenSeq(s) = <<>>
    BY <1>2 DEF FlattenSeq
  <2>4. <<>> \o p = p
    BY DEF Sequences
  <2> QED BY <2>2, <2>3, <2>4
<1>3. CASE s # <<>>
  <2> HIDE DEF t
  <2>1. FlattenSeq(t) = FlattenSeq(s) \o t[Len(t)]
    BY <1>1, <1>3, FlattenSeqOneMore
  <2> QED BY <1>1, <2>1 DEF t
<1> QED BY <1>2, <1>3

\* FlattenSeq of a sequence is its first one and then the others.
LEMMA FlattenSeqHead ==
  ASSUME NEW W, Sequences(W), NEW s \in Seq(W), s # <<>>
  PROVE  FlattenSeq(s) = Head(s) \o FlattenSeq(Tail(s))
<1> DEFINE t == Tail(s)
           n == Len(t)
<1>1. /\ t \in Seq(W) /\ n \in Nat /\ Len(s) = n + 1
      /\ \A i \in 1 .. n : t[i] = s[i + 1]
      /\ Head(s) = s[1] /\ s[1] \in W
      /\ n = Len(t) /\ t = Tail(s)
  BY HeadTailProperties
<1> HIDE DEF t, n
<1>2. PICK f \in [1 .. Len(s) -> W] : Flattens(f, s) /\ FlattenSeq(s) = f[Len(s)]
  BY FlattenSeqIs
<1>3. f[1] = s[1]
  <2> 1 \in 1 .. Len(s)
    BY <1>1
  <2> QED BY <1>2 DEF Flattens
<1>4. CASE t = <<>>
  <2>1. n = 0
    BY <1>1, <1>4
  <2>2. FlattenSeq(s) = s[1]
    BY <1>1, <1>2, <1>3, <2>1
  <2>3. s[1] \o <<>> = s[1]
    BY <1>1 DEF Sequences
  <2>4. FlattenSeq(t) = <<>>
    BY <1>4 DEF FlattenSeq
  <2> QED BY <2>2, <2>3, <2>4, <1>1
<1>5. CASE t # <<>>
  <2>1. n # 0
    BY <1>5, <1>1, EmptySeq
  <2>2. PICK h \in [1 .. n -> W] : Flattens(h, t) /\ FlattenSeq(t) = h[n]
    BY <1>1, <1>5, FlattenSeqIs
  <2> DEFINE Good(k) == k \in 1 .. n => f[k + 1] = s[1] \o h[k]
             S == {k \in Nat : Good(k)}
  <2>3. 0 \in S
    OBVIOUS
  <2>4. ASSUME NEW k \in S PROVE k + 1 \in S
    <3>0. k \in Nat /\ Good(k)
      OBVIOUS
    <3>1. SUFFICES ASSUME k + 1 \in 1 .. n PROVE f[(k + 1) + 1] = s[1] \o h[k + 1]
      <4>1. k + 1 \in Nat
        BY <3>0
      <4>2. Good(k + 1)
        OBVIOUS
      <4> HIDE DEF Good
      <4> QED BY <4>1, <4>2
    <3> HIDE DEF S
    <3>2. /\ k \in Nat /\ (k + 1) - 1 = k /\ ((k + 1) + 1) - 1 = k + 1
          /\ (k + 1) + 1 \in 1 .. Len(s) /\ (k + 1) + 1 # 1
          /\ t[k + 1] = s[(k + 1) + 1]
      BY <1>1, <3>0, <3>1
    <3>3. f[(k + 1) + 1] = f[k + 1] \o s[(k + 1) + 1]
      BY <1>2, <3>2 DEF Flattens
    <3>4. h[k + 1] = IF k + 1 = 1 THEN t[k + 1] ELSE h[(k + 1) - 1] \o t[k + 1]
      BY <1>1, <2>2, <3>1 DEF Flattens
    <3>5. CASE k = 0
      <4>1. h[k + 1] = t[k + 1] /\ f[k + 1] = s[1]
        BY <3>4, <3>5, <1>3
      <4> QED BY <4>1, <3>2, <3>3
    <3>6. CASE k # 0
      <4>1. k \in 1 .. n /\ k + 1 # 1
        BY <3>6, <3>1, <3>2, <1>1
      <4>2. f[k + 1] = s[1] \o h[k]
        BY <4>1, <3>0
      <4>3. h[k + 1] = h[k] \o t[k + 1]
        BY <3>4, <3>2, <4>1
      <4>4. s[1] \in W /\ h[k] \in W /\ t[k + 1] \in W
        <5>1. t[k + 1] \in W
          BY <1>1, <3>1, ElementOfSeq
        <5>2. h[k] \in W
          BY <2>2, <4>1, Zenon
        <5> QED BY <5>1, <5>2, <1>1
      <4>5. (s[1] \o h[k]) \o t[k + 1] = s[1] \o (h[k] \o t[k + 1])
        <5>1. \A x, y, z \in W : (x \o y) \o z = x \o (y \o z)
          BY DEF Sequences
        <5> QED BY <4>4, <5>1, Zenon
      <4> QED BY <3>2, <3>3, <4>2, <4>3, <4>5
    <3> QED BY <3>5, <3>6
  <2>5. S = Nat
    <3>1. S \subseteq Nat
      OBVIOUS
    <3> HIDE DEF S
    <3> QED BY <2>3, <2>4, <3>1, InductionOnNat
  <2>6. n \in 1 .. n /\ n \in Nat
    BY <2>1, <1>1
  <2>7. f[n + 1] = s[1] \o h[n]
    BY <2>5, <2>6
  <2>8. FlattenSeq(s) = s[1] \o FlattenSeq(t)
    BY <1>1, <1>2, <2>2, <2>7
  <2> QED BY <1>1, <2>8
<1> QED BY <1>4, <1>5

\* The sequences over a set can be concatenated.
LEMMA SequencesOverV == ASSUME NEW V PROVE Sequences(Seq(V))
<1>1. \A x, y \in Seq(V) : x \o y \in Seq(V)
  BY ConcatProperties
<1>2. \A x, y, z \in Seq(V) : (x \o y) \o z = x \o (y \o z)
  BY ConcatAssociative
<1>3. \A x \in Seq(V) : <<>> \o x = x /\ x \o <<>> = x
  BY ConcatEmptySeq
<1>4. <<>> \in Seq(V)
  OBVIOUS
<1> QED BY <1>1, <1>2, <1>3, <1>4 DEF Sequences

=============================================================================
