----------------------------- MODULE Induction -----------------------------
(***************************************************************************)
(* Induction over natural numbers as statements about sets, and recursive  *)
(* functions by way of graphs of functions, so that the proofs of this     *)
(* project can cite them by name.                                          *)
(***************************************************************************)
EXTENDS Integers, SequencesExt, SequenceTheorems, WellFoundedInduction, TLAPS

\* A set of natural numbers has a least element.
LEMMA LeastNat ==
    ASSUME NEW T, T \subseteq Nat, T # {}
    PROVE  \E m \in T : \A n \in T : m <= n
  <1> DEFINE R == OpToRel(<, Nat)
  <1>1. IsWellFoundedOn(R, Nat)
    BY NatLessThanWellFounded
  <1> HIDE DEF R
  <1>2. PICK m \in T : \A n \in T : <<n, m>> \notin R
    BY <1>1, WFMin
  <1>3. \A n \in T : ~ n < m
    BY <1>2 DEF R, OpToRel
  <1> QED
    BY <1>3

\* Induction: a set with 0 that has n + 1 with n has every natural number.
LEMMA NatSetInduction ==
    ASSUME NEW T, 0 \in T, \A n \in Nat : n \in T => n + 1 \in T
    PROVE  Nat \subseteq T
  <1> SUFFICES ASSUME Nat \ T # {} PROVE FALSE
    OBVIOUS
  <1>1. PICK m \in Nat \ T : \A n \in Nat \ T : m <= n
    BY LeastNat
  <1>2. m - 1 \in Nat /\ m - 1 \in T
    BY <1>1
  <1> QED
    BY <1>1, <1>2

\* Induction up to N.
LEMMA IntervalInduction ==
    ASSUME NEW N \in Nat, NEW T, 0 \in T,
           \A n \in 0 .. N - 1 : n \in T => n + 1 \in T
    PROVE  0 .. N \subseteq T
  <1> DEFINE S == {n \in Nat : n \in T \/ n > N}
  <1>1. 0 \in S
    OBVIOUS
  <1>2. \A n \in Nat : n \in S => n + 1 \in S
    OBVIOUS
  <1> HIDE DEF S
  <1>3. Nat \subseteq S
    BY <1>1, <1>2, NatSetInduction
  <1> QED
    BY <1>3 DEF S

\* h begins with a and goes on from value to value by step.
Recursion(h, N, V, a, step) ==
    /\ h \in [0 .. N -> V]
    /\ h[0] = a
    /\ \A k \in 1 .. N : h[k] = step[<<k, h[k - 1]>>]

StepsInto(N, V, step) == \A k \in 1 .. N : \A v \in V : step[<<k, v>>] \in V

\* A step from each value to the next one gives a function on 0 .. N.
LEMMA RecursionExists ==
    ASSUME NEW N \in Nat, NEW V, NEW a \in V, NEW step, StepsInto(N, V, step)
    PROVE  \E h : Recursion(h, N, V, a, step)
  <1> USE DEF StepsInto, Recursion
  <1> DEFINE Upto(n) == \E h \in [0 .. n -> V] :
                            h[0] = a /\ \A k \in 1 .. n : h[k] = step[<<k, h[k - 1]>>]
             T == {n \in Nat : Upto(n)}
  <1>1. 0 \in T
    <2> DEFINE h == [k \in 0 .. 0 |-> a]
    <2>1. h \in [0 .. 0 -> V] /\ h[0] = a /\ \A k \in 1 .. 0 : h[k] = step[<<k, h[k - 1]>>]
      OBVIOUS
    <2> QED
      BY <2>1
  <1>2. ASSUME NEW n \in 0 .. N - 1, n \in T PROVE n + 1 \in T
    <2>1. PICK h \in [0 .. n -> V] :
              h[0] = a /\ \A k \in 1 .. n : h[k] = step[<<k, h[k - 1]>>]
      BY <1>2
    <2> DEFINE g == [k \in 0 .. n + 1 |-> IF k <= n THEN h[k] ELSE step[<<n + 1, h[n]>>]]
    <2>2. g \in [0 .. n + 1 -> V]
      OBVIOUS
    <2>3. g[0] = a
      BY <2>1
    <2>4. ASSUME NEW k \in 1 .. n + 1 PROVE g[k] = step[<<k, g[k - 1]>>]
      <3>1. g[k - 1] = h[k - 1]
        OBVIOUS
      <3>2. CASE k <= n
        BY <2>1, <3>1, <3>2
      <3>3. CASE k = n + 1
        BY <3>1, <3>3
      <3> QED
        BY <3>2, <3>3
    <2> HIDE DEF g
    <2>5. Upto(n + 1)
      BY <2>2, <2>3, <2>4
    <2> QED
      BY <2>5
  <1> HIDE DEF T
  <1>3. 0 .. N \subseteq T
    BY <1>1, <1>2, IntervalInduction
  <1>4. N \in T
    BY <1>3
  <1> QED
    BY <1>4 DEF T

(***************************************************************************)
(* FlattenSeq: where the elements of its parts are.                        *)
(***************************************************************************)

\* The elements of a concatenation.
LEMMA ConcatElements ==
    ASSUME NEW S, NEW s \in Seq(S), NEW t \in Seq(S)
    PROVE  /\ s \o t \in Seq(S)
           /\ Len(s \o t) = Len(s) + Len(t)
           /\ \A j \in 1 .. Len(s) : (s \o t)[j] = s[j]
           /\ \A j \in 1 .. Len(t) : (s \o t)[Len(s) + j] = t[j]
  OBVIOUS

\* h has the sequences got by appending one part after the other.
Concats(h, N, S, part) ==
    /\ h \in [0 .. N -> Seq(S)]
    /\ h[0] = <<>>
    /\ \A k \in 1 .. N : h[k] = h[k - 1] \o part[k]

LEMMA ConcatsExist ==
    ASSUME NEW S, NEW N \in Nat, NEW part, \A k \in 1 .. N : part[k] \in Seq(S)
    PROVE  \E h : Concats(h, N, S, part)
  <1> DEFINE V == Seq(S)
             step == [p \in (1 .. N) \X V |-> p[2] \o part[p[1]]]
             empty == <<>>
  <1>1. ASSUME NEW k \in 1 .. N, NEW v \in V
        PROVE  step[<<k, v>>] = v \o part[k] /\ step[<<k, v>>] \in V
    <2>1. <<k, v>> \in (1 .. N) \X V
      OBVIOUS
    <2>2. part[k] \in Seq(S)
      OBVIOUS
    <2>3. v \o part[k] \in Seq(S)
      BY <2>2
    <2>4. step[<<k, v>>] = v \o part[k]
      BY <2>1, Zenon
    <2> QED
      BY <2>3, <2>4
  <1>2. empty \in V
    OBVIOUS
  <1> HIDE DEF V, step, empty
  <1>3. PICK h : Recursion(h, N, V, empty, step)
    <2>1. StepsInto(N, V, step)
      BY <1>1 DEF StepsInto
    <2> QED
      BY <1>2, <2>1, RecursionExists
  <1>4. ASSUME NEW k \in 1 .. N PROVE h[k] = h[k - 1] \o part[k]
    <2>1. h[k - 1] \in V /\ h[k] = step[<<k, h[k - 1]>>]
      BY <1>3 DEF Recursion
    <2> QED
      BY <1>1, <2>1
  <1>5. h \in [0 .. N -> Seq(S)] /\ h[0] = <<>>
    BY <1>3 DEF Recursion, V, empty
  <1> QED
    BY <1>4, <1>5 DEF Concats

\* FlattenSeq is what appending one part after the other gives.
LEMMA FlattenSeqSteps ==
    ASSUME NEW S, NEW seqs \in Seq(Seq(S))
    PROVE  \E h : Concats(h, Len(seqs), S, seqs) /\ FlattenSeq(seqs) = h[Len(seqs)]
  <1> DEFINE N == Len(seqs)
             Graph(f) == [j \in 1 .. N |-> IF j = 1 THEN seqs[j] ELSE f[j - 1] \o seqs[j]]
             flatten == CHOOSE f : f = Graph(f)
  <1>1. N \in Nat /\ \A k \in 1 .. N : seqs[k] \in Seq(S)
    OBVIOUS
  <1>2. PICK h : Concats(h, N, S, seqs)
    <2> HIDE DEF N
    <2> QED
      BY <1>1, ConcatsExist
  <1>3. N # 0 => FlattenSeq(seqs) = flatten[N]
    BY Zenon DEF FlattenSeq
  <1>4. N = 0 => FlattenSeq(seqs) = <<>>
    BY DEF FlattenSeq
  <1> HIDE DEF N, flatten
  <1>5. ASSUME 1 \in 1 .. N PROVE h[1] = seqs[1]
    <2>1. h[1] = h[1 - 1] \o seqs[1] /\ h[0] = <<>>
      BY <1>2, <1>5 DEF Concats
    <2>2. seqs[1] \in Seq(S)
      BY <1>1, <1>5
    <2>3. h[1] = <<>> \o seqs[1]
      <3>1. 1 - 1 = 0
        OBVIOUS
      <3> QED
        BY <2>1, <3>1, Zenon
    <2> QED
      BY <2>2, <2>3, ConcatEmptySeq
  <1>6. flatten = Graph(flatten)
    <2> DEFINE g == [j \in 1 .. N |-> h[j]]
    <2>1. ASSUME NEW j \in 1 .. N PROVE g[j] = Graph(g)[j]
      <3>1. j # 1 => j - 1 \in 1 .. N
        BY <1>1
      <3> QED
        BY <1>2, <1>5, <3>1 DEF Concats
    <2>2. g = Graph(g)
      BY <2>1
    <2> HIDE DEF g
    <2> QED
      BY <2>2, Zenon DEF flatten
  <1>7. \A j \in 1 .. N : flatten[j] = IF j = 1 THEN seqs[j] ELSE flatten[j - 1] \o seqs[j]
    BY <1>6
  <1> HIDE DEF Graph
  <1> DEFINE T == {j \in 0 .. N : j = 0 \/ flatten[j] = h[j]}
  <1>8. ASSUME NEW j \in 0 .. N - 1, j \in T PROVE flatten[j + 1] = h[j + 1]
    <2>1. j + 1 \in 1 .. N /\ (j + 1) - 1 = j
      BY <1>1
    <2>2. CASE j = 0
      <3>1. flatten[1] = seqs[1]
        BY <1>7, <2>1, <2>2
      <3> QED
        BY <1>5, <2>1, <2>2, <3>1
    <2>3. CASE j # 0
      <3>1. flatten[j + 1] = flatten[(j + 1) - 1] \o seqs[j + 1]
        BY <1>7, <2>1, <2>3, j + 1 # 1
      <3>2. h[j + 1] = h[j] \o seqs[j + 1]
        BY <1>2, <2>1 DEF Concats
      <3> QED
        BY <1>8, <2>1, <2>3, <3>1, <3>2
    <2> QED
      BY <2>2, <2>3
  <1>9. 0 .. N \subseteq T
    <2>1. 0 \in T /\ \A j \in 0 .. N - 1 : j \in T => j + 1 \in T
      BY <1>1, <1>8
    <2> HIDE DEF T
    <2> QED
      BY <1>1, <2>1, IntervalInduction
  <1>10. FlattenSeq(seqs) = h[N]
    BY <1>1, <1>2, <1>3, <1>4, <1>9 DEF Concats
  <1> QED
    BY <1>2, <1>10 DEF N

\* off[k] elements come before the end of part k.
Offsets(off, seqs) ==
    /\ off \in [0 .. Len(seqs) -> Nat]
    /\ off[0] = 0
    /\ \A k \in 1 .. Len(seqs) : off[k] = off[k - 1] + Len(seqs[k])

\* The elements of seqs are the elements of flat, in the same order.
Layout(flat, off, seqs) ==
    /\ Len(flat) = off[Len(seqs)]
    /\ \A k \in 1 .. Len(seqs) : \A j \in 1 .. Len(seqs[k]) :
           flat[off[k - 1] + j] = seqs[k][j]

\* Offsets do not decrease.
LEMMA OffsetsGrow ==
    ASSUME NEW S, NEW seqs \in Seq(Seq(S)), NEW off, Offsets(off, seqs),
           NEW a \in 0 .. Len(seqs)
    PROVE  \A b \in a .. Len(seqs) : off[a] <= off[b]
  <1> DEFINE N == Len(seqs)
             T == {b \in 0 .. N : b < a \/ off[a] <= off[b]}
  <1>1. N \in Nat /\ off \in [0 .. N -> Nat]
        /\ \A k \in 1 .. N : off[k] = off[k - 1] + Len(seqs[k]) /\ Len(seqs[k]) \in Nat
    BY DEF Offsets
  <1>2. a \in 0 .. N
    OBVIOUS
  <1> HIDE DEF N
  <1>3. 0 \in T
    BY <1>1, <1>2
  <1>4. ASSUME NEW b \in 0 .. N - 1, b \in T PROVE b + 1 \in T
    <2>1. b + 1 \in 1 .. N /\ (b + 1) - 1 = b
      BY <1>1
    <2>2. off[b + 1] = off[b] + Len(seqs[b + 1]) /\ Len(seqs[b + 1]) \in Nat
      BY <1>1, <2>1
    <2>3. off[a] \in Nat /\ off[b] \in Nat /\ off[b + 1] \in Nat
      BY <1>1, <1>2, <2>1
    <2> QED
      BY <1>2, <1>4, <2>1, <2>2, <2>3
  <1>5. 0 .. N \subseteq T
    <2> HIDE DEF T
    <2> QED
      BY <1>1, <1>3, <1>4, IntervalInduction
  <1> QED
    BY <1>1, <1>2, <1>5 DEF N

\* There are no other offsets.
LEMMA OffsetsUnique ==
    ASSUME NEW S, NEW seqs \in Seq(Seq(S)), NEW off, Offsets(off, seqs),
           NEW oth, Offsets(oth, seqs)
    PROVE  off = oth
  <1> DEFINE N == Len(seqs)
             T == {k \in 0 .. N : off[k] = oth[k]}
  <1>1. N \in Nat /\ off \in [0 .. N -> Nat] /\ oth \in [0 .. N -> Nat]
        /\ off[0] = 0 /\ oth[0] = 0
        /\ \A k \in 1 .. N : /\ off[k] = off[k - 1] + Len(seqs[k])
                             /\ oth[k] = oth[k - 1] + Len(seqs[k])
    BY DEF Offsets
  <1> HIDE DEF N
  <1>2. 0 \in T
    BY <1>1
  <1>3. ASSUME NEW k \in 0 .. N - 1, k \in T PROVE k + 1 \in T
    <2>1. k + 1 \in 1 .. N /\ (k + 1) - 1 = k /\ k + 1 \in 0 .. N
      BY <1>1
    <2> QED
      BY <1>1, <1>3, <2>1
  <1>4. 0 .. N \subseteq T
    <2> HIDE DEF T
    <2> QED
      BY <1>1, <1>2, <1>3, IntervalInduction
  <1>5. \A k \in 0 .. N : off[k] = oth[k]
    BY <1>4
  <1> QED
    BY <1>1, <1>5

\* Where the elements of FlattenSeq are.
LEMMA FlattenSeqLayout ==
    ASSUME NEW S, NEW seqs \in Seq(Seq(S))
    PROVE  /\ FlattenSeq(seqs) \in Seq(S)
           /\ \E off : Offsets(off, seqs) /\ Layout(FlattenSeq(seqs), off, seqs)
  <1> DEFINE N == Len(seqs)
  <1>1. N \in Nat /\ \A k \in 1 .. N : seqs[k] \in Seq(S) /\ Len(seqs[k]) \in Nat
    OBVIOUS
  <1>2. PICK h : Concats(h, N, S, seqs) /\ FlattenSeq(seqs) = h[N]
    BY FlattenSeqSteps
  <1> DEFINE off == [k \in 0 .. N |-> Len(h[k])]
  <1>3. Offsets(off, seqs)
    <2>1. \A k \in 0 .. N : h[k] \in Seq(S) /\ Len(h[k]) \in Nat
      BY <1>2, SMTT(30) DEF Concats
    <2>2. off \in [0 .. N -> Nat] /\ off[0] = 0
      BY <1>1, <1>2, <2>1 DEF Concats
    <2>3. ASSUME NEW k \in 1 .. N PROVE off[k] = off[k - 1] + Len(seqs[k])
      <3>0. k \in 0 .. N /\ k - 1 \in 0 .. N
        BY <1>1
      <3>1. h[k] = h[k - 1] \o seqs[k]
        BY <1>2 DEF Concats
      <3>2. Len(h[k]) = Len(h[k - 1]) + Len(seqs[k])
        BY <1>1, <2>1, <3>0, <3>1
      <3> QED
        BY <3>0, <3>2
    <2> QED
      BY <2>2, <2>3 DEF Offsets
  <1>4. \A k \in 0 .. N : off[k] = Len(h[k])
    OBVIOUS
  <1> HIDE DEF off
  <1> DEFINE Good(n) == \A k \in 1 .. n : \A j \in 1 .. Len(seqs[k]) :
                            h[n][off[k - 1] + j] = seqs[k][j]
             T == {n \in 0 .. N : Good(n)}
  <1>5. 0 \in T
    BY <1>1
  <1>6. ASSUME NEW n \in 0 .. N - 1, n \in T PROVE Good(n + 1)
    <2>1. /\ n \in Nat /\ n + 1 \in 1 .. N /\ (n + 1) - 1 = n /\ n \in 0 .. N
          /\ h[n + 1] = h[n] \o seqs[n + 1]
          /\ h[n] \in Seq(S) /\ seqs[n + 1] \in Seq(S)
          /\ off[n] = Len(h[n])
      <3>1. n \in Nat /\ n + 1 \in 1 .. N /\ (n + 1) - 1 = n /\ n \in 0 .. N
        BY <1>1
      <3> QED
        BY <1>1, <1>2, <1>4, <3>1 DEF Concats
    <2> SUFFICES ASSUME NEW k \in 1 .. n + 1, NEW j \in 1 .. Len(seqs[k])
                 PROVE  h[n + 1][off[k - 1] + j] = seqs[k][j]
      OBVIOUS
    <2>2. CASE k = n + 1
      <3> DEFINE part == seqs[n + 1]
      <3>1. j \in 1 .. Len(part) /\ part \in Seq(S) /\ h[n] \in Seq(S)
            /\ off[k - 1] = Len(h[n])
        BY <2>1, <2>2
      <3>2. (h[n] \o part)[Len(h[n]) + j] = part[j]
        <4> HIDE DEF part
        <4> QED
          BY <3>1, ConcatElements
      <3> QED
        BY <2>1, <2>2, <3>1, <3>2
    <2>3. CASE k # n + 1
      <3>1. k \in 1 .. n /\ k \in 1 .. N /\ k - 1 \in 0 .. N /\ k \in 0 .. N
        BY <1>1, <2>1, <2>3
      <3>2. off[k] <= off[n]
        <4>1. n \in k .. N
          BY <1>1, <2>1, <3>1
        <4> QED
          BY <1>3, <3>1, <4>1, OffsetsGrow
      <3>3. off[k] = off[k - 1] + Len(seqs[k]) /\ off[k - 1] \in Nat /\ off[k] \in Nat
        BY <1>3, <3>1 DEF Offsets
      <3>4. off[k - 1] + j \in 1 .. Len(h[n])
        <4>1. Len(seqs[k]) \in Nat /\ off[n] \in Nat
          BY <1>1, <1>3, <2>1, <3>1 DEF Offsets
        <4>2. j \in Nat /\ 1 <= j /\ j <= Len(seqs[k])
          BY <4>1
        <4>3. off[k - 1] + j <= off[n] /\ 1 <= off[k - 1] + j
          BY ONLY <3>2, <3>3, <4>1, <4>2, SMTT(30)
        <4> QED
          BY <2>1, <3>3, <4>1, <4>2, <4>3
      <3>5. (h[n] \o seqs[n + 1])[off[k - 1] + j] = h[n][off[k - 1] + j]
        BY <2>1, <3>4, ConcatElements, ZenonT(30)
      <3> QED
        BY <1>6, <2>1, <3>1, <3>5
    <2> QED
      BY <2>2, <2>3
  <1>7. Good(N)
    <2>1. \A n \in 0 .. N - 1 : n \in T => n + 1 \in T
      BY <1>1, <1>6, SMTT(30)
    <2> HIDE DEF T
    <2>2. 0 .. N \subseteq T
      BY <1>1, <1>5, <2>1, IntervalInduction
    <2>3. N \in T
      BY <1>1, <2>2
    <2> QED
      BY <2>3 DEF T
  <1>8. FlattenSeq(seqs) \in Seq(S) /\ Len(FlattenSeq(seqs)) = off[N]
    <2>1. N \in 0 .. N
      BY <1>1
    <2> QED
      BY <1>2, <1>4, <2>1 DEF Concats
  <1>9. Layout(FlattenSeq(seqs), off, seqs)
    BY <1>2, <1>7, <1>8 DEF Layout
  <1> QED
    BY <1>3, <1>8, <1>9
=============================================================================
