--------------------------- MODULE SequenceInduction --------------------------

(***************************************************************************)
(* Induction over data, with sets in place of operators (a property of the *)
(* natural numbers is the set of those that have it), and what follows for *)
(* recursive definitions over sequences.                                   *)
(***************************************************************************)
EXTENDS SequencesExt, SequenceTheorems, WellFoundedInduction, TLAPS

\* A set of natural numbers has a least element.
LEMMA NatWellOrdered ==
  ASSUME NEW T \in SUBSET Nat, T # {}
  PROVE  \E n \in T : \A k \in T : n <= k
<1>1. PICK n \in T : \A k \in T : ~ (<<k, n>> \in OpToRel(<, Nat))
  BY NatLessThanWellFounded, WFMin
<1>2. \A k \in T : k < n => <<k, n>> \in OpToRel(<, Nat)
  BY DEF OpToRel
<1>3. \A k \in T : ~ (k < n)
  BY <1>1, <1>2
<1> QED BY <1>3

\* What holds of 0 and goes from each number to the next holds of all up to N.
LEMMA UpTo ==
  ASSUME NEW N \in Nat, NEW P, 0 \in P, \A n \in 1..N : n - 1 \in P => n \in P
  PROVE  \A n \in 0..N : n \in P
<1> DEFINE Bad == {n \in 0..N : n \notin P}
<1> SUFFICES ASSUME Bad # {} PROVE FALSE
  OBVIOUS
<1>0. Bad \in SUBSET Nat
  OBVIOUS
<1>1. PICK n \in Bad : \A k \in Bad : n <= k
  <2> HIDE DEF Bad
  <2> QED BY <1>0, NatWellOrdered
<1>2. n \in 1..N /\ n - 1 \in 0..N /\ n - 1 \notin Bad
  BY <1>1
<1>3. n - 1 \in P
  BY <1>2
<1> QED BY <1>2, <1>3

\* f begins with base and goes from n - 1 to n by step[n].
Follows(f, m, V, base, step) ==
  f \in [0..m -> V] /\ f[0] = base /\ \A n \in 1..m : f[n] = step[n][f[n - 1]]

\* A recursion over 0..N that stays in V is the recursion of some function.
LEMMA RecursionExists ==
  ASSUME NEW N \in Nat, NEW V, NEW base \in V,
         NEW step, \A n \in 1..N : \A v \in V : step[n][v] \in V
  PROVE  \E f : Follows(f, N, V, base, step)
<1> USE DEF Follows
<1> DEFINE P == {m \in 0..N : \E f : Follows(f, m, V, base, step)}
<1>1. 0 \in P
  <2>1. Follows([n \in 0..0 |-> base], 0, V, base, step)
    OBVIOUS
  <2> HIDE DEF Follows
  <2> QED BY <2>1
<1>2. ASSUME NEW m \in 1..N, m - 1 \in P PROVE m \in P
  <2>1. PICK g : Follows(g, m - 1, V, base, step)
    BY <1>2
  <2> DEFINE f == [n \in 0..m |-> IF n = m THEN step[m][g[m - 1]] ELSE g[n]]
  <2>2. m - 1 \in 0..(m - 1) /\ \A v \in V : step[m][v] \in V
    OBVIOUS
  <2>3. step[m][g[m - 1]] \in V
    BY <2>1, <2>2
  <2>4. f \in [0..m -> V] /\ f[0] = base
    BY <2>1, <2>3
  <2>5. ASSUME NEW n \in 1..m PROVE f[n] = step[n][f[n - 1]]
    <3>1. n - 1 \in 0..m /\ n - 1 # m /\ f[n - 1] = g[n - 1]
      OBVIOUS
    <3>2. CASE n = m
      BY <3>1, <3>2
    <3>3. CASE n # m
      <4>1. n \in 1..(m - 1)
        BY <3>3
      <4> QED BY <4>1, <3>1, <3>3, <2>1
    <3> QED BY <3>2, <3>3
  <2>6. Follows(f, m, V, base, step)
    <3> HIDE DEF f
    <3> QED BY <2>4, <2>5
  <2>7. m \in 0..N
    OBVIOUS
  <2> QED BY <2>6, <2>7
<1>3. N \in P
  <2> HIDE DEF P
  <2>1. \A n \in 0..N : n \in P
    BY <1>1, <1>2, UpTo
  <2> QED BY <2>1
<1> QED BY <1>3

\* A flattened sequence of sequences has the elements of all of them.
LEMMA FlattenSeqProperties ==
  ASSUME NEW S, NEW N \in Nat \ {0}, NEW seqs \in [1..N -> Seq(S)]
  PROVE  /\ FlattenSeq(seqs) \in Seq(S)
         /\ Range(FlattenSeq(seqs)) = UNION {Range(seqs[i]) : i \in 1..N}
<1> DEFINE flatten[i \in 1..Len(seqs)] == IF i = 1 THEN seqs[i] ELSE flatten[i - 1] \o seqs[i]
<1>1. seqs \in Seq(Seq(S)) /\ Len(seqs) = N
  OBVIOUS
<1>2. FlattenSeq(seqs) = flatten[N]
  BY <1>1 DEF FlattenSeq
<1>3. PICK g \in [0..N -> Seq(S)] :
        g[0] = <<>> /\ \A n \in 1..N : g[n] = g[n - 1] \o seqs[n]
  <2> DEFINE step == [n \in 1..N |-> [v \in Seq(S) |-> v \o seqs[n]]]
  <2>1. <<>> \in Seq(S) /\ \A n \in 1..N : \A v \in Seq(S) : step[n][v] \in Seq(S)
    BY ConcatProperties
  <2>2. \E g \in [0..N -> Seq(S)] : g[0] = <<>> /\ \A n \in 1..N : g[n] = step[n][g[n - 1]]
    <3>1. N \in Nat
      OBVIOUS
    <3> HIDE DEF step
    <3>2. \E g : Follows(g, N, Seq(S), <<>>, step)
      BY <3>1, <2>1, RecursionExists
    <3> QED BY <3>2 DEF Follows
  <2>3. \A n \in 1..N : n - 1 \in 0..N
    OBVIOUS
  <2>4. \A n \in 1..N, v \in Seq(S) : step[n][v] = v \o seqs[n]
    OBVIOUS
  <2> HIDE DEF step
  <2>5. PICK g \in [0..N -> Seq(S)] :
          g[0] = <<>> /\ \A n \in 1..N : g[n] = step[n][g[n - 1]]
    BY <2>2
  <2>6. \A n \in 1..N : g[n] = g[n - 1] \o seqs[n]
    BY <2>3, <2>4, <2>5
  <2> QED BY <2>5, <2>6
<1> DEFINE f == [n \in 1..N |-> g[n]]
<1>4. f = [i \in 1..Len(seqs) |-> IF i = 1 THEN seqs[i] ELSE f[i - 1] \o seqs[i]]
  <2>1. ASSUME NEW i \in 1..N PROVE g[i] = IF i = 1 THEN seqs[i] ELSE f[i - 1] \o seqs[i]
    <3>1. CASE i = 1
      <4>0. 1 \in 1..N /\ 1 - 1 = 0
        OBVIOUS
      <4>1. g[1] = <<>> \o seqs[1] /\ seqs[1] \in Seq(S)
        BY <4>0, <1>3
      <4> QED BY <4>1, <3>1, ConcatEmptySeq
    <3>2. CASE i # 1
      <4>1. i - 1 \in 1..N
        BY <3>2
      <4> QED BY <4>1, <3>2, <1>3
    <3> QED BY <3>1, <3>2
  <2> QED BY <2>1, <1>1
<1>5. flatten = [i \in 1..Len(seqs) |-> IF i = 1 THEN seqs[i] ELSE flatten[i - 1] \o seqs[i]]
  <2> HIDE DEF f
  <2> QED BY <1>4
<1> HIDE DEF flatten, f
<1> DEFINE P == {n \in 1..N : /\ flatten[n] \in Seq(S)
                             /\ Range(flatten[n]) = UNION {Range(seqs[i]) : i \in 1..n}}
<1>6. 1 \in P
  <2>1. 1 \in 1..N /\ flatten[1] = seqs[1] /\ seqs[1] \in Seq(S)
    BY <1>1, <1>5
  <2>2. {Range(seqs[i]) : i \in 1..1} = {Range(seqs[1])}
    OBVIOUS
  <2> QED BY <2>1, <2>2
<1>7. ASSUME NEW n \in 2..N, n - 1 \in P PROVE n \in P
  <2>0. n \in 1..N /\ n # 1
    OBVIOUS
  <2>1. flatten[n] = flatten[n - 1] \o seqs[n] /\ seqs[n] \in Seq(S) /\ n \in 1..N
    BY <2>0, <1>1, <1>5, Zenon
  <2>2. /\ flatten[n - 1] \in Seq(S)
        /\ Range(flatten[n - 1]) = UNION {Range(seqs[i]) : i \in 1..n - 1}
    BY <1>7
  <2>3. Range(flatten[n]) = Range(flatten[n - 1]) \cup Range(seqs[n])
    BY <2>1, <2>2, RangeConcatenation
  <2>4. flatten[n] \in Seq(S)
    BY <2>1, <2>2, ConcatProperties
  <2>5. 1..n = (1..n - 1) \cup {n}
    OBVIOUS
  <2>6. UNION {Range(seqs[i]) : i \in 1..n}
          = (UNION {Range(seqs[i]) : i \in 1..n - 1}) \cup Range(seqs[n])
    BY <2>5
  <2>7. Range(flatten[n]) = UNION {Range(seqs[i]) : i \in 1..n}
    BY <2>2, <2>3, <2>6
  <2> QED BY <2>1, <2>4, <2>7
<1>8. N \in P
  <2> DEFINE Q == {m \in 0..N - 1 : m + 1 \in P}
  <2>1. 0 \in Q
    <3>1. 0 \in 0..N - 1 /\ 0 + 1 = 1
      OBVIOUS
    <3> QED BY <3>1, <1>6
  <2>2. ASSUME NEW m \in 1..N - 1, m - 1 \in Q PROVE m \in Q
    <3>1. m + 1 \in 2..N /\ (m + 1) - 1 = (m - 1) + 1 /\ m \in 0..N - 1
      OBVIOUS
    <3>2. (m + 1) - 1 \in P
      BY <2>2, <3>1
    <3>3. m + 1 \in P
      <4> HIDE DEF P
      <4> QED BY <3>1, <3>2, <1>7
    <3> QED BY <3>1, <3>3
  <2>3. N - 1 \in Nat /\ N - 1 \in 0..N - 1 /\ (N - 1) + 1 = N
    OBVIOUS
  <2>4. N - 1 \in Q
    <3> HIDE DEF Q
    <3>1. \A m \in 0..N - 1 : m \in Q
      BY <2>1, <2>2, <2>3, UpTo
    <3> QED BY <3>1, <2>3
  <2> HIDE DEF P
  <2> QED BY <2>3, <2>4
<1> QED BY <1>2, <1>8

\* An element at the end is one element more, and not twice if it is new.
LEMMA AppendElement ==
  ASSUME NEW S, NEW s \in Seq(S), NEW e \in S
  PROVE  /\ Append(s, e) \in Seq(S)
         /\ Len(Append(s, e)) = Len(s) + 1
         /\ \A i \in 1..Len(s) : Append(s, e)[i] = s[i]
         /\ Last(Append(s, e)) = e
         /\ Range(Append(s, e)) = Range(s) \cup {e}
         /\ IsInjective(s) /\ e \notin Range(s) => IsInjective(Append(s, e))
<1> DEFINE t == Append(s, e)
<1>1. /\ t \in Seq(S) /\ Len(t) = Len(s) + 1 /\ DOMAIN t = 1..Len(s) + 1
      /\ \A i \in 1..Len(s) : t[i] = s[i]
      /\ t[Len(s) + 1] = e /\ Len(s) \in Nat /\ DOMAIN s = 1..Len(s)
  BY AppendProperties, LenProperties
<1> HIDE DEF t
<1>2. Last(t) = e
  BY <1>1 DEF Last
<1>3. Range(t) = Range(s) \cup {e}
  <2>1. \A x : x \in Range(s) <=> \E i \in 1..Len(s) : s[i] = x
    BY <1>1 DEF Range
  <2>2. \A x : x \in Range(t) <=> \E i \in 1..Len(s) + 1 : t[i] = x
    BY <1>1 DEF Range
  <2>3. 1..Len(s) + 1 = (1..Len(s)) \cup {Len(s) + 1}
    BY <1>1
  <2> QED BY <1>1, <2>1, <2>2, <2>3
<1>4. ASSUME IsInjective(s), e \notin Range(s) PROVE IsInjective(t)
  <2>1. \A i \in 1..Len(s) : t[i] # e
    BY <1>1, <1>4 DEF Range
  <2>2. ASSUME NEW i \in 1..Len(s) + 1, NEW j \in 1..Len(s) + 1, t[i] = t[j] PROVE i = j
    <3>1. CASE i \in 1..Len(s) /\ j \in 1..Len(s)
      BY <3>1, <1>1, <1>4, <2>2 DEF IsInjective
    <3>2. CASE i = Len(s) + 1
      <4>1. j \notin 1..Len(s)
        BY <1>1, <2>1, <2>2, <3>2
      <4> QED BY <4>1, <3>2, <1>1
    <3>3. CASE j = Len(s) + 1
      <4>1. i \notin 1..Len(s)
        BY <1>1, <2>1, <2>2, <3>3
      <4> QED BY <4>1, <3>3, <1>1
    <3> QED BY <1>1, <3>1, <3>2, <3>3
  <2> QED BY <1>1, <2>2 DEF IsInjective
<1> QED BY <1>1, <1>2, <1>3, <1>4 DEF t

\* What follows the head of a sequence without repetition is the rest of it.
LEMMA TailElements ==
  ASSUME NEW S, NEW s \in Seq(S), s # <<>>
  PROVE  /\ Head(s) \in S /\ Tail(s) \in Seq(S)
         /\ Head(s) \in Range(s)
         /\ Range(s) = {Head(s)} \cup Range(Tail(s))
         /\ IsInjective(s) => IsInjective(Tail(s)) /\ Head(s) \notin Range(Tail(s))
<1>1. /\ Head(s) \in S /\ Head(s) = s[1] /\ Tail(s) \in Seq(S) /\ Len(s) \in Nat \ {0}
      /\ Len(Tail(s)) = Len(s) - 1 /\ \A i \in 1..Len(Tail(s)) : Tail(s)[i] = s[i + 1]
      /\ DOMAIN s = 1..Len(s) /\ DOMAIN Tail(s) = 1..Len(Tail(s))
  BY HeadTailProperties, LenProperties, EmptySeq
<1>2. Range(s) = {Head(s)} \cup Range(Tail(s))
  <2>1. \A x : x \in Range(s) <=> \E i \in 1..Len(s) : s[i] = x
    BY <1>1 DEF Range
  <2>2. \A x : x \in Range(Tail(s)) <=> \E i \in 1..Len(s) - 1 : s[i + 1] = x
    BY <1>1 DEF Range
  <2>3. \A x : x \in Range(s) => x = s[1] \/ x \in Range(Tail(s))
    <3>1. \A i \in 1..Len(s) : i = 1 \/ (i - 1 \in 1..Len(s) - 1 /\ (i - 1) + 1 = i)
      BY <1>1
    <3> QED BY <2>1, <2>2, <3>1
  <2>4. \A x : x = s[1] \/ x \in Range(Tail(s)) => x \in Range(s)
    <3>1. 1 \in 1..Len(s) /\ \A i \in 1..Len(s) - 1 : i + 1 \in 1..Len(s)
      BY <1>1
    <3> QED BY <2>1, <2>2, <3>1
  <2> QED BY <1>1, <2>3, <2>4
<1>3. ASSUME IsInjective(s) PROVE IsInjective(Tail(s)) /\ Head(s) \notin Range(Tail(s))
  <2>1. \A i \in 1..Len(s) - 1 : i + 1 \in 1..Len(s) /\ i + 1 # 1
    BY <1>1
  <2>2. \A i, j \in 1..Len(s) - 1 : s[i + 1] = s[j + 1] => i = j
    BY <1>1, <1>3 DEF IsInjective
  <2>3. IsInjective(Tail(s))
    BY <1>1, <2>2 DEF IsInjective
  <2>4. 1 \in 1..Len(s)
    BY <1>1
  <2>5. \A i \in 1..Len(s) - 1 : s[i + 1] # s[1]
    BY <1>1, <1>3, <2>1, <2>4 DEF IsInjective
  <2> QED BY <1>1, <2>3, <2>5 DEF Range
<1> QED BY <1>1, <1>2, <1>3

\* The same for an element in front.
LEMMA ConsElement ==
  ASSUME NEW S, NEW s \in Seq(S), NEW e \in S
  PROVE  /\ <<e>> \o s \in Seq(S)
         /\ <<e>> \o s # <<>>
         /\ Range(<<e>> \o s) = {e} \cup Range(s)
         /\ IsInjective(s) /\ e \notin Range(s) => IsInjective(<<e>> \o s)
<1> DEFINE t == <<e>> \o s
<1>1. <<e>> \in Seq(S) /\ Len(<<e>>) = 1 /\ <<e>>[1] = e
  OBVIOUS
<1>2. /\ t \in Seq(S) /\ Len(t) = 1 + Len(s) /\ Len(s) \in Nat
      /\ \A i \in 1..1 + Len(s) : t[i] = IF i <= 1 THEN <<e>>[i] ELSE s[i - 1]
      /\ DOMAIN t = 1..1 + Len(s) /\ DOMAIN s = 1..Len(s)
  BY <1>1, ConcatProperties, LenProperties
<1> HIDE DEF t
<1>3. t # <<>>
  BY <1>2, EmptySeq
<1>4. t[1] = e /\ \A i \in 1..Len(s) : t[i + 1] = s[i]
  BY <1>1, <1>2
<1>5. \A i \in 1..1 + Len(s) : i = 1 \/ (i # 1 /\ i - 1 \in 1..Len(s) /\ t[i] = s[i - 1])
  BY <1>2
<1>6. Range(t) = {e} \cup Range(s)
  <2>1. \A x : x \in Range(s) <=> \E i \in 1..Len(s) : s[i] = x
    BY <1>2 DEF Range
  <2>2. \A x : x \in Range(t) <=> \E i \in 1..1 + Len(s) : t[i] = x
    BY <1>2 DEF Range
  <2>3. \A x : x \in Range(t) => x = e \/ x \in Range(s)
    BY <1>4, <1>5, <2>1, <2>2
  <2>4. 1 \in 1..1 + Len(s) /\ \A i \in 1..Len(s) : i + 1 \in 1..1 + Len(s)
    BY <1>2
  <2>5. \A x : x = e \/ x \in Range(s) => x \in Range(t)
    BY <1>4, <2>1, <2>2, <2>4
  <2> QED BY <2>3, <2>5
<1>7. ASSUME IsInjective(s), e \notin Range(s) PROVE IsInjective(t)
  <2>1. \A i \in 1..Len(s) : s[i] # e
    BY <1>2, <1>7 DEF Range
  <2>2. ASSUME NEW i \in 1..1 + Len(s), NEW j \in 1..1 + Len(s), t[i] = t[j] PROVE i = j
    <3>1. CASE i # 1 /\ j # 1
      <4>1. s[i - 1] = s[j - 1] /\ i - 1 \in 1..Len(s) /\ j - 1 \in 1..Len(s)
        BY <1>5, <2>2, <3>1
      <4>2. i - 1 = j - 1
        BY <1>2, <1>7, <4>1 DEF IsInjective
      <4> QED BY <4>2
    <3>2. CASE i = 1
      BY <1>4, <1>5, <2>1, <2>2, <3>2
    <3>3. CASE j = 1
      BY <1>4, <1>5, <2>1, <2>2, <3>3
    <3> QED BY <3>1, <3>2, <3>3
  <2> QED BY <1>2, <2>2 DEF IsInjective
<1> QED BY <1>2, <1>3, <1>6, <1>7 DEF t

\* What is before an element at the end.
LEMMA FrontOfAppend ==
  ASSUME NEW S, NEW s \in Seq(S), NEW e \in S
  PROVE  Front(Append(s, e)) = s
<1> DEFINE t == Append(s, e)
           u == SubSeq(t, 1, Len(s))
<1>1. /\ Len(t) = Len(s) + 1 /\ Len(s) \in Nat /\ \A i \in 1..Len(s) : t[i] = s[i]
      /\ \A i \in 1..Len(s) : s[i] \in S
  BY AppendElement, LenProperties, ElementOfSeq
<1> HIDE DEF t
<1>2. Front(t) = u
  BY <1>1 DEF Front
<1>3. /\ u \in Seq(S) /\ Len(u) = Len(s)
      /\ \A i \in 1..Len(s) : u[i] = t[i]
  <2>1. \A i \in 1..Len(s) : t[i] \in S
    BY <1>1
  <2>2. /\ u \in Seq(S) /\ Len(u) = IF 1 <= Len(s) THEN Len(s) - 1 + 1 ELSE 0
        /\ \A i \in 1..Len(s) - 1 + 1 : u[i] = t[1 + i - 1]
    BY <1>1, <2>1, SubSeqProperties
  <2> HIDE DEF u
  <2> QED BY <1>1, <2>2
<1> HIDE DEF u
<1>4. u = s
  BY <1>1, <1>3, SeqEqual
<1> QED BY <1>2, <1>4 DEF t

\* A sequence is what is before its last element, and that element.
LEMMA FrontAndLast ==
  ASSUME NEW S, NEW s \in Seq(S), s # <<>>
  PROVE  /\ Front(s) \in Seq(S) /\ Append(Front(s), Last(s)) = s
         /\ IsInjective(s) => Last(s) \notin Range(Front(s))
         /\ Last(s) \in Range(s)
<1>1. PICK f \in Seq(S), e \in S : s = Append(f, e)
  BY SequenceEmptyOrAppend
<1>2. Front(s) = f /\ Last(s) = e /\ Range(s) = Range(f) \cup {e}
  BY <1>1, FrontOfAppend, AppendElement
<1>3. ASSUME IsInjective(s) PROVE e \notin Range(f)
  <2>1. /\ DOMAIN s = 1..Len(f) + 1 /\ DOMAIN f = 1..Len(f) /\ Len(f) \in Nat
        /\ \A i \in 1..Len(f) : s[i] = f[i]
        /\ s[Len(f) + 1] = e
    BY <1>1, AppendProperties, LenProperties
  <2>2. \A i \in 1..Len(f) : i \in DOMAIN s /\ i # Len(f) + 1 /\ Len(f) + 1 \in DOMAIN s
    BY <2>1
  <2>3. \A i \in 1..Len(f) : f[i] # e
    BY <1>3, <2>1, <2>2 DEF IsInjective
  <2> QED BY <2>1, <2>3 DEF Range
<1> QED BY <1>1, <1>2, <1>3
=============================================================================
