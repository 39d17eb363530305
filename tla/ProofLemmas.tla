---------------------------- MODULE ProofLemmas ----------------------------
(* Facts about numbers and sequences that the proofs of several components *)
(* cite.                                                                   *)
EXTENDS Naturals, Sequences, FiniteSetsExt, SequencesExt, SequenceTheorems,
        WellFoundedInduction, TLAPS

\* Every non-empty set of naturals has a least element.
LEMMA LeastNatural ==
  ASSUME NEW T \in SUBSET Nat, T # {}
  PROVE  \E x \in T : \A y \in T : x <= y
<1>1. \E x \in T : \A y \in T : ~(y < x)
  <2>1. PICK x \in T : \A y \in T : ~(<<y, x>> \in OpToRel(<, Nat))
    BY NatLessThanWellFounded, WFMin, Zenon
  <2>2. \A y \in T : ~(y < x)
    BY <2>1, Zenon DEF OpToRel
  <2>3. QED
    BY <2>2, Zenon
<1>2. QED
  BY <1>1

\* The elements of a sequence over S are in S.
LEMMA ToSetType ==
  ASSUME NEW S, NEW s \in Seq(S)
  PROVE  ToSet(s) \subseteq S
BY DEF ToSet

\* A prefix of a concatenation is untouched by what follows it.
LEMMA ConcatPrefix ==
  ASSUME NEW S, NEW s \in Seq(S), NEW t \in Seq(S)
  PROVE  /\ s \o t \in Seq(S)
         /\ Len(s \o t) = Len(s) + Len(t)
         /\ \A i \in 1..Len(s) : (s \o t)[i] = s[i]
BY ConcatProperties

\* A concatenation has the elements of both parts.
LEMMA ConcatElements ==
  ASSUME NEW S, NEW s \in Seq(S), NEW t \in Seq(S)
  PROVE  ToSet(s \o t) = ToSet(s) \cup ToSet(t)
<1>1. /\ Len(s) \in Nat /\ Len(t) \in Nat
      /\ DOMAIN (s \o t) = 1..Len(s) + Len(t)
      /\ DOMAIN s = 1..Len(s) /\ DOMAIN t = 1..Len(t)
      /\ \A i \in 1..Len(s) : (s \o t)[i] = s[i]
      /\ \A i \in 1..Len(t) : (s \o t)[Len(s) + i] = t[i]
  BY ConcatProperties
<1>2. ToSet(s \o t) \subseteq ToSet(s) \cup ToSet(t)
  <2>1. \A i \in 1..Len(s) + Len(t) :
          i \in 1..Len(s) \/ (i - Len(s) \in 1..Len(t) /\ i = Len(s) + (i - Len(s)))
    BY <1>1
  <2>2. \A i \in 1..Len(s) + Len(t) : (s \o t)[i] \in ToSet(s) \cup ToSet(t)
    BY <1>1, <2>1 DEF ToSet
  <2>3. QED
    BY <1>1, <2>2 DEF ToSet
<1>3. ToSet(s) \cup ToSet(t) \subseteq ToSet(s \o t)
  <2>1. \A i \in 1..Len(s) : i \in 1..Len(s) + Len(t)
    BY <1>1
  <2>2. \A i \in 1..Len(t) : Len(s) + i \in 1..Len(s) + Len(t)
    BY <1>1
  <2>3. \A i \in DOMAIN s : s[i] \in ToSet(s \o t)
    BY <1>1, <2>1 DEF ToSet
  <2>4. \A i \in DOMAIN t : t[i] \in ToSet(s \o t)
    BY <1>1, <2>2 DEF ToSet
  <2>5. QED
    BY <2>3, <2>4 DEF ToSet
<1>4. QED
  BY <1>2, <1>3

\* Finitely many naturals have an upper bound that is 0 or one of them.
LEMMA MaxExists ==
  ASSUME NEW N \in Nat, NEW D \in SUBSET (1..N), NEW f, \A i \in D : f[i] \in Nat
  PROVE  \E m \in {0} \cup {f[i] : i \in D} : m \in Nat /\ \A i \in D : f[i] <= m
<1> DEFINE Bounded(n) == \E m \in {0} \cup {f[i] : i \in D} : m \in Nat /\ \A i \in D : i <= n => f[i] <= m
           T == {n \in Nat : ~Bounded(n)}
<1>0. \A i \in D : i \in Nat /\ 0 < i /\ i <= N
  OBVIOUS
<1>1. Bounded(0)
  BY <1>0 DEF Bounded
<1>2. ASSUME NEW n \in Nat, Bounded(n) PROVE Bounded(n + 1)
  <2>1. PICK m \in {0} \cup {f[i] : i \in D} : m \in Nat /\ \A i \in D : i <= n => f[i] <= m
    BY <1>2
  <2>2. \A i \in D : i <= n + 1 => i <= n \/ i = n + 1
    BY <1>0
  <2>3. CASE n + 1 \in D /\ f[n + 1] > m
    <3>1. f[n + 1] \in Nat /\ \A i \in D : i <= n + 1 => f[i] <= f[n + 1]
      BY <2>1, <2>2, <2>3
    <3>2. QED
      BY <2>3, <3>1
  <2>4. CASE ~(n + 1 \in D /\ f[n + 1] > m)
    <3>1. \A i \in D : i <= n + 1 => f[i] <= m
      BY <2>1, <2>2, <2>4
    <3>2. QED
      BY <2>1, <3>1
  <2>5. QED
    BY <2>3, <2>4
<1> HIDE DEF Bounded
<1>3. T = {}
  <2> SUFFICES ASSUME T # {} PROVE FALSE
    OBVIOUS
  <2>1. PICK n \in T : \A k \in T : n <= k
    BY LeastNatural
  <2>2. n # 0 /\ n \in Nat
    BY <1>1
  <2>3. n - 1 \in Nat /\ Bounded(n - 1)
    BY <2>1, <2>2
  <2>4. Bounded((n - 1) + 1) /\ (n - 1) + 1 = n
    BY <1>2, <2>2, <2>3
  <2>5. QED
    BY <2>4
<1>4. Bounded(N)
  BY <1>3
<1>5. QED
  BY <1>0, <1>4 DEF Bounded

\* Adding to the end of the second of two sequences adds to the end of both.
LEMMA AppendToConcat ==
  ASSUME NEW S, NEW s \in Seq(S), NEW t \in Seq(S), NEW e \in S
  PROVE  s \o Append(t, e) = Append(s \o t, e)
<1>1. /\ Append(t, e) \in Seq(S) /\ s \o t \in Seq(S) /\ Len(s) \in Nat /\ Len(t) \in Nat
      /\ Len(Append(t, e)) = Len(t) + 1 /\ Len(s \o t) = Len(s) + Len(t)
  BY AppendProperties, ConcatProperties
<1>2. /\ s \o Append(t, e) \in Seq(S) /\ Append(s \o t, e) \in Seq(S)
      /\ Len(s \o Append(t, e)) = Len(Append(s \o t, e))
  BY <1>1, AppendProperties, ConcatProperties
<1>3. \A i \in 1..Len(s \o Append(t, e)) : (s \o Append(t, e))[i] = Append(s \o t, e)[i]
  BY <1>1
<1>4. QED
  BY <1>2, <1>3, SeqEqual

\* Appending adds one element; taking the head away loses no other.
LEMMA AppendElements ==
  ASSUME NEW S, NEW s \in Seq(S), NEW e \in S
  PROVE  ToSet(Append(s, e)) = ToSet(s) \cup {e}
<1>1. /\ Len(s) \in Nat /\ DOMAIN s = 1..Len(s)
      /\ DOMAIN Append(s, e) = 1..Len(s) + 1
      /\ \A i \in 1..Len(s) : Append(s, e)[i] = s[i]
      /\ Append(s, e)[Len(s) + 1] = e
  BY AppendProperties
<1>2. \A i \in 1..Len(s) + 1 : i \in 1..Len(s) \/ i = Len(s) + 1
  BY <1>1
<1>3. \A i \in 1..Len(s) : i \in 1..Len(s) + 1
  BY <1>1
<1>4. Len(s) + 1 \in 1..Len(s) + 1
  BY <1>1
<1>5. QED
  BY <1>1, <1>2, <1>3, <1>4 DEF ToSet

LEMMA HeadTailElements ==
  ASSUME NEW S, NEW s \in Seq(S), s # <<>>
  PROVE  /\ Head(s) \in S /\ Tail(s) \in Seq(S)
         /\ ToSet(s) = {Head(s)} \cup ToSet(Tail(s))
<1>1. /\ Len(s) \in Nat \ {0} /\ DOMAIN s = 1..Len(s)
      /\ Head(s) = s[1] /\ Head(s) \in S /\ Tail(s) \in Seq(S)
      /\ DOMAIN Tail(s) = 1..Len(s) - 1
      /\ \A i \in 1..Len(s) - 1 : Tail(s)[i] = s[i + 1]
  BY HeadTailProperties, LenProperties, EmptySeq
<1>2. \A i \in 1..Len(s) : i = 1 \/ (i - 1 \in 1..Len(s) - 1 /\ (i - 1) + 1 = i)
  BY <1>1
<1>3. \A i \in 1..Len(s) - 1 : i + 1 \in 1..Len(s)
  BY <1>1
<1>4. ToSet(s) \subseteq {Head(s)} \cup ToSet(Tail(s))
  <2>1. \A i \in 1..Len(s) - 1 : Tail(s)[i] \in ToSet(Tail(s))
    BY <1>1 DEF ToSet
  <2>2. \A i \in 1..Len(s) : i - 1 \in 1..Len(s) - 1 => s[i] = Tail(s)[i - 1]
    BY <1>1, <1>2
  <2>3. \A i \in 1..Len(s) : s[i] \in {Head(s)} \cup ToSet(Tail(s))
    BY <1>1, <1>2, <2>1, <2>2
  <2>4. QED
    BY <1>1, <2>3 DEF ToSet
<1>5. {Head(s)} \cup ToSet(Tail(s)) \subseteq ToSet(s)
  BY <1>1, <1>3 DEF ToSet
<1>6. QED
  BY <1>1, <1>4, <1>5

\* Moving the head of the second of two sequences to the end of the first
\* leaves their concatenation as it is.
LEMMA MoveHead ==
  ASSUME NEW S, NEW s \in Seq(S), NEW t \in Seq(S), t # <<>>
  PROVE  /\ Append(s, Head(t)) \in Seq(S)
         /\ Append(s, Head(t)) \o Tail(t) = s \o t
<1>1. /\ Head(t) \in S /\ Tail(t) \in Seq(S) /\ Len(t) \in Nat \ {0} /\ Len(s) \in Nat
      /\ Len(Tail(t)) = Len(t) - 1 /\ Head(t) = t[1]
      /\ \A i \in 1..Len(t) - 1 : Tail(t)[i] = t[i + 1]
  BY HeadTailProperties, LenProperties, EmptySeq
<1>2. /\ Append(s, Head(t)) \in Seq(S)
      /\ Len(Append(s, Head(t))) = Len(s) + 1
      /\ \A i \in 1..Len(s) : Append(s, Head(t))[i] = s[i]
      /\ Append(s, Head(t))[Len(s) + 1] = t[1]
  BY <1>1, AppendProperties
<1> DEFINE u == Append(s, Head(t))
           v == Tail(t)
<1> HIDE DEF u, v
<1>3. /\ u \o v \in Seq(S) /\ s \o t \in Seq(S)
      /\ Len(u \o v) = Len(s) + Len(t) /\ Len(s \o t) = Len(s) + Len(t)
  <2>1. u \in Seq(S) /\ v \in Seq(S) /\ Len(u) = Len(s) + 1 /\ Len(v) = Len(t) - 1
    BY <1>1, <1>2 DEF u, v
  <2>2. u \o v \in Seq(S) /\ Len(u \o v) = Len(u) + Len(v) /\ s \o t \in Seq(S) /\ Len(s \o t) = Len(s) + Len(t)
    BY <2>1, ConcatProperties
  <2>3. QED
    BY <1>1, <2>1, <2>2
<1>4. \A i \in 1..Len(s) + Len(t) : (u \o v)[i] = (s \o t)[i]
  <2>1. /\ Len(u) = Len(s) + 1 /\ Len(v) = Len(t) - 1
        /\ \A i \in 1..Len(s) : u[i] = s[i]
        /\ u[Len(s) + 1] = t[1]
        /\ \A i \in 1..Len(t) - 1 : v[i] = t[i + 1]
        /\ u \in Seq(S) /\ v \in Seq(S)
    BY <1>1, <1>2 DEF u, v
  <2>2. /\ \A i \in 1..Len(u) + Len(v) : (u \o v)[i] = IF i <= Len(u) THEN u[i] ELSE v[i - Len(u)]
        /\ \A i \in 1..Len(s) + Len(t) : (s \o t)[i] = IF i <= Len(s) THEN s[i] ELSE t[i - Len(s)]
    BY <2>1, ConcatProperties
  <2> SUFFICES ASSUME NEW i \in 1..Len(s) + Len(t) PROVE (u \o v)[i] = (s \o t)[i]
    OBVIOUS
  <2>3. CASE i <= Len(s)
    BY <1>1, <2>1, <2>2, <2>3
  <2>4. CASE i = Len(s) + 1
    BY <1>1, <2>1, <2>2, <2>4
  <2>5. CASE i > Len(s) + 1
    <3>1. i - Len(u) \in 1..Len(t) - 1 /\ (i - Len(u)) + 1 = i - Len(s)
      BY <1>1, <2>1, <2>5
    <3>2. v[i - Len(u)] = t[i - Len(s)]
      BY <2>1, <3>1
    <3>3. QED
      BY <1>1, <2>1, <2>2, <2>5, <3>2
  <2>6. i <= Len(s) \/ i = Len(s) + 1 \/ i > Len(s) + 1
    BY <1>1
  <2>7. QED
    BY <2>3, <2>4, <2>5, <2>6
<1>5. u \o v = s \o t
  BY <1>3, <1>4, SeqEqual
<1>6. QED
  BY <1>2, <1>5 DEF u, v

\* A sequence that is one followed by another is their concatenation.
LEMMA JoinedIs ==
  ASSUME NEW S, NEW a \in Seq(S), NEW b \in Seq(S), NEW c \in Seq(S), Len(c) = Len(a) + Len(b),
         \A i \in 1..Len(a) : c[i] = a[i], \A i \in 1..Len(b) : c[Len(a) + i] = b[i]
  PROVE  a \o b = c
<1>1. Len(a) \in Nat /\ Len(b) \in Nat
  BY LenProperties
<1>2. /\ a \o b \in Seq(S) /\ Len(a \o b) = Len(c)
      /\ \A i \in 1..Len(a) + Len(b) : (a \o b)[i] = IF i <= Len(a) THEN a[i] ELSE b[i - Len(a)]
  BY ConcatProperties
<1>3. ASSUME NEW i \in 1..Len(a \o b)
      PROVE  (a \o b)[i] = c[i]
  <2>1. CASE i <= Len(a)
    BY <1>1, <1>2, <2>1
  <2>2. CASE ~(i <= Len(a))
    <3>1. i - Len(a) \in 1..Len(b) /\ Len(a) + (i - Len(a)) = i
      BY <1>1, <1>2, <2>2
    <3>2. c[i] = b[i - Len(a)]
      BY <3>1
    <3>3. QED
      BY <1>2, <2>2, <3>2
  <2>3. QED
    BY <2>1, <2>2
<1>4. QED
  BY <1>2, <1>3, SeqEqual

\* The first of two sequences is a prefix of both together.
LEMMA ConcatIsPrefix ==
  ASSUME NEW S, NEW s \in Seq(S), NEW t \in Seq(S)
  PROVE  IsPrefix(s, s \o t)
<1>1. /\ Len(s) \in Nat /\ Len(t) \in Nat /\ s \o t \in Seq(S)
      /\ Len(s \o t) = Len(s) + Len(t)
      /\ \A i \in 1..Len(s) : (s \o t)[i] = s[i]
  BY ConcatPrefix, LenProperties
<1> DEFINE a == SubSeq(s, 1, Len(s))
           b == SubSeq(s \o t, 1, Len(s))
<1>2. /\ a \in Seq(S) /\ Len(a) = Len(s) /\ \A i \in 1..Len(s) : a[i] = s[i]
  BY <1>1, SubSeqProperties
<1>3. /\ b \in Seq(S) /\ Len(b) = Len(s) /\ \A i \in 1..Len(s) : b[i] = s[i]
  BY <1>1, SubSeqProperties
<1> HIDE DEF a, b
<1>4. a = b
  BY <1>2, <1>3, SeqEqual
<1>5. QED
  BY <1>1, <1>4 DEF IsPrefix, a, b

\* A reversed sequence has the same elements, each as often.
LEMMA ReverseProperties ==
  ASSUME NEW S, NEW s \in Seq(S)
  PROVE  /\ Reverse(s) \in Seq(S)
         /\ Len(Reverse(s)) = Len(s)
         /\ \A i \in 1..Len(s) : Reverse(s)[i] = s[(Len(s) - i) + 1]
         /\ IsInjective(s) => IsInjective(Reverse(s))
<1>1. Len(s) \in Nat /\ DOMAIN s = 1..Len(s) /\ \A i \in 1..Len(s) : s[i] \in S
  BY LenProperties, ElementOfSeq
<1>2. \A i \in 1..Len(s) : (Len(s) - i) + 1 \in 1..Len(s)
  BY <1>1
<1>3. Reverse(s) = [i \in 1..Len(s) |-> s[(Len(s) - i) + 1]]
  BY DEF Reverse
<1>4. Reverse(s) \in [1..Len(s) -> S]
  BY <1>1, <1>2, <1>3
<1>5. Reverse(s) \in Seq(S) /\ Len(Reverse(s)) = Len(s) /\ DOMAIN Reverse(s) = 1..Len(s)
  BY <1>1, <1>4, IsASeq, LenProperties
<1>6. ASSUME IsInjective(s), NEW i \in 1..Len(s), NEW j \in 1..Len(s),
             Reverse(s)[i] = Reverse(s)[j]
      PROVE  i = j
  <2>1. (Len(s) - i) + 1 = (Len(s) - j) + 1
    BY <1>1, <1>2, <1>3, <1>6 DEF IsInjective
  <2>2. QED
    BY <1>1, <2>1
<1>7. QED
  BY <1>3, <1>5, <1>6 DEF IsInjective

\* An element that is not there yet is appended, and a head dropped, without a repetition.
LEMMA AppendDistinct ==
  ASSUME NEW S, NEW s \in Seq(S), NEW e \in S, IsInjective(s), e \notin ToSet(s)
  PROVE  IsInjective(Append(s, e))
<1> SUFFICES \A i, j \in DOMAIN Append(s, e) : Append(s, e)[i] = Append(s, e)[j] => i = j
  BY DEF IsInjective
<1>1. /\ Len(s) \in Nat /\ DOMAIN s = 1..Len(s)
      /\ DOMAIN Append(s, e) = 1..Len(s) + 1
      /\ \A i \in 1..Len(s) : Append(s, e)[i] = s[i]
      /\ Append(s, e)[Len(s) + 1] = e
  <2>1. /\ Append(s, e) \in Seq(S) /\ Len(Append(s, e)) = Len(s) + 1
        /\ \A i \in 1..Len(s) : Append(s, e)[i] = s[i]
        /\ Append(s, e)[Len(s) + 1] = e
    BY AppendProperties
  <2>2. Len(s) \in Nat /\ DOMAIN s = 1..Len(s) /\ DOMAIN Append(s, e) = 1..Len(Append(s, e))
    BY <2>1, LenProperties
  <2>3. QED
    BY <2>1, <2>2
<1>2. \A i \in 1..Len(s) : s[i] # e
  BY <1>1 DEF ToSet
<1>3. \A i \in 1..Len(s) + 1 : i \in 1..Len(s) \/ i = Len(s) + 1
  BY <1>1
<1>4. \A i, j \in 1..Len(s) : s[i] = s[j] => i = j
  BY <1>1 DEF IsInjective
<1>5. \A i, j \in 1..Len(s) + 1 : Append(s, e)[i] = Append(s, e)[j] => i = j
  BY <1>1, <1>2, <1>3, <1>4
<1>6. QED
  BY <1>1, <1>5, Zenon

LEMMA TailDistinct ==
  ASSUME NEW S, NEW s \in Seq(S), IsInjective(s), s # <<>>
  PROVE  IsInjective(Tail(s)) /\ Head(s) \notin ToSet(Tail(s))
<1>1. /\ Len(s) \in Nat \ {0} /\ DOMAIN s = 1..Len(s)
      /\ Head(s) = s[1]
      /\ DOMAIN Tail(s) = 1..Len(s) - 1
      /\ \A i \in 1..Len(s) - 1 : Tail(s)[i] = s[i + 1]
  BY HeadTailProperties, LenProperties, EmptySeq
<1>2. \A i \in 1..Len(s) - 1 : i + 1 \in 1..Len(s) /\ i + 1 # 1
  BY <1>1
<1>3. 1 \in 1..Len(s)
  BY <1>1
<1>4. QED
  BY <1>1, <1>2, <1>3 DEF IsInjective, ToSet

\* Removing the element at a place closes the gap.
LEMMA RemoveAtProperties ==
  ASSUME NEW S, NEW s \in Seq(S), NEW i \in 1..Len(s)
  PROVE  /\ RemoveAt(s, i) \in Seq(S)
         /\ Len(RemoveAt(s, i)) = Len(s) - 1
         /\ \A k \in 1..Len(s) - 1 : RemoveAt(s, i)[k] = IF k < i THEN s[k] ELSE s[k + 1]
<1> DEFINE a == SubSeq(s, 1, i - 1)
           b == SubSeq(s, i + 1, Len(s))
<1>1. Len(s) \in Nat /\ i \in Nat /\ 1 <= i /\ i <= Len(s)
  BY LenProperties
<1>2. a \in Seq(S) /\ Len(a) = i - 1 /\ \A k \in 1..i - 1 : a[k] = s[k]
  <2>1. \A k \in 1..i - 1 : s[k] \in S
    BY <1>1, ElementOfSeq
  <2>2. a = [k \in 1..i - 1 |-> s[k]]
    BY <1>1
  <2>3. QED
    BY <1>1, <2>1, <2>2
<1>3. b \in Seq(S) /\ Len(b) = Len(s) - i /\ \A k \in 1..Len(s) - i : b[k] = s[k + i]
  <2>1. \A k \in 1..Len(s) - i : s[k + i] \in S
    BY <1>1, ElementOfSeq
  <2>2. b = [k \in 1..Len(s) - i |-> s[k + i]]
    BY <1>1
  <2>3. QED
    BY <1>1, <2>1, <2>2
<1> HIDE DEF a, b
<1>4. /\ a \o b \in Seq(S) /\ Len(a \o b) = Len(a) + Len(b)
      /\ \A k \in 1..Len(a) + Len(b) : (a \o b)[k] = IF k <= Len(a) THEN a[k] ELSE b[k - Len(a)]
  BY <1>2, <1>3, ConcatProperties
<1>5. RemoveAt(s, i) = a \o b
  BY DEF RemoveAt, a, b
<1>6. Len(a) + Len(b) = Len(s) - 1
  BY <1>1, <1>2, <1>3
<1>7. ASSUME NEW k \in 1..Len(s) - 1
      PROVE  (a \o b)[k] = IF k < i THEN s[k] ELSE s[k + 1]
  <2>1. CASE k < i
    BY <1>1, <1>2, <1>4, <1>6, <1>7, <2>1
  <2>2. CASE k >= i
    <3>1. k - Len(a) \in 1..Len(s) - i /\ (k - Len(a)) + i = k + 1 /\ ~(k <= Len(a)) /\ ~(k < i)
      BY <1>1, <1>2, <1>7, <2>2
    <3>2. (a \o b)[k] = b[k - Len(a)]
      BY <1>4, <1>6, <1>7, <3>1
    <3>3. QED
      BY <1>3, <3>1, <3>2
  <2>3. QED
    <3>1. k \in Nat
      BY <1>1
    <3>2. k < i \/ k >= i
      BY <1>1, <3>1
    <3>3. QED
      BY <2>1, <2>2, <3>2
<1>8. QED
  BY <1>4, <1>5, <1>6, <1>7

LEMMA RemoveFirstProperties ==
  ASSUME NEW S, NEW s \in Seq(S), IsInjective(s), NEW e
  PROVE  /\ RemoveFirst(s, e) \in Seq(S)
         /\ IsInjective(RemoveFirst(s, e))
         /\ ToSet(RemoveFirst(s, e)) = ToSet(s) \ {e}
         /\ e \notin ToSet(s) => RemoveFirst(s, e) = s
<1> DEFINE I == {i \in 1..Len(s) : s[i] = e}
           r == RemoveFirst(s, e)
<1>0. Len(s) \in Nat /\ DOMAIN s = 1..Len(s)
  BY LenProperties
<1>1. CASE I = {}
  <2>1. r = s
    BY <1>1 DEF RemoveFirst
  <2>2. e \notin ToSet(s)
    BY <1>0, <1>1 DEF ToSet
  <2>3. QED
    BY <2>1, <2>2
<1>2. CASE I # {}
  <2>0. I \in SUBSET Nat
    BY <1>0
  <2>1. PICK i \in I : \A k \in I : i <= k
    BY <2>0, <1>2, LeastNatural, Zenon
  <2>2. Min(I) \in I
    BY <2>1 DEF Min
  <2>3. r = RemoveAt(s, Min(I))
    BY <1>2 DEF RemoveFirst, SelectInSeq
  <2>4. PICK n \in 1..Len(s) : s[n] = e /\ r = RemoveAt(s, n)
    BY <2>2, <2>3
  <2> HIDE DEF r
  <2>5. /\ r \in Seq(S) /\ Len(r) = Len(s) - 1
        /\ \A k \in 1..Len(s) - 1 : r[k] = IF k < n THEN s[k] ELSE s[k + 1]
    BY <2>4, RemoveAtProperties
  <2>6. DOMAIN r = 1..Len(s) - 1
    BY <2>5
  <2>7. \A k \in 1..Len(s) - 1 : k \in 1..Len(s) /\ k + 1 \in 1..Len(s) /\ k \in Nat
    BY <1>0
  <2>8. IsInjective(r)
    <3>1. \A k, m \in 1..Len(s) : s[k] = s[m] => k = m
      BY <1>0 DEF IsInjective
    <3>2. ASSUME NEW k \in 1..Len(s) - 1, NEW m \in 1..Len(s) - 1, r[k] = r[m]
          PROVE  k = m
      <4>1. /\ r[k] = IF k < n THEN s[k] ELSE s[k + 1]
            /\ r[m] = IF m < n THEN s[m] ELSE s[m + 1]
        BY <2>5
      <4>2. k \in Nat /\ m \in Nat /\ n \in Nat
        BY <1>0
      <4>3. /\ k \in 1..Len(s) /\ k + 1 \in 1..Len(s)
            /\ m \in 1..Len(s) /\ m + 1 \in 1..Len(s)
        BY <2>7
      <4>4. (IF k < n THEN k ELSE k + 1) = (IF m < n THEN m ELSE m + 1)
        BY <3>1, <3>2, <4>1, <4>3
      <4>5. QED
        BY <4>2, <4>4
    <3>3. QED
      BY <2>6, <3>2 DEF IsInjective
  <2>9. ToSet(r) \subseteq ToSet(s) \ {e}
    <3>1. \A k \in 1..Len(s) - 1 : \E m \in 1..Len(s) : m # n /\ r[k] = s[m]
      BY <1>0, <2>5, <2>7
    <3>2. \A m \in 1..Len(s) : m # n => s[m] # e
      BY <1>0, <2>4 DEF IsInjective
    <3>3. QED
      BY <1>0, <2>6, <3>1, <3>2 DEF ToSet
  <2>10. ToSet(s) \ {e} \subseteq ToSet(r)
    <3>1. \A m \in 1..Len(s) : m # n => \E k \in 1..Len(s) - 1 : r[k] = s[m]
      <4> SUFFICES ASSUME NEW m \in 1..Len(s), m # n
                   PROVE  \E k \in 1..Len(s) - 1 : r[k] = s[m]
        OBVIOUS
      <4>1. CASE m < n
        BY <1>0, <2>5, <4>1
      <4>2. CASE m > n
        <5>1. m - 1 \in 1..Len(s) - 1 /\ ~(m - 1 < n) /\ (m - 1) + 1 = m
          BY <1>0, <4>2
        <5>2. r[m - 1] = s[m]
          BY <2>5, <5>1
        <5>3. QED
          BY <5>1, <5>2
      <4>3. QED
        BY <1>0, <4>1, <4>2
    <3>2. QED
      BY <1>0, <2>4, <2>6, <3>1 DEF ToSet
  <2>11. e \in ToSet(s)
    BY <1>0, <2>4 DEF ToSet
  <2>12. QED
    BY <2>5, <2>8, <2>9, <2>10, <2>11 DEF r
<1>3. QED
  BY <1>1, <1>2

=============================================================================
