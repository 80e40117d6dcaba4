---------------------------- MODULE ListLemmas ----------------------------
(***************************************************************************)
(* Facts about natural numbers and lists that the other proofs need:       *)
(* induction in the form that the provers can use, where the step is about *)
(* membership in a set, and from it what FlattenSeq and RemoveFirst return *)
(* for lists of any length.                                                *)
(***************************************************************************)
EXTENDS SequencesExt, SequenceTheorems, WellFoundedInduction, TLAPS

\* A set of natural numbers has a least one.
LEMMA Least ==
  ASSUME NEW T \in SUBSET Nat, T # {}
  PROVE  \E x \in T : \A y \in T : x <= y
<1> DEFINE R == OpToRel(<, Nat)
<1>1. IsWellFoundedOn(R, Nat)
  BY NatLessThanWellFounded
<1>2. PICK x \in T : \A y \in T : ~(<<y, x>> \in R)
  <2> HIDE DEF R
  <2> QED BY <1>1, WFMin
<1>3. \A m, n \in Nat : <<m, n>> \in R <=> m < n
  BY DEF OpToRel
<1> HIDE DEF R
<1>4. ASSUME NEW y \in T PROVE x <= y
  <2>1. x \in Nat /\ y \in Nat /\ ~(<<y, x>> \in R)
    BY <1>2
  <2> QED BY <1>3, <2>1
<1> QED BY <1>4

\* Induction.
LEMMA Induct ==
  ASSUME NEW S, 0 \in S, \A n \in Nat : n \in S => n + 1 \in S
  PROVE  \A n \in Nat : n \in S
<1> SUFFICES ASSUME Nat \ S # {} PROVE FALSE
  OBVIOUS
<1>1. PICK x \in Nat \ S : \A y \in Nat \ S : x <= y
  BY Least
<1>2. x # 0 /\ x - 1 \in Nat /\ (x - 1) + 1 = x
  BY <1>1
<1>3. x - 1 \in S
  BY <1>1, <1>2
<1> QED BY <1>1, <1>2, <1>3

\* The first of some numbers up to n, or none.
LEMMA FirstOf ==
  ASSUME NEW n \in Nat, NEW T
  PROVE  \E k \in 0 .. n : /\ \A i \in 1 .. k : i \notin T
                           /\ k < n => k + 1 \in T
<1>1. CASE \A i \in 1 .. n : i \notin T
  BY <1>1
<1>2. CASE \E i \in 1 .. n : i \in T
  <2>1. PICK x \in T \cap (1 .. n) : \A y \in T \cap (1 .. n) : x <= y
    <3>1. T \cap (1 .. n) \in SUBSET Nat /\ T \cap (1 .. n) # {}
      BY <1>2
    <3> QED BY <3>1, Least
  <2>2. /\ x - 1 \in 0 .. n /\ (x - 1) + 1 \in T
        /\ \A i \in 1 .. x - 1 : i \notin T
    BY <2>1
  <2> QED BY <2>2
<1> QED BY <1>1, <1>2

-----------------------------------------------------------------------------
\* FlattenSeq goes through the lists with a function of its own.
LEMMA FlattenFunction ==
  ASSUME NEW qs, Len(qs) \in Nat \ {0}
  PROVE  \E f : /\ f = [i \in 1 .. Len(qs) |-> IF i = 1 THEN qs[i] ELSE f[i - 1] \o qs[i]]
               /\ FlattenSeq(qs) = f[Len(qs)]
<1> DEFINE Is(f, n) == f = [i \in 1 .. n |-> IF i = 1 THEN qs[i] ELSE f[i - 1] \o qs[i]]
           Good == {n \in Nat : \E f : Is(f, n)}
<1>1. 0 \in Good
  <2>1. Is([i \in 1 .. 0 |-> <<>>], 0)
    OBVIOUS
  <2> QED BY <2>1
<1>2. ASSUME NEW n \in Nat, n \in Good PROVE n + 1 \in Good
  <2>1. PICK f : Is(f, n)
    BY <1>2
  <2>2. \A i \in 1 .. n : f[i] = IF i = 1 THEN qs[i] ELSE f[i - 1] \o qs[i]
    BY <2>1
  <2> DEFINE g == [i \in 1 .. n + 1 |->
                     IF i <= n THEN f[i]
                     ELSE IF i = 1 THEN qs[i] ELSE f[i - 1] \o qs[i]]
  <2>3. \A i \in 1 .. n + 1 :
          g[i] = IF i <= n THEN f[i] ELSE IF i = 1 THEN qs[i] ELSE f[i - 1] \o qs[i]
    OBVIOUS
  <2>4. g = [i \in 1 .. n + 1 |-> g[i]]
    OBVIOUS
  <2> HIDE DEF g, Is, Good
  <2>5. ASSUME NEW i \in 1 .. n + 1
        PROVE  g[i] = IF i = 1 THEN qs[i] ELSE g[i - 1] \o qs[i]
    <3>1. CASE i = 1
      BY <2>2, <2>3, <3>1
    <3>2. CASE i # 1
      <4>1. i - 1 \in 1 .. n /\ i - 1 \in 1 .. n + 1 /\ i - 1 <= n
        BY <3>2
      <4>2. g[i - 1] = f[i - 1]
        BY <2>3, <4>1
      <4>3. g[i] = f[i - 1] \o qs[i]
        <5>1. CASE i <= n
          <6>1. i \in 1 .. n
            BY <5>1
          <6>2. f[i] = f[i - 1] \o qs[i]
            BY <2>2, <3>2, <6>1
          <6> QED BY <2>3, <5>1, <6>2
        <5>2. CASE ~(i <= n)
          BY <2>3, <3>2, <5>2
        <5> QED BY <5>1, <5>2
      <4> QED BY <3>2, <4>2, <4>3
    <3> QED BY <3>1, <3>2
  <2>6. Is(g, n + 1)
    BY <2>4, <2>5 DEF Is
  <2> QED BY <2>6 DEF Good
<1>3. \A n \in Nat : n \in Good
  <2> HIDE DEF Good
  <2> QED BY <1>1, <1>2, Induct
<1>4. PICK f : Is(f, Len(qs))
  BY <1>3
<1> DEFINE c == CHOOSE h : Is(h, Len(qs))
<1>5. Is(c, Len(qs))
  BY <1>4
<1>6. FlattenSeq(qs) = c[Len(qs)]
  BY DEF FlattenSeq
<1> QED BY <1>5, <1>6

\* Two lists in a row.
LEMMA Joined ==
  ASSUME NEW S, NEW q \in Seq(S), NEW r \in Seq(S)
  PROVE  /\ q \o r \in Seq(S)
         /\ Range(q \o r) = Range(q) \cup Range(r)
         /\ IsInjective(q) /\ IsInjective(r) /\ Range(q) \cap Range(r) = {} => IsInjective(q \o r)
<1>1. /\ q \o r \in Seq(S) /\ Len(q \o r) = Len(q) + Len(r)
      /\ \A i \in 1 .. Len(q) + Len(r) :
           (q \o r)[i] = IF i <= Len(q) THEN q[i] ELSE r[i - Len(q)]
  BY ConcatProperties
<1>2. Range(q \o r) = Range(q) \cup Range(r)
  BY RangeConcatenation
<1>3. /\ DOMAIN q = 1 .. Len(q) /\ Len(q) \in Nat /\ DOMAIN r = 1 .. Len(r) /\ Len(r) \in Nat
      /\ DOMAIN (q \o r) = 1 .. Len(q) + Len(r)
  BY <1>1, LenProperties
<1>4. ASSUME IsInjective(q), IsInjective(r), Range(q) \cap Range(r) = {},
             NEW i \in DOMAIN (q \o r), NEW j \in DOMAIN (q \o r),
             i < j, (q \o r)[i] = (q \o r)[j]
      PROVE  FALSE
  <2>1. \A k \in 1 .. Len(q) : q[k] \in Range(q)
    BY <1>3 DEF Range
  <2>2. \A k \in 1 .. Len(r) : r[k] \in Range(r)
    BY <1>3 DEF Range
  <2>3. CASE j <= Len(q)
    <3>1. i \in DOMAIN q /\ j \in DOMAIN q /\ q[i] = q[j]
      BY <1>1, <1>3, <1>4, <2>3
    <3> QED BY <1>4, <3>1 DEF IsInjective
  <2>4. CASE i > Len(q)
    <3>1. i - Len(q) \in DOMAIN r /\ j - Len(q) \in DOMAIN r /\ r[i - Len(q)] = r[j - Len(q)]
      BY <1>1, <1>3, <1>4, <2>4
    <3>2. i - Len(q) = j - Len(q)
      BY <1>4, <3>1 DEF IsInjective
    <3> QED BY <1>3, <1>4, <3>2
  <2>5. CASE i <= Len(q) /\ j > Len(q)
    <3>1. i \in 1 .. Len(q) /\ j - Len(q) \in 1 .. Len(r) /\ q[i] = r[j - Len(q)]
      BY <1>1, <1>3, <1>4, <2>5
    <3> QED BY <1>4, <2>1, <2>2, <3>1
  <2> QED BY <1>3, <2>3, <2>4, <2>5
<1>5. IsInjective(q) /\ IsInjective(r) /\ Range(q) \cap Range(r) = {} => IsInjective(q \o r)
  <2> SUFFICES ASSUME IsInjective(q), IsInjective(r), Range(q) \cap Range(r) = {},
                      NEW i \in DOMAIN (q \o r), NEW j \in DOMAIN (q \o r), (q \o r)[i] = (q \o r)[j]
               PROVE  i = j
    BY DEF IsInjective
  <2> QED BY <1>3, <1>4
<1> QED BY <1>1, <1>2, <1>5

\* The lists qs in a row have the elements of all of them, and no element twice
\* if none of them has and no two have one in common.
LEMMA Flattened ==
  ASSUME NEW S, NEW qs \in Seq(Seq(S)), qs # <<>>
  PROVE  /\ FlattenSeq(qs) \in Seq(S)
         /\ \A x : x \in Range(FlattenSeq(qs)) <=> \E k \in DOMAIN qs : x \in Range(qs[k])
         /\ /\ \A k \in DOMAIN qs : IsInjective(qs[k])
            /\ \A j, k \in DOMAIN qs : j # k => Range(qs[j]) \cap Range(qs[k]) = {}
            => IsInjective(FlattenSeq(qs))
<1> DEFINE Apart == /\ \A k \in DOMAIN qs : IsInjective(qs[k])
                    /\ \A j, k \in DOMAIN qs : j # k => Range(qs[j]) \cap Range(qs[k]) = {}
<1>1. /\ Len(qs) \in Nat \ {0} /\ DOMAIN qs = 1 .. Len(qs)
      /\ \A k \in 1 .. Len(qs) : qs[k] \in Seq(S)
  BY EmptySeq, LenProperties
<1>2. PICK f : /\ f = [i \in 1 .. Len(qs) |-> IF i = 1 THEN qs[i] ELSE f[i - 1] \o qs[i]]
               /\ FlattenSeq(qs) = f[Len(qs)]
  BY <1>1, FlattenFunction
<1>3. \A i \in 1 .. Len(qs) : f[i] = IF i = 1 THEN qs[i] ELSE f[i - 1] \o qs[i]
  BY <1>2
<1> DEFINE Right(n) ==
             /\ f[n] \in Seq(S)
             /\ \A x : x \in Range(f[n]) <=> \E k \in 1 .. n : x \in Range(qs[k])
             /\ Apart => IsInjective(f[n])
           Good == {n \in Nat : n \in 1 .. Len(qs) => Right(n)}
<1>4. 0 \in Good
  OBVIOUS
<1>5. ASSUME NEW n \in Nat, n \in Good, n + 1 \in 1 .. Len(qs) PROVE Right(n + 1)
  <2>1. CASE n = 0
    <3>1. f[1] = qs[1] /\ 1 \in 1 .. Len(qs)
      BY <1>3, <1>5, <2>1
    <3>2. f[1] \in Seq(S) /\ (Apart => IsInjective(f[1]))
      BY <1>1, <3>1
    <3>3. \A x : x \in Range(f[1]) <=> \E k \in 1 .. 1 : x \in Range(qs[k])
      BY <3>1
    <3> QED BY <2>1, <3>2, <3>3
  <2>2. CASE n # 0
    <3>1. n \in 1 .. Len(qs) /\ f[n + 1] = f[n] \o qs[n + 1] /\ qs[n + 1] \in Seq(S)
      <4>1. n \in 1 .. Len(qs) /\ n + 1 # 1 /\ (n + 1) - 1 = n
        BY <1>1, <1>5, <2>2
      <4>2. f[n + 1] = f[(n + 1) - 1] \o qs[n + 1]
        BY <1>3, <1>5, <4>1
      <4> QED BY <1>1, <1>5, <4>1, <4>2
    <3>2. Right(n)
      BY <1>5, <3>1
    <3>3. f[n + 1] \in Seq(S) /\ Range(f[n + 1]) = Range(f[n]) \cup Range(qs[n + 1])
      BY <3>1, <3>2, Joined
    <3>4. \A x : x \in Range(f[n + 1]) <=> \E k \in 1 .. n + 1 : x \in Range(qs[k])
      <4>1. \A x : x \in Range(f[n]) <=> \E k \in 1 .. n : x \in Range(qs[k])
        BY <3>2
      <4>2. 1 .. n + 1 = (1 .. n) \cup {n + 1}
        OBVIOUS
      <4> QED BY <3>3, <4>1, <4>2
    <3>5. ASSUME Apart PROVE IsInjective(f[n + 1])
      <4>1. IsInjective(f[n]) /\ IsInjective(qs[n + 1])
        BY <1>1, <1>5, <3>2, <3>5
      <4>2. Range(f[n]) \cap Range(qs[n + 1]) = {}
        <5> SUFFICES ASSUME NEW x \in Range(f[n]), x \in Range(qs[n + 1]) PROVE FALSE
          OBVIOUS
        <5>1. PICK k \in 1 .. n : x \in Range(qs[k])
          BY <3>2
        <5>2. k \in DOMAIN qs /\ n + 1 \in DOMAIN qs /\ k # n + 1
          BY <1>1, <1>5
        <5> QED BY <3>5, <5>1, <5>2
      <4> QED BY <3>1, <3>2, <4>1, <4>2, Joined
    <3> QED BY <3>3, <3>4, <3>5
  <2> QED BY <2>1, <2>2
<1>6. \A n \in Nat : n \in Good
  <2>1. \A n \in Nat : n \in Good => n + 1 \in Good
    <3> SUFFICES ASSUME NEW n \in Nat, n \in Good, n + 1 \in 1 .. Len(qs) PROVE Right(n + 1)
      <4> HIDE DEF Right
      <4> QED OBVIOUS
    <3> QED BY <1>5
  <2> HIDE DEF Good
  <2> QED BY <1>4, <2>1, Induct
<1>7. Right(Len(qs))
  <2> HIDE DEF Right
  <2> QED BY <1>1, <1>6
<1> QED BY <1>1, <1>2, <1>7

\* A list without one of its elements, of which it has each once.
LEMMA Removed ==
  ASSUME NEW S, NEW q \in Seq(S), IsInjective(q), NEW x
  PROVE  /\ RemoveFirst(q, x) \in Seq(S)
         /\ Range(RemoveFirst(q, x)) = Range(q) \ {x}
         /\ IsInjective(RemoveFirst(q, x))
         /\ x \in Range(q) => Len(RemoveFirst(q, x)) = Len(q) - 1
<1>1. /\ Len(q) \in Nat /\ DOMAIN q = 1 .. Len(q) /\ \A i \in 1 .. Len(q) : q[i] \in S
      /\ Range(q) = {q[i] : i \in 1 .. Len(q)}
  BY LenProperties DEF Range
<1>2. CASE ~\E i \in 1 .. Len(q) : q[i] = x
  <2>1. RemoveFirst(q, x) = q
    BY <1>2 DEF RemoveFirst
  <2> QED BY <1>1, <1>2, <2>1
<1>3. CASE \E i \in 1 .. Len(q) : q[i] = x
  <2> DEFINE I == {i \in 1 .. Len(q) : q[i] = x}
             k == Min(I)
             r == RemoveAt(q, k)
  <2>1. RemoveFirst(q, x) = r
    <3>1. I # {}
      BY <1>3
    <3> QED BY <1>3, <3>1 DEF RemoveFirst, SelectInSeq
  <2>2. k \in 1 .. Len(q) /\ q[k] = x
    <3>1. I \in SUBSET Nat /\ I # {}
      BY <1>1, <1>3
    <3>2. \E m \in I : \A n \in I : m <= n
      BY <3>1, Least
    <3>3. k \in I
      <4> HIDE DEF I
      <4> QED BY <3>2 DEF Min
    <3> QED BY <3>3
  <2> HIDE DEF k, I
  <2>3. /\ SubSeq(q, 1, k - 1) \in Seq(S) /\ Len(SubSeq(q, 1, k - 1)) = k - 1
        /\ \A i \in 1 .. k - 1 : SubSeq(q, 1, k - 1)[i] = q[i]
    BY <1>1, <2>2, SubSeqProperties
  <2>4. /\ SubSeq(q, k + 1, Len(q)) \in Seq(S) /\ Len(SubSeq(q, k + 1, Len(q))) = Len(q) - k
        /\ \A i \in 1 .. Len(q) - k : SubSeq(q, k + 1, Len(q))[i] = q[k + i]
    <3>1. /\ SubSeq(q, k + 1, Len(q)) \in Seq(S)
          /\ Len(SubSeq(q, k + 1, Len(q))) = IF k + 1 <= Len(q) THEN Len(q) - (k + 1) + 1 ELSE 0
          /\ \A i \in 1 .. Len(q) - (k + 1) + 1 : SubSeq(q, k + 1, Len(q))[i] = q[(k + 1) + i - 1]
      BY <1>1, <2>2, SubSeqProperties
    <3>2. Len(q) - (k + 1) + 1 = Len(q) - k /\ \A i \in Nat : (k + 1) + i - 1 = k + i
      BY <1>1, <2>2
    <3>3. Len(SubSeq(q, k + 1, Len(q))) = Len(q) - k
      <4>0. Len(q) \in Nat /\ k \in Nat /\ k <= Len(q)
        BY <1>1, <2>2
      <4>1. CASE k + 1 <= Len(q)
        <5>1. Len(SubSeq(q, k + 1, Len(q))) = Len(q) - (k + 1) + 1
          BY <3>1, <4>1
        <5> QED BY <4>0, <5>1
      <4>2. CASE ~(k + 1 <= Len(q))
        <5>1. Len(SubSeq(q, k + 1, Len(q))) = 0
          BY <3>1, <4>2
        <5>2. Len(q) = k
          BY <4>0, <4>2
        <5> QED BY <4>0, <5>1, <5>2
      <4> QED BY <4>1, <4>2
    <3>4. ASSUME NEW i \in 1 .. Len(q) - k PROVE SubSeq(q, k + 1, Len(q))[i] = q[k + i]
      <4>1. SubSeq(q, k + 1, Len(q))[i] = q[(k + 1) + i - 1]
        BY <3>1, <3>2
      <4>2. (k + 1) + i - 1 = k + i
        BY <2>2
      <4> QED BY <4>1, <4>2
    <3> QED BY <3>1, <3>3, <3>4
  <2>5. /\ r \in Seq(S) /\ Len(r) = Len(q) - 1
        /\ \A i \in 1 .. Len(q) - 1 : r[i] = IF i < k THEN q[i] ELSE q[i + 1]
    <3>1. /\ r \in Seq(S) /\ Len(r) = (k - 1) + (Len(q) - k)
          /\ \A i \in 1 .. (k - 1) + (Len(q) - k) :
               r[i] = IF i <= k - 1 THEN SubSeq(q, 1, k - 1)[i]
                      ELSE SubSeq(q, k + 1, Len(q))[i - (k - 1)]
      <4> DEFINE a == SubSeq(q, 1, k - 1)
                 b == SubSeq(q, k + 1, Len(q))
      <4>1. r = a \o b
        BY DEF RemoveAt
      <4>2. a \in Seq(S) /\ b \in Seq(S) /\ Len(a) = k - 1 /\ Len(b) = Len(q) - k
        BY <2>3, <2>4
      <4> HIDE DEF a, b, r
      <4>3. /\ a \o b \in Seq(S) /\ Len(a \o b) = (k - 1) + (Len(q) - k)
            /\ \A i \in 1 .. (k - 1) + (Len(q) - k) :
                 (a \o b)[i] = IF i <= k - 1 THEN a[i] ELSE b[i - (k - 1)]
        <5>1. /\ a \o b \in Seq(S) /\ Len(a \o b) = Len(a) + Len(b)
              /\ \A i \in 1 .. Len(a) + Len(b) :
                   (a \o b)[i] = IF i <= Len(a) THEN a[i] ELSE b[i - Len(a)]
          BY <4>2, ConcatProperties
        <5> QED BY <4>2, <5>1
      <4> QED BY <4>1, <4>3 DEF a, b
    <3> HIDE DEF r
    <3>2. (k - 1) + (Len(q) - k) = Len(q) - 1
      BY <1>1, <2>2
    <3>3. ASSUME NEW i \in 1 .. Len(q) - 1 PROVE r[i] = IF i < k THEN q[i] ELSE q[i + 1]
      <4>1. CASE i < k
        BY <1>1, <2>2, <2>3, <3>1, <3>2, <4>1
      <4>2. CASE ~(i < k)
        <5>1. r[i] = SubSeq(q, k + 1, Len(q))[i - (k - 1)]
          BY <1>1, <2>2, <3>1, <3>2, <4>2
        <5>2. i - (k - 1) \in 1 .. Len(q) - k /\ k + (i - (k - 1)) = i + 1
          BY <1>1, <2>2, <4>2
        <5> QED BY <2>4, <4>2, <5>1, <5>2
      <4> QED BY <4>1, <4>2
    <3> QED BY <3>1, <3>2, <3>3
  <2> HIDE DEF r
  <2>6. DOMAIN r = 1 .. Len(q) - 1
    BY <2>5, LenProperties
  <2>7. \A i, j \in 1 .. Len(q) : q[i] = q[j] => i = j
    BY <1>1 DEF IsInjective
  <2>8. IsInjective(r)
    <3> SUFFICES ASSUME NEW i \in DOMAIN r, NEW j \in DOMAIN r, r[i] = r[j] PROVE i = j
      BY DEF IsInjective
    <3>1. i \in 1 .. Len(q) - 1 /\ j \in 1 .. Len(q) - 1
      BY <2>6
    <3> DEFINE at(n) == IF n < k THEN n ELSE n + 1
    <3>2. /\ at(i) \in 1 .. Len(q) /\ at(j) \in 1 .. Len(q)
          /\ r[i] = q[at(i)] /\ r[j] = q[at(j)]
      BY <1>1, <2>2, <2>5, <3>1
    <3>3. at(i) = at(j)
      BY <2>7, <3>2
    <3> QED BY <2>2, <3>1, <3>3
  <2>9. Range(r) = Range(q) \ {x}
    <3>1. ASSUME NEW i \in 1 .. Len(q) - 1 PROVE r[i] \in Range(q) /\ r[i] # x
      BY <1>1, <2>2, <2>5, <2>7
    <3>2. ASSUME NEW i \in 1 .. Len(q), q[i] # x
          PROVE  \E j \in 1 .. Len(q) - 1 : r[j] = q[i]
      <4>1. CASE i < k
        BY <1>1, <2>2, <2>5, <4>1
      <4>2. CASE i > k
        <5>1. i - 1 \in 1 .. Len(q) - 1 /\ ~(i - 1 < k) /\ (i - 1) + 1 = i
          BY <1>1, <2>2, <4>2
        <5>2. r[i - 1] = q[i]
          BY <2>5, <5>1
        <5> QED BY <5>1, <5>2
      <4> QED BY <1>1, <2>2, <3>2, <4>1, <4>2
    <3>3. Range(r) = {r[i] : i \in 1 .. Len(q) - 1}
      BY <2>6 DEF Range
    <3>4. ASSUME NEW y \in Range(q), y # x PROVE y \in Range(r)
      BY <1>1, <3>2, <3>3, <3>4
    <3>5. ASSUME NEW y \in Range(r) PROVE y \in Range(q) /\ y # x
      BY <3>1, <3>3
    <3> QED BY <3>4, <3>5
  <2> QED BY <2>1, <2>5, <2>8, <2>9
<1> QED BY <1>2, <1>3

=============================================================================
