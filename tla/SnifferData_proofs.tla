------------------------ MODULE SnifferData_proofs ------------------------
(***************************************************************************)
(* Proofs about what the threads of TRsniffer work on: the string lists,   *)
(* what decoding a packet gives, and the fragments that are put together,  *)
(* for any datagrams and whatever becomes of their fragments on the way.   *)
(***************************************************************************)
EXTENDS StringList, LbmrDecode, IpFrags, FiniteSetTheorems, SequenceTheorems,
        WellFoundedInduction, TLAPS

(***************************************************************************)
(* The order of strings                                                    *)
(***************************************************************************)

Str == Seq(Int)

LEMMA SmallestNumber ==
  ASSUME NEW T \in SUBSET Nat, T # {}
  PROVE  \E m \in T : \A n \in T : m <= n
<1>1. IsWellFoundedOn(OpToRel(<, Nat), Nat)
  BY NatLessThanWellFounded
<1>2. PICK m \in T : \A n \in T : ~ (<<n, m>> \in OpToRel(<, Nat))
  BY <1>1, WFMin
<1>3. \A n \in T : ~ (n < m)
  BY <1>2 DEF OpToRel
<1> QED
  BY <1>3

LEMMA LargestNumber ==
  ASSUME NEW n \in Nat, NEW S \in SUBSET (1 .. n), S # {}
  PROVE  \E x \in S : \A y \in S : y <= x
<1> DEFINE T == {n - i : i \in S}
<1>1. T \in SUBSET Nat /\ T # {}
  <2>1. \A i \in S : n - i \in Nat
    OBVIOUS
  <2> QED
    BY <2>1
<1>2. PICK k \in T : \A m \in T : k <= m
  BY <1>1, SmallestNumber
<1>3. PICK x \in S : k = n - x
  BY <1>2
<1>4. ASSUME NEW y \in S PROVE y <= x
  <2>1. n - y \in T
    OBVIOUS
  <2>2. n - x <= n - y
    BY <1>2, <1>3, <2>1
  <2> QED
    BY <2>2
<1> QED
  BY <1>4

(* The first place where two strings differ decides. *)
BeforeAt(a, b, i) ==
  /\ i \in 1 .. Len(b) /\ Len(a) >= i - 1
  /\ \A j \in 1 .. i - 1 : a[j] = b[j]
  /\ Len(a) = i - 1 \/ (Len(a) >= i /\ a[i] < b[i])

LEMMA FirstDifference ==
  ASSUME NEW a \in Str, NEW b \in Str
  PROVE  Before(a, b) <=> \E i \in 1 .. Len(b) : BeforeAt(a, b, i)
<1>1. ASSUME NEW i \in 1 .. Len(b), Len(a) >= i - 1
      PROVE  SubSeq(a, 1, i - 1) = SubSeq(b, 1, i - 1) <=> \A j \in 1 .. i - 1 : a[j] = b[j]
  <2>1. /\ SubSeq(a, 1, i - 1) = [j \in 1 .. i - 1 |-> a[j]]
        /\ SubSeq(b, 1, i - 1) = [j \in 1 .. i - 1 |-> b[j]]
    BY <1>1 DEF Str
  <2> QED
    BY <2>1
<1> QED
  BY <1>1 DEF Before, BeforeAt, Str

LEMMA BeforeIrreflexive == ASSUME NEW a \in Str PROVE ~ Before(a, a)
  BY FirstDifference DEF BeforeAt, Str

LEMMA BeforeTransitive ==
  ASSUME NEW a \in Str, NEW b \in Str, NEW c \in Str, Before(a, b), Before(b, c)
  PROVE  Before(a, c)
<1>1. PICK i \in 1 .. Len(b) : BeforeAt(a, b, i)
  BY FirstDifference
<1>2. PICK j \in 1 .. Len(c) : BeforeAt(b, c, j)
  BY FirstDifference
<1> USE DEF BeforeAt, Str
<1>3. CASE i = j
  <2>1. i \in 1 .. Len(c) /\ Len(a) >= i - 1
    BY <1>1, <1>2, <1>3
  <2>2. \A h \in 1 .. i - 1 : a[h] = c[h]
    <3>1. \A h \in 1 .. i - 1 : h \in 1 .. i - 1 /\ h \in 1 .. j - 1
      BY <1>3, <2>1
    <3> QED
      BY <1>1, <1>2, <3>1
  <2>3. Len(a) = i - 1 \/ (Len(a) >= i /\ a[i] < c[i])
    <3>1. Len(a) = i - 1 \/ (Len(a) >= i /\ a[i] < b[i])
      BY <1>1
    <3>2. Len(b) = i - 1 \/ (Len(b) >= i /\ b[i] < c[i])
      BY <1>2, <1>3
    <3>3. i <= Len(b)
      BY <1>1
    <3> QED
      BY <2>1, <3>1, <3>2, <3>3
  <2>4. BeforeAt(a, c, i)
    BY <2>1, <2>2, <2>3
  <2> QED
    BY <2>1, <2>4, FirstDifference
<1>5. CASE i < j
  <2>1. i \in 1 .. Len(c) /\ Len(a) >= i - 1
    BY <1>1, <1>2, <1>5
  <2>2. \A h \in 1 .. i - 1 : a[h] = c[h]
    <3>1. \A h \in 1 .. i - 1 : h \in 1 .. i - 1 /\ h \in 1 .. j - 1
      BY <1>5, <2>1
    <3> QED
      BY <1>1, <1>2, <3>1
  <2>3. Len(a) = i - 1 \/ (Len(a) >= i /\ a[i] < c[i])
    BY <1>1, <1>2, <1>5
  <2>4. BeforeAt(a, c, i)
    BY <2>1, <2>2, <2>3
  <2> QED
    BY <2>1, <2>4, FirstDifference
<1>4. CASE j < i
  <2>1. j \in 1 .. Len(c) /\ Len(a) >= j - 1
    BY <1>1, <1>2, <1>4
  <2>2. \A h \in 1 .. j - 1 : a[h] = c[h]
    <3>1. \A h \in 1 .. j - 1 : h \in 1 .. i - 1 /\ h \in 1 .. j - 1
      BY <1>4, <2>1
    <3> QED
      BY <1>1, <1>2, <3>1
  <2>3. Len(a) = j - 1 \/ (Len(a) >= j /\ a[j] < c[j])
    BY <1>1, <1>2, <1>4
  <2>4. BeforeAt(a, c, j)
    BY <2>1, <2>2, <2>3
  <2> QED
    BY <2>1, <2>4, FirstDifference
<1> QED
  BY <1>3, <1>4, <1>5

LEMMA BeforeTotal ==
  ASSUME NEW a \in Str, NEW b \in Str, a # b
  PROVE  Before(a, b) \/ Before(b, a)
<1> USE DEF Str
<1> DEFINE T == {i \in Nat \ {0} : i > Len(a) \/ i > Len(b) \/ a[i] # b[i]}
<1>1. Len(a) + 1 \in T
  OBVIOUS
<1>2. PICK i \in T : \A j \in T : i <= j
  BY <1>1, SmallestNumber
<1>3. \A j \in 1 .. i - 1 : j <= Len(a) /\ j <= Len(b) /\ a[j] = b[j]
  BY <1>2
<1>4. ~ (i > Len(a) /\ i > Len(b))
  <2>1. ASSUME i > Len(a), i > Len(b) PROVE FALSE
    <3>1. Len(a) = i - 1 /\ Len(b) = i - 1
      BY <1>2, <1>3, <2>1
    <3> QED
      BY <1>3, <3>1
  <2> QED
    BY <2>1
<1>5. Len(a) >= i - 1 /\ Len(b) >= i - 1
  BY <1>2, <1>3
<1>6. BeforeAt(a, b, i) \/ BeforeAt(b, a, i)
  <2>1. CASE i > Len(a)
    <3>1. Len(a) = i - 1 /\ i \in 1 .. Len(b)
      BY <1>2, <1>3, <1>4, <1>5, <2>1
    <3> QED
      BY <1>3, <3>1 DEF BeforeAt
  <2>2. CASE i > Len(b)
    <3>1. Len(b) = i - 1 /\ i \in 1 .. Len(a)
      BY <1>2, <1>3, <1>4, <1>5, <2>2
    <3> QED
      BY <1>3, <3>1 DEF BeforeAt
  <2>3. CASE i <= Len(a) /\ i <= Len(b)
    <3>1. i \in 1 .. Len(a) /\ i \in 1 .. Len(b) /\ a[i] # b[i]
      BY <1>2, <2>3
    <3>2. a[i] < b[i] \/ b[i] < a[i]
      BY <3>1
    <3> QED
      BY <1>3, <1>5, <3>1, <3>2 DEF BeforeAt
  <2> QED
    BY <1>2, <2>1, <2>2, <2>3
<1> QED
  BY <1>6, FirstDifference DEF BeforeAt

(***************************************************************************)
(* Walking along a list                                                    *)
(***************************************************************************)

(* A walk that starts at the first node of a sequence, and on which each    *)
(* pointer leads to the next one of it, meets that sequence.               *)
LEMMA PathIs ==
  ASSUME NEW l, NEW a, NEW link, NEW q \in Seq(Live(l)),
         NULL \notin Live(l), IsFiniteSet(Live(l)), Len(q) <= Cardinality(Live(l)),
         a = IF Len(q) = 0 THEN NULL ELSE q[1],
         \A i \in 1 .. Len(q) :
           l.node[q[i]][link] = IF i < Len(q) THEN q[i + 1] ELSE NULL
  PROVE  Path(l, a, link) = q
<1> DEFINE n == Cardinality(Live(l))
           P(f) == f = [i \in 0 .. n |->
                          IF i = 0 THEN a
                          ELSE IF f[i - 1] \in Live(l) THEN l.node[f[i - 1]][link] ELSE NULL]
           w == [i \in 0 .. n |-> IF i < Len(q) THEN q[i + 1] ELSE NULL]
           at == CHOOSE f : P(f)
           met == {j \in 0 .. n : at[j] # NULL}
<1>0. n \in Nat /\ Len(q) \in Nat
  BY FS_CardinalityType
<1>1. P(w)
  <2> DEFINE v == [i \in 0 .. n |->
                     IF i = 0 THEN a
                     ELSE IF w[i - 1] \in Live(l) THEN l.node[w[i - 1]][link] ELSE NULL]
  <2>1. ASSUME NEW i \in 0 .. n PROVE w[i] = v[i]
    <3>1. CASE i = 0
      BY <1>0, <3>1
    <3>2. CASE i > 0
      <4>1. w[i - 1] = IF i - 1 < Len(q) THEN q[i] ELSE NULL
        BY <1>0, <3>2
      <4>2. CASE i - 1 < Len(q)
        BY <1>0, <3>2, <4>1, <4>2
      <4>3. CASE ~ (i - 1 < Len(q))
        BY <1>0, <3>2, <4>1, <4>3
      <4> QED
        BY <4>2, <4>3
    <3> QED
      BY <3>1, <3>2
  <2>2. w = v
    BY <2>1
  <2> QED
    BY <2>2
<1>2. P(at)
  <2> HIDE DEF P, w
  <2> QED
    BY <1>1, Zenon
<1>3. \A i \in 0 .. n : at[i] = w[i]
  <2> DEFINE T == {i \in 0 .. n : at[i] # w[i]}
  <2> HIDE DEF w, at
  <2> SUFFICES ASSUME T # {} PROVE FALSE
    OBVIOUS
  <2>1. PICK i \in T : \A j \in T : i <= j
    <3>1. T \in SUBSET Nat
      OBVIOUS
    <3> QED
      BY <3>1, SmallestNumber
  <2>2. i # 0
    BY <1>0, <1>1, <1>2
  <2>3. i \in 0 .. n /\ i - 1 \in 0 .. n /\ ~ (i <= i - 1)
    BY <1>0, <2>1, <2>2
  <2>4. at[i - 1] = w[i - 1]
    BY <2>1, <2>3
  <2>5. w[i] = IF w[i - 1] \in Live(l) THEN l.node[w[i - 1]][link] ELSE NULL
    BY <1>1, <2>2, <2>3
  <2>6. at[i] = IF at[i - 1] \in Live(l) THEN l.node[at[i - 1]][link] ELSE NULL
    BY <1>2, <2>2, <2>3
  <2> QED
    BY <2>1, <2>4, <2>5, <2>6
<1>4. met = 0 .. Len(q) - 1
  <2> HIDE DEF at
  <2>1. ASSUME NEW j \in 0 .. n PROVE at[j] # NULL <=> j < Len(q)
    BY <1>0, <1>3, <2>1
  <2> QED
    BY <1>0, <2>1
<1>5. Cardinality(met) = Len(q)
  <2> HIDE DEF met
  <2>1. \A k \in Nat : Cardinality(0 .. k - 1) = k
    BY FS_Interval
  <2> QED
    BY <1>0, <1>4, <2>1
<1>6. Path(l, a, link) = [i \in 1 .. Cardinality(met) |-> at[i - 1]]
  BY DEF Path
<1> HIDE DEF at, met
<1>7. \A i \in 1 .. Len(q) : at[i - 1] = q[i]
  BY <1>0, <1>3
<1>8. [i \in 1 .. Len(q) |-> at[i - 1]] = [i \in 1 .. Len(q) |-> q[i]]
  BY <1>7
<1> QED
  BY <1>5, <1>6, <1>8

(***************************************************************************)
(* A sound list                                                            *)
(***************************************************************************)

Addresses == Str \X Nat
Pointers == Addresses \union {NULL}
Node == [string : Str, next : Pointers, prev : Pointers]

(* The k-th node, or what the pointers beyond the ends hold.                *)
At(p, k) == IF k \in 1 .. Len(p) THEN p[k] ELSE NULL

(* The nodes of l are those of p, each once, *)
HasNodes(l, p) ==
  /\ p \in Seq(Live(l)) /\ Live(l) \subseteq Addresses /\ l.node \in [Live(l) -> Node]
  /\ \A a \in Live(l) : a[1] = String(l, a) /\ \E i \in 1 .. Len(p) : p[i] = a

(* linked in that order in both directions, *)
Linked(l, p) ==
  \A i \in 1 .. Len(p) :
    l.node[p[i]].next = At(p, i + 1) /\ l.node[p[i]].prev = At(p, i - 1)

(* which is the order of the strings, *)
Sorted(l, p) ==
  \A i, j \in 1 .. Len(p) : i < j => Before(String(l, p[i]), String(l, p[j]))

(* and the head of the list is right. *)
HasEnds(l, p) ==
  /\ l.top = At(p, 1) /\ l.end = At(p, Len(p)) /\ l.sz = Len(p)
  /\ IF Len(p) = 0 THEN l.last = NULL ELSE l.last \in Live(l)

Chain(l, p) == HasNodes(l, p) /\ Linked(l, p) /\ Sorted(l, p) /\ HasEnds(l, p)

LEMMA NotNull == NULL \notin Addresses
  BY DEF NULL, Addresses

LEMMA ChainFacts ==
  ASSUME NEW l, NEW p, Chain(l, p)
  PROVE  /\ Len(p) \in Nat /\ NULL \notin Live(l)
         /\ \A i \in 1 .. Len(p) : p[i] \in Live(l) /\ String(l, p[i]) \in Str
         /\ \A i, j \in 1 .. Len(p) : p[i] = p[j] => i = j
         /\ IsFiniteSet(Live(l)) /\ Cardinality(Live(l)) = Len(p)
         /\ Strings(l) = {String(l, p[i]) : i \in 1 .. Len(p)}
<1>1. Len(p) \in Nat /\ NULL \notin Live(l)
  BY NotNull DEF Chain, HasNodes
<1>2. \A i \in 1 .. Len(p) : p[i] \in Live(l) /\ String(l, p[i]) \in Str
  <2>1. p \in Seq(Live(l)) /\ l.node \in [Live(l) -> Node]
    BY DEF Chain, HasNodes
  <2>2. \A a \in Live(l) : l.node[a].string \in Str
    BY <2>1 DEF Node
  <2> QED
    BY <2>1, <2>2 DEF String
<1>3. ASSUME NEW i \in 1 .. Len(p), NEW j \in 1 .. Len(p), p[i] = p[j] PROVE i = j
  <2>1. ~ (i < j) /\ ~ (j < i)
    BY <1>2, <1>3, BeforeIrreflexive DEF Chain, Sorted
  <2> QED
    BY <2>1
<1>4. IsFiniteSet(Live(l)) /\ Cardinality(Live(l)) = Len(p)
  <2>1. p \in [1 .. Len(p) -> Live(l)]
    BY DEF Chain, HasNodes
  <2>2. p \in Bijection(1 .. Len(p), Live(l))
    BY <1>3, <2>1 DEF Chain, HasNodes, Bijection, Injection, Surjection, IsInjective
  <2>3. ExistsBijection(1 .. Len(p), Live(l))
    BY <2>2 DEF ExistsBijection
  <2> QED
    BY <1>1, <2>3, FS_NatBijection, FS_CountingElements
<1>5. Strings(l) = {String(l, p[i]) : i \in 1 .. Len(p)}
  <2>1. \A a \in Live(l) : \E i \in 1 .. Len(p) : p[i] = a
    BY DEF Chain, HasNodes
  <2>2. Live(l) = {p[i] : i \in 1 .. Len(p)}
    BY <1>2, <2>1
  <2> QED
    BY <2>2 DEF Strings
<1> QED
  BY <1>1, <1>2, <1>3, <1>4, <1>5

LEMMA PathForward ==
  ASSUME NEW l, NEW p, Chain(l, p), NEW k \in 0 .. Len(p)
  PROVE  Path(l, At(p, k + 1), "next") = [i \in 1 .. Len(p) - k |-> p[k + i]]
<1> DEFINE a == At(p, k + 1)
           q == [i \in 1 .. Len(p) - k |-> p[k + i]]
<1>1. q \in Seq(Live(l)) /\ Len(q) = Len(p) - k
  BY ChainFacts
<1>2. \A i \in 1 .. Len(q) : l.node[q[i]].next = IF i < Len(q) THEN q[i + 1] ELSE NULL
  <2> SUFFICES ASSUME NEW i \in 1 .. Len(q)
               PROVE  l.node[q[i]].next = IF i < Len(q) THEN q[i + 1] ELSE NULL
    OBVIOUS
  <2>1. k + i \in 1 .. Len(p)
    BY <1>1, ChainFacts
  <2>2. l.node[p[k + i]].next = At(p, k + i + 1)
    BY <2>1 DEF Chain, Linked
  <2>3. i < Len(q) <=> k + i < Len(p)
    BY <1>1, ChainFacts
  <2>4. At(p, k + i + 1) = IF i < Len(q) THEN p[k + i + 1] ELSE NULL
    BY <2>1, <2>3, ChainFacts DEF At
  <2>5. i < Len(q) => q[i + 1] = p[k + (i + 1)]
    BY <1>1, <2>1, ChainFacts
  <2> QED
    BY <1>1, <2>2, <2>4, <2>5
<1>3. a = IF Len(q) = 0 THEN NULL ELSE q[1]
  <2>1. CASE k < Len(p)
    <3>1. 1 \in 1 .. Len(p) - k
      BY <2>1, ChainFacts
    <3>2. q[1] = p[k + 1]
      BY <3>1
    <3>3. Len(q) # 0
      <4> HIDE DEF q
      <4>1. Len(p) \in Nat
        BY ChainFacts
      <4> QED
        BY <1>1, <2>1, <4>1
    <3> QED
      BY <2>1, <3>1, <3>2, <3>3, ChainFacts DEF At
  <2>2. CASE k = Len(p)
    BY <1>1, <2>2, ChainFacts DEF At
  <2> QED
    BY <2>1, <2>2, ChainFacts
<1>4. Len(q) <= Cardinality(Live(l))
  BY <1>1, ChainFacts
<1> HIDE DEF q, a
<1>5. Path(l, a, "next") = q
  BY <1>1, <1>2, <1>3, <1>4, ChainFacts, PathIs
<1> QED
  BY <1>5 DEF q, a

LEMMA PathFrom ==
  ASSUME NEW l, NEW p, Chain(l, p), NEW k \in 1 .. Len(p) + 1
  PROVE  Path(l, At(p, k), "next") = [i \in 1 .. Len(p) + 1 - k |-> p[k - 1 + i]]
<1> DEFINE h == k - 1
<1>1. h \in 0 .. Len(p) /\ h + 1 = k /\ Len(p) - h = Len(p) + 1 - k
  BY ChainFacts
<1>2. Path(l, At(p, h + 1), "next") = [i \in 1 .. Len(p) - h |-> p[h + i]]
  <2> HIDE DEF h
  <2> QED
    BY <1>1, PathForward
<1> QED
  BY <1>1, <1>2

LEMMA PathBack ==
  ASSUME NEW l, NEW p, Chain(l, p), NEW k \in 0 .. Len(p)
  PROVE  Path(l, At(p, k), "prev") = [i \in 1 .. k |-> p[k + 1 - i]]
<1> DEFINE a == At(p, k)
           q == [i \in 1 .. k |-> p[k + 1 - i]]
<1>1. q \in Seq(Live(l)) /\ Len(q) = k
  BY ChainFacts
<1>2. \A i \in 1 .. Len(q) : l.node[q[i]].prev = IF i < Len(q) THEN q[i + 1] ELSE NULL
  <2> SUFFICES ASSUME NEW i \in 1 .. Len(q)
               PROVE  l.node[q[i]].prev = IF i < Len(q) THEN q[i + 1] ELSE NULL
    OBVIOUS
  <2>1. k + 1 - i \in 1 .. Len(p)
    BY <1>1, ChainFacts
  <2>2. l.node[p[k + 1 - i]].prev = At(p, k + 1 - i - 1)
    BY <2>1 DEF Chain, Linked
  <2> QED
    BY <1>1, <2>1, <2>2, ChainFacts DEF At
<1>3. a = IF Len(q) = 0 THEN NULL ELSE q[1]
  BY <1>1, ChainFacts DEF At
<1>4. Len(q) <= Cardinality(Live(l))
  BY <1>1, ChainFacts
<1> HIDE DEF q, a
<1>5. Path(l, a, "prev") = q
  BY <1>1, <1>2, <1>3, <1>4, ChainFacts, PathIs
<1> QED
  BY <1>5 DEF q, a

(***************************************************************************)
(* A new node                                                              *)
(***************************************************************************)

LEMMA malloc_IsNew ==
  ASSUME NEW l, NEW p, Chain(l, p), NEW s \in Str,
         \A i \in 1 .. Len(p) : String(l, p[i]) # s
  PROVE  malloc(l, s) \in Addresses \ Live(l) /\ malloc(l, s)[1] = s
<1> DEFINE Free(k) == <<s, k>> \notin Live(l)
           n == Cardinality(Live(l))
           k0 == CHOOSE k \in 0 .. n : Free(k)
<1>1. ASSUME NEW a \in Live(l) PROVE a[1] # s
  <2>1. PICK i \in 1 .. Len(p) : p[i] = a
    BY DEF Chain, HasNodes
  <2>2. a[1] = String(l, a)
    BY DEF Chain, HasNodes
  <2> QED
    BY <2>1, <2>2
<1>2. 0 \in 0 .. n /\ Free(0)
  BY <1>1, ChainFacts
<1>3. k0 \in 0 .. n /\ Free(k0)
  <2> HIDE DEF n, Free
  <2> QED
    BY <1>2
<1>4. malloc(l, s) = <<s, k0>>
  BY DEF malloc
<1>5. k0 \in Nat
  BY <1>3, ChainFacts
<1> HIDE DEF k0
<1> QED
  BY <1>3, <1>4, <1>5 DEF Addresses

(* What Insert makes of each node. *)
LEMMA InsertNodes ==
  ASSUME NEW l, NEW p, Chain(l, p), NEW s \in Str,
         NEW before \in Pointers, NEW after \in Pointers,
         NEW new \in Addresses, new = malloc(l, s), new \notin Live(l),
         NEW m, m = Insert(l, before, s, after)
  PROVE  /\ Live(m) = Live(l) \union {new}
         /\ m.node[new].next = after /\ m.node[new].prev = before
         /\ String(m, new) = s
         /\ \A a \in Live(l) :
              /\ m.node[a].next = IF a = before THEN new ELSE l.node[a].next
              /\ m.node[a].prev = IF a = after THEN new ELSE l.node[a].prev
              /\ String(m, a) = String(l, a)
         /\ m.node \in [Live(m) -> Node]
         /\ m.top = (IF before = NULL THEN new ELSE l.top)
         /\ m.end = (IF after = NULL THEN new ELSE l.end)
         /\ m.last = new
         /\ m.sz = (IF l.last = NULL THEN 1 ELSE l.sz + 1)
<1> DEFINE moved(a) == [string |-> String(l, a),
                        next |-> IF a = before THEN new ELSE l.node[a].next,
                        prev |-> IF a = after THEN new ELSE l.node[a].prev]
           own == [string |-> s, next |-> after, prev |-> before]
<1>1. m.node = [a \in Live(l) \union {new} |-> IF a = new THEN own ELSE moved(a)]
  BY DEF Insert
<1>2. Live(m) = Live(l) \union {new} /\ m.node = [a \in Live(m) |-> m.node[a]]
  <2> HIDE DEF own, moved
  <2> QED
    BY <1>1 DEF Live
<1>3. m.node[new] = own /\ \A a \in Live(l) : m.node[a] = moved(a)
  <2> HIDE DEF own, moved
  <2> QED
    BY <1>1
<1>4. own.next = after /\ own.prev = before /\ own.string = s /\ own \in Node
  BY DEF Node
<1>5. ASSUME NEW a \in Live(l)
      PROVE  /\ moved(a).next = IF a = before THEN new ELSE l.node[a].next
             /\ moved(a).prev = IF a = after THEN new ELSE l.node[a].prev
             /\ moved(a).string = String(l, a)
             /\ moved(a) \in Node
  <2>1. l.node[a] \in Node
    BY DEF Chain, HasNodes, Node
  <2>2. l.node[a].next \in Pointers /\ l.node[a].prev \in Pointers /\ String(l, a) \in Str
    BY <2>1 DEF Node, String
  <2>3. new \in Pointers
    BY DEF Pointers
  <2> QED
    BY <2>2, <2>3 DEF Node
<1> HIDE DEF own, moved
<1>6. ASSUME NEW a \in Live(l)
      PROVE  /\ m.node[a].next = IF a = before THEN new ELSE l.node[a].next
             /\ m.node[a].prev = IF a = after THEN new ELSE l.node[a].prev
             /\ String(m, a) = String(l, a)
  BY <1>3, <1>5 DEF String
<1>7. m.node[new].next = after /\ m.node[new].prev = before /\ String(m, new) = s
  BY <1>3, <1>4 DEF String
<1>8. \A a \in Live(m) : m.node[a] \in Node
  BY <1>2, <1>3, <1>4, <1>5
<1>9. m.node \in [Live(m) -> Node]
  BY <1>2, <1>8
<1>10. /\ m.top = (IF before = NULL THEN new ELSE l.top)
       /\ m.end = (IF after = NULL THEN new ELSE l.end)
       /\ m.last = new
       /\ m.sz = (IF l.last = NULL THEN 1 ELSE l.sz + 1)
  BY DEF Insert
<1> QED
  BY <1>2, <1>6, <1>7, <1>9, <1>10

(* r is l with the string s. *)
Gains(l, s, r) == (\E p : Chain(r, p)) /\ Strings(r) = Strings(l) \union {s}

(* A string between those of two neighbours goes between them.              *)
LEMMA InsertChain ==
  ASSUME NEW l, NEW p, Chain(l, p), NEW s \in Str, NEW k \in 0 .. Len(p),
         \A i \in 1 .. k : Before(String(l, p[i]), s),
         \A i \in k + 1 .. Len(p) : Before(s, String(l, p[i])),
         NEW before, before = At(p, k), NEW after, after = At(p, k + 1),
         NEW m, m = Insert(l, before, s, after)
  PROVE  Gains(l, s, m)
<1> DEFINE N == Len(p)
           new == malloc(l, s)
           q == [i \in 1 .. N + 1 |-> IF i <= k THEN p[i] ELSE IF i = k + 1 THEN new ELSE p[i - 1]]
<1>1. N \in Nat /\ k \in Nat /\ k <= N
  BY ChainFacts
<1>a. /\ p \in Seq(Live(l)) /\ NULL \notin Live(l)
      /\ \A i \in 1 .. N : p[i] \in Live(l)
      /\ \A i, j \in 1 .. N : p[i] = p[j] => i = j
  BY ChainFacts DEF Chain, HasNodes
<1>b. \A i \in 1 .. N :
        /\ l.node[p[i]].next = IF i < N THEN p[i + 1] ELSE NULL
        /\ l.node[p[i]].prev = IF i > 1 THEN p[i - 1] ELSE NULL
  <2> SUFFICES ASSUME NEW i \in 1 .. N
               PROVE  /\ l.node[p[i]].next = IF i < N THEN p[i + 1] ELSE NULL
                      /\ l.node[p[i]].prev = IF i > 1 THEN p[i - 1] ELSE NULL
    OBVIOUS
  <2>1. l.node[p[i]].next = At(p, i + 1) /\ l.node[p[i]].prev = At(p, i - 1)
    BY DEF Chain, Linked
  <2> QED
    BY <1>1, <2>1 DEF At
<1>c. \A i, j \in 1 .. N : i < j => Before(String(l, p[i]), String(l, p[j]))
  BY DEF Chain, Sorted
<1>d. /\ \A i \in 1 .. k : Before(String(l, p[i]), s)
      /\ \A i \in k + 1 .. N : Before(s, String(l, p[i]))
      /\ before = IF k = 0 THEN NULL ELSE p[k]
      /\ after = IF k = N THEN NULL ELSE p[k + 1]
  BY <1>1 DEF At
<1>e. l.sz = N /\ (l.last = NULL <=> N = 0)
  BY <1>1, <1>a DEF Chain, HasEnds
<1>2. new \in Addresses \ Live(l) /\ new[1] = s /\ new # NULL
  <2>1. \A i \in 1 .. N : String(l, p[i]) # s
    <3> SUFFICES ASSUME NEW i \in 1 .. N, String(l, p[i]) = s PROVE FALSE
      OBVIOUS
    <3>1. i \in 1 .. k \/ i \in k + 1 .. N
      BY <1>1
    <3> QED
      BY <3>1, BeforeIrreflexive
  <2> QED
    BY <2>1, malloc_IsNew, NotNull
<1> HIDE DEF new
<1>6. before \in Pointers /\ after \in Pointers
  <2>1. \A i \in 1 .. N : p[i] \in Pointers
    BY <1>a DEF Chain, HasNodes, Pointers
  <2> QED
    BY <1>1, <1>d, <2>1 DEF Pointers
<1>3. /\ Live(m) = Live(l) \union {new}
      /\ m.node[new].next = after /\ m.node[new].prev = before
      /\ \A a \in Live(l) :
           /\ m.node[a].next = IF a = before THEN new ELSE l.node[a].next
           /\ m.node[a].prev = IF a = after THEN new ELSE l.node[a].prev
      /\ m.top = (IF before = NULL THEN new ELSE l.top)
      /\ m.end = (IF after = NULL THEN new ELSE l.end)
      /\ m.last = new
      /\ m.sz = (IF l.last = NULL THEN 1 ELSE l.sz + 1)
  <2>1. new = malloc(l, s)
    BY DEF new
  <2> QED
    BY <1>2, <1>6, <2>1, InsertNodes
<1>4. /\ String(m, new) = s /\ \A a \in Live(l) : String(m, a) = String(l, a)
      /\ m.node \in [Live(m) -> Node]
  <2>1. new = malloc(l, s)
    BY DEF new
  <2> QED
    BY <1>2, <1>6, <2>1, InsertNodes
<1>5. /\ q \in Seq(Live(m)) /\ Len(q) = N + 1
      /\ \A i \in 1 .. N + 1 : q[i] = IF i <= k THEN p[i] ELSE IF i = k + 1 THEN new ELSE p[i - 1]
  <2>1. \A i \in 1 .. N + 1 : q[i] \in Live(m)
    BY <1>1, <1>3, <1>a
  <2> QED
    BY <1>1, <2>1
<1> HIDE DEF q, N
<1>7. Live(m) \subseteq Addresses
  BY <1>2, <1>3 DEF Chain, HasNodes
<1>8. \A a \in Live(m) : a[1] = String(m, a) /\ \E i \in 1 .. Len(q) : q[i] = a
  <2> SUFFICES ASSUME NEW a \in Live(m)
               PROVE  a[1] = String(m, a) /\ \E i \in 1 .. Len(q) : q[i] = a
    OBVIOUS
  <2>1. CASE a = new
    <3>1. k + 1 \in 1 .. Len(q)
      BY <1>1, <1>5
    <3> QED
      BY <1>2, <1>4, <1>5, <2>1, <3>1
  <2>2. CASE a \in Live(l)
    <3>1. PICK i \in 1 .. N : p[i] = a
      BY <2>2 DEF Chain, HasNodes, N
    <3>2. a[1] = String(l, a)
      BY <2>2 DEF Chain, HasNodes
    <3>3. CASE i <= k
      <4>1. i \in 1 .. Len(q) /\ q[i] = a
        BY <1>1, <1>5, <3>1, <3>3
      <4> QED
        BY <1>4, <2>2, <3>2, <4>1
    <3>4. CASE i > k
      <4>1. i + 1 \in 1 .. N + 1 /\ ~ (i + 1 <= k) /\ i + 1 # k + 1 /\ (i + 1) - 1 = i
        BY <1>1, <3>4
      <4>2. i + 1 \in 1 .. Len(q) /\ q[i + 1] = a
        BY <1>5, <3>1, <4>1
      <4> QED
        BY <1>4, <2>2, <3>2, <4>2
    <3> QED
      BY <1>1, <3>3, <3>4
  <2> QED
    BY <1>3, <2>1, <2>2
<1>9. /\ m.top = q[1] /\ m.end = q[N + 1] /\ m.last \in Live(m) /\ m.sz = N + 1
  <2>1. m.top = q[1]
    <3>1. CASE k = 0
      BY <1>1, <1>3, <1>5, <1>d, <3>1
    <3>2. CASE k > 0
      <4>1. before # NULL /\ N > 0
        BY <1>1, <1>a, <1>d, <3>2
      <4>2. l.top = p[1]
        BY <1>1, <4>1 DEF Chain, HasEnds, At, N
      <4>3. q[1] = p[1]
        BY <1>1, <1>5, <3>2
      <4> QED
        BY <1>3, <4>1, <4>2, <4>3
    <3> QED
      BY <1>1, <3>1, <3>2
  <2>2. m.end = q[N + 1]
    <3>1. CASE k = N
      BY <1>1, <1>3, <1>5, <1>d, <3>1
    <3>2. CASE k < N
      <4>1. after # NULL
        BY <1>1, <1>a, <1>d, <3>2
      <4>2. l.end = p[N]
        BY <1>1, <3>2 DEF Chain, HasEnds, At, N
      <4>3. q[N + 1] = p[N]
        <5>1. N + 1 \in 1 .. N + 1 /\ ~ (N + 1 <= k) /\ N + 1 # k + 1 /\ (N + 1) - 1 = N
          BY <1>1, <3>2
        <5> QED
          BY <1>5, <5>1
      <4> QED
        BY <1>3, <4>1, <4>2, <4>3
    <3> QED
      BY <1>1, <3>1, <3>2
  <2>3. m.sz = N + 1
    BY <1>1, <1>3, <1>e
  <2> QED
    BY <1>3, <2>1, <2>2, <2>3
<1>10. ASSUME NEW i \in 1 .. N + 1
       PROVE  /\ m.node[q[i]].next = IF i < N + 1 THEN q[i + 1] ELSE NULL
              /\ m.node[q[i]].prev = IF i > 1 THEN q[i - 1] ELSE NULL
  <2>1. CASE i < k
    <3>1. i \in 1 .. N /\ q[i] = p[i] /\ i < N
      BY <1>1, <1>5, <2>1
    <3>2. q[i + 1] = p[i + 1] /\ (i > 1 => q[i - 1] = p[i - 1])
      BY <1>1, <1>5, <2>1
    <3>3. /\ l.node[p[i]].next = p[i + 1]
          /\ l.node[p[i]].prev = IF i > 1 THEN p[i - 1] ELSE NULL
      BY <1>b, <3>1
    <3>4. p[i] # before /\ p[i] # after
      BY <1>1, <1>a, <1>d, <2>1, <3>1
    <3>5. m.node[p[i]].next = l.node[p[i]].next /\ m.node[p[i]].prev = l.node[p[i]].prev
      BY <1>3, <1>a, <3>1, <3>4
    <3> QED
      BY <1>1, <3>1, <3>2, <3>3, <3>5
  <2>2. CASE i = k
    <3>1. i \in 1 .. N /\ q[i] = p[i] /\ q[i + 1] = new /\ i < N + 1
      BY <1>1, <1>5, <2>2
    <3>2. i > 1 => q[i - 1] = p[i - 1]
      BY <1>1, <1>5, <2>2
    <3>3. l.node[p[i]].prev = IF i > 1 THEN p[i - 1] ELSE NULL
      BY <1>b, <3>1
    <3>4. p[i] = before /\ p[i] # after
      BY <1>1, <1>a, <1>d, <2>2, <3>1
    <3>5. m.node[p[i]].next = new /\ m.node[p[i]].prev = l.node[p[i]].prev
      BY <1>3, <1>a, <3>1, <3>4
    <3> QED
      BY <3>1, <3>2, <3>3, <3>5
  <2>3. CASE i = k + 1
    <3>1. q[i] = new
      BY <1>1, <1>5, <2>3
    <3>3. i < N + 1 => q[i + 1] = p[k + 1]
      BY <1>1, <1>5, <2>3
    <3>4. i > 1 => q[i - 1] = p[k]
      BY <1>1, <1>5, <2>3
    <3>2. m.node[new].next = after /\ m.node[new].prev = before
      BY <1>3
    <3> QED
      BY <1>1, <1>d, <2>3, <3>1, <3>2, <3>3, <3>4
  <2>4. CASE i = k + 2
    <3>0. k + 1 \in 1 .. N /\ i - 1 = k + 1 /\ i \in 1 .. N + 1 /\ i - 1 \in 1 .. N + 1
      BY <1>1, <2>4
    <3>1. k + 1 \in 1 .. N /\ q[i] = p[k + 1] /\ q[i - 1] = new
      BY <1>5, <2>4, <3>0
    <3>2. i < N + 1 => q[i + 1] = p[k + 2]
      BY <1>1, <1>5, <2>4
    <3>3. l.node[p[k + 1]].next = IF k + 1 < N THEN p[k + 2] ELSE NULL
      BY <1>1, <1>b, <3>1
    <3>4. p[k + 1] = after /\ p[k + 1] # before
      BY <1>1, <1>a, <1>d, <3>1
    <3>5. m.node[p[k + 1]].next = l.node[p[k + 1]].next /\ m.node[p[k + 1]].prev = new
      BY <1>3, <1>a, <3>1, <3>4
    <3> QED
      BY <1>1, <2>4, <3>1, <3>2, <3>3, <3>5
  <2>5. CASE i > k + 2
    <3>1. i - 1 \in 1 .. N /\ q[i] = p[i - 1] /\ i - 1 > 1
      BY <1>1, <1>5, <2>5
    <3>2. q[i - 1] = p[i - 2] /\ (i < N + 1 => q[i + 1] = p[i])
      BY <1>1, <1>5, <2>5
    <3>3. /\ l.node[p[i - 1]].next = IF i - 1 < N THEN p[i] ELSE NULL
          /\ l.node[p[i - 1]].prev = p[i - 2]
      BY <1>1, <1>b, <3>1
    <3>4. p[i - 1] # before /\ p[i - 1] # after
      BY <1>1, <1>a, <1>d, <2>5, <3>1
    <3>5. /\ m.node[p[i - 1]].next = l.node[p[i - 1]].next
          /\ m.node[p[i - 1]].prev = l.node[p[i - 1]].prev
      BY <1>3, <1>a, <3>1, <3>4
    <3> QED
      BY <1>1, <2>5, <3>1, <3>2, <3>3, <3>5
  <2> QED
    BY <1>1, <2>1, <2>2, <2>3, <2>4, <2>5
<1>11. ASSUME NEW i \in 1 .. N + 1, NEW j \in 1 .. N + 1, i < j
       PROVE  Before(String(m, q[i]), String(m, q[j]))
  <2>1. CASE j <= k
    <3>1. i \in 1 .. N /\ j \in 1 .. N /\ q[i] = p[i] /\ q[j] = p[j]
      BY <1>1, <1>5, <1>11, <2>1
    <3> QED
      BY <1>4, <1>a, <1>c, <1>11, <3>1
  <2>2. CASE i <= k /\ j = k + 1
    <3>1. i \in 1 .. N /\ i \in 1 .. k /\ q[i] = p[i] /\ q[j] = new
      BY <1>1, <1>5, <2>2
    <3> QED
      BY <1>4, <1>a, <1>d, <3>1
  <2>3. CASE i <= k /\ j > k + 1
    <3>1. i \in 1 .. N /\ q[i] = p[i]
      BY <1>1, <1>5, <2>3
    <3>2. j - 1 \in 1 .. N /\ q[j] = p[j - 1] /\ i < j - 1
      BY <1>1, <1>5, <2>3
    <3> QED
      BY <1>4, <1>a, <1>c, <3>1, <3>2
  <2>4. CASE i = k + 1
    <3>1. q[i] = new /\ j - 1 \in k + 1 .. N /\ j - 1 \in 1 .. N
      BY <1>1, <1>5, <1>11, <2>4
    <3>2. q[j] = p[j - 1]
      BY <1>1, <1>5, <1>11, <2>4
    <3> QED
      BY <1>4, <1>a, <1>d, <3>1, <3>2
  <2>5. CASE i > k + 1
    <3>1. q[i] = p[i - 1] /\ i - 1 \in 1 .. N
      BY <1>1, <1>5, <2>5
    <3>2. q[j] = p[j - 1] /\ j - 1 \in 1 .. N /\ i - 1 < j - 1
      BY <1>1, <1>5, <1>11, <2>5
    <3> QED
      BY <1>4, <1>a, <1>c, <3>1, <3>2
  <2> QED
    BY <1>1, <1>11, <2>1, <2>2, <2>3, <2>4, <2>5
<1>12. Chain(m, q)
  <2>1. m.top = At(q, 1) /\ m.end = At(q, Len(q)) /\ m.sz = Len(q)
    BY <1>1, <1>5, <1>9 DEF At
  <2>2. \A i \in 1 .. Len(q) :
          m.node[q[i]].next = At(q, i + 1) /\ m.node[q[i]].prev = At(q, i - 1)
    BY <1>1, <1>5, <1>10 DEF At
  <2>3. HasNodes(m, q)
    BY <1>4, <1>5, <1>7, <1>8 DEF HasNodes
  <2>4. Sorted(m, q)
    BY <1>5, <1>11 DEF Sorted
  <2>5. HasEnds(m, q)
    BY <1>1, <1>5, <1>9, <2>1 DEF HasEnds
  <2> QED
    BY <2>2, <2>3, <2>4, <2>5 DEF Chain, Linked
<1>13. Strings(m) = Strings(l) \union {s}
  BY <1>3, <1>4 DEF Strings
<1> QED
  BY <1>12, <1>13 DEF Gains

(***************************************************************************)
(* Finding the place                                                       *)
(***************************************************************************)

LEMMA InsertHere ==
  ASSUME NEW l, NEW p, Chain(l, p), NEW s \in Str, NEW k \in 0 .. Len(p),
         k > 0 => Before(String(l, p[k]), s),
         k < Len(p) => Before(s, String(l, p[k + 1])),
         NEW before, before = At(p, k), NEW after, after = At(p, k + 1)
  PROVE  Gains(l, s, Insert(l, before, s, after))
<1>1. /\ Len(p) \in Nat
      /\ \A i \in 1 .. Len(p) : String(l, p[i]) \in Str
  BY ChainFacts
<1>2. \A i, j \in 1 .. Len(p) : i < j => Before(String(l, p[i]), String(l, p[j]))
  BY DEF Chain, Sorted
<1>3. ASSUME NEW i \in 1 .. k PROVE Before(String(l, p[i]), s)
  <2>1. k \in 1 .. Len(p) /\ i \in 1 .. Len(p)
    BY <1>1
  <2>2. CASE i = k
    BY <2>1, <2>2
  <2>3. CASE i < k
    BY <1>1, <1>2, <2>1, <2>3, BeforeTransitive
  <2> QED
    BY <1>1, <2>2, <2>3
<1>4. ASSUME NEW i \in k + 1 .. Len(p) PROVE Before(s, String(l, p[i]))
  <2>1. k + 1 \in 1 .. Len(p) /\ i \in 1 .. Len(p) /\ k < Len(p)
    BY <1>1
  <2>2. CASE i = k + 1
    BY <2>1, <2>2
  <2>3. CASE k + 1 < i
    BY <1>1, <1>2, <2>1, <2>3, BeforeTransitive
  <2> QED
    BY <1>1, <2>2, <2>3
<1> QED
  BY <1>3, <1>4, InsertChain

LEMMA MinIs ==
  ASSUME NEW I \in SUBSET Nat, I # {}
  PROVE  Min(I) \in I /\ \A j \in I : Min(I) <= j
<1>1. \E x \in I : \A y \in I : x <= y
  BY SmallestNumber
<1> QED
  BY <1>1 DEF Min

LEMMA StoreForward ==
  ASSUME NEW l, NEW p, Chain(l, p), NEW s \in Str, NEW m \in 1 .. Len(p), l.last = p[m],
         Before(String(l, l.last), s),
         NEW r, r = SearchForward(l, s)
  PROVE  Gains(l, s, r)
<1> DEFINE N == Len(p)
           a == l.node[l.last].next
           ahead == Path(l, a, "next")
           I == {j \in 1 .. Len(ahead) : ~ Before(String(l, ahead[j]), s)}
           i == IF I # {} THEN Min(I) ELSE 0
<1>1. N \in Nat /\ m \in Nat /\ m <= N /\ m > 0
  BY ChainFacts
<1>2. r = IF i = 0 THEN Insert(l, Last(<<l.last>> \o ahead), s, NULL)
          ELSE IF String(l, ahead[i]) = s THEN l
          ELSE Insert(l, l.node[ahead[i]].prev, s, ahead[i])
  BY DEF SearchForward, SelectInSeq
<1>3. ahead = [j \in 1 .. N - m |-> p[m + j]]
  <2>1. a = At(p, m + 1)
    BY DEF Chain, Linked
  <2> HIDE DEF a
  <2>2. m \in 0 .. Len(p)
    BY <1>1
  <2>3. Path(l, At(p, m + 1), "next") = [j \in 1 .. Len(p) - m |-> p[m + j]]
    <3> HIDE DEF N, ahead, I, i
    <3> QED
      BY <2>2, PathForward
  <2> QED
    BY <2>1, <2>3
<1> HIDE DEF a, ahead
<1>4. ahead \in Seq(Live(l)) /\ Len(ahead) = N - m /\ \A j \in 1 .. N - m : ahead[j] = p[m + j]
  BY <1>1, <1>3, ChainFacts
<1>9. /\ Len(<<l.last>> \o ahead) = N - m + 1
      /\ \A j \in 1 .. N - m + 1 : (<<l.last>> \o ahead)[j] = p[m + j - 1]
  <2>1. <<l.last>> \in Seq(Live(l)) /\ Len(<<l.last>>) = 1 /\ <<l.last>>[1] = p[m]
    BY <1>1 DEF Chain, HasNodes
  <2> HIDE DEF N
  <2>2. /\ Len(<<l.last>> \o ahead) = 1 + (N - m)
        /\ \A j \in 1 .. 1 + (N - m) :
             (<<l.last>> \o ahead)[j] = IF j <= 1 THEN <<l.last>>[j] ELSE ahead[j - 1]
    BY <1>4, <2>1, ConcatProperties
  <2> QED
    BY <1>1, <1>4, <2>1, <2>2
<1>5. CASE I = {}
  <2>1. r = Insert(l, Last(<<l.last>> \o ahead), s, NULL)
    BY <1>2, <1>5
  <2>2. Last(<<l.last>> \o ahead) = p[N]
    <3> HIDE DEF N
    <3>1. N - m + 1 \in 1 .. N - m + 1 /\ m + (N - m + 1) - 1 = N
      BY <1>1
    <3>2. (<<l.last>> \o ahead)[N - m + 1] = p[N]
      BY <1>9, <3>1
    <3> QED
      BY <1>9, <3>2 DEF Last
  <2>3. Before(String(l, p[N]), s)
    <3>1. CASE m = N
      BY <3>1
    <3>2. CASE m < N
      <4>1. N - m \in 1 .. N - m /\ m + (N - m) = N
        <5> HIDE DEF N
        <5> QED
          BY <1>1, <3>2
      <4>2. N - m \in 1 .. Len(ahead) /\ ahead[N - m] = p[N]
        BY <1>4, <4>1
      <4> QED
        BY <1>5, <4>2
    <3> QED
      BY <1>1, <3>1, <3>2
  <2>4. /\ N \in 0 .. Len(p) /\ N > 0 /\ ~ (N < Len(p))
        /\ p[N] = At(p, N) /\ NULL = At(p, N + 1)
    BY <1>1 DEF At
  <2> HIDE DEF N
  <2> QED
    BY <2>1, <2>2, <2>3, <2>4, InsertHere
<1>6. CASE I # {}
  <2>1. I \in SUBSET Nat /\ i = Min(I)
    BY <1>6
  <2>2. i \in I /\ \A j \in I : i <= j
    BY <1>6, <2>1, MinIs
  <2> HIDE DEF i
  <2>3. i \in 1 .. N - m /\ i # 0 /\ ahead[i] = p[m + i] /\ ~ Before(String(l, p[m + i]), s)
    BY <1>1, <1>4, <2>2
  <2>4. CASE String(l, ahead[i]) = s
    <3>1. r = l
      BY <1>2, <2>3, <2>4
    <3>2. s \in Strings(l)
      BY <1>4, <2>3, <2>4 DEF Strings
    <3> QED
      BY <3>1, <3>2 DEF Gains
  <2>5. CASE String(l, ahead[i]) # s
    <3> DEFINE k == m + i - 1
    <3>1. k \in 0 .. N /\ k > 0 /\ k < N /\ k + 1 = m + i
      BY <1>1, <2>3
    <3>2. Before(s, String(l, p[k + 1]))
      <4>1. k + 1 \in 1 .. Len(p)
        BY <1>1, <3>1
      <4>2. String(l, p[k + 1]) \in Str
        BY <4>1, ChainFacts
      <4> QED
        BY <2>3, <2>5, <3>1, <4>2, BeforeTotal
    <3>3. Before(String(l, p[k]), s)
      <4>1. CASE i = 1
        BY <1>1, <4>1
      <4>2. CASE i > 1
        <5>0. i - 1 \in 1 .. N - m /\ m + (i - 1) = k /\ i - 1 < i
          BY <1>1, <2>3, <4>2
        <5>1. i - 1 \in 1 .. Len(ahead) /\ ahead[i - 1] = p[k] /\ i - 1 < i
          BY <1>4, <5>0
        <5>2. i - 1 \notin I
          BY <2>2, <2>3, <5>1
        <5> QED
          BY <5>1, <5>2
      <4> QED
        BY <2>3, <4>1, <4>2
    <3>4. l.node[ahead[i]].prev = p[k]
      <4>1. m + i \in 1 .. Len(p) /\ m + i > 1
        BY <1>1, <2>3
      <4> DEFINE h == m + i
      <4>2. l.node[p[h]].prev = At(p, h - 1)
        <5> HIDE DEF h
        <5>1. h \in 1 .. Len(p)
          BY <4>1 DEF h
        <5> QED
          BY <5>1 DEF Chain, Linked
      <4> QED
        BY <1>1, <2>3, <3>1, <4>1, <4>2 DEF At
    <3>5. r = Insert(l, p[k], s, p[k + 1])
      BY <1>2, <2>3, <2>5, <3>1, <3>4
    <3>6. k \in 0 .. Len(p) /\ p[k] = At(p, k) /\ p[k + 1] = At(p, k + 1)
      BY <1>1, <3>1 DEF At
    <3> HIDE DEF k
    <3> QED
      BY <3>2, <3>3, <3>5, <3>6, InsertHere
  <2> QED
    BY <2>4, <2>5
<1> QED
  BY <1>5, <1>6

LEMMA StoreBack ==
  ASSUME NEW l, NEW p, Chain(l, p), NEW s \in Str, NEW m \in 1 .. Len(p), l.last = p[m],
         Before(s, String(l, l.last)),
         NEW r, r = SearchBack(l, s)
  PROVE  Gains(l, s, r)
<1> DEFINE N == Len(p)
           a == l.node[l.last].prev
           back == Path(l, a, "prev")
           I == {j \in 1 .. Len(back) : ~ Before(s, String(l, back[j]))}
           i == IF I # {} THEN Min(I) ELSE 0
<1>1. N \in Nat /\ m \in Nat /\ m <= N /\ m > 0
  BY ChainFacts
<1>2. r = IF i = 0 THEN Insert(l, NULL, s, Last(<<l.last>> \o back))
          ELSE IF String(l, back[i]) = s THEN l
          ELSE Insert(l, back[i], s, (<<l.last>> \o back)[i])
  BY DEF SearchBack, SelectInSeq
<1>3. back = [j \in 1 .. m - 1 |-> p[m - j]]
  <2> DEFINE k == m - 1
  <2>1. a = At(p, k)
    BY DEF Chain, Linked
  <2> HIDE DEF a
  <2>2. k \in 0 .. Len(p)
    BY <1>1
  <2> HIDE DEF k
  <2>3. back = [j \in 1 .. k |-> p[k + 1 - j]]
    BY <2>1, <2>2, PathBack
  <2>4. k = m - 1 /\ \A j \in 1 .. k : k + 1 - j = m - j
    BY <1>1 DEF k
  <2> QED
    BY <2>3, <2>4
<1> HIDE DEF a, back
<1>4. back \in Seq(Live(l)) /\ Len(back) = m - 1 /\ \A j \in 1 .. m - 1 : back[j] = p[m - j]
  <2>1. \A j \in 1 .. m - 1 : m - j \in 1 .. N /\ p[m - j] \in Live(l)
    BY <1>1, ChainFacts
  <2> QED
    BY <1>1, <1>3, <2>1
<1>9. /\ Len(<<l.last>> \o back) = m
      /\ \A j \in 1 .. m : (<<l.last>> \o back)[j] = p[m + 1 - j]
  <2>1. <<l.last>> \in Seq(Live(l)) /\ Len(<<l.last>>) = 1 /\ <<l.last>>[1] = p[m]
    BY <1>1 DEF Chain, HasNodes
  <2> HIDE DEF N
  <2>2. /\ Len(<<l.last>> \o back) = 1 + (m - 1)
        /\ \A j \in 1 .. 1 + (m - 1) :
             (<<l.last>> \o back)[j] = IF j <= 1 THEN <<l.last>>[j] ELSE back[j - 1]
    BY <1>4, <2>1, ConcatProperties
  <2>3. Len(<<l.last>> \o back) = m /\ 1 + (m - 1) = m
    BY <1>1, <2>2
  <2>4. ASSUME NEW j \in 1 .. m PROVE (<<l.last>> \o back)[j] = p[m + 1 - j]
    <3>1. (<<l.last>> \o back)[j] = IF j <= 1 THEN p[m] ELSE back[j - 1]
      BY <2>1, <2>2, <2>3
    <3>2. CASE j = 1
      BY <1>1, <3>1, <3>2
    <3>3. CASE j > 1
      <4>1. j - 1 \in 1 .. m - 1 /\ m - (j - 1) = m + 1 - j
        BY <1>1, <3>3
      <4> QED
        BY <1>4, <3>1, <3>3, <4>1
    <3>4. j = 1 \/ j > 1
      BY <1>1
    <3> QED
      BY <3>2, <3>3, <3>4
  <2> QED
    BY <2>3, <2>4
<1>5. CASE I = {}
  <2>1. r = Insert(l, NULL, s, Last(<<l.last>> \o back))
    BY <1>2, <1>5
  <2>2. Last(<<l.last>> \o back) = p[1]
    <3>1. m \in 1 .. m /\ m + 1 - m = 1
      BY <1>1
    <3>2. (<<l.last>> \o back)[m] = p[1]
      BY <1>9, <3>1
    <3> QED
      BY <1>9, <3>2 DEF Last
  <2>3. Before(s, String(l, p[1]))
    <3>1. CASE m = 1
      BY <3>1
    <3>2. CASE m > 1
      <4>1. m - 1 \in 1 .. Len(back) /\ back[m - 1] = p[1]
        BY <1>1, <1>4, <3>2
      <4> QED
        BY <1>5, <4>1
    <3> QED
      BY <1>1, <3>1, <3>2
  <2>4. 0 \in 0 .. Len(p) /\ ~ (0 > 0) /\ 0 + 1 = 1 /\ NULL = At(p, 0) /\ p[1] = At(p, 0 + 1)
    BY <1>1 DEF At
  <2> HIDE DEF N
  <2> QED
    BY <2>1, <2>2, <2>3, <2>4, InsertHere
<1>6. CASE I # {}
  <2>1. I \in SUBSET Nat /\ i = Min(I)
    BY <1>6
  <2>2. i \in I /\ \A j \in I : i <= j
    BY <1>6, <2>1, MinIs
  <2> HIDE DEF i
  <2>3. i \in 1 .. m - 1 /\ i # 0 /\ back[i] = p[m - i] /\ ~ Before(s, String(l, p[m - i]))
    BY <1>1, <1>4, <2>2
  <2>4. CASE String(l, back[i]) = s
    <3>1. r = l
      BY <1>2, <2>3, <2>4
    <3>2. s \in Strings(l)
      BY <1>4, <2>3, <2>4 DEF Strings
    <3> QED
      BY <3>1, <3>2 DEF Gains
  <2>5. CASE String(l, back[i]) # s
    <3> DEFINE k == m - i
    <3>1. k \in 0 .. N /\ k > 0 /\ k < N /\ k + 1 = m + 1 - i
      BY <1>1, <2>3
    <3>2. Before(String(l, p[k]), s)
      <4>1. k \in 1 .. Len(p)
        BY <1>1, <3>1
      <4>2. String(l, p[k]) \in Str
        BY <4>1, ChainFacts
      <4> QED
        BY <2>3, <2>5, <3>1, <4>2, BeforeTotal
    <3>3. Before(s, String(l, p[k + 1]))
      <4>1. CASE i = 1
        BY <1>1, <4>1
      <4>2. CASE i > 1
        <5>1. i - 1 \in 1 .. Len(back) /\ back[i - 1] = p[k + 1] /\ i - 1 < i
          BY <1>1, <1>4, <2>3, <4>2
        <5>2. i - 1 \notin I
          BY <2>2, <2>3, <5>1
        <5> QED
          BY <5>1, <5>2
      <4> QED
        BY <2>3, <4>1, <4>2
    <3>4. (<<l.last>> \o back)[i] = p[k + 1]
      <4>1. i \in 1 .. m /\ m + 1 - i = k + 1
        BY <1>1, <2>3
      <4> QED
        BY <1>9, <4>1
    <3>5. r = Insert(l, p[k], s, p[k + 1])
      BY <1>2, <2>3, <2>5, <3>4
    <3>6. k \in 0 .. Len(p) /\ p[k] = At(p, k) /\ p[k + 1] = At(p, k + 1)
      BY <1>1, <3>1 DEF At
    <3> HIDE DEF k
    <3> QED
      BY <3>2, <3>3, <3>5, <3>6, InsertHere
  <2> QED
    BY <2>4, <2>5
<1> QED
  BY <1>5, <1>6

(***************************************************************************)
(* What the operations do                                                  *)
(***************************************************************************)

LEMMA StoreGains ==
  ASSUME NEW l, NEW p, Chain(l, p), NEW s \in Str
  PROVE  Gains(l, s, strings_list_store(l, s))
<1>1. CASE Len(p) = 0
  <2>1. l.last = NULL
    BY <1>1 DEF Chain, HasEnds
  <2>2. NULL = At(p, 0) /\ NULL = At(p, 0 + 1) /\ 0 \in 0 .. Len(p) /\ ~ (0 > 0) /\ ~ (0 < Len(p))
    BY <1>1 DEF At
  <2>3. Gains(l, s, Insert(l, NULL, s, NULL))
    BY <2>2, InsertHere
  <2> QED
    BY <2>1, <2>3 DEF strings_list_store
<1>2. CASE Len(p) # 0
  <2>1. l.last \in Live(l) /\ l.last # NULL
    BY <1>2, ChainFacts DEF Chain, HasEnds
  <2>2. PICK m \in 1 .. Len(p) : l.last = p[m]
    BY <2>1 DEF Chain, HasNodes
  <2>3. String(l, l.last) \in Str
    BY <2>2, ChainFacts
  <2>4. CASE String(l, l.last) = s
    <3>1. strings_list_store(l, s) = l
      BY <2>1, <2>4 DEF strings_list_store
    <3>2. s \in Strings(l)
      BY <2>1, <2>4 DEF Strings
    <3> QED
      BY <3>1, <3>2 DEF Gains
  <2>5. CASE String(l, l.last) # s /\ Before(String(l, l.last), s)
    <3>1. strings_list_store(l, s) = SearchForward(l, s)
      BY <2>1, <2>5 DEF strings_list_store
    <3> QED
      BY <2>2, <2>5, <3>1, StoreForward
  <2>6. CASE String(l, l.last) # s /\ ~ Before(String(l, l.last), s)
    <3>1. strings_list_store(l, s) = SearchBack(l, s)
      BY <2>1, <2>6 DEF strings_list_store
    <3>2. Before(s, String(l, l.last))
      BY <2>3, <2>6, BeforeTotal
    <3> QED
      BY <2>2, <3>1, <3>2, StoreBack
  <2> QED
    BY <2>4, <2>5, <2>6
<1> QED
  BY <1>1, <1>2

(* print and clear find something exactly if the list has nodes; the loops *)
(* come to all of them but the last.                                       *)
LEMMA BeforeEndIs ==
  ASSUME NEW l, NEW p, Chain(l, p)
  PROVE  /\ NothingThere(l) <=> Len(p) = 0
         /\ Len(p) # 0 => /\ BeforeEnd(l) = [i \in 1 .. Len(p) - 1 |-> p[i]]
                          /\ l.top = p[1] /\ l.end = p[Len(p)]
<1> DEFINE N == Len(p)
           path == Path(l, l.top, "next")
           I == {i \in 1 .. Len(path) : path[i] = l.end}
           upto == IF I # {} THEN Min(I) ELSE 0
           n == IF upto = 0 THEN Len(path) ELSE upto - 1
<1>1. N \in Nat /\ p \in Seq(Live(l))
  BY ChainFacts DEF Chain, HasNodes
<1>2. l.top = At(p, 0 + 1) /\ l.end = At(p, N) /\ l.sz = N
  BY DEF Chain, HasEnds
<1>3. NothingThere(l) <=> N = 0
  <2>1. CASE N = 0
    BY <1>2, <2>1 DEF NothingThere
  <2>2. CASE N # 0
    <3>1. l.top = p[1] /\ l.end = p[N] /\ l.last \in Live(l)
      BY <1>1, <1>2, <2>2 DEF At, Chain, HasEnds
    <3> QED
      BY <1>1, <1>2, <2>2, <3>1, ChainFacts DEF NothingThere
  <2> QED
    BY <2>1, <2>2
<1>4. ASSUME N # 0
      PROVE  BeforeEnd(l) = [i \in 1 .. N - 1 |-> p[i]] /\ l.top = p[1] /\ l.end = p[N]
  <2>1. l.top = p[1] /\ l.end = p[N]
    BY <1>1, <1>2, <1>4 DEF At
  <2>2. path = [i \in 1 .. N - 0 |-> p[0 + i]]
    <3>1. 1 \in 1 .. Len(p) + 1
      BY <1>1
    <3>2. Path(l, At(p, 1), "next") = [i \in 1 .. Len(p) + 1 - 1 |-> p[1 - 1 + i]]
      <4> HIDE DEF N, path, I, upto, n
      <4> QED
        BY <3>1, PathFrom
    <3> QED
      BY <1>1, <1>2, <3>2
  <2>3. path = p
    <3>1. [i \in 1 .. N - 0 |-> p[0 + i]] = [i \in 1 .. N |-> p[i]]
      BY <1>1
    <3> QED
      BY <1>1, <2>2, <3>1
  <2>4. I = {N}
    <3> HIDE DEF path
    <3> QED
      BY <1>1, <1>4, <2>1, <2>3, ChainFacts
  <2>5. upto = N
    <3>1. I \in SUBSET Nat /\ I # {} /\ upto = Min(I)
      BY <1>1, <2>4
    <3> HIDE DEF I, upto
    <3> QED
      BY <2>4, <3>1, MinIs
  <2>6. BeforeEnd(l) = SubSeq(path, 1, IF n < l.sz THEN n ELSE l.sz)
    BY DEF BeforeEnd, SelectInSeq
  <2> HIDE DEF path, upto
  <2>7. n = N - 1
    BY <1>4, <2>5
  <2>8. BeforeEnd(l) = SubSeq(p, 1, N - 1)
    BY <1>1, <1>2, <2>3, <2>6, <2>7
  <2> QED
    BY <1>1, <1>4, <2>1, <2>8
<1> QED
  BY <1>3, <1>4

LEMMA PrintIs ==
  ASSUME NEW l, NEW p, Chain(l, p)
  PROVE  print_string_list(l) = [i \in 1 .. Len(p) |-> String(l, p[i])]
<1> DEFINE N == Len(p)
           first == BeforeEnd(l)
           iter == IF first = <<>> THEN l.top ELSE l.node[Last(first)].next
           nodes == IF iter = l.end THEN Append(first, iter) ELSE first
<1>1. N \in Nat /\ p \in Seq(Live(l))
  BY ChainFacts DEF Chain, HasNodes
<1>2. CASE N = 0
  <2>1. print_string_list(l) = <<>>
    BY <1>2, BeforeEndIs DEF print_string_list
  <2> QED
    BY <1>2, <2>1
<1>3. CASE N # 0
  <2>1. print_string_list(l) = [i \in 1 .. Len(nodes) |-> String(l, nodes[i])]
    BY <1>3, BeforeEndIs DEF print_string_list
  <2>2. first = [i \in 1 .. N - 1 |-> p[i]] /\ l.top = p[1] /\ l.end = p[N]
    BY <1>3, BeforeEndIs
  <2> HIDE DEF first
  <2>3. first \in Seq(Live(l)) /\ Len(first) = N - 1
    <3>1. \A i \in 1 .. N - 1 : p[i] \in Live(l)
      BY <1>1, ChainFacts
    <3>2. N - 1 \in Nat
      BY <1>1, <1>3
    <3> HIDE DEF N
    <3> QED
      BY <2>2, <3>1, <3>2
  <2>4. iter = p[N]
    <3>1. CASE N = 1
      BY <2>2, <2>3, <3>1
    <3>2. CASE N > 1
      <4>1. first # <<>> /\ Last(first) = p[N - 1]
        <5>1. N - 1 \in 1 .. N - 1
          BY <1>1, <3>2
        <5> HIDE DEF N
        <5>2. first[N - 1] = p[N - 1]
          BY <2>2, <5>1
        <5>3. Len(first) # 0
          BY <1>1, <2>3, <3>2
        <5>4. Last(first) = first[N - 1]
          BY <2>3 DEF Last
        <5>5. first # <<>>
          BY <5>3
        <5> QED
          BY <5>2, <5>4, <5>5
      <4>2. N - 1 \in 1 .. Len(p)
        BY <1>1, <3>2
      <4>3. l.node[p[N - 1]].next = At(p, (N - 1) + 1)
        <5> DEFINE h == N - 1
        <5> HIDE DEF h
        <5>1. l.node[p[h]].next = At(p, h + 1)
          BY <4>2 DEF h, Chain, Linked
        <5> QED
          BY <5>1 DEF h
      <4>4. At(p, (N - 1) + 1) = p[N]
        BY <1>1, <3>2 DEF At
      <4> QED
        BY <4>1, <4>3, <4>4
    <3>3. N = 1 \/ N > 1
      <4> HIDE DEF N
      <4> QED
        BY <1>1, <1>3
    <3> QED
      BY <3>1, <3>2, <3>3
  <2>5. nodes = Append(first, p[N])
    BY <2>2, <2>4
  <2> HIDE DEF nodes
  <2>6. p[N] \in Live(l)
    BY <1>1, <1>3
  <2>7. Len(nodes) = N /\ \A i \in 1 .. N : nodes[i] = IF i <= N - 1 THEN first[i] ELSE p[N]
    BY <1>1, <1>3, <2>3, <2>5, <2>6, AppendProperties
  <2>8. \A i \in 1 .. N : nodes[i] = p[i]
    BY <1>1, <2>2, <2>7
  <2> QED
    BY <2>1, <2>7, <2>8
<1> QED
  BY <1>2, <1>3

LEMMA ClearIs == ASSUME NEW l, NEW p, Chain(l, p), Len(p) # 0 PROVE clear_string_list(l) = EmptyList
<1> DEFINE N == Len(p)
           freed == ToSet(BeforeEnd(l)) \union {l.end}
<1>1. N \in Nat
  BY ChainFacts
<1>2. BeforeEnd(l) = [i \in 1 .. N - 1 |-> p[i]] /\ l.end = p[N]
  BY BeforeEndIs
<1>3. ASSUME NEW a \in Live(l) PROVE a \in freed
  <2>1. PICK i \in 1 .. N : p[i] = a
    BY DEF Chain, HasNodes
  <2>2. CASE i = N
    BY <1>2, <2>1, <2>2
  <2>3. CASE i < N
    <3>1. i \in DOMAIN BeforeEnd(l) /\ BeforeEnd(l)[i] = a
      BY <1>1, <1>2, <2>1, <2>3
    <3> QED
      BY <3>1 DEF ToSet
  <2> QED
    BY <1>1, <2>2, <2>3
<1>4. Live(l) \ freed = {}
  BY <1>3
<1>5. clear_string_list(l) = [EmptyList EXCEPT !.node = [a \in Live(l) \ freed |-> l.node[a]]]
  BY BeforeEndIs DEF clear_string_list
<1> HIDE DEF freed
<1>6. [a \in Live(l) \ freed |-> l.node[a]] = <<>>
  BY <1>4
<1> QED
  BY <1>5, <1>6 DEF EmptyList

LEMMA EmptyIsChain == Chain(EmptyList, <<>>) /\ Strings(EmptyList) = {}
<1>1. Live(EmptyList) = {}
  BY DEF Live, EmptyList
<1> QED
  BY <1>1 DEF Chain, HasNodes, Linked, Sorted, HasEnds, At, Strings, EmptyList

(* A chain is what the lists are checked to be: the pointers lead through  *)
(* all of it in both directions.                                           *)
LEMMA ChainIsSound == ASSUME NEW l, NEW p, Chain(l, p) PROVE Sound(l)
<1> DEFINE N == Len(p)
           path == Path(l, l.top, "next")
<1>1. N \in Nat /\ p \in Seq(Live(l))
  BY ChainFacts DEF Chain, HasNodes
<1>2. l.top = At(p, 1) /\ l.end = At(p, N) /\ l.sz = N
  BY DEF Chain, HasEnds
<1>3. path = p
  <2>1. 1 \in 1 .. Len(p) + 1
    BY <1>1
  <2>2. Path(l, At(p, 1), "next") = [i \in 1 .. Len(p) + 1 - 1 |-> p[1 - 1 + i]]
    <3> HIDE DEF N, path
    <3> QED
      BY <2>1, PathFrom
  <2>3. [i \in 1 .. Len(p) + 1 - 1 |-> p[1 - 1 + i]] = [i \in 1 .. N |-> p[i]]
    BY <1>1
  <2>4. [i \in 1 .. N |-> p[i]] = p
    BY <1>1
  <2> QED
    BY <1>2, <2>2, <2>3, <2>4
<1>4. Path(l, l.end, "prev") = Reverse(p)
  <2>1. N \in 0 .. Len(p)
    BY <1>1
  <2>2. Path(l, At(p, N), "prev") = [i \in 1 .. N |-> p[N + 1 - i]]
    BY <2>1, PathBack
  <2>3. \A i \in 1 .. N : N + 1 - i = (N - i) + 1
    BY <1>1
  <2>4. [i \in 1 .. N |-> p[N + 1 - i]] = [i \in 1 .. N |-> p[(N - i) + 1]]
    BY <2>3
  <2> QED
    BY <1>2, <2>2, <2>4 DEF Reverse
<1>5. ToSet(p) = Live(l)
  <2>1. \A a \in Live(l) : \E i \in 1 .. N : p[i] = a
    BY DEF Chain, HasNodes
  <2>2. DOMAIN p = 1 .. N /\ \A i \in 1 .. N : p[i] \in Live(l)
    BY <1>1
  <2> QED
    BY <2>1, <2>2 DEF ToSet
<1>6. \A i \in 1 .. N - 1 : Before(String(l, p[i]), String(l, p[i + 1]))
  <2>1. \A i \in 1 .. N - 1 : i \in 1 .. N /\ i + 1 \in 1 .. N /\ i < i + 1
    BY <1>1
  <2> QED
    BY <2>1 DEF Chain, Sorted
<1>7. (p = <<>> => l.last = NULL) /\ (p # <<>> => l.last \in Live(l))
  BY <1>1 DEF Chain, HasEnds
<1>8. N = Cardinality(Live(l))
  BY ChainFacts
<1> QED
  BY <1>2, <1>3, <1>4, <1>5, <1>6, <1>7, <1>8 DEF Sound

(***************************************************************************)
(* One record after the other                                              *)
(***************************************************************************)

(* What holds of the first and is kept from each to the next holds of all. *)
LEMMA AllAlong ==
  ASSUME NEW X, NEW n \in Nat, NEW f, f[0] \in X,
         \A i \in 1 .. n : f[i - 1] \in X => f[i] \in X
  PROVE  \A i \in 0 .. n : f[i] \in X
<1> DEFINE T == {i \in 0 .. n : f[i] \notin X}
<1> SUFFICES ASSUME T # {} PROVE FALSE
  OBVIOUS
<1>1. PICK i \in T : \A j \in T : i <= j
  <2>1. T \in SUBSET Nat
    OBVIOUS
  <2> QED
    BY <2>1, SmallestNumber
<1>2. i \in 1 .. n /\ i - 1 \in 0 .. n /\ ~ (i <= i - 1)
  BY <1>1
<1>3. f[i - 1] \in X
  BY <1>1, <1>2
<1> QED
  BY <1>1, <1>2, <1>3

(* A function that each value determines the next of exists.               *)
Runs(X, n, x, F) ==
  \E f \in [0 .. n -> X] : f[0] = x /\ \A i \in 1 .. n : f[i] = F[i][f[i - 1]]

LEMMA Successive ==
  ASSUME NEW X, NEW n \in Nat, NEW x \in X, NEW F \in [1 .. n -> [X -> X]]
  PROVE  Runs(X, n, x, F)
<1> DEFINE Upto(m, f) == f[0] = x /\ \A i \in 1 .. m : f[i] = F[i][f[i - 1]]
           T == {m \in 0 .. n : ~ \E f \in [0 .. m -> X] : Upto(m, f)}
<1>1. SUFFICES ASSUME T # {} PROVE FALSE
  <2>1. n \notin T
    BY <1>1
  <2>2. \E f \in [0 .. n -> X] : Upto(n, f)
    BY <2>1
  <2> QED
    BY <2>2 DEF Runs
<1>2. PICK m \in T : \A k \in T : m <= k
  <2>1. T \in SUBSET Nat
    OBVIOUS
  <2> QED
    BY <1>1, <2>1, SmallestNumber
<1>3. CASE m = 0
  <2>1. [i \in 0 .. 0 |-> x] \in [0 .. 0 -> X]
    OBVIOUS
  <2>2. Upto(0, [i \in 0 .. 0 |-> x])
    OBVIOUS
  <2> QED
    BY <1>2, <1>3, <2>1, <2>2
<1>4. CASE m # 0
  <2>1. m \in 1 .. n /\ m - 1 \in 0 .. n /\ ~ (m <= m - 1)
    BY <1>2, <1>4
  <2>2. PICK g \in [0 .. m - 1 -> X] : Upto(m - 1, g)
    BY <1>2, <2>1
  <2> DEFINE y == F[m][g[m - 1]]
             f == [i \in 0 .. m |-> IF i = m THEN y ELSE g[i]]
  <2>3. y \in X
    <3>1. m - 1 \in 0 .. m - 1
      BY <2>1
    <3> QED
      BY <2>1, <2>2, <3>1
  <2> HIDE DEF y
  <2>4. f \in [0 .. m -> X]
    <3>1. \A i \in 0 .. m : i # m => i \in 0 .. m - 1
      BY <2>1
    <3> QED
      BY <2>2, <2>3, <3>1
  <2>5. f[m] = y /\ \A i \in 0 .. m - 1 : f[i] = g[i]
    BY <2>1
  <2> HIDE DEF f
  <2>6. ASSUME NEW i \in 1 .. m PROVE f[i] = F[i][f[i - 1]]
    <3>1. i - 1 \in 0 .. m - 1
      BY <2>1
    <3>2. CASE i = m
      BY <2>5, <3>1, <3>2 DEF y
    <3>3. CASE i # m
      <4>1. i \in 1 .. m - 1 /\ i \in 0 .. m - 1
        BY <2>1, <3>3
      <4> QED
        BY <2>2, <2>5, <3>1, <4>1
    <3> QED
      BY <3>2, <3>3
  <2>7. f[0] = x
    <3>1. 0 \in 0 .. m - 1
      BY <2>1
    <3> QED
      BY <2>2, <2>5, <3>1
  <2> QED
    BY <1>2, <2>4, <2>6, <2>7
<1> QED
  BY <1>3, <1>4

(* A recursive function of such steps is one, and its values stay in X.     *)
Along(w, n, x, X, F) ==
  /\ w \in [0 .. n -> X] /\ w[0] = x
  /\ \A i \in 1 .. n : w[i - 1] \in X /\ w[i] = F[i][w[i - 1]]

Follows(f, n, x, X, F) ==
  f[0] = x /\ \A i \in 1 .. n : f[i - 1] \in X => f[i] = F[i][f[i - 1]]

RunsTo(f, n, x, X, F) == \E w : Along(w, n, x, X, F) /\ w[n] \in X /\ f[n] = w[n]

LEMMA RunIs ==
  ASSUME NEW X, NEW n \in Nat, NEW x \in X, NEW F \in [1 .. n -> [X -> X]], NEW after,
         \A w : Along(w, n, x, X, F) => Follows(after, n, x, X, F)
  PROVE  RunsTo(after, n, x, X, F)
<1>1. Runs(X, n, x, F)
  BY Successive
<1>2. PICK w \in [0 .. n -> X] : w[0] = x /\ \A i \in 1 .. n : w[i] = F[i][w[i - 1]]
  BY <1>1 DEF Runs
<1>3. \A i \in 1 .. n : i - 1 \in 0 .. n
  OBVIOUS
<1>4. Along(w, n, x, X, F)
  BY <1>2, <1>3 DEF Along
<1>5. Follows(after, n, x, X, F)
  BY <1>4
<1> DEFINE same == {i \in 0 .. n : after[i] = w[i]}
           id == [i \in 0 .. n |-> i]
<1>6. \A i \in 0 .. n : id[i] = i
  OBVIOUS
<1>7. id[0] \in same
  <2>1. 0 \in 0 .. n /\ after[0] = w[0]
    BY <1>2, <1>5 DEF Follows
  <2> QED
    BY <2>1
<1>8. ASSUME NEW i \in 1 .. n, id[i - 1] \in same PROVE id[i] \in same
  <2>1. i \in 0 .. n /\ i - 1 \in 0 .. n /\ after[i - 1] = w[i - 1]
    BY <1>8
  <2>2. w[i - 1] \in X /\ w[i] = F[i][w[i - 1]]
    BY <1>2, <2>1
  <2>3. after[i] = w[i]
    BY <1>5, <2>1, <2>2 DEF Follows
  <2> QED
    BY <2>1, <2>3
<1> HIDE DEF same, id
<1>9. \A i \in 0 .. n : id[i] \in same
  BY <1>7, <1>8, AllAlong
<1>10. after[n] = w[n] /\ w[n] \in X
  <2>1. n \in 0 .. n
    OBVIOUS
  <2> QED
    BY <1>2, <1>6, <1>9, <2>1 DEF same
<1> QED
  BY <1>4, <1>10 DEF RunsTo

LEMMA StaysIn ==
  ASSUME NEW X, NEW n \in Nat, NEW x \in X, NEW F \in [1 .. n -> [X -> X]], NEW after,
         \A w : Along(w, n, x, X, F) => Follows(after, n, x, X, F)
  PROVE  after[n] \in X
<1>1. RunsTo(after, n, x, X, F)
  BY RunIs
<1> QED
  BY <1>1 DEF RunsTo

(***************************************************************************)
(* What decoding gives                                                     *)
(***************************************************************************)

EntryLists == {"ulbs", "dros", "umps", "tmrs", "wtqrs", "tqrs", "otids"}
OtherLists == EntryLists \ {"otids"}

(* Any entry of one of the lists but that of the OTIDs is in E.             *)
Entries(L) == [list : L, key : Seq(Int), with : Int, timed : BOOLEAN]
HasOthers(E) == Entries(OtherLists) \subseteq E

(* What decoding knows of a packet, with entries in E and the flags in B    *)
Decodings(E, B) ==
  [ret : Int, source_name : Seq(Int), temp_buff : Int,
   otid_flag : B, dro_src_flag : B, ex_func_flag : B, ex_func_str : Int,
   msg_domain_id : Int, app_maj_ver : Int, misplaced : B, prev_num_domains : Int,
   stored : Seq(E), count : [Counters -> Nat]]

LEMMA Wider ==
  ASSUME NEW E, NEW B \in SUBSET BOOLEAN, NEW d \in Decodings(E, B)
  PROVE  d \in Decodings(E, BOOLEAN)
  BY DEF Decodings

LEMMA CountedType ==
  ASSUME NEW E, NEW B, NEW d \in Decodings(E, B), NEW c \in Counters
  PROVE  Counted(d, c) \in Decodings(E, B)
<1> DEFINE k == [d.count EXCEPT ![c] = @ + 1]
<1>1. k \in [Counters -> Nat]
  BY DEF Decodings
<1>2. Counted(d, c) = [d EXCEPT !.count = k]
  BY DEF Decodings, Counted
<1> HIDE DEF k
<1> QED
  BY <1>1, <1>2 DEF Decodings

LEMMA ReturnType ==
  ASSUME NEW E, NEW B, NEW d \in Decodings(E, B), NEW code \in Int
  PROVE  Return(d, code) \in Decodings(E, B)
  BY DEF Decodings, Return

IsOpts(opts) == opts.save_all \in BOOLEAN

LEMMA StoredType ==
  ASSUME NEW E, NEW B, NEW d \in Decodings(E, B), NEW opts, NEW list, NEW key, NEW with,
         opts.stats =>
           [list |-> list, key |-> key, with |-> with, timed |-> opts.save_all] \in E
  PROVE  Store(d, opts, list, key, with) \in Decodings(E, B)
<1> DEFINE e == [list |-> list, key |-> key, with |-> with, timed |-> opts.save_all]
<1>1. opts.stats => e \in E
  OBVIOUS
<1>2. Store(d, opts, list, key, with)
        = IF opts.stats THEN [d EXCEPT !.stored = Append(d.stored, e)] ELSE d
  BY DEF Store
<1> HIDE DEF e
<1>3. d.stored \in Seq(E)
  BY DEF Decodings
<1>4. opts.stats => Append(d.stored, e) \in Seq(E)
  BY <1>1, <1>3
<1> QED
  BY <1>2, <1>4 DEF Decodings

LEMMA StoreType ==
  ASSUME NEW E, NEW B, HasOthers(E), NEW d \in Decodings(E, B), NEW opts, IsOpts(opts),
         NEW list \in OtherLists, NEW key \in Seq(Int), NEW with \in Int
  PROVE  Store(d, opts, list, key, with) \in Decodings(E, B)
<1>1. [list |-> list, key |-> key, with |-> with, timed |-> opts.save_all] \in E
  BY DEF HasOthers, Entries, IsOpts
<1> QED
  BY <1>1, StoredType

LEMMA HeaderOptionType ==
  ASSUME NEW E, NEW B, NEW d \in Decodings(E, B), NEW o, o.val \in Int
  PROVE  HeaderOption(d, o) \in Decodings(E, B)
<1>1. \A code \in Int : Return(d, code) \in Decodings(E, B)
  BY ReturnType
<1>2. [d EXCEPT !.msg_domain_id = o.val] \in Decodings(E, B)
  BY DEF Decodings
<1>3. [d EXCEPT !.app_maj_ver = o.val] \in Decodings(E, B)
  BY DEF Decodings
<1> QED
  BY <1>1, <1>2, <1>3 DEF HeaderOption

LEMMA HeaderOptionsType ==
  ASSUME NEW E, NEW B, NEW d \in Decodings(E, B), NEW hopts,
         HasNumbers(hopts)
  PROVE  Each(HeaderOption, d, hopts) \in Decodings(E, B)
<1> DEFINE n == Len(hopts)
           Parse(e, i) == IF e.ret # 0 THEN e ELSE HeaderOption(e, hopts[i])
           F == [i \in 1 .. n |-> [e \in Decodings(E, B) |-> Parse(e, i)]]
           P(f) == f = [i \in 0 .. n |-> IF i = 0 THEN d
                                        ELSE IF f[i - 1].ret # 0 THEN f[i - 1]
                                        ELSE HeaderOption(f[i - 1], hopts[i])]
           after == CHOOSE f : P(f)
<1>1. n \in Nat /\ F \in [1 .. n -> [Decodings(E, B) -> Decodings(E, B)]]
  <2>1. \A i \in 1 .. n : \A e \in Decodings(E, B) : Parse(e, i) \in Decodings(E, B)
    BY HeaderOptionType DEF HasNumbers
  <2> HIDE DEF Parse
  <2> QED
    BY <2>1 DEF HasNumbers
<1>2. ASSUME NEW w, Along(w, n, d, Decodings(E, B), F)
      PROVE  Follows(after, n, d, Decodings(E, B), F)
  <2>1. \A i \in 1 .. n : \A e \in Decodings(E, B) : F[i][e] = Parse(e, i)
    OBVIOUS
  <2>2. \A i \in 1 .. n : w[i] = Parse(w[i - 1], i)
    <3> HIDE DEF F, Parse
    <3> QED
      BY <1>2, <2>1 DEF Along
  <2>3. P(w)
    BY <1>1, <1>2, <2>2 DEF Along
  <2>4. P(after)
    <3> HIDE DEF P
    <3> QED
      BY <2>3, Zenon
  <2> HIDE DEF after
  <2>5. after[0] = d /\ \A i \in 1 .. n : after[i] = Parse(after[i - 1], i)
    <3>1. 0 \in 0 .. n /\ \A i \in 1 .. n : i \in 0 .. n /\ i # 0
      BY <1>1
    <3> QED
      BY <2>4, <3>1
  <2> HIDE DEF P, F, Parse
  <2> QED
    BY <2>1, <2>5 DEF Follows
<1>3. after[n] \in Decodings(E, B)
  <2> HIDE DEF F, after, n
  <2> QED
    BY <1>1, <1>2, StaysIn
<1> QED
  BY <1>3 DEF Each

LEMMA OpenedType ==
  ASSUME NEW E, NEW B, NEW d \in Decodings(E, B), NEW p, IsPacket(p), p.version \in {0,
         1}
  PROVE  HeaderOptions(d, p) \in Decodings(E, B)
<1>1. HasNumbers(p.hopts) /\ TrailerCodes[p.trailer] \in Int
  BY DEF IsPacket, TrailerCodes
<1>2. Each(HeaderOption, d, p.hopts) \in Decodings(E, B)
  BY <1>1, HeaderOptionsType
<1>3. Return(d, TrailerCodes[p.trailer]) \in Decodings(E, B)
  BY <1>1, ReturnType
<1> QED
  BY <1>2, <1>3 DEF HeaderOptions

LEMMA ListNames ==
  /\ "ulbs" \in OtherLists /\ "dros" \in OtherLists /\ "umps" \in OtherLists
  /\ "tmrs" \in OtherLists /\ "wtqrs" \in OtherLists /\ "tqrs" \in OtherLists /\ 0 \in Int
  BY DEF OtherLists, EntryLists

LEMMA TopicKey ==
  ASSUME NEW E, NEW B, NEW d \in Decodings(E, B), NEW topic \in Int
  PROVE  <<topic, Domain(d.msg_domain_id)>> \in Seq(Int) /\ <<topic>> \in Seq(Int)
<1>1. Domain(d.msg_domain_id) \in Int
  BY DEF Decodings, Domain
<1> QED
  BY <1>1

LEMMA WildcardQueryType ==
  ASSUME NEW E, NEW B, HasOthers(E), NEW d \in Decodings(E, B), NEW opts, IsOpts(opts),
         NEW q, q.topic \in Int
  PROVE  WildcardQuery(d, opts, q) \in Decodings(E, B)
<1>1. Counted(d, "wtqrs") \in Decodings(E, B)
  BY CountedType DEF Counters
<1>2. <<q.topic, Domain(d.msg_domain_id)>> \in Seq(Int)
  BY TopicKey
<1> QED
  BY <1>1, <1>2, ListNames, StoreType DEF WildcardQuery

LEMMA NamedType ==
  ASSUME NEW E, NEW B, NEW d \in Decodings(E, B), NEW name \in Seq(Int)
  PROVE  [d EXCEPT !.source_name = name] \in Decodings(E, B)
  BY DEF Decodings

LEMMA QueryType ==
  ASSUME NEW E, NEW B, HasOthers(E), NEW d \in Decodings(E, B), NEW opts, IsOpts(opts),
         NEW q, q.topic \in Int
  PROVE  Query(d, opts, q) \in Decodings(E, B)
<1> DEFINE noted == Counted(d, "tqrs")
           name == IF opts.stats THEN <<q.topic>> ELSE noted.source_name
<1>1. noted \in Decodings(E, B)
  BY CountedType DEF Counters
<1>2. <<q.topic, Domain(d.msg_domain_id)>> \in Seq(Int) /\ <<q.topic>> \in Seq(Int)
  BY TopicKey
<1>3. name \in Seq(Int)
  BY <1>1, <1>2 DEF Decodings
<1> HIDE DEF noted, name
<1> DEFINE named == [noted EXCEPT !.source_name = name]
           key == <<q.topic, Domain(d.msg_domain_id)>>
<1>4. named \in Decodings(E, B)
  BY <1>1, <1>3, NamedType
<1>5. Query(d, opts, q) = Store(named, opts, "tqrs", key, 0)
  BY DEF Query, noted, name
<1>6. key \in Seq(Int)
  BY <1>2
<1> HIDE DEF named, key
<1> QED
  BY <1>4, <1>5, <1>6, ListNames, StoreType

LEMMA QueriesType ==
  ASSUME NEW E, NEW B, HasOthers(E), NEW d \in Decodings(E, B), NEW opts, IsOpts(opts),
         NEW p,
         HasTopics(p.tqrs)
  PROVE  Queries(d, opts, p) \in Decodings(E, B)
<1> DEFINE n == Len(p.tqrs)
           Parse(e, i) == IF e.ret # 0 THEN e ELSE Query(e, opts, p.tqrs[i])
           F == [i \in 1 .. n |-> [e \in Decodings(E, B) |-> Parse(e, i)]]
           P(f) == f = [i \in 0 .. n |-> IF i = 0 THEN d
                                        ELSE IF f[i - 1].ret # 0 THEN f[i - 1]
                                        ELSE Query(f[i - 1], opts, p.tqrs[i])]
           after == CHOOSE f : P(f)
<1>1. n \in Nat /\ F \in [1 .. n -> [Decodings(E, B) -> Decodings(E, B)]]
  <2>1. \A i \in 1 .. n : \A e \in Decodings(E, B) : Parse(e, i) \in Decodings(E, B)
    BY QueryType DEF HasTopics
  <2> HIDE DEF Parse
  <2> QED
    BY <2>1 DEF HasTopics
<1>2. ASSUME NEW w, Along(w, n, d, Decodings(E, B), F)
      PROVE  Follows(after, n, d, Decodings(E, B), F)
  <2>1. \A i \in 1 .. n : \A e \in Decodings(E, B) : F[i][e] = Parse(e, i)
    OBVIOUS
  <2>2. \A i \in 1 .. n : w[i] = Parse(w[i - 1], i)
    <3> HIDE DEF F, Parse
    <3> QED
      BY <1>2, <2>1 DEF Along
  <2>3. P(w)
    BY <1>1, <1>2, <2>2 DEF Along
  <2>4. P(after)
    <3> HIDE DEF P
    <3> QED
      BY <2>3, Zenon
  <2> HIDE DEF after
  <2>5. after[0] = d /\ \A i \in 1 .. n : after[i] = Parse(after[i - 1], i)
    <3>1. 0 \in 0 .. n /\ \A i \in 1 .. n : i \in 0 .. n /\ i # 0
      BY <1>1
    <3> QED
      BY <2>4, <3>1
  <2> HIDE DEF P, F, Parse
  <2> QED
    BY <2>1, <2>5 DEF Follows
<1>3. after[n] \in Decodings(E, B)
  <2> HIDE DEF F, after, n
  <2> QED
    BY <1>1, <1>2, StaysIn
<1> QED
  BY <1>3 DEF Queries, Each

LEMMA WildcardQueriesType ==
  ASSUME NEW E, NEW B, HasOthers(E), NEW d \in Decodings(E, B), NEW opts, IsOpts(opts),
         NEW p,
         HasTopics(p.tqrs)
  PROVE  WildcardQueries(d, opts, p) \in Decodings(E, B)
<1> DEFINE n == Len(p.tqrs)
           Parse(e, i) == IF e.ret # 0 THEN e ELSE WildcardQuery(e, opts, p.tqrs[i])
           F == [i \in 1 .. n |-> [e \in Decodings(E, B) |-> Parse(e, i)]]
           P(f) == f = [i \in 0 .. n |-> IF i = 0 THEN d
                                        ELSE IF f[i - 1].ret # 0 THEN f[i - 1]
                                        ELSE WildcardQuery(f[i - 1], opts, p.tqrs[i])]
           after == CHOOSE f : P(f)
<1>1. n \in Nat /\ F \in [1 .. n -> [Decodings(E, B) -> Decodings(E, B)]]
  <2>1. \A i \in 1 .. n : \A e \in Decodings(E, B) : Parse(e, i) \in Decodings(E, B)
    BY WildcardQueryType DEF HasTopics
  <2> HIDE DEF Parse
  <2> QED
    BY <2>1 DEF HasTopics
<1>2. ASSUME NEW w, Along(w, n, d, Decodings(E, B), F)
      PROVE  Follows(after, n, d, Decodings(E, B), F)
  <2>1. \A i \in 1 .. n : \A e \in Decodings(E, B) : F[i][e] = Parse(e, i)
    OBVIOUS
  <2>2. \A i \in 1 .. n : w[i] = Parse(w[i - 1], i)
    <3> HIDE DEF F, Parse
    <3> QED
      BY <1>2, <2>1 DEF Along
  <2>3. P(w)
    BY <1>1, <1>2, <2>2 DEF Along
  <2>4. P(after)
    <3> HIDE DEF P
    <3> QED
      BY <2>3, Zenon
  <2> HIDE DEF after
  <2>5. after[0] = d /\ \A i \in 1 .. n : after[i] = Parse(after[i - 1], i)
    <3>1. 0 \in 0 .. n /\ \A i \in 1 .. n : i \in 0 .. n /\ i # 0
      BY <1>1
    <3> QED
      BY <2>4, <3>1
  <2> HIDE DEF P, F, Parse
  <2> QED
    BY <2>1, <2>5 DEF Follows
<1>3. after[n] \in Decodings(E, B)
  <2> HIDE DEF F, after, n
  <2> QED
    BY <1>1, <1>2, StaysIn
<1>4. Return(d, 200) \in Decodings(E, B)
  BY ReturnType
<1> QED
  BY <1>3, <1>4 DEF WildcardQueries, Each

(* The options of a topic                                                  *)

LEMMA OtidOptionType ==
  ASSUME NEW E, NEW d \in Decodings(E, BOOLEAN), NEW o, o.val \in Int, NEW tir,
         tir.topic \in Int
  PROVE  OtidOption(d, o, tir) \in Decodings(E, BOOLEAN)
<1> DEFINE k == Counted(d, "otids")
           noted == [k EXCEPT !.otid_flag = TRUE]
<1>1. k \in Decodings(E, BOOLEAN)
  BY CountedType DEF Counters
<1> HIDE DEF k
<1>2. noted \in Decodings(E, BOOLEAN)
  BY <1>1 DEF Decodings
<1>3. [noted EXCEPT !.source_name = <<o.val>>, !.temp_buff = tir.topic] \in Decodings(E, BOOLEAN)
  <2> HIDE DEF noted
  <2>1. <<o.val>> \in Seq(Int)
    OBVIOUS
  <2>2. [noted EXCEPT !.source_name = <<o.val>>] \in Decodings(E, BOOLEAN)
    BY <1>2, <2>1, NamedType
  <2> QED
    BY <2>2 DEF Decodings
<1>4. Return(d, 10000) \in Decodings(E, BOOLEAN) /\ Return(noted, 10001) \in Decodings(E, BOOLEAN)
  BY <1>2, ReturnType
<1>5. OtidOption(d, o, tir)
        = IF ~ o.ok THEN Return(d, 10000)
          ELSE IF o.val = 0 THEN Return(noted, 10001)
          ELSE [noted EXCEPT !.source_name = <<o.val>>, !.temp_buff = tir.topic]
  BY DEF OtidOption, k
<1> HIDE DEF noted
<1> QED
  BY <1>3, <1>4, <1>5

LEMMA DomainIdOptionType ==
  ASSUME NEW E, NEW d \in Decodings(E, BOOLEAN), NEW opts, NEW o, o.val \in Int
  PROVE  DomainIdOption(d, opts, o) \in Decodings(E, BOOLEAN)
<1> DEFINE k == Counted(d, "dro_src")
           noted == [k EXCEPT !.dro_src_flag = TRUE]
           name == Append(noted.source_name, Domain(o.val))
<1>1. k \in Decodings(E, BOOLEAN)
  BY CountedType DEF Counters
<1> HIDE DEF k
<1>2. noted \in Decodings(E, BOOLEAN)
  BY <1>1 DEF Decodings
<1> HIDE DEF noted
<1>3. name \in Seq(Int)
  <2>1. noted.source_name \in Seq(Int)
    BY <1>2 DEF Decodings
  <2>2. Domain(o.val) \in Int
    BY DEF Domain
  <2> QED
    BY <2>1, <2>2
<1> HIDE DEF name
<1>4. /\ [noted EXCEPT !.source_name = name] \in Decodings(E, BOOLEAN)
      /\ Return(noted, 665) \in Decodings(E, BOOLEAN)
  BY <1>2, <1>3, NamedType, ReturnType
<1>5. DomainIdOption(d, opts, o)
        = IF ~ opts.stats THEN noted
          ELSE IF Len(noted.source_name) < MaxParts THEN [noted EXCEPT !.source_name = name]
          ELSE Return(noted, 665)
  BY DEF DomainIdOption, k, noted, name
<1> QED
  BY <1>2, <1>4, <1>5

LEMMA ExFuncOptionType ==
  ASSUME NEW E, NEW d \in Decodings(E, BOOLEAN), NEW opts, NEW o
  PROVE  ExFuncOption(d, opts, o) \in Decodings(E, BOOLEAN)
<1> DEFINE k == Counted(d, "umps")
           noted == IF "ume" \in o.val THEN [k EXCEPT !.ex_func_flag = TRUE] ELSE d
<1>1. k \in Decodings(E, BOOLEAN)
  BY CountedType DEF Counters
<1>2. ExFuncOption(d, opts, o)
        = IF o.val # {} /\ opts.stats THEN [noted EXCEPT !.ex_func_str = ExFuncName(o.val)]
          ELSE noted
  BY DEF ExFuncOption
<1> HIDE DEF k
<1>3. noted \in Decodings(E, BOOLEAN)
  BY <1>1 DEF Decodings
<1> HIDE DEF noted
<1>4. [noted EXCEPT !.ex_func_str = ExFuncName(o.val)] \in Decodings(E, BOOLEAN)
  <2>1. ExFuncName(o.val) \in Int
    BY DEF ExFuncName
  <2> QED
    BY <1>3, <2>1 DEF Decodings
<1> QED
  BY <1>2, <1>3, <1>4

LEMMA UmeOptionType ==
  ASSUME NEW E, NEW d \in Decodings(E, BOOLEAN), NEW o
  PROVE  UmeOption(d, o) \in Decodings(E, BOOLEAN)
<1>1. [d EXCEPT !.misplaced = TRUE] \in Decodings(E, BOOLEAN)
  BY DEF Decodings
<1>2. Return(d, 501) \in Decodings(E, BOOLEAN)
  BY ReturnType
<1> QED
  BY <1>1, <1>2 DEF UmeOption

LEMMA TopicOptionType ==
  ASSUME NEW E, HasOthers(E), NEW d \in Decodings(E, BOOLEAN), NEW opts, IsOpts(opts),
         NEW o, IsOption(o),
         NEW tir, tir.topic \in Int, NEW unset, IsUnset(unset)
  PROVE  TopicOption(d, opts, o, tir, unset) \in Decodings(E, BOOLEAN)
<1>1. \A code \in Int : Return(d, code) \in Decodings(E, BOOLEAN)
  BY ReturnType
<1>2. Return(d, unset.misread) \in Decodings(E, BOOLEAN)
  BY <1>1 DEF IsUnset
<1>3. /\ Return(d, 500) \in Decodings(E, BOOLEAN) /\ Return(d, -1) \in Decodings(E, BOOLEAN)
      /\ Return(d, 501) \in Decodings(E, BOOLEAN) /\ Return(d, 666) \in Decodings(E, BOOLEAN)
  BY <1>1
<1>4. /\ UmeOption(d, o) \in Decodings(E, BOOLEAN)
      /\ ExFuncOption(d, opts, o) \in Decodings(E, BOOLEAN)
  BY UmeOptionType, ExFuncOptionType
<1>5. Domain(d.msg_domain_id) \in Int
  BY DEF Decodings, Domain
<1>6. Store(d, opts, "tmrs", <<Evicted, tir.topic, Domain(d.msg_domain_id)>>, 0)
        \in Decodings(E, BOOLEAN)
  <2>1. <<Evicted, tir.topic, Domain(d.msg_domain_id)>> \in Seq(Int)
    BY <1>5 DEF Evicted
  <2> QED
    BY <2>1, ListNames, StoreType
<1>7. ASSUME o.kind # "exfunc"
      PROVE  /\ OtidOption(d, o, tir) \in Decodings(E, BOOLEAN)
             /\ DomainIdOption(d, opts, o) \in Decodings(E, BOOLEAN)
             /\ Store(d, opts, "umps", <<tir.topic, Domain(d.msg_domain_id), o.val>>, 0)
                  \in Decodings(E, BOOLEAN)
             /\ Store(Counted(d, "ulbs"), opts, "ulbs", <<o.val>>, 0) \in Decodings(E, BOOLEAN)
  <2>1. o.val \in Int
    BY <1>7 DEF IsOption
  <2>2. <<tir.topic, Domain(d.msg_domain_id), o.val>> \in Seq(Int) /\ <<o.val>> \in Seq(Int)
    BY <1>5, <2>1
  <2>3. Counted(d, "ulbs") \in Decodings(E, BOOLEAN)
    BY CountedType DEF Counters
  <2>4. OtidOption(d, o, tir) \in Decodings(E, BOOLEAN)
    BY <2>1, OtidOptionType
  <2>5. DomainIdOption(d, opts, o) \in Decodings(E, BOOLEAN)
    BY <2>1, DomainIdOptionType
  <2>6. Store(d, opts, "umps", <<tir.topic, Domain(d.msg_domain_id), o.val>>, 0)
          \in Decodings(E, BOOLEAN)
    BY <2>2, ListNames, StoreType
  <2>7. Store(Counted(d, "ulbs"), opts, "ulbs", <<o.val>>, 0) \in Decodings(E, BOOLEAN)
    BY <2>2, <2>3, ListNames, StoreType
  <2> QED
    BY <2>4, <2>5, <2>6, <2>7
<1> QED
  BY <1>2, <1>3, <1>4, <1>6, <1>7 DEF TopicOption

(* The options of a topic are taken one after the other, until a return.   *)
OptionsRun(w, d, opts, tir, unset) ==
  /\ w[0] = d
  /\ \A i \in 1 .. Len(tir.opts) :
       w[i] = IF w[i - 1].ret # 0 THEN w[i - 1]
              ELSE TopicOption(w[i - 1], opts, tir.opts[i], tir, unset)

HasRun(X, d, opts, tir, unset) ==
  \E w \in [0 .. Len(tir.opts) -> X] :
    /\ OptionsRun(w, d, opts, tir, unset)
    /\ TopicOptions(d, opts, tir, unset) = w[Len(tir.opts)]

LEMMA TopicOptionsRun ==
  ASSUME NEW X, NEW d \in X, NEW opts, NEW tir, IsTopic(tir), NEW unset,
         tir.optlen = "ok",
         \A i \in 1 .. Len(tir.opts) : \A e \in X :
           TopicOption(e, opts, tir.opts[i], tir, unset) \in X
  PROVE  HasRun(X, d, opts, tir, unset)
<1> DEFINE n == Len(tir.opts)
           Parse(e, i) == IF e.ret # 0 THEN e ELSE TopicOption(e, opts, tir.opts[i], tir, unset)
           F == [i \in 1 .. n |-> [e \in X |-> Parse(e, i)]]
           P(f) == f = [i \in 0 .. n |->
                          IF i = 0 THEN d
                          ELSE IF f[i - 1].ret # 0 THEN f[i - 1]
                          ELSE TopicOption(f[i - 1], opts, tir.opts[i], tir, unset)]
           after == CHOOSE f : P(f)
<1>1. n \in Nat /\ F \in [1 .. n -> [X -> X]]
  <2>1. \A i \in 1 .. n : \A e \in X : Parse(e, i) \in X
    OBVIOUS
  <2> HIDE DEF Parse
  <2> QED
    BY <2>1 DEF IsTopic
<1>2. ASSUME NEW w, Along(w, n, d, X, F) PROVE Follows(after, n, d, X, F)
  <2>1. \A i \in 1 .. n : \A e \in X : F[i][e] = Parse(e, i)
    OBVIOUS
  <2>2. \A i \in 1 .. n : w[i] = Parse(w[i - 1], i)
    <3> HIDE DEF F, Parse
    <3> QED
      BY <1>2, <2>1 DEF Along
  <2>3. P(w)
    BY <1>1, <1>2, <2>2 DEF Along
  <2>4. P(after)
    <3> HIDE DEF P
    <3> QED
      BY <2>3, Zenon
  <2> HIDE DEF after
  <2>5. after[0] = d /\ \A i \in 1 .. n : after[i] = Parse(after[i - 1], i)
    <3>1. 0 \in 0 .. n /\ \A i \in 1 .. n : i \in 0 .. n /\ i # 0
      BY <1>1
    <3> QED
      BY <2>4, <3>1
  <2> HIDE DEF P, F, Parse
  <2> QED
    BY <2>1, <2>5 DEF Follows
<1>3. TopicOptions(d, opts, tir, unset) = after[n]
  BY DEF TopicOptions, Each
<1>4. RunsTo(after, n, d, X, F)
  <2> HIDE DEF F, after, n
  <2> QED
    BY <1>1, <1>2, RunIs
<1> HIDE DEF after
<1>5. PICK w : Along(w, n, d, X, F) /\ after[n] = w[n]
  BY <1>4 DEF RunsTo
<1>6. w \in [0 .. n -> X] /\ OptionsRun(w, d, opts, tir, unset)
  BY <1>1, <1>5 DEF Along, OptionsRun
<1> QED
  BY <1>3, <1>5, <1>6 DEF HasRun

LEMMA TopicOptionsType ==
  ASSUME NEW E, HasOthers(E), NEW d \in Decodings(E, BOOLEAN), NEW opts, IsOpts(opts),
         NEW tir, IsTopic(tir), NEW unset, IsUnset(unset)
  PROVE  TopicOptions(d, opts, tir, unset) \in Decodings(E, BOOLEAN)
<1>1. \A i \in 1 .. Len(tir.opts) : \A e \in Decodings(E, BOOLEAN) :
        TopicOption(e, opts, tir.opts[i], tir, unset) \in Decodings(E, BOOLEAN)
  BY TopicOptionType DEF IsTopic
<1>2. ASSUME tir.optlen = "ok"
      PROVE  TopicOptions(d, opts, tir, unset) \in Decodings(E, BOOLEAN)
  <2> DEFINE X == Decodings(E, BOOLEAN)
  <2> HIDE DEF X
  <2>1. d \in X
    BY DEF X
  <2>2. \A i \in 1 .. Len(tir.opts) : \A e \in X :
          TopicOption(e, opts, tir.opts[i], tir, unset) \in X
    BY <1>1 DEF X
  <2>3. HasRun(X, d, opts, tir, unset)
    BY <1>2, <2>1, <2>2, TopicOptionsRun
  <2>4. Len(tir.opts) \in 0 .. Len(tir.opts)
    BY DEF IsTopic
  <2> QED
    BY <2>3, <2>4 DEF X, HasRun
<1>3. /\ Return(d, 401) \in Decodings(E, BOOLEAN)
      /\ Return(d, 402) \in Decodings(E, BOOLEAN)
      /\ Return(d, 403) \in Decodings(E, BOOLEAN)
  BY ReturnType
<1>4. tir.optlen \in {"none", "type", "len", "total", "ok"}
  BY DEF IsTopic
<1> QED
  BY <1>2, <1>3, <1>4 DEF TopicOptions

(* The entry of a topic that was heard with its OTID                       *)
OtidEntry(d, opts) ==
  [list |-> "otids", with |-> d.temp_buff, timed |-> opts.save_all,
   key |-> IF d.ex_func_flag THEN Append(d.source_name, d.ex_func_str) ELSE d.source_name]

LEMMA OtidEntryType ==
  ASSUME NEW E, NEW d \in Decodings(E, BOOLEAN), NEW opts, IsOpts(opts)
  PROVE  OtidEntry(d, opts) \in Entries(EntryLists)
<1> DEFINE key == IF d.ex_func_flag THEN Append(d.source_name, d.ex_func_str) ELSE d.source_name
<1>1. d.source_name \in Seq(Int) /\ d.ex_func_str \in Int /\ d.temp_buff \in Int
  BY DEF Decodings
<1>2. key \in Seq(Int)
  BY <1>1
<1>3. OtidEntry(d, opts)
        = [list |-> "otids", with |-> d.temp_buff, timed |-> opts.save_all, key |-> key]
  BY DEF OtidEntry
<1> HIDE DEF key
<1> QED
  BY <1>1, <1>2, <1>3 DEF Entries, EntryLists, IsOpts

LEMMA StoreOtidIs ==
  ASSUME NEW E, NEW d \in Decodings(E, BOOLEAN), NEW opts,
         opts.stats /\ (d.otid_flag \/ d.dro_src_flag) => OtidEntry(d, opts) \in E
  PROVE  /\ StoreOtid(d, opts) \in Decodings(E, BOOLEAN)
         /\ ~ StoreOtid(d, opts).otid_flag /\ ~ StoreOtid(d, opts).dro_src_flag
         /\ ~ StoreOtid(d, opts).ex_func_flag
         /\ StoreOtid(d, opts).misplaced = d.misplaced
<1> DEFINE name == Append(d.source_name, d.ex_func_str)
           named == IF d.ex_func_flag /\ opts.stats THEN [d EXCEPT !.source_name = name] ELSE d
           key == named.source_name
           entry == [list |-> "otids", key |-> key, with |-> d.temp_buff,
                     timed |-> opts.save_all]
           stored == IF d.otid_flag \/ d.dro_src_flag
                     THEN Store(named, opts, "otids", key, d.temp_buff) ELSE named
<1>1. d.source_name \in Seq(Int) /\ d.ex_func_str \in Int /\ d.temp_buff \in Int
  BY DEF Decodings
<1>2. name \in Seq(Int)
  BY <1>1
<1>3. StoreOtid(d, opts)
        = [stored EXCEPT !.otid_flag = FALSE, !.dro_src_flag = FALSE, !.ex_func_flag = FALSE]
  BY DEF StoreOtid
<1>4. opts.stats => entry = OtidEntry(d, opts)
  BY DEF OtidEntry, Decodings
<1> HIDE DEF name
<1>5. named \in Decodings(E, BOOLEAN) /\ named.misplaced = d.misplaced
  BY <1>2, NamedType DEF Decodings
<1> HIDE DEF named, key
<1>6. stored \in Decodings(E, BOOLEAN)
  <2>1. ASSUME d.otid_flag \/ d.dro_src_flag
        PROVE  Store(named, opts, "otids", key, d.temp_buff) \in Decodings(E, BOOLEAN)
    <3>1. opts.stats => entry \in E
      BY <1>4, <2>1
    <3> QED
      BY <1>5, <3>1, StoredType
  <2> QED
    BY <1>5, <2>1
<1>7. stored.misplaced = d.misplaced
  BY <1>5 DEF Store, Decodings
<1> HIDE DEF stored
<1> QED
  BY <1>3, <1>6, <1>7 DEF Decodings

LEMMA TransportType ==
  ASSUME NEW E, NEW B, NEW d \in Decodings(E, B), NEW tir
  PROVE  Transport(d, tir) \in Decodings(E, B)
<1>1. \A code \in Int : Return(d, code) \in Decodings(E, B)
  BY ReturnType
<1>2. \A t \in DOMAIN TransportCodes : TransportCodes[t] \in Int
  BY DEF TransportCodes
<1>3. Counted(d, "tirs") \in Decodings(E, B)
  BY CountedType DEF Counters
<1>4. Return(d, 1002) \in Decodings(E, B) /\ Return(d, 1007) \in Decodings(E, B)
  BY <1>1
<1> QED
  BY <1>1, <1>2, <1>3, <1>4 DEF Transport

LEMMA AdvertisementType ==
  ASSUME NEW E, HasOthers(E), Entries(EntryLists) \subseteq E, NEW d \in Decodings(E,
         BOOLEAN),
         NEW opts, IsOpts(opts), NEW tir, IsTopic(tir), NEW unset, IsUnset(unset)
  PROVE  Advertisement(d, opts, tir, unset) \in Decodings(E, BOOLEAN)
<1> DEFINE parsed == TopicOptions(d, opts, tir, unset)
<1>1. parsed \in Decodings(E, BOOLEAN)
  BY TopicOptionsType
<1>2. Return(d, unset.misread) \in Decodings(E, BOOLEAN)
  BY ReturnType DEF IsUnset
<1>3. Advertisement(d, opts, tir, unset)
        = IF d.misplaced THEN Return(d, unset.misread)
          ELSE IF parsed.ret # 0 THEN parsed ELSE Transport(StoreOtid(parsed, opts), tir)
  BY DEF Advertisement
<1> HIDE DEF parsed
<1>4. OtidEntry(parsed, opts) \in E
  BY <1>1, OtidEntryType
<1>5. Transport(StoreOtid(parsed, opts), tir) \in Decodings(E, BOOLEAN)
  BY <1>1, <1>4, StoreOtidIs, TransportType
<1> QED
  BY <1>1, <1>2, <1>3, <1>5

(* What each advertisement keeps, they keep together.                      *)
LEMMA AdvertisementsIn ==
  ASSUME NEW X, NEW d \in X, NEW opts, NEW p, NEW unset, Len(p.tirs) \in Nat,
         \A i \in 1 .. Len(p.tirs) : \A e \in X :
           e.ret = 0 => Advertisement(e, opts, p.tirs[i], unset) \in X
  PROVE  Advertisements(d, opts, p, unset) \in X
<1> DEFINE n == Len(p.tirs)
           Parse(e, i) == IF e.ret # 0 THEN e ELSE Advertisement(e, opts, p.tirs[i], unset)
           F == [i \in 1 .. n |-> [e \in X |-> Parse(e, i)]]
           P(f) == f = [i \in 0 .. n |->
                          IF i = 0 THEN d
                          ELSE IF f[i - 1].ret # 0 THEN f[i - 1]
                          ELSE Advertisement(f[i - 1], opts, p.tirs[i], unset)]
           after == CHOOSE f : P(f)
<1>1. n \in Nat /\ F \in [1 .. n -> [X -> X]]
  <2>1. \A i \in 1 .. n : \A e \in X : Parse(e, i) \in X
    OBVIOUS
  <2> HIDE DEF Parse
  <2> QED
    BY <2>1
<1>2. ASSUME NEW w, Along(w, n, d, X, F) PROVE Follows(after, n, d, X, F)
  <2>1. \A i \in 1 .. n : \A e \in X : F[i][e] = Parse(e, i)
    OBVIOUS
  <2>2. \A i \in 1 .. n : w[i] = Parse(w[i - 1], i)
    <3> HIDE DEF F, Parse
    <3> QED
      BY <1>2, <2>1 DEF Along
  <2>3. P(w)
    BY <1>1, <1>2, <2>2 DEF Along
  <2>4. P(after)
    <3> HIDE DEF P
    <3> QED
      BY <2>3, Zenon
  <2> HIDE DEF after
  <2>5. after[0] = d /\ \A i \in 1 .. n : after[i] = Parse(after[i - 1], i)
    <3>1. 0 \in 0 .. n /\ \A i \in 1 .. n : i \in 0 .. n /\ i # 0
      BY <1>1
    <3> QED
      BY <2>4, <3>1
  <2> HIDE DEF P, F, Parse
  <2> QED
    BY <2>1, <2>5 DEF Follows
<1>3. after[n] \in X
  <2> HIDE DEF F, after, n
  <2> QED
    BY <1>1, <1>2, StaysIn
<1> QED
  BY <1>3 DEF Advertisements, Each

(* A packet of queries and advertisements                                  *)
LEMMA NormalIn ==
  ASSUME NEW E, HasOthers(E), NEW B \in SUBSET BOOLEAN, NEW d \in Decodings(E, B),
         NEW opts, IsOpts(opts),
         NEW p, IsPacket(p), p.version \in {0, 1}, NEW unset,
         \A e \in Decodings(E, B) :
           Advertisements(e, opts, p, unset) \in Decodings(E, BOOLEAN)
  PROVE  Normal(d, opts, p, unset) \in Decodings(E, BOOLEAN)
<1>1. HasTopics(p.tqrs)
  BY DEF IsPacket
<1>2. Queries(d, opts, p) \in Decodings(E, B)
  BY <1>1, QueriesType
<1>3. Advertisements(Queries(d, opts, p), opts, p, unset) \in Decodings(E, BOOLEAN)
  BY <1>2
<1>4. Counted(d, "lbmrd_keepalive") \in Decodings(E, B)
  BY CountedType DEF Counters
<1>5. /\ Return(d, 316) \in Decodings(E, B) /\ Return(d, 317) \in Decodings(E, B)
      /\ Return(Counted(d, "lbmrd_keepalive"), 99999) \in Decodings(E, B)
  BY <1>4, ReturnType
<1>6. \A e \in Decodings(E, B) : e \in Decodings(E, BOOLEAN)
  BY Wider
<1> QED
  BY <1>3, <1>5, <1>6 DEF Normal

LEMMA NormalType ==
  ASSUME NEW E, HasOthers(E), Entries(EntryLists) \subseteq E, NEW d \in Decodings(E,
         BOOLEAN),
         NEW opts, IsOpts(opts), NEW p, IsPacket(p), p.version \in {0, 1},
         NEW unset, IsUnset(unset)
  PROVE  Normal(d, opts, p, unset) \in Decodings(E, BOOLEAN)
<1>1. Len(p.tirs) \in Nat /\ \A i \in 1 .. Len(p.tirs) : IsTopic(p.tirs[i])
  BY DEF IsPacket
<1>2. \A i \in 1 .. Len(p.tirs) : \A e \in Decodings(E, BOOLEAN) :
        Advertisement(e, opts, p.tirs[i], unset) \in Decodings(E, BOOLEAN)
  BY <1>1, AdvertisementType
<1>3. \A e \in Decodings(E, BOOLEAN) : Advertisements(e, opts, p, unset) \in Decodings(E, BOOLEAN)
  BY <1>1, <1>2, AdvertisementsIn
<1> QED
  BY <1>3, NormalIn

(* Topic management, routers and contexts                                  *)

LEMMA TopicManagementType ==
  ASSUME NEW E, NEW B, HasOthers(E), NEW d \in Decodings(E, B), NEW opts, IsOpts(opts),
         NEW m, m.topic \in Int
  PROVE  TopicManagement(d, opts, m) \in Decodings(E, B)
<1> DEFINE noted == Counted(d, "tmrs")
<1>1. noted \in Decodings(E, B)
  BY CountedType DEF Counters
<1>2. <<m.topic, TmrLeave>> \in Seq(Int) /\ <<m.topic, TmrUse>> \in Seq(Int)
  BY DEF TmrLeave, TmrUse
<1> HIDE DEF noted
<1>3. /\ Store(noted, opts, "tmrs", <<m.topic, TmrLeave>>, 0) \in Decodings(E, B)
      /\ Store(noted, opts, "tmrs", <<m.topic, TmrUse>>, 0) \in Decodings(E, B)
  BY <1>1, <1>2, ListNames, StoreType
<1>4. Return(noted, 1010) \in Decodings(E, B) /\ Return(noted, 1011) \in Decodings(E, B)
  BY <1>1, ReturnType
<1> QED
  BY <1>3, <1>4 DEF TopicManagement, noted

LEMMA TopicManagementsType ==
  ASSUME NEW E, NEW B, HasOthers(E), NEW d \in Decodings(E, B), NEW opts, IsOpts(opts),
         NEW p,
         HasTopics(p.recs)
  PROVE  TopicManagements(d, opts, p) \in Decodings(E, B)
<1> DEFINE n == Len(p.recs)
           Parse(e, i) == IF e.ret # 0 THEN e ELSE TopicManagement(e, opts, p.recs[i])
           F == [i \in 1 .. n |-> [e \in Decodings(E, B) |-> Parse(e, i)]]
           P(f) == f = [i \in 0 .. n |-> IF i = 0 THEN d
                                        ELSE IF f[i - 1].ret # 0 THEN f[i - 1]
                                        ELSE TopicManagement(f[i - 1], opts, p.recs[i])]
           after == CHOOSE f : P(f)
<1>1. n \in Nat /\ F \in [1 .. n -> [Decodings(E, B) -> Decodings(E, B)]]
  <2>1. \A i \in 1 .. n : \A e \in Decodings(E, B) : Parse(e, i) \in Decodings(E, B)
    BY TopicManagementType DEF HasTopics
  <2> HIDE DEF Parse
  <2> QED
    BY <2>1 DEF HasTopics
<1>2. ASSUME NEW w, Along(w, n, d, Decodings(E, B), F)
      PROVE  Follows(after, n, d, Decodings(E, B), F)
  <2>1. \A i \in 1 .. n : \A e \in Decodings(E, B) : F[i][e] = Parse(e, i)
    OBVIOUS
  <2>2. \A i \in 1 .. n : w[i] = Parse(w[i - 1], i)
    <3> HIDE DEF F, Parse
    <3> QED
      BY <1>2, <2>1 DEF Along
  <2>3. P(w)
    BY <1>1, <1>2, <2>2 DEF Along
  <2>4. P(after)
    <3> HIDE DEF P
    <3> QED
      BY <2>3, Zenon
  <2> HIDE DEF after
  <2>5. after[0] = d /\ \A i \in 1 .. n : after[i] = Parse(after[i - 1], i)
    <3>1. 0 \in 0 .. n /\ \A i \in 1 .. n : i \in 0 .. n /\ i # 0
      BY <1>1
    <3> QED
      BY <2>4, <3>1
  <2> HIDE DEF P, F, Parse
  <2> QED
    BY <2>1, <2>5 DEF Follows
<1>3. after[n] \in Decodings(E, B)
  <2> HIDE DEF F, after, n
  <2> QED
    BY <1>1, <1>2, StaysIn
<1>4. Return(d, 1015) \in Decodings(E, B)
  BY ReturnType
<1> QED
  BY <1>3, <1>4 DEF TopicManagements, Each

LEMMA DroEntryType ==
  ASSUME NEW E, NEW B, HasOthers(E), NEW d \in Decodings(E, B), NEW key \in Seq(Int),
         NEW timed \in BOOLEAN
  PROVE  DroEntry(d, key, timed) \in Decodings(E, B)
<1> DEFINE e == [list |-> "dros", key |-> key, with |-> 0, timed |-> timed]
<1>1. e \in E
  BY ListNames DEF HasOthers, Entries
<1>2. DroEntry(d, key, timed) = [d EXCEPT !.stored = Append(d.stored, e)]
  BY DEF DroEntry
<1> HIDE DEF e
<1>3. d.stored \in Seq(E)
  BY DEF Decodings
<1>4. Append(d.stored, e) \in Seq(E)
  BY <1>1, <1>3
<1> QED
  BY <1>2, <1>4 DEF Decodings

LEMMA InterestType ==
  ASSUME NEW E, NEW B, HasOthers(E), NEW d \in Decodings(E, B), NEW opts, IsOpts(opts),
         NEW r, r.topic \in Int
  PROVE  DroEntry(d, <<Interest, r.topic>>, opts.save_all) \in Decodings(E, B)
<1>1. <<Interest, r.topic>> \in Seq(Int)
  BY DEF Interest
<1> QED
  BY <1>1, DroEntryType DEF IsOpts

LEMMA TnwgMessageType ==
  ASSUME NEW E, NEW B, HasOthers(E), NEW d \in Decodings(E, B), NEW opts, IsOpts(opts),
         NEW p,
         HasTopics(p.recs), p.tnwg \in DOMAIN TnwgCodes
  PROVE  TnwgMessage(d, opts, p) \in Decodings(E, B)
<1> DEFINE n == Len(p.recs)
           Parse(e, i) == IF e.ret # 0 THEN e
                          ELSE DroEntry(e, <<Interest, p.recs[i].topic>>, opts.save_all)
           F == [i \in 1 .. n |-> [e \in Decodings(E, B) |-> Parse(e, i)]]
           P(f) == f = [i \in 0 .. n |->
                          IF i = 0 THEN d
                          ELSE IF f[i - 1].ret # 0 THEN f[i - 1]
                          ELSE DroEntry(f[i - 1], <<Interest, p.recs[i].topic>>, opts.save_all)]
           after == CHOOSE f : P(f)
<1>1. n \in Nat /\ F \in [1 .. n -> [Decodings(E, B) -> Decodings(E, B)]]
  <2>1. \A i \in 1 .. n : \A e \in Decodings(E, B) : Parse(e, i) \in Decodings(E, B)
    BY InterestType DEF HasTopics
  <2> HIDE DEF Parse
  <2> QED
    BY <2>1 DEF HasTopics
<1>2. ASSUME NEW w, Along(w, n, d, Decodings(E, B), F)
      PROVE  Follows(after, n, d, Decodings(E, B), F)
  <2>1. \A i \in 1 .. n : \A e \in Decodings(E, B) : F[i][e] = Parse(e, i)
    OBVIOUS
  <2>2. \A i \in 1 .. n : w[i] = Parse(w[i - 1], i)
    <3> HIDE DEF F, Parse
    <3> QED
      BY <1>2, <2>1 DEF Along
  <2>3. P(w)
    BY <1>1, <1>2, <2>2 DEF Along
  <2>4. P(after)
    <3> HIDE DEF P
    <3> QED
      BY <2>3, Zenon
  <2> HIDE DEF after
  <2>5. after[0] = d /\ \A i \in 1 .. n : after[i] = Parse(after[i - 1], i)
    <3>1. 0 \in 0 .. n /\ \A i \in 1 .. n : i \in 0 .. n /\ i # 0
      BY <1>1
    <3> QED
      BY <2>4, <3>1
  <2> HIDE DEF P, F, Parse
  <2> QED
    BY <2>1, <2>5 DEF Follows
<1>3. after[n] \in Decodings(E, B)
  <2> HIDE DEF F, after, n
  <2> QED
    BY <1>1, <1>2, StaysIn
<1>4. Return(d, TnwgCodes[p.tnwg]) \in Decodings(E, B)
  <2>1. TnwgCodes[p.tnwg] \in Int
    BY DEF TnwgCodes
  <2> QED
    BY <2>1, ReturnType
<1> QED
  BY <1>3, <1>4 DEF TnwgMessage, Each

LEMMA DomainRouteType ==
  ASSUME NEW E, NEW B, HasOthers(E), NEW d \in Decodings(E, B), NEW opts, NEW p,
         HasTopics(p.recs)
  PROVE  DomainRoute(d, opts, p) \in Decodings(E, B)
<1> DEFINE noted == Counted(d, "domains")
           num == Len(p.recs)
           topics == [i \in 1 .. num |-> p.recs[i].topic]
           entry == DroEntry(noted, <<Route>> \o topics, TRUE)
<1>1. noted \in Decodings(E, B)
  BY CountedType DEF Counters
<1>2. topics \in Seq(Int) /\ num \in Nat
  BY DEF HasTopics
<1> HIDE DEF topics
<1>3. <<Route>> \o topics \in Seq(Int)
  BY <1>2 DEF Route
<1>4. entry \in Decodings(E, B)
  <2> HIDE DEF noted
  <2> QED
    BY <1>1, <1>3, DroEntryType
<1>5. DomainRoute(d, opts, p)
        = IF ~ opts.stats THEN d
          ELSE IF d.prev_num_domains = num THEN noted
          ELSE [entry EXCEPT !.prev_num_domains = num]
  BY DEF DomainRoute, topics
<1> HIDE DEF noted, num, entry
<1>6. [entry EXCEPT !.prev_num_domains = num] \in Decodings(E, B)
  <2>1. num \in Int
    BY <1>2
  <2> QED
    BY <1>4, <2>1 DEF Decodings
<1> QED
  BY <1>1, <1>5, <1>6

LEMMA ContextOptionType ==
  ASSUME NEW E, NEW B, NEW d \in Decodings(E, B), NEW opts, NEW o, o.val \in Int
  PROVE  ContextOption(d, opts, o) \in Decodings(E, B)
<1> DEFINE name == Append(d.source_name, o.val)
           named == IF d.app_maj_ver > 5 /\ opts.stats THEN [d EXCEPT !.source_name = name] ELSE d
<1>1. name \in Seq(Int)
  <2>1. d.source_name \in Seq(Int)
    BY DEF Decodings
  <2> QED
    BY <2>1
<1>2. named \in Decodings(E, B)
  <2> HIDE DEF name
  <2> QED
    BY <1>1, NamedType
<1>3. ContextOption(d, opts, o)
        = CASE o.kind = "address" /\ ~ o.ok -> Return(d, 1450)
            [] o.kind \in {"address", "odomain"} /\ o.ok -> Counted(named, "umps")
            [] o.kind \in {"instance", "name"} -> named
            [] OTHER -> Return(d, 1460)
  BY DEF ContextOption
<1> HIDE DEF named
<1>4. Counted(named, "umps") \in Decodings(E, B)
  BY <1>2, CountedType DEF Counters
<1>5. Return(d, 1450) \in Decodings(E, B) /\ Return(d, 1460) \in Decodings(E, B)
  BY ReturnType
<1> QED
  BY <1>2, <1>3, <1>4, <1>5

LEMMA ContextOptionsType ==
  ASSUME NEW E, NEW B, NEW d \in Decodings(E, B), NEW opts, NEW r,
         HasNumbers(r.opts)
  PROVE  ContextOptions(d, opts, r) \in Decodings(E, B)
<1> DEFINE n == Len(r.opts)
           Parse(e, i) == IF e.ret # 0 THEN e ELSE ContextOption(e, opts, r.opts[i])
           F == [i \in 1 .. n |-> [e \in Decodings(E, B) |-> Parse(e, i)]]
           P(f) == f = [i \in 0 .. n |-> IF i = 0 THEN d
                                        ELSE IF f[i - 1].ret # 0 THEN f[i - 1]
                                        ELSE ContextOption(f[i - 1], opts, r.opts[i])]
           after == CHOOSE f : P(f)
<1>1. n \in Nat /\ F \in [1 .. n -> [Decodings(E, B) -> Decodings(E, B)]]
  <2>1. \A i \in 1 .. n : \A e \in Decodings(E, B) : Parse(e, i) \in Decodings(E, B)
    BY ContextOptionType DEF HasNumbers
  <2> HIDE DEF Parse
  <2> QED
    BY <2>1 DEF HasNumbers
<1>2. ASSUME NEW w, Along(w, n, d, Decodings(E, B), F)
      PROVE  Follows(after, n, d, Decodings(E, B), F)
  <2>1. \A i \in 1 .. n : \A e \in Decodings(E, B) : F[i][e] = Parse(e, i)
    OBVIOUS
  <2>2. \A i \in 1 .. n : w[i] = Parse(w[i - 1], i)
    <3> HIDE DEF F, Parse
    <3> QED
      BY <1>2, <2>1 DEF Along
  <2>3. P(w)
    BY <1>1, <1>2, <2>2 DEF Along
  <2>4. P(after)
    <3> HIDE DEF P
    <3> QED
      BY <2>3, Zenon
  <2> HIDE DEF after
  <2>5. after[0] = d /\ \A i \in 1 .. n : after[i] = Parse(after[i - 1], i)
    <3>1. 0 \in 0 .. n /\ \A i \in 1 .. n : i \in 0 .. n /\ i # 0
      BY <1>1
    <3> QED
      BY <2>4, <3>1
  <2> HIDE DEF P, F, Parse
  <2> QED
    BY <2>1, <2>5 DEF Follows
<1>3. after[n] \in Decodings(E, B)
  <2> HIDE DEF F, after, n
  <2> QED
    BY <1>1, <1>2, StaysIn
<1> QED
  BY <1>3 DEF ContextOptions, Each

LEMMA ContextRecordType ==
  ASSUME NEW E, HasOthers(E), NEW d \in Decodings(E, BOOLEAN), NEW opts, IsOpts(opts),
         NEW r, HasNumbers(r.opts),
         NEW unset, IsUnset(unset)
  PROVE  ContextRecord(d, opts, r, unset) \in Decodings(E, BOOLEAN)
<1> DEFINE parsed == ContextOptions(d, opts, r)
           e == [list |-> "umps", key |-> parsed.source_name, with |-> 0,
                 timed |-> opts.save_all]
           entries == Append(parsed.stored, e)
<1>1. parsed \in Decodings(E, BOOLEAN)
  BY ContextOptionsType
<1>2. Return(d, unset.misread) \in Decodings(E, BOOLEAN)
  BY ReturnType DEF IsUnset
<1>3. ContextRecord(d, opts, r, unset)
        = IF d.misplaced THEN Return(d, unset.misread)
          ELSE IF parsed.ret # 0 THEN parsed
          ELSE [parsed EXCEPT !.stored = entries, !.misplaced = TRUE]
  BY DEF ContextRecord
<1> HIDE DEF parsed
<1>4. e \in E /\ parsed.stored \in Seq(E)
  <2>1. parsed.source_name \in Seq(Int) /\ parsed.stored \in Seq(E)
    BY <1>1 DEF Decodings
  <2> QED
    BY <2>1, ListNames DEF HasOthers, Entries, IsOpts
<1> HIDE DEF e
<1>5. entries \in Seq(E)
  BY <1>4
<1> HIDE DEF entries
<1>6. [parsed EXCEPT !.stored = entries] \in Decodings(E, BOOLEAN)
  BY <1>1, <1>5 DEF Decodings
<1>7. [parsed EXCEPT !.stored = entries, !.misplaced = TRUE] \in Decodings(E, BOOLEAN)
  BY <1>6 DEF Decodings
<1> QED
  BY <1>1, <1>2, <1>3, <1>7

LEMMA ContextRecordsType ==
  ASSUME NEW E, HasOthers(E), NEW d \in Decodings(E, BOOLEAN), NEW opts, IsOpts(opts),
         NEW p, NEW unset, IsUnset(unset),
         Len(p.recs) \in Nat, \A i \in 1 .. Len(p.recs) : HasNumbers(p.recs[i].opts)
  PROVE  ContextRecords(d, opts, p, unset) \in Decodings(E, BOOLEAN)
<1> DEFINE n == Len(p.recs)
           Parse(e, i) == IF e.ret # 0 THEN e ELSE ContextRecord(e, opts, p.recs[i], unset)
           F == [i \in 1 .. n |-> [e \in Decodings(E, BOOLEAN) |-> Parse(e, i)]]
           P(f) == f = [i \in 0 .. n |-> IF i = 0 THEN d
                                        ELSE IF f[i - 1].ret # 0 THEN f[i - 1]
                                        ELSE ContextRecord(f[i - 1], opts, p.recs[i], unset)]
           after == CHOOSE f : P(f)
<1>1. n \in Nat /\ F \in [1 .. n -> [Decodings(E, BOOLEAN) -> Decodings(E, BOOLEAN)]]
  <2>1. \A i \in 1 .. n : \A e \in Decodings(E, BOOLEAN) : Parse(e, i) \in Decodings(E, BOOLEAN)
    BY ContextRecordType
  <2> HIDE DEF Parse
  <2> QED
    BY <2>1
<1>2. ASSUME NEW w, Along(w, n, d, Decodings(E, BOOLEAN), F)
      PROVE  Follows(after, n, d, Decodings(E, BOOLEAN), F)
  <2>1. \A i \in 1 .. n : \A e \in Decodings(E, BOOLEAN) : F[i][e] = Parse(e, i)
    OBVIOUS
  <2>2. \A i \in 1 .. n : w[i] = Parse(w[i - 1], i)
    <3> HIDE DEF F, Parse
    <3> QED
      BY <1>2, <2>1 DEF Along
  <2>3. P(w)
    BY <1>1, <1>2, <2>2 DEF Along
  <2>4. P(after)
    <3> HIDE DEF P
    <3> QED
      BY <2>3, Zenon
  <2> HIDE DEF after
  <2>5. after[0] = d /\ \A i \in 1 .. n : after[i] = Parse(after[i - 1], i)
    <3>1. 0 \in 0 .. n /\ \A i \in 1 .. n : i \in 0 .. n /\ i # 0
      BY <1>1
    <3> QED
      BY <2>4, <3>1
  <2> HIDE DEF P, F, Parse
  <2> QED
    BY <2>1, <2>5 DEF Follows
<1>3. after[n] \in Decodings(E, BOOLEAN)
  <2> HIDE DEF F, after, n
  <2> QED
    BY <1>1, <1>2, StaysIn
<1> QED
  BY <1>3 DEF ContextRecords, Each

LEMMA ExtendedType ==
  ASSUME NEW E, HasOthers(E), NEW d \in Decodings(E, BOOLEAN), NEW opts, IsOpts(opts),
         NEW p, IsPacket(p), p.version \in {0, 1},
         p.type = "ext", NEW unset, IsUnset(unset)
  PROVE  Extended(d, opts, p, unset) \in Decodings(E, BOOLEAN)
<1>1. p.ext # "remote_context" => HasTopics(p.recs)
  BY DEF IsPacket
<1>2. p.tnwg \in DOMAIN TnwgCodes /\ p.ctx_type \in Int
  BY DEF IsPacket
<1>3. ASSUME p.ext # "remote_context"
      PROVE  /\ TnwgMessage(d, opts, p) \in Decodings(E, BOOLEAN)
             /\ DomainRoute(d, opts, p) \in Decodings(E, BOOLEAN)
  BY <1>1, <1>2, <1>3, TnwgMessageType, DomainRouteType
<1>4. ASSUME p.ext = "remote_context"
      PROVE  ContextInfo(d, opts, p, unset) \in Decodings(E, BOOLEAN)
  <2>1. Len(p.recs) \in Nat /\ \A i \in 1 .. Len(p.recs) : HasNumbers(p.recs[i].opts)
    BY <1>4 DEF IsPacket
  <2> DEFINE k == Counted(d, "ctxinfo")
             noted == [k EXCEPT !.source_name = <<p.ctx_type>>]
  <2>2. k \in Decodings(E, BOOLEAN)
    BY CountedType DEF Counters
  <2>3. <<p.ctx_type>> \in Seq(Int)
    BY <1>2
  <2>4. ContextInfo(d, opts, p, unset) = ContextRecords(noted, opts, p, unset)
    BY DEF ContextInfo
  <2> HIDE DEF k
  <2>5. noted \in Decodings(E, BOOLEAN)
    BY <2>2, <2>3, NamedType
  <2> HIDE DEF noted
  <2> QED
    BY <2>1, <2>4, <2>5, ContextRecordsType
<1>5. Return(d, 1500) \in Decodings(E, BOOLEAN)
  BY ReturnType
<1> QED
  BY <1>3, <1>4, <1>5 DEF Extended

LEMMA AliveType ==
  ASSUME NEW E, NEW B, NEW d \in Decodings(E, B), NEW p, NEW code \in Int
  PROVE  Alive(d, p, code) \in Decodings(E, B)
<1>1. Counted(d, "lbmrd_keepalive") \in Decodings(E, B) /\ Return(d, code) \in Decodings(E, B)
  BY CountedType, ReturnType DEF Counters
<1> QED
  BY <1>1 DEF Alive

LEMMA ByTypeType ==
  ASSUME NEW E, HasOthers(E), NEW d \in Decodings(E, BOOLEAN), NEW opts, IsOpts(opts),
         NEW p, IsPacket(p), p.version \in {0, 1},
         NEW unset, IsUnset(unset),
         p.type = "normal" => Normal(d, opts, p, unset) \in Decodings(E, BOOLEAN)
  PROVE  ByType(d, p, opts, unset) \in Decodings(E, BOOLEAN)
<1>1. p.type # "ext" => HasTopics(p.recs)
  BY DEF IsPacket
<1>2. HasTopics(p.tqrs)
  BY DEF IsPacket
<1>3. WildcardQueries(d, opts, p) \in Decodings(E, BOOLEAN)
  BY <1>2, WildcardQueriesType
<1>4. p.type # "ext" => TopicManagements(d, opts, p) \in Decodings(E, BOOLEAN)
  BY <1>1, TopicManagementsType
<1>5. p.type = "ext" => Extended(d, opts, p, unset) \in Decodings(E, BOOLEAN)
  BY ExtendedType
<1>6. 3000 \in Int /\ 3001 \in Int
  OBVIOUS
<1>7. Alive(d, p, 3000) \in Decodings(E, BOOLEAN) /\ Alive(d, p, 3001) \in Decodings(E, BOOLEAN)
  BY <1>6, AliveType
<1>8. Return(d, 1100) \in Decodings(E, BOOLEAN) /\ Return(d, 1600) \in Decodings(E, BOOLEAN)
  BY ReturnType
<1> QED
  BY <1>3, <1>4, <1>5, <1>7, <1>8 DEF ByType

LEMMA DecodedIn ==
  ASSUME NEW p, NEW E, HasOthers(E), IsPacket(p), NEW opts, IsOpts(opts),
         NEW unset, IsUnset(unset), NEW routes \in Int,
         p.type = "normal" /\ p.version \in {0, 1} =>
           \A d \in Decodings(E, {FALSE}) :
             Normal(d, opts, p, unset) \in Decodings(E, BOOLEAN)
  PROVE  DecodeLbmrPacket(p, opts, unset, routes) \in Decodings(E, BOOLEAN)
<1> DEFINE start == [Start(unset) EXCEPT !.prev_num_domains = routes]
           opened == HeaderOptions(start, p)
           d == ByType(opened, p, opts, unset)
<1>1. start \in Decodings(E, {FALSE})
  <2>1. /\ [c \in Counters |-> 0] \in [Counters -> Nat]
        /\ <<>> \in Seq(Int) /\ <<>> \in Seq(E)
    OBVIOUS
  <2>2. Start(unset) \in Decodings(E, {FALSE})
    BY <2>1 DEF Start, IsUnset, Decodings
  <2> QED
    BY <2>2 DEF Decodings
<1>2. DecodeLbmrPacket(p, opts, unset, routes)
        = IF p.version \notin {0, 1} THEN Return(start, 1)
          ELSE IF opened.ret # 0 THEN opened
          ELSE IF d.ret = 0 /\ opts.unicastTR THEN Counted(d, "lbmrd_keepalive")
          ELSE d
  BY DEF DecodeLbmrPacket
<1> HIDE DEF start
<1>3. \A e \in Decodings(E, {FALSE}) : e \in Decodings(E, BOOLEAN)
  <2>1. {FALSE} \in SUBSET BOOLEAN
    OBVIOUS
  <2> QED
    BY <2>1, Wider
<1>4. Return(start, 1) \in Decodings(E, BOOLEAN)
  BY <1>1, <1>3, ReturnType
<1>5. ASSUME p.version \in {0, 1}
      PROVE  /\ opened \in Decodings(E, BOOLEAN) /\ d \in Decodings(E, BOOLEAN)
             /\ Counted(d, "lbmrd_keepalive") \in Decodings(E, BOOLEAN)
  <2>1. opened \in Decodings(E, {FALSE}) /\ opened \in Decodings(E, BOOLEAN)
    BY <1>1, <1>3, <1>5, OpenedType
  <2> HIDE DEF opened
  <2>2. d \in Decodings(E, BOOLEAN)
    BY <1>5, <2>1, ByTypeType
  <2> HIDE DEF d
  <2>3. Counted(d, "lbmrd_keepalive") \in Decodings(E, BOOLEAN)
    BY <2>2, CountedType DEF Counters
  <2> QED
    BY <2>1, <2>2, <2>3
<1> HIDE DEF opened, d
<1> QED
  BY <1>2, <1>4, <1>5

(* Whatever is decoded, what is stored are entries of the seven lists.     *)
LEMMA DecodedType ==
  ASSUME NEW p, IsPacket(p), NEW opts, IsOpts(opts), NEW unset, IsUnset(unset),
         NEW routes \in Int
  PROVE  DecodeLbmrPacket(p, opts, unset, routes) \in Decodings(Entries(EntryLists), BOOLEAN)
<1> DEFINE E == Entries(EntryLists)
<1>1. HasOthers(E) /\ Entries(EntryLists) \subseteq E
  BY DEF HasOthers, Entries, OtherLists
<1>2. \A d \in Decodings(E, {FALSE}) : d \in Decodings(E, BOOLEAN)
  <2>1. {FALSE} \in SUBSET BOOLEAN
    OBVIOUS
  <2> HIDE DEF E
  <2> QED
    BY <2>1, Wider
<1> HIDE DEF E
<1>3. p.version \in {0, 1} =>
        \A d \in Decodings(E, {FALSE}) : Normal(d, opts, p, unset) \in Decodings(E, BOOLEAN)
  BY <1>1, <1>2, NormalType
<1>4. DecodeLbmrPacket(p, opts, unset, routes) \in Decodings(E, BOOLEAN)
  BY <1>1, <1>3, DecodedIn
<1> QED
  BY <1>4 DEF E

(***************************************************************************)
(* The name of a source                                                    *)
(***************************************************************************)

Within(S, j) == {i \in S : i <= j}

(* What the option j adds to the positions in S                            *)
Adds(S, j) ==
  /\ j \notin S => Within(S, j) = Within(S, j - 1)
  /\ j \in S =>
       /\ Within(S, j) = Within(S, j - 1) \union {j}
       /\ j \in Within(S, j) /\ \A i \in Within(S, j) : i <= j /\ i \in Int
  /\ IsFiniteSet(Within(S, j - 1))

LEMMA WithinAdds ==
  ASSUME NEW n \in Nat, NEW S \in SUBSET (1 .. n), NEW j \in 1 .. n PROVE Adds(S, j)
<1>1. IsFiniteSet(Within(S, j - 1))
  <2>1. IsFiniteSet(1 .. n)
    BY FS_Interval
  <2>2. Within(S, j - 1) \in SUBSET (1 .. n)
    BY DEF Within
  <2> QED
    BY <2>1, <2>2, FS_Subset
<1>2. \A i \in S : i \in Int /\ (i <= j <=> i = j \/ i <= j - 1)
  OBVIOUS
<1>3. j \notin S => Within(S, j) = Within(S, j - 1)
  BY <1>2 DEF Within
<1>4. ASSUME j \in S
      PROVE  /\ Within(S, j) = Within(S, j - 1) \union {j}
             /\ j \in Within(S, j) /\ \A i \in Within(S, j) : i <= j /\ i \in Int
  BY <1>2, <1>4 DEF Within
<1> QED
  BY <1>1, <1>3, <1>4 DEF Adds

LEMMA WithinAll ==
  ASSUME NEW n \in Nat, NEW S \in SUBSET (1 .. n)
  PROVE  Within(S, 0) = {} /\ Within(S, n) = S
<1>1. \A i \in S : i \in Int /\ i <= n /\ ~ (i <= 0)
  OBVIOUS
<1> QED
  BY <1>1 DEF Within

(* A name that says what the options otids and domains of tir say          *)
Names(name, tir, otids, domains) ==
  \E otid \in otids : \E at \in [1 .. Cardinality(domains) -> domains] :
    IsLast(otid, otids) /\ Ascending(at) /\ name = SourceOf(tir, otid, at)

LEMMA NamedByOtid ==
  ASSUME NEW tir, NEW otids, NEW otid, IsLast(otid, otids)
  PROVE  Names(<<tir.opts[otid].val>>, tir, otids, {})
<1> DEFINE at == [i \in 1 .. 0 |-> i]
<1>1. Cardinality({}) = 0
  BY FS_EmptySet
<1>2. at \in [1 .. 0 -> {}] /\ Ascending(at)
  BY DEF Ascending
<1>3. SourceOf(tir, otid, at) = <<tir.opts[otid].val>>
  <2>1. DOMAIN at = {}
    OBVIOUS
  <2>2. [i \in {} |-> Domain(tir.opts[at[i]].val)] = <<>>
    OBVIOUS
  <2>3. SourceOf(tir, otid, at) = <<tir.opts[otid].val>> \o <<>>
    BY <2>1, <2>2 DEF SourceOf
  <2> QED
    BY <2>3
<1> HIDE DEF at
<1> QED
  BY <1>1, <1>2, <1>3 DEF Names, IsLast

LEMMA NamedByDomain ==
  ASSUME NEW tir, IsTopic(tir), NEW otids \in SUBSET OptionsOf(tir, "otid"),
         NEW domains \in SUBSET OptionsOf(tir, "domain_id"), IsFiniteSet(domains),
         NEW j \in OptionsOf(tir, "domain_id"), \A i \in domains : i < j,
         NEW name, Names(name, tir, otids, domains)
  PROVE  Names(Append(name, Domain(tir.opts[j].val)), tir, otids, domains \union {j})
<1> DEFINE m == Cardinality(domains)
<1>1. PICK otid \in otids, at \in [1 .. m -> domains] :
        IsLast(otid, otids) /\ Ascending(at) /\ name = SourceOf(tir, otid, at)
  BY DEF Names
<1>2. /\ m \in Nat /\ j \notin domains /\ Cardinality(domains \union {j}) = m + 1
  <2>1. j \notin domains
    BY DEF OptionsOf
  <2> QED
    BY <2>1, FS_AddElement, FS_CardinalityType
<1> HIDE DEF m
<1> DEFINE more == [i \in 1 .. m + 1 |-> IF i = m + 1 THEN j ELSE at[i]]
<1>3. \A i \in 1 .. m : more[i] = at[i] /\ at[i] \in domains /\ at[i] < j
  BY <1>2
<1>4. more[m + 1] = j /\ DOMAIN more = 1 .. m + 1
  BY <1>2
<1>5. more \in [1 .. m + 1 -> domains \union {j}]
  <2>1. \A i \in 1 .. m + 1 : i # m + 1 => i \in 1 .. m
    BY <1>2
  <2> QED
    BY <1>3, <2>1
<1> HIDE DEF more
<1>6. Ascending(more)
  <2> SUFFICES ASSUME NEW i \in 1 .. m + 1, NEW k \in 1 .. m + 1, i < k
               PROVE  more[i] < more[k]
    BY <1>4 DEF Ascending
  <2>1. i \in 1 .. m
    BY <1>2
  <2>2. CASE k = m + 1
    BY <1>3, <1>4, <2>1, <2>2
  <2>3. CASE k # m + 1
    <3>1. k \in 1 .. m
      BY <1>2, <2>3
    <3>2. at[i] < at[k]
      BY <1>1, <2>1, <3>1 DEF Ascending
    <3> QED
      BY <1>3, <2>1, <3>1, <3>2
  <2> QED
    BY <2>2, <2>3
<1>7. Append(name, Domain(tir.opts[j].val)) = SourceOf(tir, otid, more)
  <2> DEFINE part(k) == Domain(tir.opts[k].val)
             old == [i \in 1 .. m |-> part(at[i])]
             new == [i \in 1 .. m + 1 |-> part(more[i])]
             source == tir.opts[otid].val
  <2>1. \A k \in OptionsOf(tir, "domain_id") : part(k) \in Int
    BY DEF Domain, IsTopic, IsOption, OptionsOf
  <2>2. source \in Int
    BY <1>1 DEF IsTopic, IsOption, OptionsOf
  <2>3. name = <<source>> \o old /\ SourceOf(tir, otid, more) = <<source>> \o new
    BY <1>1, <1>4 DEF SourceOf
  <2> HIDE DEF part, source
  <2>4. old \in Seq(Int) /\ Len(old) = m
    BY <1>1, <1>2, <2>1
  <2>5. new = Append(old, part(j))
    <3>1. \A i \in 1 .. m : new[i] = old[i]
      BY <1>2, <1>3
    <3>2. new[m + 1] = part(j)
      BY <1>2, <1>4
    <3>3. new \in Seq(Int) /\ Len(new) = m + 1
      <4>1. \A i \in 1 .. m + 1 : part(more[i]) \in Int
        BY <1>5, <2>1
      <4> QED
        BY <1>2, <4>1
    <3>4. part(j) \in Int
      BY <2>1
    <3> HIDE DEF old, new
    <3>5. /\ Append(old, part(j)) \in Seq(Int) /\ Len(Append(old, part(j))) = m + 1
          /\ \A i \in 1 .. m : Append(old, part(j))[i] = old[i]
          /\ Append(old, part(j))[m + 1] = part(j)
      BY <2>4, <3>4
    <3> QED
      BY <1>2, <2>4, <3>1, <3>2, <3>3, <3>5
  <2> HIDE DEF old, new
  <2>6. part(j) \in Int
    BY <2>1
  <2>7. Append(<<source>> \o old, part(j)) = <<source>> \o Append(old, part(j))
    BY <2>2, <2>4, <2>6
  <2> QED
    BY <2>3, <2>5, <2>7 DEF part
<1> QED
  BY <1>1, <1>2, <1>5, <1>6, <1>7 DEF Names

(* What decoding knows of the source after the first j options of a topic  *)
Otids(tir, j) == Within(OptionsOf(tir, "otid"), j)
Domains(tir, j) == Within(OptionsOf(tir, "domain_id"), j)

NameInv(d, opts, tir, j) ==
  /\ ~ d.misplaced
  /\ d.otid_flag <=> Otids(tir, j) # {}
  /\ d.dro_src_flag <=> Domains(tir, j) # {}
  /\ d.ex_func_flag <=> Within(WithStore(tir), j) # {}
  /\ opts.stats =>
       /\ \A i \in Within(Offers(tir), j) :
            IsLast(i, Within(Offers(tir), j)) => d.ex_func_str = ExFuncName(tir.opts[i].val)
       /\ d.otid_flag =>
            d.temp_buff = tir.topic /\ Names(d.source_name, tir, Otids(tir, j), Domains(tir, j))

SameSource(d, e) ==
  /\ e.otid_flag = d.otid_flag /\ e.dro_src_flag = d.dro_src_flag
  /\ e.ex_func_flag = d.ex_func_flag /\ e.ex_func_str = d.ex_func_str
  /\ e.temp_buff = d.temp_buff /\ e.source_name = d.source_name
  /\ e.misplaced = d.misplaced

LEMMA CountedKeeps ==
  ASSUME NEW E, NEW d \in Decodings(E, BOOLEAN), NEW c PROVE SameSource(d, Counted(d, c))
  BY DEF Decodings, Counted, SameSource

LEMMA StoreKeeps ==
  ASSUME NEW E, NEW d \in Decodings(E, BOOLEAN), NEW opts, NEW list, NEW key, NEW with
  PROVE  SameSource(d, Store(d, opts, list, key, with))
  BY DEF Decodings, Store, SameSource

(* Other options say nothing of the source.                                *)
LEMMA OtherOption ==
  ASSUME NEW E, NEW d \in Decodings(E, BOOLEAN), ~ d.misplaced, NEW opts, NEW o, NEW tir,
         NEW unset, o.kind \notin {"otid", "domain_id", "exfunc", "ume"},
         TopicOption(d, opts, o, tir, unset).ret = 0
  PROVE  SameSource(d, TopicOption(d, opts, o, tir, unset))
<1>1. SameSource(d, d)
  BY DEF SameSource
<1>2. \A list, key, with : SameSource(d, Store(d, opts, list, key, with))
  BY StoreKeeps
<1>3. SameSource(d, Store(Counted(d, "ulbs"), opts, "ulbs", <<o.val>>, 0))
  <2>1. Counted(d, "ulbs") \in Decodings(E, BOOLEAN) /\ SameSource(d, Counted(d, "ulbs"))
    BY CountedType, CountedKeeps DEF Counters
  <2>2. SameSource(Counted(d, "ulbs"), Store(Counted(d, "ulbs"), opts, "ulbs", <<o.val>>, 0))
    BY <2>1, StoreKeeps
  <2> QED
    BY <2>1, <2>2 DEF SameSource
<1>4. \A code \in {500, -1, 501, 666} : Return(d, code).ret # 0
  BY DEF Return, Decodings
<1> QED
  BY <1>1, <1>2, <1>3, <1>4 DEF TopicOption

LEMMA OtidOptionIs ==
  ASSUME NEW E, NEW d \in Decodings(E, BOOLEAN), NEW o, NEW tir, OtidOption(d, o, tir).ret = 0
  PROVE  /\ OtidOption(d, o, tir).otid_flag
         /\ OtidOption(d, o, tir).source_name = <<o.val>>
         /\ OtidOption(d, o, tir).temp_buff = tir.topic
         /\ OtidOption(d, o, tir).dro_src_flag = d.dro_src_flag
         /\ OtidOption(d, o, tir).ex_func_flag = d.ex_func_flag
         /\ OtidOption(d, o, tir).ex_func_str = d.ex_func_str
         /\ OtidOption(d, o, tir).misplaced = d.misplaced
<1> DEFINE k == Counted(d, "otids")
           noted == [k EXCEPT !.otid_flag = TRUE]
<1>1. k \in Decodings(E, BOOLEAN) /\ SameSource(d, k)
  BY CountedType, CountedKeeps DEF Counters
<1>2. OtidOption(d, o, tir)
        = IF ~ o.ok THEN Return(d, 10000)
          ELSE IF o.val = 0 THEN Return(noted, 10001)
          ELSE [noted EXCEPT !.source_name = <<o.val>>, !.temp_buff = tir.topic]
  BY DEF OtidOption, k
<1> HIDE DEF k
<1>3. noted \in Decodings(E, BOOLEAN) /\ noted.otid_flag
      /\ noted.dro_src_flag = d.dro_src_flag /\ noted.ex_func_flag = d.ex_func_flag
      /\ noted.ex_func_str = d.ex_func_str /\ noted.misplaced = d.misplaced
  BY <1>1 DEF Decodings, SameSource
<1> HIDE DEF noted
<1>4. Return(d, 10000).ret # 0 /\ Return(noted, 10001).ret # 0
  BY <1>3 DEF Return, Decodings
<1>5. OtidOption(d, o, tir) = [noted EXCEPT !.source_name = <<o.val>>, !.temp_buff = tir.topic]
  BY <1>2, <1>4
<1> QED
  BY <1>3, <1>5 DEF Decodings

LEMMA DomainIdOptionIs ==
  ASSUME NEW E, NEW d \in Decodings(E, BOOLEAN), NEW opts, NEW o,
         DomainIdOption(d, opts, o).ret = 0
  PROVE  LET e == DomainIdOption(d, opts, o)
         IN /\ e.dro_src_flag /\ e.otid_flag = d.otid_flag /\ e.ex_func_flag = d.ex_func_flag
            /\ e.ex_func_str = d.ex_func_str /\ e.temp_buff = d.temp_buff
            /\ e.misplaced = d.misplaced
            /\ opts.stats => e.source_name = Append(d.source_name, Domain(o.val))
<1> DEFINE k == Counted(d, "dro_src")
           noted == [k EXCEPT !.dro_src_flag = TRUE]
           name == Append(noted.source_name, Domain(o.val))
<1>1. k \in Decodings(E, BOOLEAN) /\ SameSource(d, k)
  BY CountedType, CountedKeeps DEF Counters
<1>2. DomainIdOption(d, opts, o)
        = IF ~ opts.stats THEN noted
          ELSE IF Len(noted.source_name) < MaxParts THEN [noted EXCEPT !.source_name = name]
          ELSE Return(noted, 665)
  BY DEF DomainIdOption, k
<1> HIDE DEF k
<1>3. noted \in Decodings(E, BOOLEAN) /\ noted.dro_src_flag
      /\ noted.otid_flag = d.otid_flag /\ noted.ex_func_flag = d.ex_func_flag
      /\ noted.ex_func_str = d.ex_func_str /\ noted.temp_buff = d.temp_buff
      /\ noted.misplaced = d.misplaced /\ noted.source_name = d.source_name
  BY <1>1 DEF Decodings, SameSource
<1> HIDE DEF noted
<1>4. Return(noted, 665).ret # 0
  BY <1>3 DEF Return, Decodings
<1>5. DomainIdOption(d, opts, o)
        = IF ~ opts.stats THEN noted ELSE [noted EXCEPT !.source_name = name]
  BY <1>2, <1>4
<1>6. name = Append(d.source_name, Domain(o.val))
  BY <1>3
<1> HIDE DEF name
<1> QED
  BY <1>3, <1>5, <1>6 DEF Decodings

LEMMA ExFuncOptionIs ==
  ASSUME NEW E, NEW d \in Decodings(E, BOOLEAN), NEW opts, NEW o
  PROVE  LET e == ExFuncOption(d, opts, o)
         IN /\ e.dro_src_flag = d.dro_src_flag /\ e.otid_flag = d.otid_flag
            /\ e.source_name = d.source_name /\ e.temp_buff = d.temp_buff
            /\ e.misplaced = d.misplaced
            /\ e.ex_func_flag <=> d.ex_func_flag \/ "ume" \in o.val
            /\ opts.stats =>
                 e.ex_func_str = IF o.val = {} THEN d.ex_func_str ELSE ExFuncName(o.val)
<1> DEFINE k == Counted(d, "umps")
           noted == IF "ume" \in o.val THEN [k EXCEPT !.ex_func_flag = TRUE] ELSE d
<1>1. k \in Decodings(E, BOOLEAN) /\ SameSource(d, k)
  BY CountedType, CountedKeeps DEF Counters
<1>2. ExFuncOption(d, opts, o)
        = IF o.val # {} /\ opts.stats THEN [noted EXCEPT !.ex_func_str = ExFuncName(o.val)]
          ELSE noted
  BY DEF ExFuncOption
<1> HIDE DEF k
<1>3. /\ noted \in Decodings(E, BOOLEAN)
      /\ noted.dro_src_flag = d.dro_src_flag /\ noted.otid_flag = d.otid_flag
      /\ noted.source_name = d.source_name /\ noted.temp_buff = d.temp_buff
      /\ noted.misplaced = d.misplaced /\ noted.ex_func_str = d.ex_func_str
      /\ noted.ex_func_flag <=> d.ex_func_flag \/ "ume" \in o.val
  BY <1>1 DEF Decodings, SameSource
<1> HIDE DEF noted
<1> QED
  BY <1>2, <1>3 DEF Decodings

LEMMA PositionsOf ==
  ASSUME NEW tir, IsTopic(tir), NEW j \in 1 .. Len(tir.opts)
  PROVE  /\ Adds(OptionsOf(tir, "otid"), j) /\ Adds(OptionsOf(tir, "domain_id"), j)
         /\ Adds(Offers(tir), j) /\ Adds(WithStore(tir), j)
<1> DEFINE n == Len(tir.opts)
<1>1. n \in Nat
  BY DEF IsTopic
<1>2. /\ OptionsOf(tir, "otid") \in SUBSET (1 .. n) /\ Offers(tir) \in SUBSET (1 .. n)
      /\ OptionsOf(tir, "domain_id") \in SUBSET (1 .. n) /\ WithStore(tir) \in SUBSET (1 .. n)
  BY DEF OptionsOf, Offers, WithStore
<1> QED
  BY <1>1, <1>2, WithinAdds

(* An option that says nothing of the source *)
LEMMA NameKept ==
  ASSUME NEW d, NEW e, SameSource(d, e), NEW opts, NEW tir, IsTopic(tir),
         NEW j \in 1 .. Len(tir.opts), NameInv(d, opts, tir, j - 1),
         tir.opts[j].kind \notin {"otid", "domain_id", "exfunc"}
  PROVE  NameInv(e, opts, tir, j)
<1>1. /\ j \notin OptionsOf(tir, "otid") /\ j \notin OptionsOf(tir, "domain_id")
      /\ j \notin Offers(tir) /\ j \notin WithStore(tir)
  BY DEF OptionsOf, Offers, WithStore
<1>2. Otids(tir, j) = Otids(tir, j - 1)
  BY <1>1, PositionsOf DEF Adds, Otids
<1>3. Domains(tir, j) = Domains(tir, j - 1)
  BY <1>1, PositionsOf DEF Adds, Domains
<1>4. Within(Offers(tir), j) = Within(Offers(tir), j - 1)
  BY <1>1, PositionsOf DEF Adds
<1>5. Within(WithStore(tir), j) = Within(WithStore(tir), j - 1)
  BY <1>1, PositionsOf DEF Adds
<1> QED
  BY <1>2, <1>3, <1>4, <1>5 DEF NameInv, SameSource

LEMMA NameAfterOtid ==
  ASSUME NEW E, NEW d \in Decodings(E, BOOLEAN), NEW opts, NEW tir, IsTopic(tir), OtidFirst(tir),
         NEW j \in 1 .. Len(tir.opts), NameInv(d, opts, tir, j - 1),
         tir.opts[j].kind = "otid", OtidOption(d, tir.opts[j], tir).ret = 0
  PROVE  NameInv(OtidOption(d, tir.opts[j], tir), opts, tir, j)
<1> DEFINE e == OtidOption(d, tir.opts[j], tir)
<1>1. /\ j \in OptionsOf(tir, "otid") /\ j \notin OptionsOf(tir, "domain_id")
      /\ j \notin Offers(tir) /\ j \notin WithStore(tir)
  BY DEF OptionsOf, Offers, WithStore
<1>2. j \in Otids(tir, j) /\ \A i \in Otids(tir, j) : i <= j
  BY <1>1, PositionsOf DEF Adds, Otids
<1>3. Domains(tir, j) = Domains(tir, j - 1)
  BY <1>1, PositionsOf DEF Adds, Domains
<1>4. Within(Offers(tir), j) = Within(Offers(tir), j - 1)
  BY <1>1, PositionsOf DEF Adds
<1>5. Within(WithStore(tir), j) = Within(WithStore(tir), j - 1)
  BY <1>1, PositionsOf DEF Adds
<1>6. Domains(tir, j) = {}
  <2> SUFFICES ASSUME NEW i \in Domains(tir, j) PROVE FALSE
    OBVIOUS
  <2>1. i \in OptionsOf(tir, "domain_id") /\ i <= j /\ i \in 1 .. Len(tir.opts)
    BY DEF Domains, Within, OptionsOf
  <2>2. j < i
    BY <1>1, <2>1 DEF OtidFirst
  <2> QED
    BY <2>1, <2>2
<1>7. Names(<<tir.opts[j].val>>, tir, Otids(tir, j), Domains(tir, j))
  BY <1>2, <1>6, NamedByOtid DEF IsLast
<1>8. /\ e.otid_flag /\ e.source_name = <<tir.opts[j].val>> /\ e.temp_buff = tir.topic
      /\ e.dro_src_flag = d.dro_src_flag /\ e.ex_func_flag = d.ex_func_flag
      /\ e.ex_func_str = d.ex_func_str /\ e.misplaced = d.misplaced
  BY OtidOptionIs
<1> HIDE DEF e
<1>9. NameInv(e, opts, tir, j)
  BY <1>2, <1>3, <1>4, <1>5, <1>7, <1>8 DEF NameInv
<1> QED
  BY <1>9 DEF e

LEMMA NameAfterDomain ==
  ASSUME NEW E, NEW d \in Decodings(E, BOOLEAN), NEW opts, NEW tir, IsTopic(tir), OtidFirst(tir),
         NEW j \in 1 .. Len(tir.opts), NameInv(d, opts, tir, j - 1),
         tir.opts[j].kind = "domain_id", DomainIdOption(d, opts, tir.opts[j]).ret = 0
  PROVE  NameInv(DomainIdOption(d, opts, tir.opts[j]), opts, tir, j)
<1> DEFINE e == DomainIdOption(d, opts, tir.opts[j])
<1>1. /\ j \notin OptionsOf(tir, "otid") /\ j \in OptionsOf(tir, "domain_id")
      /\ j \notin Offers(tir) /\ j \notin WithStore(tir)
  BY DEF OptionsOf, Offers, WithStore
<1>2. /\ Domains(tir, j) = Domains(tir, j - 1) \union {j} /\ j \in Domains(tir, j)
      /\ IsFiniteSet(Domains(tir, j - 1))
  BY <1>1, PositionsOf DEF Adds, Domains
<1>3. Otids(tir, j) = Otids(tir, j - 1)
  BY <1>1, PositionsOf DEF Adds, Otids
<1>4. Within(Offers(tir), j) = Within(Offers(tir), j - 1)
  BY <1>1, PositionsOf DEF Adds
<1>5. Within(WithStore(tir), j) = Within(WithStore(tir), j - 1)
  BY <1>1, PositionsOf DEF Adds
<1>6. /\ e.dro_src_flag /\ e.otid_flag = d.otid_flag /\ e.ex_func_flag = d.ex_func_flag
      /\ e.ex_func_str = d.ex_func_str /\ e.temp_buff = d.temp_buff
      /\ e.misplaced = d.misplaced
      /\ opts.stats => e.source_name = Append(d.source_name, Domain(tir.opts[j].val))
  BY DomainIdOptionIs
<1> HIDE DEF e
<1>7. ASSUME opts.stats, e.otid_flag
      PROVE  Names(e.source_name, tir, Otids(tir, j), Domains(tir, j))
  <2>1. Names(d.source_name, tir, Otids(tir, j - 1), Domains(tir, j - 1))
    BY <1>6, <1>7 DEF NameInv
  <2>2. /\ Otids(tir, j - 1) \in SUBSET OptionsOf(tir, "otid")
        /\ Domains(tir, j - 1) \in SUBSET OptionsOf(tir, "domain_id")
        /\ \A i \in Domains(tir, j - 1) : i <= j - 1 /\ i \in Int
    BY DEF Otids, Domains, Within, OptionsOf
  <2>3. \A i \in Domains(tir, j - 1) : i < j
    BY <2>2
  <2>4. Names(Append(d.source_name, Domain(tir.opts[j].val)), tir, Otids(tir, j - 1),
              Domains(tir, j - 1) \union {j})
    BY <1>1, <1>2, <2>1, <2>2, <2>3, NamedByDomain
  <2> QED
    BY <1>2, <1>3, <1>6, <1>7, <2>4
<1>8. NameInv(e, opts, tir, j)
  BY <1>2, <1>3, <1>4, <1>5, <1>6, <1>7 DEF NameInv
<1> QED
  BY <1>8 DEF e

LEMMA NameAfterExFunc ==
  ASSUME NEW E, NEW d \in Decodings(E, BOOLEAN), NEW opts, NEW tir, IsTopic(tir),
         NEW j \in 1 .. Len(tir.opts), NameInv(d, opts, tir, j - 1),
         tir.opts[j].kind = "exfunc"
  PROVE  NameInv(ExFuncOption(d, opts, tir.opts[j]), opts, tir, j)
<1> DEFINE e == ExFuncOption(d, opts, tir.opts[j])
           val == tir.opts[j].val
<1>1. /\ j \notin OptionsOf(tir, "otid") /\ j \notin OptionsOf(tir, "domain_id")
      /\ j \in Offers(tir) <=> val # {}
      /\ j \in WithStore(tir) <=> "ume" \in val
  BY DEF OptionsOf, Offers, WithStore
<1>2. Otids(tir, j) = Otids(tir, j - 1)
  BY <1>1, PositionsOf DEF Adds, Otids
<1>3. Domains(tir, j) = Domains(tir, j - 1)
  BY <1>1, PositionsOf DEF Adds, Domains
<1>4. /\ val = {} => Within(Offers(tir), j) = Within(Offers(tir), j - 1)
      /\ val # {} => j \in Within(Offers(tir), j)
                     /\ \A i \in Within(Offers(tir), j) : i <= j /\ i \in Int
  BY <1>1, PositionsOf DEF Adds
<1>5. Within(WithStore(tir), j) # {} <=> Within(WithStore(tir), j - 1) # {} \/ "ume" \in val
  BY <1>1, PositionsOf DEF Adds
<1>6. /\ e.dro_src_flag = d.dro_src_flag /\ e.otid_flag = d.otid_flag
      /\ e.source_name = d.source_name /\ e.temp_buff = d.temp_buff
      /\ e.misplaced = d.misplaced
      /\ e.ex_func_flag <=> d.ex_func_flag \/ "ume" \in val
      /\ opts.stats => e.ex_func_str = IF val = {} THEN d.ex_func_str ELSE ExFuncName(val)
  BY ExFuncOptionIs
<1> HIDE DEF e
<1>7. ASSUME opts.stats, NEW i, IsLast(i, Within(Offers(tir), j))
      PROVE  e.ex_func_str = ExFuncName(tir.opts[i].val)
  <2>1. CASE val = {}
    BY <1>4, <1>6, <1>7, <2>1 DEF NameInv, IsLast
  <2>2. CASE val # {}
    <3>1. i = j
      BY <1>4, <1>7, <2>2 DEF IsLast
    <3> QED
      BY <1>6, <1>7, <2>2, <3>1
  <2> QED
    BY <2>1, <2>2
<1>8. NameInv(e, opts, tir, j)
  <2> HIDE DEF val
  <2>1. ~ e.misplaced
    BY <1>6 DEF NameInv
  <2>2. e.otid_flag <=> Otids(tir, j) # {}
    BY <1>2, <1>6 DEF NameInv
  <2>3. e.dro_src_flag <=> Domains(tir, j) # {}
    BY <1>3, <1>6 DEF NameInv
  <2>4. e.ex_func_flag <=> Within(WithStore(tir), j) # {}
    BY <1>5, <1>6 DEF NameInv
  <2>5. opts.stats /\ e.otid_flag =>
          e.temp_buff = tir.topic
          /\ Names(e.source_name, tir, Otids(tir, j), Domains(tir, j))
    BY <1>2, <1>3, <1>6 DEF NameInv
  <2> QED
    BY <1>7, <2>1, <2>2, <2>3, <2>4, <2>5 DEF NameInv
<1> QED
  BY <1>8 DEF e

LEMMA NameStep ==
  ASSUME NEW E, NEW d \in Decodings(E, BOOLEAN), NEW opts, NEW tir, IsTopic(tir), OtidFirst(tir),
         OptionsOf(tir, "ume") = {}, NEW j \in 1 .. Len(tir.opts), NEW unset,
         NameInv(d, opts, tir, j - 1),
         TopicOption(d, opts, tir.opts[j], tir, unset).ret = 0
  PROVE  NameInv(TopicOption(d, opts, tir.opts[j], tir, unset), opts, tir, j)
<1> DEFINE o == tir.opts[j]
           e == TopicOption(d, opts, o, tir, unset)
<1>1. o.kind # "ume" /\ ~ d.misplaced
  BY DEF OptionsOf, NameInv
<1>2. CASE o.kind = "otid"
  <2>1. e = OtidOption(d, o, tir)
    BY <1>1, <1>2 DEF TopicOption
  <2> QED
    BY <1>2, <2>1, NameAfterOtid
<1>3. CASE o.kind = "domain_id"
  <2>1. e = DomainIdOption(d, opts, o)
    BY <1>1, <1>3 DEF TopicOption
  <2> QED
    BY <1>3, <2>1, NameAfterDomain
<1>4. CASE o.kind = "exfunc"
  <2>1. e = ExFuncOption(d, opts, o)
    BY <1>1, <1>4 DEF TopicOption
  <2> QED
    BY <1>4, <2>1, NameAfterExFunc
<1>5. CASE o.kind \notin {"otid", "domain_id", "exfunc"}
  <2>1. SameSource(d, e)
    BY <1>1, <1>5, OtherOption
  <2> HIDE DEF e
  <2>2. NameInv(e, opts, tir, j)
    BY <1>5, <2>1, NameKept
  <2> QED
    BY <2>2 DEF e
<1> QED
  BY <1>2, <1>3, <1>4, <1>5

(* Nothing is known of the source of an advertisement that was dealt with. *)
Cleared(d) == ~ d.otid_flag /\ ~ d.dro_src_flag /\ ~ d.ex_func_flag /\ ~ d.misplaced

LEMMA NameAtFirst ==
  ASSUME NEW d, Cleared(d), NEW opts, NEW tir, IsTopic(tir) PROVE NameInv(d, opts, tir, 0)
<1>1. /\ Len(tir.opts) \in Nat
      /\ OptionsOf(tir, "otid") \in SUBSET (1 .. Len(tir.opts))
      /\ OptionsOf(tir, "domain_id") \in SUBSET (1 .. Len(tir.opts))
      /\ Offers(tir) \in SUBSET (1 .. Len(tir.opts))
      /\ WithStore(tir) \in SUBSET (1 .. Len(tir.opts))
  BY DEF IsTopic, OptionsOf, Offers, WithStore
<1>2. /\ Otids(tir, 0) = {} /\ Domains(tir, 0) = {}
      /\ Within(Offers(tir), 0) = {} /\ Within(WithStore(tir), 0) = {}
  BY <1>1, WithinAll DEF Otids, Domains
<1> QED
  BY <1>2 DEF NameInv, Cleared

(* After the last option, what is known is what all of them say.           *)
LEMMA NameAtLast ==
  ASSUME NEW E, HasOthers(E), NEW d \in Decodings(E, BOOLEAN), Cleared(d), d.ret = 0,
         NEW opts, IsOpts(opts), NEW tir, IsTopic(tir), OtidFirst(tir),
         OptionsOf(tir, "ume") = {}, tir.optlen = "ok", NEW unset, IsUnset(unset),
         TopicOptions(d, opts, tir, unset).ret = 0
  PROVE  NameInv(TopicOptions(d, opts, tir, unset), opts, tir, Len(tir.opts))
<1> DEFINE n == Len(tir.opts)
           X == Decodings(E, BOOLEAN)
<1>1. n \in Nat /\ d \in X
  BY DEF IsTopic
<1>2. \A i \in 1 .. n : \A e \in X : TopicOption(e, opts, tir.opts[i], tir, unset) \in X
  BY TopicOptionType DEF IsTopic
<1> HIDE DEF X
<1>3. HasRun(X, d, opts, tir, unset)
  BY <1>1, <1>2, TopicOptionsRun
<1>4. PICK w \in [0 .. n -> X] :
             OptionsRun(w, d, opts, tir, unset) /\ TopicOptions(d, opts, tir, unset) = w[n]
  BY <1>3 DEF HasRun
<1> DEFINE good == {i \in 0 .. n : w[i].ret = 0 => NameInv(w[i], opts, tir, i)}
           id == [i \in 0 .. n |-> i]
<1>5. \A i \in 0 .. n : id[i] = i
  OBVIOUS
<1>6. id[0] \in good
  <2>1. 0 \in 0 .. n /\ w[0] = d
    BY <1>1, <1>4 DEF OptionsRun
  <2>2. NameInv(d, opts, tir, 0)
    BY NameAtFirst
  <2> QED
    BY <1>5, <2>1, <2>2
<1>7. ASSUME NEW i \in 1 .. n, id[i - 1] \in good PROVE id[i] \in good
  <2>1. i \in 0 .. n /\ i - 1 \in 0 .. n
    BY <1>1
  <2>2. w[i - 1].ret = 0 => NameInv(w[i - 1], opts, tir, i - 1)
    BY <1>5, <1>7, <2>1
  <2>3. w[i] = IF w[i - 1].ret # 0 THEN w[i - 1]
               ELSE TopicOption(w[i - 1], opts, tir.opts[i], tir, unset)
    BY <1>4 DEF OptionsRun
  <2>4. w[i - 1] \in Decodings(E, BOOLEAN)
    BY <1>4, <2>1 DEF X
  <2>5. w[i].ret = 0 => NameInv(w[i], opts, tir, i)
    <3> DEFINE e == w[i - 1]
               f == TopicOption(e, opts, tir.opts[i], tir, unset)
    <3> HIDE DEF good, id
    <3>1. CASE e.ret # 0
      BY <2>3, <3>1
    <3>2. CASE e.ret = 0
      <4>1. w[i] = f /\ NameInv(e, opts, tir, i - 1) /\ e \in Decodings(E, BOOLEAN)
        BY <2>2, <2>3, <2>4, <3>2
      <4> HIDE DEF e
      <4>2. f.ret = 0 => NameInv(f, opts, tir, i)
        BY <4>1, NameStep
      <4> QED
        BY <4>1, <4>2
    <3> QED
      BY <3>1, <3>2
  <2> QED
    BY <1>5, <2>1, <2>5
<1> HIDE DEF good, id
<1>8. \A i \in 0 .. n : id[i] \in good
  BY <1>1, <1>6, <1>7, AllAlong
<1>9. w[n].ret = 0 => NameInv(w[n], opts, tir, n)
  <2>1. n \in 0 .. n
    BY <1>1
  <2> QED
    BY <1>5, <1>8, <2>1 DEF good
<1> QED
  BY <1>4, <1>9

(* An entry with the topic and the name of one of the advertisements       *)
OtidsOf(tirs) ==
  {e \in Entries(EntryLists) :
     \E k \in DOMAIN tirs : e.with = tirs[k].topic /\ IsSourceName(e.key, tirs[k])}

LEMMA EntryIsNamed ==
  ASSUME NEW E, NEW d \in Decodings(E, BOOLEAN), NEW opts, opts.stats, IsOpts(opts),
         NEW tir, IsTopic(tir), OtidFirst(tir), NameInv(d, opts, tir, Len(tir.opts)),
         d.otid_flag \/ d.dro_src_flag
  PROVE  /\ OtidEntry(d, opts).with = tir.topic
         /\ IsSourceName(OtidEntry(d, opts).key, tir)
<1> DEFINE n == Len(tir.opts)
           otids == OptionsOf(tir, "otid")
           domains == OptionsOf(tir, "domain_id")
<1>1. /\ n \in Nat /\ otids \in SUBSET (1 .. n) /\ domains \in SUBSET (1 .. n)
      /\ Offers(tir) \in SUBSET (1 .. n) /\ WithStore(tir) \in SUBSET (1 .. n)
  BY DEF IsTopic, OptionsOf, Offers, WithStore
<1>2. /\ Otids(tir, n) = otids /\ Domains(tir, n) = domains
      /\ Within(Offers(tir), n) = Offers(tir) /\ Within(WithStore(tir), n) = WithStore(tir)
  <2> HIDE DEF n, otids, domains
  <2>1. /\ Within(otids, n) = otids /\ Within(domains, n) = domains
        /\ Within(Offers(tir), n) = Offers(tir) /\ Within(WithStore(tir), n) = WithStore(tir)
    BY <1>1, WithinAll
  <2> QED
    BY <2>1 DEF Otids, Domains, otids, domains
<1>3. d.otid_flag
  BY <1>2 DEF NameInv, OtidFirst
<1>4. /\ d.temp_buff = tir.topic /\ Names(d.source_name, tir, otids, domains)
      /\ d.ex_func_flag <=> WithStore(tir) # {}
      /\ \A i \in Offers(tir) :
           IsLast(i, Offers(tir)) => d.ex_func_str = ExFuncName(tir.opts[i].val)
  BY <1>2, <1>3 DEF NameInv
<1>5. PICK otid \in otids, at \in [1 .. Cardinality(domains) -> domains] :
        IsLast(otid, otids) /\ Ascending(at) /\ d.source_name = SourceOf(tir, otid, at)
  BY <1>4 DEF Names
<1>6. OtidEntry(d, opts).with = tir.topic
      /\ OtidEntry(d, opts).key = IF d.ex_func_flag THEN Append(d.source_name, d.ex_func_str)
                                  ELSE d.source_name
  BY <1>4 DEF OtidEntry
<1>7. ASSUME WithStore(tir) # {}
      PROVE  \E last \in Offers(tir) :
               /\ IsLast(last, Offers(tir))
               /\ OtidEntry(d, opts).key
                    = Append(SourceOf(tir, otid, at), ExFuncName(tir.opts[last].val))
  <2>1. PICK last \in Offers(tir) : \A i \in Offers(tir) : i <= last
    <3>1. Offers(tir) # {}
      BY <1>7 DEF WithStore
    <3> QED
      BY <1>1, <3>1, LargestNumber
  <2>2. IsLast(last, Offers(tir))
    BY <2>1 DEF IsLast
  <2> QED
    BY <1>4, <1>5, <1>6, <1>7, <2>2
<1>8. IsSourceName(OtidEntry(d, opts).key, tir)
  BY <1>4, <1>5, <1>6, <1>7 DEF IsSourceName
<1> QED
  BY <1>6, <1>8

LEMMA TransportKeeps ==
  ASSUME NEW E, NEW d \in Decodings(E, BOOLEAN), Cleared(d), NEW tir
  PROVE  Cleared(Transport(d, tir))
<1>1. \A code : Cleared(Return(d, code))
  BY DEF Return, Cleared, Decodings
<1>2. Cleared(Counted(d, "tirs"))
  BY CountedKeeps DEF SameSource, Cleared
<1> QED
  BY <1>1, <1>2 DEF Transport

(* An advertisement in its place stores what it says itself, and leaves    *)
(* nothing of it to the next.                                              *)
LEMMA AdvertisementNamed ==
  ASSUME NEW E, HasOthers(E), NEW tirs, OtidsOf(tirs) \subseteq E, NEW k \in DOMAIN tirs,
         IsTopic(tirs[k]), OtidFirst(tirs[k]), OptionsOf(tirs[k], "ume") = {},
         NEW d \in Decodings(E, BOOLEAN), Cleared(d), d.ret = 0, NEW opts, IsOpts(opts),
         NEW unset, IsUnset(unset)
  PROVE  LET e == Advertisement(d, opts, tirs[k], unset)
         IN e \in Decodings(E, BOOLEAN) /\ (e.ret = 0 => Cleared(e))
<1> DEFINE tir == tirs[k]
           parsed == TopicOptions(d, opts, tir, unset)
           after == StoreOtid(parsed, opts)
<1>1. parsed \in Decodings(E, BOOLEAN)
  BY TopicOptionsType
<1>2. Advertisement(d, opts, tir, unset)
        = IF parsed.ret # 0 THEN parsed ELSE Transport(after, tir)
  BY DEF Advertisement, Cleared
<1>3. ASSUME parsed.ret = 0
      PROVE  /\ ~ parsed.misplaced
             /\ opts.stats /\ (parsed.otid_flag \/ parsed.dro_src_flag) =>
                  OtidEntry(parsed, opts) \in E
  <2>1. Return(d, 401).ret # 0 /\ Return(d, 402).ret # 0 /\ Return(d, 403).ret # 0
    BY DEF Return, Decodings
  <2>2. tir.optlen = "ok" \/ parsed = d
    <3>1. ASSUME tir.optlen # "ok"
          PROVE  parsed \in {d, Return(d, 401), Return(d, 402), Return(d, 403)}
      BY <3>1 DEF TopicOptions, IsTopic
    <3> HIDE DEF parsed
    <3> QED
      BY <1>3, <2>1, <3>1
  <2>3. CASE parsed = d
    BY <2>3 DEF Cleared
  <2>4. CASE tir.optlen = "ok"
    <3>1. NameInv(parsed, opts, tir, Len(tir.opts))
      BY <1>3, <2>4, NameAtLast
    <3> HIDE DEF parsed
    <3>2. ASSUME opts.stats, parsed.otid_flag \/ parsed.dro_src_flag
          PROVE  OtidEntry(parsed, opts) \in E
      <4>1. OtidEntry(parsed, opts) \in Entries(EntryLists)
        BY <1>1, OtidEntryType
      <4>2. OtidEntry(parsed, opts).with = tir.topic
            /\ IsSourceName(OtidEntry(parsed, opts).key, tir)
        BY <1>1, <3>1, <3>2, EntryIsNamed
      <4> QED
        BY <4>1, <4>2 DEF OtidsOf
    <3> QED
      BY <3>1, <3>2 DEF NameInv
  <2> QED
    BY <2>2, <2>3, <2>4
<1> HIDE DEF parsed
<1>4. ASSUME parsed.ret = 0 PROVE after \in Decodings(E, BOOLEAN) /\ Cleared(after)
  <2>1. ~ parsed.misplaced
    BY <1>3, <1>4
  <2>2. opts.stats /\ (parsed.otid_flag \/ parsed.dro_src_flag) => OtidEntry(parsed, opts) \in E
    BY <1>3, <1>4
  <2>3. /\ after \in Decodings(E, BOOLEAN)
        /\ ~ after.otid_flag /\ ~ after.dro_src_flag /\ ~ after.ex_func_flag
        /\ after.misplaced = parsed.misplaced
    BY <1>1, <2>2, StoreOtidIs
  <2> HIDE DEF after
  <2> QED
    BY <2>1, <2>3 DEF Cleared
<1> HIDE DEF after
<1>5. ASSUME parsed.ret = 0
      PROVE  Transport(after, tir) \in Decodings(E, BOOLEAN) /\ Cleared(Transport(after, tir))
  BY <1>4, <1>5, TransportType, TransportKeeps
<1> QED
  BY <1>1, <1>2, <1>5

LEMMA AdvertisementsNamed ==
  ASSUME NEW E, HasOthers(E), NEW p, OtidsOf(p.tirs) \subseteq E, IsPacket(p),
         p.version \in {0, 1},
         \A k \in DOMAIN p.tirs : OtidFirst(p.tirs[k]) /\ OptionsOf(p.tirs[k], "ume") = {},
         NEW d \in Decodings(E, {FALSE}), NEW opts, IsOpts(opts), NEW unset, IsUnset(unset)
  PROVE  Advertisements(d, opts, p, unset) \in Decodings(E, BOOLEAN)
<1> DEFINE X == {e \in Decodings(E, BOOLEAN) : e.ret = 0 => Cleared(e)}
<1>1. d \in X
  <2>1. {FALSE} \in SUBSET BOOLEAN
    OBVIOUS
  <2>2. d \in Decodings(E, BOOLEAN)
    BY <2>1, Wider
  <2>3. Cleared(d)
    BY DEF Decodings, Cleared
  <2> QED
    BY <2>2, <2>3
<1>2. /\ Len(p.tirs) \in Nat /\ DOMAIN p.tirs = 1 .. Len(p.tirs)
      /\ \A i \in 1 .. Len(p.tirs) : IsTopic(p.tirs[i])
  BY DEF IsPacket
<1>3. ASSUME NEW i \in 1 .. Len(p.tirs), NEW e \in X, e.ret = 0
      PROVE  Advertisement(e, opts, p.tirs[i], unset) \in X
  <2>1. e \in Decodings(E, BOOLEAN) /\ Cleared(e)
    BY <1>3
  <2>2. i \in DOMAIN p.tirs /\ IsTopic(p.tirs[i]) /\ OtidFirst(p.tirs[i])
        /\ OptionsOf(p.tirs[i], "ume") = {}
    BY <1>2
  <2> DEFINE next == Advertisement(e, opts, p.tirs[i], unset)
  <2>3. next \in Decodings(E, BOOLEAN) /\ (next.ret = 0 => Cleared(next))
    BY <1>3, <2>1, <2>2, AdvertisementNamed
  <2> QED
    BY <2>3
<1> HIDE DEF X
<1>4. Advertisements(d, opts, p, unset) \in X
  BY <1>1, <1>2, <1>3, AdvertisementsIn
<1> QED
  BY <1>4 DEF X

(* Whatever is decoded, an OTID that is stored is that of an advertisement *)
(* of the packet, with its topic.                                          *)
LEMMA DecodedNamed ==
  ASSUME NEW p, IsPacket(p),
         \A k \in DOMAIN p.tirs : OtidFirst(p.tirs[k]) /\ OptionsOf(p.tirs[k], "ume") = {},
         NEW opts, IsOpts(opts), NEW unset, IsUnset(unset), NEW routes \in Int
  PROVE  LET E == Entries(OtherLists) \union OtidsOf(p.tirs)
         IN DecodeLbmrPacket(p, opts, unset, routes) \in Decodings(E, BOOLEAN)
<1> DEFINE E == Entries(OtherLists) \union OtidsOf(p.tirs)
<1>1. HasOthers(E) /\ OtidsOf(p.tirs) \subseteq E
  BY DEF HasOthers
<1> HIDE DEF E
<1>2. ASSUME p.version \in {0, 1}, NEW d \in Decodings(E, {FALSE})
      PROVE  Normal(d, opts, p, unset) \in Decodings(E, BOOLEAN)
  <2>1. \A e \in Decodings(E, {FALSE}) :
          Advertisements(e, opts, p, unset) \in Decodings(E, BOOLEAN)
    BY <1>1, <1>2, AdvertisementsNamed
  <2>2. {FALSE} \in SUBSET BOOLEAN
    OBVIOUS
  <2> QED
    BY <1>1, <1>2, <2>1, <2>2, NormalIn
<1>3. DecodeLbmrPacket(p, opts, unset, routes) \in Decodings(E, BOOLEAN)
  BY <1>1, <1>2, DecodedIn
<1> QED
  BY <1>3 DEF E

Fragments == UNION Datagrams

FragList ==
  [id : Nat, incomplete_flag : Int, got_last_frag : BOOLEAN, frags_received : Int,
   frags : Seq(Fragments)]

Held == ToSet(pending)

(* There is one list for an id; it holds fragments of that id that were in *)
(* the capture, as many as it says, if that fits a char.                   *)
PendingInv ==
  /\ seen \in Seq(Fragments) /\ pending \in Seq(FragList)
  /\ \A i, j \in DOMAIN pending : pending[i].id = pending[j].id => i = j
  /\ \A l \in Held :
       /\ l.frags_received = AsChar(Len(l.frags)) /\ Len(l.frags) > 0
       /\ \A k \in DOMAIN l.frags : l.frags[k] \in ToSet(seen) /\ l.frags[k].id = l.id

(***************************************************************************)
(* Sequences                                                               *)
(***************************************************************************)

LEMMA AppendSet ==
  ASSUME NEW S, NEW s \in Seq(S), NEW x \in S
  PROVE  /\ Append(s, x) \in Seq(S) /\ DOMAIN Append(s, x) = 1 .. Len(s) + 1
         /\ \A i \in 1 .. Len(s) : Append(s, x)[i] = s[i]
         /\ Append(s, x)[Len(s) + 1] = x
         /\ ToSet(Append(s, x)) = ToSet(s) \union {x}
  BY DEF ToSet

LEMMA RemoveAtSet ==
  ASSUME NEW S, NEW s \in Seq(S), NEW i \in 1 .. Len(s)
  PROVE  /\ RemoveAt(s, i) \in Seq(S)
         /\ Len(RemoveAt(s, i)) = Len(s) - 1
         /\ \A j \in 1 .. Len(s) - 1 : RemoveAt(s, i)[j] = s[IF j < i THEN j ELSE j + 1]
         /\ ToSet(RemoveAt(s, i)) = {s[j] : j \in (1 .. Len(s)) \ {i}}
<1> DEFINE r == RemoveAt(s, i)
           a == SubSeq(s, 1, i - 1)
           b == SubSeq(s, i + 1, Len(s))
<1>1. a \in Seq(S) /\ Len(a) = i - 1 /\ \A j \in 1 .. i - 1 : a[j] = s[j]
  OBVIOUS
<1>2. b \in Seq(S) /\ Len(b) = Len(s) - i /\ \A j \in 1 .. Len(s) - i : b[j] = s[i + j]
  OBVIOUS
<1> HIDE DEF a, b
<1>3. r = a \o b
  BY DEF RemoveAt, a, b
<1>4. /\ r \in Seq(S) /\ Len(r) = Len(s) - 1
      /\ \A j \in 1 .. Len(s) - 1 : r[j] = s[IF j < i THEN j ELSE j + 1]
  <2> HIDE DEF r
  <2>1. r \in Seq(S) /\ Len(r) = Len(s) - 1
    BY <1>1, <1>2, <1>3, ConcatProperties
  <2>2. \A j \in 1 .. Len(s) - 1 : r[j] = IF j <= i - 1 THEN a[j] ELSE b[j - (i - 1)]
    BY <1>1, <1>2, <1>3, ConcatProperties
  <2>3. ASSUME NEW j \in 1 .. Len(s) - 1 PROVE r[j] = s[IF j < i THEN j ELSE j + 1]
    <3>1. CASE j < i
      BY <1>1, <1>2, <2>1, <2>2, <3>1
    <3>2. CASE j >= i
      <4>1. j - (i - 1) \in 1 .. Len(s) - i /\ i + (j - (i - 1)) = j + 1
        BY <3>2
      <4>2. r[j] = b[j - (i - 1)]
        BY <2>2, <3>2
      <4>3. b[j - (i - 1)] = s[j + 1]
        BY <1>2, <4>1
      <4> QED
        BY <3>2, <4>2, <4>3
    <3> QED
      BY <3>1, <3>2
  <2> QED
    BY <1>1, <1>2, <2>1, <2>3
<1> HIDE DEF r
<1>5. ASSUME NEW k \in (1 .. Len(s)) \ {i} PROVE s[k] \in ToSet(r)
  <2>1. CASE k < i
    BY <1>4, <2>1 DEF ToSet
  <2>2. CASE k > i
    <3>1. k - 1 \in 1 .. Len(s) - 1 /\ ~ k - 1 < i /\ (k - 1) + 1 = k
      BY <2>2
    <3>2. r[k - 1] = s[k]
      BY <1>4, <3>1
    <3> QED
      BY <1>4, <3>1, <3>2 DEF ToSet
  <2> QED
    BY <2>1, <2>2
<1>6. ASSUME NEW x \in ToSet(r) PROVE x \in {s[j] : j \in (1 .. Len(s)) \ {i}}
  <2>1. PICK j \in 1 .. Len(s) - 1 : x = r[j]
    BY <1>4 DEF ToSet
  <2>2. CASE j < i
    <3>1. x = s[j] /\ j \in (1 .. Len(s)) \ {i}
      BY <1>4, <2>1, <2>2
    <3> QED
      BY <3>1
  <2>3. CASE ~ j < i
    <3>1. x = s[j + 1] /\ j + 1 \in (1 .. Len(s)) \ {i}
      BY <1>4, <2>1, <2>3
    <3> QED
      BY <3>1
  <2> QED
    BY <2>2, <2>3
<1> QED
  BY <1>4, <1>5, <1>6 DEF r

(***************************************************************************)
(* One more fragment                                                       *)
(***************************************************************************)

Complete(l) == l.got_last_frag /\ l.incomplete_flag = 0

(* The list that holds fragment f once it has come: a new one, or the one  *)
(* of its id.                                                              *)
Grown(list, f) ==
  \/ list = new_list(f) /\ (f.id = 0 \/ \A l \in Held : l.id # f.id)
  \/ f.id # 0 /\ \E l \in Held : l.id = f.id /\ list = CountIn(l, f)

(* Behind list_head there are, after f, the lists of other ids, unless f   *)
(* has put its own in their place, and the list of f unless it was         *)
(* decoded.                                                                *)
StepOf(list, f) ==
  /\ Grown(list, f)
  /\ Held' = {l \in Held : f.id # 0 /\ l.id # f.id}
               \union (IF Complete(list) THEN {} ELSE {list})
  /\ handed' = handed \union (IF Complete(list) THEN {TS_reassmble_ip_fragment(list, f)}
                               ELSE {})
  /\ pending' \in Seq(FragList)
  /\ \A i, j \in DOMAIN pending' : pending'[i].id = pending'[j].id => i = j

LEMMA FragmentTypes ==
  ASSUME NEW f \in Fragments
  PROVE  f.id \in Nat /\ f.offset \in Nat /\ f.nBytes \in Nat \ {0} /\ f.more \in BOOLEAN
  BY DatagramsAssumption DEF Fragments, IsCut

(***************************************************************************)
(* Chars                                                                   *)
(***************************************************************************)

LEMMA Remainder ==
  ASSUME NEW w \in Nat \ {0}, NEW r \in 0 .. w - 1, NEW q \in Int
  PROVE  (w * q + r) % w = r
  OBVIOUS

LEMMA Division ==
  ASSUME NEW w \in Nat \ {0}, NEW a \in Int
  PROVE  \E q \in Int : \E r \in 0 .. w - 1 : a = w * q + r
<1> DEFINE q == a \div w
           r == a % w
<1>1. q \in Int /\ r \in 0 .. w - 1
  OBVIOUS
<1>2. a = q * w + r
  OBVIOUS
<1> HIDE DEF q, r
<1>3. a = w * q + r
  BY <1>1, <1>2
<1> QED
  BY <1>1, <1>3

(* A number is its char and so many rounds; rounds do not change the char. *)
LEMMA Rounds ==
  ASSUME NEW n \in Int
  PROVE  \E q \in Int : AsChar(n) = n - Chars * q
<1>1. Chars \in Nat \ {0} /\ CHAR_MAX \in Nat /\ n + CHAR_MAX + 1 \in Int
  BY CharAssumption DEF Chars
<1>2. PICK q \in Int, r \in 0 .. Chars - 1 : n + CHAR_MAX + 1 = Chars * q + r
  BY <1>1, Division
<1>3. (n + CHAR_MAX + 1) % Chars = r
  BY <1>1, <1>2, Remainder
<1>4. AsChar(n) = r - (CHAR_MAX + 1)
  BY <1>3 DEF AsChar
<1> QED
  BY <1>1, <1>2, <1>4

LEMMA SameChar ==
  ASSUME NEW n \in Int, NEW q \in Int
  PROVE  AsChar(n - Chars * q) = AsChar(n)
<1>1. Chars \in Nat \ {0} /\ CHAR_MAX \in Nat /\ n + CHAR_MAX + 1 \in Int
  BY CharAssumption DEF Chars
<1>2. PICK p \in Int, r \in 0 .. Chars - 1 : n + CHAR_MAX + 1 = Chars * p + r
  BY <1>1, Division
<1>3. (n + CHAR_MAX + 1) % Chars = r
  BY <1>1, <1>2, Remainder
<1>4. n - Chars * q + CHAR_MAX + 1 = Chars * (p - q) + r
  BY <1>1, <1>2
<1>5. (n - Chars * q + CHAR_MAX + 1) % Chars = r
  BY <1>1, <1>4, Remainder
<1> QED
  BY <1>3, <1>5 DEF AsChar

LEMMA CharType ==
  ASSUME NEW n \in Int
  PROVE  /\ AsChar(n) \in Int
         /\ -(CHAR_MAX + 1) <= n /\ n <= CHAR_MAX => AsChar(n) = n
<1>1. Chars \in Nat \ {0} /\ CHAR_MAX \in Nat /\ Chars = 2 * (CHAR_MAX + 1)
  BY CharAssumption DEF Chars
<1>2. PICK q \in Int : AsChar(n) = n - Chars * q
  BY Rounds
<1>3. AsChar(n) \in Int
  BY <1>1, <1>2
<1>4. ASSUME -(CHAR_MAX + 1) <= n, n <= CHAR_MAX PROVE AsChar(n) = n
  <2>1. n + CHAR_MAX + 1 \in 0 .. Chars - 1 /\ n + CHAR_MAX + 1 = Chars * 0 + (n + CHAR_MAX + 1)
    BY <1>1, <1>4
  <2>2. (n + CHAR_MAX + 1) % Chars = n + CHAR_MAX + 1
    BY <1>1, <2>1, Remainder
  <2> QED
    BY <1>1, <2>2 DEF AsChar
<1> QED
  BY <1>3, <1>4

(* What is taken from a char, or added to it, before it is stored again    *)
LEMMA CharSum ==
  ASSUME NEW n \in Int, NEW k \in Int
  PROVE  AsChar(AsChar(n) - k) = AsChar(n - k)
<1>1. PICK q \in Int : AsChar(n) = n - Chars * q
  BY Rounds
<1>2. n - Chars * q - k = n - k - Chars * q
  BY CharAssumption DEF Chars
<1>3. AsChar(n - k - Chars * q) = AsChar(n - k)
  BY SameChar
<1> QED
  BY <1>1, <1>2, <1>3

LEMMA CharSuccessor ==
  ASSUME NEW n \in Int
  PROVE  AsChar(AsChar(n) + 1) = AsChar(n + 1)
<1>1. PICK q \in Int : AsChar(n) = n - Chars * q
  BY Rounds
<1>2. n - Chars * q + 1 = (n + 1) - Chars * q
  BY CharAssumption DEF Chars
<1> DEFINE m == n + 1
<1>3. m \in Int /\ m = n + 1
  OBVIOUS
<1> HIDE DEF m
<1>4. AsChar(m - Chars * q) = AsChar(m)
  BY <1>3, SameChar
<1> QED
  BY <1>1, <1>2, <1>3, <1>4

LEMMA SmallChars == AsChar(0) = 0 /\ AsChar(1) = 1 /\ AsChar(2 * CHAR_MAX + 1) = -1
<1>1. CHAR_MAX \in Nat \ {0} /\ Chars = 2 * (CHAR_MAX + 1)
  BY CharAssumption DEF Chars
<1> DEFINE n == 2 * CHAR_MAX + 1
           one == 1
<1>2. n - Chars * one = -1 /\ n \in Int /\ one \in Int
  BY <1>1
<1>3. AsChar(-1) = AsChar(n)
  <2> HIDE DEF n, one
  <2> QED
    BY <1>2, SameChar
<1>4. AsChar(-1) = -1
  BY <1>1, CharType
<1> QED
  BY <1>1, <1>3, <1>4, CharType

LEMMA NewListType ==
  ASSUME NEW f \in Fragments
  PROVE  /\ new_list(f) \in FragList /\ new_list(f).id = f.id
         /\ new_list(f).incomplete_flag = -1
  BY FragmentTypes, SmallChars DEF new_list, FragList

LEMMA DivIsInt ==
  ASSUME NEW a \in Nat, NEW b \in Nat \ {0}
  PROVE  a \div b \in Int
  OBVIOUS

(* What counting a fragment in does to each field of a list                *)
LEMMA CountInType ==
  ASSUME NEW l \in FragList, NEW f \in Fragments, Len(l.frags) > 0
  PROVE  LET m == CountIn(l, f)
         IN /\ m \in FragList /\ m.id = l.id
            /\ m.got_last_frag = (l.got_last_frag \/ ~ f.more)
            /\ m.frags = Append(l.frags, f)
            /\ m.frags_received = AsChar(l.frags_received + 1)
            /\ f.more /\ l.incomplete_flag < 0 => m.incomplete_flag = l.incomplete_flag
            /\ ~ f.more => m.incomplete_flag
                           = AsChar(l.frags_received - f.offset \div l.frags[1].nBytes)
<1> DEFINE left == l.incomplete_flag
           last == AsChar(l.frags_received - f.offset \div l.frags[1].nBytes)
           now == IF ~ f.more THEN last ELSE IF left > 0 THEN left - 1 ELSE left
           got == l.got_last_frag \/ ~ f.more
           frags == Append(l.frags, f)
           n == AsChar(l.frags_received + 1)
           m == CountIn(l, f)
<1>1. l.frags \in Seq(Fragments) /\ l.frags[1] \in Fragments /\ l.frags_received \in Int
      /\ left \in Int /\ l.got_last_frag \in BOOLEAN
  BY DEF FragList
<1>2. f.offset \div l.frags[1].nBytes \in Int
  BY <1>1, FragmentTypes, DivIsInt
<1>3. now \in Int /\ n \in Int
  <2>1. l.frags_received - f.offset \div l.frags[1].nBytes \in Int
        /\ l.frags_received + 1 \in Int
    BY <1>1, <1>2
  <2>2. last \in Int /\ n \in Int
    BY <2>1, CharType
  <2> QED
    BY <1>1, <2>2
<1>4. frags \in Seq(Fragments)
  BY <1>1, AppendProperties
<1>5. got \in BOOLEAN
  OBVIOUS
<1>6. m = [l EXCEPT !.got_last_frag = got, !.incomplete_flag = now, !.frags = frags,
                    !.frags_received = n]
  BY DEF CountIn
<1>7. f.more /\ left < 0 => now = left
  BY <1>1
<1>8. ~ f.more => now = last
  OBVIOUS
<1> HIDE DEF now, got, frags, n, m
<1>9. /\ m \in FragList /\ m.id = l.id /\ m.incomplete_flag = now
      /\ m.got_last_frag = got /\ m.frags = frags /\ m.frags_received = n
  <2>1. m \in FragList
    BY <1>3, <1>4, <1>5, <1>6 DEF FragList
  <2>2. m.id = l.id
    BY <1>6 DEF FragList
  <2>3. m.incomplete_flag = now
    BY <1>6 DEF FragList
  <2>4. m.got_last_frag = got
    BY <1>6 DEF FragList
  <2>5. m.frags = frags
    BY <1>6 DEF FragList
  <2>6. m.frags_received = n
    BY <1>6 DEF FragList
  <2> QED
    BY <2>1, <2>2, <2>3, <2>4, <2>5, <2>6
<1> QED
  BY <1>7, <1>8, <1>9 DEF got, frags, n, m
(* The three ways TS_add_ip_fragment goes                                  *)
LEMMA Added ==
  ASSUME PendingInv, NEW f \in Fragments
  PROVE  LET added == TS_add_ip_fragment(pending, f)
         IN \/ f.id = 0 /\ added = [lists |-> <<new_list(f)>>, at |-> 1]
            \/ /\ f.id # 0 /\ \A l \in Held : l.id # f.id
               /\ added = [lists |-> Append(pending, new_list(f)), at |-> Len(pending) + 1]
            \/ /\ f.id # 0
               /\ \E i \in 1 .. Len(pending) :
                    /\ pending[i].id = f.id
                    /\ added = [lists |-> [pending EXCEPT ![i] = CountIn(pending[i], f)],
                                at |-> i]
<1> DEFINE at == SelectInSeq(pending, LAMBDA l : l.id = f.id)
           mine == {i \in 1 .. Len(pending) : pending[i].id = f.id}
<1>1. pending \in Seq(FragList) /\ f.id \in Nat
  BY FragmentTypes DEF PendingInv
<1>2. at = IF mine # {} THEN Min(mine) ELSE 0
  BY DEF SelectInSeq
<1>3. CASE f.id = 0
  BY <1>3 DEF TS_add_ip_fragment
<1>4. CASE f.id # 0 /\ mine = {}
  <2>1. \A l \in Held : l.id # f.id
    BY <1>1, <1>4 DEF Held, ToSet
  <2>2. at = 0
    BY <1>2, <1>4
  <2> QED
    BY <1>4, <2>1, <2>2 DEF TS_add_ip_fragment
<1>5. CASE f.id # 0 /\ mine # {}
  <2>1. PICK i \in 1 .. Len(pending) : pending[i].id = f.id
    BY <1>5
  <2>2. mine = {i}
    BY <1>1, <2>1 DEF PendingInv
  <2>3. at = i /\ i # 0
    BY <1>2, <2>2 DEF Min
  <2> QED
    BY <1>5, <2>1, <2>3 DEF TS_add_ip_fragment
<1> QED
  BY <1>3, <1>4, <1>5

(* A sequence of lists, with an id each, that differs from pending in the  *)
(* list of f only: what is left when that was decoded, and what not.       *)
LEMMA Step ==
  ASSUME PendingInv, NEW f \in Fragments, TS_assemble_udp_frags(f)
  PROVE  \E list \in FragList : StepOf(list, f)
<1> DEFINE added == TS_add_ip_fragment(pending, f)
           list == added.lists[added.at]
           decoded == Complete(list)
<1>1. pending \in Seq(FragList) /\ f.id \in Nat
      /\ \A i, j \in 1 .. Len(pending) : pending[i].id = pending[j].id => i = j
  BY FragmentTypes DEF PendingInv
<1>2. /\ pending' = (IF decoded THEN RemoveAt(added.lists, added.at) ELSE added.lists)
      /\ handed' = handed \union (IF decoded THEN {TS_reassmble_ip_fragment(list, f)} ELSE {})
  BY DEF TS_assemble_udp_frags, Assembled, Complete
<1> DEFINE rest == {l \in Held : f.id # 0 /\ l.id # f.id}
<1>3. /\ list \in FragList /\ Grown(list, f) /\ added.lists \in Seq(FragList)
      /\ added.at \in 1 .. Len(added.lists)
      /\ \A i, j \in 1 .. Len(added.lists) : added.lists[i].id = added.lists[j].id => i = j
      /\ rest = {added.lists[j] : j \in (1 .. Len(added.lists)) \ {added.at}}
  <2>1. CASE f.id = 0 /\ added = [lists |-> <<new_list(f)>>, at |-> 1]
    BY <2>1, NewListType DEF Grown
  <2>2. CASE /\ f.id # 0 /\ \A l \in Held : l.id # f.id
             /\ added = [lists |-> Append(pending, new_list(f)), at |-> Len(pending) + 1]
    <3>1. new_list(f) \in FragList /\ new_list(f).id = f.id
      BY NewListType
    <3>2. /\ added.lists \in Seq(FragList) /\ Len(added.lists) = Len(pending) + 1
          /\ added.at = Len(pending) + 1 /\ list = new_list(f)
          /\ \A i \in 1 .. Len(pending) : added.lists[i] = pending[i]
      BY <1>1, <2>2, <3>1, AppendProperties
    <3>3. Held = {pending[j] : j \in 1 .. Len(pending)}
      BY <1>1 DEF Held, ToSet
    <3>4. rest = {added.lists[j] : j \in (1 .. Len(added.lists)) \ {added.at}}
      <4>1. rest = Held /\ (1 .. Len(pending) + 1) \ {Len(pending) + 1} = 1 .. Len(pending)
        BY <1>1, <2>2
      <4> QED
        BY <3>2, <3>3, <4>1
    <3>5. \A i \in 1 .. Len(pending) : pending[i].id # f.id
      BY <2>2, <3>3
    <3> QED
      BY <1>1, <2>2, <3>1, <3>2, <3>4, <3>5 DEF Grown
  <2>3. CASE /\ f.id # 0
             /\ \E i \in 1 .. Len(pending) :
                  /\ pending[i].id = f.id
                  /\ added = [lists |-> [pending EXCEPT ![i] = CountIn(pending[i], f)], at |-> i]
    <3>1. PICK i \in 1 .. Len(pending) :
             /\ pending[i].id = f.id
             /\ added = [lists |-> [pending EXCEPT ![i] = CountIn(pending[i], f)], at |-> i]
      BY <2>3
    <3>2. pending[i] \in FragList /\ pending[i] \in Held
      BY <1>1 DEF Held, ToSet
    <3>3. CountIn(pending[i], f) \in FragList /\ CountIn(pending[i], f).id = f.id
      BY <3>1, <3>2, CountInType DEF PendingInv
    <3>4. /\ added.lists \in Seq(FragList) /\ Len(added.lists) = Len(pending) /\ added.at = i
          /\ list = CountIn(pending[i], f)
          /\ \A j \in (1 .. Len(pending)) \ {i} : added.lists[j] = pending[j]
      BY <1>1, <3>1, <3>3
    <3>5. Held = {pending[j] : j \in 1 .. Len(pending)}
      BY <1>1 DEF Held, ToSet
    <3>6. rest = {added.lists[j] : j \in (1 .. Len(added.lists)) \ {added.at}}
      BY <1>1, <2>3, <3>1, <3>4, <3>5
    <3>7. \A j, k \in 1 .. Len(added.lists) : added.lists[j].id = added.lists[k].id => j = k
      BY <1>1, <3>1, <3>3, <3>4
    <3> QED
      BY <2>3, <3>1, <3>2, <3>3, <3>4, <3>6, <3>7 DEF Grown
  <2> QED
    BY <2>1, <2>2, <2>3, Added
<1> HIDE DEF added, list, rest
<1>4. CASE decoded
  <2> DEFINE all == added.lists
             at == added.at
             up(j) == IF j < at THEN j ELSE j + 1
  <2>0. all \in Seq(FragList) /\ at \in 1 .. Len(all) /\ pending' = RemoveAt(all, at)
        /\ rest = {all[j] : j \in (1 .. Len(all)) \ {at}}
        /\ \A i, j \in 1 .. Len(all) : all[i].id = all[j].id => i = j
    BY <1>2, <1>3, <1>4
  <2> HIDE DEF all, at
  <2>1. /\ pending' \in Seq(FragList) /\ Len(pending') = Len(all) - 1
        /\ \A j \in 1 .. Len(all) - 1 : pending'[j] = all[up(j)]
        /\ ToSet(pending') = rest
    <3> DEFINE r == RemoveAt(all, at)
    <3>1. /\ r \in Seq(FragList) /\ Len(r) = Len(all) - 1
          /\ \A j \in 1 .. Len(all) - 1 : r[j] = all[up(j)]
          /\ ToSet(r) = {all[j] : j \in (1 .. Len(all)) \ {at}}
      BY <2>0, RemoveAtSet
    <3>2. pending' = r
      BY <2>0
    <3> HIDE DEF r, up
    <3> QED
      BY <2>0, <3>1, <3>2
  <2>2. ASSUME NEW i \in 1 .. Len(pending'), NEW j \in 1 .. Len(pending'),
               pending'[i].id = pending'[j].id
        PROVE  i = j
    <3>1. up(i) \in 1 .. Len(all) /\ up(j) \in 1 .. Len(all)
      BY <2>0, <2>1
    <3>2. all[up(i)].id = all[up(j)].id
      BY <2>1, <2>2
    <3>3. up(i) = up(j)
      BY <2>0, <3>1, <3>2
    <3>4. i \in Nat /\ j \in Nat /\ at \in Nat
      BY <2>0, <2>1
    <3> QED
      BY <3>3, <3>4
  <2>3. DOMAIN pending' = 1 .. Len(pending')
    BY <2>1
  <2> QED
    BY <1>2, <1>3, <1>4, <2>1, <2>2, <2>3 DEF StepOf, Held, rest
<1>5. CASE ~ decoded
  <2>1. pending' = added.lists
    BY <1>2, <1>5
  <2>2. ToSet(added.lists) = rest \union {list}
    BY <1>3 DEF ToSet, list
  <2> QED
    BY <1>2, <1>3, <1>5, <2>1, <2>2 DEF StepOf, Held, rest
<1> QED
  BY <1>4, <1>5
LEMMA SeenStep ==
  ASSUME PendingInv, NEW f \in Fragments, TS_assemble_udp_frags(f)
  PROVE  /\ seen' \in Seq(Fragments) /\ Len(seen') = Len(seen) + 1 /\ seen'[Len(seen')] = f
         /\ \A i \in 1 .. Len(seen) : seen'[i] = seen[i]
         /\ ToSet(seen') = ToSet(seen) \union {f} /\ Len(seen) \in Nat
<1>1. seen \in Seq(Fragments) /\ seen' = Append(seen, f)
  BY DEF PendingInv, TS_assemble_udp_frags
<1> QED
  BY <1>1, AppendSet DEF ToSet

(* Whatever f's list is, it holds f and what it held, and no more.         *)
LEMMA GrownFrags ==
  ASSUME PendingInv, NEW f \in Fragments, NEW list \in FragList, Grown(list, f)
  PROVE  /\ list.id = f.id /\ Len(list.frags) > 0
         /\ list.frags_received = AsChar(Len(list.frags))
         /\ \A k \in DOMAIN list.frags : /\ list.frags[k] \in ToSet(seen) \union {f}
                                         /\ list.frags[k].id = f.id
<1>1. CASE list = new_list(f)
  BY <1>1, SmallChars DEF new_list
<1>2. CASE \E l \in Held : l.id = f.id /\ list = CountIn(l, f)
  <2>1. PICK l \in Held : l.id = f.id /\ list = CountIn(l, f)
    BY <1>2
  <2>2. /\ l \in FragList /\ l.frags_received = AsChar(Len(l.frags)) /\ Len(l.frags) > 0
        /\ \A k \in DOMAIN l.frags : l.frags[k] \in ToSet(seen) /\ l.frags[k].id = l.id
    BY DEF PendingInv, Held, ToSet
  <2>3. /\ list.id = l.id /\ list.frags = Append(l.frags, f)
        /\ list.frags_received = AsChar(l.frags_received + 1)
    BY <2>1, <2>2, CountInType
  <2>4. l.frags \in Seq(Fragments)
    BY <2>2 DEF FragList
  <2>5. /\ DOMAIN list.frags = 1 .. Len(l.frags) + 1 /\ Len(list.frags) = Len(l.frags) + 1
        /\ \A k \in 1 .. Len(l.frags) : list.frags[k] = l.frags[k]
        /\ list.frags[Len(l.frags) + 1] = f
    BY <2>3, <2>4, AppendSet
  <2>6. DOMAIN l.frags = 1 .. Len(l.frags) /\ Len(l.frags) \in Nat
    BY <2>4
  <2>7. list.frags_received = AsChar(Len(list.frags))
    <3>1. AsChar(AsChar(Len(l.frags)) + 1) = AsChar(Len(l.frags) + 1)
      BY <2>6, CharSuccessor
    <3> QED
      BY <2>2, <2>3, <2>5, <3>1
  <2> QED
    BY <2>1, <2>2, <2>3, <2>5, <2>6, <2>7
<1> QED
  BY <1>1, <1>2 DEF Grown

LEMMA PendingInvInit == FragsInit => PendingInv
  BY DEF FragsInit, PendingInv, Held, ToSet

LEMMA PendingInvStep ==
  ASSUME PendingInv, NEW f \in Fragments, TS_assemble_udp_frags(f)
  PROVE  PendingInv'
<1>1. PICK list \in FragList : StepOf(list, f)
  BY Step
<1>2. /\ seen' \in Seq(Fragments) /\ ToSet(seen') = ToSet(seen) \union {f}
  BY SeenStep
<1>3. ASSUME NEW l \in Held'
      PROVE  /\ l.frags_received = AsChar(Len(l.frags)) /\ Len(l.frags) > 0
             /\ \A k \in DOMAIN l.frags : l.frags[k] \in ToSet(seen') /\ l.frags[k].id = l.id
  <2>1. l \in Held \/ l = list
    BY <1>1 DEF StepOf
  <2>2. CASE l \in Held
    BY <1>2, <2>2 DEF PendingInv
  <2>3. CASE l = list
    BY <1>1, <1>2, <2>3, GrownFrags DEF StepOf
  <2> QED
    BY <2>1, <2>2, <2>3
<1> QED
  BY <1>1, <1>2, <1>3 DEF StepOf, PendingInv

(***************************************************************************)
(* What is decoded is whole.                                               *)
(***************************************************************************)

(* A list is of one datagram.  If that has few fragments the list is not   *)
(* complete: as long as no fragment comes twice, the last one makes a list *)
(* complete when all others are there, or counts it below nothing for good.*)
Short(l) ==
  IsInjective(l.frags)
  /\ \E d \in Datagrams : /\ ToSet(l.frags) \subseteq d
                          /\ (FewFragments(d) => l.incomplete_flag < 0)

Decodable(b) ==
  \E d \in Datagrams : b.frags \subseteq d /\ (FewFragments(d) => IsWhole(b, d))

WholeInv ==
  OnceEach => (\A l \in Held : Short(l)) /\ (\A b \in handed : Decodable(b))

LEMMA Quotient ==
  ASSUME NEW n \in Nat, NEW size \in Nat \ {0}
  PROVE  (n * size) \div size = n
  OBVIOUS

(* The last fragment of d, and what the code makes of its place            *)
IsLastOf(last, d) ==
  /\ IsFiniteSet(d) /\ Cardinality(d) \in Nat /\ Cardinality(d) > 1
  /\ last \in d /\ ~ last.more
  /\ IsFiniteSet(d \ {last}) /\ Cardinality(d \ {last}) = Cardinality(d) - 1
  /\ \A f \in d \ {last} :
       /\ f.more /\ f.offset < last.offset
       /\ last.offset \div f.nBytes = Cardinality(d) - 1

LEMMA CutFacts ==
  ASSUME NEW d \in Datagrams
  PROVE  \E last \in d : IsLastOf(last, d)
<1>1. IsCut(d)
  BY DatagramsAssumption
<1>2. PICK size \in {f.nBytes : f \in d}, last \in d :
        /\ Cardinality(d) - 1 > 0 /\ ~ last.more /\ last.offset = (Cardinality(d) - 1) * size
        /\ \A f \in d \ {last} : f.more /\ f.nBytes = size /\ f.offset < last.offset
  BY <1>1 DEF IsCut
<1>3. size \in Nat \ {0} /\ IsFiniteSet(d)
  BY <1>1 DEF IsCut
<1>4. Cardinality(d) \in Nat /\ IsFiniteSet(d \ {last})
      /\ Cardinality(d \ {last}) = Cardinality(d) - 1
  BY <1>3, FS_CardinalityType, FS_RemoveElement
<1>5. last.offset \div size = Cardinality(d) - 1
  <2>1. Cardinality(d) - 1 \in Nat
    BY <1>2, <1>4
  <2> QED
    BY <1>2, <1>3, <2>1, Quotient
<1> QED
  <2>1. Cardinality(d) > 1
    BY <1>2, <1>4
  <2>2. ASSUME NEW f \in d \ {last}
        PROVE  f.more /\ f.offset < last.offset /\ last.offset \div f.nBytes = Cardinality(d) - 1
    <3>1. f.more /\ f.offset < last.offset /\ f.nBytes = size
      BY <1>2
    <3> QED
      BY <1>5, <3>1
  <2> QED
    BY <1>2, <1>3, <1>4, <2>1, <2>2 DEF IsLastOf
(* A sequence without repetition, in a finite set                          *)
LEMMA NoMoreThan ==
  ASSUME NEW T, IsFiniteSet(T), NEW S, NEW s \in Seq(S), IsInjective(s),
         \A k \in DOMAIN s : s[k] \in T
  PROVE  Len(s) <= Cardinality(T) /\ (Len(s) = Cardinality(T) => ToSet(s) = T)
<1> DEFINE n == Len(s)
<1>1. n \in Nat /\ DOMAIN s = 1 .. n /\ s \in [1 .. n -> T]
  OBVIOUS
<1>2. s \in Injection(1 .. n, T)
  BY <1>1 DEF Injection
<1>3. Cardinality(1 .. n) = n
  <2>1. \A k \in Nat : Cardinality(1 .. k) = IF 1 > k THEN 0 ELSE k - 1 + 1
    BY FS_Interval
  <2> QED
    BY <1>1, <2>1
<1>4. n <= Cardinality(T) /\ (n = Cardinality(T) <=> s \in Surjection(1 .. n, T))
  BY <1>2, <1>3, FS_Injection
<1>5. s \in Surjection(1 .. n, T) => ToSet(s) = T
  BY <1>1 DEF Surjection, ToSet
<1> QED
  BY <1>4, <1>5

LEMMA AppendInjectiveSeq ==
  ASSUME NEW S, NEW s \in Seq(S), NEW x \in S, IsInjective(s),
         \A k \in DOMAIN s : s[k] # x
  PROVE  IsInjective(Append(s, x))
  BY DEF IsInjective

(* Fragments of one id are fragments of one datagram.                      *)
LEMMA SameDatagram ==
  ASSUME NEW d \in Datagrams, NEW f \in d, NEW g \in Fragments, f.datagram = g.datagram
  PROVE  g \in d
  BY DatagramsAssumption DEF Fragments

(* The buffer of a list that got the last fragment, and all others         *)
LEMMA WholeBuffer ==
  ASSUME NEW d \in Datagrams, NEW last, IsLastOf(last, d), NEW list,
         ToSet(list.frags) = d
  PROVE  IsWhole(TS_reassmble_ip_fragment(list, last), d)
<1> DEFINE found == CHOOSE f \in d : ~ f.more
<1>1. found = last
  BY DEF IsLastOf
<1> HIDE DEF found
<1> QED
  BY <1>1 DEF IsWhole, TS_reassmble_ip_fragment, found

LEMMA OnceBefore ==
  ASSUME PendingInv, NEW f \in Fragments, TS_assemble_udp_frags(f), OnceEach'
  PROVE  OnceEach /\ f \notin ToSet(seen) /\ f \in ToSet(seen')
<1>1. /\ seen' \in Seq(Fragments) /\ Len(seen') = Len(seen) + 1 /\ seen'[Len(seen')] = f
      /\ \A i \in 1 .. Len(seen) : seen'[i] = seen[i]
      /\ ToSet(seen') = ToSet(seen) \union {f} /\ Len(seen) \in Nat
  BY SeenStep
<1>2. DOMAIN seen = 1 .. Len(seen) /\ DOMAIN seen' = 1 .. Len(seen) + 1
  BY <1>1 DEF PendingInv
<1>3. \A i, j \in 1 .. Len(seen) + 1 : seen'[i] = seen'[j] => i = j
  BY <1>2 DEF OnceEach, IsInjective
<1>4. IsInjective(seen)
  BY <1>1, <1>2, <1>3 DEF IsInjective
<1>5. ASSUME NEW i \in 1 .. Len(seen), seen[i] = f PROVE FALSE
  <2>1. seen'[i] = seen'[Len(seen) + 1]
    BY <1>1, <1>5
  <2> QED
    BY <1>1, <1>3, <2>1
<1>6. f \notin ToSet(seen)
  BY <1>2, <1>5 DEF ToSet
<1> QED
  BY <1>1, <1>4, <1>6 DEF OnceEach

(* What f makes of its list: one that is short, or what can be decoded     *)
LEMMA GrownWhole ==
  ASSUME PendingInv, WholeInv, NEW f \in Fragments, TS_assemble_udp_frags(f), OnceEach',
         NEW list \in FragList, Grown(list, f)
  PROVE  IF Complete(list) THEN Decodable(TS_reassmble_ip_fragment(list, f)) ELSE Short(list)
<1>1. /\ OnceEach /\ f \notin ToSet(seen) /\ f \in ToSet(seen')
      /\ ToSet(seen') = ToSet(seen) \union {f}
  BY OnceBefore, SeenStep
<1>2. CASE list = new_list(f)
  <2>1. list.frags = <<f>> /\ ~ Complete(list) /\ list.incomplete_flag < 0
    BY <1>2, NewListType DEF new_list, Complete
  <2>2. IsInjective(list.frags) /\ ToSet(list.frags) = {f}
    BY <2>1 DEF IsInjective, ToSet
  <2> QED
    BY <2>1, <2>2 DEF Short, Fragments
<1>3. CASE \E l \in Held : l.id = f.id /\ list = CountIn(l, f)
  <2>1. PICK l \in Held : l.id = f.id /\ list = CountIn(l, f)
    BY <1>3
  <2>2. /\ l \in FragList /\ l.frags_received = AsChar(Len(l.frags)) /\ Len(l.frags) > 0
        /\ \A k \in DOMAIN l.frags : l.frags[k] \in ToSet(seen) /\ l.frags[k].id = l.id
    BY DEF PendingInv, Held, ToSet
  <2>3. PICK d \in Datagrams : /\ IsInjective(l.frags) /\ ToSet(l.frags) \subseteq d
                               /\ (FewFragments(d) => l.incomplete_flag < 0)
    BY <1>1 DEF WholeInv, Short
  <2>4. /\ list.frags = Append(l.frags, f)
        /\ f.more /\ l.incomplete_flag < 0 => list.incomplete_flag = l.incomplete_flag
        /\ ~ f.more => list.incomplete_flag
                       = AsChar(l.frags_received - f.offset \div l.frags[1].nBytes)
        /\ ~ f.more => list.got_last_frag
    BY <2>1, <2>2, CountInType
  <2>5. l.frags \in Seq(Fragments) /\ l.incomplete_flag \in Int
    BY <2>2 DEF FragList
  <2>6. \A k \in DOMAIN l.frags : l.frags[k] # f
    BY <1>1, <2>2
  <2>7. IsInjective(list.frags)
    BY <2>3, <2>4, <2>5, <2>6, AppendInjectiveSeq
  <2>8. f \in d
    <3>1. 1 \in DOMAIN l.frags /\ l.frags[1] \in ToSet(l.frags)
      BY <2>2, <2>5 DEF ToSet
    <3>2. l.frags[1].id = f.id /\ l.frags[1] \in ToSet(seen') /\ l.frags[1] \in d
      BY <1>1, <2>1, <2>2, <2>3, <3>1
    <3>3. l.frags[1].datagram = f.datagram
      BY <1>1, <3>2 DEF OnceEach
    <3> QED
      BY <3>2, <3>3, SameDatagram
  <2>9. ToSet(list.frags) = ToSet(l.frags) \union {f} /\ ToSet(list.frags) \subseteq d
    <3>1. ToSet(list.frags) = ToSet(l.frags) \union {f}
      BY <2>4, <2>5, AppendSet
    <3> QED
      BY <2>3, <2>8, <3>1
  <2>10. CASE ~ FewFragments(d)
    <3>1. TS_reassmble_ip_fragment(list, f).frags = ToSet(list.frags)
      BY DEF TS_reassmble_ip_fragment
    <3> QED
      BY <2>7, <2>9, <2>10, <3>1 DEF Short, Decodable
  <2>11. CASE FewFragments(d) /\ f.more
    <3>1. list.incomplete_flag < 0 /\ ~ Complete(list)
      BY <2>3, <2>4, <2>5, <2>11 DEF Complete
    <3> QED
      BY <2>7, <2>9, <3>1 DEF Short
  <2>12. CASE FewFragments(d) /\ ~ f.more
    <3>1. PICK last \in d : IsLastOf(last, d)
      BY CutFacts
    <3>2. f = last
      BY <2>8, <2>12, <3>1 DEF IsLastOf
    <3>3. \A k \in DOMAIN l.frags : l.frags[k] \in d \ {f}
      BY <2>3, <2>6 DEF ToSet
    <3>4. /\ IsFiniteSet(d \ {f}) /\ Cardinality(d \ {f}) = Cardinality(d) - 1
          /\ Cardinality(d) \in Nat
      BY <3>1, <3>2 DEF IsLastOf
    <3>5. Len(l.frags) <= Cardinality(d) - 1
          /\ (Len(l.frags) = Cardinality(d) - 1 => ToSet(l.frags) = d \ {f})
      BY <2>3, <2>5, <3>3, <3>4, NoMoreThan
    <3>6. f.offset \div l.frags[1].nBytes = Cardinality(d) - 1
      <4>1. 1 \in DOMAIN l.frags
        BY <2>2, <2>5
      <4> QED
        BY <3>1, <3>2, <3>3, <4>1 DEF IsLastOf
    (* What is missing fits a char. *)
    <3>7. /\ list.incomplete_flag = Len(l.frags) - (Cardinality(d) - 1)
          /\ Len(l.frags) \in Nat
      <4> DEFINE n == Len(l.frags)
                 c == Cardinality(d) - 1
      <4>1. n \in Nat /\ n > 0 /\ c \in Int /\ n <= c
        BY <2>2, <2>5, <3>4, <3>5
      <4>2. c <= CHAR_MAX + 2 /\ CHAR_MAX \in Nat
        BY <2>12, <3>4, CharAssumption DEF FewFragments
      <4>3. list.incomplete_flag = AsChar(AsChar(n) - c)
        BY <2>2, <2>4, <2>12, <3>6
      <4> HIDE DEF n, c
      <4>4. n - c \in Int /\ -(CHAR_MAX + 1) <= n - c /\ n - c <= CHAR_MAX
        BY <4>1, <4>2
      <4>5. AsChar(AsChar(n) - c) = AsChar(n - c) /\ AsChar(n - c) = n - c
        BY <4>1, <4>4, CharSum, CharType
      <4> QED
        BY <4>1, <4>3, <4>5 DEF n, c
    <3>8. CASE Complete(list)
      <4>1. ToSet(l.frags) = d \ {f}
        BY <3>4, <3>5, <3>7, <3>8 DEF Complete
      <4>2. ToSet(list.frags) = d
        BY <2>8, <2>9, <4>1
      <4>3. IsWhole(TS_reassmble_ip_fragment(list, f), d)
        BY <3>1, <3>2, <4>2, WholeBuffer
      <4>4. TS_reassmble_ip_fragment(list, f).frags \subseteq d
        BY <4>2 DEF TS_reassmble_ip_fragment
      <4> QED
        BY <3>8, <4>3, <4>4 DEF Decodable
    <3>9. CASE ~ Complete(list)
      <4>1. list.incomplete_flag # 0
        BY <2>4, <2>12, <3>9 DEF Complete
      <4>2. list.incomplete_flag < 0
        BY <3>4, <3>5, <3>7, <4>1
      <4> QED
        BY <2>7, <2>9, <3>9, <4>2 DEF Short
    <3> QED
      BY <3>8, <3>9
  <2> QED
    BY <2>10, <2>11, <2>12
<1> QED
  BY <1>2, <1>3 DEF Grown

LEMMA WholeInvInit == FragsInit => WholeInv
  BY DEF FragsInit, WholeInv, Held, ToSet

LEMMA WholeInvStep ==
  ASSUME PendingInv, WholeInv, NEW f \in Fragments, TS_assemble_udp_frags(f)
  PROVE  WholeInv'
<1> SUFFICES ASSUME OnceEach'
             PROVE  (\A l \in Held' : Short(l)) /\ (\A b \in handed' : Decodable(b))
  BY DEF WholeInv, Short, Decodable
<1>1. PICK list \in FragList : StepOf(list, f)
  BY Step
<1>2. (\A l \in Held : Short(l)) /\ (\A b \in handed : Decodable(b))
  BY OnceBefore DEF WholeInv
<1>3. IF Complete(list) THEN Decodable(TS_reassmble_ip_fragment(list, f)) ELSE Short(list)
  BY <1>1, GrownWhole DEF StepOf
<1>4. \A l \in Held' : l \in Held \/ (l = list /\ ~ Complete(list))
  BY <1>1 DEF StepOf
<1>5. \A b \in handed' : b \in handed
                         \/ (b = TS_reassmble_ip_fragment(list, f) /\ Complete(list))
  BY <1>1 DEF StepOf
<1> QED
  BY <1>2, <1>3, <1>4, <1>5
(***************************************************************************)
(* What comes in order is decoded.                                         *)
(***************************************************************************)

Got(d) == d \intersect ToSet(seen)

(* How far a datagram is whose fragments come in order: none has come, and *)
(* there is no list for it; some have come, and the list is all of them;   *)
(* all have, and it was decoded.                                           *)
Progress(d) ==
  /\ Got(d) = {} => \A l \in Held : \A f \in d : l.id # f.id
  /\ Got(d) # {} /\ (\A f \in Got(d) : f.more) =>
       \E l \in Held : /\ ToSet(l.frags) = Got(d)
                       /\ l.frags_received = AsChar(Cardinality(Got(d)))
                       /\ l.incomplete_flag = -1 /\ ~ l.got_last_frag
  /\ d \subseteq ToSet(seen) => \E b \in handed : IsWhole(b, d)

InOrderInv ==
  \A d \in Datagrams : InOrder(d) /\ (\A f \in d : f.id # 0) => Progress(d)

LEMMA InOrderInvInit == FragsInit => InOrderInv
<1> SUFFICES ASSUME FragsInit, NEW d \in Datagrams PROVE Progress(d)
  BY DEF InOrderInv
<1>1. Held = {} /\ Got(d) = {} /\ ToSet(seen) = {}
  BY DEF FragsInit, Held, Got, ToSet
<1>2. d # {}
  BY CutFacts
<1> QED
  BY <1>1, <1>2 DEF Progress

LEMMA InOrderBefore ==
  ASSUME PendingInv, NEW f \in Fragments, TS_assemble_udp_frags(f),
         NEW d \in Datagrams, InOrder(d)'
  PROVE  /\ InOrder(d)
         /\ f \notin d => \A g \in d : f.id # g.id /\ f.id # 0
         /\ f \in d => \A g \in Got(d) : g.offset < f.offset
<1>1. /\ Len(seen') = Len(seen) + 1 /\ seen'[Len(seen) + 1] = f /\ Len(seen) \in Nat
      /\ \A i \in 1 .. Len(seen) : seen'[i] = seen[i]
      /\ DOMAIN seen = 1 .. Len(seen) /\ DOMAIN seen' = 1 .. Len(seen) + 1
  BY SeenStep DEF PendingInv
<1>2. /\ \A i \in 1 .. Len(seen) + 1 :
           seen'[i].id \in {g.id : g \in d} \union {0} => seen'[i] \in d
      /\ \A i, j \in 1 .. Len(seen) + 1 :
           i < j /\ seen'[i] \in d /\ seen'[j] \in d => seen'[i].offset < seen'[j].offset
  BY <1>1 DEF InOrder
<1>3. InOrder(d)
  BY <1>1, <1>2 DEF InOrder
<1>4. f \notin d => \A g \in d : f.id # g.id /\ f.id # 0
  BY <1>1, <1>2
<1>5. ASSUME f \in d, NEW g \in Got(d) PROVE g.offset < f.offset
  <2>1. PICK i \in 1 .. Len(seen) : seen[i] = g
    BY <1>1 DEF Got, ToSet
  <2> QED
    BY <1>1, <1>2, <1>5, <2>1 DEF Got
<1> QED
  BY <1>3, <1>4, <1>5

(* The list of a datagram that has begun takes its next fragment.          *)
LEMMA NextOfIt ==
  ASSUME PendingInv, NEW f \in Fragments, NEW list \in FragList, Grown(list, f),
         NEW l \in Held, l.id = f.id, f.id # 0
  PROVE  /\ l \in FragList /\ Len(l.frags) > 0
         /\ list = CountIn(l, f)
<1>1. l \in FragList /\ Len(l.frags) > 0
  BY DEF PendingInv, Held, ToSet
<1>2. PICK m \in Held : m.id = f.id /\ list = CountIn(m, f)
  BY DEF Grown
<1>3. l = m
  BY <1>2 DEF PendingInv, Held, ToSet
<1> QED
  BY <1>1, <1>2, <1>3

LEMMA ProgressStep ==
  ASSUME PendingInv, NEW f \in Fragments, TS_assemble_udp_frags(f),
         NEW d \in Datagrams, InOrder(d)', \A g \in d : g.id # 0, Progress(d)
  PROVE  Progress(d)'
<1>1. PICK list \in FragList : StepOf(list, f)
  BY Step
<1>2. /\ f \notin d => \A g \in d : f.id # g.id /\ f.id # 0
      /\ f \in d => \A g \in Got(d) : g.offset < f.offset
  BY InOrderBefore
<1>3. ToSet(seen') = ToSet(seen) \union {f} /\ Got(d)' = Got(d) \union ({f} \intersect d)
  BY SeenStep DEF Got
<1>4. PICK last \in d : IsLastOf(last, d)
  BY CutFacts
<1>5. /\ list.id = f.id
      /\ \A l \in Held' : l \in Held \/ l = list
      /\ \A l \in Held : f.id # 0 /\ l.id # f.id => l \in Held'
      /\ ~ Complete(list) => list \in Held'
      /\ handed \subseteq handed'
      /\ Complete(list) => TS_reassmble_ip_fragment(list, f) \in handed'
  BY <1>1, GrownFrags DEF StepOf
<1>6. \A l \in Held : l \in FragList /\ l.frags \in Seq(Fragments) /\ Len(l.frags) > 0
                      /\ \A k \in DOMAIN l.frags : l.frags[k].id = l.id
  <2> SUFFICES ASSUME NEW l \in Held
               PROVE  l \in FragList /\ l.frags \in Seq(Fragments) /\ Len(l.frags) > 0
                      /\ \A k \in DOMAIN l.frags : l.frags[k].id = l.id
    OBVIOUS
  <2>1. l \in FragList
    BY DEF PendingInv, Held, ToSet
  <2>2. l.frags \in Seq(Fragments)
    BY <2>1 DEF FragList
  <2> QED
    BY <2>1, <2>2 DEF PendingInv
<1>7. \A l \in Held : ToSet(l.frags) = Got(d) => \E g \in d : l.id = g.id
  <2> SUFFICES ASSUME NEW l \in Held, ToSet(l.frags) = Got(d) PROVE \E g \in d : l.id = g.id
    OBVIOUS
  <2>1. 1 \in DOMAIN l.frags /\ l.frags[1] \in ToSet(l.frags) /\ l.frags[1].id = l.id
    BY <1>6 DEF ToSet
  <2> QED
    BY <2>1 DEF Got
<1>8. CASE f \notin d
  <2>1. Got(d)' = Got(d) /\ (d \subseteq ToSet(seen') => d \subseteq ToSet(seen))
    BY <1>3, <1>8
  <2>2. Got(d) = {} => \A l \in Held' : \A g \in d : l.id # g.id
    BY <1>2, <1>5, <1>8 DEF Progress
  <2>3. ASSUME Got(d) # {}, \A g \in Got(d) : g.more
        PROVE  \E l \in Held' :
                 /\ ToSet(l.frags) = Got(d)
                 /\ l.frags_received = AsChar(Cardinality(Got(d)))
                 /\ l.incomplete_flag = -1 /\ ~ l.got_last_frag
    <3>1. PICK l \in Held : /\ ToSet(l.frags) = Got(d)
                            /\ l.frags_received = AsChar(Cardinality(Got(d)))
                            /\ l.incomplete_flag = -1 /\ ~ l.got_last_frag
      BY <2>3 DEF Progress
    <3>2. l \in Held'
      BY <1>2, <1>5, <1>7, <1>8, <3>1
    <3> QED
      BY <3>1, <3>2
  <2>4. d \subseteq ToSet(seen') => \E b \in handed' : IsWhole(b, d)
    BY <1>5, <2>1 DEF Progress
  <2> QED
    BY <2>1, <2>2, <2>3, <2>4 DEF Progress
<1>9. CASE f \in d
  <2>0. /\ f.id # 0 /\ f.offset \in Nat /\ f \notin Got(d) /\ \A g \in d : g.id = f.id
        /\ Got(d)' = Got(d) \union {f} /\ last.offset \in Nat
    <3>1. f.offset \in Nat /\ last \in Fragments
      BY FragmentTypes DEF Fragments
    <3>2. last.offset \in Nat
      BY <3>1, FragmentTypes
    <3>3. f \notin Got(d)
      BY <1>2, <1>9, <3>1
    <3>4. \A g \in d : g.id = f.id
      BY <1>9, DatagramsAssumption DEF IsCut
    <3> QED
      BY <1>3, <1>9, <3>1, <3>2, <3>3, <3>4
  <2>1. IsFiniteSet(Got(d)) /\ Cardinality(Got(d)) \in Nat
        /\ Cardinality(Got(d) \union {f}) = Cardinality(Got(d)) + 1
    <3>1. IsFiniteSet(d) /\ Got(d) \in SUBSET d
      BY <1>4 DEF IsLastOf, Got
    <3>2. IsFiniteSet(Got(d))
      BY <3>1, FS_Subset
    <3> QED
      BY <2>0, <3>2, FS_CardinalityType, FS_AddElement
  (* What the list of d, if it has begun, is after f                       *)
  <2>2. ASSUME Got(d) # {}, \A g \in Got(d) : g.more
        PROVE  \E l \in Held :
                 /\ l \in FragList /\ Len(l.frags) > 0
                 /\ ToSet(l.frags) = Got(d)
                 /\ l.frags_received = AsChar(Cardinality(Got(d)))
                 /\ l.incomplete_flag = -1 /\ ~ l.got_last_frag
                 /\ list = CountIn(l, f) /\ ToSet(list.frags) = Got(d) \union {f}
                 /\ list.frags_received = AsChar(Cardinality(Got(d)) + 1)
                 /\ list.got_last_frag = ~ f.more
                 /\ f.more => list.incomplete_flag = -1
                 /\ ~ f.more => list.incomplete_flag
                                = AsChar(l.frags_received - f.offset \div l.frags[1].nBytes)
    <3>1. PICK l \in Held : /\ ToSet(l.frags) = Got(d)
                            /\ l.frags_received = AsChar(Cardinality(Got(d)))
                            /\ l.incomplete_flag = -1 /\ ~ l.got_last_frag
      BY <2>2 DEF Progress
    <3>2. l.id = f.id
      BY <1>7, <2>0, <3>1
    <3>3. /\ l \in FragList /\ Len(l.frags) > 0 /\ list = CountIn(l, f)
      BY <1>1, <2>0, <3>2, NextOfIt DEF StepOf
    <3>4. /\ list.got_last_frag = (l.got_last_frag \/ ~ f.more)
          /\ list.frags = Append(l.frags, f)
          /\ list.frags_received = AsChar(l.frags_received + 1)
          /\ f.more /\ l.incomplete_flag < 0 => list.incomplete_flag = l.incomplete_flag
          /\ ~ f.more => list.incomplete_flag
                         = AsChar(l.frags_received - f.offset \div l.frags[1].nBytes)
      BY <3>3, CountInType
    <3>5. ToSet(list.frags) = Got(d) \union {f}
      BY <1>6, <3>1, <3>4, AppendSet
    <3>6. list.got_last_frag = ~ f.more /\ (f.more => list.incomplete_flag = -1)
      BY <3>1, <3>4, FragmentTypes
    <3>7. list.frags_received = AsChar(Cardinality(Got(d)) + 1)
      <4>1. AsChar(AsChar(Cardinality(Got(d))) + 1) = AsChar(Cardinality(Got(d)) + 1)
        BY <2>1, CharSuccessor
      <4> QED
        BY <3>1, <3>4, <4>1
    <3> QED
      BY <3>1, <3>3, <3>4, <3>5, <3>6, <3>7
  <2>3. CASE f.more
    <3>1. f # last /\ f.offset < last.offset
      BY <1>4, <1>9, <2>3 DEF IsLastOf
    <3>2. last \notin Got(d)
      BY <1>2, <1>9, <2>0, <3>1
    <3>3. /\ \A g \in Got(d) : g.more
          /\ ~ d \subseteq ToSet(seen')
      BY <1>3, <1>4, <3>1, <3>2 DEF IsLastOf, Got
    <3>4. /\ ToSet(list.frags) = Got(d) \union {f}
          /\ list.frags_received = AsChar(Cardinality(Got(d)) + 1)
          /\ list.incomplete_flag = -1 /\ ~ list.got_last_frag
      <4>1. CASE Got(d) # {}
        BY <2>2, <2>3, <3>3, <4>1
      <4>2. CASE Got(d) = {}
        <5>1. list = new_list(f)
          BY <1>1, <1>9, <4>2 DEF Progress, StepOf, Grown
        <5>2. ToSet(<<f>>) = {f}
          BY DEF ToSet
        <5>3. Cardinality(Got(d)) = 0
          BY <4>2, FS_EmptySet
        <5>4. list.incomplete_flag = -1 /\ AsChar(1) = 1
          BY <5>1, NewListType, SmallChars
        <5> QED
          BY <4>2, <5>1, <5>2, <5>3, <5>4 DEF new_list
      <4> QED
        BY <4>1, <4>2
    <3>5. list \in Held'
      BY <1>5, <3>4 DEF Complete
    <3> QED
      BY <2>0, <2>1, <3>3, <3>4, <3>5 DEF Progress
  <2>4. CASE ~ f.more
    <3>1. f = last
      BY <1>4, <1>9, <2>4 DEF IsLastOf
    <3>2. ASSUME d \subseteq ToSet(seen') PROVE \E b \in handed' : IsWhole(b, d)
      <4>1. Got(d) = d \ {f}
        BY <1>3, <2>0, <3>2 DEF Got
      <4>2. /\ Cardinality(Got(d)) = Cardinality(d) - 1 /\ Cardinality(d) > 1
            /\ \A g \in Got(d) : g.more
        BY <1>4, <3>1, <4>1 DEF IsLastOf
      <4>3. Got(d) # {}
        <5>1. Cardinality({}) = 0
          BY FS_EmptySet
        <5> QED
          <6>1. Cardinality(Got(d)) = Cardinality(d) - 1 /\ Cardinality(d) > 1
                /\ Cardinality(d) \in Nat
            BY <1>4, <4>2 DEF IsLastOf
          <6>2. Cardinality(Got(d)) # 0
            BY <6>1
          <6> QED
            BY <5>1, <6>2
      <4>4. PICK l \in Held :
              /\ l \in FragList /\ Len(l.frags) > 0 /\ ToSet(l.frags) = Got(d)
              /\ l.frags_received = AsChar(Cardinality(Got(d)))
              /\ ToSet(list.frags) = Got(d) \union {f} /\ list.got_last_frag
              /\ list.incomplete_flag = AsChar(l.frags_received - f.offset \div l.frags[1].nBytes)
        BY <2>2, <2>4, <4>2, <4>3
      <4>5. l.frags[1] \in d \ {f}
        BY <1>6, <4>1, <4>4 DEF ToSet
      <4>6. f.offset \div l.frags[1].nBytes = Cardinality(d) - 1
        BY <1>4, <3>1, <4>5 DEF IsLastOf
      <4>7. Complete(list)
        <5> DEFINE n == Cardinality(Got(d))
        <5>1. n \in Int /\ f.offset \div l.frags[1].nBytes = n
          BY <2>1, <4>2, <4>6
        <5>2. AsChar(AsChar(n) - n) = AsChar(n - n)
          BY <5>1, CharSum
        <5>3. list.incomplete_flag = AsChar(AsChar(n) - n)
          BY <4>4, <5>1
        <5> HIDE DEF n
        <5>4. n - n = 0
          BY <5>1
        <5> QED
          BY <4>4, <5>2, <5>3, <5>4, SmallChars DEF Complete
      <4>8. ToSet(list.frags) = d
        BY <1>9, <4>1, <4>4
      <4>9. IsWhole(TS_reassmble_ip_fragment(list, f), d)
        BY <1>4, <3>1, <4>8, WholeBuffer
      <4> QED
        BY <1>5, <4>7, <4>9
    <3> QED
      BY <2>0, <2>4, <3>2 DEF Progress
  <2> QED
    BY <2>3, <2>4
<1> QED
  BY <1>8, <1>9

LEMMA InOrderInvStep ==
  ASSUME PendingInv, InOrderInv, NEW f \in Fragments, TS_assemble_udp_frags(f)
  PROVE  InOrderInv'
<1> SUFFICES ASSUME NEW d \in Datagrams, InOrder(d)', \A g \in d : g.id # 0
             PROVE  Progress(d)'
  BY DEF InOrderInv
<1>1. Progress(d)
  BY InOrderBefore DEF InOrderInv
<1> QED
  BY <1>1, ProgressStep

=============================================================================
