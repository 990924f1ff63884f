------------------------ MODULE ListSelection_proofs ------------------------
(***************************************************************************)
(* Lemmas about lists: what is left of a list, where each element of it    *)
(* ends up, and induction over the natural numbers, done by hand.          *)
(***************************************************************************)
EXTENDS ListSelection, SequencesExt, SequenceTheorems, FiniteSetTheorems, WellFoundedInduction, TLAPS

\* A set of numbers that is not empty has a least one.
LEMMA LeastNat ==
    ASSUME NEW S \in SUBSET Nat, S # {}
    PROVE  \E m \in S : \A n \in S : m <= n
<1>1. \A x, y \in Nat : y < x => <<y, x>> \in OpToRel(<, Nat)
  BY Zenon DEF OpToRel
<1>2. PICK m \in S : \A n \in S : ~(<<n, m>> \in OpToRel(<, Nat))
  BY NatLessThanWellFounded, WFMin
<1>3. \A n \in S : ~(n < m)
  BY <1>1, <1>2
<1> QED BY <1>3

LEMMA ByInduction ==
    ASSUME NEW S \in SUBSET Nat, 0 \in S, \A n \in S : n + 1 \in S
    PROVE  S = Nat
<1> SUFFICES ASSUME Nat \ S # {} PROVE FALSE
  OBVIOUS
<1>1. PICK m \in Nat \ S : \A n \in Nat \ S : m <= n
  BY LeastNat, Nat \ S \in SUBSET Nat
<1>2. m # 0 /\ m - 1 \in Nat /\ m - 1 \in S
  BY <1>1
<1> QED BY <1>1, <1>2

-----------------------------------------------------------------------------
(* What a list keeps, and where. *)

\* The places of a list that are kept: a finite set of numbers.
Places == {P \in SUBSET Nat : IsFiniteSet(P)}

LEMMA PlacesOf ==
    ASSUME NEW n \in Nat, NEW P, P \subseteq 1..n
    PROVE  P \in Places /\ Cardinality(P) \in Nat /\ Cardinality(P) <= n
<1>1. IsFiniteSet(1..n) /\ Cardinality(1..n) = n
  <2>1. 1 \in Int /\ n \in Int
    OBVIOUS
  <2>2. IsFiniteSet(1..n) /\ Cardinality(1..n) = IF 1 > n THEN 0 ELSE n - 1 + 1
    BY <2>1, FS_Interval
  <2> QED BY <2>2
<1>2. P \in SUBSET (1..n)
  OBVIOUS
<1>3. IsFiniteSet(P) /\ Cardinality(P) <= n
  BY <1>1, <1>2, FS_Subset
<1>4. Cardinality(P) \in Nat
  BY <1>3, FS_CardinalityType
<1>5. P \subseteq Nat
  BY <1>2
<1> QED BY <1>3, <1>4, <1>5 DEF Places

\* Places are counted in their order: from 1, and each higher than the last.
LEMMA UptoProps ==
    ASSUME NEW P \in Places, NEW i \in P
    PROVE  /\ Cardinality(P) \in Nat
           /\ Upto(P, i) \in 1..Cardinality(P)
           /\ \A j \in P : i < j => Upto(P, i) < Upto(P, j)
<1> DEFINE U(k) == {j \in P : j <= k}
<1>1. IsFiniteSet(P) /\ P \subseteq Nat
  BY DEF Places
<1>2. Cardinality(P) \in Nat
  BY <1>1, FS_CardinalityType
<1>3. ASSUME NEW k \in P
      PROVE  IsFiniteSet(U(k)) /\ Cardinality(U(k)) \in Nat /\ Cardinality(U(k)) <= Cardinality(P)
  <2>1. U(k) \in SUBSET P
    OBVIOUS
  <2>2. IsFiniteSet(U(k)) /\ Cardinality(U(k)) <= Cardinality(P)
    BY <1>1, <2>1, FS_Subset
  <2> QED BY <2>2, FS_CardinalityType
<1>4. i \in U(i)
  BY <1>1
<1>5. Cardinality(U(i)) # 0
  BY <1>3, <1>4, FS_EmptySet
<1>6. ASSUME NEW j \in P, i < j
      PROVE  Cardinality(U(i)) < Cardinality(U(j))
  <2>1. U(i) \in SUBSET U(j)
    <3>1. \A k \in P : k <= i => k <= j
      BY <1>1, <1>6
    <3> QED BY <3>1
  <2>2. j \in U(j) /\ j \notin U(i)
    BY <1>1, <1>6
  <2>3. /\ Cardinality(U(i)) <= Cardinality(U(j))
        /\ Cardinality(U(j)) = Cardinality(U(i)) => U(j) = U(i)
    BY <1>3, <2>1, FS_Subset
  <2>4. Cardinality(U(i)) # Cardinality(U(j))
    BY <2>2, <2>3
  <2> HIDE DEF U
  <2> QED BY <1>3, <2>3, <2>4
<1>7. \A k : Upto(P, k) = Cardinality(U(k))
  BY DEF Upto
<1>8. Cardinality(U(i)) \in 1..Cardinality(P)
  BY <1>2, <1>3, <1>5
<1> QED BY <1>2, <1>6, <1>7, <1>8

\* ... and every number up to their number is the count of one of them.
LEMMA UptoOnto ==
    ASSUME NEW P \in Places, NEW k \in 1..Cardinality(P)
    PROVE  /\ \E i \in P : Upto(P, i) = k
           /\ \A i, j \in P : Upto(P, i) = Upto(P, j) => i = j
<1> DEFINE f == [i \in P |-> Upto(P, i)]
           n == Cardinality(P)
<1>1. IsFiniteSet(P) /\ P \subseteq Nat
  BY DEF Places
<1>2. n \in Nat
  BY <1>1, FS_CardinalityType
<1>3. ASSUME NEW i \in P, NEW j \in P, Upto(P, i) = Upto(P, j)
      PROVE  i = j
  <2>1. Upto(P, i) \in Nat /\ Upto(P, j) \in Nat
    BY <1>2, UptoProps
  <2>2. ~(i < j) /\ ~(j < i)
    BY <1>3, <2>1, UptoProps
  <2> QED BY <1>1, <2>2
<1>4. f \in [P -> 1..n]
  BY UptoProps
<1>5. f \in Injection(P, 1..n)
  BY <1>3, <1>4 DEF Injection, IsInjective
<1>6. IsFiniteSet(1..n) /\ Cardinality(1..n) = n
  <2>1. 1 \in Int /\ n \in Int
    BY <1>2
  <2>2. IsFiniteSet(1..n) /\ Cardinality(1..n) = IF 1 > n THEN 0 ELSE n - 1 + 1
    BY <2>1, FS_Interval
  <2> HIDE DEF n
  <2> QED BY <1>2, <2>2
<1>7. f \in Surjection(P, 1..n)
  BY <1>5, <1>6, FS_Injection
<1>8. \E i \in P : f[i] = k
  BY <1>7 DEF Surjection
<1> QED BY <1>3, <1>8

\* The element at a place goes to the count of that place, and nowhere else.
LEMMA KeepPlaces ==
    ASSUME NEW P \in Places, NEW s
    PROVE  /\ Cardinality(P) \in Nat /\ DOMAIN Keep(s, P) = 1..Cardinality(P)
           /\ \A i \in P : Upto(P, i) \in 1..Cardinality(P) /\ Keep(s, P)[Upto(P, i)] = s[i]
           /\ \A k \in 1..Cardinality(P) : \E i \in P : Upto(P, i) = k /\ Keep(s, P)[k] = s[i]
<1> DEFINE n == Cardinality(P)
<1>1. n \in Nat
  BY FS_CardinalityType DEF Places
<1>2. ASSUME NEW k \in 1..n
      PROVE  \E i \in P : Upto(P, i) = k /\ Keep(s, P)[k] = s[i]
  <2> DEFINE c == CHOOSE i \in P : Upto(P, i) = k
  <2>1. c \in P /\ Upto(P, c) = k
    BY UptoOnto
  <2>2. Keep(s, P)[k] = s[c]
    BY DEF Keep
  <2> QED BY <2>1, <2>2
<1>3. ASSUME NEW i \in P
      PROVE  Upto(P, i) \in 1..n /\ Keep(s, P)[Upto(P, i)] = s[i]
  <2>1. Upto(P, i) \in 1..n
    BY UptoProps
  <2>2. PICK j \in P : Upto(P, j) = Upto(P, i) /\ Keep(s, P)[Upto(P, i)] = s[j]
    BY <1>2, <2>1
  <2>3. j = i
    BY <2>1, <2>2, UptoOnto
  <2> QED BY <2>1, <2>2, <2>3
<1>4. DOMAIN Keep(s, P) = 1..n
  BY DEF Keep
<1> QED BY <1>1, <1>2, <1>3, <1>4

LEMMA KeepType ==
    ASSUME NEW P \in Places, NEW T, NEW s, \A i \in P : s[i] \in T
    PROVE  Keep(s, P) \in Seq(T) /\ Len(Keep(s, P)) = Cardinality(P)
<1> DEFINE n == Cardinality(P)
<1>1. n \in Nat /\ DOMAIN Keep(s, P) = 1..n
  BY KeepPlaces
<1>2. \A k \in 1..n : Keep(s, P)[k] \in T
  BY KeepPlaces
<1>3. Keep(s, P) = [k \in 1..n |-> Keep(s, P)[k]]
  BY DEF Keep
<1> HIDE DEF n
<1>4. Keep(s, P) \in [1..n -> T]
  BY <1>2, <1>3
<1>5. Keep(s, P) \in Seq(T)
  BY <1>1, <1>4, SeqDef
<1>6. Len(Keep(s, P)) \in Nat /\ DOMAIN Keep(s, P) = 1..Len(Keep(s, P))
  BY <1>5, LenProperties
<1> QED BY <1>1, <1>5, <1>6 DEF n

\* To take all of a list changes nothing.
LEMMA KeepAll ==
    ASSUME NEW T, NEW s \in Seq(T)
    PROVE  Keep(s, DOMAIN s) = s
<1> DEFINE n == Len(s)
<1>1. n \in Nat /\ DOMAIN s = 1..n
  BY LenProperties
<1>2. DOMAIN s \in Places /\ Cardinality(DOMAIN s) = n
  <2>1. 1 \in Int /\ n \in Int
    BY <1>1
  <2>2. IsFiniteSet(1..n) /\ Cardinality(1..n) = IF 1 > n THEN 0 ELSE n - 1 + 1
    BY <2>1, FS_Interval
  <2>3. \A i \in 1..n : i \in Nat
    BY <1>1
  <2> HIDE DEF n
  <2> QED BY <1>1, <2>2, <2>3 DEF Places
<1>3. ASSUME NEW i \in 1..n
      PROVE  Upto(1..n, i) = i
  <2>1. {j \in 1..n : j <= i} = 1..i
    BY <1>1
  <2>2. i \in Int /\ 1 \in Int /\ i >= 1
    BY <1>1
  <2>3. Cardinality(1..i) = IF 1 > i THEN 0 ELSE i - 1 + 1
    BY <2>2, FS_Interval
  <2>4. Cardinality(1..i) = i
    <3>1. i \in Nat /\ ~(1 > i) /\ i - 1 + 1 = i
      BY ONLY <2>2
    <3> QED BY <2>3, <3>1
  <2> QED BY <2>1, <2>4 DEF Upto
<1>4. \A i \in 1..n : s[i] \in T
  BY <1>1, ElementOfSeq
<1> HIDE DEF n
<1>5. Keep(s, DOMAIN s) \in Seq(T) /\ Len(Keep(s, DOMAIN s)) = n
  BY <1>1, <1>2, <1>4, KeepType
<1>6. \A i \in 1..n : Keep(s, DOMAIN s)[i] = s[i]
  BY <1>1, <1>2, <1>3, KeepPlaces
<1> QED BY <1>1, <1>5, <1>6, SeqEqual DEF n

LEMMA RemoveAtProps ==
    ASSUME NEW T, NEW s \in Seq(T), NEW r \in 1..Len(s)
    PROVE  /\ RemoveAt(s, r) \in Seq(T)
           /\ Len(RemoveAt(s, r)) = Len(s) - 1
           /\ \A k \in 1..(Len(s) - 1) : RemoveAt(s, r)[k] = IF k < r THEN s[k] ELSE s[k + 1]
<1> DEFINE n == Len(s)
           a == SubSeq(s, 1, r - 1)
           b == SubSeq(s, r + 1, n)
<1>1. n \in Nat /\ \A i \in 1..n : s[i] \in T
  BY LenProperties, ElementOfSeq
<1>2. r \in Int /\ 1 <= r /\ r <= n
  BY <1>1
<1> HIDE DEF n
<1>3. /\ a \in Seq(T) /\ Len(a) = r - 1
      /\ \A k \in 1..(r - 1) : a[k] = s[k]
  <2>1. 1 \in Int /\ r - 1 \in Int /\ \A i \in 1..(r - 1) : s[i] \in T
    BY <1>1, <1>2
  <2>2. /\ a \in Seq(T)
        /\ Len(a) = IF 1 <= r - 1 THEN r - 1 - 1 + 1 ELSE 0
        /\ \A k \in 1..(r - 1 - 1 + 1) : a[k] = s[1 + k - 1]
    BY <2>1, SubSeqProperties
  <2> HIDE DEF a
  <2> QED BY <1>2, <2>2
<1>4. /\ b \in Seq(T) /\ Len(b) = n - r
      /\ \A k \in 1..(n - r) : b[k] = s[r + k]
  <2>1. r + 1 \in Int /\ n \in Int /\ \A i \in (r + 1)..n : s[i] \in T
    BY <1>1, <1>2
  <2>2. /\ b \in Seq(T)
        /\ Len(b) = IF r + 1 <= n THEN n - (r + 1) + 1 ELSE 0
        /\ \A k \in 1..(n - (r + 1) + 1) : b[k] = s[r + 1 + k - 1]
    BY <2>1, SubSeqProperties
  <2> HIDE DEF b
  <2> QED BY <1>1, <1>2, <2>2
<1>5. RemoveAt(s, r) = a \o b
  BY DEF RemoveAt, n
<1> HIDE DEF a, b
<1>6. /\ a \o b \in Seq(T)
      /\ Len(a \o b) = n - 1
      /\ \A k \in 1..(n - 1) : (a \o b)[k] = IF k <= r - 1 THEN a[k] ELSE b[k - (r - 1)]
  <2>1. /\ a \o b \in Seq(T)
        /\ Len(a \o b) = Len(a) + Len(b)
        /\ \A k \in 1..(Len(a) + Len(b)) : (a \o b)[k] = IF k <= Len(a) THEN a[k] ELSE b[k - Len(a)]
    BY <1>3, <1>4, ConcatProperties
  <2>2. Len(a) + Len(b) = n - 1 /\ Len(a) = r - 1
    BY <1>1, <1>2, <1>3, <1>4
  <2> QED BY <2>1, <2>2
<1>7. ASSUME NEW k \in 1..(n - 1)
      PROVE  (a \o b)[k] = IF k < r THEN s[k] ELSE s[k + 1]
  <2>1. CASE k < r
    BY <1>1, <1>2, <1>3, <1>6, <2>1
  <2>2. CASE ~(k < r)
    <3>1. k - (r - 1) \in 1..(n - r) /\ r + (k - (r - 1)) = k + 1 /\ ~(k <= r - 1)
      BY <1>1, <1>2, <2>2
    <3>2. (a \o b)[k] = b[k - (r - 1)]
      BY <1>6, <3>1
    <3>3. b[k - (r - 1)] = s[r + (k - (r - 1))]
      BY <1>4, <3>1
    <3> QED BY <2>2, <3>1, <3>2, <3>3
  <2> QED BY <2>1, <2>2
<1> QED BY <1>5, <1>6, <1>7 DEF n

\* One place less: those after it count one less.
LEMMA UptoWithout ==
    ASSUME NEW P \in Places, NEW p \in P
    PROVE  /\ P \ {p} \in Places /\ Cardinality(P \ {p}) = Cardinality(P) - 1
           /\ \A q \in P \ {p} :
                 Upto(P \ {p}, q) = IF Upto(P, q) > Upto(P, p) THEN Upto(P, q) - 1 ELSE Upto(P, q)
<1>1. IsFiniteSet(P) /\ P \subseteq Nat
  BY DEF Places
<1>2. IsFiniteSet(P \ {p}) /\ Cardinality(P \ {p}) = Cardinality(P) - 1
  BY <1>1, FS_RemoveElement
<1>3. ASSUME NEW q \in P \ {p}
      PROVE  Upto(P \ {p}, q) = IF Upto(P, q) > Upto(P, p) THEN Upto(P, q) - 1 ELSE Upto(P, q)
  <2> DEFINE U == {j \in P : j <= q}
  <2>1. U \in SUBSET P
    OBVIOUS
  <2>2. IsFiniteSet(U)
    BY <1>1, <2>1, FS_Subset
  <2>3. {j \in P \ {p} : j <= q} = U \ {p}
    OBVIOUS
  <2>4. Cardinality(U \ {p}) = IF p \in U THEN Cardinality(U) - 1 ELSE Cardinality(U)
    BY <2>2, FS_RemoveElement
  <2>5. Upto(P, q) = Cardinality(U) /\ Upto(P \ {p}, q) = Cardinality(U \ {p})
    BY <2>3 DEF Upto
  <2>6. p \in U <=> p <= q
    OBVIOUS
  <2>7. p \in Nat /\ q \in Nat /\ p # q
    BY <1>1
  <2>8. Upto(P, p) \in Nat /\ Upto(P, q) \in Nat
    BY UptoProps
  <2>9. p < q => Upto(P, p) < Upto(P, q)
    BY UptoProps
  <2>10. q < p => Upto(P, q) < Upto(P, p)
    BY UptoProps
  <2> HIDE DEF U
  <2>11. CASE p < q
    <3>1. Upto(P, q) > Upto(P, p) /\ p \in U
      BY <2>6, <2>7, <2>8, <2>9, <2>11
    <3> QED BY <2>4, <2>5, <3>1
  <2>12. CASE q < p
    <3>1. ~(Upto(P, q) > Upto(P, p)) /\ p \notin U
      BY <2>6, <2>7, <2>8, <2>10, <2>12
    <3> QED BY <2>4, <2>5, <3>1
  <2> QED BY <2>7, <2>11, <2>12
<1>4. P \ {p} \in Places
  BY <1>1, <1>2 DEF Places
<1> QED BY <1>2, <1>3, <1>4

\* To drop a place is to remove the element at its count.
LEMMA KeepWithout ==
    ASSUME NEW P \in Places, NEW s, NEW p \in P
    PROVE  RemoveAt(Keep(s, P), Upto(P, p)) = Keep(s, P \ {p})
<1> DEFINE T == {s[i] : i \in P}
<1>0. \A i \in P : s[i] \in T
  OBVIOUS
<1> HIDE DEF T
<1>1. /\ Keep(s, P) \in Seq(T) /\ Len(Keep(s, P)) = Cardinality(P) /\ Cardinality(P) \in Nat
      /\ \A i \in P : Upto(P, i) \in 1..Cardinality(P) /\ Keep(s, P)[Upto(P, i)] = s[i]
  BY <1>0, KeepPlaces, KeepType
<1> DEFINE Q == P \ {p}
           K == Keep(s, P)
           n == Cardinality(P)
           r == Upto(P, p)
           R == RemoveAt(K, r)
<1>2. /\ Q \in Places /\ Cardinality(Q) = n - 1
      /\ \A q \in Q : Upto(Q, q) = IF Upto(P, q) > r THEN Upto(P, q) - 1 ELSE Upto(P, q)
  BY UptoWithout
<1>3. \A i \in Q : s[i] \in T
  BY <1>0
<1>4. /\ Keep(s, Q) \in Seq(T) /\ Len(Keep(s, Q)) = n - 1
      /\ \A k \in 1..(n - 1) : \E q \in Q : Upto(Q, q) = k /\ Keep(s, Q)[k] = s[q]
  <2> HIDE DEF Q
  <2>1. /\ Keep(s, Q) \in Seq(T) /\ Len(Keep(s, Q)) = Cardinality(Q)
        /\ \A k \in 1..Cardinality(Q) : \E q \in Q : Upto(Q, q) = k /\ Keep(s, Q)[k] = s[q]
    BY <1>2, <1>3, KeepPlaces, KeepType
  <2> QED BY <1>2, <2>1
<1>5. r \in 1..n
  BY <1>1
<1>6. /\ R \in Seq(T) /\ Len(R) = n - 1
      /\ \A k \in 1..(n - 1) : R[k] = IF k < r THEN K[k] ELSE K[k + 1]
  <2>1. K \in Seq(T) /\ Len(K) = n /\ r \in 1..Len(K)
    BY <1>1, <1>5
  <2> HIDE DEF K, r, n
  <2> QED BY <2>1, RemoveAtProps
<1>7. ASSUME NEW k \in 1..(n - 1)
      PROVE  R[k] = Keep(s, Q)[k]
  <2>1. PICK q \in Q : Upto(Q, q) = k /\ Keep(s, Q)[k] = s[q]
    BY <1>4
  <2>2. q \in P /\ q # p
    BY <2>1
  <2>3. Upto(P, q) \in 1..n /\ K[Upto(P, q)] = s[q]
    BY <1>1, <2>2
  <2>4. k = IF Upto(P, q) > r THEN Upto(P, q) - 1 ELSE Upto(P, q)
    BY <1>2, <2>1
  <2>5. Upto(P, q) # r
    BY <1>1, <1>5, <2>2, UptoOnto
  <2>6. R[k] = IF k < r THEN K[k] ELSE K[k + 1]
    BY <1>6
  <2>7. IF k < r THEN Upto(P, q) = k ELSE Upto(P, q) = k + 1
    <3> DEFINE u == Upto(P, q)
    <3>1. u \in Nat /\ r \in Nat /\ k = IF u > r THEN u - 1 ELSE u
      BY <1>1, <1>5, <2>3, <2>4
    <3>2. u # r
      BY <2>5
    <3> HIDE DEF u, r
    <3>3. IF k < r THEN u = k ELSE u = k + 1
      BY ONLY <3>1, <3>2
    <3> QED BY <3>3 DEF u
  <2> HIDE DEF K, R, r, Q
  <2> QED BY <2>1, <2>3, <2>6, <2>7
<1> HIDE DEF K, R, r, Q, n
<1>8. R = Keep(s, Q)
  BY <1>1, <1>4, <1>6, <1>7, SeqEqual
<1> QED BY <1>8 DEF R, K, r, Q

\* m is a place above all of P.
Above(P, m) == m \in Nat /\ P \in Places /\ \A p \in P : p < m

\* One more place, above all the others, puts one more element at the end.
LEMMA KeepAppend ==
    ASSUME NEW P, NEW m, Above(P, m), NEW s
    PROVE  /\ P \cup {m} \in Places
           /\ Keep(s, P \cup {m}) = Append(Keep(s, P), s[m])
<1> DEFINE Q == P \cup {m}
           n == Cardinality(P)
           T == {s[i] : i \in P \cup {m}}
<1>0. \A i \in Q : s[i] \in T
  OBVIOUS
<1> HIDE DEF T
<1>a. m \in Nat /\ P \in Places /\ \A p \in P : p < m
  BY DEF Above
<1>1. m \notin P /\ m \in Q /\ Q \ {m} = P
  BY <1>a DEF Places
<1>2. Q \in Places /\ Cardinality(Q) = n + 1 /\ n \in Nat
  <2>1. IsFiniteSet(P) /\ P \subseteq Nat /\ m \in Nat
    BY <1>a DEF Places
  <2>2. IsFiniteSet(Q) /\ Cardinality(Q) = IF m \in P THEN n ELSE n + 1
    BY <2>1, FS_AddElement
  <2>3. n \in Nat
    BY <2>1, FS_CardinalityType
  <2> QED BY <1>1, <2>1, <2>2, <2>3 DEF Places
<1> HIDE DEF Q, n
<1>3. Upto(Q, m) = n + 1
  <2>1. PICK q \in Q : Upto(Q, q) = n + 1
    BY <1>2, UptoOnto
  <2>2. ASSUME q # m PROVE FALSE
    <3>1. q < m
      BY <1>a, <1>1, <2>2 DEF Q
    <3>2. Upto(Q, q) < Upto(Q, m) /\ Upto(Q, m) \in 1..(n + 1)
      BY <1>1, <1>2, <3>1, UptoProps
    <3> QED BY <1>2, <2>1, <3>2
  <2> QED BY <2>1, <2>2
<1>4. ASSUME NEW p \in P PROVE Upto(Q, p) = Upto(P, p)
  <2>1. Upto(Q \ {m}, p) = IF Upto(Q, p) > Upto(Q, m) THEN Upto(Q, p) - 1 ELSE Upto(Q, p)
    BY <1>1, <1>2, UptoWithout
  <2>2. Upto(Q, p) \in 1..(n + 1)
    BY <1>1, <1>2, UptoProps
  <2>3. ~(Upto(Q, p) > Upto(Q, m))
    BY <1>2, <1>3, <2>2
  <2> QED BY <1>1, <2>1, <2>3
<1>5. /\ Keep(s, P) \in Seq(T) /\ Len(Keep(s, P)) = n /\ s[m] \in T
  BY <1>0, <1>a, KeepType DEF n, Q
<1>6. /\ Keep(s, Q) \in Seq(T) /\ Len(Keep(s, Q)) = n + 1
  BY <1>0, <1>2, KeepType
<1>7. /\ Append(Keep(s, P), s[m]) \in Seq(T)
      /\ Len(Append(Keep(s, P), s[m])) = n + 1
      /\ \A k \in 1..n : Append(Keep(s, P), s[m])[k] = Keep(s, P)[k]
      /\ Append(Keep(s, P), s[m])[n + 1] = s[m]
  BY <1>5, AppendProperties
<1>8. ASSUME NEW k \in 1..(n + 1) PROVE Keep(s, Q)[k] = Append(Keep(s, P), s[m])[k]
  <2>1. CASE k = n + 1
    BY <1>1, <1>2, <1>3, <1>7, <2>1, KeepPlaces
  <2>2. CASE k # n + 1
    <3>1. k \in 1..n
      BY <1>2, <2>2
    <3>2. PICK p \in P : Upto(P, p) = k /\ Keep(s, P)[k] = s[p]
      BY <1>a, <3>1, KeepPlaces DEF n
    <3>3. p \in Q /\ Upto(Q, p) = k
      BY <1>1, <1>4, <3>2
    <3>4. Keep(s, Q)[k] = s[p]
      BY <1>2, <3>3, KeepPlaces
    <3> QED BY <1>7, <3>1, <3>2, <3>4
  <2> QED BY <2>1, <2>2
<1>9. Keep(s, Q) = Append(Keep(s, P), s[m])
  BY <1>6, <1>7, <1>8, SeqEqual
<1> QED BY <1>2, <1>9 DEF Q

\* Places are listed in their order.
LEMMA KeepNumbers ==
    ASSUME NEW n \in Nat, NEW P, P \subseteq 1..n, NEW id, id = [i \in 1..n |-> i]
    PROVE  /\ P \in Places /\ Keep(id, P) \in Seq(P)
           /\ \A k \in DOMAIN Keep(id, P) : Upto(P, Keep(id, P)[k]) = k
           /\ \A i \in P : Upto(P, i) \in DOMAIN Keep(id, P) /\ Keep(id, P)[Upto(P, i)] = i
           /\ \A j, k \in DOMAIN Keep(id, P) : j < k => Keep(id, P)[j] < Keep(id, P)[k]
<1>1. P \in Places
  BY PlacesOf
<1>2. \A i \in P : id[i] = i
  OBVIOUS
<1>3. Keep(id, P) \in Seq(P) /\ Len(Keep(id, P)) = Cardinality(P)
  BY <1>1, <1>2, KeepType
<1>4. /\ DOMAIN Keep(id, P) = 1..Cardinality(P) /\ Cardinality(P) \in Nat
      /\ \A i \in P : Upto(P, i) \in 1..Cardinality(P) /\ Keep(id, P)[Upto(P, i)] = i
      /\ \A k \in 1..Cardinality(P) : \E i \in P : Upto(P, i) = k /\ Keep(id, P)[k] = i
  BY <1>1, <1>2, KeepPlaces
<1>5. ASSUME NEW j \in DOMAIN Keep(id, P), NEW k \in DOMAIN Keep(id, P), j < k
      PROVE  Keep(id, P)[j] < Keep(id, P)[k]
  <2>1. PICK a \in P : Upto(P, a) = j /\ Keep(id, P)[j] = a
    BY <1>4
  <2>2. PICK b \in P : Upto(P, b) = k /\ Keep(id, P)[k] = b
    BY <1>4
  <2>3. ~(b < a) /\ a # b
    <3>1. b < a => Upto(P, b) < Upto(P, a)
      BY <1>1, UptoProps
    <3>2. j \in 1..Cardinality(P) /\ k \in 1..Cardinality(P)
      BY <1>4
    <3> QED BY <1>4, <1>5, <2>1, <2>2, <3>1, <3>2
  <2>4. a \in Nat /\ b \in Nat
    BY <1>1 DEF Places
  <2> QED BY <2>1, <2>2, <2>3, <2>4
<1> QED BY <1>1, <1>3, <1>4, <1>5

\* To take elements at places is to take them one by one in the order of places.
LEMMA KeepInOrder ==
    ASSUME NEW P \in Places, NEW s, NEW id, \A i \in P : id[i] = i
    PROVE  Keep(s, P) = [k \in DOMAIN Keep(id, P) |-> s[Keep(id, P)[k]]]
<1>2. DOMAIN Keep(s, P) = DOMAIN Keep(id, P)
  BY KeepPlaces
<1>3. ASSUME NEW k \in DOMAIN Keep(id, P)
      PROVE  Keep(s, P)[k] = s[Keep(id, P)[k]]
  <2>1. PICK i \in P : Upto(P, i) = k /\ Keep(id, P)[k] = id[i]
    BY KeepPlaces
  <2>2. Keep(s, P)[k] = s[i]
    BY <2>1, KeepPlaces
  <2>3. id[i] = i
    OBVIOUS
  <2> QED BY <2>1, <2>2, <2>3
<1>4. Keep(s, P) = [k \in DOMAIN Keep(s, P) |-> Keep(s, P)[k]]
  BY DEF Keep
<1> QED BY <1>2, <1>3, <1>4
=============================================================================
