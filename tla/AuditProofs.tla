----------------------------- MODULE AuditProofs ----------------------------
(***************************************************************************)
(* The cap of the audit queue holds for any cap, any lengths of lines, and *)
(* any number of crashes and restarts; nothing is lost or recorded twice;  *)
(* and events are recorded in the order of AuditTrail.                     *)
(***************************************************************************)
EXTENDS AuditQueue, FiniteSetTheorems, FunctionTheorems, SequenceTheorems, TLAPS

-----------------------------------------------------------------------------
(* Lists without some of their members.                                    *)

(* p names, in order, the n places of s that hold a member of S.           *)
Picks(p, n, s, S) ==
  /\ n \in Nat /\ p \in [1..n -> Where(s, S)]
  /\ \A i \in Where(s, S) : \E k \in 1..n : p[k] = i
  /\ \A k, l \in 1..n : k < l => p[k] < p[l]

(* The later place has the higher rank, and no rank is beyond the number   *)
(* of places.                                                              *)
LEMMA RankOrder ==
  ASSUME NEW at \in SUBSET Nat, IsFiniteSet(at), NEW i \in at
  PROVE  /\ Rank(at, i) \in 1..Cardinality(at)
         /\ \A j \in at : i < j => Rank(at, i) < Rank(at, j)
<1>. DEFINE Upto(k) == {m \in at : m <= k}
<1>1. \A k \in at : /\ IsFiniteSet(Upto(k)) /\ Cardinality(Upto(k)) \in Nat
                    /\ Cardinality(Upto(k)) <= Cardinality(at)
  BY FS_Subset, FS_CardinalityType
<1>2. Cardinality(at) \in Nat
  BY FS_CardinalityType
<1>3. Cardinality(Upto(i)) # 0
  <2>1. i \in Upto(i)
    OBVIOUS
  <2>. QED BY <1>1, <2>1, FS_EmptySet
<1>4. ASSUME NEW j \in at, i < j PROVE Cardinality(Upto(i)) < Cardinality(Upto(j))
  <2>1. Upto(i) \in SUBSET Upto(j)
    <3>1. \A m \in at : m <= i => m <= j
      <4>1. i \in Nat /\ j \in Nat /\ \A m \in at : m \in Nat
        OBVIOUS
      <4>. QED BY <1>4, <4>1
    <3>. QED BY <3>1
  <2>2. j \in Upto(j) /\ j \notin Upto(i)
    BY <1>4
  <2>. HIDE DEF Upto
  <2>3. Cardinality(Upto(i)) <= Cardinality(Upto(j))
        /\ (Cardinality(Upto(i)) = Cardinality(Upto(j)) => Upto(i) = Upto(j))
    BY <1>1, <2>1, FS_Subset, Zenon
  <2>4. Upto(i) # Upto(j)
    BY <2>2
  <2>. QED BY <1>1, <2>3, <2>4
<1>5. \A k \in at : Rank(at, k) = Cardinality(Upto(k))
  BY DEF Rank
<1>. HIDE DEF Upto
<1>. QED BY <1>1, <1>2, <1>3, <1>4, <1>5

(* The k-th place of an enumeration in order has rank k.                   *)
LEMMA RankOf ==
  ASSUME NEW at \in SUBSET Nat, NEW n \in Nat, NEW p \in [1..n -> at],
         \A i \in at : \E k \in 1..n : p[k] = i,
         \A k, l \in 1..n : k < l => p[k] < p[l]
  PROVE  /\ IsFiniteSet(at) /\ Cardinality(at) = n
         /\ \A k \in 1..n : Rank(at, p[k]) = k
<1>1. \A k, l \in 1..n : p[k] = p[l] => k = l
  <2>. SUFFICES ASSUME NEW k \in 1..n, NEW l \in 1..n, p[k] = p[l], k # l PROVE FALSE
    OBVIOUS
  <2>1. k < l \/ l < k
    OBVIOUS
  <2>2. p[k] \in Nat /\ p[l] \in Nat
    OBVIOUS
  <2>. QED BY <2>1, <2>2
<1>2. \A k, l \in 1..n : p[k] <= p[l] <=> k <= l
  <2>. SUFFICES ASSUME NEW k \in 1..n, NEW l \in 1..n
                PROVE  p[k] <= p[l] <=> k <= l
    OBVIOUS
  <2>1. p[k] \in Nat /\ p[l] \in Nat
    OBVIOUS
  <2>2. k < l \/ l < k \/ k = l
    OBVIOUS
  <2>. QED BY <2>1, <2>2
<1>3. \A k \in 0..n : IsFiniteSet(1..k) /\ Cardinality(1..k) = k
  BY FS_Interval
<1>4. p \in Bijection(1..n, at)
  BY <1>1, Fun_IsInj, Fun_IsSurj, Fun_IsBij
<1>5. IsFiniteSet(at) /\ Cardinality(at) = n
  BY <1>3, <1>4, FS_Bijection DEF ExistsBijection
<1>6. ASSUME NEW k \in 1..n PROVE Rank(at, p[k]) = k
  <2>. DEFINE B == {j \in at : j <= p[k]}
              q == [x \in 1..k |-> p[x]]
  <2>1. \A x \in 1..k : x \in 1..n /\ p[x] \in B
    BY <1>2
  <2>2. q \in [1..k -> B]
    BY <2>1
  <2>3. \A x, y \in 1..k : q[x] = q[y] => x = y
    BY <1>1, <2>1
  <2>4. \A j \in B : \E x \in 1..k : q[x] = j
    <3>. SUFFICES ASSUME NEW j \in at, j <= p[k] PROVE \E x \in 1..k : q[x] = j
      OBVIOUS
    <3>1. PICK x \in 1..n : p[x] = j
      OBVIOUS
    <3>2. x <= k
      BY <1>2, <3>1
    <3>. QED BY <3>1, <3>2
  <2>. HIDE DEF B, q
  <2>5. q \in Bijection(1..k, B)
    BY <2>2, <2>3, <2>4, Fun_IsInj, Fun_IsSurj, Fun_IsBij
  <2>6. Cardinality(B) = k
    BY <1>3, <2>5, FS_Bijection DEF ExistsBijection
  <2>. QED BY <2>6 DEF B, Rank
<1>. QED BY <1>5, <1>6

(* There is such an enumeration.                                           *)
LEMMA OnlyPicks ==
  ASSUME NEW X, NEW s \in Seq(X), NEW S
  PROVE  \E n, p : Picks(p, n, s, S)
<1>. DEFINE at == Where(s, S)
            n == Cardinality(at)
            r == [i \in at |-> Rank(at, i)]
            p == [k \in 1..n |-> CHOOSE i \in at : Rank(at, i) = k]
<1>1. Len(s) \in Nat
  BY LenProperties
<1>2. at \in SUBSET Nat /\ at \in SUBSET (1..Len(s))
  BY <1>1 DEF Where
<1>3. IsFiniteSet(at) /\ n \in Nat
  <2>1. IsFiniteSet(1..Len(s))
    BY <1>1, FS_Interval
  <2>. HIDE DEF at
  <2>2. IsFiniteSet(at)
    BY <1>2, <2>1, FS_Subset, Zenon
  <2>. QED BY <2>2, FS_CardinalityType
<1>. HIDE DEF at
<1>4. \A i \in at : Rank(at, i) \in 1..n
  BY <1>2, <1>3, RankOrder
<1>5. \A i, j \in at : i < j => Rank(at, i) < Rank(at, j)
  BY <1>2, <1>3, RankOrder
<1>6. \A i, j \in at : Rank(at, i) = Rank(at, j) => i = j
  <2>. SUFFICES ASSUME NEW i \in at, NEW j \in at, Rank(at, i) = Rank(at, j), i # j
                PROVE  FALSE
    OBVIOUS
  <2>1. i < j \/ j < i
    BY <1>2
  <2>2. Rank(at, i) \in Int /\ Rank(at, j) \in Int
    BY <1>3, <1>4
  <2>. QED BY <1>5, <2>1, <2>2
<1>7. r \in Injection(at, 1..n)
  <2>1. r \in [at -> 1..n]
    BY <1>4
  <2>. HIDE DEF n
  <2>. QED BY <1>6, <2>1, Fun_IsInj
<1>8. IsFiniteSet(1..n) /\ Cardinality(1..n) = n
  BY <1>3, FS_Interval
<1>9. r \in Surjection(at, 1..n)
  BY <1>7, <1>8, FS_Injection
<1>10. \A k \in 1..n : \E i \in at : Rank(at, i) = k
  <2>1. \A k \in 1..n : \E i \in at : r[i] = k
    <3>. HIDE DEF r, n
    <3>. QED BY <1>9, Fun_SurjectionProperties
  <2>2. \A i \in at : r[i] = Rank(at, i)
    OBVIOUS
  <2>. HIDE DEF r, n
  <2>. QED BY <2>1, <2>2
<1>11. \A k \in 1..n : p[k] \in at /\ Rank(at, p[k]) = k
  BY <1>10
<1>12. p \in [1..n -> at]
  BY <1>11
<1>. HIDE DEF n, p
<1>13. \A i \in at : \E k \in 1..n : p[k] = i
  BY <1>4, <1>6, <1>11
<1>14. ASSUME NEW k \in 1..n, NEW l \in 1..n, k < l PROVE p[k] < p[l]
  <2>1. p[k] \in Nat /\ p[l] \in Nat
    BY <1>2, <1>11
  <2>2. p[k] # p[l] /\ ~ (p[l] < p[k])
    <3>1. Rank(at, p[k]) = k /\ Rank(at, p[l]) = l /\ p[k] \in at /\ p[l] \in at
      BY <1>11
    <3>. QED BY <1>3, <1>5, <1>14, <3>1
  <2>. QED BY <2>1, <2>2
<1>15. Picks(p, n, s, S)
  BY <1>3, <1>12, <1>13, <1>14 DEF Picks, at
<1>. QED BY <1>15

(* Any such enumeration gives the list without the others.                 *)
Taken(p, n, s) == [k \in 1..n |-> s[p[k]]]

(* Only is any enumeration of the places of S that goes upwards.           *)
LEMMA OnlyIs ==
  ASSUME NEW X, NEW s \in Seq(X), NEW S, NEW n, NEW p, Picks(p, n, s, S)
  PROVE  Only(s, S) = Taken(p, n, s)
<1>. DEFINE at == Where(s, S)
<1>1. at \in SUBSET Nat
  BY LenProperties DEF Where
<1>2. /\ n \in Nat /\ p \in [1..n -> at]
      /\ \A i \in at : \E k \in 1..n : p[k] = i
      /\ \A k, l \in 1..n : k < l => p[k] < p[l]
  BY DEF Picks
<1>. HIDE DEF at
<1>3. Cardinality(at) = n /\ \A k \in 1..n : Rank(at, p[k]) = k
  BY <1>1, <1>2, RankOf
<1>4. ASSUME NEW k \in 1..n PROVE (CHOOSE i \in at : Rank(at, i) = k) = p[k]
  <2>1. p[k] \in at /\ Rank(at, p[k]) = k
    BY <1>2, <1>3
  <2>2. \A i \in at : Rank(at, i) = k => i = p[k]
    BY <1>2, <1>3, <1>4
  <2>. QED BY <2>1, <2>2
<1>5. Only(s, S) = [k \in 1..n |-> s[CHOOSE i \in at : Rank(at, i) = k]]
  BY <1>3 DEF Only, at
<1>. QED BY <1>4, <1>5 DEF Taken

(* What is left is a list of the members that are in S, all of them, and   *)
(* each as often as before.                                                *)
LEMMA OnlyHas ==
  ASSUME NEW X, NEW s \in Seq(X), NEW S
  PROVE  /\ Only(s, S) \in Seq(X \cap S)
         /\ Among(Only(s, S)) = Among(s) \cap S
<1>1. PICK n, p : Picks(p, n, s, S)
  BY OnlyPicks
<1>2. n \in Nat /\ p \in [1..n -> Where(s, S)]
  BY <1>1 DEF Picks
<1>3. \A i \in Where(s, S) : i \in 1..Len(s) /\ s[i] \in X \cap S
  BY ElementOfSeq DEF Where
<1>4. Only(s, S) = [k \in 1..n |-> s[p[k]]]
  BY <1>1, OnlyIs DEF Taken
<1>. DEFINE o == [k \in 1..n |-> s[p[k]]]
<1>5. o \in [1..n -> X \cap S]
  BY <1>2, <1>3
<1>6. o \in Seq(X \cap S) /\ Len(o) = n
  BY <1>2, <1>5
<1>7. \A x : x \in Among(o) <=> \E k \in 1..n : s[p[k]] = x
  BY <1>6 DEF Among
<1>8. \A x : x \in Among(s) \cap S <=> \E i \in Where(s, S) : s[i] = x
  BY DEF Among, Where
<1>9. \A i \in Where(s, S) : \E k \in 1..n : p[k] = i
  BY <1>1 DEF Picks
<1>. HIDE DEF o
<1>10. \A x : x \in Among(o) <=> x \in Among(s) \cap S
  BY <1>2, <1>7, <1>8, <1>9
<1>. QED BY <1>4, <1>6, <1>10 DEF o

(* Whoever is on a list once.                                              *)
Once(s) == \A i, j \in 1..Len(s) : s[i] = s[j] => i = j

(* A list of different members stays one.                                  *)
LEMMA OnlyOnce ==
  ASSUME NEW X, NEW s \in Seq(X), NEW S,
         \A i, j \in Where(s, S) : s[i] = s[j] => i = j
  PROVE  Once(Only(s, S))
<1>1. PICK n, p : Picks(p, n, s, S)
  BY OnlyPicks
<1>2. n \in Nat /\ p \in [1..n -> Where(s, S)]
      /\ \A k, l \in 1..n : k < l => p[k] < p[l]
  BY <1>1 DEF Picks
<1>3. Only(s, S) = [k \in 1..n |-> s[p[k]]]
  BY <1>1, OnlyIs DEF Taken
<1>4. Len([k \in 1..n |-> s[p[k]]]) = n
  BY <1>2
<1>5. \A k, l \in 1..n : p[k] = p[l] => k = l
  <2>. SUFFICES ASSUME NEW k \in 1..n, NEW l \in 1..n, p[k] = p[l], k # l PROVE FALSE
    OBVIOUS
  <2>1. k < l \/ l < k
    BY <1>2
  <2>2. p[k] \in Int /\ p[l] \in Int
    <3>1. \A i \in Where(s, S) : i \in Int
      BY LenProperties DEF Where
    <3>. QED BY <1>2, <3>1
  <2>. QED BY <1>2, <2>1, <2>2
<1>. QED BY <1>2, <1>3, <1>4, <1>5 DEF Once

(* What is left of two lists, one behind the other.                        *)
LEMMA OnlyConcat ==
  ASSUME NEW X, NEW s \in Seq(X), NEW t \in Seq(X), NEW S
  PROVE  Only(s \o t, S) = Only(s, S) \o Only(t, S)
<1>1. PICK n, p : Picks(p, n, s, S)
  BY OnlyPicks
<1>2. PICK m, q : Picks(q, m, t, S)
  BY OnlyPicks
<1>3. /\ n \in Nat /\ p \in [1..n -> Where(s, S)]
      /\ \A i \in Where(s, S) : \E k \in 1..n : p[k] = i
      /\ \A k, l \in 1..n : k < l => p[k] < p[l]
  BY <1>1 DEF Picks
<1>4. /\ m \in Nat /\ q \in [1..m -> Where(t, S)]
      /\ \A i \in Where(t, S) : \E k \in 1..m : q[k] = i
      /\ \A k, l \in 1..m : k < l => q[k] < q[l]
  BY <1>2 DEF Picks
<1>. DEFINE r == [k \in 1..(n + m) |-> IF k <= n THEN p[k] ELSE Len(s) + q[k - n]]
<1>5. /\ Len(s) \in Nat /\ Len(t) \in Nat /\ s \o t \in Seq(X)
      /\ Len(s \o t) = Len(s) + Len(t)
      /\ \A i \in 1..Len(s) : (s \o t)[i] = s[i]
      /\ \A i \in 1..Len(t) : (s \o t)[Len(s) + i] = t[i]
  BY LenProperties, ConcatProperties
<1>6. \A i \in Where(s, S) : i \in 1..Len(s) /\ i \in Where(s \o t, S)
  BY <1>5 DEF Where
<1>7. \A i \in Where(t, S) : i \in 1..Len(t) /\ Len(s) + i \in Where(s \o t, S)
  BY <1>5 DEF Where
<1>8. ASSUME NEW i \in Where(s \o t, S)
      PROVE  i \in Where(s, S) \/ i - Len(s) \in Where(t, S)
  <2>1. i \in 1..(Len(s) + Len(t)) /\ (s \o t)[i] \in S
    BY <1>5 DEF Where
  <2>2. CASE i <= Len(s)
    <3>1. i \in 1..Len(s)
      BY <1>5, <2>1, <2>2
    <3>. QED BY <1>5, <2>1, <3>1 DEF Where
  <2>3. CASE i > Len(s)
    <3>1. i - Len(s) \in 1..Len(t) /\ Len(s) + (i - Len(s)) = i
      BY <1>5, <2>1, <2>3
    <3>2. (s \o t)[Len(s) + (i - Len(s))] = t[i - Len(s)]
      BY <1>5, <3>1
    <3>. QED BY <2>1, <3>1, <3>2 DEF Where
  <2>. QED BY <1>5, <2>1, <2>2, <2>3
<1>9. \A k \in 1..n : k \in 1..(n + m) /\ r[k] = p[k]
  BY <1>3, <1>4
<1>10. \A k \in 1..m : n + k \in 1..(n + m) /\ r[n + k] = Len(s) + q[k]
  BY <1>3, <1>4
<1>11. \A k \in 1..(n + m) : k \in 1..n \/ \E l \in 1..m : k = n + l
  <2>. SUFFICES ASSUME NEW k \in 1..(n + m), k \notin 1..n
                PROVE  \E l \in 1..m : k = n + l
    OBVIOUS
  <2>1. k - n \in 1..m /\ k = n + (k - n)
    BY <1>3, <1>4
  <2>. QED BY <2>1
<1>12. r \in [1..(n + m) -> Where(s \o t, S)]
  <2>1. \A k \in 1..(n + m) : r[k] \in Where(s \o t, S)
    <3>. HIDE DEF r
    <3>. SUFFICES ASSUME NEW k \in 1..(n + m) PROVE r[k] \in Where(s \o t, S)
      OBVIOUS
    <3>1. CASE k \in 1..n
      <4>1. r[k] = p[k] /\ p[k] \in Where(s, S)
        BY <1>3, <1>9, <3>1
      <4>. QED BY <1>6, <4>1
    <3>2. ASSUME NEW l \in 1..m, k = n + l PROVE r[k] \in Where(s \o t, S)
      <4>1. r[k] = Len(s) + q[l] /\ q[l] \in Where(t, S)
        BY <1>4, <1>10, <3>2
      <4>. QED BY <1>7, <4>1
    <3>. QED BY <1>11, <3>1, <3>2
  <2>. QED BY <2>1
<1>13. DOMAIN r = 1..(n + m)
  OBVIOUS
<1>. HIDE DEF r
<1>14. \A i \in Where(s \o t, S) : \E k \in 1..(n + m) : r[k] = i
  <2>. SUFFICES ASSUME NEW i \in Where(s \o t, S)
                PROVE  \E k \in 1..(n + m) : r[k] = i
    OBVIOUS
  <2>1. CASE i \in Where(s, S)
    BY <1>3, <1>9, <2>1
  <2>2. CASE i - Len(s) \in Where(t, S)
    <3>1. PICK k \in 1..m : q[k] = i - Len(s)
      BY <1>4, <2>2
    <3>2. r[n + k] = Len(s) + (i - Len(s)) /\ n + k \in 1..(n + m)
      BY <1>10, <3>1
    <3>3. i \in Int
      BY <1>5 DEF Where
    <3>. QED BY <1>5, <3>2, <3>3
  <2>. QED BY <1>8, <2>1, <2>2
<1>15. ASSUME NEW k \in 1..(n + m), NEW l \in 1..(n + m), k < l
       PROVE  r[k] < r[l]
  <2>1. CASE l \in 1..n
    <3>1. k \in 1..n
      BY <1>3, <1>15, <2>1
    <3>. QED BY <1>3, <1>9, <1>15, <2>1, <3>1
  <2>2. CASE k \in 1..n /\ l \notin 1..n
    <3>1. PICK j \in 1..m : l = n + j
      BY <1>11, <2>2
    <3>2. r[k] = p[k] /\ r[l] = Len(s) + q[j]
      BY <1>9, <1>10, <2>2, <3>1
    <3>3. p[k] \in 1..Len(s) /\ q[j] \in 1..Len(t)
      BY <1>3, <1>4, <1>6, <1>7, <2>2
    <3>. QED BY <1>5, <3>2, <3>3
  <2>3. CASE k \notin 1..n /\ l \notin 1..n
    <3>1. PICK i \in 1..m : k = n + i
      BY <1>11, <2>3
    <3>2. PICK j \in 1..m : l = n + j
      BY <1>11, <2>3
    <3>3. i < j
      BY <1>3, <1>15, <3>1, <3>2
    <3>4. q[i] < q[j] /\ q[i] \in 1..Len(t) /\ q[j] \in 1..Len(t)
      BY <1>4, <1>7, <3>3
    <3>5. r[k] = Len(s) + q[i] /\ r[l] = Len(s) + q[j]
      BY <1>10, <3>1, <3>2
    <3>. QED BY <1>5, <3>4, <3>5
  <2>. QED BY <2>1, <2>2, <2>3
<1>16. n + m \in Nat
  BY <1>3, <1>4
<1>17. Picks(r, n + m, s \o t, S)
  BY <1>12, <1>14, <1>15, <1>16 DEF Picks
<1>18. Only(s \o t, S) = [k \in 1..(n + m) |-> (s \o t)[r[k]]]
  <2>1. s \o t \in Seq(X)
    BY <1>5
  <2>2. Only(s \o t, S) = Taken(r, n + m, s \o t)
    BY <1>17, <2>1, OnlyIs
  <2>. QED BY <2>2 DEF Taken
<1>. DEFINE a == [k \in 1..n |-> s[p[k]]]
            b == [k \in 1..m |-> t[q[k]]]
            c == [k \in 1..(n + m) |-> (s \o t)[r[k]]]
<1>19. Only(s, S) = a /\ Only(t, S) = b
  BY <1>1, <1>2, OnlyIs DEF Taken
<1>20. /\ a \in Seq(X) /\ Len(a) = n /\ b \in Seq(X) /\ Len(b) = m
       /\ c \in Seq(X) /\ Len(c) = n + m
  <2>1. a \in [1..n -> X]
    BY <1>3, <1>6, ElementOfSeq
  <2>2. b \in [1..m -> X]
    BY <1>4, <1>7, ElementOfSeq
  <2>3. c \in [1..(n + m) -> X]
    <3>1. \A i \in Where(s \o t, S) : (s \o t)[i] \in X
      BY <1>5, ElementOfSeq DEF Where
    <3>. QED BY <1>12, <3>1
  <2>. HIDE DEF a, b, c
  <2>. QED BY <1>3, <1>4, <1>16, <2>1, <2>2, <2>3
<1>21. \A k \in 1..n : c[k] = a[k]
  <2>1. \A k \in 1..n : p[k] \in 1..Len(s)
    BY <1>3, <1>6
  <2>. QED BY <1>5, <1>9, <2>1
<1>22. \A k \in 1..m : c[n + k] = b[k]
  <2>1. \A k \in 1..m : q[k] \in 1..Len(t)
    BY <1>4, <1>7
  <2>. QED BY <1>5, <1>10, <2>1
<1>. HIDE DEF a, b, c
<1>. DEFINE d == a \o b
<1>23. d \in Seq(X) /\ Len(d) = n + m
       /\ \A i \in 1..(n + m) : d[i] = IF i <= n THEN a[i] ELSE b[i - n]
  BY <1>20, ConcatProperties
<1>. HIDE DEF d
<1>24. \A k \in 1..(n + m) : c[k] = d[k]
  <2>. SUFFICES ASSUME NEW k \in 1..(n + m) PROVE c[k] = d[k]
    OBVIOUS
  <2>1. CASE k \in 1..n
    <3>1. k <= n
      BY <1>3, <2>1
    <3>. QED BY <1>21, <1>23, <2>1, <3>1
  <2>2. CASE k \notin 1..n
    <3>1. k - n \in 1..m /\ ~ (k <= n) /\ n + (k - n) = k
      BY <1>3, <1>4, <2>2
    <3>2. c[n + (k - n)] = b[k - n]
      BY <1>22, <3>1
    <3>3. d[k] = b[k - n]
      BY <1>23, <3>1
    <3>. QED BY <3>1, <3>2, <3>3
  <2>. QED BY <2>1, <2>2
<1>25. c = d
  BY <1>20, <1>23, <1>24, SeqEqual
<1>. QED BY <1>18, <1>19, <1>25 DEF c, d

(* Taken from what is left, as from the whole.                             *)
LEMMA OnlyOnly ==
  ASSUME NEW X, NEW s \in Seq(X), NEW S, NEW T
  PROVE  Only(Only(s, S), T) = Only(s, S \cap T)
<1>1. PICK n, p : Picks(p, n, s, S)
  BY OnlyPicks
<1>2. /\ n \in Nat /\ p \in [1..n -> Where(s, S)]
      /\ \A i \in Where(s, S) : \E k \in 1..n : p[k] = i
      /\ \A k, l \in 1..n : k < l => p[k] < p[l]
  BY <1>1 DEF Picks
<1>. DEFINE u == [k \in 1..n |-> s[p[k]]]
<1>3. Only(s, S) = u
  BY <1>1, OnlyIs DEF Taken
<1>4. u \in Seq(X) /\ Len(u) = n
  <2>1. \A i \in Where(s, S) : s[i] \in X
    BY ElementOfSeq DEF Where
  <2>2. u \in [1..n -> X]
    BY <1>2, <2>1
  <2>. HIDE DEF u
  <2>. QED BY <1>2, <2>2
<1>5. \A k \in 1..n : u[k] = s[p[k]]
  OBVIOUS
<1>. HIDE DEF u
<1>6. PICK m, q : Picks(q, m, u, T)
  BY <1>4, OnlyPicks
<1>7. /\ m \in Nat /\ q \in [1..m -> Where(u, T)]
      /\ \A i \in Where(u, T) : \E k \in 1..m : q[k] = i
      /\ \A k, l \in 1..m : k < l => q[k] < q[l]
  BY <1>6 DEF Picks
<1>8. \A i : i \in Where(u, T) <=> i \in 1..n /\ s[p[i]] \in T
  BY <1>4, <1>5 DEF Where
<1>9. \A i : i \in Where(s, S \cap T) <=> i \in Where(s, S) /\ s[i] \in T
  BY DEF Where
<1>. DEFINE r == [k \in 1..m |-> p[q[k]]]
<1>10. r \in [1..m -> Where(s, S \cap T)]
  BY <1>2, <1>7, <1>8, <1>9
<1>11. \A i \in Where(s, S \cap T) : \E k \in 1..m : r[k] = i
  BY <1>2, <1>7, <1>8, <1>9
<1>12. \A k, l \in 1..m : k < l => r[k] < r[l]
  BY <1>2, <1>7, <1>8
<1>13. Picks(r, m, s, S \cap T)
  BY <1>7, <1>10, <1>11, <1>12 DEF Picks
<1>14. Only(s, S \cap T) = [k \in 1..m |-> s[r[k]]]
  <2>. HIDE DEF r
  <2>1. Only(s, S \cap T) = Taken(r, m, s)
    BY <1>13, OnlyIs
  <2>. QED BY <2>1 DEF Taken
<1>15. Only(u, T) = [k \in 1..m |-> u[q[k]]]
  BY <1>4, <1>6, OnlyIs DEF Taken
<1>16. \A k \in 1..m : u[q[k]] = s[r[k]]
  BY <1>5, <1>7, <1>8
<1>. QED BY <1>3, <1>14, <1>15, <1>16

(* It only matters what is taken of the list's members.                    *)
LEMMA OnlySame ==
  ASSUME NEW s, NEW S, NEW T, Among(s) \cap S = Among(s) \cap T
  PROVE  Only(s, S) = Only(s, T)
<1>1. Where(s, S) = Where(s, T)
  BY DEF Among, Where
<1>. QED BY <1>1 DEF Only

(* A list that nothing is taken from.                                      *)
LEMMA OnlyAll ==
  ASSUME NEW X, NEW s \in Seq(X), NEW S, Among(s) \subseteq S
  PROVE  Only(s, S) = s
<1>. DEFINE p == [k \in 1..Len(s) |-> k]
<1>1. Len(s) \in Nat /\ s = [k \in 1..Len(s) |-> s[k]]
  BY LenProperties
<1>2. Where(s, S) = 1..Len(s)
  BY DEF Among, Where
<1>3. Picks(p, Len(s), s, S)
  BY <1>1, <1>2 DEF Picks
<1>4. Only(s, S) = [k \in 1..Len(s) |-> s[p[k]]]
  BY <1>3, OnlyIs DEF Taken
<1>5. \A k \in 1..Len(s) : p[k] = k
  OBVIOUS
<1>. HIDE DEF p
<1>. QED BY <1>1, <1>4, <1>5

(* And one that everything is taken from.                                  *)
LEMMA OnlyNone ==
  ASSUME NEW X, NEW s \in Seq(X), NEW S, Among(s) \cap S = {}
  PROVE  Only(s, S) = <<>>
<1>1. Only(s, S) \in Seq(X \cap S) /\ Among(Only(s, S)) = {}
  BY OnlyHas
<1>2. Len(Only(s, S)) \in Nat
  BY <1>1, LenProperties
<1>3. Len(Only(s, S)) = 0
  <2>. SUFFICES ASSUME Len(Only(s, S)) # 0 PROVE FALSE
    OBVIOUS
  <2>1. 1 \in 1..Len(Only(s, S))
    BY <1>2
  <2>. QED BY <1>1, <2>1 DEF Among
<1>. QED BY <1>1, <1>3, EmptySeq

(* What is on two lists, one behind the other, and on a list with one more.*)
LEMMA AmongConcat ==
  ASSUME NEW X, NEW s \in Seq(X), NEW t \in Seq(X)
  PROVE  Among(s \o t) = Among(s) \cup Among(t)
<1>1. /\ Len(s) \in Nat /\ Len(t) \in Nat /\ Len(s \o t) = Len(s) + Len(t)
      /\ \A i \in 1..Len(s) : i \in 1..Len(s \o t) /\ (s \o t)[i] = s[i]
      /\ \A i \in 1..Len(t) : Len(s) + i \in 1..Len(s \o t)
                              /\ (s \o t)[Len(s) + i] = t[i]
  BY LenProperties, ConcatProperties
<1>2. \A k \in 1..Len(s \o t) : k \in 1..Len(s) \/ \E i \in 1..Len(t) : k = Len(s) + i
  <2>. SUFFICES ASSUME NEW k \in 1..Len(s \o t), k \notin 1..Len(s)
                PROVE  \E i \in 1..Len(t) : k = Len(s) + i
    OBVIOUS
  <2>1. k - Len(s) \in 1..Len(t) /\ k = Len(s) + (k - Len(s))
    BY <1>1
  <2>. QED BY <2>1
<1>3. Among(s \o t) \subseteq Among(s) \cup Among(t)
  BY <1>1, <1>2 DEF Among
<1>4. Among(s) \subseteq Among(s \o t) /\ Among(t) \subseteq Among(s \o t)
  BY <1>1 DEF Among
<1>. QED BY <1>3, <1>4

(* Only of a list with one element more.                                   *)
LEMMA OnlyOne ==
  ASSUME NEW X, NEW s \in Seq(X), NEW x \in X, NEW S
  PROVE  /\ Among(Append(s, x)) = Among(s) \cup {x}
         /\ Only(Append(s, x), S) =
              IF x \in S THEN Append(Only(s, S), x) ELSE Only(s, S)
<1>1. Append(s, x) = s \o <<x>> /\ <<x>> \in Seq(X)
  BY AppendIsConcat
<1>2. Among(<<x>>) = {x}
  BY DEF Among
<1>3. Only(Append(s, x), S) = Only(s, S) \o Only(<<x>>, S)
      /\ Among(Append(s, x)) = Among(s) \cup {x}
  <2>. DEFINE t == <<x>>
  <2>1. t \in Seq(X) /\ Append(s, x) = s \o t /\ Among(t) = {x}
    BY <1>1, <1>2
  <2>. HIDE DEF t
  <2>2. Only(s \o t, S) = Only(s, S) \o Only(t, S)
    BY <2>1, OnlyConcat
  <2>3. Among(s \o t) = Among(s) \cup Among(t)
    BY <2>1, AmongConcat
  <2>. QED BY <2>1, <2>2, <2>3 DEF t
<1>4. Only(s, S) \in Seq(X \cap S)
  BY OnlyHas
<1>5. CASE x \in S
  <2>1. Only(<<x>>, S) = <<x>>
    BY <1>1, <1>2, <1>5, OnlyAll
  <2>2. Append(Only(s, S), x) = Only(s, S) \o <<x>>
    <3>1. x \in X \cap S
      BY <1>5
    <3>. QED BY <1>4, <3>1, AppendIsConcat
  <2>. QED BY <1>3, <1>5, <2>1, <2>2
<1>6. CASE x \notin S
  <2>1. Only(<<x>>, S) = <<>>
    <3>1. Among(<<x>>) \cap S = {}
      BY <1>2, <1>6
    <3>. QED BY <1>1, <3>1, OnlyNone
  <2>2. Only(s, S) \o <<>> = Only(s, S)
    BY <1>4, ConcatEmptySeq
  <2>. QED BY <1>3, <1>6, <2>1, <2>2
<1>. QED BY <1>5, <1>6

(* Different members on each of two lists that have none in common.        *)
LEMMA OnceConcat ==
  ASSUME NEW X, NEW s \in Seq(X), NEW t \in Seq(X), Once(s), Once(t),
         Among(s) \cap Among(t) = {}
  PROVE  Once(s \o t)
<1>. DEFINE d == s \o t
<1>1. /\ Len(s) \in Nat /\ Len(t) \in Nat /\ Len(d) = Len(s) + Len(t)
      /\ \A i \in 1..(Len(s) + Len(t)) : d[i] = IF i <= Len(s) THEN s[i] ELSE t[i - Len(s)]
  BY LenProperties, ConcatProperties
<1>. HIDE DEF d
<1>2. \A i \in 1..Len(d) : \/ i \in 1..Len(s) /\ d[i] = s[i]
                           \/ i - Len(s) \in 1..Len(t) /\ d[i] = t[i - Len(s)]
  BY <1>1
<1>3. \A i \in 1..Len(s), j \in 1..Len(t) : s[i] # t[j]
  BY DEF Among
<1>4. ASSUME NEW i \in 1..Len(d), NEW j \in 1..Len(d), d[i] = d[j] PROVE i = j
  <2>1. CASE i \in 1..Len(s) /\ d[i] = s[i]
    <3>1. CASE j \in 1..Len(s) /\ d[j] = s[j]
      BY <1>4, <2>1, <3>1 DEF Once
    <3>2. CASE j - Len(s) \in 1..Len(t) /\ d[j] = t[j - Len(s)]
      BY <1>3, <1>4, <2>1, <3>2
    <3>. QED BY <1>2, <3>1, <3>2
  <2>2. CASE i - Len(s) \in 1..Len(t) /\ d[i] = t[i - Len(s)]
    <3>1. CASE j \in 1..Len(s) /\ d[j] = s[j]
      BY <1>3, <1>4, <2>2, <3>1
    <3>2. CASE j - Len(s) \in 1..Len(t) /\ d[j] = t[j - Len(s)]
      <4>1. i - Len(s) = j - Len(s)
        BY <1>4, <2>2, <3>2 DEF Once
      <4>. QED BY <1>1, <4>1
    <3>. QED BY <1>2, <3>1, <3>2
  <2>. QED BY <1>2, <2>1, <2>2
<1>. QED BY <1>4 DEF Once, d

-----------------------------------------------------------------------------
(* The cap.                                                               *)

(* A process that runs counts at least what is on disk, so that a line it  *)
(* finds room for has room; one that died may have written a part of a     *)
(* line it had not counted, but only where the whole would have fit.       *)
Sizes ==
  /\ live.bytes \in Nat /\ sending.bytes \in Nat /\ size \in Nat
  /\ live.bytes + sending.bytes <= QueueCap
  /\ phase # "down" => live.bytes + sending.bytes <= size /\ size <= QueueCap

(* Whoever waits for an answer has a process to wait in.                   *)
Waiting ==
  /\ phase # "up" => carried = {}
  /\ phase \in {"closing", "down"} => todo = <<>>

(* A mount that starts: nothing spooled, nothing under way.                *)
LEMMA SizesInit == Init => Sizes /\ Waiting
BY AuditAssumption DEF Init, Sizes, Waiting, NoFile

(* A line is appended, or a part of it, where a whole one fits.            *)
LEMMA SpooledFits ==
  ASSUME NEW e, Sizes, phase # "down", sending' = sending, phase' = phase,
         Drop(e) \/ Spool(e) \/ DiskFull(e)
  PROVE  Sizes'
<1>1. CASE Drop(e)
  BY <1>1 DEF Drop, Sizes
<1>2. CASE Spool(e)
  <2>1. live'.bytes = live.bytes + Line
    BY <1>2 DEF Spool, Written
  <2>2. size' = size + Line /\ ~ (size + Line > QueueCap)
    BY <1>2 DEF Spool, Full
  <2>. QED BY <2>1, <2>2, AuditAssumption DEF Sizes
<1>3. CASE DiskFull(e)
  <2>1. ~ (size + Line > QueueCap)
    BY <1>3 DEF DiskFull, Full
  <2>2. CASE live' = Cut(live) /\ size' = size + Line
    <3>1. live'.bytes = live.bytes + Part
      BY <2>2 DEF Cut
    <3>. QED BY <2>1, <2>2, <3>1, AuditAssumption DEF Sizes
  <2>3. CASE UNCHANGED <<live, size>>
    BY <2>3 DEF Sizes
  <2>. QED BY <1>3, <2>2, <2>3 DEF DiskFull
<1>. QED BY <1>1, <1>2, <1>3

(* Only a mount that is up is told of what it reads, and only one that     *)
(* runs has a batch to send.                                               *)
LEMMA WaitingStep == Waiting /\ [Next]_vars => Waiting'
<1>. SUFFICES ASSUME Waiting, [Next]_vars PROVE Waiting'
  OBVIOUS
<1>1. ASSUME NEW e \in Events, Record(e) \/ Fetch(e) \/ Fetched(e) \/ FetchFails(e)
      PROVE  Waiting'
  BY <1>1 DEF Waiting, Record, Fetch, Fetched, FetchFails, Mint
<1>2. ASSUME Flush \/ Shipped \/ ShipFails PROVE Waiting'
  BY <1>2 DEF Waiting, Flush, Shipped, ShipFails, GiveUp
<1>3. ASSUME NEW b \in late, Late(b) PROVE Waiting'
  BY <1>3 DEF Waiting, Late, processVars
<1>4. ASSUME Unmount \/ Exit \/ Killed \/ Mounted PROVE Waiting'
  BY <1>4 DEF Waiting, Unmount, Exit, Killed, Mounted, GiveUp
<1>5. ASSUME UNCHANGED vars PROVE Waiting'
  BY <1>5 DEF Waiting, vars, processVars
<1>. QED BY <1>1, <1>2, <1>3, <1>4, <1>5 DEF Next

(* Every step keeps size at least what is in the files, as far as the cap  *)
(* goes by it.                                                             *)
LEMMA SizesStep == Sizes /\ Waiting /\ [Next]_vars => Sizes'
<1>. SUFFICES ASSUME Sizes, Waiting, [Next]_vars PROVE Sizes'
  OBVIOUS
<1>1. ASSUME NEW e \in Events, Record(e) PROVE Sizes'
  BY <1>1, SpooledFits DEF Record, Mint
<1>2. ASSUME NEW e \in Events, Fetch(e) PROVE Sizes'
  BY <1>2 DEF Fetch, diskVars, Sizes
<1>3. ASSUME NEW e \in Events, Fetched(e) PROVE Sizes'
  BY <1>3 DEF Fetched, diskVars, Sizes
<1>4. ASSUME NEW e \in Events, FetchFails(e) PROVE Sizes'
  BY <1>4, SpooledFits DEF FetchFails, Waiting
<1>5. ASSUME Flush PROVE Sizes'
  <2>. DEFINE file == ToSend
              left == IF file = sending THEN live ELSE NoFile
  <2>1. phase # "down" /\ phase' # "down" /\ file # NoFile /\ live' = left
    BY <1>5 DEF Flush
  <2>2. left.bytes \in Nat /\ file.bytes \in Nat
        /\ left.bytes + file.bytes <= live.bytes + sending.bytes
    BY <2>1 DEF ToSend, NoFile, Sizes
  <2>3. \/ sending' = NoFile /\ size' = left.bytes
        \/ sending' = file /\ size' = size
    BY <1>5 DEF Flush, Unlinked
  <2>. HIDE DEF file, left
  <2>4. CASE sending' = NoFile /\ size' = left.bytes
    BY <2>1, <2>2, <2>4, AuditAssumption DEF Sizes, NoFile
  <2>5. CASE sending' = file /\ size' = size
    BY <2>1, <2>2, <2>5, AuditAssumption DEF Sizes
  <2>. QED BY <2>3, <2>4, <2>5
<1>6. ASSUME Shipped PROVE Sizes'
  <2>1. live' = live /\ phase' = phase /\ phase # "down"
    BY <1>6 DEF Shipped, Waiting
  <2>2. \/ sending' = NoFile /\ size' = live.bytes
        \/ sending' = sending /\ size' = size
    BY <1>6 DEF Shipped, Unlinked
  <2>. QED BY <2>1, <2>2, AuditAssumption DEF Sizes, NoFile
<1>7. ASSUME ShipFails PROVE Sizes'
  BY <1>7 DEF ShipFails, diskVars, Sizes
<1>8. ASSUME NEW b \in late, Late(b) PROVE Sizes'
  BY <1>8 DEF Late, diskVars, processVars, Sizes
<1>9. ASSUME Unmount PROVE Sizes'
  BY <1>9 DEF Unmount, diskVars, Sizes
<1>10. ASSUME Exit PROVE Sizes'
  BY <1>10 DEF Exit, diskVars, Sizes
<1>11. ASSUME Killed PROVE Sizes'
  <2>1. phase # "down" /\ phase' = "down" /\ sending' = sending /\ size' = size
    BY <1>11 DEF Killed
  <2>2. \/ live' = live
        \/ live'.bytes = live.bytes + Part /\ ~ (size + Line > QueueCap)
    BY <1>11 DEF Killed, Cut, Full
  <2>. QED BY <2>1, <2>2, AuditAssumption DEF Sizes
<1>12. ASSUME Mounted PROVE Sizes'
  BY <1>12 DEF Mounted, diskVars, Seed, Sizes
<1>13. ASSUME UNCHANGED vars PROVE Sizes'
  BY <1>13 DEF vars, diskVars, processVars, Sizes
<1>. QED BY <1>1, <1>2, <1>3, <1>4, <1>5, <1>6, <1>7, <1>8, <1>9, <1>10, <1>11,
            <1>12, <1>13 DEF Next

(* The two files together stay under the cap, over any number of restarts. *)
THEOREM CapAlwaysHolds == Spec => []CapHolds
<1>1. Init => Sizes /\ Waiting
  BY SizesInit
<1>2. Sizes /\ Waiting /\ [Next]_vars => (Sizes /\ Waiting)'
  BY SizesStep, WaitingStep
<1>3. Sizes => CapHolds
  BY DEF Sizes, CapHolds
<1>. QED BY <1>1, <1>2, <1>3, PTL DEF Spec

-----------------------------------------------------------------------------
(* Files and batches.                                                      *)

FileLines == Events \cup {Torn, Unreadable}

(* What a file has to ship: the events that are on its lines.              *)
LEMMA ParsedHas ==
  ASSUME NEW f, f.lines \in Seq(FileLines)
  PROVE  Parsed(f) \in Seq(Events) /\ Among(Parsed(f)) = Among(f.lines) \cap Events
<1>1. Only(f.lines, Events) \in Seq(FileLines \cap Events)
      /\ Among(Only(f.lines, Events)) = Among(f.lines) \cap Events
  BY OnlyHas
<1>2. FileLines \cap Events = Events
  BY DEF FileLines
<1>. QED BY <1>1, <1>2 DEF Parsed

(* A line that is written adds its event, unless it comes behind a torn    *)
(* one; a part of a line adds nothing.                                     *)
LEMMA WrittenHas ==
  ASSUME NEW f, f.lines \in Seq(FileLines), f.bytes \in Nat, NEW e \in Events
  PROVE  /\ Written(f, e).lines \in Seq(FileLines) /\ Written(f, e).bytes \in Nat
         /\ Parsed(Written(f, e)) = IF Readable(f) THEN Append(Parsed(f), e)
                                    ELSE Parsed(f)
<1>1. e \in FileLines /\ Unreadable \in FileLines /\ Unreadable \notin Events
  BY AuditAssumption DEF FileLines
<1>2. Line \in Nat
  BY AuditAssumption
<1>3. \A x \in FileLines : Only(Append(f.lines, x), Events)
        = IF x \in Events THEN Append(Only(f.lines, Events), x)
          ELSE Only(f.lines, Events)
  BY OnlyOne
<1>4. \A x \in FileLines : Append(f.lines, x) \in Seq(FileLines)
  OBVIOUS
<1>5. CASE Readable(f)
  <2>1. Written(f, e) = [lines |-> Append(f.lines, e), bytes |-> f.bytes + Line]
    BY <1>5 DEF Written
  <2>2. /\ Written(f, e).lines = Append(f.lines, e)
        /\ Written(f, e).bytes = f.bytes + Line
    BY <2>1
  <2>3. Parsed(Written(f, e)) = Append(Parsed(f), e)
    BY <1>1, <1>3, <2>2 DEF Parsed
  <2>4. Append(f.lines, e) \in Seq(FileLines)
    BY <1>1, <1>4
  <2>. QED BY <1>2, <1>5, <2>2, <2>3, <2>4
<1>6. CASE ~ Readable(f)
  <2>1. Written(f, e) = [lines |-> Append(f.lines, Unreadable), bytes |-> f.bytes + Line]
    BY <1>6 DEF Written
  <2>2. /\ Written(f, e).lines = Append(f.lines, Unreadable)
        /\ Written(f, e).bytes = f.bytes + Line
    BY <2>1
  <2>3. Parsed(Written(f, e)) = Parsed(f)
    BY <1>1, <1>3, <2>2 DEF Parsed
  <2>4. Append(f.lines, Unreadable) \in Seq(FileLines)
    BY <1>1, <1>4
  <2>. QED BY <1>2, <1>6, <2>2, <2>3, <2>4
<1>. QED BY <1>5, <1>6

(* A part of a line.                                                       *)
LEMMA CutHas ==
  ASSUME NEW f, f.lines \in Seq(FileLines), f.bytes \in Nat
  PROVE  /\ Cut(f).lines \in Seq(FileLines) /\ Cut(f).bytes \in Nat
         /\ Parsed(Cut(f)) = Parsed(f)
<1>1. Torn \in FileLines /\ Torn \notin Events /\ Part \in Nat
  BY AuditAssumption DEF FileLines
<1>2. Only(Append(f.lines, Torn), Events) = Only(f.lines, Events)
  BY <1>1, OnlyOne
<1>3. Append(f.lines, Torn) \in Seq(FileLines)
  BY <1>1
<1>4. Cut(f).lines = Append(f.lines, Torn) /\ Cut(f).bytes = f.bytes + Part
  BY DEF Cut
<1>. QED BY <1>1, <1>2, <1>3, <1>4 DEF Parsed

(* A file that is not there.                                               *)
LEMMA NoFileHas ==
  /\ NoFile.lines \in Seq(FileLines) /\ NoFile.bytes \in Nat
  /\ Parsed(NoFile) = <<>>
<1>1. NoFile.lines = <<>> /\ NoFile.bytes = 0
  BY DEF NoFile
<1>2. <<>> \in Seq(FileLines) /\ Among(<<>>) = {}
  BY DEF Among
<1>3. Only(<<>>, Events) = <<>>
  <2>1. Among(<<>>) \cap Events = {}
    BY <1>2
  <2>. QED BY <1>2, <2>1, OnlyNone
<1>. QED BY <1>1, <1>2, <1>3 DEF Parsed

(* A batch, and what is behind it.                                         *)
LEMMA BatchThenRest ==
  ASSUME NEW s \in Seq(Events)
  PROVE  /\ Batch(s) \in Seq(Events) /\ Rest(s) \in Seq(Events)
         /\ s = Batch(s) \o Rest(s)
<1>1. Len(s) \in Nat /\ \A i \in 1..Len(s) : s[i] \in Events
  BY LenProperties, ElementOfSeq
<1>2. BatchEvents \in Nat \ {0}
  BY AuditAssumption
<1>3. CASE BatchEvents < Len(s)
  <2>1. Smaller(BatchEvents, Len(s)) = BatchEvents
    BY <1>3 DEF Smaller
  <2>2. SubSeq(s, 1, BatchEvents) \in Seq(Events)
        /\ SubSeq(s, BatchEvents + 1, Len(s)) \in Seq(Events)
    <3>1. \A i \in 1..BatchEvents : s[i] \in Events
      BY <1>1, <1>2, <1>3
    <3>2. \A i \in (BatchEvents + 1)..Len(s) : s[i] \in Events
      BY <1>1, <1>2
    <3>. QED BY <1>1, <1>2, <3>1, <3>2, SubSeqProperties
  <2>3. SubSeq(s, 1, BatchEvents) \o SubSeq(s, BatchEvents + 1, Len(s))
          = SubSeq(s, 1, Len(s))
    <3>1. /\ 1 \in 1..(Len(s) + 1) /\ BatchEvents \in (1 - 1)..Len(s)
          /\ Len(s) \in BatchEvents..Len(s)
      BY <1>1, <1>2, <1>3
    <3>. QED BY <3>1, ConcatAdjacentSubSeq
  <2>4. SubSeq(s, 1, Len(s)) = s
    BY SubSeqFull
  <2>. QED BY <2>1, <2>2, <2>3, <2>4 DEF Batch, Rest
<1>4. CASE ~ (BatchEvents < Len(s))
  <2>1. Smaller(BatchEvents, Len(s)) = Len(s)
    BY <1>4 DEF Smaller
  <2>2. SubSeq(s, 1, Len(s)) = s
    BY SubSeqFull
  <2>3. SubSeq(s, BatchEvents + 1, Len(s)) = <<>>
    BY <1>1, <1>2, <1>4, SubSeqEmpty
  <2>4. s \o <<>> = s /\ <<>> \in Seq(Events)
    BY ConcatEmptySeq
  <2>. QED BY <2>1, <2>2, <2>3, <2>4 DEF Batch, Rest
<1>. QED BY <1>3, <1>4

(* What the server has once it was given a batch: the trail with whatever  *)
(* of it is new behind, and everything once.                               *)
LEMMA RecordedHas ==
  ASSUME trail \in Seq(Events), NEW b \in Seq(Events)
  PROVE  /\ Recorded(b) \in Seq(Events)
         /\ Among(Recorded(b)) = Among(trail) \cup Among(b)
         /\ Once(trail) /\ (Once(b) \/ Among(b) \subseteq Among(trail)) => Once(Recorded(b))
<1>. DEFINE new == Only(b, Events \ Among(trail))
<1>1. new \in Seq(Events \cap (Events \ Among(trail)))
      /\ Among(new) = Among(b) \cap (Events \ Among(trail))
  BY OnlyHas
<1>2. new \in Seq(Events)
  BY <1>1, SeqMonotonic
<1>3. Among(b) \subseteq Events
  BY ElementOfSeq DEF Among
<1>4. Recorded(b) = trail \o new
  BY DEF Recorded
<1>5. ASSUME Once(b) \/ Among(b) \subseteq Among(trail) PROVE Once(new)
  <2>1. CASE Once(b)
    <3>1. \A i, j \in Where(b, Events \ Among(trail)) : b[i] = b[j] => i = j
      BY <2>1 DEF Once, Where
    <3>. QED BY <3>1, OnlyOnce
  <2>2. CASE Among(b) \subseteq Among(trail)
    <3>1. \A i, j \in Where(b, Events \ Among(trail)) : b[i] = b[j] => i = j
      BY <2>2 DEF Among, Where
    <3>. QED BY <3>1, OnlyOnce
  <2>. QED BY <1>5, <2>1, <2>2
<1>. HIDE DEF new
<1>6. Recorded(b) \in Seq(Events)
      /\ Among(Recorded(b)) = Among(trail) \cup Among(new)
  BY <1>2, <1>4, AmongConcat, ConcatProperties
<1>7. Among(Recorded(b)) = Among(trail) \cup Among(b)
  BY <1>1, <1>3, <1>6
<1>8. ASSUME Once(trail), Once(new) PROVE Once(Recorded(b))
  <2>1. Among(trail) \cap Among(new) = {}
    BY <1>1
  <2>. QED BY <1>2, <1>4, <1>8, <2>1, OnceConcat
<1>. QED BY <1>5, <1>6, <1>7, <1>8

-----------------------------------------------------------------------------
(* Types, and what the steps do to the events in the two files.            *)

Sent    == Parsed(sending)
Spooled == Parsed(live)

(* An event comes to the end of the live file, or is lost.                 *)
Put(e) == \/ Spooled' = Append(Spooled, e) /\ lost' = lost
          \/ Spooled' = Spooled /\ lost' = lost \cup {e}

(* What queue() makes of an event.                                         *)
LEMMA PutEffect ==
  ASSUME TypeOK, NEW e \in Events, Drop(e) \/ Spool(e) \/ DiskFull(e)
  PROVE  /\ live'.lines \in Seq(FileLines) /\ live'.bytes \in Nat
         /\ size' \in Nat /\ dropped' \in Nat /\ lost' \subseteq Events
         /\ Put(e)
<1>1. live.lines \in Seq(FileLines) /\ live.bytes \in Nat
  BY DEF TypeOK, FileLines
<1>2. size \in Nat /\ dropped \in Nat /\ lost \subseteq Events /\ Line \in Nat
  BY AuditAssumption DEF TypeOK
<1>3. CASE Drop(e)
  BY <1>1, <1>2, <1>3 DEF Drop, Lose, Put, Spooled
<1>4. CASE Spool(e)
  <2>1. live' = Written(live, e) /\ size' = size + Line /\ dropped' = dropped
        /\ lost' = lost \cup (IF Readable(live) THEN {} ELSE {e})
    BY <1>4 DEF Spool, Lose
  <2>2. /\ Written(live, e).lines \in Seq(FileLines) /\ Written(live, e).bytes \in Nat
        /\ Parsed(Written(live, e)) = IF Readable(live) THEN Append(Parsed(live), e)
                                      ELSE Parsed(live)
    BY <1>1, WrittenHas
  <2>3. Put(e)
    BY <2>1, <2>2 DEF Put, Spooled
  <2>. QED BY <1>2, <2>1, <2>2, <2>3
<1>5. CASE DiskFull(e)
  <2>1. lost' = lost \cup {e} /\ dropped' = dropped
        /\ \/ live' = Cut(live) /\ size' = size + Line
           \/ live' = live /\ size' = size
    BY <1>5 DEF DiskFull, Lose
  <2>2. /\ Cut(live).lines \in Seq(FileLines) /\ Cut(live).bytes \in Nat
        /\ Parsed(Cut(live)) = Parsed(live)
    BY <1>1, CutHas
  <2>3. Put(e)
    BY <2>1, <2>2 DEF Put, Spooled
  <2>. QED BY <1>1, <1>2, <2>1, <2>2, <2>3
<1>. QED BY <1>3, <1>4, <1>5

(* flush() takes what it finds, in the order in which it was spooled.      *)
LEMMA FlushEffect ==
  ASSUME TypeOK, Flush
  PROVE  /\ live'.lines \in Seq(FileLines) /\ live'.bytes \in Nat
         /\ sending'.lines \in Seq(FileLines) /\ sending'.bytes \in Nat
         /\ size' \in Nat /\ todo' \in Seq(Events)
         /\ todo' = Sent'
         /\ \/ Sent' = Sent /\ Spooled' = Spooled
            \/ Sent = <<>> /\ Sent' = Spooled /\ Spooled' = <<>>
<1>1. /\ live.lines \in Seq(FileLines) /\ live.bytes \in Nat
      /\ sending.lines \in Seq(FileLines) /\ sending.bytes \in Nat /\ size \in Nat
  BY DEF TypeOK, FileLines
<1>2. Parsed(live) \in Seq(Events) /\ Parsed(sending) \in Seq(Events)
  BY <1>1, ParsedHas
<1>3. CASE sending # NoFile
  <2>1. ToSend = sending
    BY <1>3 DEF ToSend
  <2>2. /\ live' = live /\ todo' = Parsed(sending)
        /\ IF Parsed(sending) = <<>> THEN sending' = NoFile /\ size' = live.bytes
           ELSE sending' = sending /\ size' = size
    BY <2>1 DEF Flush, Unlinked
  <2>3. Parsed(sending') = Parsed(sending)
    BY <2>2, NoFileHas
  <2>. QED BY <1>1, <1>2, <2>2, <2>3, NoFileHas DEF Sent, Spooled
<1>4. CASE sending = NoFile
  <2>1. ToSend = live /\ live # NoFile
    BY <1>4 DEF Flush, ToSend
  <2>2. /\ live' = NoFile /\ todo' = Parsed(live)
        /\ IF Parsed(live) = <<>> THEN sending' = NoFile /\ size' = NoFile.bytes
           ELSE sending' = live /\ size' = size
    BY <1>4, <2>1 DEF Flush, Unlinked
  <2>3. Parsed(sending) = <<>> /\ Parsed(sending') = Parsed(live) /\ Parsed(live') = <<>>
    BY <1>4, <2>2, NoFileHas
  <2>. QED BY <1>1, <1>2, <2>2, <2>3, NoFileHas DEF Sent, Spooled
<1>. QED BY <1>3, <1>4

(* An answer: the rows are there, and the file goes with its last batch.   *)
LEMMA ShippedEffect ==
  ASSUME TypeOK, Shipped
  PROVE  /\ sending'.lines \in Seq(FileLines) /\ sending'.bytes \in Nat
         /\ size' \in Nat /\ dropped' \in Nat
         /\ todo' = Rest(todo) /\ trail' = Recorded(Batch(todo))
         /\ Sent' = (IF Rest(todo) = <<>> THEN <<>> ELSE Sent)
         /\ Spooled' = Spooled
<1>1. /\ live.bytes \in Nat /\ dropped \in Nat
      /\ sending.lines \in Seq(FileLines) /\ sending.bytes \in Nat /\ size \in Nat
  BY DEF TypeOK, FileLines
<1>2. /\ todo' = Rest(todo) /\ trail' = Recorded(Batch(todo)) /\ live' = live
      /\ IF Rest(todo) = <<>> THEN sending' = NoFile /\ size' = live.bytes /\ dropped' = 0
         ELSE sending' = sending /\ size' = size /\ dropped' = dropped
  BY DEF Shipped, Unlinked
<1>3. CASE Rest(todo) = <<>>
  BY <1>1, <1>2, <1>3, NoFileHas DEF Sent, Spooled
<1>4. CASE Rest(todo) # <<>>
  BY <1>1, <1>2, <1>4 DEF Sent, Spooled
<1>. QED BY <1>3, <1>4

(* A crash leaves the events of both files.                                *)
LEMMA KilledEffect ==
  ASSUME TypeOK, Killed
  PROVE  /\ live'.lines \in Seq(FileLines) /\ live'.bytes \in Nat
         /\ Sent' = Sent /\ Spooled' = Spooled
<1>1. live.lines \in Seq(FileLines) /\ live.bytes \in Nat
  BY DEF TypeOK, FileLines
<1>2. sending' = sending /\ (live' = live \/ live' = Cut(live))
  BY DEF Killed
<1>. QED BY <1>1, <1>2, CutHas DEF Sent, Spooled

(* What a request that failed may yet bring.                               *)
LEMMA GivenUp ==
  ASSUME TypeOK, NEW l, l \in late \cup {<<e>> : e \in carried} \cup {Batch(todo)}
  PROVE  l \in Seq(Events)
<1>1. late \subseteq Seq(Events) /\ carried \subseteq Events /\ todo \in Seq(Events)
  BY DEF TypeOK
<1>2. \A e \in carried : <<e>> \in Seq(Events)
  BY <1>1
<1>. QED BY <1>1, <1>2, BatchThenRest

(* A mount that starts.                                                    *)
LEMMA TypeInit == Init => TypeOK
<1>1. <<>> \in Seq(Events)
  OBVIOUS
<1>2. NoFile.lines \in Seq(FileLines) /\ NoFile.bytes \in Nat
  BY NoFileHas
<1>. QED BY <1>1, <1>2 DEF Init, TypeOK, FileLines

(* Every step keeps the types.                                             *)
LEMMA TypeStep == TypeOK /\ [Next]_vars => TypeOK'
<1>. SUFFICES ASSUME TypeOK, [Next]_vars PROVE TypeOK'
  OBVIOUS
<1>0. /\ live.lines \in Seq(FileLines) /\ live.bytes \in Nat
      /\ sending.lines \in Seq(FileLines) /\ sending.bytes \in Nat
      /\ trail \in Seq(Events) /\ todo \in Seq(Events) /\ late \subseteq Seq(Events)
      /\ phase \in {"up", "closing", "draining", "down"}
      /\ size \in Nat /\ dropped \in Nat
      /\ carried \subseteq Events /\ lost \subseteq Events
      /\ minted \in Nat /\ faults \in Nat /\ stops \in Nat
  BY DEF TypeOK, FileLines
<1>1. \A b \in Seq(Events) : Recorded(b) \in Seq(Events)
  BY <1>0, RecordedHas
<1>2. \A e \in Events : <<e>> \in Seq(Events) /\ e \in Nat
  BY AuditAssumption
<1>3. Batch(todo) \in Seq(Events) /\ Rest(todo) \in Seq(Events) /\ <<>> \in Seq(Events)
  BY <1>0, BatchThenRest
<1>4. faults + 1 \in Nat /\ stops + 1 \in Nat
  BY <1>0
<1>5. ASSUME NEW e \in Events, Record(e) PROVE TypeOK'
  <2>1. /\ live'.lines \in Seq(FileLines) /\ live'.bytes \in Nat
        /\ size' \in Nat /\ dropped' \in Nat /\ lost' \subseteq Events
    BY <1>5, PutEffect DEF Record
  <2>2. /\ sending' = sending /\ trail' = trail /\ late' = late /\ phase' = phase
        /\ todo' = todo /\ carried' = carried /\ stops' = stops /\ minted' = e
        /\ (faults' = faults \/ faults' = faults + 1)
    BY <1>5 DEF Record, Mint, Fault, serverVars
  <2>. QED BY <1>0, <1>2, <1>4, <2>1, <2>2 DEF TypeOK, FileLines
<1>6. ASSUME NEW e \in Events, Fetch(e) PROVE TypeOK'
  <2>1. /\ live' = live /\ sending' = sending /\ trail' = trail /\ late' = late
        /\ phase' = phase /\ size' = size /\ dropped' = dropped /\ todo' = todo
        /\ carried' = carried \cup {e} /\ stops' = stops /\ minted' = e
        /\ faults' = faults /\ lost' = lost
    BY <1>6 DEF Fetch, Mint, diskVars, serverVars
  <2>. QED BY <1>0, <1>2, <2>1 DEF TypeOK, FileLines
<1>7. ASSUME NEW e \in Events, Fetched(e) PROVE TypeOK'
  <2>1. /\ live' = live /\ sending' = sending /\ trail' = Recorded(<<e>>) /\ late' = late
        /\ phase' = phase /\ size' = size /\ dropped' = dropped /\ todo' = todo
        /\ carried' = carried \ {e} /\ stops' = stops /\ minted' = minted
        /\ faults' = faults /\ lost' = lost
    BY <1>7 DEF Fetched, diskVars, boundVars
  <2>. QED BY <1>0, <1>1, <1>2, <2>1 DEF TypeOK, FileLines
<1>8. ASSUME NEW e \in Events, FetchFails(e) PROVE TypeOK'
  <2>1. /\ live'.lines \in Seq(FileLines) /\ live'.bytes \in Nat
        /\ size' \in Nat /\ dropped' \in Nat /\ lost' \subseteq Events
    BY <1>8, PutEffect DEF FetchFails
  <2>2. /\ sending' = sending /\ trail' = trail /\ late' = late \cup {<<e>>}
        /\ phase' = phase /\ todo' = todo /\ carried' = carried \ {e}
        /\ stops' = stops /\ minted' = minted /\ faults' = faults + 1
    BY <1>8 DEF FetchFails, Fault
  <2>. QED BY <1>0, <1>2, <1>4, <2>1, <2>2 DEF TypeOK, FileLines
<1>9. ASSUME Flush PROVE TypeOK'
  <2>1. /\ live'.lines \in Seq(FileLines) /\ live'.bytes \in Nat
        /\ sending'.lines \in Seq(FileLines) /\ sending'.bytes \in Nat
        /\ size' \in Nat /\ todo' \in Seq(Events)
    BY <1>9, FlushEffect
  <2>2. /\ trail' = trail /\ late' = late
        /\ phase' \in {"up", "closing", "draining", "down"}
        /\ dropped' = dropped /\ carried' = carried /\ stops' = stops
        /\ minted' = minted /\ faults' = faults /\ lost' = lost
    BY <1>9 DEF Flush, serverVars, boundVars
  <2>. QED BY <1>0, <2>1, <2>2 DEF TypeOK, FileLines
<1>10. ASSUME Shipped PROVE TypeOK'
  <2>1. /\ sending'.lines \in Seq(FileLines) /\ sending'.bytes \in Nat
        /\ size' \in Nat /\ dropped' \in Nat
        /\ todo' = Rest(todo) /\ trail' = Recorded(Batch(todo))
    BY <1>10, ShippedEffect
  <2>2. /\ live' = live /\ late' = late /\ phase' = phase /\ carried' = carried
        /\ stops' = stops /\ minted' = minted /\ faults' = faults /\ lost' = lost
    BY <1>10 DEF Shipped, boundVars
  <2>. QED BY <1>0, <1>1, <1>3, <2>1, <2>2 DEF TypeOK, FileLines
<1>11. ASSUME ShipFails PROVE TypeOK'
  <2>1. /\ live' = live /\ sending' = sending /\ trail' = trail
        /\ late' = late \cup {Batch(todo)} /\ todo' = <<>>
        /\ phase' = phase /\ size' = size /\ dropped' = dropped /\ carried' = carried
        /\ stops' = stops /\ minted' = minted /\ faults' = faults + 1 /\ lost' = lost
    BY <1>11 DEF ShipFails, GiveUp, Fault, diskVars
  <2>. QED BY <1>0, <1>3, <1>4, <2>1 DEF TypeOK, FileLines
<1>12. ASSUME NEW b \in late, Late(b) PROVE TypeOK'
  <2>1. /\ live' = live /\ sending' = sending /\ trail' = Recorded(b)
        /\ late' = late \ {b} /\ todo' = todo
        /\ phase' = phase /\ size' = size /\ dropped' = dropped /\ carried' = carried
        /\ stops' = stops /\ minted' = minted /\ faults' = faults /\ lost' = lost
    BY <1>12 DEF Late, diskVars, processVars, boundVars
  <2>. QED BY <1>0, <1>1, <2>1 DEF TypeOK, FileLines
<1>13. ASSUME Unmount PROVE TypeOK'
  <2>1. /\ live' = live /\ sending' = sending /\ trail' = trail
        /\ late' \subseteq late \cup {Batch(todo)} /\ todo' \in {todo, <<>>}
        /\ phase' = "closing" /\ size' = size /\ dropped' = dropped /\ carried' = carried
        /\ stops' = stops + 1 /\ minted' = minted /\ faults' = faults /\ lost' = lost
    BY <1>13 DEF Unmount, GiveUp, diskVars
  <2>. QED BY <1>0, <1>3, <1>4, <2>1 DEF TypeOK, FileLines
<1>14. ASSUME Exit PROVE TypeOK'
  <2>1. /\ live' = live /\ sending' = sending /\ trail' = trail /\ late' = late
        /\ todo' = todo /\ phase' = "down" /\ size' = size /\ dropped' = dropped
        /\ carried' = carried /\ stops' = stops /\ minted' = minted
        /\ faults' = faults /\ lost' = lost
    BY <1>14 DEF Exit, diskVars, serverVars, boundVars
  <2>. QED BY <1>0, <2>1 DEF TypeOK, FileLines
<1>15. ASSUME Killed PROVE TypeOK'
  <2>1. live'.lines \in Seq(FileLines) /\ live'.bytes \in Nat
    BY <1>15, KilledEffect
  <2>2. /\ sending' = sending /\ trail' = trail /\ todo' = <<>> /\ phase' = "down"
        /\ size' = size /\ dropped' = dropped /\ carried' = {} /\ stops' = stops
        /\ minted' = minted /\ faults' = faults + 1 /\ lost' = lost \cup carried
        /\ late' \subseteq late \cup {<<e>> : e \in carried} \cup {Batch(todo)}
    BY <1>15 DEF Killed, Fault, Lose
  <2>3. late' \subseteq Seq(Events)
    BY <2>2, GivenUp
  <2>. QED BY <1>0, <1>3, <1>4, <2>1, <2>2, <2>3 DEF TypeOK, FileLines
<1>16. ASSUME Mounted PROVE TypeOK'
  <2>1. /\ live' = live /\ sending' = sending /\ trail' = trail /\ late' = late
        /\ todo' = todo /\ phase' = "up" /\ size' = live.bytes + sending.bytes
        /\ dropped' = 0 /\ carried' = carried /\ stops' = stops /\ minted' = minted
        /\ faults' = faults /\ lost' = lost
    BY <1>16 DEF Mounted, Seed, diskVars, serverVars, boundVars
  <2>. QED BY <1>0, <2>1 DEF TypeOK, FileLines
<1>17. ASSUME UNCHANGED vars PROVE TypeOK'
  BY <1>17 DEF vars, diskVars, serverVars, processVars, boundVars, TypeOK
<1>. QED BY <1>5, <1>6, <1>7, <1>8, <1>9, <1>10, <1>11, <1>12, <1>13, <1>14, <1>15,
            <1>16, <1>17 DEF Next

(* What every variable holds; only whole events of this log get onto the   *)
(* wire and into wiki.access_event, whatever torn line a crash left behind.*)
THEOREM AuditTypeCorrect == Spec => []TypeOK
BY TypeInit, TypeStep, PTL DEF Spec

-----------------------------------------------------------------------------
(* Order: a batch is a stretch of the file that is being sent, and all     *)
(* that is in front of it has been recorded.                               *)

Stretch(b, list, T, k) ==
  /\ k \in Nat /\ k + Len(b) <= Len(list)
  /\ \A i \in 1..Len(b) : b[i] = list[k + i]
  /\ \A i \in 1..k : list[i] \in T

(* What else is recorded makes no difference.                              *)
LEMMA StretchMore ==
  ASSUME NEW b, NEW list, NEW T, NEW U, T \subseteq U, NEW k, Stretch(b, list, T, k)
  PROVE  Stretch(b, list, U, k)
BY DEF Stretch

(* A list is a stretch of itself.                                          *)
LEMMA StretchWhole ==
  ASSUME NEW s \in Seq(Events), NEW T
  PROVE  Stretch(s, s, T, 0) /\ 0 + Len(s) = Len(s)
<1>1. Len(s) \in Nat /\ 0 + Len(s) = Len(s) /\ \A i \in 1..Len(s) : 0 + i = i
  BY LenProperties
<1>. QED BY <1>1 DEF Stretch

(* A stretch has its members from the list, and, if they are different     *)
(* there, they are different.                                              *)
LEMMA StretchOf ==
  ASSUME NEW b \in Seq(Events), NEW list \in Seq(Events), NEW T, NEW k,
         Stretch(b, list, T, k)
  PROVE  /\ Among(b) \subseteq Among(list)
         /\ Once(list) => Once(b)
         /\ k + Len(b) = Len(list) => Among(list) \subseteq T \cup Among(b)
<1>1. Len(b) \in Nat /\ Len(list) \in Nat /\ k \in Nat
  BY LenProperties DEF Stretch
<1>2. \A i \in 1..Len(b) : k + i \in 1..Len(list) /\ b[i] = list[k + i]
  BY <1>1 DEF Stretch
<1>3. Among(b) \subseteq Among(list)
  BY <1>2 DEF Among
<1>4. ASSUME Once(list) PROVE Once(b)
  <2>. SUFFICES ASSUME NEW i \in 1..Len(b), NEW j \in 1..Len(b), b[i] = b[j] PROVE i = j
    BY DEF Once
  <2>1. list[k + i] = list[k + j] /\ k + i \in 1..Len(list) /\ k + j \in 1..Len(list)
    BY <1>2
  <2>2. k + i = k + j
    BY <1>4, <2>1 DEF Once
  <2>. QED BY <1>1, <2>2
<1>5. ASSUME k + Len(b) = Len(list), NEW i \in 1..Len(list)
      PROVE  list[i] \in T \cup Among(b)
  <2>1. CASE i <= k
    <3>1. i \in 1..k
      BY <1>1, <2>1
    <3>. QED BY <3>1 DEF Stretch
  <2>2. CASE ~ (i <= k)
    <3>1. i - k \in 1..Len(b) /\ k + (i - k) = i
      BY <1>1, <1>5, <2>2
    <3>2. b[i - k] = list[k + (i - k)]
      BY <1>2, <3>1
    <3>3. b[i - k] \in Among(b)
      BY <3>1 DEF Among
    <3>. QED BY <3>1, <3>2, <3>3
  <2>. QED BY <2>1, <2>2
<1>6. k + Len(b) = Len(list) => Among(list) \subseteq T \cup Among(b)
  BY <1>5 DEF Among
<1>. QED BY <1>3, <1>4, <1>6

(* Two parts, one behind the other.                                        *)
Parted(s, t, list, T, k) ==
  /\ Stretch(s, list, T, k)
  /\ Stretch(t, list, T \cup Among(s), k + Len(s))

(* The first part of a stretch is one, and so is the rest, behind it.      *)
LEMMA StretchParts ==
  ASSUME NEW s \in Seq(Events), NEW t \in Seq(Events), NEW list \in Seq(Events),
         NEW d, d = s \o t, NEW T, NEW k \in Nat, Stretch(d, list, T, k)
  PROVE  Parted(s, t, list, T, k)
<1>1. Len(s) \in Nat /\ Len(t) \in Nat /\ Len(list) \in Nat
  BY LenProperties
<1>2. Len(d) = Len(s) + Len(t)
      /\ \A i \in 1..(Len(s) + Len(t)) : d[i] = IF i <= Len(s) THEN s[i] ELSE t[i - Len(s)]
  BY ConcatProperties
<1>3. /\ k \in Nat /\ k + Len(d) <= Len(list)
      /\ \A i \in 1..Len(d) : d[i] = list[k + i]
      /\ \A i \in 1..k : list[i] \in T
  BY DEF Stretch
<1>4. \A i \in 1..Len(s) : s[i] = list[k + i]
  <2>. SUFFICES ASSUME NEW i \in 1..Len(s) PROVE s[i] = list[k + i]
    OBVIOUS
  <2>1. i \in 1..(Len(s) + Len(t)) /\ i <= Len(s)
    BY <1>1
  <2>. QED BY <1>2, <1>3, <2>1
<1>5. \A i \in 1..Len(t) : t[i] = list[(k + Len(s)) + i]
  <2>. SUFFICES ASSUME NEW i \in 1..Len(t) PROVE t[i] = list[(k + Len(s)) + i]
    OBVIOUS
  <2>1. /\ Len(s) + i \in 1..(Len(s) + Len(t)) /\ ~ (Len(s) + i <= Len(s))
        /\ (Len(s) + i) - Len(s) = i /\ k + (Len(s) + i) = (k + Len(s)) + i
    BY <1>1, <1>3
  <2>2. d[Len(s) + i] = t[(Len(s) + i) - Len(s)]
    BY <1>2, <2>1
  <2>3. d[Len(s) + i] = list[k + (Len(s) + i)]
    BY <1>2, <1>3, <2>1
  <2>. QED BY <2>1, <2>2, <2>3
<1>6. \A i \in 1..(k + Len(s)) : list[i] \in T \cup Among(s)
  <2>. SUFFICES ASSUME NEW i \in 1..(k + Len(s)) PROVE list[i] \in T \cup Among(s)
    OBVIOUS
  <2>1. CASE i <= k
    <3>1. i \in 1..k
      BY <1>3, <2>1
    <3>. QED BY <1>3, <3>1
  <2>2. CASE ~ (i <= k)
    <3>1. i - k \in 1..Len(s) /\ k + (i - k) = i
      BY <1>1, <1>3, <2>2
    <3>2. s[i - k] = list[k + (i - k)] /\ s[i - k] \in Among(s)
      BY <1>4, <3>1 DEF Among
    <3>. QED BY <3>1, <3>2
  <2>. QED BY <2>1, <2>2
<1>7. k + Len(s) \in Nat /\ k + Len(s) <= Len(list)
      /\ (k + Len(s)) + Len(t) <= Len(list)
  BY <1>1, <1>2, <1>3
<1>. QED BY <1>3, <1>4, <1>5, <1>6, <1>7 DEF Stretch, Parted

(* One more at the end.                                                    *)
LEMMA OnceMore ==
  ASSUME NEW s \in Seq(Events), NEW e \in Events, Once(s), e \notin Among(s)
  PROVE  Once(Append(s, e))
<1>. DEFINE t == <<e>>
<1>1. t \in Seq(Events) /\ Among(t) = {e} /\ Once(t) /\ Append(s, e) = s \o t
  BY AppendIsConcat DEF Among, Once
<1>. HIDE DEF t
<1>. QED BY <1>1, OnceConcat

-----------------------------------------------------------------------------
(* The inductive invariant.                                                *)

(* Nothing is anywhere that was not minted.                                *)
Known ==
  /\ Among(trail) \subseteq 1..minted /\ carried \subseteq 1..minted
  /\ Among(Sent) \subseteq 1..minted /\ Among(Spooled) \subseteq 1..minted
  /\ \A b \in late : Among(b) \subseteq 1..minted

(* An event is in one place of one file, and not while a fetch has it.     *)
Apart ==
  /\ Once(Sent) /\ Once(Spooled) /\ Among(Sent) \cap Among(Spooled) = {}
  /\ carried \cap Among(trail) = {}
  /\ carried \cap Among(Sent) = {} /\ carried \cap Among(Spooled) = {}
  /\ \A b \in late : carried \cap Among(b) = {}

(* What a request may bring that nobody waits for: nothing new, one event, *)
(* or the batch that is due.                                               *)
Due(b, list, T) ==
  \/ Among(b) \subseteq T
  \/ Len(b) = 1
  \/ \E k : Stretch(b, list, T, k)

ToCome(s, list, T) == \E k : Stretch(s, list, T, k) /\ k + Len(s) = Len(list)

Ordered ==
  /\ Once(trail)
  /\ todo # <<>> => ToCome(todo, Sent, Among(trail))
  /\ \A b \in late : Due(b, Sent, Among(trail))

Accounted ==
  1..minted \subseteq carried \cup Among(Sent) \cup Among(Spooled) \cup Among(trail) \cup lost

Listed == Known /\ Apart /\ Ordered /\ Accounted

(* Types of the lists.                                                     *)
LEMMA ListTypes ==
  ASSUME TypeOK
  PROVE  /\ Sent \in Seq(Events) /\ Spooled \in Seq(Events)
         /\ trail \in Seq(Events) /\ todo \in Seq(Events) /\ late \subseteq Seq(Events)
         /\ carried \subseteq Events /\ minted \in Nat
<1>1. live.lines \in Seq(FileLines) /\ sending.lines \in Seq(FileLines)
  BY DEF TypeOK, FileLines
<1>. QED BY <1>1, ParsedHas DEF TypeOK, Sent, Spooled

(* Whatever is recorded and however the file changes hands, a batch that   *)
(* was due is due, unless it is all in.                                    *)
LEMMA StillDue ==
  ASSUME NEW b \in Seq(Events), NEW list \in Seq(Events), NEW T, Due(b, list, T),
         NEW l, NEW U, T \subseteq U, l = list \/ Among(list) \subseteq U
  PROVE  Due(b, l, U)
<1>1. CASE Among(b) \subseteq T
  BY <1>1 DEF Due
<1>2. CASE Len(b) = 1
  BY <1>2 DEF Due
<1>3. ASSUME NEW k, Stretch(b, list, T, k) PROVE Due(b, l, U)
  <2>1. Among(b) \subseteq Among(list) /\ Stretch(b, list, U, k)
    BY <1>3, StretchOf, StretchMore
  <2>. QED BY <2>1 DEF Due
<1>. QED BY <1>1, <1>2, <1>3 DEF Due

(* What is due can be recorded without doubling anything.                  *)
LEMMA DueOnce ==
  ASSUME NEW b \in Seq(Events), NEW list \in Seq(Events), Once(list),
         NEW T, Due(b, list, T)
  PROVE  Once(b) \/ Among(b) \subseteq T
<1>1. CASE Len(b) = 1
  <2>1. \A i, j \in 1..1 : i = j
    OBVIOUS
  <2>. QED BY <1>1, <2>1 DEF Once
<1>2. ASSUME NEW k, Stretch(b, list, T, k) PROVE Once(b)
  BY <1>2, StretchOf
<1>. QED BY <1>1, <1>2 DEF Due

(* The first part of what is to come is due, and the rest is to come.      *)
LEMMA PartsDue ==
  ASSUME NEW b \in Seq(Events), NEW r \in Seq(Events), NEW list \in Seq(Events),
         NEW s, s = b \o r, NEW T, ToCome(s, list, T)
  PROVE  /\ Due(b, list, T)
         /\ ToCome(r, list, T \cup Among(b))
         /\ Once(list) => Once(b)
         /\ Among(b) \subseteq Among(list)
         /\ r = <<>> => Among(list) \subseteq T \cup Among(b)
<1>1. PICK k \in Nat : Stretch(s, list, T, k) /\ k + Len(s) = Len(list)
  BY DEF ToCome, Stretch
<1>3. Parted(b, r, list, T, k) /\ (k + Len(b)) + Len(r) = Len(list)
  <2>1. Stretch(s, list, T, k)
    BY <1>1
  <2>2. Parted(b, r, list, T, k)
    BY <2>1, StretchParts
  <2>3. Len(s) = Len(b) + Len(r) /\ Len(b) \in Nat /\ Len(r) \in Nat
    BY ConcatProperties, LenProperties
  <2>. QED BY <1>1, <2>2, <2>3
<1>4. Due(b, list, T) /\ ToCome(r, list, T \cup Among(b))
  BY <1>3 DEF Due, ToCome, Parted
<1>5. Among(b) \subseteq Among(list) /\ (Once(list) => Once(b))
  BY <1>3, StretchOf DEF Parted
<1>6. ASSUME r = <<>> PROVE Among(list) \subseteq T \cup Among(b)
  <2>1. Len(r) = 0 /\ k + Len(b) = Len(list)
    <3>1. Len(b) \in Nat
      BY LenProperties
    <3>. QED BY <1>3, <1>6, <3>1
  <2>. QED BY <1>3, <2>1, StretchOf DEF Parted
<1>. QED BY <1>4, <1>5, <1>6

(* The batch that is sent next is due, and what is behind it is to come.   *)
LEMMA NextDue ==
  ASSUME NEW s \in Seq(Events), NEW list \in Seq(Events), NEW T, ToCome(s, list, T)
  PROVE  /\ Due(Batch(s), list, T)
         /\ ToCome(Rest(s), list, T \cup Among(Batch(s)))
         /\ Once(list) => Once(Batch(s))
         /\ Among(Batch(s)) \subseteq Among(list)
         /\ Rest(s) = <<>> => Among(list) \subseteq T \cup Among(Batch(s))
BY BatchThenRest, PartsDue

(* What Put adds to the list of the live file.                             *)
LEMMA PutHas ==
  ASSUME TypeOK, NEW e \in Events, Put(e), Once(Spooled), e \notin Among(Spooled)
  PROVE  /\ Once(Spooled') /\ Among(Spooled) \subseteq Among(Spooled')
         /\ Among(Spooled') \subseteq Among(Spooled) \cup {e}
         /\ e \in Among(Spooled') \cup lost' /\ lost \subseteq lost'
<1>1. Spooled \in Seq(Events)
  BY ListTypes
<1>2. Once(Append(Spooled, e)) /\ Among(Append(Spooled, e)) = Among(Spooled) \cup {e}
  BY <1>1, OnceMore, OnlyOne
<1>. QED BY <1>2 DEF Put

(* A mount that starts has no events.                                      *)
LEMMA ListedInit == Init => Listed
<1>. SUFFICES ASSUME Init PROVE Listed
  OBVIOUS
<1>1. Sent = <<>> /\ Spooled = <<>>
  BY NoFileHas DEF Init, Sent, Spooled
<1>2. trail = <<>> /\ late = {} /\ todo = <<>> /\ carried = {} /\ minted = 0 /\ 1..0 = {}
  BY DEF Init
<1>3. Among(<<>>) = {} /\ Once(<<>>)
  BY DEF Among, Once
<1>. QED BY <1>1, <1>2, <1>3 DEF Listed, Known, Apart, Ordered, Accounted

(* A new event, to the end of the live file.                               *)
LEMMA RecordKeeps ==
  ASSUME TypeOK, Listed, NEW e \in Events, Record(e)
  PROVE  Listed'
<1>1. /\ e = minted + 1 /\ minted' = e /\ Put(e) /\ Sent' = Sent
      /\ trail' = trail /\ late' = late /\ todo' = todo /\ carried' = carried
  BY PutEffect DEF Record, Mint, serverVars, Sent
<1>2. minted \in Nat /\ e \notin 1..minted /\ 1..minted' = 1..minted \cup {e}
  BY <1>1, ListTypes
<1>3. e \notin Among(Spooled)
  BY <1>2 DEF Listed, Known
<1>4. /\ Once(Spooled') /\ Among(Spooled) \subseteq Among(Spooled')
      /\ Among(Spooled') \subseteq Among(Spooled) \cup {e}
      /\ e \in Among(Spooled') \cup lost' /\ lost \subseteq lost'
  BY <1>1, <1>3, PutHas DEF Listed, Apart
<1>5. Known'
  BY <1>1, <1>2, <1>4 DEF Listed, Known
<1>6. Apart'
  BY <1>1, <1>2, <1>4 DEF Listed, Known, Apart
<1>7. Ordered'
  BY <1>1 DEF Listed, Ordered
<1>8. Accounted'
  BY <1>1, <1>2, <1>4 DEF Listed, Accounted
<1>. QED BY <1>5, <1>6, <1>7, <1>8 DEF Listed

(* A new event, with a fetch.                                              *)
LEMMA FetchKeeps ==
  ASSUME TypeOK, Listed, NEW e \in Events, Fetch(e)
  PROVE  Listed'
<1>1. /\ e = minted + 1 /\ minted' = e /\ Sent' = Sent /\ Spooled' = Spooled
      /\ trail' = trail /\ late' = late /\ todo' = todo /\ carried' = carried \cup {e}
      /\ lost' = lost
  BY DEF Fetch, Mint, serverVars, diskVars, Sent, Spooled
<1>2. minted \in Nat /\ e \notin 1..minted /\ 1..minted' = 1..minted \cup {e}
  BY <1>1, ListTypes
<1>5. Known'
  BY <1>1, <1>2 DEF Listed, Known
<1>6. Apart'
  BY <1>1, <1>2 DEF Listed, Known, Apart
<1>7. Ordered'
  BY <1>1 DEF Listed, Ordered
<1>8. Accounted'
  BY <1>1, <1>2 DEF Listed, Accounted
<1>. QED BY <1>5, <1>6, <1>7, <1>8 DEF Listed

(* Rows that come in leave what is to come and what is due.                *)
LEMMA RecordedKeeps ==
  ASSUME TypeOK, Listed, NEW b \in Seq(Events), Due(b, Sent, Among(trail)),
         trail' = Recorded(b), Sent' = Sent
  PROVE  /\ Once(trail') /\ Among(trail') = Among(trail) \cup Among(b)
         /\ todo # <<>> => ToCome(todo, Sent', Among(trail'))
         /\ \A c \in late : Due(c, Sent', Among(trail'))
<1>1. /\ Sent \in Seq(Events) /\ trail \in Seq(Events) /\ todo \in Seq(Events)
      /\ late \subseteq Seq(Events)
  BY ListTypes
<1>2. Once(b) \/ Among(b) \subseteq Among(trail)
  BY <1>1, DueOnce DEF Listed, Apart
<1>3. Once(trail') /\ Among(trail') = Among(trail) \cup Among(b)
  BY <1>1, <1>2, RecordedHas DEF Listed, Ordered
<1>4. ASSUME todo # <<>> PROVE ToCome(todo, Sent', Among(trail'))
  <2>1. PICK k : Stretch(todo, Sent, Among(trail), k) /\ k + Len(todo) = Len(Sent)
    BY <1>4 DEF Listed, Ordered, ToCome
  <2>2. Stretch(todo, Sent, Among(trail'), k)
    BY <1>3, <2>1, StretchMore
  <2>. QED BY <2>1, <2>2 DEF ToCome
<1>5. ASSUME NEW c \in late PROVE Due(c, Sent', Among(trail'))
  <2>1. c \in Seq(Events) /\ Due(c, Sent, Among(trail))
    BY <1>1, <1>5 DEF Listed, Ordered
  <2>2. Among(trail) \subseteq Among(trail')
    BY <1>3
  <2>. QED BY <1>1, <2>1, <2>2, StillDue
<1>. QED BY <1>3, <1>4, <1>5

(* A body came, and the server saw it fetched.                             *)
LEMMA FetchedKeeps ==
  ASSUME TypeOK, Listed, NEW e \in Events, Fetched(e)
  PROVE  Listed'
<1>. DEFINE b == <<e>>
<1>1. /\ e \in carried /\ carried' = carried \ {e} /\ trail' = Recorded(b)
      /\ Sent' = Sent /\ Spooled' = Spooled /\ late' = late /\ todo' = todo
      /\ minted' = minted /\ lost' = lost
  BY DEF Fetched, diskVars, boundVars, Sent, Spooled
<1>2. b \in Seq(Events) /\ Among(b) = {e} /\ Due(b, Sent, Among(trail))
  BY DEF Among, Due
<1>. HIDE DEF b
<1>3. /\ Once(trail') /\ Among(trail') = Among(trail) \cup {e}
      /\ todo # <<>> => ToCome(todo, Sent', Among(trail'))
      /\ \A c \in late : Due(c, Sent', Among(trail'))
  BY <1>1, <1>2, RecordedKeeps
<1>5. Known'
  BY <1>1, <1>3 DEF Listed, Known
<1>6. Apart'
  BY <1>1, <1>3 DEF Listed, Apart
<1>7. Ordered'
  BY <1>1, <1>3 DEF Ordered
<1>8. Accounted'
  BY <1>1, <1>3 DEF Listed, Accounted
<1>. QED BY <1>5, <1>6, <1>7, <1>8 DEF Listed

(* No body came: the event is spooled, and may yet be recorded.            *)
LEMMA FetchFailsKeeps ==
  ASSUME TypeOK, Listed, NEW e \in Events, FetchFails(e)
  PROVE  Listed'
<1>. DEFINE b == <<e>>
<1>1. /\ e \in carried /\ carried' = carried \ {e} /\ late' = late \cup {b}
      /\ Put(e) /\ Sent' = Sent /\ trail' = trail /\ todo' = todo /\ minted' = minted
  BY PutEffect DEF FetchFails, Sent
<1>2. Among(b) = {e} /\ \A list, T : Due(b, list, T)
  BY DEF Among, Due
<1>. HIDE DEF b
<1>3. e \notin Among(Spooled) /\ e \in 1..minted
  BY <1>1 DEF Listed, Apart, Known
<1>4. /\ Once(Spooled') /\ Among(Spooled) \subseteq Among(Spooled')
      /\ Among(Spooled') \subseteq Among(Spooled) \cup {e}
      /\ e \in Among(Spooled') \cup lost' /\ lost \subseteq lost'
  BY <1>1, <1>3, PutHas DEF Listed, Apart
<1>5. Known'
  BY <1>1, <1>2, <1>3, <1>4 DEF Listed, Known
<1>6. Apart'
  BY <1>1, <1>2, <1>4 DEF Listed, Apart
<1>7. Ordered'
  BY <1>1, <1>2 DEF Listed, Ordered
<1>8. Accounted'
  BY <1>1, <1>4 DEF Listed, Accounted
<1>. QED BY <1>5, <1>6, <1>7, <1>8 DEF Listed

(* A file is taken to be sent.                                             *)
LEMMA FlushKeeps ==
  ASSUME TypeOK, Listed, Flush
  PROVE  Listed'
<1>1. /\ todo' = Sent' /\ todo' \in Seq(Events)
      /\ \/ Sent' = Sent /\ Spooled' = Spooled
         \/ Sent = <<>> /\ Sent' = Spooled /\ Spooled' = <<>>
  BY FlushEffect
<1>2. /\ trail' = trail /\ late' = late /\ carried' = carried
      /\ minted' = minted /\ lost' = lost
  BY DEF Flush, serverVars, boundVars
<1>3. Among(<<>>) = {} /\ Once(<<>>)
  BY DEF Among, Once
<1>4. Sent \in Seq(Events) /\ late \subseteq Seq(Events)
  BY ListTypes
<1>5. Known'
  BY <1>1, <1>2, <1>3 DEF Listed, Known
<1>6. Apart'
  BY <1>1, <1>2, <1>3 DEF Listed, Apart
<1>7. Ordered'
  <2>1. ToCome(todo', Sent', Among(trail'))
    BY <1>1, StretchWhole DEF ToCome
  <2>2. ASSUME NEW b \in late PROVE Due(b, Sent', Among(trail'))
    <3>1. b \in Seq(Events) /\ Due(b, Sent, Among(trail))
      BY <1>4, <2>2 DEF Listed, Ordered
    <3>2. Sent' = Sent \/ Among(Sent) \subseteq Among(trail')
      BY <1>1, <1>3
    <3>3. Among(trail) \subseteq Among(trail')
      BY <1>2
    <3>. QED BY <1>4, <3>1, <3>2, <3>3, StillDue
  <2>. QED BY <1>2, <2>1, <2>2 DEF Listed, Ordered
<1>8. Accounted'
  BY <1>1, <1>2, <1>3 DEF Listed, Accounted
<1>. QED BY <1>5, <1>6, <1>7, <1>8 DEF Listed

(* A batch was acknowledged.                                               *)
LEMMA ShippedKeeps ==
  ASSUME TypeOK, Listed, Shipped
  PROVE  Listed'
<1>. DEFINE b == Batch(todo)
            r == Rest(todo)
<1>1. /\ todo' = r /\ trail' = Recorded(b)
      /\ Sent' = (IF r = <<>> THEN <<>> ELSE Sent) /\ Spooled' = Spooled
  BY ShippedEffect
<1>2. /\ todo # <<>> /\ late' = late /\ carried' = carried
      /\ minted' = minted /\ lost' = lost
  BY DEF Shipped, boundVars
<1>3. /\ Sent \in Seq(Events) /\ trail \in Seq(Events) /\ todo \in Seq(Events)
      /\ late \subseteq Seq(Events)
  BY ListTypes
<1>4. b \in Seq(Events)
  BY <1>3, BatchThenRest
<1>5. /\ ToCome(r, Sent, Among(trail) \cup Among(b))
      /\ Once(b) /\ Among(b) \subseteq Among(Sent)
      /\ r = <<>> => Among(Sent) \subseteq Among(trail) \cup Among(b)
  BY <1>2, <1>3, NextDue DEF Listed, Ordered, Apart
<1>. HIDE DEF b, r
<1>6. Once(trail') /\ Among(trail') = Among(trail) \cup Among(b)
  BY <1>1, <1>3, <1>4, <1>5, RecordedHas DEF Listed, Ordered
<1>7. Among(<<>>) = {} /\ Once(<<>>)
  BY DEF Among, Once
<1>8. Among(Sent') \subseteq Among(Sent) /\ Once(Sent')
      /\ (Sent' = Sent \/ Among(Sent) \subseteq Among(trail'))
  BY <1>1, <1>5, <1>6, <1>7 DEF Listed, Apart
<1>9. Known'
  BY <1>1, <1>2, <1>5, <1>6, <1>8 DEF Listed, Known
<1>10. Apart'
  BY <1>1, <1>2, <1>5, <1>6, <1>8 DEF Listed, Apart
<1>11. Ordered'
  <2>1. r # <<>> => ToCome(todo', Sent', Among(trail'))
    BY <1>1, <1>5, <1>6
  <2>2. ASSUME NEW c \in late PROVE Due(c, Sent', Among(trail'))
    <3>1. c \in Seq(Events) /\ Due(c, Sent, Among(trail))
      BY <1>3, <2>2 DEF Listed, Ordered
    <3>2. Among(trail) \subseteq Among(trail')
      BY <1>6
    <3>. QED BY <1>3, <1>8, <3>1, <3>2, StillDue
  <2>. QED BY <1>1, <1>2, <1>6, <2>1, <2>2 DEF Ordered
<1>12. Accounted'
  BY <1>1, <1>2, <1>6, <1>8 DEF Listed, Accounted
<1>. QED BY <1>9, <1>10, <1>11, <1>12 DEF Listed

(* A request that nobody waits for arrives.                                *)
LEMMA LateKeeps ==
  ASSUME TypeOK, Listed, NEW b \in late, Late(b)
  PROVE  Listed'
<1>1. /\ late' = late \ {b} /\ trail' = Recorded(b) /\ Sent' = Sent
      /\ Spooled' = Spooled /\ carried' = carried /\ todo' = todo
      /\ minted' = minted /\ lost' = lost
  BY DEF Late, diskVars, processVars, boundVars, Sent, Spooled
<1>2. b \in Seq(Events) /\ Due(b, Sent, Among(trail))
  BY ListTypes DEF Listed, Ordered
<1>3. /\ Once(trail') /\ Among(trail') = Among(trail) \cup Among(b)
      /\ todo # <<>> => ToCome(todo, Sent', Among(trail'))
      /\ \A c \in late : Due(c, Sent', Among(trail'))
  BY <1>1, <1>2, RecordedKeeps
<1>5. Known'
  BY <1>1, <1>3 DEF Listed, Known
<1>6. Apart'
  BY <1>1, <1>3 DEF Listed, Apart
<1>7. Ordered'
  BY <1>1, <1>3 DEF Ordered
<1>8. Accounted'
  BY <1>1, <1>3 DEF Listed, Accounted
<1>. QED BY <1>5, <1>6, <1>7, <1>8 DEF Listed

(* Nobody waits any more: for the batch that was sent, for the fetches     *)
(* that were under way when the process died, or for either.               *)
LEMMA GoneKeeps ==
  ASSUME TypeOK, Listed, Sent' = Sent, Spooled' = Spooled, trail' = trail,
         minted' = minted, todo' \in {todo, <<>>},
         \/ carried' = carried /\ lost' = lost
         \/ carried' = {} /\ lost' = lost \cup carried,
         \A b \in late' : \/ b \in late
                          \/ todo # <<>> /\ b = Batch(todo)
                          \/ carried' = {} /\ \E e \in carried : b = <<e>>
  PROVE  Listed'
<1>1. /\ Sent \in Seq(Events) /\ todo \in Seq(Events)
  BY ListTypes
<1>2. ASSUME todo # <<>>
      PROVE  Due(Batch(todo), Sent, Among(trail)) /\ Among(Batch(todo)) \subseteq Among(Sent)
  BY <1>1, <1>2, NextDue DEF Listed, Ordered
<1>3. \A e : Among(<<e>>) = {e} /\ Due(<<e>>, Sent, Among(trail))
  BY DEF Among, Due
<1>4. \A b \in late' : /\ Due(b, Sent, Among(trail)) /\ Among(b) \subseteq 1..minted
                       /\ carried' \cap Among(b) = {}
  <2>. SUFFICES ASSUME NEW b \in late'
                PROVE  /\ Due(b, Sent, Among(trail)) /\ Among(b) \subseteq 1..minted
                       /\ carried' \cap Among(b) = {}
    OBVIOUS
  <2>1. CASE b \in late
    BY <2>1 DEF Listed, Known, Apart, Ordered
  <2>2. CASE todo # <<>> /\ b = Batch(todo)
    BY <1>2, <2>2 DEF Listed, Known, Apart
  <2>3. ASSUME carried' = {}, NEW e \in carried, b = <<e>>
        PROVE  Due(b, Sent, Among(trail)) /\ Among(b) \subseteq 1..minted
    BY <1>3, <2>3 DEF Listed, Known
  <2>. QED BY <2>1, <2>2, <2>3
<1>5. Known'
  BY <1>4 DEF Listed, Known
<1>6. Apart'
  BY <1>4 DEF Listed, Apart
<1>7. Ordered'
  BY <1>4 DEF Listed, Ordered
<1>8. Accounted'
  BY DEF Listed, Accounted
<1>. QED BY <1>5, <1>6, <1>7, <1>8 DEF Listed

(* Every step.                                                             *)
LEMMA ListedStep == TypeOK /\ Listed /\ [Next]_vars => Listed'
<1>. SUFFICES ASSUME TypeOK, Listed, [Next]_vars PROVE Listed'
  OBVIOUS
<1>1. ASSUME ShipFails PROVE Listed'
  <2>1. /\ Sent' = Sent /\ Spooled' = Spooled /\ trail' = trail /\ minted' = minted
        /\ todo' = <<>> /\ todo # <<>> /\ carried' = carried /\ lost' = lost
        /\ late' = late \cup {Batch(todo)}
    BY <1>1 DEF ShipFails, GiveUp, diskVars, Sent, Spooled
  <2>. QED BY <2>1, GoneKeeps
<1>2. ASSUME Unmount PROVE Listed'
  <2>1. /\ Sent' = Sent /\ Spooled' = Spooled /\ trail' = trail /\ minted' = minted
        /\ todo' \in {todo, <<>>} /\ carried' = carried /\ lost' = lost
        /\ (late' = late \/ (todo # <<>> /\ late' = late \cup {Batch(todo)}))
    BY <1>2 DEF Unmount, GiveUp, diskVars, Sent, Spooled
  <2>. QED BY <2>1, GoneKeeps
<1>3. ASSUME Killed PROVE Listed'
  <2>1. /\ trail' = trail /\ minted' = minted /\ todo' = <<>> /\ carried' = {}
        /\ lost' = lost \cup carried
        /\ late' = late \cup {<<e>> : e \in carried}
                        \cup (IF todo = <<>> THEN {} ELSE {Batch(todo)})
    BY <1>3 DEF Killed, Lose
  <2>2. Sent' = Sent /\ Spooled' = Spooled
    BY <1>3, KilledEffect
  <2>3. \A b \in late' : \/ b \in late
                         \/ todo # <<>> /\ b = Batch(todo)
                         \/ carried' = {} /\ \E e \in carried : b = <<e>>
    BY <2>1
  <2>. QED BY <2>1, <2>2, <2>3, GoneKeeps
<1>4. ASSUME Exit \/ Mounted \/ UNCHANGED vars PROVE Listed'
  <2>1. /\ Sent' = Sent /\ Spooled' = Spooled /\ trail' = trail /\ minted' = minted
        /\ todo' = todo /\ carried' = carried /\ lost' = lost /\ late' = late
    BY <1>4 DEF Exit, Mounted, vars, diskVars, serverVars, processVars, boundVars,
                Sent, Spooled
  <2>. QED BY <2>1, GoneKeeps
<1>. QED
  BY <1>1, <1>2, <1>3, <1>4, RecordKeeps, FetchKeeps, FetchedKeeps, FetchFailsKeeps,
     FlushKeeps, ShippedKeeps, LateKeeps DEF Next

(* The files, the batches and the trail hold what Listed says.             *)
LEMMA AlwaysListed == Spec => []Listed
BY ListedInit, ListedStep, AuditTypeCorrect, PTL DEF Spec

(* Delivery is at least once and the trail has every event at most once:   *)
(* lost answers, resent batches, requests that arrive late, and an event   *)
(* that went both with a fetch and through the queue count once.           *)
THEOREM AlwaysRecordedOnce == Spec => []RecordedOnce
<1>1. Listed => RecordedOnce
  BY DEF Listed, Ordered, Once, RecordedOnce
<1>. QED BY <1>1, AlwaysListed, PTL

(* An event is with a fetch, in a file, or recorded, unless it was dropped *)
(* for want of space, damaged on the disk, or died with its process.       *)
THEOREM NothingIsLost == Spec => []NothingLost
<1>1. TypeOK /\ Listed => NothingLost
  <2>. SUFFICES ASSUME TypeOK, Listed PROVE NothingLost
    OBVIOUS
  <2>1. live.lines \in Seq(FileLines) /\ sending.lines \in Seq(FileLines)
    BY DEF TypeOK, FileLines
  <2>2. Among(Spooled) \subseteq Among(live.lines) /\ Among(Sent) \subseteq Among(sending.lines)
    BY <2>1, ParsedHas DEF Sent, Spooled
  <2>. QED BY <2>2 DEF Listed, Accounted, NothingLost
<1>. QED BY <1>1, AlwaysListed, AuditTypeCorrect, PTL

-----------------------------------------------------------------------------
(* The refinement: what is owed is what the two files hold of events that  *)
(* are not in the trail.                                                   *)

Owed(F, L, X) == Only(F, Events \ X) \o Only(L, Events \ X)

(* What is owed are the events in the files that X does not hold.          *)
OwedIs(F, L, X) ==
  /\ Owed(F, L, X) \in Seq(Events)
  /\ Among(Owed(F, L, X)) = (Among(F) \cup Among(L)) \ X

(* What is new in b is owed first, and then what is owed after b.          *)
FirstOwed(F, L, X, b) ==
  Owed(F, L, X) = Only(b, Events \ X) \o Owed(F, L, X \cup Among(b))

(* The torn and the unreadable lines do not count.                         *)
LEMMA OutstandingIs ==
  ASSUME NEW s \in Seq(FileLines), NEW l \in Seq(FileLines), NEW X
  PROVE  Only(s \o l, Events \ X) = Owed(Only(s, Events), Only(l, Events), X)
<1>1. Only(s \o l, Events \ X) = Only(s, Events \ X) \o Only(l, Events \ X)
  BY OnlyConcat
<1>2. Only(s, Events \ X) = Only(Only(s, Events), Events \ X)
  <2>1. Events \cap (Events \ X) = Events \ X
    OBVIOUS
  <2>. QED BY <2>1, OnlyOnly
<1>3. Only(l, Events \ X) = Only(Only(l, Events), Events \ X)
  <2>1. Events \cap (Events \ X) = Events \ X
    OBVIOUS
  <2>. QED BY <2>1, OnlyOnly
<1>. QED BY <1>1, <1>2, <1>3 DEF Owed

(* What is owed is a list of events in the files that are not in the trail.*)
LEMMA OwedHas ==
  ASSUME NEW F \in Seq(Events), NEW L \in Seq(Events), NEW X
  PROVE  /\ OwedIs(F, L, X)
         /\ Owed(F, L, X) \in Seq(Events)
         /\ Only(F, Events \ X) \in Seq(Events) /\ Only(L, Events \ X) \in Seq(Events)
<1>1. /\ Only(F, Events \ X) \in Seq(Events) /\ Only(L, Events \ X) \in Seq(Events)
      /\ Among(Only(F, Events \ X)) = Among(F) \cap (Events \ X)
      /\ Among(Only(L, Events \ X)) = Among(L) \cap (Events \ X)
  <2>1. Events \cap (Events \ X) \subseteq Events
    OBVIOUS
  <2>2. \A s \in Seq(Events) :
          /\ Only(s, Events \ X) \in Seq(Events \cap (Events \ X))
          /\ Among(Only(s, Events \ X)) = Among(s) \cap (Events \ X)
    BY OnlyHas
  <2>. QED BY <2>1, <2>2, SeqMonotonic
<1>2. Among(F) \subseteq Events /\ Among(L) \subseteq Events
  BY ElementOfSeq DEF Among
<1>3. Owed(F, L, X) \in Seq(Events)
      /\ Among(Owed(F, L, X)) = Among(Only(F, Events \ X)) \cup Among(Only(L, Events \ X))
  <2> DEFINE f == Only(F, Events \ X)
             g == Only(L, Events \ X)
  <2>1. f \in Seq(Events) /\ g \in Seq(Events) /\ Owed(F, L, X) = f \o g
    BY <1>1 DEF Owed
  <2>. HIDE DEF f, g
  <2>2. f \o g \in Seq(Events) /\ Among(f \o g) = Among(f) \cup Among(g)
    BY <2>1, AmongConcat, ConcatProperties
  <2>3. Owed(F, L, X) \in Seq(Events) /\ Among(Owed(F, L, X)) = Among(f) \cup Among(g)
    BY <2>1, <2>2, Zenon
  <2>. QED BY <2>3 DEF f, g
<1>4. \A A, B \in SUBSET Events :
        (A \cap (Events \ X)) \cup (B \cap (Events \ X)) = (A \cup B) \ X
  OBVIOUS
<1>5. Among(Owed(F, L, X)) = (Among(F) \cup Among(L)) \ X
  BY <1>1, <1>2, <1>3, <1>4, Zenon
<1>. QED BY <1>1, <1>3, <1>5 DEF OwedIs

(* Lists of events, one behind the other.                                  *)
LEMMA EventsConcat ==
  ASSUME NEW s \in Seq(Events), NEW t \in Seq(Events), NEW S
  PROVE  s \o t \in Seq(Events) /\ Only(s \o t, S) = Only(s, S) \o Only(t, S)
BY OnlyConcat, ConcatProperties

(* What is left of a list of events.                                       *)
LEMMA EventsLeft ==
  ASSUME NEW s \in Seq(Events), NEW S
  PROVE  Only(s, S) \in Seq(Events)
<1>1. Only(s, S) \in Seq(Events \cap S) /\ Events \cap S \subseteq Events
  BY OnlyHas
<1>. QED BY <1>1, SeqMonotonic

(* Nothing is left of nothing.                                             *)
LEMMA NoEvents ==
  ASSUME NEW S
  PROVE  Only(<<>>, S) = <<>>
<1>1. Among(<<>>) \cap S = {} /\ <<>> \in Seq(Events)
  BY DEF Among
<1>. QED BY <1>1, OnlyNone

(* An event that comes to the end of the live file is owed last.           *)
LEMMA OwedMore ==
  ASSUME NEW F \in Seq(Events), NEW L \in Seq(Events), NEW X,
         NEW e \in Events, e \notin X
  PROVE  Owed(F, Append(L, e), X) = Append(Owed(F, L, X), e)
<1>. DEFINE a == Only(F, Events \ X)
            b == Only(L, Events \ X)
            t == <<e>>
<1>1. a \in Seq(Events) /\ b \in Seq(Events) /\ a \o b \in Seq(Events)
  BY OwedHas, ConcatProperties
<1>2. Only(Append(L, e), Events \ X) = Append(b, e)
  <2>1. \A S : Only(Append(L, e), S) = IF e \in S THEN Append(Only(L, S), e) ELSE Only(L, S)
    BY OnlyOne
  <2>. QED BY <2>1
<1>3. Owed(F, L, X) = a \o b /\ Owed(F, Append(L, e), X) = a \o Append(b, e)
  BY <1>2 DEF Owed
<1>. HIDE DEF a, b
<1>4. t \in Seq(Events) /\ Append(b, e) = b \o t /\ Append(a \o b, e) = (a \o b) \o t
  BY <1>1, AppendIsConcat
<1>. HIDE DEF t
<1>5. (a \o b) \o t = a \o (b \o t)
  BY <1>1, <1>4, ConcatAssociative
<1>. QED BY <1>3, <1>4, <1>5

(* The file that is sent and the live file may change places.              *)
LEMMA OwedMoved ==
  ASSUME NEW L \in Seq(Events), NEW X
  PROVE  Owed(L, <<>>, X) = Owed(<<>>, L, X)
<1>1. Only(<<>>, Events \ X) = <<>>
  BY NoEvents
<1>2. Only(L, Events \ X) \in Seq(Events)
  BY OwedHas
<1>. QED BY <1>1, <1>2, ConcatEmptySeq DEF Owed

(* An event that is recorded is not owed.                                  *)
LEMMA OwedLess ==
  ASSUME NEW F \in Seq(Events), NEW L \in Seq(Events), NEW X, NEW e
  PROVE  Owed(F, L, X \cup {e}) = Only(Owed(F, L, X), Among(Owed(F, L, X)) \ {e})
<1>. DEFINE N == Events \ X
            M == Events \ {e}
            o == Owed(F, L, X)
<1>1. Only(F, N) \in Seq(Events) /\ Only(L, N) \in Seq(Events) /\ o \in Seq(Events)
  BY OwedHas
<1>2. Events \ (X \cup {e}) = N \cap M
  OBVIOUS
<1>3. Among(o) \cap (Among(o) \ {e}) = Among(o) \cap M
  BY <1>1, ElementOfSeq DEF Among
<1>. HIDE DEF N, M
<1>4. Only(o, M) = Only(Only(F, N), M) \o Only(Only(L, N), M)
  <2>. DEFINE p == Only(F, N)
              q == Only(L, N)
  <2>1. o = p \o q /\ p \in Seq(Events) /\ q \in Seq(Events)
    BY <1>1 DEF Owed, N
  <2>. HIDE DEF p, q, o
  <2>2. Only(p \o q, M) = Only(p, M) \o Only(q, M)
    BY <2>1, EventsConcat
  <2>. QED BY <2>1, <2>2 DEF p, q
<1>5. Only(Only(F, N), M) = Only(F, N \cap M) /\ Only(Only(L, N), M) = Only(L, N \cap M)
  BY OnlyOnly
<1>6. Only(o, Among(o) \ {e}) = Only(o, M)
  BY <1>3, OnlySame
<1>. QED BY <1>2, <1>4, <1>5, <1>6 DEF Owed

(* A batch that is due is owed first.                                      *)
LEMMA OwedFirst ==
  ASSUME NEW F \in Seq(Events), NEW L \in Seq(Events), NEW X, NEW b \in Seq(Events),
         NEW k \in Nat, Stretch(b, F, X, k), Once(F), Among(F) \cap Among(L) = {}
  PROVE  FirstOwed(F, L, X, b)
<1>. DEFINE N == Events \ X
            M == Events \ (X \cup Among(b))
            m == k + Len(b)
            u == SubSeq(F, 1, k)
            v == SubSeq(F, m + 1, Len(F))
<1>1. /\ Len(F) \in Nat /\ Len(b) \in Nat /\ m \in Nat /\ k <= m /\ m <= Len(F)
      /\ \A i \in 1..Len(F) : F[i] \in Events
  BY LenProperties, ElementOfSeq DEF Stretch
<1>2. /\ \A i \in 1..Len(b) : b[i] = F[k + i]
      /\ \A i \in 1..k : F[i] \in X
  BY DEF Stretch
<1>. HIDE DEF m
<1>3. /\ u \in Seq(Events) /\ Len(u) = k /\ \A i \in 1..k : u[i] = F[i]
  <2>1. \A i \in 1..k : F[i] \in Events
    BY <1>1
  <2>2. 1 \in Int /\ k \in Int /\ (IF 1 <= k THEN k - 1 + 1 ELSE 0) = k /\ k - 1 + 1 = k
        /\ \A i \in 1..k : 1 + i - 1 = i
    OBVIOUS
  <2>. QED BY <2>1, <2>2, SubSeqProperties
<1>4. /\ v \in Seq(Events) /\ Len(v) = Len(F) - m
      /\ \A i \in 1..(Len(F) - m) : v[i] = F[m + i]
  <2>1. \A i \in (m + 1)..Len(F) : F[i] \in Events
    BY <1>1
  <2>2. m + 1 \in Int /\ Len(F) \in Int
        /\ (IF m + 1 <= Len(F) THEN Len(F) - (m + 1) + 1 ELSE 0) = Len(F) - m
        /\ Len(F) - (m + 1) + 1 = Len(F) - m
        /\ \A i \in 1..(Len(F) - m) : (m + 1) + i - 1 = m + i
    BY <1>1
  <2>. QED BY <2>1, <2>2, SubSeqProperties
<1>. HIDE DEF u, v
<1>5. F = (u \o b) \o v
  <2>. DEFINE d == u \o b
              c == d \o v
  <2>1. d \in Seq(Events) /\ Len(d) = m
        /\ \A i \in 1..m : d[i] = IF i <= k THEN u[i] ELSE b[i - k]
    BY <1>3, ConcatProperties DEF m
  <2>. HIDE DEF d
  <2>2. c \in Seq(Events) /\ Len(c) = Len(F)
        /\ \A i \in 1..Len(F) : c[i] = IF i <= m THEN d[i] ELSE v[i - m]
    <3>1. m + (Len(F) - m) = Len(F)
      BY <1>1
    <3>2. v \in Seq(Events) /\ d \in Seq(Events) /\ Len(d) + Len(v) = Len(F) /\ Len(d) = m
      BY <1>4, <2>1, <3>1
    <3>. QED BY <3>2, ConcatProperties
  <2>. HIDE DEF c
  <2>3. ASSUME NEW i \in 1..Len(F) PROVE c[i] = F[i]
    <3>1. CASE i <= k
      BY <1>1, <1>3, <2>1, <2>2, <3>1
    <3>2. CASE ~ (i <= k) /\ i <= m
      <4>1. i - k \in 1..Len(b) /\ k + (i - k) = i /\ i \in 1..m
        BY <1>1, <3>2 DEF m
      <4>2. c[i] = b[i - k]
        BY <2>1, <2>2, <3>2, <4>1
      <4>3. b[i - k] = F[k + (i - k)]
        BY <1>2, <4>1
      <4>. QED BY <4>1, <4>2, <4>3
    <3>3. CASE ~ (i <= m)
      <4>1. i - m \in 1..(Len(F) - m) /\ m + (i - m) = i
        BY <1>1, <3>3
      <4>2. v[i - m] = F[m + (i - m)]
        BY <1>4, <4>1
      <4>. QED BY <2>2, <3>3, <4>1, <4>2
    <3>. QED BY <3>1, <3>2, <3>3
  <2>. QED BY <2>2, <2>3, SeqEqual DEF c, d
<1>6. \A S : Only(F, S) = (Only(u, S) \o Only(b, S)) \o Only(v, S)
  <2>. TAKE S
  <2>. DEFINE d == u \o b
              c == d \o v
  <2>1. d = u \o b /\ c = d \o v /\ F = c
    BY <1>5
  <2>. HIDE DEF d, c
  <2>2. u \in Seq(Events) /\ v \in Seq(Events)
    BY <1>3, <1>4
  <2>3. u \o b \in Seq(Events) /\ Only(u \o b, S) = Only(u, S) \o Only(b, S)
    <3>1. u \in Seq(Events) /\ b \in Seq(Events)
      BY <2>2
    <3>2. u \o b \in Seq(Events)
      BY <3>1, ConcatProperties
    <3>3. Only(u \o b, S) = Only(u, S) \o Only(b, S)
      BY <3>1, EventsConcat
    <3>. QED BY <3>2, <3>3
  <2>4. d \in Seq(Events) /\ Only(d, S) = Only(u, S) \o Only(b, S)
    BY <2>1, <2>3
  <2>5. Only(d \o v, S) = Only(d, S) \o Only(v, S)
    BY <2>2, <2>4, EventsConcat
  <2>. QED BY <2>1, <2>4, <2>5
<1>7. Among(u) \subseteq X
  BY <1>2, <1>3 DEF Among
<1>8. Among(v) \cap Among(b) = {}
  <2>. SUFFICES ASSUME NEW i \in 1..Len(v), NEW j \in 1..Len(b), v[i] = b[j] PROVE FALSE
    BY DEF Among
  <2>1. v[i] = F[m + i] /\ b[j] = F[k + j]
    BY <1>2, <1>4
  <2>2. m + i \in 1..Len(F) /\ k + j \in 1..Len(F) /\ m + i # k + j
    BY <1>1, <1>4 DEF m
  <2>. QED BY <2>1, <2>2 DEF Once
<1>9. Among(L) \cap Among(b) = {}
  BY StretchOf
<1>10. /\ Only(u, N) = <<>> /\ Only(u, M) = <<>> /\ Only(b, M) = <<>>
       /\ Only(v, M) = Only(v, N) /\ Only(L, M) = Only(L, N)
  <2>1. Among(u) \cap N = {} /\ Among(u) \cap M = {} /\ Among(b) \cap M = {}
        /\ Among(v) \cap M = Among(v) \cap N /\ Among(L) \cap M = Among(L) \cap N
    BY <1>7, <1>8, <1>9
  <2>. HIDE DEF N, M
  <2>. QED BY <1>3, <2>1, OnlyNone, OnlySame
<1>11. \A S : Only(b, S) \in Seq(Events) /\ Only(v, S) \in Seq(Events)
              /\ Only(L, S) \in Seq(Events)
  <2>1. v \in Seq(Events)
    BY <1>4
  <2>. QED BY <2>1, EventsLeft
<1>. DEFINE bn == Only(b, N)
            vn == Only(v, N)
            ln == Only(L, N)
<1>12. bn \in Seq(Events) /\ vn \in Seq(Events) /\ ln \in Seq(Events)
  BY <1>11
<1>13. Owed(F, L, X) = ((<<>> \o bn) \o vn) \o ln
       /\ Owed(F, L, X \cup Among(b)) = ((<<>> \o <<>>) \o vn) \o ln
  BY <1>6, <1>10 DEF Owed
<1>. HIDE DEF bn, vn, ln, N, M
<1>14. <<>> \o bn = bn /\ (<<>> \o <<>>) \o vn = vn
  BY <1>12, ConcatEmptySeq
<1>15. (bn \o vn) \o ln = bn \o (vn \o ln)
  BY <1>12, ConcatAssociative, SMTT(40)
<1>16. Owed(F, L, X) = bn \o Owed(F, L, X \cup Among(b))
  <2>1. Owed(F, L, X \cup Among(b)) = vn \o ln
    BY <1>13, <1>14, Zenon
  <2>2. Owed(F, L, X) = (bn \o vn) \o ln
    BY <1>13, <1>14, Zenon
  <2>. QED BY <1>15, <2>1, <2>2, Zenon
<1>17. bn = Only(b, Events \ X)
  BY DEF bn, N
<1>. QED BY <1>16, <1>17 DEF FirstOwed

(* The part in front, and what is behind it.                               *)
LEMMA CutAgain ==
  ASSUME NEW a \in Seq(Events), NEW c \in Seq(Events)
  PROVE  /\ SubSeq(a \o c, 1, Len(a)) = a
         /\ SubSeq(a \o c, Len(a) + 1, Len(a \o c)) = c
         /\ Len(a) \in Nat /\ Len(a) <= Len(a \o c)
<1>. DEFINE d == a \o c
<1>1. /\ Len(a) \in Nat /\ Len(c) \in Nat /\ d \in Seq(Events) /\ Len(d) = Len(a) + Len(c)
      /\ \A i \in 1..(Len(a) + Len(c)) : d[i] = IF i <= Len(a) THEN a[i] ELSE c[i - Len(a)]
  BY LenProperties, ConcatProperties
<1>2. \A i \in 1..Len(d) : d[i] \in Events
  BY <1>1, ElementOfSeq
<1>. HIDE DEF d
<1>. DEFINE p == SubSeq(d, 1, Len(a))
            q == SubSeq(d, Len(a) + 1, Len(d))
<1>3. p \in Seq(Events) /\ Len(p) = Len(a) /\ \A i \in 1..Len(a) : p[i] = d[i]
  <2>1. \A i \in 1..Len(a) : d[i] \in Events
    BY <1>1, <1>2
  <2>2. /\ 1 \in Int /\ Len(a) \in Int /\ (IF 1 <= Len(a) THEN Len(a) - 1 + 1 ELSE 0) = Len(a)
        /\ Len(a) - 1 + 1 = Len(a) /\ \A i \in 1..Len(a) : 1 + i - 1 = i
    BY <1>1
  <2>. QED BY <2>1, <2>2, SubSeqProperties
<1>4. q \in Seq(Events) /\ Len(q) = Len(c) /\ \A i \in 1..Len(c) : q[i] = d[Len(a) + i]
  <2>1. \A i \in (Len(a) + 1)..Len(d) : d[i] \in Events
    BY <1>1, <1>2
  <2>2. /\ Len(a) + 1 \in Int /\ Len(d) \in Int
        /\ (IF Len(a) + 1 <= Len(d) THEN Len(d) - (Len(a) + 1) + 1 ELSE 0) = Len(c)
        /\ Len(d) - (Len(a) + 1) + 1 = Len(c)
        /\ \A i \in 1..Len(c) : (Len(a) + 1) + i - 1 = Len(a) + i
    BY <1>1
  <2>. QED BY <2>1, <2>2, SubSeqProperties
<1>. HIDE DEF p, q
<1>5. p = a
  <2>1. \A i \in 1..Len(p) : p[i] = a[i]
    BY <1>1, <1>3
  <2>. QED BY <1>3, <2>1, SeqEqual
<1>6. q = c
  <2>1. ASSUME NEW i \in 1..Len(c) PROVE q[i] = c[i]
    <3>1. /\ Len(a) + i \in 1..(Len(a) + Len(c)) /\ ~ (Len(a) + i <= Len(a))
          /\ (Len(a) + i) - Len(a) = i
      BY <1>1
    <3>2. q[i] = d[Len(a) + i]
      BY <1>4
    <3>3. d[Len(a) + i] = c[(Len(a) + i) - Len(a)]
      BY <1>1, <3>1
    <3>. QED BY <3>1, <3>2, <3>3
  <2>. QED BY <1>4, <2>1, SeqEqual
<1>. QED BY <1>1, <1>5, <1>6 DEF p, q, d

(* The helpers of AuditTrail.                                              *)
LEMMA TrailHelpers ==
  /\ \A s : Trail!Among(s) = Among(s)
  /\ \A s, e : Trail!Without(s, e) = Only(s, Among(s) \ {e})
<1>1. \A s : Trail!Among(s) = Among(s)
  BY DEF Trail!Among, Among
<1>2. \A s, S : Trail!Only(s, S) = Only(s, S)
  <2>1. \A S : Trail!Cardinality(S) = Cardinality(S)
    BY Zenon DEF Trail!Cardinality, Cardinality
  <2>2. \A s, S : Trail!Where(s, S) = Where(s, S)
    BY DEF Trail!Where, Where
  <2>3. \A at, i : Trail!Rank(at, i) = Rank(at, i)
    BY <2>1 DEF Trail!Rank, Rank
  <2>. QED BY Zenon DEF Trail!Only, Only, Trail!Where, Where, Trail!Rank, Rank,
                        Trail!Cardinality, Cardinality
<1>. QED BY <1>1, <1>2 DEF Trail!Without

(* What is outstanding is what is owed: events in the files that are not in *)
(* the trail.                                                              *)
LEMMA OutstandingOwed ==
  TypeOK => /\ Outstanding = Owed(Sent, Spooled, Among(trail))
            /\ Sent \in Seq(Events) /\ Spooled \in Seq(Events) /\ trail \in Seq(Events)
            /\ Outstanding \in Seq(Events)
            /\ Among(Outstanding) = (Among(Sent) \cup Among(Spooled)) \ Among(trail)
<1>. SUFFICES ASSUME TypeOK
              PROVE  /\ Outstanding = Owed(Sent, Spooled, Among(trail))
                     /\ Sent \in Seq(Events) /\ Spooled \in Seq(Events)
                     /\ trail \in Seq(Events)
                     /\ Outstanding \in Seq(Events)
                     /\ Among(Outstanding) = (Among(Sent) \cup Among(Spooled)) \ Among(trail)
  OBVIOUS
<1>1. live.lines \in Seq(FileLines) /\ sending.lines \in Seq(FileLines)
  BY DEF TypeOK, FileLines
<1>2. Sent \in Seq(Events) /\ Spooled \in Seq(Events) /\ trail \in Seq(Events)
  BY ListTypes
<1>3. Outstanding = Owed(Sent, Spooled, Among(trail))
  BY <1>1, OutstandingIs DEF Outstanding, Sent, Spooled, Parsed
<1>4. \A X : /\ Owed(Sent, Spooled, X) \in Seq(Events)
             /\ Among(Owed(Sent, Spooled, X)) = (Among(Sent) \cup Among(Spooled)) \ X
  <2>1. \A X : OwedIs(Sent, Spooled, X)
    BY <1>2, OwedHas
  <2>. QED BY <2>1 DEF OwedIs
<1>. QED BY <1>2, <1>3, <1>4

(* A step of AuditTrail, or none.                                          *)
TrailStep == [Trail!Next]_<<Outstanding, trail>>

(* An event that is put is kept, or nothing happens.                       *)
LEMMA PutKept ==
  ASSUME TypeOK, TypeOK', NEW e \in Events, Put(e), Sent' = Sent, trail' = trail,
         e \notin Among(trail) \cup Among(Sent) \cup Among(Spooled)
  PROVE  TrailStep
<1>1. /\ Outstanding = Owed(Sent, Spooled, Among(trail))
      /\ Sent \in Seq(Events) /\ Spooled \in Seq(Events)
      /\ Among(Outstanding) = (Among(Sent) \cup Among(Spooled)) \ Among(trail)
  BY OutstandingOwed
<1>2. Outstanding' = Owed(Sent', Spooled', Among(trail'))
  <2>1. TypeOK' => (Outstanding = Owed(Sent, Spooled, Among(trail)))'
    BY OutstandingOwed, PTL
  <2>. QED BY <2>1
<1>3. CASE Spooled' = Spooled
  BY <1>1, <1>2, <1>3 DEF TrailStep
<1>4. CASE Spooled' = Append(Spooled, e)
  <2>1. Outstanding' = Append(Outstanding, e)
    <3>1. \A X : e \notin X => Owed(Sent, Append(Spooled, e), X)
                              = Append(Owed(Sent, Spooled, X), e)
      BY <1>1, OwedMore
    <3>. QED BY <1>1, <1>2, <1>4, <3>1
  <2>2. e \notin Trail!Among(Outstanding) \cup Trail!Among(trail)
    BY <1>1, TrailHelpers
  <2>3. Trail!Keep(e)
    BY <2>1, <2>2 DEF Trail!Keep
  <2>. QED BY <2>3 DEF Trail!Next, TrailStep
<1>. QED BY <1>3, <1>4 DEF Put

(* An event that the server has seen itself.                               *)
LEMMA SeenWitnessed ==
  ASSUME TypeOK, TypeOK', NEW e \in Events, trail' = Recorded(<<e>>),
         Sent' = Sent, Spooled' = Spooled
  PROVE  TrailStep
<1>. DEFINE t == <<e>>
<1>1. /\ Outstanding = Owed(Sent, Spooled, Among(trail))
      /\ Sent \in Seq(Events) /\ Spooled \in Seq(Events) /\ trail \in Seq(Events)
  BY OutstandingOwed
<1>2. Outstanding' = Owed(Sent', Spooled', Among(trail'))
  <2>1. TypeOK' => (Outstanding = Owed(Sent, Spooled, Among(trail)))'
    BY OutstandingOwed, PTL
  <2>. QED BY <2>1
<1>3. t \in Seq(Events) /\ Among(t) = {e} /\ trail' = Recorded(t)
  BY DEF Among
<1>. HIDE DEF t
<1>4. Among(trail') = Among(trail) \cup {e}
  BY <1>1, <1>3, RecordedHas
<1>5. CASE e \in Among(trail)
  <2>1. Only(t, Events \ Among(trail)) = <<>>
    <3>1. Among(t) \cap (Events \ Among(trail)) = {}
      BY <1>3, <1>5
    <3>. QED BY <1>3, <3>1, OnlyNone
  <2>2. trail' = trail
    BY <1>1, <1>3, <2>1, ConcatEmptySeq DEF Recorded
  <2>. QED BY <1>1, <1>2, <2>2 DEF TrailStep
<1>6. CASE e \notin Among(trail)
  <2>1. Only(t, Events \ Among(trail)) = t
    <3>1. Among(t) \subseteq Events \ Among(trail)
      BY <1>3, <1>6
    <3>. QED BY <1>3, <3>1, OnlyAll
  <2>2. trail' = Append(trail, e)
    <3>1. trail' = trail \o t
      BY <1>3, <2>1 DEF Recorded
    <3>. QED BY <1>1, <3>1, AppendIsConcat DEF t
  <2>3. Outstanding' = Trail!Without(Outstanding, e)
    <3>1. Outstanding' = Owed(Sent, Spooled, Among(trail) \cup {e})
      BY <1>2, <1>4
    <3>2. \A X, f : Owed(Sent, Spooled, X \cup {f})
                    = Only(Owed(Sent, Spooled, X), Among(Owed(Sent, Spooled, X)) \ {f})
      BY <1>1, OwedLess
    <3>. QED BY <1>1, <3>1, <3>2, TrailHelpers
  <2>4. e \notin Trail!Among(trail)
    BY <1>6, TrailHelpers
  <2>5. Trail!Witness(e)
    BY <2>2, <2>3, <2>4 DEF Trail!Witness
  <2>. QED BY <2>5 DEF Trail!Next, TrailStep
<1>. QED BY <1>5, <1>6

(* A batch that is due, or as much of it as is not in the trail.           *)
LEMMA DueShipped ==
  ASSUME TypeOK, TypeOK', Listed, NEW b \in Seq(Events), NEW k \in Nat,
         Stretch(b, Sent, Among(trail), k), trail' = Recorded(b), Spooled' = Spooled,
         Sent' = Sent \/ (Sent' = <<>> /\ Among(Sent) \subseteq Among(trail'))
  PROVE  TrailStep
<1>. DEFINE a == Only(b, Events \ Among(trail))
            o == Outstanding
            c == Outstanding'
<1>1. /\ o = Owed(Sent, Spooled, Among(trail))
      /\ Sent \in Seq(Events) /\ Spooled \in Seq(Events) /\ trail \in Seq(Events)
  BY OutstandingOwed
<1>2. /\ c = Owed(Sent', Spooled', Among(trail')) /\ c \in Seq(Events)
  <2>1. TypeOK' => (/\ Outstanding = Owed(Sent, Spooled, Among(trail))
                    /\ Outstanding \in Seq(Events))'
    BY OutstandingOwed, PTL
  <2>. QED BY <2>1
<1>3. Among(trail') = Among(trail) \cup Among(b)
  BY <1>1, RecordedHas
<1>4. c = Owed(Sent, Spooled, Among(trail) \cup Among(b))
  <2>1. CASE Sent' = Sent
    BY <1>2, <1>3, <2>1
  <2>2. CASE Sent' = <<>> /\ Among(Sent) \subseteq Among(trail')
    <3>1. Only(Sent, Events \ Among(trail')) = <<>>
      <4>1. Among(Sent) \cap (Events \ Among(trail')) = {}
        BY <2>2
      <4>. QED BY <1>1, <4>1, OnlyNone
    <3>2. Only(<<>>, Events \ Among(trail')) = <<>>
      BY NoEvents
    <3>. QED BY <1>2, <1>3, <2>2, <3>1, <3>2 DEF Owed
  <2>. QED BY <2>1, <2>2
<1>5. o = a \o Owed(Sent, Spooled, Among(trail) \cup Among(b))
  <2>1. Once(Sent) /\ Among(Sent) \cap Among(Spooled) = {}
    BY DEF Listed, Apart
  <2>2. Owed(Sent, Spooled, Among(trail))
          = Only(b, Events \ Among(trail)) \o Owed(Sent, Spooled, Among(trail) \cup Among(b))
    <3>1. FirstOwed(Sent, Spooled, Among(trail), b)
      BY <1>1, <2>1, OwedFirst
    <3>. QED BY <3>1 DEF FirstOwed
  <2>. QED BY <1>1, <2>2
<1>6. a \in Seq(Events) /\ trail' = trail \o a
  BY EventsLeft DEF Recorded
<1>. HIDE DEF a, o, c
<1>7. o = a \o c
  BY <1>4, <1>5
<1>8. /\ SubSeq(o, 1, Len(a)) = a /\ SubSeq(o, Len(a) + 1, Len(o)) = c
      /\ Len(a) \in Nat /\ Len(a) <= Len(o) /\ Len(o) \in Nat
  <2>1. /\ SubSeq(o, 1, Len(a)) = a /\ SubSeq(o, Len(a) + 1, Len(o)) = c
        /\ Len(a) \in Nat /\ Len(a) <= Len(o)
    <3>1. /\ SubSeq(a \o c, 1, Len(a)) = a
          /\ SubSeq(a \o c, Len(a) + 1, Len(a \o c)) = c
          /\ Len(a) \in Nat /\ Len(a) <= Len(a \o c)
      <4>1. a \in Seq(Events) /\ c \in Seq(Events)
        BY <1>2, <1>6
      <4>. QED BY <4>1, CutAgain
    <3>. QED BY <1>7, <3>1, Zenon
  <2>2. o \in Seq(Events)
    BY <1>2, <1>6, <1>7, ConcatProperties
  <2>. QED BY <2>1, <2>2, LenProperties
<1>9. CASE Len(a) = 0
  <2>1. a = <<>>
    BY <1>6, <1>9, EmptySeq
  <2>2. trail' = trail /\ o = c
    BY <1>1, <1>2, <1>6, <1>7, <2>1, ConcatEmptySeq
  <2>. QED BY <2>2 DEF TrailStep, o, c
<1>10. CASE Len(a) # 0
  <2>1. Len(a) \in 1..Len(o)
    BY <1>8, <1>10
  <2>2. trail' = trail \o SubSeq(o, 1, Len(a)) /\ c = SubSeq(o, Len(a) + 1, Len(o))
    BY <1>6, <1>8
  <2>3. \E n \in 1..Len(Outstanding) : Trail!Ship(n)
    BY <2>1, <2>2 DEF Trail!Ship, o, c
  <2>. QED BY <2>3 DEF Trail!Next, TrailStep
<1>. QED BY <1>9, <1>10

(* Files and requests are nothing to AuditTrail.                           *)
LEMMA Unseen ==
  ASSUME TypeOK, TypeOK', trail' = trail,
         \/ Sent' = Sent /\ Spooled' = Spooled
         \/ Sent = <<>> /\ Sent' = Spooled /\ Spooled' = <<>>
  PROVE  TrailStep
<1>1. /\ Outstanding = Owed(Sent, Spooled, Among(trail))
      /\ Sent \in Seq(Events) /\ Spooled \in Seq(Events)
  BY OutstandingOwed
<1>2. Outstanding' = Owed(Sent', Spooled', Among(trail'))
  <2>1. TypeOK' => (Outstanding = Owed(Sent, Spooled, Among(trail)))'
    BY OutstandingOwed, PTL
  <2>. QED BY <2>1
<1>3. Owed(Spooled, <<>>, Among(trail)) = Owed(<<>>, Spooled, Among(trail))
  BY <1>1, OwedMoved
<1>. QED BY <1>1, <1>2, <1>3 DEF TrailStep

(* Every step is a step of AuditTrail, or none.                            *)
LEMMA TrailFollows == TypeOK /\ TypeOK' /\ Listed /\ [Next]_vars => TrailStep
<1>. SUFFICES ASSUME TypeOK, TypeOK', Listed, [Next]_vars PROVE TrailStep
  OBVIOUS
<1>0. /\ Sent \in Seq(Events) /\ trail \in Seq(Events) /\ todo \in Seq(Events)
      /\ late \subseteq Seq(Events) /\ minted \in Nat
  BY ListTypes
<1>1. ASSUME NEW e \in Events, Record(e) PROVE TrailStep
  <2>1. e = minted + 1 /\ Put(e) /\ Sent' = Sent /\ trail' = trail
    BY <1>1, PutEffect DEF Record, Mint, serverVars, Sent
  <2>2. e \notin 1..minted
    BY <1>0, <2>1
  <2>. QED BY <2>1, <2>2, PutKept DEF Listed, Known
<1>2. ASSUME NEW e \in Events, Fetched(e) PROVE TrailStep
  <2>1. trail' = Recorded(<<e>>) /\ Sent' = Sent /\ Spooled' = Spooled
    BY <1>2 DEF Fetched, diskVars, Sent, Spooled
  <2>. QED BY <2>1, SeenWitnessed
<1>3. ASSUME NEW e \in Events, FetchFails(e) PROVE TrailStep
  <2>1. e \in carried /\ Put(e) /\ Sent' = Sent /\ trail' = trail
    BY <1>3, PutEffect DEF FetchFails, Sent
  <2>. QED BY <2>1, PutKept DEF Listed, Apart
<1>4. ASSUME Flush PROVE TrailStep
  <2>1. trail' = trail
    BY <1>4 DEF Flush, serverVars
  <2>. QED BY <1>4, <2>1, FlushEffect, Unseen
<1>5. ASSUME Shipped PROVE TrailStep
  <2>. DEFINE b == Batch(todo)
              r == Rest(todo)
  <2>1. /\ trail' = Recorded(b) /\ Spooled' = Spooled
        /\ Sent' = (IF r = <<>> THEN <<>> ELSE Sent)
    BY <1>5, ShippedEffect
  <2>2. todo # <<>>
    BY <1>5 DEF Shipped
  <2>3. b \in Seq(Events) /\ r \in Seq(Events) /\ todo = b \o r
    BY <1>0, BatchThenRest
  <2>4. r = <<>> => Among(Sent) \subseteq Among(trail) \cup Among(b)
    BY <1>0, <2>2, NextDue DEF Listed, Ordered
  <2>. HIDE DEF b, r
  <2>5. Among(trail') = Among(trail) \cup Among(b)
    BY <1>0, <2>1, <2>3, RecordedHas
  <2>6. PICK k \in Nat : Stretch(todo, Sent, Among(trail), k)
    BY <2>2 DEF Listed, Ordered, ToCome, Stretch
  <2>7. Stretch(b, Sent, Among(trail), k)
    BY <1>0, <2>3, <2>6, StretchParts DEF Parted
  <2>8. Sent' = Sent \/ (Sent' = <<>> /\ Among(Sent) \subseteq Among(trail'))
    BY <2>1, <2>4, <2>5
  <2>. QED BY <2>1, <2>3, <2>7, <2>8, DueShipped
<1>6. ASSUME NEW b \in late, Late(b) PROVE TrailStep
  <2>1. trail' = Recorded(b) /\ Sent' = Sent /\ Spooled' = Spooled
    BY <1>6 DEF Late, diskVars, processVars, Sent, Spooled
  <2>2. b \in Seq(Events) /\ Due(b, Sent, Among(trail))
    BY <1>0 DEF Listed, Ordered
  <2>3. CASE Among(b) \subseteq Among(trail)
    <3>1. Only(b, Events \ Among(trail)) = <<>>
      <4>1. Among(b) \cap (Events \ Among(trail)) = {}
        BY <2>3
      <4>. QED BY <2>2, <4>1, OnlyNone
    <3>2. trail' = trail
      BY <1>0, <2>1, <3>1, ConcatEmptySeq DEF Recorded
    <3>. QED BY <2>1, <3>2, Unseen
  <2>4. CASE Len(b) = 1
    <3>1. b[1] \in Events /\ b = <<b[1]>>
      BY <2>2, <2>4
    <3>. QED BY <2>1, <3>1, SeenWitnessed
  <2>5. ASSUME NEW k \in Nat, Stretch(b, Sent, Among(trail), k) PROVE TrailStep
    BY <2>1, <2>2, <2>5, DueShipped
  <2>. QED BY <2>2, <2>3, <2>4, <2>5 DEF Due, Stretch
<1>7. ASSUME Killed PROVE TrailStep
  <2>1. trail' = trail
    BY <1>7 DEF Killed
  <2>. QED BY <1>7, <2>1, KilledEffect, Unseen
<1>8. ASSUME (\E e \in Events : Fetch(e)) \/ ShipFails \/ Unmount \/ Exit \/ Mounted
             \/ UNCHANGED vars
      PROVE  TrailStep
  <2>1. Sent' = Sent /\ Spooled' = Spooled /\ trail' = trail
    BY <1>8 DEF Fetch, ShipFails, Unmount, Exit, Mounted, vars, diskVars, serverVars,
                Sent, Spooled
  <2>. QED BY <2>1, Unseen
<1>. QED BY <1>1, <1>2, <1>3, <1>4, <1>5, <1>6, <1>7, <1>8 DEF Next

(* The queue does what AuditTrail says: an event that was kept is recorded *)
(* once, in the order of keeping, whatever is resent, lost or late.        *)
THEOREM QueueKeepsTrail == Spec => TrailSpec
<1>1. Init => Trail!Init
  <2>. SUFFICES ASSUME Init PROVE Trail!Init
    OBVIOUS
  <2>1. live.lines = <<>> /\ sending.lines = <<>> /\ trail = <<>>
    BY DEF Init, NoFile
  <2>2. Outstanding = <<>>
    <3>1. <<>> \o <<>> = <<>>
      OBVIOUS
    <3>. QED BY <2>1, <3>1, NoEvents DEF Outstanding
  <2>. QED BY <2>1, <2>2 DEF Trail!Init
<1>2. TypeOK /\ TypeOK' /\ Listed /\ [Next]_vars => [Trail!Next]_<<Outstanding, trail>>
  BY TrailFollows DEF TrailStep
<1>. QED BY <1>1, <1>2, AuditTypeCorrect, AlwaysListed, PTL DEF Spec, TrailSpec, Trail!Spec
=============================================================================
