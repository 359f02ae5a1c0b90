-------------------------- MODULE IngressTLSProofs --------------------------
(***************************************************************************)
(* What copyTLS returns, for TLS sections of any length over any domains   *)
(* and providers.                                                          *)
(***************************************************************************)
EXTENDS IngressTLS, Integers, FunctionTheorems, FiniteSetTheorems,
        WellFoundedInduction, TLAPS

-----------------------------------------------------------------------------
\* Least and greatest numbers: what the proofs use in place of induction.

LEMMA LeastNat ==
  ASSUME NEW T \in SUBSET Nat, T # {}
  PROVE  \E n \in T : \A m \in T : n <= m
<1> DEFINE R == StrictSubsetOrdering(Nat)
           F == {0..n : n \in T}
<1>1. IsWellFoundedOn(R, FiniteSubsetsOf(Nat))
  BY FS_StrictSubsetOrderingWellFounded
<1>2. \A n \in Nat : 0..n \in FiniteSubsetsOf(Nat)
  BY FS_Interval DEF FiniteSubsetsOf
<1>3. F \subseteq FiniteSubsetsOf(Nat) /\ F # {}
  BY <1>2
<1>4. \A m, n \in Nat : m < n => <<0..m, 0..n>> \in R
  <2> SUFFICES ASSUME NEW m \in Nat, NEW n \in Nat, m < n
               PROVE  <<0..m, 0..n>> \in R
    OBVIOUS
  <2>1. 0..m \subseteq 0..n /\ n \in 0..n /\ n \notin 0..m
    OBVIOUS
  <2> QED
    BY <2>1 DEF StrictSubsetOrdering
<1>5. \E x \in F : \A y \in F : ~ (<<y, x>> \in R)
  <2> HIDE DEF R, F
  <2> QED
    BY <1>1, <1>3, WFMin
<1>6. PICK n \in T : \A y \in F : ~ (<<y, 0..n>> \in R)
  BY <1>5
<1>7. \A m \in T : ~ (<<0..m, 0..n>> \in R)
  BY <1>6
<1>8. \A m \in T : ~ (m < n)
  <2> HIDE DEF R, F
  <2> SUFFICES ASSUME NEW m \in T, m < n
               PROVE  FALSE
    OBVIOUS
  <2>1. <<0..m, 0..n>> \in R
    BY <1>4
  <2> QED
    BY <1>7, <2>1
<1> QED
  BY <1>8

LEMMA GreatestNat ==
  ASSUME NEW T \in SUBSET Nat, T # {}, NEW b \in Nat, \A m \in T : m <= b
  PROVE  \E n \in T : \A m \in T : m <= n
<1> DEFINE D == {b - m : m \in T}
<1>1. D \in SUBSET Nat /\ D # {}
  <2>1. \A m \in T : m \in Nat /\ b - m \in Nat
    OBVIOUS
  <2> QED
    BY <2>1
<1>2. PICK d \in D : \A e \in D : d <= e
  <2> HIDE DEF D
  <2> QED
    BY <1>1, LeastNat
<1>3. PICK n \in T : d = b - n
  OBVIOUS
<1>4. \A m \in T : b - n <= b - m
  BY <1>2, <1>3
<1>5. ASSUME NEW m \in T PROVE m <= n
  <2>1. m \in Nat /\ n \in Nat
    OBVIOUS
  <2>2. b - n <= b - m
    BY <1>4
  <2> HIDE DEF D
  <2> QED
    BY ONLY b \in Nat, <2>1, <2>2
<1> QED
  BY <1>5

-----------------------------------------------------------------------------
\* The places a loop keeps, in their order.

Upto(P, i) == {j \in P : j <= i}
Place(P) == [n \in 1..Cardinality(P) |-> CHOOSE i \in P : Cardinality(Upto(P, i)) = n]

\* Every place kept is the one that has so many kept places up to it.
LEMMA RankIsBijection ==
  ASSUME NEW m \in Nat, NEW P \in SUBSET (1..m)
  PROVE  /\ Cardinality(P) \in Nat
         /\ \A i \in P : Cardinality(Upto(P, i)) \in 1..Cardinality(P)
         /\ \A i, j \in P : i < j => Cardinality(Upto(P, i)) < Cardinality(Upto(P, j))
         /\ \A n \in 1..Cardinality(P) : \E i \in P : Cardinality(Upto(P, i)) = n
<1> DEFINE Rank(i) == Cardinality(Upto(P, i))
           c == Cardinality(P)
           rank == [i \in P |-> Rank(i)]
<1>1. IsFiniteSet(P) /\ \A i \in P : i \in Int
  <2>1. IsFiniteSet(1..m)
    BY FS_Interval
  <2>2. IsFiniteSet(P)
    BY <2>1, FS_Subset
  <2> QED
    BY <2>2
<1>2. c \in Nat
  BY <1>1, FS_CardinalityType
<1>3. \A i \in P : IsFiniteSet(Upto(P, i)) /\ Rank(i) \in Nat /\ Rank(i) <= c
  BY <1>1, FS_Subset, FS_CardinalityType DEF Upto
<1>4. \A i \in P : Rank(i) # 0
  <2> SUFFICES ASSUME NEW i \in P, Rank(i) = 0 PROVE FALSE
    OBVIOUS
  <2>1. Upto(P, i) = {}
    BY <1>3, FS_EmptySet
  <2> QED
    BY <2>1 DEF Upto
<1>5. ASSUME NEW i \in P, NEW j \in P, i < j PROVE Rank(i) < Rank(j)
  <2>1. \A l \in P : l <= i => l <= j
    BY <1>1, <1>5
  <2>2. j <= j /\ ~ (j <= i)
    BY <1>1, <1>5
  <2>3. Upto(P, i) \subseteq Upto(P, j) /\ j \in Upto(P, j) /\ j \notin Upto(P, i)
    BY <2>1, <2>2 DEF Upto
  <2>4. Rank(i) <= Rank(j) /\ Rank(i) # Rank(j)
    BY <1>3, <2>3, FS_Subset
  <2> QED
    BY <1>3, <2>4
<1>6. \A i \in P : Rank(i) \in 1..c
  BY <1>2, <1>3, <1>4
<1>7. rank \in [P -> 1..c]
  BY <1>6
<1>8. \A i, j \in P : rank[i] = rank[j] => i = j
  <2> SUFFICES ASSUME NEW i \in P, NEW j \in P, Rank(i) = Rank(j), i # j PROVE FALSE
    OBVIOUS
  <2>1. i < j \/ j < i
    OBVIOUS
  <2> QED
    BY <1>3, <1>5, <2>1
<1>9. rank \in Surjection(P, 1..c)
  <2>1. rank \in Injection(P, 1..c)
    <3> HIDE DEF rank, c
    <3> QED
      BY <1>7, <1>8, Fun_IsInj
  <2>2. IsFiniteSet(1..c) /\ Cardinality(1..c) = c
    BY <1>2, FS_Interval
  <2> HIDE DEF rank
  <2> QED
    BY <1>2, <2>1, <2>2, FS_Injection
<1>10. \A n \in 1..c : \E i \in P : rank[i] = n
  BY <1>9 DEF Surjection
<1> QED
  BY <1>2, <1>5, <1>6, <1>10

LEMMA PlaceIsIncreasing ==
  ASSUME NEW m \in Nat, NEW P \in SUBSET (1..m)
  PROVE  /\ Cardinality(P) \in Nat
         /\ Place(P) \in [1..Cardinality(P) -> P]
         /\ \A i \in P : \E n \in 1..Cardinality(P) : Place(P)[n] = i
         /\ \A a, b \in 1..Cardinality(P) : a < b <=> Place(P)[a] < Place(P)[b]
         /\ \A a, b \in 1..Cardinality(P) : Place(P)[a] = Place(P)[b] => a = b
         /\ Cardinality(P) <= m
         /\ Cardinality(P) = m => P = 1..m
         /\ P = 1..m => Cardinality(P) = m /\ \A n \in 1..m : Place(P)[n] = n
<1> DEFINE Rank(i) == Cardinality(Upto(P, i))
           c == Cardinality(P)
           place == Place(P)
<1>1. /\ c \in Nat
      /\ \A i \in P : Rank(i) \in 1..c
      /\ \A i, j \in P : i < j => Rank(i) < Rank(j)
      /\ \A n \in 1..c : \E i \in P : Rank(i) = n
  BY RankIsBijection
<1>2. \A n \in 1..c : place[n] \in P /\ Rank(place[n]) = n
  BY <1>1 DEF Place
<1>3. place \in [1..c -> P]
  BY <1>2 DEF Place
<1> HIDE DEF place
<1>4. \A i, j \in P : Rank(i) = Rank(j) => i = j
  <2> SUFFICES ASSUME NEW i \in P, NEW j \in P, Rank(i) = Rank(j), i # j PROVE FALSE
    OBVIOUS
  <2>1. i < j \/ j < i
    OBVIOUS
  <2>2. Rank(i) \in Int
    BY <1>1
  <2> QED
    BY <1>1, <2>1, <2>2
<1>5. \A i \in P : \E n \in 1..c : place[n] = i
  BY <1>1, <1>2, <1>4
<1>6. \A a, b \in 1..c : place[a] < place[b] => a < b
  BY <1>1, <1>2
<1>7. \A a, b \in 1..c : place[a] = place[b] => a = b
  BY <1>2
<1>8. \A a, b \in 1..c : a < b => place[a] < place[b]
  <2> SUFFICES ASSUME NEW a \in 1..c, NEW b \in 1..c, a < b PROVE place[a] < place[b]
    OBVIOUS
  <2>1. place[a] \in Int /\ place[b] \in Int
    <3>1. place[a] \in P /\ place[b] \in P
      BY <1>2
    <3>2. \A i \in P : i \in Int
      OBVIOUS
    <3> QED
      BY <3>1, <3>2
  <2>2. ~ (place[b] < place[a]) /\ place[b] # place[a]
    BY <1>6, <1>7, <2>1
  <2> QED
    BY <2>1, <2>2
<1>9. c <= m /\ (c = m => P = 1..m)
  <2>1. IsFiniteSet(1..m) /\ Cardinality(1..m) = m
    BY FS_Interval
  <2> QED
    BY <2>1, FS_Subset
<1>10. ASSUME P = 1..m PROVE c = m /\ \A n \in 1..m : place[n] = n
  <2>1. c = m
    BY <1>10, FS_Interval
  <2>2. \A n \in 1..m : Upto(P, n) = 1..n
    BY <1>10 DEF Upto
  <2>3. \A n \in 1..m : Rank(n) = n
    BY <2>2, FS_Interval
  <2> QED
    BY <1>2, <1>4, <1>10, <2>1, <2>3
<1> QED
  BY <1>1, <1>3, <1>5, <1>6, <1>7, <1>8, <1>9, <1>10 DEF place

LEMMA DomainOf ==
  ASSUME NEW S, NEW s \in Seq(S)
  PROVE  DOMAIN s = 1..Len(s) /\ Len(s) \in Nat /\ (DOMAIN s = {} <=> s = << >>)
<1>1. DOMAIN s = 1..Len(s) /\ Len(s) \in Nat
  OBVIOUS
<1>2. s # << >> => Len(s) # 0
  OBVIOUS
<1>3. s # << >> => 1 \in DOMAIN s
  BY <1>1, <1>2
<1>4. s = << >> => DOMAIN s = {}
  OBVIOUS
<1> QED
  BY <1>1, <1>3, <1>4

\* Appending those places of a sequence to an empty one.
LEMMA SubsequenceOf ==
  ASSUME NEW S, NEW s \in Seq(S), NEW P \in SUBSET (1..Len(s))
  PROVE  LET r == Subsequence(s, P) IN
         /\ Cardinality(P) \in Nat
         /\ r \in Seq(S) /\ Len(r) = Cardinality(P) /\ DOMAIN r = 1..Cardinality(P)
         /\ \A n \in 1..Cardinality(P) : Place(P)[n] \in P /\ r[n] = s[Place(P)[n]]
         /\ r = << >> <=> P = {}
         /\ P = 1..Len(s) => r = s
         /\ Len(r) = Len(s) => P = 1..Len(s)
<1> DEFINE r == Subsequence(s, P)
           c == Cardinality(P)
           place == Place(P)
<1>1. Len(s) \in Nat /\ DOMAIN s = 1..Len(s) /\ \A i \in 1..Len(s) : s[i] \in S
  OBVIOUS
<1>2. /\ c \in Nat
      /\ place \in [1..c -> P]
      /\ c = Len(s) => P = 1..Len(s)
      /\ P = 1..Len(s) => c = Len(s) /\ \A n \in 1..Len(s) : place[n] = n
      /\ \A i \in P : \E n \in 1..c : place[n] = i
  BY <1>1, PlaceIsIncreasing
<1>3. r = [n \in 1..c |-> s[place[n]]]
  BY DEF Subsequence, Place, Upto
<1> HIDE DEF r, place
<1>4. \A n \in 1..c : place[n] \in P /\ r[n] = s[place[n]] /\ r[n] \in S
  BY <1>1, <1>2, <1>3
<1>5. r \in Seq(S) /\ Len(r) = c /\ DOMAIN r = 1..c
  <2> HIDE DEF c
  <2> QED
    BY <1>2, <1>3, <1>4
<1>6. r = << >> <=> P = {}
  <2>1. r = << >> <=> c = 0
    BY <1>2, <1>5
  <2>2. P = {} => c = 0
    BY FS_EmptySet
  <2>3. c = 0 => P = {}
    BY <1>2
  <2> QED
    BY <2>1, <2>2, <2>3
<1>7. ASSUME P = 1..Len(s) PROVE r = s
  <2>1. c = Len(s) /\ \A n \in 1..Len(s) : r[n] = s[n]
    BY <1>2, <1>4, <1>7
  <2> QED
    BY <1>1, <1>5, <2>1
<1> QED
  BY <1>2, <1>4, <1>5, <1>6, <1>7 DEF r, place

\* What a loop that goes through a sequence appends, one place after the other.
LEMMA SubsequenceGrows ==
  ASSUME NEW S, NEW s \in Seq(S), NEW m \in 1..Len(s),
         NEW P \in SUBSET (1..Len(s)), \A i \in P : i < m
  PROVE  Subsequence(s, P \cup {m}) = Append(Subsequence(s, P), s[m])
<1> DEFINE Q == P \cup {m}
           c == Cardinality(P)
           r == Subsequence(s, P)
           q == Subsequence(s, Q)
<1>1. Len(s) \in Nat /\ m \in Nat /\ s[m] \in S /\ m \notin P /\ Q \in SUBSET (1..Len(s))
  OBVIOUS
<1>2. c \in Nat /\ Cardinality(Q) = c + 1
  <2>1. IsFiniteSet(1..Len(s))
    BY <1>1, FS_Interval
  <2>2. IsFiniteSet(P)
    BY <2>1, FS_Subset
  <2> QED
    BY <1>1, <2>2, FS_AddElement, FS_CardinalityType
<1>3. /\ r \in Seq(S) /\ Len(r) = c
      /\ \A n \in 1..c : Place(P)[n] \in P /\ r[n] = s[Place(P)[n]]
  BY SubsequenceOf
<1>4. /\ q \in Seq(S) /\ Len(q) = c + 1
      /\ \A n \in 1..(c + 1) : Place(Q)[n] \in Q /\ q[n] = s[Place(Q)[n]]
  <2> HIDE DEF Q, q
  <2> QED
    BY <1>1, <1>2, SubsequenceOf DEF q
<1>5. \A n \in 1..c : Place(P)[n] \in P /\ Cardinality(Upto(P, Place(P)[n])) = n
  BY <1>1, RankIsBijection DEF Place
<1>6. \A n \in 1..(c + 1) : Place(Q)[n] \in Q /\ Cardinality(Upto(Q, Place(Q)[n])) = n
  <2> HIDE DEF Q
  <2> QED
    BY <1>1, <1>2, RankIsBijection DEF Place
<1>7. \A i, j \in Q : Cardinality(Upto(Q, i)) = Cardinality(Upto(Q, j)) => i = j
  <2>1. /\ \A i \in Q : Cardinality(Upto(Q, i)) \in 1..Cardinality(Q)
        /\ \A i, j \in Q : i < j => Cardinality(Upto(Q, i)) < Cardinality(Upto(Q, j))
    <3> HIDE DEF Q
    <3> QED
      BY <1>1, RankIsBijection
  <2>2. \A i \in Q : i \in Int /\ Cardinality(Upto(Q, i)) \in Int
    <3>1. \A i \in Q : i \in Int
      BY <1>1
    <3>2. \A n \in 1..Cardinality(Q) : n \in Int
      OBVIOUS
    <3> HIDE DEF Q
    <3> QED
      BY <2>1, <3>1, <3>2
  <2>3. \A i, j \in Q : i < j \/ j < i \/ i = j
    BY <2>2
  <2> HIDE DEF Q
  <2> QED
    BY <2>1, <2>2, <2>3
<1>8. \A i \in P : Upto(Q, i) = Upto(P, i)
  <2>1. \A i \in P : ~ (m <= i)
    BY <1>1
  <2> QED
    BY <2>1 DEF Upto
<1>9. Upto(Q, m) = Q
  <2>1. \A i \in P : i <= m
    BY <1>1
  <2>2. m <= m
    BY <1>1
  <2> QED
    BY <2>1, <2>2 DEF Upto
<1>10. \A n \in 1..c : Place(Q)[n] = Place(P)[n]
  <2> SUFFICES ASSUME NEW n \in 1..c PROVE Place(Q)[n] = Place(P)[n]
    OBVIOUS
  <2>1. Place(P)[n] \in P /\ Cardinality(Upto(Q, Place(P)[n])) = n
    BY <1>5, <1>8
  <2>2. n \in 1..(c + 1)
    BY <1>2
  <2> QED
    BY <1>6, <1>7, <2>1, <2>2
<1>11. Place(Q)[c + 1] = m
  <2>1. c + 1 \in 1..(c + 1)
    BY <1>2
  <2> QED
    BY <1>2, <1>6, <1>7, <1>9, <2>1
<1>12. \A n \in 1..(c + 1) : q[n] = Append(r, s[m])[n]
  <2> SUFFICES ASSUME NEW n \in 1..(c + 1) PROVE q[n] = Append(r, s[m])[n]
    OBVIOUS
  <2>1. CASE n = c + 1
    <3>1. Append(r, s[m])[n] = s[m]
      <4> HIDE DEF r, c
      <4> QED
        BY <1>1, <1>3, <2>1
    <3> QED
      BY <1>4, <1>11, <2>1, <3>1
  <2>2. n = c + 1 \/ n \in 1..c
    BY <1>2
  <2>3. CASE n \in 1..c
    <3>1. Append(r, s[m])[n] = r[n]
      <4> HIDE DEF r, c
      <4> QED
        BY <1>1, <1>2, <1>3, <2>3
    <3> QED
      BY <1>3, <1>4, <1>10, <2>3, <3>1
  <2> QED
    BY <2>1, <2>2, <2>3
<1>13. Append(r, s[m]) \in Seq(S) /\ Len(Append(r, s[m])) = c + 1
  <2> HIDE DEF r, c
  <2> QED
    BY <1>1, <1>3
<1> QED
  <2> HIDE DEF r, q, c, Q
  <2> DEFINE u == Append(r, s[m])
  <2>1. u \in Seq(S) /\ Len(u) = c + 1 /\ \A n \in 1..(c + 1) : q[n] = u[n]
    BY <1>12, <1>13
  <2> HIDE DEF u
  <2>2. q = u
    BY <1>2, <1>4, <2>1
  <2> QED
    BY <2>2 DEF q, r, Q, u

Below(P, n) == {i \in P : i < n}

LEMMA LoopAppends ==
  ASSUME NEW S, NEW s \in Seq(S), NEW P \in SUBSET (1..Len(s)), NEW n \in Nat \ {0}
  PROVE  /\ Subsequence(s, Below(P, 1)) = << >>
         /\ n \in P => Subsequence(s, Below(P, n + 1)) = Append(Subsequence(s, Below(P, n)), s[n])
         /\ n \notin P => Subsequence(s, Below(P, n + 1)) = Subsequence(s, Below(P, n))
         /\ n > Len(s) => Subsequence(s, Below(P, n)) = Subsequence(s, P)
<1>1. Len(s) \in Nat /\ \A j \in P : j \in Nat /\ 1 <= j /\ j <= Len(s)
  OBVIOUS
<1>2. Subsequence(s, Below(P, 1)) = << >>
  <2>1. \A j \in P : ~ (j < 1)
    BY <1>1
  <2>2. Below(P, 1) = {}
    BY ONLY <2>1 DEF Below
  <2>3. Subsequence(s, {}) = << >>
    BY SubsequenceOf
  <2> QED
    BY <2>2, <2>3
<1>3. \A j \in P : j < n + 1 <=> j < n \/ j = n
  BY <1>1
<1>4. ASSUME n \in P
      PROVE  Subsequence(s, Below(P, n + 1)) = Append(Subsequence(s, Below(P, n)), s[n])
  <2> DEFINE B == Below(P, n)
  <2>1. Below(P, n + 1) = B \cup {n}
    BY ONLY <1>3, <1>4 DEF Below
  <2>2. B \in SUBSET (1..Len(s)) /\ (\A j \in B : j < n) /\ n \in 1..Len(s)
    BY <1>4 DEF Below
  <2>3. Subsequence(s, B \cup {n}) = Append(Subsequence(s, B), s[n])
    <3> HIDE DEF B
    <3> QED
      BY <2>2, SubsequenceGrows
  <2> QED
    BY <2>1, <2>3
<1>5. ASSUME n \notin P PROVE Below(P, n + 1) = Below(P, n)
  BY ONLY <1>3, <1>5 DEF Below
<1>6. ASSUME n > Len(s) PROVE Below(P, n) = P
  <2>1. \A j \in P : j < n
    BY <1>1, <1>6
  <2> QED
    BY ONLY <2>1 DEF Below
<1> QED
  BY <1>2, <1>4, <1>5, <1>6

-----------------------------------------------------------------------------
\* The entries copyTLS returns.

LEMMA SectionParts ==
  ASSUME NEW S, NEW tls \in TLSSection(S)
  PROVE  /\ DOMAIN tls = 1..Len(tls) /\ Len(tls) \in Nat
         /\ DOMAIN tls = {} <=> tls = << >>
         /\ \A i \in DOMAIN tls :
              /\ tls[i] \in [hosts : Seq(Host), secretName : S]
              /\ tls[i].hosts \in Seq(Host)
              /\ DOMAIN tls[i].hosts = 1..Len(tls[i].hosts)
              /\ Len(tls[i].hosts) \in Nat
              /\ DOMAIN tls[i].hosts = {} <=> tls[i].hosts = << >>
<1> DEFINE E == [hosts : Seq(Host), secretName : S]
<1>1. tls \in Seq(E) /\ \A entry \in E : entry.hosts \in Seq(Host)
  BY DEF TLSSection
<1> HIDE DEF E
<1>2. \A i \in DOMAIN tls : tls[i] \in E
  BY <1>1
<1>3. \A hosts \in Seq(Host) : /\ DOMAIN hosts = 1..Len(hosts)
                               /\ Len(hosts) \in Nat
                               /\ DOMAIN hosts = {} <=> hosts = << >>
  BY DomainOf
<1>4. DOMAIN tls = 1..Len(tls) /\ Len(tls) \in Nat /\ (DOMAIN tls = {} <=> tls = << >>)
  BY <1>1, DomainOf
<1> QED
  BY <1>1, <1>2, <1>3, <1>4 DEF E

LEMMA ManagedHostsOf ==
  ASSUME NEW hosts \in Seq(Host)
  PROVE  LET P == ManagedPlaces(hosts) IN
         /\ P \in SUBSET (1..Len(hosts))
         /\ Cardinality(P) \in Nat
         /\ ManagedHosts(hosts) \in Seq(Host)
         /\ Len(ManagedHosts(hosts)) = Cardinality(P)
         /\ \A n \in 1..Cardinality(P) :
              Place(P)[n] \in P /\ ManagedHosts(hosts)[n] = hosts[Place(P)[n]]
         /\ P = 1..Len(hosts) => ManagedHosts(hosts) = hosts
         /\ Len(ManagedHosts(hosts)) = Len(hosts) => P = 1..Len(hosts)
<1>1. DOMAIN hosts = 1..Len(hosts)
  OBVIOUS
<1>2. ManagedPlaces(hosts) \in SUBSET (1..Len(hosts))
  BY <1>1 DEF ManagedPlaces
<1> QED
  BY <1>2, SubsequenceOf DEF ManagedHosts

\* Element n of the copy is entry Place(KeptPlaces(tls))[n] without its other hosts.
LEMMA ManagedEntriesOf ==
  ASSUME NEW S, NEW tls \in TLSSection(S)
  PROVE  LET P == KeptPlaces(tls)
             r == ManagedEntries(tls) IN
         /\ P \in SUBSET (1..Len(tls))
         /\ Cardinality(P) \in Nat
         /\ r \in TLSSection(S)
         /\ Len(r) = Cardinality(P)
         /\ \A n \in 1..Cardinality(P) :
              /\ Place(P)[n] \in P
              /\ r[n] = [tls[Place(P)[n]] EXCEPT !.hosts = ManagedHosts(@)]
         /\ (\A i \in 1..Len(tls) : ManagedPlaces(tls[i].hosts) = DOMAIN tls[i].hosts
                                    /\ tls[i].hosts # << >>)
              => r = tls
         /\ Len(r) = Len(tls) => P = 1..Len(tls)
<1> DEFINE P == KeptPlaces(tls)
           E == [hosts : Seq(Host), secretName : S]
           trimmed == [i \in DOMAIN tls |-> [tls[i] EXCEPT !.hosts = ManagedHosts(@)]]
           r == ManagedEntries(tls)
<1>1. /\ tls \in Seq(E)
      /\ Len(tls) \in Nat
      /\ DOMAIN tls = 1..Len(tls)
      /\ \A i \in 1..Len(tls) : tls[i] \in E /\ tls[i].hosts \in Seq(Host)
  BY SectionParts DEF TLSSection
<1>2. P \in SUBSET (1..Len(tls))
  BY <1>1 DEF KeptPlaces
<1>3. \A i \in 1..Len(tls) : ManagedHosts(tls[i].hosts) \in Seq(Host)
  BY <1>1, ManagedHostsOf
<1>4. trimmed \in Seq(E) /\ Len(trimmed) = Len(tls)
  <2>1. \A i \in 1..Len(tls) : [tls[i] EXCEPT !.hosts = ManagedHosts(@)] \in E
    BY <1>1, <1>3
  <2> HIDE DEF E
  <2> QED
    BY <1>1, <2>1
<1>5. r = Subsequence(trimmed, P)
  BY DEF ManagedEntries
<1>6. /\ Cardinality(P) \in Nat
      /\ r \in Seq(E)
      /\ Len(r) = Cardinality(P)
      /\ \A n \in 1..Cardinality(P) : Place(P)[n] \in P /\ r[n] = trimmed[Place(P)[n]]
      /\ P = 1..Len(tls) => r = trimmed
      /\ Len(r) = Len(tls) => P = 1..Len(tls)
  <2> HIDE DEF trimmed, r, P, E
  <2> QED
    BY <1>2, <1>4, <1>5, SubsequenceOf
<1>7. \A n \in 1..Cardinality(P) :
        r[n] = [tls[Place(P)[n]] EXCEPT !.hosts = ManagedHosts(@)]
  <2> HIDE DEF r, P
  <2> QED
    BY <1>1, <1>2, <1>6
<1>8. ASSUME \A i \in 1..Len(tls) : ManagedPlaces(tls[i].hosts) = DOMAIN tls[i].hosts
                                    /\ tls[i].hosts # << >>
      PROVE  r = tls
  <2>1. \A i \in 1..Len(tls) : DOMAIN tls[i].hosts = 1..Len(tls[i].hosts)
                               /\ DOMAIN tls[i].hosts # {}
    BY <1>1, <1>8, SectionParts
  <2>2. \A i \in 1..Len(tls) : i \in P
    BY <1>1, <1>8, <2>1 DEF KeptPlaces
  <2>3. \A i \in 1..Len(tls) : ManagedHosts(tls[i].hosts) = tls[i].hosts
    BY <1>1, <1>8, <2>1, ManagedHostsOf
  <2>4. \A i \in 1..Len(tls) : trimmed[i] = tls[i]
    BY <1>1, <2>3
  <2>5. trimmed = tls
    <3> HIDE DEF trimmed, E
    <3> QED
      BY <1>1, <1>4, <2>4
  <2> HIDE DEF trimmed, r, P
  <2> QED
    BY <1>2, <1>6, <2>2, <2>5
<1> QED
  <2> HIDE DEF trimmed
  <2> QED
    BY <1>2, <1>6, <1>7, <1>8 DEF TLSSection

LEMMA ManagedEntriesAreManaged ==
  ASSUME NEW S, NEW tls \in TLSSection(S),
         NEW i \in DOMAIN ManagedEntries(tls), NEW j \in DOMAIN ManagedEntries(tls)[i].hosts
  PROVE  IsManaged(ManagedEntries(tls)[i].hosts[j])
<1> DEFINE entries == ManagedEntries(tls)
           e == Place(KeptPlaces(tls))[i]
<1>1. /\ e \in DOMAIN tls
      /\ entries[i] = [tls[e] EXCEPT !.hosts = ManagedHosts(@)]
  <2>1. /\ KeptPlaces(tls) \in SUBSET (1..Len(tls))
        /\ Len(entries) = Cardinality(KeptPlaces(tls))
        /\ entries \in TLSSection(S)
        /\ \A n \in 1..Cardinality(KeptPlaces(tls)) :
             /\ Place(KeptPlaces(tls))[n] \in KeptPlaces(tls)
             /\ entries[n] = [tls[Place(KeptPlaces(tls))[n]] EXCEPT !.hosts = ManagedHosts(@)]
    BY ManagedEntriesOf
  <2>2. i \in 1..Cardinality(KeptPlaces(tls)) /\ DOMAIN tls = 1..Len(tls)
    BY <2>1, SectionParts
  <2> HIDE DEF entries
  <2> QED
    BY <2>1, <2>2
<1>2. tls[e].hosts \in Seq(Host) /\ entries[i].hosts = ManagedHosts(tls[e].hosts)
  <2> HIDE DEF entries, e
  <2> QED
    BY <1>1, SectionParts
<1> DEFINE hosts == tls[e].hosts
           P == ManagedPlaces(hosts)
<1>3. /\ ManagedHosts(hosts) \in Seq(Host)
      /\ Len(ManagedHosts(hosts)) = Cardinality(P)
      /\ \A n \in 1..Cardinality(P) :
           Place(P)[n] \in P /\ ManagedHosts(hosts)[n] = hosts[Place(P)[n]]
  BY <1>2, ManagedHostsOf
<1>4. j \in 1..Cardinality(P)
  BY <1>2, <1>3, DomainOf
<1> QED
  BY <1>2, <1>3, <1>4 DEF ManagedPlaces

LEMMA CopyOf ==
  ASSUME NEW S, NEW tls \in TLSSection(S), NEW copy \in CopyTLS(tls)
  PROVE  /\ copy.provider \in Provider \cup {NoProvider}
         /\ copy.tls \in {<< >>, ManagedEntries(tls)}
         /\ copy.tls \in TLSSection(S)
<1>1. PICK m \in Matching(tls) :
        copy = IF Conflict(tls, m)
               THEN [tls |-> << >>, provider |-> NoProvider]
               ELSE [tls |-> ManagedEntries(tls), provider |-> FoundProvider(tls, m)]
  BY DEF CopyTLS, CopyWith
<1>2. m \in [Occurrence(tls) -> Domain]
  BY DEF Matching
<1>3. FoundProvider(tls, m) \in Provider \cup {NoProvider}
  <2> DEFINE last == {o \in Occurrence(tls) : \A p \in Occurrence(tls) : ~ Before(o, p)}
  <2>1. CASE last = {}
    BY <2>1 DEF FoundProvider
  <2>2. CASE last # {}
    <3>1. (CHOOSE o \in last : TRUE) \in Occurrence(tls)
      BY <2>2
    <3>2. DomainToDNSProvider[m[CHOOSE o \in last : TRUE]] \in Provider \cup {NoProvider}
      BY <1>2, <3>1, TLSAssumption
    <3> QED
      BY <2>2, <3>2 DEF FoundProvider
  <2> QED
    BY <2>1, <2>2
<1>4. << >> \in TLSSection(S) /\ ManagedEntries(tls) \in TLSSection(S)
  <2>1. << >> \in TLSSection(S)
    BY DEF TLSSection
  <2> QED
    BY <2>1, ManagedEntriesOf
<1> QED
  BY <1>1, <1>3, <1>4

\* What a sync writes satisfies the next one exactly when nothing was left out.
LEMMA UpToDate ==
  ASSUME NEW S, NEW tls \in TLSSection(S), NEW copy \in CopyTLS(tls), NEW ns
  PROVE  DeepEqual(tls, PrefixWithNamespace(copy.tls, ns), ns) <=>
           /\ tls # << >>
           /\ copy.tls # << >>
           /\ \A i \in DOMAIN tls :
                /\ tls[i].hosts # << >>
                /\ \A j \in DOMAIN tls[i].hosts : IsManaged(tls[i].hosts[j])
<1> DEFINE entries == ManagedEntries(tls)
           Whole == \A i \in DOMAIN tls :
                      /\ tls[i].hosts # << >>
                      /\ \A j \in DOMAIN tls[i].hosts : IsManaged(tls[i].hosts[j])
<1>1. copy.tls \in {<< >>, entries} /\ copy.tls \in TLSSection(S)
  BY CopyOf
<1>2. /\ DOMAIN tls = 1..Len(tls) /\ Len(tls) \in Nat
      /\ DOMAIN tls = {} <=> tls = << >>
      /\ DOMAIN copy.tls = 1..Len(copy.tls) /\ Len(copy.tls) \in Nat
  BY <1>1, SectionParts
<1>3. \A i \in DOMAIN tls : tls[i] \in [hosts : Seq(Host), secretName : S]
  BY SectionParts
<1>4. ASSUME tls # << >>, copy.tls # << >>, Whole
      PROVE  DeepEqual(tls, PrefixWithNamespace(copy.tls, ns), ns)
  <2>1. \A i \in 1..Len(tls) :
          ManagedPlaces(tls[i].hosts) = DOMAIN tls[i].hosts /\ tls[i].hosts # << >>
    BY <1>2, <1>4 DEF ManagedPlaces
  <2>2. entries = tls
    BY <2>1, ManagedEntriesOf
  <2> HIDE DEF entries
  <2> QED
    BY <1>1, <1>4, <2>2 DEF DeepEqual
<1>5. ASSUME DeepEqual(tls, PrefixWithNamespace(copy.tls, ns), ns)
      PROVE  tls # << >> /\ copy.tls # << >> /\ Whole
  <2> DEFINE Prefixed(t) == [i \in DOMAIN t |-> [t[i] EXCEPT !.secretName = <<ns, @>>]]
  <2>1. tls # << >> /\ Prefixed(tls) = Prefixed(copy.tls)
    BY <1>5 DEF DeepEqual, PrefixWithNamespace
  <2>2. DOMAIN tls = DOMAIN copy.tls
    <3>1. DOMAIN Prefixed(tls) = DOMAIN tls /\ DOMAIN Prefixed(copy.tls) = DOMAIN copy.tls
      OBVIOUS
    <3> HIDE DEF Prefixed
    <3> QED
      BY <2>1, <3>1
  <2>3. Len(copy.tls) = Len(tls) /\ copy.tls # << >>
    <3>1. DOMAIN tls # {}
      BY <1>2, <2>1
    <3> QED
      BY <1>2, <2>2, <3>1
  <2>4. copy.tls = entries
    BY <1>1, <2>3
  <2>5. /\ KeptPlaces(tls) = 1..Len(tls)
        /\ Cardinality(KeptPlaces(tls)) = Len(tls)
        /\ \A n \in 1..Len(tls) :
             entries[n] = [tls[Place(KeptPlaces(tls))[n]] EXCEPT !.hosts = ManagedHosts(@)]
    <3> HIDE DEF entries
    <3> QED
      BY <2>3, <2>4, ManagedEntriesOf DEF entries
  <2>6. \A n \in 1..Len(tls) : Place(KeptPlaces(tls))[n] = n
    BY <1>2, <2>5, PlaceIsIncreasing
  <2>7. \A i \in 1..Len(tls) : ManagedHosts(tls[i].hosts) = tls[i].hosts
    <3> SUFFICES ASSUME NEW i \in 1..Len(tls)
                 PROVE  ManagedHosts(tls[i].hosts) = tls[i].hosts
      OBVIOUS
    <3>1. Prefixed(tls)[i].hosts = tls[i].hosts
      BY <1>2, <1>3
    <3>2. copy.tls[i].hosts = ManagedHosts(tls[i].hosts)
      <4>1. entries[i] = [tls[i] EXCEPT !.hosts = ManagedHosts(@)]
        BY <2>5, <2>6
      <4> HIDE DEF entries
      <4> QED
        BY <1>2, <1>3, <2>4, <4>1
    <3>3. copy.tls[i] \in [hosts : Seq(Host), secretName : S]
      BY <1>1, <1>2, <2>3, SectionParts
    <3>4. Prefixed(copy.tls)[i].hosts = copy.tls[i].hosts
      BY <1>2, <2>2, <3>3
    <3> HIDE DEF Prefixed
    <3> QED
      BY <2>1, <3>1, <3>2, <3>4
  <2>8. \A i \in 1..Len(tls) : ManagedPlaces(tls[i].hosts) = DOMAIN tls[i].hosts
    <3> SUFFICES ASSUME NEW i \in 1..Len(tls)
                 PROVE  ManagedPlaces(tls[i].hosts) = DOMAIN tls[i].hosts
      OBVIOUS
    <3>1. tls[i].hosts \in Seq(Host)
      BY <1>2, <1>3
    <3> QED
      BY <2>7, <3>1, DomainOf, ManagedHostsOf
  <2>9. \A i \in 1..Len(tls) : ManagedPlaces(tls[i].hosts) # {}
    BY <2>5 DEF KeptPlaces
  <2>10. Whole
    <3> SUFFICES ASSUME NEW i \in DOMAIN tls
                 PROVE  /\ tls[i].hosts # << >>
                        /\ \A j \in DOMAIN tls[i].hosts : IsManaged(tls[i].hosts[j])
      OBVIOUS
    <3>1. tls[i].hosts \in Seq(Host)
      BY <1>2, <1>3
    <3>2. ManagedPlaces(tls[i].hosts) = DOMAIN tls[i].hosts /\ DOMAIN tls[i].hosts # {}
      BY <1>2, <2>8, <2>9
    <3> QED
      BY <3>1, <3>2, DomainOf DEF ManagedPlaces
  <2> QED
    BY <2>1, <2>3, <2>10
<1> QED
  BY <1>4, <1>5

-----------------------------------------------------------------------------
\* The occurrences of managed hosts, in the order of the loops.

LEMMA OccurrenceOf ==
  ASSUME NEW S, NEW tls \in TLSSection(S)
  PROVE  /\ \A o \in Occurrence(tls) :
              /\ o = <<o[1], o[2]>>
              /\ o[1] \in DOMAIN tls /\ o[1] \in Nat /\ o[1] <= Len(tls)
              /\ o[2] \in ManagedPlaces(tls[o[1]].hosts)
              /\ o[2] \in Nat /\ o[2] <= Len(tls[o[1]].hosts)
         /\ \A i \in DOMAIN tls : \A j \in ManagedPlaces(tls[i].hosts) :
              <<i, j>> \in Occurrence(tls)
<1>1. \A i \in DOMAIN tls : \A j \in DOMAIN tls[i].hosts :
        /\ i \in Nat /\ i <= Len(tls)
        /\ j \in Nat /\ j <= Len(tls[i].hosts)
  BY SectionParts
<1>2. ASSUME NEW o \in Occurrence(tls)
      PROVE  /\ o = <<o[1], o[2]>>
             /\ o[1] \in DOMAIN tls
             /\ o[2] \in ManagedPlaces(tls[o[1]].hosts)
             /\ o[2] \in DOMAIN tls[o[1]].hosts
  BY DEF Occurrence, ManagedPlaces
<1>3. ASSUME NEW i \in DOMAIN tls, NEW j \in ManagedPlaces(tls[i].hosts)
      PROVE  <<i, j>> \in Occurrence(tls)
  BY DEF Occurrence, ManagedPlaces
<1> QED
  BY <1>1, <1>2, <1>3

LEMMA BeforeIsTotal ==
  ASSUME NEW S, NEW tls \in TLSSection(S)
  PROVE  \A o, p \in Occurrence(tls) :
           /\ ~ Before(o, o)
           /\ o = p \/ Before(o, p) \/ Before(p, o)
           /\ \A q \in Occurrence(tls) : Before(o, p) /\ Before(p, q) => Before(o, q)
<1>1. \A o \in Occurrence(tls) : o = <<o[1], o[2]>> /\ o[1] \in Nat /\ o[2] \in Nat
  BY OccurrenceOf
<1> QED
  BY <1>1 DEF Before

\* Some occurrences have a first and a last one.
LEMMA FirstOccurrence ==
  ASSUME NEW S, NEW tls \in TLSSection(S), NEW T \in SUBSET Occurrence(tls), T # {}
  PROVE  \E o \in T : \A p \in T : ~ Before(p, o)
<1>1. \A o \in T : o = <<o[1], o[2]>> /\ o[1] \in Nat /\ o[2] \in Nat
  BY OccurrenceOf
<1> DEFINE I == {o[1] : o \in T}
<1>2. PICK i \in I : \A m \in I : i <= m
  <2>1. I \in SUBSET Nat /\ I # {}
    BY <1>1
  <2> HIDE DEF I
  <2> QED
    BY <2>1, LeastNat
<1> DEFINE J == {o[2] : o \in {p \in T : p[1] = i}}
<1>3. PICK j \in J : \A m \in J : j <= m
  <2>1. J \in SUBSET Nat /\ J # {}
    BY <1>1
  <2> HIDE DEF J
  <2> QED
    BY <2>1, LeastNat
<1>4. PICK o \in T : o[1] = i /\ o[2] = j
  OBVIOUS
<1>5. \A p \in T : i <= p[1] /\ (p[1] = i => j <= p[2])
  BY <1>2, <1>3
<1>6. \A p \in T : ~ Before(p, o)
  <2> HIDE DEF I, J
  <2> QED
    BY <1>1, <1>4, <1>5 DEF Before
<1> QED
  BY <1>6

LEMMA LastOccurrence ==
  ASSUME NEW S, NEW tls \in TLSSection(S), NEW T \in SUBSET Occurrence(tls), T # {}
  PROVE  \E o \in T : \A p \in T : ~ Before(o, p)
<1>1. \A o \in T : /\ o = <<o[1], o[2]>>
                   /\ o[1] \in Nat /\ o[1] <= Len(tls) /\ o[1] \in DOMAIN tls
                   /\ o[2] \in Nat /\ o[2] <= Len(tls[o[1]].hosts)
  BY OccurrenceOf
<1> DEFINE I == {o[1] : o \in T}
<1>2. PICK i \in I : \A m \in I : m <= i
  <2>1. I \in SUBSET Nat /\ I # {} /\ \A m \in I : m <= Len(tls)
    BY <1>1
  <2>2. Len(tls) \in Nat
    BY SectionParts
  <2> HIDE DEF I
  <2> QED
    BY <2>1, <2>2, GreatestNat
<1> DEFINE J == {o[2] : o \in {p \in T : p[1] = i}}
<1>3. PICK j \in J : \A m \in J : m <= j
  <2>1. J \in SUBSET Nat /\ J # {} /\ \A m \in J : m <= Len(tls[i].hosts)
    BY <1>1
  <2>2. Len(tls[i].hosts) \in Nat
    BY <1>1, SectionParts
  <2> HIDE DEF J
  <2> QED
    BY <2>1, <2>2, GreatestNat
<1>4. PICK o \in T : o[1] = i /\ o[2] = j
  OBVIOUS
<1>5. \A p \in T : p[1] <= i /\ (p[1] = i => p[2] <= j)
  BY <1>2, <1>3
<1>6. \A p \in T : ~ Before(o, p)
  <2> HIDE DEF I, J
  <2> QED
    BY <1>1, <1>4, <1>5 DEF Before
<1> QED
  BY <1>6

\* The last one is unique, and its provider is the one found.
LEMMA FoundIsOfLast ==
  ASSUME NEW S, NEW tls \in TLSSection(S), NEW m, NEW o \in Occurrence(tls),
         \A p \in Occurrence(tls) : ~ Before(o, p)
  PROVE  FoundProvider(tls, m) = DomainToDNSProvider[m[o]]
<1> DEFINE last == {p \in Occurrence(tls) : \A q \in Occurrence(tls) : ~ Before(p, q)}
<1>1. last = {o}
  BY BeforeIsTotal
<1>2. (CHOOSE p \in last : TRUE) = o
  BY <1>1
<1> QED
  BY <1>1, <1>2 DEF FoundProvider

\* Without a conflict every occurrence got the provider found, or none.
LEMMA OneProvider ==
  ASSUME NEW S, NEW tls \in TLSSection(S), NEW m \in Matching(tls), ~ Conflict(tls, m),
         NEW o \in Occurrence(tls)
  PROVE  DomainToDNSProvider[m[o]] \in {FoundProvider(tls, m), NoProvider}
<1> DEFINE Occ == Occurrence(tls)
           Of(p) == DomainToDNSProvider[m[p]]
           Others == {p \in Occ : Before(o, p) /\ Of(p) # Of(o)}
<1>1. PICK last \in Occ : \A p \in Occ : ~ Before(last, p)
  BY LastOccurrence
<1>2. FoundProvider(tls, m) = Of(last)
  BY <1>1, FoundIsOfLast
<1>3. SUFFICES ASSUME Of(o) # NoProvider, Of(o) # Of(last)
               PROVE  FALSE
  BY <1>2
<1>4. last \in Others
  BY <1>1, <1>3, BeforeIsTotal
<1>5. PICK p \in Others : \A q \in Others : ~ Before(q, p)
  <2> HIDE DEF Others
  <2>1. Others \in SUBSET Occ /\ Others # {}
    BY <1>4 DEF Others
  <2> QED
    BY <2>1, FirstOccurrence
<1> DEFINE Between == {q \in Occ : Before(q, p) /\ (q = o \/ Before(o, q))}
<1>6. PICK q \in Between : \A r \in Between : ~ Before(q, r)
  <2>1. Between \in SUBSET Occ /\ o \in Between
    OBVIOUS
  <2> HIDE DEF Between
  <2> QED
    BY <2>1, LastOccurrence
<1>7. Of(q) = Of(o)
  BY <1>5, <1>6
<1>8. ~ \E r \in Occ : Before(q, r) /\ Before(r, p)
  <2> SUFFICES ASSUME NEW r \in Occ, Before(q, r), Before(r, p) PROVE FALSE
    OBVIOUS
  <2>1. Before(o, r)
    BY BeforeIsTotal
  <2> QED
    BY <1>6, <2>1
<1>9. Conflict(tls, m)
  BY <1>3, <1>5, <1>6, <1>7, <1>8 DEF Conflict
<1> QED
  BY <1>9

-----------------------------------------------------------------------------
\* What is copied asks for the provider it came with.

LEMMA PrefixOf ==
  ASSUME NEW S, NEW tls \in TLSSection(S), NEW ns
  PROVE  LET r == PrefixWithNamespace(tls, ns) IN
         /\ r \in TLSSection({<<ns, name>> : name \in S})
         /\ DOMAIN r = DOMAIN tls
         /\ \A i \in DOMAIN tls : /\ r[i].hosts = tls[i].hosts
                                  /\ r[i].secretName = <<ns, tls[i].secretName>>
<1> DEFINE names == {<<ns, name>> : name \in S}
           E == [hosts : Seq(Host), secretName : names]
           r == PrefixWithNamespace(tls, ns)
<1>1. /\ DOMAIN tls = 1..Len(tls) /\ Len(tls) \in Nat
      /\ \A i \in DOMAIN tls : tls[i] \in [hosts : Seq(Host), secretName : S]
  BY SectionParts
<1>2. r = [i \in 1..Len(tls) |-> [tls[i] EXCEPT !.secretName = <<ns, @>>]]
  BY <1>1 DEF PrefixWithNamespace
<1>3. \A i \in 1..Len(tls) :
        LET entry == [tls[i] EXCEPT !.secretName = <<ns, @>>] IN
        entry \in E /\ entry.hosts = tls[i].hosts
        /\ entry.secretName = <<ns, tls[i].secretName>>
  BY <1>1
<1> HIDE DEF E, r
<1>4. r \in Seq(E)
  BY <1>1, <1>2, <1>3
<1>5. DOMAIN r = DOMAIN tls
  BY <1>1, <1>2
<1>6. \A i \in DOMAIN tls : /\ r[i].hosts = tls[i].hosts
                            /\ r[i].secretName = <<ns, tls[i].secretName>>
  BY <1>1, <1>2, <1>3
<1> QED
  BY <1>4, <1>5, <1>6 DEF E, r, TLSSection

\* Where an occurrence of the copy comes from.
Origin(tls, o) ==
  LET i == Place(KeptPlaces(tls))[o[1]]
  IN  <<i, Place(ManagedPlaces(tls[i].hosts))[o[2]]>>

\* The occurrences of the copy are those of the section, in the same order.
LEMMA OriginOf ==
  ASSUME NEW S, NEW tls \in TLSSection(S), NEW ns
  PROVE  LET r == PrefixWithNamespace(ManagedEntries(tls), ns) IN
         /\ \A o \in Occurrence(r) :
              /\ Origin(tls, o) \in Occurrence(tls)
              /\ r[o[1]].hosts[o[2]] = tls[Origin(tls, o)[1]].hosts[Origin(tls, o)[2]]
         /\ \A o, p \in Occurrence(r) : Before(o, p) <=> Before(Origin(tls, o), Origin(tls, p))
         /\ \A q \in Occurrence(tls) : \E o \in Occurrence(r) : Origin(tls, o) = q
<1> DEFINE K == KeptPlaces(tls)
           c == Cardinality(K)
           place == Place(K)
           entries == ManagedEntries(tls)
           r == PrefixWithNamespace(entries, ns)
           P(i) == ManagedPlaces(tls[i].hosts)
           within(i) == Place(P(i))
<1>1. /\ K \in SUBSET (1..Len(tls)) /\ Len(tls) \in Nat /\ c \in Nat
      /\ entries \in TLSSection(S)
      /\ Len(entries) = c
      /\ \A n \in 1..c :
           place[n] \in K /\ entries[n] = [tls[place[n]] EXCEPT !.hosts = ManagedHosts(@)]
  <2>1. Len(tls) \in Nat
    BY SectionParts
  <2> QED
    BY <2>1, ManagedEntriesOf
<1>2. /\ \A i \in K : \E n \in 1..c : place[n] = i
      /\ \A a, b \in 1..c : a < b <=> place[a] < place[b]
      /\ \A a, b \in 1..c : place[a] = place[b] => a = b
  BY <1>1, PlaceIsIncreasing
<1>3. /\ r \in TLSSection({<<ns, name>> : name \in S})
      /\ DOMAIN entries = 1..c /\ DOMAIN r = 1..c
      /\ \A n \in 1..c : r[n].hosts = entries[n].hosts
  <2> HIDE DEF r, entries, c, place
  <2>1. DOMAIN entries = 1..c
    BY <1>1, SectionParts
  <2> QED
    BY SMTT(30), <1>1, <2>1, PrefixOf DEF r
<1>4. \A i \in 1..Len(tls) : tls[i] \in [hosts : Seq(Host), secretName : S]
  BY SectionParts
<1>5. \A n \in 1..c : r[n].hosts = ManagedHosts(tls[place[n]].hosts)
  <2> HIDE DEF place, r, entries, K
  <2> QED
    BY <1>1, <1>3, <1>4
<1>6. ASSUME NEW i \in 1..Len(tls)
      PROVE  /\ P(i) \in SUBSET (1..Len(tls[i].hosts)) /\ Len(tls[i].hosts) \in Nat
             /\ Cardinality(P(i)) \in Nat
             /\ ManagedHosts(tls[i].hosts) \in Seq(Host)
             /\ Len(ManagedHosts(tls[i].hosts)) = Cardinality(P(i))
             /\ \A j \in 1..Cardinality(P(i)) :
                  /\ within(i)[j] \in P(i)
                  /\ ManagedHosts(tls[i].hosts)[j] = tls[i].hosts[within(i)[j]]
             /\ \A l \in P(i) : \E j \in 1..Cardinality(P(i)) : within(i)[j] = l
             /\ \A a, b \in 1..Cardinality(P(i)) : a < b <=> within(i)[a] < within(i)[b]
             /\ \A l \in P(i) : IsManaged(tls[i].hosts[l])
  <2>1. tls[i].hosts \in Seq(Host) /\ Len(tls[i].hosts) \in Nat
    BY <1>4
  <2>2. P(i) \in SUBSET (1..Len(tls[i].hosts))
    BY <2>1, ManagedHostsOf
  <2>3. /\ Cardinality(P(i)) \in Nat
        /\ ManagedHosts(tls[i].hosts) \in Seq(Host)
        /\ Len(ManagedHosts(tls[i].hosts)) = Cardinality(P(i))
        /\ \A j \in 1..Cardinality(P(i)) :
             /\ within(i)[j] \in P(i)
             /\ ManagedHosts(tls[i].hosts)[j] = tls[i].hosts[within(i)[j]]
    BY <2>1, ManagedHostsOf
  <2>4. /\ \A l \in P(i) : \E j \in 1..Cardinality(P(i)) : within(i)[j] = l
        /\ \A a, b \in 1..Cardinality(P(i)) : a < b <=> within(i)[a] < within(i)[b]
    <3> DEFINE n == Len(tls[i].hosts)
               Q == P(i)
    <3>1. n \in Nat /\ Q \in SUBSET (1..n)
      BY <2>1, <2>2
    <3> HIDE DEF n, Q
    <3>2. /\ \A l \in Q : \E j \in 1..Cardinality(Q) : Place(Q)[j] = l
          /\ \A a, b \in 1..Cardinality(Q) : a < b <=> Place(Q)[a] < Place(Q)[b]
      BY <3>1, PlaceIsIncreasing
    <3> QED
      BY <3>2 DEF Q
  <2>5. \A l \in P(i) : IsManaged(tls[i].hosts[l])
    BY DEF ManagedPlaces
  <2> QED
    BY <2>1, <2>2, <2>3, <2>4, <2>5
<1>7. \A n \in 1..c : \A j \in DOMAIN r[n].hosts :
        j \in 1..Cardinality(P(place[n]))
  <2> SUFFICES ASSUME NEW n \in 1..c, NEW j \in DOMAIN r[n].hosts
               PROVE  j \in 1..Cardinality(P(place[n]))
    OBVIOUS
  <2>1. place[n] \in 1..Len(tls)
    BY <1>1
  <2>2. /\ ManagedHosts(tls[place[n]].hosts) \in Seq(Host)
        /\ Len(ManagedHosts(tls[place[n]].hosts)) = Cardinality(P(place[n]))
    BY <1>6, <2>1
  <2>3. DOMAIN ManagedHosts(tls[place[n]].hosts) = 1..Cardinality(P(place[n]))
    BY <2>2, DomainOf
  <2> QED
    BY <1>5, <2>3
<1>8. \A o \in Occurrence(r) :
        /\ o = <<o[1], o[2]>> /\ o[1] \in 1..c
        /\ place[o[1]] \in 1..Len(tls)
        /\ o[2] \in 1..Cardinality(P(place[o[1]]))
  <2> SUFFICES ASSUME NEW o \in Occurrence(r)
               PROVE  /\ o = <<o[1], o[2]>> /\ o[1] \in 1..c
                      /\ place[o[1]] \in 1..Len(tls)
                      /\ o[2] \in 1..Cardinality(P(place[o[1]]))
    OBVIOUS
  <2>1. o = <<o[1], o[2]>> /\ o[1] \in 1..c /\ o[2] \in ManagedPlaces(r[o[1]].hosts)
    BY <1>3, OccurrenceOf
  <2>2. o[2] \in DOMAIN r[o[1]].hosts
    BY <2>1 DEF ManagedPlaces
  <2> QED
    BY <1>1, <1>7, <2>1, <2>2
<1>9. ASSUME NEW o \in Occurrence(r)
      PROVE  /\ Origin(tls, o) \in Occurrence(tls)
             /\ r[o[1]].hosts[o[2]] = tls[Origin(tls, o)[1]].hosts[Origin(tls, o)[2]]
  <2> DEFINE i == place[o[1]]
  <2>1. i \in 1..Len(tls) /\ o[2] \in 1..Cardinality(P(i)) /\ o[1] \in 1..c
    BY <1>8
  <2>2. within(i)[o[2]] \in P(i)
        /\ r[o[1]].hosts[o[2]] = tls[i].hosts[within(i)[o[2]]]
    <3>1. r[o[1]].hosts = ManagedHosts(tls[i].hosts)
      BY <1>5, <2>1
    <3> HIDE DEF i, within, P, r
    <3>2. /\ within(i)[o[2]] \in P(i)
          /\ ManagedHosts(tls[i].hosts)[o[2]] = tls[i].hosts[within(i)[o[2]]]
      BY <1>6, <2>1
    <3> QED
      BY <3>1, <3>2
  <2>3. Origin(tls, o) = <<i, within(i)[o[2]]>>
    BY DEF Origin
  <2>4. i \in DOMAIN tls
    BY <2>1, SectionParts
  <2> HIDE DEF i
  <2> QED
    BY <2>2, <2>3, <2>4, OccurrenceOf
<1>10. ASSUME NEW o \in Occurrence(r), NEW p \in Occurrence(r)
       PROVE  Before(o, p) <=> Before(Origin(tls, o), Origin(tls, p))
  <2>1. /\ o[1] \in 1..c /\ p[1] \in 1..c
        /\ o[2] \in 1..Cardinality(P(place[o[1]]))
        /\ p[2] \in 1..Cardinality(P(place[p[1]]))
        /\ place[o[1]] \in 1..Len(tls)
    BY <1>8
  <2>2. o[1] < p[1] <=> place[o[1]] < place[p[1]]
    BY <1>2, <2>1
  <2>3. o[1] = p[1] <=> place[o[1]] = place[p[1]]
    BY <1>2, <2>1
  <2>4. o[1] = p[1] =>
          (o[2] < p[2] <=> within(place[o[1]])[o[2]] < within(place[p[1]])[p[2]])
    BY <1>6, <2>1
  <2>5. \A x \in {o, p} : /\ Origin(tls, x)[1] = place[x[1]]
                          /\ Origin(tls, x)[2] = within(place[x[1]])[x[2]]
    BY DEF Origin
  <2> HIDE DEF place, within
  <2> QED
    BY <2>2, <2>3, <2>4, <2>5 DEF Before
<1>11. ASSUME NEW q \in Occurrence(tls)
       PROVE  \E o \in Occurrence(r) : Origin(tls, o) = q
  <2>1. q = <<q[1], q[2]>> /\ q[1] \in 1..Len(tls) /\ q[2] \in P(q[1])
    BY OccurrenceOf, SectionParts
  <2>2. q[1] \in K
    BY <2>1, SectionParts DEF KeptPlaces
  <2>3. PICK n \in 1..c : place[n] = q[1]
    BY <1>2, <2>2
  <2>4. PICK j \in 1..Cardinality(P(q[1])) : within(q[1])[j] = q[2]
    BY <1>6, <2>1
  <2>5. /\ j \in DOMAIN r[n].hosts
        /\ IsManaged(r[n].hosts[j])
    <3> DEFINE hosts == tls[q[1]].hosts
    <3>1. r[n].hosts = ManagedHosts(hosts)
      BY <1>5, <2>3
    <3>2. /\ ManagedHosts(hosts) \in Seq(Host)
          /\ Len(ManagedHosts(hosts)) = Cardinality(P(q[1]))
          /\ ManagedHosts(hosts)[j] = hosts[q[2]]
      BY <1>6, <2>1, <2>4
    <3>3. DOMAIN ManagedHosts(hosts) = 1..Cardinality(P(q[1]))
      BY <3>2, DomainOf
    <3>4. IsManaged(hosts[q[2]])
      BY <1>6, <2>1
    <3> HIDE DEF hosts
    <3> QED
      BY <3>1, <3>2, <3>3, <3>4
  <2>6. <<n, j>> \in Occurrence(r)
    BY <1>3, <2>5, OccurrenceOf DEF ManagedPlaces
  <2>7. Origin(tls, <<n, j>>) = q
    BY <2>1, <2>3, <2>4 DEF Origin
  <2> QED
    BY <2>6, <2>7
<1> QED
  BY <1>9, <1>10, <1>11

LEMMA CopyKeepsProvider ==
  ASSUME NEW S, NEW tls \in TLSSection(S), NEW copy \in CopyTLS(tls), NEW ns
  PROVE  \E again \in CopyTLS(PrefixWithNamespace(copy.tls, ns)) :
           again.provider = copy.provider
<1> DEFINE r == PrefixWithNamespace(copy.tls, ns)
<1>1. PICK m \in Matching(tls) :
        copy = IF Conflict(tls, m)
               THEN [tls |-> << >>, provider |-> NoProvider]
               ELSE [tls |-> ManagedEntries(tls), provider |-> FoundProvider(tls, m)]
  BY DEF CopyTLS, CopyWith
<1>2. SUFFICES \E n \in Matching(r) : ~ Conflict(r, n) /\ FoundProvider(r, n) = copy.provider
  <2>1. PICK n \in Matching(r) : ~ Conflict(r, n) /\ FoundProvider(r, n) = copy.provider
    BY <1>2
  <2> HIDE DEF r
  <2>2. [tls |-> ManagedEntries(r), provider |-> FoundProvider(r, n)] \in CopyTLS(r)
    BY <2>1 DEF CopyTLS, CopyWith
  <2> QED
    BY <2>1, <2>2 DEF r
<1>3. CASE Conflict(tls, m)
  <2>1. copy.tls = << >> /\ copy.provider = NoProvider
    BY <1>1, <1>3
  <2>2. DOMAIN r = {}
    BY <2>1 DEF PrefixWithNamespace
  <2>3. Occurrence(r) = {}
    BY <2>2 DEF Occurrence
  <2> DEFINE n == [o \in {} |-> NoProvider]
  <2>4. n \in Matching(r)
    BY <2>3 DEF Matching
  <2>5. ~ Conflict(r, n) /\ FoundProvider(r, n) = NoProvider
    BY <2>3 DEF Conflict, FoundProvider
  <2> HIDE DEF n, r
  <2> QED
    BY <2>1, <2>4, <2>5
<1>4. CASE ~ Conflict(tls, m)
  <2> DEFINE n == [o \in Occurrence(r) |-> m[Origin(tls, o)]]
  <2>1. copy.tls = ManagedEntries(tls) /\ copy.provider = FoundProvider(tls, m)
    BY <1>1, <1>4
  <2>2. /\ \A o \in Occurrence(r) :
             /\ Origin(tls, o) \in Occurrence(tls)
             /\ r[o[1]].hosts[o[2]] = tls[Origin(tls, o)[1]].hosts[Origin(tls, o)[2]]
        /\ \A o, p \in Occurrence(r) : Before(o, p) <=> Before(Origin(tls, o), Origin(tls, p))
        /\ \A q \in Occurrence(tls) : \E o \in Occurrence(r) : Origin(tls, o) = q
    BY <2>1, OriginOf
  <2>3. r \in TLSSection({<<ns, name>> : name \in S})
    BY CopyOf, PrefixOf
  <2> HIDE DEF r
  <2>4. n \in Matching(r)
    BY <2>2 DEF Matching
  <2>5. ~ Conflict(r, n)
    <3> SUFFICES ASSUME Conflict(r, n) PROVE FALSE
      OBVIOUS
    <3>1. PICK o \in Occurrence(r), p \in Occurrence(r) :
            /\ Before(o, p)
            /\ ~ \E q \in Occurrence(r) : Before(o, q) /\ Before(q, p)
            /\ DomainToDNSProvider[n[o]] # NoProvider
            /\ DomainToDNSProvider[n[o]] # DomainToDNSProvider[n[p]]
      BY DEF Conflict
    <3>2. ~ \E q \in Occurrence(tls) : Before(Origin(tls, o), q) /\ Before(q, Origin(tls, p))
      BY <2>2, <3>1
    <3>3. Conflict(tls, m)
      BY <2>2, <3>1, <3>2 DEF Conflict
    <3> QED
      BY <1>4, <3>3
  <2>6. FoundProvider(r, n) = FoundProvider(tls, m)
    <3>1. CASE Occurrence(r) = {}
      <4>1. Occurrence(tls) = {}
        BY <2>2, <3>1
      <4> QED
        BY <3>1, <4>1 DEF FoundProvider
    <3>2. CASE Occurrence(r) # {}
      <4>1. PICK o \in Occurrence(r) : \A p \in Occurrence(r) : ~ Before(o, p)
        BY <2>3, <3>2, LastOccurrence
      <4>2. \A q \in Occurrence(tls) : ~ Before(Origin(tls, o), q)
        BY <2>2, <4>1
      <4>3. FoundProvider(r, n) = DomainToDNSProvider[n[o]]
        <5> HIDE DEF n
        <5> QED
          BY <2>3, <4>1, FoundIsOfLast
      <4>4. FoundProvider(tls, m) = DomainToDNSProvider[m[Origin(tls, o)]]
        BY <2>2, <4>2, FoundIsOfLast
      <4> QED
        BY <4>3, <4>4
    <3> QED
      BY <3>1, <3>2
  <2> HIDE DEF n
  <2> QED
    BY <2>1, <2>4, <2>5, <2>6
<1> QED
  BY <1>3, <1>4

\* The provider that goes with a copy manages every host in it.
LEMMA CopiedIsManaged ==
  ASSUME NEW S, NEW tls \in TLSSection(S), NEW copy \in CopyTLS(tls),
         NEW i \in DOMAIN copy.tls, NEW j \in DOMAIN copy.tls[i].hosts
  PROVE  \E d \in Suffixes[copy.tls[i].hosts[j]] :
           DomainToDNSProvider[d] \in {copy.provider, NoProvider}
<1> DEFINE ns == NoProvider
           r == PrefixWithNamespace(copy.tls, ns)
<1>1. PICK m \in Matching(tls) :
        copy = IF Conflict(tls, m)
               THEN [tls |-> << >>, provider |-> NoProvider]
               ELSE [tls |-> ManagedEntries(tls), provider |-> FoundProvider(tls, m)]
  BY DEF CopyTLS, CopyWith
<1>2. copy.tls # << >>
  OBVIOUS
<1>3. /\ ~ Conflict(tls, m)
      /\ copy.tls = ManagedEntries(tls) /\ copy.provider = FoundProvider(tls, m)
  BY <1>1, <1>2
<1>4. <<i, j>> \in Occurrence(r) /\ r[i].hosts[j] = copy.tls[i].hosts[j]
  <2>1. copy.tls \in TLSSection(S)
    BY CopyOf
  <2>2. /\ r \in TLSSection({<<ns, name>> : name \in S})
        /\ i \in DOMAIN r /\ r[i].hosts = copy.tls[i].hosts
    BY <2>1, PrefixOf
  <2>3. IsManaged(copy.tls[i].hosts[j])
    BY <1>3, ManagedEntriesAreManaged
  <2>4. j \in ManagedPlaces(r[i].hosts)
    BY <2>2, <2>3 DEF ManagedPlaces
  <2> QED
    BY <2>2, <2>4, OccurrenceOf
<1> DEFINE o == Origin(tls, <<i, j>>)
<1>5. o \in Occurrence(tls) /\ copy.tls[i].hosts[j] = tls[o[1]].hosts[o[2]]
  <2> HIDE DEF o
  <2>1. /\ Origin(tls, <<i, j>>) \in Occurrence(tls)
        /\ r[i].hosts[j] = tls[Origin(tls, <<i, j>>)[1]].hosts[Origin(tls, <<i, j>>)[2]]
    BY <1>3, <1>4, OriginOf
  <2> QED
    BY <1>4, <2>1 DEF o
<1>6. DomainToDNSProvider[m[o]] \in {copy.provider, NoProvider}
  <2> HIDE DEF o
  <2> QED
    BY <1>3, <1>5, OneProvider
<1>7. m[o] \in Suffixes[copy.tls[i].hosts[j]]
  <2> HIDE DEF o
  <2> QED
    BY <1>5 DEF Matching
<1> QED
  BY <1>6, <1>7
=============================================================================
