----------------------------- MODULE SassProofs -----------------------------
(***************************************************************************)
(* That sass prints every match with the region asked for, for every text, *)
(* index, option and session.  First what the functions of region.c        *)
(* return, then what a region looks like when it is printed, and at last   *)
(* the run of the program.                                                 *)
(***************************************************************************)
EXTENDS Sass, FiniteSetTheorems, WellFoundedInduction, TLAPS

(* A set of numbers has a least one.                                       *)
LEMMA LeastNumber ==
  ASSUME NEW T, T \subseteq Nat, T # {}
  PROVE  \E x \in T : \A y \in T : x <= y
<1>1. PICK x \in T : \A y \in T : ~ (<<y, x>> \in OpToRel(<, Nat))
  BY NatLessThanWellFounded, WFMin
<1>2. \A y \in T : ~ (y < x)
  BY <1>1 DEF OpToRel
<1>. QED  BY <1>2

(* What holds of 0 and of n + 1 if of n holds of all numbers.              *)
LEMMA Upwards ==
  ASSUME NEW T, 0 \in T, \A n \in Nat : n \in T => n + 1 \in T
  PROVE  Nat \subseteq T
<1> DEFINE S == Nat \ T
<1> SUFFICES ASSUME S # {} PROVE FALSE
  OBVIOUS
<1>1. PICK x \in S : \A y \in S : x <= y
  <2>1. S \subseteq Nat
    OBVIOUS
  <2> HIDE DEF S
  <2>. QED  BY <2>1, LeastNumber
<1>2. x \in Nat /\ x # 0 /\ x - 1 \in Nat /\ (x - 1) + 1 = x
  OBVIOUS
<1>3. x - 1 \in T
  BY <1>1, <1>2
<1>. QED  BY <1>2, <1>3

(* It is the Min of the set.                                               *)
LEMMA LeastOf ==
  ASSUME NEW T, T \subseteq Nat, T # {}
  PROVE  Min(T) \in T /\ \A y \in T : Min(T) <= y
BY LeastNumber DEF Min

(* A bounded set of numbers has a greatest one.                            *)
LEMMA GreatestOf ==
  ASSUME NEW T, NEW b \in Nat, T \subseteq 0 .. b, T # {}
  PROVE  Max(T) \in T /\ \A y \in T : y <= Max(T)
<1>0. \A y \in T : y \in 0 .. b /\ y \in Int
  OBVIOUS
<1> DEFINE S == {b - y : y \in T}
<1>1. S \subseteq Nat /\ S # {}
  <2>1. \A y \in T : b - y \in Nat
    BY <1>0
  <2>. QED  BY <2>1
<1>2. PICK x \in S : \A y \in S : x <= y
  <2> HIDE DEF S
  <2>. QED  BY <1>1, LeastNumber
<1>3. b - x \in T /\ \A y \in T : y <= b - x
  <2>1. PICK z \in T : x = b - z
    OBVIOUS
  <2>2. ASSUME NEW y \in T PROVE y <= z
    <3>1. b - y \in S
      OBVIOUS
    <3>2. x <= b - y
      BY <1>2, <3>1
    <3>3. y \in Int /\ z \in Int
      BY <1>0, Zenon
    <3>. QED  BY <2>1, <3>2, <3>3
  <2>3. b - x = z
    <3>1. z \in Int
      BY <1>0, Zenon
    <3>. QED  BY <2>1, <3>1
  <2>. QED  BY <2>2, <2>3
<1> HIDE DEF S
<1>. QED  BY <1>3 DEF Max

(* The numbers up to a bound, counted.                                     *)
LEMMA UpToN ==
  ASSUME NEW n \in Nat
  PROVE  IsFiniteSet(1 .. n) /\ Cardinality(1 .. n) = n
<1>1. Cardinality(1 .. n) = IF 1 > n THEN 0 ELSE n - 1 + 1
  BY FS_Interval
<1>2. IsFiniteSet(1 .. n)
  BY FS_Interval
<1>. QED  BY <1>1, <1>2
-----------------------------------------------------------------------------
(* Ranks.  The members of a finite set that a strict order R puts in front *)
(* of c, and c: as many for each member as its place in that order.        *)
UpTo(D, R, c) == {b \in D : b = c \/ <<b, c>> \in R}

Orders(R, D) ==
  /\ \A b \in D : <<b, b>> \notin R
  /\ \A b, c, d \in D : <<b, c>> \in R /\ <<c, d>> \in R => <<b, d>> \in R
  /\ \A b, c \in D : b = c \/ <<b, c>> \in R \/ <<c, b>> \in R

(* The rank of an element counts it and those in front of it.              *)
LEMMA RankType ==
  ASSUME NEW D, IsFiniteSet(D), NEW R, NEW c \in D
  PROVE  IsFiniteSet(UpTo(D, R, c)) /\ Cardinality(UpTo(D, R, c)) \in 1 .. Cardinality(D)
<1>1. UpTo(D, R, c) \subseteq D /\ c \in UpTo(D, R, c)
  BY DEF UpTo
<1>2. /\ IsFiniteSet(UpTo(D, R, c))
      /\ Cardinality(UpTo(D, R, c)) <= Cardinality(D)
  BY <1>1, FS_Subset
<1>3. Cardinality(UpTo(D, R, c)) \in Nat /\ Cardinality(D) \in Nat
  BY <1>2, FS_CardinalityType
<1>4. Cardinality(UpTo(D, R, c)) # 0
  BY <1>1, <1>2, FS_EmptySet
<1>. QED  BY <1>2, <1>3, <1>4

(* An element behind another has the higher rank.                          *)
LEMMA RanksAscend ==
  ASSUME NEW D, IsFiniteSet(D), NEW R, Orders(R, D), NEW b \in D, NEW c \in D,
         <<b, c>> \in R
  PROVE  Cardinality(UpTo(D, R, b)) < Cardinality(UpTo(D, R, c))
<1>1. UpTo(D, R, b) \subseteq UpTo(D, R, c) \ {c}
  <2> SUFFICES ASSUME NEW d \in UpTo(D, R, b) PROVE d \in UpTo(D, R, c) /\ d # c
    OBVIOUS
  <2>1. d \in D /\ (d = b \/ <<d, b>> \in R)
    BY DEF UpTo
  <2>2. <<d, c>> \in R
    BY <2>1 DEF Orders
  <2>3. d # c
    BY <2>2 DEF Orders
  <2>. QED  BY <2>1, <2>2, <2>3 DEF UpTo
<1>2. c \in UpTo(D, R, c) /\ IsFiniteSet(UpTo(D, R, c))
  <2>1. c \in UpTo(D, R, c)
    BY DEF UpTo
  <2>. QED  BY <2>1, RankType
<1>3. /\ IsFiniteSet(UpTo(D, R, c) \ {c})
      /\ Cardinality(UpTo(D, R, c) \ {c}) = Cardinality(UpTo(D, R, c)) - 1
  BY <1>2, FS_RemoveElement
<1>4. Cardinality(UpTo(D, R, b)) <= Cardinality(UpTo(D, R, c) \ {c})
  BY <1>1, <1>3, FS_Subset
<1>5. Cardinality(UpTo(D, R, b)) \in Nat /\ Cardinality(UpTo(D, R, c)) \in Nat
  BY <1>2, RankType, FS_CardinalityType
<1>. QED  BY <1>3, <1>4, <1>5

(* So every rank is taken.                                                 *)
LEMMA EveryRank ==
  ASSUME NEW D, IsFiniteSet(D), NEW R, Orders(R, D), NEW n \in 1 .. Cardinality(D)
  PROVE  \E c \in D : Cardinality(UpTo(D, R, c)) = n
<1> DEFINE rank == [c \in D |-> Cardinality(UpTo(D, R, c))]
           N == 1 .. Cardinality(D)
<1>1. rank \in [D -> N]
  BY RankType
<1>2. \A b, c \in D : rank[b] = rank[c] => b = c
  <2> SUFFICES ASSUME NEW b \in D, NEW c \in D, b # c PROVE rank[b] # rank[c]
    OBVIOUS
  <2>1. <<b, c>> \in R \/ <<c, b>> \in R
    BY DEF Orders
  <2>2. rank[b] < rank[c] \/ rank[c] < rank[b]
    BY <2>1, RanksAscend
  <2>3. rank[b] \in Int /\ rank[c] \in Int
    BY <1>1
  <2> HIDE DEF rank
  <2>. QED  BY <2>2, <2>3
<1>3. Cardinality(D) \in Nat
  BY FS_CardinalityType
<1>4. IsFiniteSet(N) /\ Cardinality(N) = Cardinality(D)
  BY <1>3, UpToN
<1> HIDE DEF rank, N
<1>5. rank \in Injection(D, N)
  BY <1>1, <1>2 DEF Injection, IsInjective
<1>6. rank \in Surjection(D, N)
  BY <1>4, <1>5, FS_Injection
<1>7. PICK c \in D : rank[c] = n
  BY <1>6 DEF Surjection, N
<1>. QED  BY <1>7 DEF rank
-----------------------------------------------------------------------------
(* The matches of a key: the index points whose text matches, each once.   *)
LEMMA NthOf ==
  ASSUME NEW S, S \subseteq Nat, IsFiniteSet(S), NEW n \in 1 .. Cardinality(S)
  PROVE  Nth(S, n) \in S /\ Cardinality({b \in S : b <= Nth(S, n)}) = n
<1> DEFINE R == {e \in S \X S : e[1] < e[2]}
<1>1. \A b, c \in S : <<b, c>> \in R <=> b < c
  OBVIOUS
<1>2. Orders(R, S)
  <2>1. \A b, c, d \in S : b < c /\ c < d => b < d
    OBVIOUS
  <2>2. \A b, c \in S : b = c \/ b < c \/ c < b
    OBVIOUS
  <2>3. \A b \in S : ~ b < b
    OBVIOUS
  <2> HIDE DEF R
  <2>. QED  BY <1>1, <2>1, <2>2, <2>3 DEF Orders
<1>3. \A c \in S : UpTo(S, R, c) = {b \in S : b <= c}
  <2> SUFFICES ASSUME NEW c \in S, NEW b \in S
               PROVE  (b = c \/ <<b, c>> \in R) <=> b <= c
    BY DEF UpTo
  <2>1. <<b, c>> \in R <=> b < c
    BY <1>1
  <2>. QED  BY <2>1
<1> HIDE DEF R
<1>4. PICK c \in S : Cardinality(UpTo(S, R, c)) = n
  BY <1>2, EveryRank
<1>5. Cardinality({b \in S : b <= c}) = n
  BY <1>3, <1>4
<1>. QED  BY <1>5 DEF Nth

(* Every member of the set has a place.                                    *)
LEMMA NthTakesAll ==
  ASSUME NEW S, S \subseteq Nat, IsFiniteSet(S), NEW c \in S
  PROVE  \E n \in 1 .. Cardinality(S) : Nth(S, n) = c
<1> DEFINE N == 1 .. Cardinality(S)
           f == [n \in N |-> Nth(S, n)]
<1>1. Cardinality(S) \in Nat
  BY FS_CardinalityType
<1>2. IsFiniteSet(N) /\ Cardinality(N) = Cardinality(S)
  BY <1>1, UpToN
<1>3. f \in [N -> S]
  BY NthOf
<1>4. \A m, n \in N : f[m] = f[n] => m = n
  <2>1. \A n \in N : Cardinality({b \in S : b <= f[n]}) = n
    BY NthOf
  <2> HIDE DEF f, N
  <2>. QED  BY <2>1
<1> HIDE DEF f, N
<1>5. f \in Injection(N, S)
  BY <1>3, <1>4 DEF Injection, IsInjective
<1>6. f \in Surjection(N, S)
  BY <1>2, <1>5, FS_Injection
<1>7. PICK n \in N : f[n] = c
  BY <1>6 DEF Surjection
<1>. QED  BY <1>7 DEF f, N

(* An index as sa_open maps it.                                            *)
IsAry(a) ==
  a.text \in Seq(Byte) /\ a.array \in Seq(Nat) /\ IsInjective(a.array)

(* An index has finitely many matches.                                     *)
LEMMA HitsFinite ==
  ASSUME NEW a, IsAry(a), NEW k
  PROVE  /\ Hits(a, k) \subseteq Nat /\ IsFiniteSet(Hits(a, k))
         /\ Cardinality(Hits(a, k)) \in Nat
<1>1. a.array \in Seq(Nat)
  BY DEF IsAry
<1>2. PICK n \in Nat : DOMAIN a.array = 1 .. n
  BY <1>1
<1>3. Hits(a, k) \subseteq 1 .. n /\ IsFiniteSet(1 .. n)
  BY <1>2, FS_Interval DEF Hits
<1>4. IsFiniteSet(Hits(a, k))
  BY <1>3, FS_Subset
<1>. QED  BY <1>3, <1>4, FS_CardinalityType

(* The list of the matches: each index point that matches, once.           *)
LEMMA MatchesAre ==
  ASSUME NEW a, IsAry(a), NEW k
  PROVE  /\ Matches(a, k) \in Seq(Nat)
         /\ \A m, n \in DOMAIN Matches(a, k) :
              Matches(a, k)[m] = Matches(a, k)[n] => m = n
         /\ \A n \in DOMAIN Matches(a, k) : IsMatch(a, k, Matches(a, k)[n])
         /\ \A c \in DOMAIN a.array : IsMatch(a, k, a.array[c]) =>
              \E n \in DOMAIN Matches(a, k) : Matches(a, k)[n] = a.array[c]
<1> DEFINE H == Hits(a, k)
           M == Matches(a, k)
<1>1. PICK z \in Nat : z = Cardinality(H)
  BY HitsFinite
<1>2. M = [n \in 1 .. z |-> a.array[Nth(H, n)]]
  BY <1>1 DEF Matches
<1>3. \A c \in H : c \in DOMAIN a.array /\ IsMatch(a, k, a.array[c]) /\ a.array[c] \in Nat
  <2>1. a.array \in Seq(Nat)
    BY DEF IsAry
  <2>. QED  BY <2>1 DEF Hits
<1>4. \A n \in 1 .. z : Nth(H, n) \in H /\ Cardinality({b \in H : b <= Nth(H, n)}) = n
  <2> HIDE DEF H
  <2>. QED  BY <1>1, HitsFinite, NthOf DEF H
<1>5. \A c \in H : \E n \in 1 .. z : Nth(H, n) = c
  <2> HIDE DEF H
  <2>. QED  BY <1>1, HitsFinite, NthTakesAll DEF H
<1> HIDE DEF M
<1>6. DOMAIN M = 1 .. z /\ \A n \in 1 .. z : M[n] = a.array[Nth(H, n)]
  BY <1>2
<1>7. M \in Seq(Nat)
  <2>1. \A n \in 1 .. z : a.array[Nth(H, n)] \in Nat
    BY <1>3, <1>4
  <2> HIDE DEF H
  <2>. QED  BY <1>2, <2>1
<1>8. ASSUME NEW m \in 1 .. z, NEW n \in 1 .. z, M[m] = M[n]
      PROVE  m = n
  <2>1. Nth(H, m) = Nth(H, n)
    <3>1. \A b, c \in DOMAIN a.array : a.array[b] = a.array[c] => b = c
      BY DEF IsAry, IsInjective
    <3> HIDE DEF H
    <3>. QED  BY <1>3, <1>4, <1>6, <1>8, <3>1
  <2> HIDE DEF H
  <2>. QED  BY <1>4, <2>1
<1>9. ASSUME NEW c \in DOMAIN a.array, IsMatch(a, k, a.array[c])
      PROVE  \E n \in 1 .. z : M[n] = a.array[c]
  <2>1. c \in H
    BY <1>9 DEF Hits
  <2>. QED  BY <1>5, <1>6, <2>1
<1>10. \A n \in 1 .. z : IsMatch(a, k, M[n])
  BY <1>3, <1>4, <1>6
<1> HIDE DEF H
<1>. QED  BY <1>6, <1>7, <1>8, <1>9, <1>10 DEF M
-----------------------------------------------------------------------------
(* qsort: the same positions in the order of the text.                     *)
LEMMA QsortIs ==
  ASSUME NEW s \in Seq(Nat), \A m, n \in DOMAIN s : s[m] = s[n] => m = n
  PROVE  /\ Qsort(s) \in Seq(Nat) /\ Len(Qsort(s)) = Len(s)
         /\ \A m, n \in DOMAIN s : m < n => Qsort(s)[m] < Qsort(s)[n]
         /\ \A n \in DOMAIN s : \E c \in DOMAIN s : Qsort(s)[n] = s[c]
         /\ \A c \in DOMAIN s : \E n \in DOMAIN s : Qsort(s)[n] = s[c]
<1> DEFINE D == DOMAIN s
           R == {e \in D \X D : s[e[1]] < s[e[2]]}
           U(c) == {b \in D : s[b] < s[c] \/ (s[b] = s[c] /\ b <= c)}
           P(n) == CHOOSE c \in D : Cardinality(U(c)) = n
<1>1. PICK z \in Nat : z = Len(s) /\ D = 1 .. z /\ \A c \in D : s[c] \in Nat
  OBVIOUS
<1>2. IsFiniteSet(D) /\ Cardinality(D) = z
  BY <1>1, UpToN
<1> HIDE DEF D
<1>3. \A b, c \in D : <<b, c>> \in R <=> s[b] < s[c]
  OBVIOUS
<1>4. \A b, c \in D : s[b] = s[c] => b = c
  BY DEF D
<1>5. Orders(R, D)
  <2>1. \A b, c, d \in D : s[b] < s[c] /\ s[c] < s[d] => s[b] < s[d]
    BY <1>1
  <2>2. \A b, c \in D : b = c \/ s[b] < s[c] \/ s[c] < s[b]
    BY <1>1, <1>4
  <2>3. \A b \in D : ~ s[b] < s[b]
    BY <1>1
  <2> HIDE DEF R
  <2>. QED  BY <1>3, <2>1, <2>2, <2>3 DEF Orders
<1>6. \A c \in D : UpTo(D, R, c) = U(c)
  <2> SUFFICES ASSUME NEW c \in D, NEW b \in D
               PROVE  (b = c \/ <<b, c>> \in R) <=> s[b] < s[c] \/ (s[b] = s[c] /\ b <= c)
    BY DEF UpTo
  <2>1. (<<b, c>> \in R <=> s[b] < s[c]) /\ (s[b] = s[c] => b = c) /\ c <= c
    BY <1>1, <1>3, <1>4
  <2>. QED  BY <2>1
<1> HIDE DEF R
<1>7. \A n \in D : P(n) \in D /\ Cardinality(UpTo(D, R, P(n))) = n
  <2> SUFFICES ASSUME NEW n \in D
               PROVE  P(n) \in D /\ Cardinality(UpTo(D, R, P(n))) = n
    OBVIOUS
  <2>1. n \in 1 .. Cardinality(D)
    BY <1>1, <1>2
  <2>2. PICK c \in D : Cardinality(UpTo(D, R, c)) = n
    BY <1>2, <1>5, <2>1, EveryRank
  <2>3. Cardinality(U(c)) = n
    BY <1>6, <2>2
  <2>4. P(n) \in D /\ Cardinality(U(P(n))) = n
    <3> HIDE DEF U
    <3>. QED  BY <2>3
  <2> HIDE DEF P, U
  <2>. QED  BY <1>6, <2>4
<1>8. Qsort(s) = [n \in D |-> s[P(n)]]
  BY DEF Qsort, D
<1> HIDE DEF P
<1>9. ASSUME NEW m \in D, NEW n \in D, m < n
      PROVE  s[P(m)] < s[P(n)]
  <2>1. P(m) \in D /\ P(n) \in D /\ P(m) # P(n)
    BY <1>1, <1>7, <1>9
  <2>2. ~ <<P(n), P(m)>> \in R
    <3> SUFFICES ASSUME <<P(n), P(m)>> \in R PROVE FALSE
      OBVIOUS
    <3>1. Cardinality(UpTo(D, R, P(n))) < Cardinality(UpTo(D, R, P(m)))
      BY <1>2, <1>5, <2>1, RanksAscend
    <3>. QED  BY <1>1, <1>7, <1>9, <3>1
  <2>3. <<P(m), P(n)>> \in R
    BY <1>5, <2>1, <2>2 DEF Orders
  <2>. QED  BY <1>3, <2>1, <2>3
<1>10. ASSUME NEW c \in D
       PROVE  \E n \in D : P(n) = c
  <2>1. PICK n \in D : n = Cardinality(UpTo(D, R, c))
    BY <1>1, <1>2, RankType
  <2>2. P(n) \in D /\ Cardinality(UpTo(D, R, P(n))) = n
    BY <1>7
  <2>3. ~ <<P(n), c>> \in R /\ ~ <<c, P(n)>> \in R
    <3>1. <<P(n), c>> \in R => Cardinality(UpTo(D, R, P(n))) < Cardinality(UpTo(D, R, c))
      BY <1>2, <1>5, <2>2, RanksAscend
    <3>2. <<c, P(n)>> \in R => Cardinality(UpTo(D, R, c)) < Cardinality(UpTo(D, R, P(n)))
      BY <1>2, <1>5, <2>2, RanksAscend
    <3>. QED  BY <1>1, <2>1, <2>2, <3>1, <3>2
  <2>4. P(n) = c
    BY <1>5, <2>2, <2>3 DEF Orders
  <2>. QED  BY <2>4
<1> DEFINE Q == Qsort(s)
<1>11. DOMAIN Q = D /\ \A n \in D : Q[n] = s[P(n)]
  BY <1>8
<1> HIDE DEF Q
<1>12. Q \in Seq(Nat) /\ Len(Q) = z
  <2>1. \A n \in D : s[P(n)] \in Nat
    BY <1>1, <1>7
  <2>2. Q = [n \in 1 .. z |-> s[P(n)]]
    BY <1>1, <1>8 DEF Q
  <2>3. \A n \in 1 .. z : s[P(n)] \in Nat
    BY <1>1, <2>1
  <2>. QED  BY <2>2, <2>3
<1>13. /\ \A m, n \in D : m < n => Q[m] < Q[n]
       /\ \A n \in D : \E c \in D : Q[n] = s[c]
       /\ \A c \in D : \E n \in D : Q[n] = s[c]
  BY <1>7, <1>9, <1>10, <1>11
<1>. QED  BY <1>1, <1>12, <1>13 DEF D, Q
-----------------------------------------------------------------------------
(* sa_seek_bol and sa_seek_eol: the newlines next to a position.           *)
LEMMA EofType ==
  ASSUME NEW a, a.text \in Seq(Byte)
  PROVE  Eof(a) \in Nat
BY DEF Eof

(* sa_seek_bol: where the line of the position begins.                     *)
LEMMA BolIs ==
  ASSUME NEW a, NEW p \in Nat
  PROVE  /\ SeekBol(a, p) \in 0 .. p
         /\ SeekBol(a, p) > 0 => Char(a, SeekBol(a, p) - 1) = NL
         /\ \A q \in SeekBol(a, p) .. p - 1 : Char(a, q) # NL
<1> DEFINE N == {q \in 0 .. p - 1 : Char(a, q) = NL}
           T == {0} \union {q + 1 : q \in N}
<1>1. T \subseteq 0 .. p /\ T # {}
  OBVIOUS
<1>2. PICK b : b = SeekBol(a, p)
  OBVIOUS
<1>3. b = Max(T)
  BY <1>2 DEF SeekBol
<1>4. b \in T /\ \A y \in T : y <= b
  <2> HIDE DEF T
  <2>. QED  BY <1>1, <1>3, GreatestOf
<1>5. b \in 0 .. p
  BY <1>1, <1>4
<1>6. b > 0 => Char(a, b - 1) = NL
  <2> SUFFICES ASSUME b > 0 PROVE Char(a, b - 1) = NL
    OBVIOUS
  <2>1. PICK q \in N : b = q + 1
    BY <1>4
  <2>2. q \in 0 .. p - 1 /\ Char(a, q) = NL /\ b - 1 = q
    BY <2>1
  <2>. QED  BY <2>2
<1>7. ASSUME NEW q \in b .. p - 1, Char(a, q) = NL
      PROVE  FALSE
  <2>1. q \in 0 .. p - 1
    BY <1>5
  <2>2. q + 1 \in T
    BY <1>7, <2>1
  <2>3. q + 1 <= b
    BY <1>4, <2>2
  <2>. QED  BY <1>5, <2>1, <2>3
<1>. QED  BY <1>2, <1>5, <1>6, <1>7

(* sa_seek_eol: one behind the newline that ends the line, or the end.     *)
LEMMA EolIs ==
  ASSUME NEW a, a.text \in Seq(Byte), NEW p \in 0 .. Eof(a)
  PROVE  /\ SeekEol(a, p) \in p .. Eof(a)
         /\ SeekEol(a, p) < Eof(a) =>
              p < SeekEol(a, p) /\ Char(a, SeekEol(a, p) - 1) = NL
         /\ p < Eof(a) => p < SeekEol(a, p)
         /\ \A q \in p .. SeekEol(a, p) - 2 : Char(a, q) # NL
<1>0. PICK z \in Nat : z = Eof(a)
  BY EofType
<1> DEFINE N == {q \in p .. z - 1 : Char(a, q) = NL}
           T == {z} \union {q + 1 : q \in N}
<1>1. T \subseteq Nat /\ T # {}
  BY <1>0
<1>2. PICK e : e = SeekEol(a, p)
  OBVIOUS
<1>3. e = Min(T)
  BY <1>0, <1>2 DEF SeekEol
<1>4. e \in T /\ \A y \in T : e <= y
  <2> HIDE DEF T
  <2>. QED  BY <1>1, <1>3, LeastOf
<1>5. CASE e = z
  <2>1. ASSUME NEW q \in p .. e - 2, Char(a, q) = NL
        PROVE  FALSE
    <3>1. q \in p .. z - 1
      BY <1>0, <1>5
    <3>2. q + 1 \in T
      BY <2>1, <3>1
    <3>3. e <= q + 1
      BY <1>4, <3>2
    <3>. QED  BY <1>0, <1>5, <3>1, <3>3
  <2>. QED  BY <1>0, <1>2, <1>5, <2>1
<1>6. CASE e # z
  <2>1. PICK r \in N : e = r + 1
    BY <1>4, <1>6
  <2>2. r \in p .. z - 1 /\ Char(a, r) = NL /\ e - 1 = r /\ e \in Nat
    BY <1>0, <2>1
  <2>3. ASSUME NEW q \in p .. e - 2, Char(a, q) = NL
        PROVE  FALSE
    <3>1. q \in p .. z - 1
      BY <1>0, <2>2
    <3>2. q + 1 \in T
      BY <2>3, <3>1
    <3>3. e <= q + 1
      BY <1>4, <3>2
    <3>. QED  BY <1>0, <2>2, <3>1, <3>3
  <2>. QED  BY <1>0, <1>2, <2>2, <2>3
<1>. QED  BY <1>5, <1>6
-----------------------------------------------------------------------------
(* The loops of sa_seek_context_lines: a function that does in each turn   *)
(* what the code says.                                                     *)
HeadTurn(a, pos, h, n) ==
  IF n = 0 THEN SeekBol(a, pos)
  ELSE IF h[n - 1] > 0 THEN SeekBol(a, h[n - 1] - 1) ELSE 0

TailTurn(a, from, t, n) ==
  IF n = 0 THEN SeekEol(a, from)
  ELSE IF t[n - 1] < Eof(a) THEN SeekEol(a, t[n - 1] + 1) ELSE Eof(a)

(* The loop over the lines before, turn by turn.                           *)
LEMMA HeadLoopExists ==
  ASSUME NEW a, NEW pos, NEW b \in Nat
  PROVE  \E h : h = [n \in 0 .. b |-> HeadTurn(a, pos, h, n)]
<1> DEFINE Loops(h, c) == h = [n \in 0 .. c |-> HeadTurn(a, pos, h, n)]
           T == {c \in Nat : \E h : Loops(h, c)}
<1>1. 0 \in T
  <2> DEFINE h == [n \in 0 .. 0 |-> SeekBol(a, pos)]
  <2>1. h = [n \in 0 .. 0 |-> HeadTurn(a, pos, h, n)]
    BY DEF HeadTurn
  <2> HIDE DEF h
  <2>. QED  BY <2>1
<1>2. ASSUME NEW c \in Nat, c \in T
      PROVE  c + 1 \in T
  <2>1. PICK h : h = [n \in 0 .. c |-> HeadTurn(a, pos, h, n)]
    BY <1>2
  <2> DEFINE g == [n \in 0 .. c + 1 |-> IF n = c + 1 THEN HeadTurn(a, pos, h, n) ELSE h[n]]
  <2>2. ASSUME NEW n \in 0 .. c + 1
        PROVE  g[n] = HeadTurn(a, pos, g, n)
    <3>1. n # 0 => n - 1 \in 0 .. c + 1 /\ n - 1 # c + 1
      OBVIOUS
    <3>2. n # 0 => g[n - 1] = h[n - 1]
      BY <3>1
    <3>3. HeadTurn(a, pos, g, n) = HeadTurn(a, pos, h, n)
      BY <3>2 DEF HeadTurn
    <3>4. n # c + 1 => h[n] = HeadTurn(a, pos, h, n)
      <4>1. n # c + 1 => n \in 0 .. c
        OBVIOUS
      <4>. QED  BY <2>1, <4>1
    <3>. QED  BY <3>3, <3>4
  <2>3. g = [n \in 0 .. c + 1 |-> g[n]]
    OBVIOUS
  <2> HIDE DEF g
  <2>4. g = [n \in 0 .. c + 1 |-> HeadTurn(a, pos, g, n)]
    BY <2>2, <2>3
  <2>. QED  BY <2>4
<1>3. b \in T
  <2> HIDE DEF T
  <2>. QED  BY <1>1, <1>2, Upwards
<1>. QED  BY <1>3

(* The loop over the lines behind, turn by turn.                           *)
LEMMA TailLoopExists ==
  ASSUME NEW a, NEW from, NEW b \in Nat
  PROVE  \E t : t = [n \in 0 .. b |-> TailTurn(a, from, t, n)]
<1> DEFINE Loops(t, c) == t = [n \in 0 .. c |-> TailTurn(a, from, t, n)]
           T == {c \in Nat : \E t : Loops(t, c)}
<1>1. 0 \in T
  <2> DEFINE t == [n \in 0 .. 0 |-> SeekEol(a, from)]
  <2>1. t = [n \in 0 .. 0 |-> TailTurn(a, from, t, n)]
    BY DEF TailTurn
  <2> HIDE DEF t
  <2>. QED  BY <2>1
<1>2. ASSUME NEW c \in Nat, c \in T
      PROVE  c + 1 \in T
  <2>1. PICK t : t = [n \in 0 .. c |-> TailTurn(a, from, t, n)]
    BY <1>2
  <2> DEFINE g == [n \in 0 .. c + 1 |-> IF n = c + 1 THEN TailTurn(a, from, t, n) ELSE t[n]]
  <2>2. ASSUME NEW n \in 0 .. c + 1
        PROVE  g[n] = TailTurn(a, from, g, n)
    <3>1. n # 0 => n - 1 \in 0 .. c + 1 /\ n - 1 # c + 1
      OBVIOUS
    <3>2. n # 0 => g[n - 1] = t[n - 1]
      BY <3>1
    <3>3. TailTurn(a, from, g, n) = TailTurn(a, from, t, n)
      BY <3>2 DEF TailTurn
    <3>4. n # c + 1 => t[n] = TailTurn(a, from, t, n)
      <4>1. n # c + 1 => n \in 0 .. c
        OBVIOUS
      <4>. QED  BY <2>1, <4>1
    <3>. QED  BY <3>3, <3>4
  <2>3. g = [n \in 0 .. c + 1 |-> g[n]]
    OBVIOUS
  <2> HIDE DEF g
  <2>4. g = [n \in 0 .. c + 1 |-> TailTurn(a, from, g, n)]
    BY <2>2, <2>3
  <2>. QED  BY <2>4
<1>3. b \in T
  <2> HIDE DEF T
  <2>. QED  BY <1>1, <1>2, Upwards
<1>. QED  BY <1>3

HeadLoop(a, pos, b, h) == \A n \in 0 .. b : h[n] = HeadTurn(a, pos, h, n)

TailLoop(a, from, f, t) == \A n \in 0 .. f : t[n] = TailTurn(a, from, t, n)

(* sa_seek_context_lines returns what the loops have come to.              *)
LEMMA ContextLoops ==
  ASSUME NEW a, NEW pos, NEW b \in Nat, NEW f \in Nat
  PROVE  \E h, t : /\ HeadLoop(a, pos, b, h)
                   /\ TailLoop(a, h[0], f, t)
                   /\ SeekContextLines(a, pos, b, f)
                        = [ptr |-> h[b], len |-> t[f] - h[b]]
<1> DEFINE EqH(h) == h = [n \in 0 .. b |-> HeadTurn(a, pos, h, n)]
           hh == CHOOSE h : EqH(h)
           EqT(t) == t = [n \in 0 .. f |-> TailTurn(a, hh[0], t, n)]
           tt == CHOOSE t : EqT(t)
<1>1. SeekContextLines(a, pos, b, f) = [ptr |-> hh[b], len |-> tt[f] - hh[b]]
  BY DEF SeekContextLines, HeadTurn, TailTurn
<1>2. EqH(hh)
  <2>1. \E h : EqH(h)
    BY HeadLoopExists
  <2> HIDE DEF EqH
  <2>. QED  BY <2>1
<1>3. HeadLoop(a, pos, b, hh)
  <2>1. hh = [n \in 0 .. b |-> HeadTurn(a, pos, hh, n)]
    BY <1>2
  <2> HIDE DEF hh
  <2>. QED  BY <2>1 DEF HeadLoop
<1> HIDE DEF hh
<1>4. EqT(tt)
  <2>1. \E t : EqT(t)
    BY TailLoopExists
  <2> HIDE DEF EqT
  <2>. QED  BY <2>1
<1>5. TailLoop(a, hh[0], f, tt)
  <2>1. tt = [n \in 0 .. f |-> TailTurn(a, hh[0], tt, n)]
    BY <1>4
  <2> HIDE DEF tt
  <2>. QED  BY <2>1 DEF TailLoop
<1>. QED  BY <1>1, <1>3, <1>5
-----------------------------------------------------------------------------
(* Lines, counted from 0 by the newlines in front of a position.           *)
Lines(a, p) == Cardinality({q \in 0 .. p - 1 : Char(a, q) = NL})

Empty(a, l) == \E p \in 0 .. Eof(a) - 1 :
  Lines(a, p) = l /\ Char(a, p) = NL /\ (p = 0 \/ Char(a, p - 1) = NL)

(* The line of a position is a number.                                     *)
LEMMA LinesType ==
  ASSUME NEW a, NEW p \in Nat
  PROVE  /\ IsFiniteSet({q \in 0 .. p - 1 : Char(a, q) = NL})
         /\ Lines(a, p) \in Nat
<1>1. IsFiniteSet(0 .. p - 1)
  BY FS_Interval
<1>2. {q \in 0 .. p - 1 : Char(a, q) = NL} \subseteq 0 .. p - 1
  OBVIOUS
<1>3. IsFiniteSet({q \in 0 .. p - 1 : Char(a, q) = NL})
  BY <1>1, <1>2, FS_Subset
<1>. QED  BY <1>3, FS_CardinalityType DEF Lines

(* Lines do not go back.                                                   *)
LEMMA LinesAscend ==
  ASSUME NEW a, NEW p \in Nat, NEW q \in Nat, p <= q
  PROVE  Lines(a, p) <= Lines(a, q)
<1> DEFINE N(x) == {r \in 0 .. x - 1 : Char(a, r) = NL}
<1>1. N(p) \subseteq N(q)
  OBVIOUS
<1>2. IsFiniteSet(N(q))
  BY LinesType
<1> HIDE DEF N
<1>3. Cardinality(N(p)) <= Cardinality(N(q))
  BY <1>1, <1>2, FS_Subset
<1>. QED  BY <1>3 DEF Lines, N

(* Positions with no newline between them are in one line.                 *)
LEMMA SameLine ==
  ASSUME NEW a, NEW p \in Nat, NEW q \in Nat, p <= q,
         \A r \in p .. q - 1 : Char(a, r) # NL
  PROVE  Lines(a, p) = Lines(a, q)
<1>1. ASSUME NEW r \in 0 .. q - 1, Char(a, r) = NL
      PROVE  r \in 0 .. p - 1
  <2>1. ~ r \in p .. q - 1
    BY <1>1
  <2>. QED  BY <2>1
<1>2. 0 .. p - 1 \subseteq 0 .. q - 1
  OBVIOUS
<1>3. {r \in 0 .. p - 1 : Char(a, r) = NL} = {r \in 0 .. q - 1 : Char(a, r) = NL}
  BY <1>1, <1>2
<1>. QED  BY <1>3 DEF Lines

(* Behind a newline the next line begins.                                  *)
LEMMA NewlineEndsLine ==
  ASSUME NEW a, NEW p \in Nat, Char(a, p) = NL
  PROVE  Lines(a, p + 1) = Lines(a, p) + 1
<1> DEFINE N == {r \in 0 .. p - 1 : Char(a, r) = NL}
<1>1. {r \in 0 .. (p + 1) - 1 : Char(a, r) = NL} = N \union {p}
  <2>1. \A r : r \in 0 .. (p + 1) - 1 <=> r \in 0 .. p - 1 \/ r = p
    OBVIOUS
  <2>. QED  BY <2>1
<1>2. p \notin N /\ IsFiniteSet(N)
  BY LinesType
<1> HIDE DEF N
<1>3. Cardinality(N \union {p}) = Cardinality(N) + 1
  BY <1>2, FS_AddElement
<1>. QED  BY <1>1, <1>3 DEF Lines, N

(* Going back a line: from the head of a line that is not the first.       *)
LEMMA LineBefore ==
  ASSUME NEW a, NEW p \in Nat, p > 0, Char(a, p - 1) = NL
  PROVE  p - 1 \in Nat /\ Lines(a, p) = Lines(a, p - 1) + 1
<1>1. p - 1 \in Nat /\ (p - 1) + 1 = p
  OBVIOUS
<1>. QED  BY <1>1, NewlineEndsLine

(* The text begins with line 0.                                            *)
LEMMA FirstLine ==
  ASSUME NEW a PROVE Lines(a, 0) = 0
<1>1. {q \in 0 .. 0 - 1 : Char(a, q) = NL} = {}
  OBVIOUS
<1>. QED  BY <1>1, FS_EmptySet DEF Lines

(* The head goes back one line a turn.                                     *)
HeadIs(a, pos, h, n) ==
  /\ h[n] \in 0 .. pos
  /\ h[n] = 0 => Lines(a, pos) <= n
  /\ h[n] > 0 => Char(a, h[n] - 1) = NL /\ Lines(a, h[n]) = Lines(a, pos) - n

(* After n turns back the region begins n lines before, or at the top.     *)
LEMMA HeadsAre ==
  ASSUME NEW a, NEW pos \in Nat, NEW b \in Nat, NEW h, HeadLoop(a, pos, b, h)
  PROVE  \A n \in 0 .. b : HeadIs(a, pos, h, n)
<1> DEFINE T == {n \in Nat : n <= b => HeadIs(a, pos, h, n)}
<1>0. PICK at \in Nat : at = Lines(a, pos)
  BY LinesType
<1>1. 0 \in T
  <2>1. h[0] = SeekBol(a, pos)
    BY DEF HeadLoop, HeadTurn
  <2>2. /\ h[0] \in 0 .. pos
        /\ h[0] > 0 => Char(a, h[0] - 1) = NL
        /\ \A q \in h[0] .. pos - 1 : Char(a, q) # NL
    BY <2>1, BolIs
  <2>3. Lines(a, h[0]) = at
    <3>1. h[0] \in Nat /\ h[0] <= pos
      BY <2>2
    <3>. QED  BY <1>0, <2>2, <3>1, SameLine
  <2>4. h[0] = 0 => at = 0
    BY <2>3, FirstLine
  <2>5. HeadIs(a, pos, h, 0)
    BY <1>0, <2>2, <2>3, <2>4 DEF HeadIs
  <2>. QED  BY <2>5
<1>2. ASSUME NEW n \in Nat, n \in T
      PROVE  n + 1 \in T
  <2> SUFFICES ASSUME n + 1 <= b PROVE HeadIs(a, pos, h, n + 1)
    OBVIOUS
  <2>1. HeadIs(a, pos, h, n)
    BY <1>2
  <2>2. h[n + 1] = IF h[n] > 0 THEN SeekBol(a, h[n] - 1) ELSE 0
    <3>1. n + 1 \in 0 .. b /\ n + 1 # 0 /\ (n + 1) - 1 = n
      OBVIOUS
    <3>2. h[n + 1] = HeadTurn(a, pos, h, n + 1)
      BY <3>1 DEF HeadLoop
    <3>. QED  BY <3>1, <3>2 DEF HeadTurn
  <2>3. PICK x \in 0 .. pos : x = h[n]
    BY <2>1 DEF HeadIs
  <2>4. CASE x = 0
    <3>1. at <= n /\ h[n + 1] = 0
      BY <1>0, <2>1, <2>2, <2>3, <2>4 DEF HeadIs
    <3>. QED  BY <1>0, <3>1 DEF HeadIs
  <2>5. CASE x # 0
    <3>1. x > 0 /\ x - 1 \in Nat /\ h[n + 1] = SeekBol(a, x - 1)
      BY <2>2, <2>3, <2>5
    <3>2. PICK y : y = h[n + 1]
      OBVIOUS
    <3>3. /\ y \in 0 .. x - 1
          /\ y > 0 => Char(a, y - 1) = NL
          /\ \A q \in y .. (x - 1) - 1 : Char(a, q) # NL
      BY <3>1, <3>2, BolIs
    <3>4. Lines(a, y) = Lines(a, x - 1)
      BY <3>1, <3>3, SameLine
    <3>5. Char(a, x - 1) = NL /\ Lines(a, x) = at - n
      BY <1>0, <2>1, <2>3, <3>1 DEF HeadIs
    <3>6. Lines(a, x) = Lines(a, x - 1) + 1
      BY <3>1, <3>5, LineBefore
    <3>7. Lines(a, x - 1) \in Nat
      BY <3>1, LinesType
    <3>8. Lines(a, y) = at - (n + 1)
      BY <3>4, <3>5, <3>6, <3>7
    <3>9. y = 0 => at <= n + 1
      BY <3>8, FirstLine
    <3>10. y \in 0 .. pos
      BY <3>3
    <3>. QED  BY <1>0, <3>2, <3>3, <3>8, <3>9, <3>10 DEF HeadIs
  <2>. QED  BY <2>4, <2>5
<1>3. Nat \subseteq T
  <2> HIDE DEF T
  <2>. QED  BY <1>1, <1>2, Upwards
<1>. QED  BY <1>3

(* The tail takes at least one more line a turn, and one if no empty line  *)
(* stands where it goes on.                                                *)
TailIs(a, pos, t, n) ==
  LET at == Lines(a, pos) IN
  /\ t[n] \in pos + 1 .. Eof(a)
  /\ t[n] < Eof(a) => Char(a, t[n] - 1) = NL /\ at + n < Lines(a, t[n])
  /\ (\A l \in at + 1 .. at + n : ~ Empty(a, l)) =>
       /\ Lines(a, t[n] - 1) <= at + n
       /\ t[n] < Eof(a) => Lines(a, t[n]) = at + n + 1

(* After n turns on it ends n lines behind, empty ones apart.              *)
LEMMA TailsAre ==
  ASSUME NEW a, a.text \in Seq(Byte), NEW pos \in Nat, pos < Eof(a),
         NEW f \in Nat, NEW t, NEW head \in 0 .. pos,
         \A q \in head .. pos - 1 : Char(a, q) # NL,
         TailLoop(a, head, f, t)
  PROVE  \A n \in 0 .. f : TailIs(a, pos, t, n)
<1> DEFINE T == {n \in Nat : n <= f => TailIs(a, pos, t, n)}
<1>0. PICK at \in Nat : at = Lines(a, pos)
  BY LinesType
<1>z. PICK z \in Nat : z = Eof(a)
  BY EofType
<1>1. 0 \in T
  <2>1. PICK x : x = t[0] /\ x = SeekEol(a, head)
    BY DEF TailLoop, TailTurn
  <2>2. /\ x \in head .. z
        /\ x < z => head < x /\ Char(a, x - 1) = NL
        /\ head < z => head < x
        /\ \A q \in head .. x - 2 : Char(a, q) # NL
    BY <1>z, <2>1, EolIs
  <2>3. pos < x
    <3> SUFFICES ASSUME x <= pos PROVE FALSE
      BY <2>2
    <3>1. x < z /\ x - 1 \in head .. pos - 1
      BY <1>z, <2>2
    <3>. QED  BY <2>2, <3>1
  <2>4. Lines(a, x - 1) = at
    <3>1. x - 1 \in Nat /\ pos <= x - 1
      BY <2>2, <2>3
    <3>2. \A q \in pos .. (x - 1) - 1 : q \in head .. x - 2
      BY <2>2
    <3>. QED  BY <1>0, <2>2, <3>1, <3>2, SameLine
  <2>5. x < z => Lines(a, x) = at + 1
    BY <2>2, <2>3, <2>4, LineBefore
  <2>6. x < z => at + 0 < Lines(a, x)
    BY <2>5
  <2>7. Lines(a, x - 1) <= at + 0 /\ (x < z => Lines(a, x) = at + 0 + 1)
    BY <2>4, <2>5
  <2>8. x \in pos + 1 .. z
    BY <2>2, <2>3
  <2>9. TailIs(a, pos, t, 0)
    BY <1>0, <1>z, <2>1, <2>2, <2>6, <2>7, <2>8 DEF TailIs
  <2>. QED  BY <2>9
<1>2. ASSUME NEW n \in Nat, n \in T
      PROVE  n + 1 \in T
  <2> SUFFICES ASSUME n + 1 <= f PROVE TailIs(a, pos, t, n + 1)
    OBVIOUS
  <2>1. TailIs(a, pos, t, n)
    BY <1>2
  <2>2. t[n + 1] = IF t[n] < Eof(a) THEN SeekEol(a, t[n] + 1) ELSE Eof(a)
    <3>1. n + 1 \in 0 .. f /\ n + 1 # 0 /\ (n + 1) - 1 = n
      OBVIOUS
    <3>2. t[n + 1] = TailTurn(a, head, t, n + 1)
      BY <3>1 DEF TailLoop
    <3>. QED  BY <3>1, <3>2 DEF TailTurn
  <2>3. PICK x \in pos + 1 .. z : x = t[n]
    BY <1>z, <2>1 DEF TailIs
  <2>4. PICK y : y = t[n + 1]
    OBVIOUS
  <2> DEFINE None(m) == \A l \in at + 1 .. at + m : ~ Empty(a, l)
  <2>5. None(n + 1) => None(n) /\ ~ Empty(a, at + n + 1)
    <3>1. at + n + 1 \in at + 1 .. at + (n + 1)
      OBVIOUS
    <3>2. \A l \in at + 1 .. at + n : l \in at + 1 .. at + (n + 1)
      OBVIOUS
    <3>. QED  BY <3>1, <3>2
  <2>6. None(n) => Lines(a, x - 1) <= at + n /\ (x < z => Lines(a, x) = at + n + 1)
    BY <1>0, <1>z, <2>1, <2>3 DEF TailIs
  <2>7. x < z => Char(a, x - 1) = NL /\ at + n < Lines(a, x)
    BY <1>0, <1>z, <2>1, <2>3 DEF TailIs
  <2> HIDE DEF None
  <2>8. CASE x = z
    <3>1. y = z
      BY <1>z, <2>2, <2>3, <2>4, <2>8
    <3>2. None(n + 1) => Lines(a, y - 1) <= at + (n + 1)
      <4>1. Lines(a, y - 1) \in Nat
        <5>1. y - 1 \in Nat
          BY <2>3, <2>8, <3>1
        <5>. QED  BY <5>1, LinesType
      <4>. QED  BY <2>5, <2>6, <2>8, <3>1, <4>1
    <3>. QED  BY <1>0, <1>z, <2>3, <2>4, <2>8, <3>1, <3>2 DEF TailIs, None
  <2>9. CASE x # z
    <3>1. x < z /\ x \in Nat /\ x + 1 \in 0 .. z /\ y = SeekEol(a, x + 1)
      BY <1>z, <2>2, <2>3, <2>4, <2>9
    <3>2. /\ y \in x + 1 .. z
          /\ y < z => x + 1 < y /\ Char(a, y - 1) = NL
          /\ x + 1 < z => x + 1 < y
          /\ \A q \in x + 1 .. y - 2 : Char(a, q) # NL
      BY <1>z, <3>1, EolIs
    <3>3. y - 1 \in Nat /\ x <= y - 1
      BY <3>1, <3>2
    <3>4. Lines(a, x) <= Lines(a, y - 1)
      BY <3>1, <3>3, LinesAscend
    <3>5. Lines(a, x) \in Nat /\ Lines(a, y - 1) \in Nat
      BY <3>1, <3>3, LinesType
    <3>6. y < z => Lines(a, y) = Lines(a, y - 1) + 1
      BY <3>2, <3>3, LineBefore
    <3>7. y < z => at + (n + 1) < Lines(a, y)
      BY <2>7, <3>1, <3>4, <3>5, <3>6
    <3>8. None(n + 1) => Lines(a, y - 1) = at + (n + 1)
      <4> SUFFICES ASSUME None(n + 1) PROVE Lines(a, y - 1) = at + (n + 1)
        OBVIOUS
      <4>1. Lines(a, x) = at + n + 1
        BY <2>5, <2>6, <3>1
      <4>2. Char(a, x) # NL
        <5>1. x \in 0 .. Eof(a) - 1
          BY <1>z, <3>1
        <5>2. Char(a, x - 1) = NL
          BY <2>7, <3>1
        <5>. QED  BY <2>5, <4>1, <5>1, <5>2 DEF Empty
      <4>3. \A q \in x .. (y - 1) - 1 : q = x \/ q \in x + 1 .. y - 2
        BY <3>1, <3>2
      <4>4. Lines(a, x) = Lines(a, y - 1)
        BY <3>1, <3>2, <3>3, <4>2, <4>3, SameLine
      <4>. QED  BY <4>1, <4>4
    <3>9. y \in pos + 1 .. z
      BY <2>3, <3>2
    <3>. QED  BY <1>0, <1>z, <2>4, <3>2, <3>5, <3>6, <3>7, <3>8, <3>9 DEF TailIs, None
  <2>. QED  BY <2>8, <2>9
<1>3. Nat \subseteq T
  <2> HIDE DEF T
  <2>. QED  BY <1>1, <1>2, Upwards
<1>. QED  BY <1>3
-----------------------------------------------------------------------------
(* What print_one_region shows for a match, cut to whole lines.            *)
Shown(pos, klen) == PrintOneRegion(ary, GetOneRegion(ary, pos), pos, klen)

(* The end of a region of lines is a newline or the end of the text; stop  *)
(* is where sa_seek_context_lines has ended it.                            *)
LinesShown(r, stop) ==
  LET at == Lines(ary, r.pos) IN
  /\ r.ptr \in 0 .. r.pos /\ r.end \in r.pos .. Eof(ary)
  /\ \/ stop = r.end /\ r.end = Eof(ary)
     \/ stop = r.end + 1 /\ r.end < Eof(ary) /\ Char(ary, r.end) = NL
  /\ \A p \in r.ptr .. Eof(ary) : at - opts.before <= Lines(ary, p)
  /\ \A p \in 0 .. r.ptr - 1 : Lines(ary, p) < at - opts.before
  /\ \A p \in stop .. Eof(ary) - 1 : at + opts.after < Lines(ary, p)
  /\ (\A l \in at + 1 .. at + opts.after : ~ Empty(ary, l)) =>
       \A p \in 0 .. stop - 1 : Lines(ary, p) <= at + opts.after
  /\ opts.before = 0 => /\ \A q \in r.ptr .. r.pos - 1 : Char(ary, q) # NL
                        /\ r.ptr > 0 => Char(ary, r.ptr - 1) = NL

(* The region of lines is as LinesShown has it.                            *)
LEMMA LineRegion ==
  ASSUME ary.text \in Seq(Byte), opts.before \in Nat, opts.after \in Nat, ~ opts.tag,
         NEW pos \in Nat, pos < Eof(ary), NEW klen
  PROVE  /\ Shown(pos, klen).pos = pos
         /\ GetOneRegion(ary, pos) =
              [ptr |-> Shown(pos, klen).ptr,
               len |-> Shown(pos, klen).end - Shown(pos, klen).ptr]
         /\ \E stop : LinesShown(Shown(pos, klen), stop)
<1>0. PICK z \in Nat : z = Eof(ary)
  BY EofType
<1>a. PICK at \in Nat : at = Lines(ary, pos)
  BY LinesType
<1>b. PICK b \in Nat, f \in Nat : b = opts.before /\ f = opts.after
  OBVIOUS
<1>1. PICK h, t : /\ HeadLoop(ary, pos, b, h)
                  /\ TailLoop(ary, h[0], f, t)
                  /\ SeekContextLines(ary, pos, b, f) = [ptr |-> h[b], len |-> t[f] - h[b]]
  BY ContextLoops
<1>2. HeadIs(ary, pos, h, b) /\ HeadIs(ary, pos, h, 0)
  <2>1. b \in 0 .. b /\ 0 \in 0 .. b
    OBVIOUS
  <2>. QED  BY <1>1, <2>1, HeadsAre
<1>3. /\ h[0] \in 0 .. pos
      /\ \A q \in h[0] .. pos - 1 : Char(ary, q) # NL
  <2>1. h[0] = SeekBol(ary, pos)
    BY <1>1 DEF HeadLoop, HeadTurn
  <2>. QED  BY <2>1, BolIs
<1>4. TailIs(ary, pos, t, f)
  <2>1. f \in 0 .. f
    OBVIOUS
  <2>. QED  BY <1>1, <1>3, <2>1, TailsAre
<1>5. PICK x \in 0 .. pos : /\ x = h[b]
                            /\ x = 0 => at <= b
                            /\ x > 0 => Char(ary, x - 1) = NL /\ Lines(ary, x) = at - b
  BY <1>2, <1>a DEF HeadIs
<1>6. PICK y \in pos + 1 .. z :
        /\ y = t[f]
        /\ y < z => Char(ary, y - 1) = NL /\ at + f < Lines(ary, y)
        /\ (\A l \in at + 1 .. at + f : ~ Empty(ary, l)) => Lines(ary, y - 1) <= at + f
  BY <1>0, <1>4, <1>a DEF TailIs
<1>7. PICK e : e = IF Char(ary, y - 1) = NL THEN y - 1 ELSE y
  OBVIOUS
<1>8. GetOneRegion(ary, pos) = [ptr |-> x, len |-> e - x]
  <2>1. SeekContextLines(ary, pos, opts.before, opts.after) = [ptr |-> x, len |-> y - x]
    BY <1>1, <1>5, <1>6, <1>b
  <2>2. x + (y - x) - 1 = y - 1 /\ (y - x) - 1 = (y - 1) - x
    BY <1>5, <1>6
  <2>. QED  BY <1>7, <2>1, <2>2 DEF GetOneRegion
<1>9. PICK r : r = Shown(pos, klen)
  OBVIOUS
<1>10. r.pos = pos /\ r.ptr = x /\ r.end = e
  <2>1. x + (e - x) = e
    BY <1>5, <1>6, <1>7
  <2>. QED  BY <1>8, <1>9, <2>1 DEF Shown, PrintOneRegion
<1>11. /\ e \in pos .. z
       /\ \/ y = e /\ e = z
          \/ y = e + 1 /\ e < z /\ Char(ary, e) = NL
  <2>1. CASE Char(ary, y - 1) = NL
    <3>1. e = y - 1
      BY <1>7, <2>1
    <3>. QED  BY <2>1, <3>1
  <2>2. CASE Char(ary, y - 1) # NL
    <3>1. e = y /\ ~ y < z
      BY <1>6, <1>7, <2>2
    <3>. QED  BY <3>1
  <2>. QED  BY <2>1, <2>2
<1>12. ASSUME NEW p \in x .. z PROVE at - b <= Lines(ary, p)
  <2>1. p \in Nat /\ x \in Nat /\ x <= p
    BY <1>5
  <2>2. Lines(ary, p) \in Nat /\ Lines(ary, x) \in Nat /\ Lines(ary, x) <= Lines(ary, p)
    BY <2>1, LinesType, LinesAscend
  <2>. QED  BY <1>5, <2>2
<1>13. ASSUME NEW p \in 0 .. x - 1 PROVE Lines(ary, p) < at - b
  <2>1. p \in Nat /\ x > 0 /\ x - 1 \in Nat /\ p <= x - 1 /\ x \in Nat
    BY <1>5
  <2>2. Lines(ary, p) \in Nat /\ Lines(ary, x - 1) \in Nat
    BY <2>1, LinesType
  <2>3. Lines(ary, p) <= Lines(ary, x - 1)
    BY <2>1, LinesAscend
  <2>4. Lines(ary, x) = Lines(ary, x - 1) + 1
    BY <1>5, <2>1, LineBefore
  <2>. QED  BY <1>5, <2>1, <2>2, <2>3, <2>4
<1>14. ASSUME NEW p \in y .. z - 1 PROVE at + f < Lines(ary, p)
  <2>1. p \in Nat /\ y \in Nat /\ y <= p /\ y < z
    BY <1>6
  <2>2. Lines(ary, y) <= Lines(ary, p) /\ Lines(ary, y) \in Nat /\ Lines(ary, p) \in Nat
    BY <2>1, LinesAscend, LinesType
  <2>. QED  BY <1>6, <2>1, <2>2
<1>15. ASSUME \A l \in at + 1 .. at + f : ~ Empty(ary, l), NEW p \in 0 .. y - 1
       PROVE  Lines(ary, p) <= at + f
  <2>1. p \in Nat /\ y - 1 \in Nat /\ p <= y - 1
    BY <1>6
  <2>2. Lines(ary, p) <= Lines(ary, y - 1) /\ Lines(ary, y - 1) \in Nat /\ Lines(ary, p) \in Nat
    BY <2>1, LinesAscend, LinesType
  <2>. QED  BY <1>6, <1>15, <2>2
<1>16. b = 0 => /\ \A q \in x .. pos - 1 : Char(ary, q) # NL
                /\ x > 0 => Char(ary, x - 1) = NL
  BY <1>3, <1>5
<1>17. LinesShown(r, y)
  BY <1>0, <1>a, <1>b, <1>5, <1>10, <1>11, <1>12, <1>13, <1>14, <1>15, <1>16 DEF LinesShown
<1>. QED  BY <1>8, <1>9, <1>10, <1>17

(* A keyword within its line lies in the region, so that what is printed   *)
(* behind it has no negative length.                                       *)
LEMMA EmphasisRegion ==
  ASSUME ary.text \in Seq(Byte), opts.before \in Nat, opts.after \in Nat, ~ opts.tag,
         NEW pos \in Nat, pos < Eof(ary), NEW klen \in Nat, pos + klen <= Eof(ary),
         \A q \in pos .. pos + klen - 1 : Char(ary, q) # NL
  PROVE  Shown(pos, klen).shown_to = Shown(pos, klen).end
<1>1. PICK r, stop : r = Shown(pos, klen) /\ r.pos = pos /\ LinesShown(r, stop)
  BY LineRegion
<1>2. PICK z \in Nat : z = Eof(ary)
  BY EofType
<1>3. PICK ptr \in 0 .. pos, end \in pos .. z :
        /\ ptr = r.ptr /\ end = r.end
        /\ end = z \/ Char(ary, end) = NL
  BY <1>1, <1>2 DEF LinesShown
<1>4. pos + klen <= end
  <2>1. ~ end \in pos .. pos + klen - 1 \/ end = z
    BY <1>3
  <2>. QED  BY <1>2, <1>3, <2>1
<1>5. GetOneRegion(ary, pos) = [ptr |-> ptr, len |-> end - ptr]
  BY <1>1, <1>3, LineRegion
<1>6. r.shown_to = IF opts.emphasis
                   THEN PrintedTo(ary, pos + klen, (end - ptr) - (pos - ptr + klen))
                   ELSE ptr + (end - ptr)
  BY <1>1, <1>5 DEF Shown, PrintOneRegion
<1>7. ~ (end - ptr) - (pos - ptr + klen) < 0
  BY <1>3, <1>4
<1>8. /\ pos + klen + ((end - ptr) - (pos - ptr + klen)) = end
      /\ ptr + (end - ptr) = end
  BY <1>3
<1>9. r.shown_to = end
  BY <1>6, <1>7, <1>8 DEF PrintedTo
<1>. QED  BY <1>1, <1>3, <1>9

(* The region of tags.                                                     *)
TagsShown(r) ==
  LET begin == opts.tags[1]
      stop == r.end - Len(opts.tags[2])
  IN /\ r.ptr \in 0 .. r.pos /\ r.end \in r.pos .. Eof(ary)
     /\ r.ptr > 0 => PatternAt(ary, r.ptr, begin)
     /\ \A p \in r.ptr + 1 .. r.pos : ~ PatternAt(ary, p, begin)
     /\ \A p \in r.pos .. stop - 1 : ~ PatternAt(ary, p, opts.tags[2])
     /\ r.end < Eof(ary) => stop >= r.pos /\ PatternAt(ary, stop, opts.tags[2])

(* sa_seek_pattern_backward: the nearest begin tag, or the top.            *)
LEMMA BackwardIs ==
  ASSUME NEW a, NEW pos \in Nat, NEW w
  PROVE  LET b == SeekPatternBackward(a, pos, w) IN
         /\ b \in 0 .. pos
         /\ b > 0 => PatternAt(a, b, w)
         /\ \A p \in b + 1 .. pos : ~ PatternAt(a, p, w)
<1> DEFINE T == {0} \union {p \in 1 .. pos : PatternAt(a, p, w)}
           b == SeekPatternBackward(a, pos, w)
<1>1. T \subseteq 0 .. pos /\ T # {}
  OBVIOUS
<1>2. b = Max(T)
  BY DEF SeekPatternBackward
<1>3. b \in T /\ \A y \in T : y <= b
  <2> HIDE DEF T, b
  <2>. QED  BY <1>1, <1>2, GreatestOf
<1> HIDE DEF b
<1>4. b \in 0 .. pos /\ (b > 0 => PatternAt(a, b, w))
  BY <1>3
<1>5. ASSUME NEW p \in b + 1 .. pos, PatternAt(a, p, w)
      PROVE  FALSE
  <2>1. p \in 1 .. pos /\ b < p
    BY <1>4
  <2>2. p <= b
    BY <1>3, <1>5, <2>1
  <2>. QED  BY <1>4, <2>1, <2>2
<1>. QED  BY <1>4, <1>5 DEF b

(* sa_seek_pattern_forward: the end of the nearest end tag, or the text.   *)
LEMMA ForwardIs ==
  ASSUME NEW a, a.text \in Seq(Byte), NEW pos \in Nat, pos <= Eof(a),
         NEW w, NEW m \in Nat, m = Len(w)
  PROVE  LET e == SeekPatternForward(a, pos, w) IN
         /\ e \in pos .. Eof(a)
         /\ \A p \in pos .. e - m - 1 : ~ PatternAt(a, p, w)
         /\ e < Eof(a) => pos <= e - m /\ PatternAt(a, e - m, w)
<1>0. PICK z \in Nat : z = Eof(a)
  BY EofType
<1> DEFINE N == {q \in pos .. z - m : PatternAt(a, q, w)}
           T == {z} \union {p + m : p \in N}
           e == SeekPatternForward(a, pos, w)
<1>1. T \subseteq Nat /\ T # {}
  BY <1>0
<1>2. e = Min(T)
  BY <1>0 DEF SeekPatternForward
<1>3. e \in T /\ \A y \in T : e <= y
  <2> HIDE DEF T, e
  <2>. QED  BY <1>1, <1>2, LeastOf
<1> HIDE DEF e
<1>4. e = z \/ \E q \in N : e = q + m
  BY <1>3
<1>5. e \in pos .. z
  BY <1>0, <1>4
<1>6. ASSUME NEW p \in pos .. e - m - 1, PatternAt(a, p, w)
      PROVE  FALSE
  <2>1. p \in pos .. z - m
    BY <1>0, <1>5
  <2>2. p + m \in T
    BY <1>6, <2>1
  <2>3. e <= p + m
    BY <1>3, <2>2
  <2>. QED  BY <1>5, <2>1, <2>3
<1>7. e < z => pos <= e - m /\ PatternAt(a, e - m, w)
  <2> SUFFICES ASSUME e < z PROVE pos <= e - m /\ PatternAt(a, e - m, w)
    OBVIOUS
  <2>1. PICK q \in N : e = q + m
    BY <1>0, <1>4
  <2>2. q \in pos .. z - m /\ PatternAt(a, q, w) /\ e - m = q
    BY <1>0, <2>1
  <2>. QED  BY <2>2
<1>. QED  BY <1>0, <1>5, <1>6, <1>7 DEF e

(* The region of tags is as TagsShown has it.                              *)
LEMMA TagRegion ==
  ASSUME ary.text \in Seq(Byte), opts.tags[2] \in Seq(Byte), opts.tag,
         NEW pos \in Nat, pos < Eof(ary), NEW klen
  PROVE  Shown(pos, klen).pos = pos /\ TagsShown(Shown(pos, klen))
<1>0. PICK z \in Nat : z = Eof(ary)
  BY EofType
<1>1. PICK b : b = SeekPatternBackward(ary, pos, opts.tags[1])
  OBVIOUS
<1>2. /\ b \in 0 .. pos
      /\ b > 0 => PatternAt(ary, b, opts.tags[1])
      /\ \A p \in b + 1 .. pos : ~ PatternAt(ary, p, opts.tags[1])
  BY <1>1, BackwardIs
<1>3. PICK m \in Nat : m = Len(opts.tags[2])
  OBVIOUS
<1>4. PICK e : e = SeekPatternForward(ary, pos, opts.tags[2])
  OBVIOUS
<1>5. /\ e \in pos .. z
      /\ \A p \in pos .. e - m - 1 : ~ PatternAt(ary, p, opts.tags[2])
      /\ e < z => pos <= e - m /\ PatternAt(ary, e - m, opts.tags[2])
  BY <1>0, <1>3, <1>4, ForwardIs
<1>6. GetOneRegion(ary, pos) = [ptr |-> b, len |-> e - b]
  BY <1>1, <1>4 DEF GetOneRegion, SeekContextRegion
<1>7. PICK r : r = Shown(pos, klen)
  OBVIOUS
<1>8. r.pos = pos /\ r.ptr = b /\ r.end = e
  <2>1. b + (e - b) = e
    BY <1>2, <1>5
  <2>. QED  BY <1>6, <1>7, <2>1 DEF Shown, PrintOneRegion
<1>9. e < z => e - m >= pos
  BY <1>2, <1>3, <1>5
<1>10. TagsShown(r)
  BY <1>0, <1>2, <1>3, <1>5, <1>8, <1>9 DEF TagsShown
<1>. QED  BY <1>7, <1>8, <1>10
-----------------------------------------------------------------------------
(* The invariant of the run.  What the options come to.                    *)
OptionsGiven == UNION {Range(a.options) : a \in Arguments}

FileNames == {""} \union {t.arg : t \in {u \in OptionsGiven : u.ch = "a"}}

OptionsType ==
  [regex : BOOLEAN, stdin : BOOLEAN, ignore_case : BOOLEAN, emphasis : BOOLEAN,
   uniq : BOOLEAN, sort : BOOLEAN, count : BOOLEAN, tag : BOOLEAN,
   tags : Seq(Byte) \X Seq(Byte), before : Nat, after : Nat, digits : Nat,
   array_file : FileNames, exit : BOOLEAN]

Opened == {"search", "print", "printing", "close", "undefined"}

TypeOK ==
  /\ pc \in {"start", "key", "open", "done", "failed"} \union Opened
  /\ DiskOK(disk) /\ args \in Arguments /\ ArgumentsOK(args)
  /\ opts \in OptionsType
  /\ rgnary \in Seq(Nat) /\ rgnary_at \in {"NULL", "live", "freed"}
  /\ pc = "start" => i \in 0 .. Len(args.options)

(* -u sorts, too; and -s is known when the lines are read.                 *)
OptionsKept ==
  /\ opts.uniq => opts.sort
  /\ pc = "start" =>
       (opts.stdin <=> \E n \in 1 .. i : args.options[n].ch = "s")
  /\ pc \notin {"start", "failed"} =>
       (opts.stdin <=> \E t \in Range(args.options) : t.ch = "s")

(* Without -s no key follows the first.                                    *)
LinesLeft ==
  pc \notin {"start", "failed"} =>
    /\ lines \in Seq(Seq(Byte))
    /\ opts.stdin => <<>> \notin Range(lines)
    /\ ~ opts.stdin => Len(lines) <= 1
    /\ ~ opts.stdin /\ pc # "key" => lines = <<>>

(* The result is live from its collection to the end of its printing; a    *)
(* list of results is left where it was counted.                           *)
MemoryOK ==
  /\ blocks \ {"results"} = (IF pc \in Opened THEN {"ary"} ELSE {})
                              \union (IF rgnary_at = "live" THEN {"rgnary"} ELSE {})
  /\ "results" \in blocks => pc # "start" /\ opts.count /\ ListMode
  /\ rgnary_at = "live" => pc \in {"print", "printing"}
  /\ pc = "printing" => rgnary_at = "live"
  /\ rgnary_at # "NULL" => pc # "start" /\ (ListMode \/ rgnary # <<>>)
  /\ rgnary_at = "freed" /\ ~ opts.stdin =>
       lines = <<>> /\ pc \in {"close", "key", "done"}
  /\ pc = "undefined" => rgnary_at = "freed"

Found == Matches(ary, key)

SearchOK ==
  /\ pc \in Opened => IsAry(ary)
  /\ pc \in Opened \union {"open"} => key \in Seq(Byte)
  /\ pc \in {"print", "printing", "undefined"} =>
       key # <<>> /\ opts.sort /\ ~ opts.count
  /\ pc \in {"open", "search", "print", "undefined"} => out = <<>>
  /\ pc = "print" /\ rgnary_at = "live" => rgnary = Found
  /\ pc \in {"print", "undefined"} /\ rgnary_at # "live" =>
       ~ ListMode /\ Found = <<>>

(* The positions of rgnary are the matches, in the order of the text.      *)
ResultSorted ==
  /\ \A m, n \in DOMAIN rgnary : m < n => rgnary[m] < rgnary[n]
  /\ \A n \in DOMAIN rgnary : \E c \in DOMAIN Found : rgnary[n] = Found[c]
  /\ \A c \in DOMAIN Found : \E n \in DOMAIN rgnary : rgnary[n] = Found[c]

(* Every region printed is that of a match.                                *)
EachShown(klen) ==
  /\ out \in Seq({Shown(p, klen) : p \in Nat})
  /\ \A m \in DOMAIN out :
       /\ out[m] = Shown(out[m].pos, klen)
       /\ \E c \in DOMAIN Found : out[m].pos = Found[c]

Apart == \A m, n \in DOMAIN out : m < n => out[m].end < out[n].ptr

(* How far print_sorted_result has come.                                   *)
PrintedSoFar ==
  /\ i \in 0 .. Len(rgnary)
  /\ EachShown(2)
  /\ Ascends(out)
  /\ \A m \in DOMAIN out : \E k \in 1 .. i : out[m].pos = rgnary[k]
  /\ \A k \in 1 .. i : \E m \in DOMAIN out :
       \/ rgnary[k] = out[m].pos
       \/ opts.uniq /\ rgnary[k] \in out[m].ptr .. out[m].end - 1
  /\ opts.uniq /\ opts.before = 0 /\ ~ opts.tag /\ key[1] # NL => Apart

KeyLength == IF opts.sort THEN 2 ELSE Len(key)

PrintOK ==
  /\ pc = "printing" => ResultSorted /\ PrintedSoFar
  /\ Answered /\ ~ opts.count => EveryMatchPrinted /\ EachShown(KeyLength)

IInv ==
  TypeOK /\ OptionsKept /\ LinesLeft /\ MemoryOK /\ SearchOK /\ PrintOK
-----------------------------------------------------------------------------
(* A match lies in the text, and its keyword has a newline only where the  *)
(* key has one.                                                            *)
LEMMA FoundIs ==
  ASSUME IsAry(ary), key \in Seq(Byte), key # <<>>, NEW c \in DOMAIN Found
  PROVE  /\ Found[c] \in Nat /\ Found[c] < Eof(ary)
         /\ Found[c] + Len(key) <= Eof(ary)
         /\ \A m \in 1 .. Len(key) :
              key[m] # NL => Char(ary, Found[c] + m - 1) # NL
<1>1. PICK p \in Nat : p = Found[c] /\ IsMatch(ary, key, p)
  BY MatchesAre DEF Found
<1>2. PICK l \in Nat, z \in Nat : l = Len(key) /\ z = Len(ary.text) /\ l > 0
  BY DEF IsAry
<1>3. p + l <= z
  BY <1>1, <1>2 DEF IsMatch
<1>4. ASSUME NEW m \in 1 .. l, key[m] # NL
      PROVE  Char(ary, p + m - 1) # NL
  <2>1. p + m \in 1 .. z /\ p + m - 1 < z /\ (p + m - 1) + 1 = p + m
    BY <1>2, <1>3
  <2>2. Char(ary, p + m - 1) = ary.text[p + m]
    BY <1>2, <2>1 DEF Char
  <2>3. ary.text[p + m] \in Byte /\ key[m] \in Byte
    BY <1>2, <2>1 DEF IsAry
  <2>4. Fold(opts, ary.text[p + m]) = Fold(opts, key[m])
    BY <1>1, <1>2 DEF IsMatch
  <2>5. PICK x \in 0 .. 255, y \in 0 .. 255 : x = ary.text[p + m] /\ y = key[m]
    BY <2>3 DEF Byte
  <2>6. Fold(opts, x) = Fold(opts, y) /\ y # 10
    BY <1>4, <2>4, <2>5 DEF NL
  <2>7. x # 10
    BY <2>6 DEF Fold
  <2>. QED  BY <2>2, <2>5, <2>7 DEF NL
<1>. QED  BY <1>1, <1>2, <1>3, <1>4 DEF Eof

(* What the options of the context come to.                                *)
LEMMA TagsType ==
  ASSUME opts \in OptionsType
  PROVE  opts.before \in Nat /\ opts.after \in Nat /\ opts.tags[2] \in Seq(Byte)
BY DEF OptionsType

(* A region lies in the text, around its match.                            *)
LEMMA ShownAround ==
  ASSUME opts \in OptionsType, IsAry(ary), NEW p \in Nat, p < Eof(ary), NEW klen
  PROVE  LET r == Shown(p, klen) IN
         r.pos = p /\ r.ptr \in 0 .. p /\ r.end \in p .. Eof(ary)
<1>1. ary.text \in Seq(Byte)
  BY DEF IsAry
<1>2. CASE opts.tag
  BY <1>1, <1>2, TagsType, TagRegion DEF TagsShown
<1>3. CASE ~ opts.tag
  BY <1>1, <1>3, TagsType, LineRegion DEF LinesShown
<1>. QED  BY <1>2, <1>3

(* With no leading context a match that -u does not skip begins its line   *)
(* behind the region printed before.                                       *)
LEMMA RegionsApart ==
  ASSUME opts \in OptionsType, IsAry(ary), opts.before = 0, ~ opts.tag,
         NEW p \in Nat, p < Eof(ary), NEW q \in Nat, q < Eof(ary), NEW klen,
         Shown(p, klen).end <= q, Char(ary, q) # NL
  PROVE  Shown(p, klen).end < Shown(q, klen).ptr
<1>1. ary.text \in Seq(Byte)
  BY DEF IsAry
<1>2. PICK r, s, stop, stop2 :
        /\ r = Shown(p, klen) /\ r.pos = p /\ LinesShown(r, stop)
        /\ s = Shown(q, klen) /\ s.pos = q /\ LinesShown(s, stop2)
  BY <1>1, TagsType, LineRegion
<1>3. PICK z \in Nat : z = Eof(ary)
  BY <1>1, EofType
<1>4. PICK e \in p .. z : e = r.end /\ (e = z \/ Char(ary, e) = NL)
  BY <1>2, <1>3 DEF LinesShown
<1>5. PICK ptr \in 0 .. q : ptr = s.ptr /\ \A x \in ptr .. q - 1 : Char(ary, x) # NL
  BY <1>2 DEF LinesShown
<1>6. e < q
  <2>1. e <= q /\ q < z
    BY <1>2, <1>3, <1>4
  <2>2. e # q
    BY <1>4, <2>1
  <2>. QED  BY <1>4, <2>1, <2>2
<1>7. e \notin ptr .. q - 1
  BY <1>3, <1>4, <1>5, <1>6
<1>8. e < ptr
  BY <1>4, <1>5, <1>6, <1>7
<1>. QED  BY <1>2, <1>4, <1>5, <1>8
-----------------------------------------------------------------------------
(* What EveryMatchPrinted says when a key is answered.                     *)
AllPrinted ==
  LET printed == {out[n].pos : n \in DOMAIN out}
  IN /\ opts.sort => Ascends(out)
     /\ ~ opts.sort => Len(out) = Len(Found)
     /\ ~ opts.uniq => printed = ToSet(Found)
     /\ opts.uniq =>
          \A p \in ToSet(Found) : \E n \in DOMAIN out :
            p = out[n].pos \/ p \in out[n].ptr .. out[n].end - 1
     /\ opts.uniq /\ opts.before = 0 /\ ~ opts.tag /\ key[1] # NL => Apart

(* It is no more than the property.                                        *)
LEMMA AllPrintedIs == EveryMatchPrinted <=> (Answered /\ ~ opts.count => AllPrinted)
BY DEF EveryMatchPrinted, AllPrinted, Found, Apart

(* Only the options, the index and the key decide what is found and shown. *)
LEMMA SameFound ==
  ASSUME UNCHANGED <<opts, ary, key>>
  PROVE  Found' = Found
BY DEF Found, Matches, Hits, IsMatch, Fold

(* Nor does the region of a position change.                               *)
LEMMA SameShown ==
  ASSUME UNCHANGED <<opts, ary>>, NEW p, NEW klen
  PROVE  Shown(p, klen)' = Shown(p, klen)
BY DEF Shown, PrintOneRegion, GetOneRegion

(* Nor does what was said of all that is printed.                          *)
LEMMA SameOut ==
  ASSUME UNCHANGED <<opts, ary, key, out>>, NEW klen
  PROVE  (AllPrinted' <=> AllPrinted) /\ (EachShown(klen)' <=> EachShown(klen))
<1>1. Found' = Found /\ \A p : Shown(p, klen)' = Shown(p, klen)
  BY SameFound, SameShown
<1>2. AllPrinted' <=> AllPrinted
  BY <1>1 DEF AllPrinted, Ascends, Apart
<1>3. EachShown(klen)' <=> EachShown(klen)
  BY <1>1 DEF EachShown
<1>. QED  BY <1>2, <1>3
-----------------------------------------------------------------------------
(* One option more.                                                        *)
LEMMA SetOptionIs ==
  ASSUME NEW o \in OptionsType, NEW t \in OptionsGiven, OptionOK(t)
  PROVE  /\ SetOption(o, t) \in OptionsType
         /\ SetOption(o, t).stdin <=> o.stdin \/ t.ch = "s"
         /\ (o.uniq => o.sort) => (SetOption(o, t).uniq => SetOption(o, t).sort)
<1>1. CASE t.ch = "i"
  <2>1. SetOption(o, t) = [o EXCEPT !.ignore_case = TRUE]
    BY <1>1 DEF SetOption
  <2>. QED  BY <1>1, <2>1 DEF OptionsType
<1>2. CASE t.ch = "r"
  <2>1. SetOption(o, t) = [o EXCEPT !.regex = TRUE]
    BY <1>2 DEF SetOption
  <2>. QED  BY <1>2, <2>1 DEF OptionsType
<1>3. CASE t.ch = "s"
  <2>1. SetOption(o, t) = [o EXCEPT !.stdin = TRUE]
    BY <1>3 DEF SetOption
  <2>. QED  BY <1>3, <2>1 DEF OptionsType
<1>4. CASE t.ch = "A"
  <2>1. SetOption(o, t) = [o EXCEPT !.after = t.arg]
    BY <1>4 DEF SetOption
  <2>2. t.arg \in Nat
    BY <1>4 DEF OptionOK
  <2>. QED  BY <1>4, <2>1, <2>2 DEF OptionsType
<1>5. CASE t.ch = "B"
  <2>1. SetOption(o, t) = [o EXCEPT !.before = t.arg]
    BY <1>5 DEF SetOption
  <2>2. t.arg \in Nat
    BY <1>5 DEF OptionOK
  <2>. QED  BY <1>5, <2>1, <2>2 DEF OptionsType
<1>6. CASE t.ch = "C"
  <2>1. SetOption(o, t) = [o EXCEPT !.before = t.arg, !.after = t.arg]
    BY <1>6 DEF SetOption
  <2>2. t.arg \in Nat
    BY <1>6 DEF OptionOK
  <2>. QED  BY <1>6, <2>1, <2>2 DEF OptionsType
<1>7. CASE t.ch = "digit"
  <2>1. t.arg \in Nat /\ 10 * o.digits + t.arg \in Nat
    BY <1>7 DEF OptionOK, OptionsType
  <2> DEFINE val == 10 * o.digits + t.arg
  <2>2. SetOption(o, t) = [o EXCEPT !.digits = val, !.before = val, !.after = val]
    BY <1>7 DEF SetOption
  <2> HIDE DEF val
  <2>3. val \in Nat
    BY <2>1 DEF val
  <2>4. [o EXCEPT !.digits = val, !.before = val, !.after = val] \in OptionsType
    BY <2>3 DEF OptionsType
  <2>5. /\ SetOption(o, t).stdin = o.stdin /\ SetOption(o, t).uniq = o.uniq
        /\ SetOption(o, t).sort = o.sort
    BY <2>2 DEF OptionsType
  <2>. QED  BY <1>7, <2>2, <2>4, <2>5
<1>8. CASE t.ch = "t"
  <2>1. PICK w : w = ParseTags(o.tags, t.arg)
    OBVIOUS
  <2>2. SetOption(o, t) = [o EXCEPT !.tag = TRUE, !.tags = w]
    BY <1>8, <2>1 DEF SetOption
  <2>3. t.arg \in Seq(Seq(Byte)) /\ Len(t.arg) \in {1, 2}
    BY <1>8 DEF OptionOK
  <2>4. o.tags \in Seq(Byte) \X Seq(Byte)
    BY DEF OptionsType
  <2>5. w \in Seq(Byte) \X Seq(Byte)
    <3>1. CASE Len(t.arg) = 2
      <4>1. w = t.arg /\ t.arg = <<t.arg[1], t.arg[2]>>
        BY <2>1, <2>3, <3>1 DEF ParseTags
      <4>2. t.arg[1] \in Seq(Byte) /\ t.arg[2] \in Seq(Byte)
        BY <2>3, <3>1
      <4>. QED  BY <4>1, <4>2
    <3>2. CASE Len(t.arg) = 1
      <4>1. w = <<t.arg[1], o.tags[2]>>
        BY <2>1, <3>2 DEF ParseTags
      <4>2. t.arg[1] \in Seq(Byte) /\ o.tags[2] \in Seq(Byte)
        BY <2>3, <2>4, <3>2
      <4>. QED  BY <4>1, <4>2
    <3>. QED  BY <2>3, <3>1, <3>2
  <2>6. [o EXCEPT !.tag = TRUE, !.tags = w] \in OptionsType
    BY <2>5 DEF OptionsType
  <2>7. /\ SetOption(o, t).stdin = o.stdin /\ SetOption(o, t).uniq = o.uniq
        /\ SetOption(o, t).sort = o.sort
    BY <2>2 DEF OptionsType
  <2>. QED  BY <1>8, <2>2, <2>6, <2>7
<1>9. CASE t.ch = "a"
  <2>1. SetOption(o, t) = [o EXCEPT !.array_file = t.arg]
    BY <1>9 DEF SetOption
  <2>2. t.arg \in FileNames
    BY <1>9 DEF FileNames
  <2>. QED  BY <1>9, <2>1, <2>2 DEF OptionsType
<1>10. CASE t.ch = "k"
  <2>1. SetOption(o, t) = [o EXCEPT !.emphasis = TRUE]
    BY <1>10 DEF SetOption
  <2>. QED  BY <1>10, <2>1 DEF OptionsType
<1>11. CASE t.ch = "u"
  <2>1. SetOption(o, t) = [o EXCEPT !.uniq = TRUE, !.sort = TRUE]
    BY <1>11 DEF SetOption
  <2>. QED  BY <1>11, <2>1 DEF OptionsType
<1>12. CASE t.ch = "S"
  <2>1. SetOption(o, t) = [o EXCEPT !.sort = TRUE]
    BY <1>12 DEF SetOption
  <2>. QED  BY <1>12, <2>1 DEF OptionsType
<1>13. CASE t.ch = "c"
  <2>1. SetOption(o, t) = [o EXCEPT !.count = TRUE]
    BY <1>13 DEF SetOption
  <2>. QED  BY <1>13, <2>1 DEF OptionsType
<1>14. CASE t.ch = "d"
  <2>1. SetOption(o, t) = o
    BY <1>14 DEF SetOption
  <2>. QED  BY <1>14, <2>1
<1>15. CASE t.ch \notin {"i", "r", "s", "A", "B", "C",
                        "digit", "t", "a", "k", "u", "S", "c", "d"}
  <2>1. SetOption(o, t) = [o EXCEPT !.exit = TRUE]
    BY <1>15 DEF SetOption
  <2>. QED  BY <1>15, <2>1 DEF OptionsType
<1>. QED  BY <1>1, <1>2, <1>3, <1>4, <1>5, <1>6, <1>7, <1>8, <1>9, <1>10, <1>11,
              <1>12, <1>13, <1>14, <1>15
-----------------------------------------------------------------------------
(* Each action keeps the invariant; most of them end or begin a phase.     *)
LEMMA StartStep == ASSUME IInv, Start PROVE IInv'
<1>1. TypeOK'
  BY DEF IInv, TypeOK, Opened, Start, session, memory
<1>2. OptionsKept'
  <2>1. args.options \in Seq(Range(args.options))
    BY DEF IInv, TypeOK, ArgumentsOK
  <2>2. (\E n \in 1 .. Len(args.options) : args.options[n].ch = "s")
          <=> (\E t \in Range(args.options) : t.ch = "s")
    BY <2>1 DEF Range
  <2>. QED  BY <2>2 DEF IInv, OptionsKept, Start, session, memory
<1>3. LinesLeft'
  <2>1. args' = args /\ opts' = opts /\ lines' = args.lines
    BY DEF Start, session
  <2>2. ArgumentsOK(args)
    BY DEF IInv, TypeOK
  <2>3. pc' # "failed" => (opts.stdin <=> \E t \in Range(args.options) : t.ch = "s")
    BY <1>2, <2>1 DEF OptionsKept, Start
  <2>4. pc' \in {"key", "failed"}
    BY DEF Start
  <2>5. pc' = "key" /\ opts.stdin => <<>> \notin Range(args.lines)
    BY <2>2, <2>3, <2>4 DEF ArgumentsOK
  <2>6. pc' = "key" /\ ~ opts.stdin => Len(args.lines) <= 1
    <3>1. Len(args.lines) = 1 => Len(args.lines) <= 1
      OBVIOUS
    <3>2. pc' = "key" /\ ~ opts.stdin => Len(args.lines) = 1
      BY <2>2, <2>3, <2>4 DEF ArgumentsOK
    <3>. QED  BY <3>1, <3>2
  <2>7. args.lines \in Seq(Seq(Byte))
    BY <2>2 DEF ArgumentsOK
  <2>8. PICK l \in Seq(Seq(Byte)), b \in BOOLEAN : l = args.lines /\ b = opts.stdin
    BY <2>7 DEF IInv, TypeOK, OptionsType
  <2>9. pc' = "key" => (b => <<>> \notin Range(l)) /\ (~ b => Len(l) <= 1)
    BY <2>5, <2>6, <2>8
  <2>10. lines' = l /\ opts'.stdin = b
    BY <2>1, <2>8
  <2>. QED  BY <2>4, <2>8, <2>9, <2>10 DEF LinesLeft
<1>4. MemoryOK'
  BY DEF IInv, MemoryOK, Opened, ListMode, Start, session, memory
<1>5. SearchOK'
  BY DEF IInv, SearchOK, Opened, Start, session, memory
<1>6. PrintOK'
  BY DEF IInv, PrintOK, Answered, Start, session, memory
<1>. QED  BY <1>1, <1>2, <1>3, <1>4, <1>5, <1>6 DEF IInv

LEMMA ReadKeyStep == ASSUME IInv, ReadKey PROVE IInv'
<1>1. TypeOK'
  BY DEF IInv, TypeOK, Opened, ReadKey, session, memory
<1>2. OptionsKept'
  BY DEF IInv, OptionsKept, ReadKey, session, memory
<1>3. LinesLeft'
  <2>1. lines \in Seq(Seq(Byte)) /\ lines # <<>>
    BY DEF IInv, LinesLeft, ReadKey
  <2>2. PICK z \in Nat : z = Len(lines) /\ z > 0
    BY <2>1
  <2>3. /\ Tail(lines) \in Seq(Seq(Byte)) /\ Len(Tail(lines)) = z - 1
        /\ \A n \in 1 .. z - 1 : Tail(lines)[n] = lines[n + 1] /\ n + 1 \in 1 .. z
    BY <2>1, <2>2
  <2>4. <<>> \notin Range(lines) => <<>> \notin Range(Tail(lines))
    BY <2>2, <2>3 DEF Range
  <2>5. z <= 1 => Tail(lines) = <<>>
    BY <2>2, <2>3
  <2>. QED  BY <2>2, <2>3, <2>4, <2>5 DEF IInv, LinesLeft, ReadKey, session, memory
<1>4. MemoryOK'
  <2>1. rgnary_at = "freed" => opts.stdin
    BY DEF IInv, MemoryOK, ReadKey
  <2>. QED  BY <2>1 DEF IInv, MemoryOK, Opened, ListMode, ReadKey, session, memory
<1>5. SearchOK'
  <2>1. /\ lines \in Seq(Seq(Byte)) /\ lines # <<>>
        /\ opts.stdin => <<>> \notin Range(lines)
    BY DEF IInv, LinesLeft, ReadKey
  <2>2. lines[1] \in Seq(Byte) /\ lines[1] \in Range(lines)
    BY <2>1 DEF Range
  <2>3. opts.stdin => Front(lines[1]) \in Seq(Byte)
    <3> SUFFICES ASSUME opts.stdin PROVE Front(lines[1]) \in Seq(Byte)
      OBVIOUS
    <3>1. PICK s \in Seq(Byte) : s = lines[1] /\ s # <<>>
      BY <2>1, <2>2
    <3>2. SubSeq(s, 1, Len(s) - 1) \in Seq(Byte)
      BY <3>1
    <3>. QED  BY <3>1, <3>2 DEF Front
  <2>4. key' \in Seq(Byte)
    BY <2>2, <2>3 DEF ReadKey
  <2>. QED  BY <2>4 DEF SearchOK, ReadKey, Opened
<1>6. PrintOK'
  BY DEF IInv, PrintOK, Answered, ReadKey, session, memory
<1>. QED  BY <1>1, <1>2, <1>3, <1>4, <1>5, <1>6 DEF IInv

LEMMA OpenStep == ASSUME IInv, Open PROVE IInv'
<1>1. TypeOK'
  BY DEF IInv, TypeOK, Opened, Open, session, memory
<1>2. OptionsKept'
  BY DEF IInv, OptionsKept, Open, session, memory
<1>3. LinesLeft'
  BY DEF IInv, LinesLeft, Open, session, memory
<1>4. MemoryOK'
  BY DEF IInv, MemoryOK, Opened, ListMode, Open, session, memory
<1>5. SearchOK'
  <2>1. DiskOK(disk) /\ OnDisk
    BY DEF IInv, TypeOK, Open
  <2>2. IsAry(ary)'
    BY <2>1 DEF DiskOK, OnDisk, Open, IsAry
  <2>. QED  BY <2>2 DEF IInv, SearchOK, Open, session, Opened
<1>6. PrintOK'
  BY DEF IInv, PrintOK, Answered, Open, session, memory
<1>. QED  BY <1>1, <1>2, <1>3, <1>4, <1>5, <1>6 DEF IInv

LEMMA OpenFailsStep == ASSUME IInv, OpenFails PROVE IInv'
<1>1. TypeOK'
  BY DEF IInv, TypeOK, Opened, OpenFails, session, memory
<1>2. OptionsKept'
  BY DEF IInv, OptionsKept, OpenFails, session, memory
<1>3. LinesLeft'
  BY DEF IInv, LinesLeft, OpenFails, session, memory
<1>4. MemoryOK'
  BY DEF IInv, MemoryOK, Opened, ListMode, OpenFails, session, memory
<1>5. SearchOK'
  BY DEF IInv, SearchOK, Opened, OpenFails, session, memory
<1>6. PrintOK'
  BY DEF IInv, PrintOK, Answered, OpenFails, session, memory
<1>. QED  BY <1>1, <1>2, <1>3, <1>4, <1>5, <1>6 DEF IInv

LEMMA EmptyKeyStep == ASSUME IInv, EmptyKey PROVE IInv'
<1>1. TypeOK'
  BY DEF IInv, TypeOK, Opened, EmptyKey, session, memory
<1>2. OptionsKept'
  BY DEF IInv, OptionsKept, EmptyKey, session, memory
<1>3. LinesLeft'
  BY DEF IInv, LinesLeft, EmptyKey, session, memory
<1>4. MemoryOK'
  BY DEF IInv, MemoryOK, Opened, ListMode, EmptyKey, session, memory
<1>5. SearchOK'
  BY DEF IInv, SearchOK, Opened, EmptyKey, session, memory
<1>6. PrintOK'
  BY DEF IInv, PrintOK, Answered, EmptyKey, session, memory
<1>. QED  BY <1>1, <1>2, <1>3, <1>4, <1>5, <1>6 DEF IInv

LEMMA CountMatchesStep == ASSUME IInv, CountMatches PROVE IInv'
<1>1. TypeOK'
  BY DEF IInv, TypeOK, Opened, CountMatches, Searching, session, memory
<1>2. OptionsKept'
  BY DEF IInv, OptionsKept, CountMatches, Searching, session, memory
<1>3. LinesLeft'
  BY DEF IInv, LinesLeft, CountMatches, Searching, session, memory
<1>4. MemoryOK'
  BY DEF IInv, MemoryOK, Opened, ListMode, CountMatches, Searching, session, memory
<1>5. SearchOK'
  BY DEF IInv, SearchOK, Opened, CountMatches, Searching, session, memory
<1>6. PrintOK'
  BY DEF IInv, PrintOK, Answered, CountMatches, Searching, session, memory
<1>. QED  BY <1>1, <1>2, <1>3, <1>4, <1>5, <1>6 DEF IInv

LEMMA PrintMatchesStep == ASSUME IInv, PrintMatches PROVE IInv'
<1>1. TypeOK'
  BY DEF IInv, TypeOK, Opened, PrintMatches, Searching, session, memory
<1>2. OptionsKept'
  BY DEF IInv, OptionsKept, PrintMatches, Searching, session, memory
<1>3. LinesLeft'
  BY DEF IInv, LinesLeft, PrintMatches, Searching, session, memory
<1>4. MemoryOK'
  BY DEF IInv, MemoryOK, Opened, ListMode, PrintMatches, Searching, session, memory
<1>5. SearchOK'
  BY DEF IInv, SearchOK, Opened, PrintMatches, Searching, session, memory
<1>6. PrintOK'
  <2> DEFINE S == {Shown(p, Len(key)) : p \in Nat}
  <2>1. IsAry(ary) /\ key \in Seq(Byte) /\ key # <<>> /\ ~ opts.sort /\ ~ opts.uniq
    BY DEF IInv, SearchOK, OptionsKept, PrintMatches, Searching, Opened
  <2>2. UNCHANGED <<opts, ary, key>>
    BY DEF PrintMatches, session
  <2>3. Found \in Seq(Nat)
    BY <2>1, MatchesAre DEF Found
  <2>4. PICK z \in Nat : z = Len(Found) /\ DOMAIN Found = 1 .. z
    BY <2>3
  <2>5. out' = [n \in 1 .. z |-> Shown(Found[n], Len(key))]
    BY <2>4 DEF PrintMatches, Regions, Found, Shown
  <2>6. \A n \in 1 .. z : Found[n] \in Nat /\ Shown(Found[n], Len(key)) \in S
    BY <2>3, <2>4
  <2>7. \A n \in 1 .. z : Shown(Found[n], Len(key)).pos = Found[n]
    BY DEF Shown, PrintOneRegion
  <2> HIDE DEF S
  <2>8. out' \in Seq(S) /\ Len(out') = z /\ DOMAIN out' = 1 .. z
    BY <2>5, <2>6
  <2>9. \A n \in 1 .. z : out'[n] = Shown(Found[n], Len(key)) /\ out'[n].pos = Found[n]
    BY <2>5, <2>7
  <2>10. Found' = Found /\ \A p, klen : Shown(p, klen)' = Shown(p, klen)
    BY <2>2, SameFound, SameShown
  <2>11. KeyLength' = Len(key)
    BY <2>1, <2>2 DEF KeyLength
  <2>12. EachShown(KeyLength)'
    <3>1. EachShown(Len(key))'
      BY <2>2, <2>4, <2>8, <2>9, <2>10 DEF EachShown, S
    <3>. QED  BY <2>2, <2>11, <3>1
  <2>13. AllPrinted'
    <3>1. {out'[n].pos : n \in DOMAIN out'} = ToSet(Found)
      BY <2>4, <2>8, <2>9 DEF ToSet
    <3>. QED  BY <2>1, <2>2, <2>4, <2>8, <2>10, <3>1 DEF AllPrinted
  <2>14. EveryMatchPrinted'
    BY <2>13 DEF EveryMatchPrinted, AllPrinted, Found, Apart
  <2>15. pc' # "printing"
    BY DEF PrintMatches
  <2>. QED  BY <2>12, <2>14, <2>15 DEF PrintOK
<1>. QED  BY <1>1, <1>2, <1>3, <1>4, <1>5, <1>6 DEF IInv

LEMMA CollectForSortStep == ASSUME IInv, CollectForSort PROVE IInv'
<1>1. TypeOK'
  <2>1. IsAry(ary)
    BY DEF IInv, SearchOK, CollectForSort, Searching, Opened
  <2>2. rgnary' \in Seq(Nat)
    BY <2>1, MatchesAre DEF CollectForSort
  <2>. QED  BY <2>2 DEF IInv, TypeOK, CollectForSort, Searching, session, Opened
<1>2. OptionsKept'
  BY DEF IInv, OptionsKept, CollectForSort, Searching, session, memory
<1>3. LinesLeft'
  BY DEF IInv, LinesLeft, CollectForSort, Searching, session, memory
<1>4. MemoryOK'
  BY DEF IInv, MemoryOK, Opened, ListMode, CollectForSort, Searching, session
<1>5. SearchOK'
  <2>1. Found' = Found
    BY SameFound DEF CollectForSort, session
  <2>. QED  BY <2>1 DEF IInv, SearchOK, CollectForSort, Searching, Found, session, Opened
<1>6. PrintOK'
  BY DEF IInv, PrintOK, Answered, CollectForSort, Searching, session, memory
<1>. QED  BY <1>1, <1>2, <1>3, <1>4, <1>5, <1>6 DEF IInv

LEMMA FindFailsStep == ASSUME IInv, FindFails PROVE IInv'
<1>1. TypeOK'
  BY DEF IInv, TypeOK, Opened, FindFails, Searching, session, memory
<1>2. OptionsKept'
  BY DEF IInv, OptionsKept, FindFails, Searching, session, memory
<1>3. LinesLeft'
  BY DEF IInv, LinesLeft, FindFails, Searching, session, memory
<1>4. MemoryOK'
  BY DEF IInv, MemoryOK, Opened, ListMode, FindFails, Searching, session, memory
<1>5. SearchOK'
  <2>1. Found' = Found
    BY SameFound DEF FindFails, session
  <2>2. rgnary_at # "live"
    BY DEF IInv, MemoryOK, FindFails, Searching
  <2>. QED  BY <2>1, <2>2 DEF IInv, SearchOK, FindFails, Searching, Found, session,
              memory, Opened, ListMode
<1>6. PrintOK'
  BY DEF IInv, PrintOK, Answered, FindFails, Searching, session, memory
<1>. QED  BY <1>1, <1>2, <1>3, <1>4, <1>5, <1>6 DEF IInv

(* What is being sorted and printed.                                       *)
LEMMA PrintingIs ==
  ASSUME IInv, pc = "printing"
  PROVE  /\ IsAry(ary) /\ opts \in OptionsType /\ Eof(ary) \in Nat
         /\ key \in Seq(Byte) /\ key # <<>> /\ opts.sort /\ ~ opts.count
         /\ \A k \in DOMAIN rgnary :
              /\ rgnary[k] \in Nat /\ rgnary[k] < Eof(ary)
              /\ key[1] # NL => Char(ary, rgnary[k]) # NL
         /\ \A m \in DOMAIN out :
              /\ out[m] = Shown(out[m].pos, 2)
              /\ out[m].pos \in Nat /\ out[m].pos < Eof(ary)
              /\ out[m].ptr \in 0 .. out[m].pos
              /\ out[m].end \in out[m].pos .. Eof(ary)
<1>1. IsAry(ary) /\ key \in Seq(Byte) /\ key # <<>> /\ opts.sort /\ ~ opts.count
  BY DEF IInv, SearchOK, Opened
<1>2. opts \in OptionsType
  BY DEF IInv, TypeOK
<1>3. ResultSorted /\ EachShown(2)
  BY DEF IInv, PrintOK, PrintedSoFar
<1>4. Eof(ary) \in Nat
  BY <1>1, EofType DEF IsAry
<1>5. ASSUME NEW c \in DOMAIN Found
      PROVE  /\ Found[c] \in Nat /\ Found[c] < Eof(ary)
             /\ key[1] # NL => Char(ary, Found[c]) # NL
  <2>1. 1 \in 1 .. Len(key)
    BY <1>1
  <2>2. PICK p \in Nat : p = Found[c] /\ p + 1 - 1 = p
    BY <1>1, FoundIs
  <2>. QED  BY <1>1, <2>1, <2>2, FoundIs
<1>6. ASSUME NEW m \in DOMAIN out
      PROVE  /\ out[m] = Shown(out[m].pos, 2)
             /\ out[m].pos \in Nat /\ out[m].pos < Eof(ary)
             /\ out[m].ptr \in 0 .. out[m].pos
             /\ out[m].end \in out[m].pos .. Eof(ary)
  <2>1. /\ out[m] = Shown(out[m].pos, 2)
        /\ out[m].pos \in Nat /\ out[m].pos < Eof(ary)
    BY <1>3, <1>5 DEF EachShown
  <2>2. PICK p \in Nat : p = out[m].pos /\ p < Eof(ary)
    BY <2>1
  <2>3. out[m].ptr \in 0 .. p /\ out[m].end \in p .. Eof(ary)
    BY <1>1, <1>2, <2>1, <2>2, ShownAround
  <2>. QED  BY <2>1, <2>2, <2>3
<1>7. \A k \in DOMAIN rgnary : \E c \in DOMAIN Found : rgnary[k] = Found[c]
  BY <1>3 DEF ResultSorted
<1>8. \A k \in DOMAIN rgnary :
        /\ rgnary[k] \in Nat /\ rgnary[k] < Eof(ary)
        /\ key[1] # NL => Char(ary, rgnary[k]) # NL
  BY <1>5, <1>7
<1>. QED  BY <1>1, <1>2, <1>4, <1>6, <1>8

(* A match that -u skips lies in the region printed last.                  *)
LEMMA SkipPrints ==
  ASSUME IInv, PrintNext, Skipped(rgnary[i + 1])
  PROVE  PrintedSoFar'
<1>1. pc = "printing" /\ i < Len(rgnary) /\ i' = i + 1 /\ out' = out
      /\ UNCHANGED <<opts, ary, key, rgnary>>
  BY DEF PrintNext, session, memory
<1>2. PrintedSoFar /\ rgnary \in Seq(Nat)
  BY <1>1 DEF IInv, PrintOK, TypeOK
<1>3. PICK z \in Nat, j \in Nat : z = Len(rgnary) /\ j = i /\ j < z
                                  /\ DOMAIN rgnary = 1 .. z
  <2>1. Len(rgnary) \in Nat /\ DOMAIN rgnary = 1 .. Len(rgnary)
    BY <1>2
  <2>2. i \in Nat
    BY <1>2, <2>1 DEF PrintedSoFar
  <2>. QED  BY <1>1, <2>1, <2>2
<1>4. PICK l \in Nat : l = Len(out) /\ DOMAIN out = 1 .. l /\ l > 0
  <2>1. out # <<>>
    BY DEF Skipped
  <2> DEFINE S == {Shown(p, 2) : p \in Nat}
  <2>2. out \in Seq(S)
    BY <1>2 DEF PrintedSoFar, EachShown
  <2> HIDE DEF S
  <2>. QED  BY <2>1, <2>2
<1>5. PICK pos, last : pos \in Nat /\ pos = rgnary[j + 1] /\ last = out[l]
  BY <1>2, <1>3
<1>6. opts.uniq /\ pos < last.end
  BY <1>3, <1>4, <1>5 DEF Skipped, Last
<1>7. /\ last.pos \in Nat /\ last.ptr \in 0 .. last.pos
      /\ last.end \in last.pos .. Eof(ary) /\ Eof(ary) \in Nat
  BY <1>1, <1>4, <1>5, PrintingIs
<1>8. last.pos < pos
  <2>0. \A m \in DOMAIN out : \E k \in 1 .. i : out[m].pos = rgnary[k]
    BY <1>2 DEF PrintedSoFar
  <2>1. PICK k \in 1 .. j : last.pos = rgnary[k]
    <3>1. l \in DOMAIN out
      BY <1>4
    <3>. QED  BY <1>3, <1>5, <2>0, <3>1
  <2>2. k \in DOMAIN rgnary /\ j + 1 \in DOMAIN rgnary /\ k < j + 1
    BY <1>3
  <2>3. rgnary[k] < rgnary[j + 1]
    BY <1>1, <2>2 DEF IInv, PrintOK, ResultSorted
  <2>. QED  BY <1>5, <2>1, <2>3
<1>9. pos \in last.ptr .. last.end - 1
  <2>1. PICK p \in Nat, a \in Nat, b \in Nat :
          p = last.pos /\ a = last.ptr /\ b = last.end /\ a <= p
    BY <1>7
  <2>2. pos < b /\ p < pos
    BY <1>6, <1>8, <2>1
  <2>. QED  BY <1>5, <2>1, <2>2
<1>10. EachShown(2)' /\ Ascends(out)' /\ (Apart <=> Apart')
  BY <1>1, <1>2, SameOut DEF PrintedSoFar, Ascends, Apart
<1>11. i' = j + 1 /\ j + 1 \in 0 .. z /\ \A k \in 1 .. j + 1 : k \in 1 .. j \/ k = j + 1
  BY <1>1, <1>3
<1>12. \A m \in DOMAIN out : \E k \in 1 .. j + 1 : out[m].pos = rgnary[k]
  <2>1. \A m \in DOMAIN out : \E k \in 1 .. j : out[m].pos = rgnary[k]
    BY <1>2, <1>3 DEF PrintedSoFar
  <2>. QED  BY <2>1
<1>13. \A k \in 1 .. j + 1 : \E m \in DOMAIN out :
         \/ rgnary[k] = out[m].pos
         \/ opts.uniq /\ rgnary[k] \in out[m].ptr .. out[m].end - 1
  <2>1. \A k \in 1 .. j : \E m \in DOMAIN out :
          \/ rgnary[k] = out[m].pos
          \/ opts.uniq /\ rgnary[k] \in out[m].ptr .. out[m].end - 1
    BY <1>2, <1>3 DEF PrintedSoFar
  <2>2. l \in DOMAIN out
    BY <1>4
  <2>. QED  BY <1>5, <1>6, <1>9, <1>11, <2>1, <2>2
<1>. QED  BY <1>1, <1>2, <1>3, <1>10, <1>11, <1>12, <1>13 DEF PrintedSoFar

(* A match printed lies behind all that were, and with -u behind the end   *)
(* of the region printed last.                                             *)
LEMMA RegionPrints ==
  ASSUME IInv, PrintNext, ~ Skipped(rgnary[i + 1])
  PROVE  PrintedSoFar'
<1> DEFINE S == {Shown(p, 2) : p \in Nat}
<1>1. pc = "printing" /\ i < Len(rgnary) /\ i' = i + 1
      /\ UNCHANGED <<opts, ary, key, rgnary>>
      /\ out' = Append(out, Shown(rgnary[i + 1], 2))
  BY DEF PrintNext, session, memory, Shown
<1>2. PrintedSoFar /\ rgnary \in Seq(Nat)
  BY <1>1 DEF IInv, PrintOK, TypeOK
<1>3. PICK z \in Nat, j \in Nat : z = Len(rgnary) /\ j = i /\ j < z
                                  /\ DOMAIN rgnary = 1 .. z
  BY <1>1, <1>2 DEF PrintedSoFar
<1>4. PICK l \in Nat : l = Len(out) /\ DOMAIN out = 1 .. l
  BY <1>2 DEF PrintedSoFar, EachShown
<1>5. PICK pos, new : pos \in Nat /\ pos = rgnary[j + 1] /\ new = Shown(pos, 2)
  BY <1>2, <1>3
<1>6. new.pos = pos /\ new \in S
  BY <1>5 DEF Shown, PrintOneRegion
<1> HIDE DEF S
<1>7. out \in Seq(S)
  BY <1>2 DEF PrintedSoFar, EachShown, S
<1>8. /\ out' \in Seq(S) /\ Len(out') = l + 1 /\ DOMAIN out' = 1 .. l + 1
      /\ \A m \in 1 .. l : out'[m] = out[m]
      /\ out'[l + 1] = new
  BY <1>1, <1>3, <1>4, <1>5, <1>6, <1>7
<1>9. /\ Eof(ary) \in Nat /\ pos < Eof(ary)
      /\ key[1] # NL => Char(ary, pos) # NL
      /\ IsAry(ary) /\ opts \in OptionsType
  <2>1. j + 1 \in DOMAIN rgnary
    BY <1>3
  <2>. QED  BY <1>1, <1>5, <2>1, PrintingIs
<1>10. \A m \in 1 .. l : \E k \in 1 .. j : out[m].pos = rgnary[k]
  BY <1>2, <1>3, <1>4 DEF PrintedSoFar
<1>11. \A k \in 1 .. j : rgnary[k] < pos
  <2>1. \A k \in 1 .. j : k \in DOMAIN rgnary /\ j + 1 \in DOMAIN rgnary /\ k < j + 1
    BY <1>3
  <2>. QED  BY <1>1, <1>5, <2>1 DEF IInv, PrintOK, ResultSorted
<1>12. \A m \in 1 .. l : out[m].pos < pos
  BY <1>10, <1>11
<1>13. Ascends(out)'
  <2> SUFFICES ASSUME NEW m \in 1 .. l + 1, NEW n \in 1 .. l + 1, m < n
               PROVE  out'[m].pos < out'[n].pos
    BY <1>8 DEF Ascends
  <2>1. CASE n = l + 1
    <3>1. m \in 1 .. l
      BY <2>1
    <3>. QED  BY <1>6, <1>8, <1>12, <2>1, <3>1
  <2>2. CASE n # l + 1
    <3>1. m \in 1 .. l /\ n \in 1 .. l
      BY <2>2
    <3>2. out[m].pos < out[n].pos
      BY <1>2, <1>4, <3>1 DEF PrintedSoFar, Ascends
    <3>. QED  BY <1>8, <3>1, <3>2
  <2>. QED  BY <2>1, <2>2
<1>14. Found' = Found /\ \A p : Shown(p, 2)' = Shown(p, 2)
  BY <1>1, SameFound, SameShown
<1>15. EachShown(2)'
  <2>1. ASSUME NEW m \in 1 .. l + 1
        PROVE  /\ out'[m] = Shown(out'[m].pos, 2)
               /\ \E c \in DOMAIN Found : out'[m].pos = Found[c]
    <3>1. CASE m = l + 1
      <4>1. j + 1 \in DOMAIN rgnary
        BY <1>3
      <4>2. \E c \in DOMAIN Found : pos = Found[c]
        BY <1>1, <1>5, <4>1 DEF IInv, PrintOK, ResultSorted
      <4>. QED  BY <1>5, <1>6, <1>8, <3>1, <4>2
    <3>2. CASE m \in 1 .. l
      <4>1. out'[m] = out[m] /\ m \in DOMAIN out
        BY <1>4, <1>8, <3>2
      <4>2. /\ out[m] = Shown(out[m].pos, 2)
            /\ \E c \in DOMAIN Found : out[m].pos = Found[c]
        BY <1>2, <4>1 DEF PrintedSoFar, EachShown
      <4>. QED  BY <4>1, <4>2
    <3>. QED  BY <3>1, <3>2
  <2>. QED  BY <1>8, <1>14, <2>1 DEF EachShown, S
<1>16. i' = j + 1 /\ j + 1 \in 0 .. z /\ \A k \in 1 .. j + 1 : k \in 1 .. j \/ k = j + 1
  BY <1>1, <1>3
<1>17. \A m \in 1 .. l + 1 : \E k \in 1 .. j + 1 : out'[m].pos = rgnary[k]
  <2> TAKE m \in 1 .. l + 1
  <2>1. CASE m = l + 1
    BY <1>5, <1>6, <1>8, <2>1
  <2>2. CASE m \in 1 .. l
    BY <1>8, <1>10, <2>2
  <2>. QED  BY <2>1, <2>2
<1>18. \A k \in 1 .. j + 1 : \E m \in 1 .. l + 1 :
         \/ rgnary[k] = out'[m].pos
         \/ opts.uniq /\ rgnary[k] \in out'[m].ptr .. out'[m].end - 1
  <2> TAKE k \in 1 .. j + 1
  <2>1. CASE k = j + 1
    BY <1>5, <1>6, <1>8, <2>1
  <2>2. CASE k \in 1 .. j
    <3>1. PICK m \in 1 .. l :
            \/ rgnary[k] = out[m].pos
            \/ opts.uniq /\ rgnary[k] \in out[m].ptr .. out[m].end - 1
      BY <1>2, <1>3, <1>4, <2>2 DEF PrintedSoFar
    <3>2. out'[m] = out[m] /\ m \in 1 .. l + 1
      BY <1>8
    <3>. QED  BY <3>1, <3>2
  <2>. QED  BY <1>16, <2>1, <2>2
<1>19. (opts.uniq /\ opts.before = 0 /\ ~ opts.tag /\ key[1] # NL) => Apart'
  <2> SUFFICES ASSUME opts.uniq, opts.before = 0, ~ opts.tag, key[1] # NL,
                      NEW m \in 1 .. l + 1, NEW n \in 1 .. l + 1, m < n
               PROVE  out'[m].end < out'[n].ptr
    BY <1>8 DEF Apart
  <2>0. \A a, b \in 1 .. l : a < b => out[a].end < out[b].ptr
    BY <1>2, <1>4 DEF PrintedSoFar, Apart
  <2>1. CASE n # l + 1
    <3>1. m \in 1 .. l /\ n \in 1 .. l
      BY <2>1
    <3>. QED  BY <1>8, <2>0, <3>1
  <2>2. CASE n = l + 1
    <3>1. m \in 1 .. l /\ l \in 1 .. l /\ out # <<>>
      BY <1>4, <2>2
    <3>2. PICK p \in Nat, ptr \in Nat, end \in Nat :
            /\ out[l] = Shown(p, 2) /\ p < Eof(ary)
            /\ ptr = out[l].ptr /\ end = out[l].end /\ ptr <= end
      <4>1. /\ out[l] = Shown(out[l].pos, 2)
            /\ out[l].pos \in Nat /\ out[l].pos < Eof(ary)
            /\ out[l].ptr \in 0 .. out[l].pos
            /\ out[l].end \in out[l].pos .. Eof(ary)
        BY <1>1, <1>4, <3>1, PrintingIs
      <4>. QED  BY <1>9, <4>1
    <3>3. end <= pos
      <4>1. ~ (pos < end)
        BY <1>3, <1>4, <1>5, <3>1, <3>2 DEF Skipped, Last
      <4>. QED  BY <1>5, <3>2, <4>1
    <3>4. end < new.ptr
      BY <1>5, <1>9, <3>2, <3>3, RegionsApart
    <3>5. CASE m = l
      BY <1>8, <2>2, <3>1, <3>2, <3>4, <3>5
    <3>6. CASE m < l
      <4>1. out[m].end < ptr
        BY <2>0, <3>1, <3>2, <3>6
      <4>2. out[m].end \in Nat
        <5>1. m \in DOMAIN out
          BY <1>4, <3>1
        <5>2. out[m].pos \in Nat /\ out[m].end \in out[m].pos .. Eof(ary)
          BY <1>1, <5>1, PrintingIs
        <5>. QED  BY <1>9, <5>2
      <4>3. new.ptr \in Nat
        BY <1>5, <1>9, ShownAround
      <4>4. out[m].end < new.ptr
        BY <3>2, <3>4, <4>1, <4>2, <4>3
      <4>5. out'[m] = out[m] /\ out'[n] = new
        BY <1>8, <2>2, <3>1
      <4>. QED  BY <4>4, <4>5
    <3>. QED  BY <3>1, <3>5, <3>6
  <2>. QED  BY <2>1, <2>2
<1>. QED  BY <1>1, <1>3, <1>8, <1>13, <1>15, <1>16, <1>17, <1>18, <1>19, ZenonT(60)
        DEF PrintedSoFar

(* Before the options are read there is nothing else.                      *)
LEMMA ParseOptionStep == ASSUME IInv, ParseOption PROVE IInv'
<1>0. i \in 0 .. Len(args.options) - 1 /\ args.options \in Seq(Range(args.options))
  BY DEF IInv, TypeOK, ArgumentsOK, ParseOption
<1>a. PICK z \in Nat, j \in Nat :
        z = Len(args.options) /\ j = i /\ j < z /\ j + 1 \in 1 .. z
  BY <1>0
<1>b. PICK t \in OptionsGiven : t = args.options[j + 1] /\ OptionOK(t)
  <2>1. args.options[j + 1] \in Range(args.options) /\ args \in Arguments
    BY <1>0, <1>a DEF IInv, TypeOK, Range
  <2>. QED  BY <2>1 DEF OptionsGiven, IInv, TypeOK, ArgumentsOK
<1>c. /\ opts' \in OptionsType
      /\ opts'.stdin <=> opts.stdin \/ t.ch = "s"
      /\ opts'.uniq => opts'.sort
  <2>1. opts' = SetOption(opts, t) /\ opts \in OptionsType /\ (opts.uniq => opts.sort)
    BY <1>a, <1>b DEF IInv, TypeOK, OptionsKept, ParseOption
  <2>. QED  BY <2>1, <1>b, SetOptionIs
<1>d. pc = "start" /\ pc' \in {"start", "failed"} /\ i' = j + 1 /\ args' = args
  BY <1>a DEF ParseOption
<1>1. TypeOK'
  BY <1>a, <1>c, <1>d DEF IInv, TypeOK, Opened, ParseOption, memory
<1>2. OptionsKept'
  <2>1. opts.stdin <=> \E n \in 1 .. j : args.options[n].ch = "s"
    BY <1>a, <1>d DEF IInv, OptionsKept
  <2>2. \A n : n \in 1 .. j + 1 <=> n \in 1 .. j \/ n = j + 1
    BY <1>a
  <2>3. opts'.stdin <=> \E n \in 1 .. j + 1 : args.options[n].ch = "s"
    BY <1>b, <1>c, <2>1, <2>2
  <2>. QED  BY <1>c, <1>d, <2>3 DEF OptionsKept
<1>3. LinesLeft'
  BY <1>d DEF LinesLeft
<1>4. MemoryOK'
  BY <1>d DEF IInv, MemoryOK, Opened, ParseOption, memory
<1>5. SearchOK'
  BY <1>d DEF IInv, SearchOK, Opened, ParseOption, memory
<1>6. PrintOK'
  BY <1>d DEF PrintOK, Answered
<1>. QED  BY <1>1, <1>2, <1>3, <1>4, <1>5, <1>6 DEF IInv

LEMMA PrintSortedStep == ASSUME IInv, PrintSorted PROVE IInv'
<1>0. /\ IsAry(ary) /\ rgnary = Found /\ key # <<>>
      /\ opts.sort /\ ~ opts.count /\ out = <<>>
  BY DEF IInv, SearchOK, Opened, PrintSorted
<1>a. /\ Found \in Seq(Nat)
      /\ \A m, n \in DOMAIN Found : Found[m] = Found[n] => m = n
  BY <1>0, MatchesAre DEF Found
<1>b. PICK s : s = Qsort(Found)
  OBVIOUS
<1>c. /\ s \in Seq(Nat) /\ Len(s) = Len(Found)
      /\ \A m, n \in DOMAIN Found : m < n => s[m] < s[n]
      /\ \A n \in DOMAIN Found : \E c \in DOMAIN Found : s[n] = Found[c]
      /\ \A c \in DOMAIN Found : \E n \in DOMAIN Found : s[n] = Found[c]
  BY <1>a, <1>b, QsortIs
<1>d. DOMAIN s = DOMAIN Found /\ (Found # <<>> => s # <<>>)
  BY <1>a, <1>c
<1>e. rgnary' = s /\ i' = 0 /\ UNCHANGED <<opts, ary, key, out>> /\ pc' = "printing"
  BY <1>0, <1>b DEF PrintSorted, session
<1>1. TypeOK'
  BY <1>c, <1>e DEF IInv, TypeOK, Opened, PrintSorted, session
<1>2. OptionsKept'
  BY DEF IInv, OptionsKept, PrintSorted, session, memory
<1>3. LinesLeft'
  BY DEF IInv, LinesLeft, PrintSorted, session, memory
<1>4. MemoryOK'
  BY <1>0, <1>d, <1>e DEF IInv, MemoryOK, Opened, ListMode, PrintSorted, session
<1>5. SearchOK'
  BY <1>e DEF IInv, SearchOK, Opened, PrintSorted, session
<1>6. PrintOK'
  <2>1. Found' = Found
    BY <1>e, SameFound
  <2>2. ResultSorted'
    BY <1>c, <1>d, <1>e, <2>1 DEF ResultSorted
  <2>3. PrintedSoFar'
    <3>1. out' = <<>> /\ DOMAIN out' = {}
      BY <1>0, <1>e
    <3>2. EachShown(2)' /\ Ascends(out)' /\ Apart'
      BY <3>1 DEF EachShown, Ascends, Apart
    <3>3. i' \in 0 .. Len(rgnary)' /\ 1 .. i' = {}
      BY <1>c, <1>e
    <3>. QED  BY <3>1, <3>2, <3>3 DEF PrintedSoFar
  <2>. QED  BY <1>e, <2>2, <2>3 DEF PrintOK, Answered
<1>. QED  BY <1>1, <1>2, <1>3, <1>4, <1>5, <1>6 DEF IInv

LEMMA PrintNextStep == ASSUME IInv, PrintNext PROVE IInv'
<1>1. TypeOK'
  BY DEF IInv, TypeOK, Opened, PrintNext, session, memory
<1>2. OptionsKept'
  BY DEF IInv, OptionsKept, PrintNext, session, memory
<1>3. LinesLeft'
  BY DEF IInv, LinesLeft, PrintNext, session, memory
<1>4. MemoryOK'
  BY DEF IInv, MemoryOK, Opened, ListMode, PrintNext, session, memory
<1>5. SearchOK'
  BY DEF IInv, SearchOK, Opened, PrintNext, session, memory
<1>6. PrintOK'
  <2>1. pc' = "printing" /\ UNCHANGED <<opts, ary, key, rgnary>>
    BY DEF PrintNext, session, memory
  <2>2. Found' = Found
    BY <2>1, SameFound
  <2>3. ResultSorted'
    BY <2>1, <2>2 DEF IInv, PrintOK, ResultSorted, PrintNext
  <2>4. PrintedSoFar'
    BY SkipPrints, RegionPrints
  <2>. QED  BY <2>1, <2>3, <2>4 DEF PrintOK, Answered
<1>. QED  BY <1>1, <1>2, <1>3, <1>4, <1>5, <1>6 DEF IInv

(* All positions are printed when they are freed.                          *)
LEMMA FreeResultStep == ASSUME IInv, FreeResult PROVE IInv'
<1>1. TypeOK'
  BY DEF IInv, TypeOK, Opened, FreeResult, session, memory
<1>2. OptionsKept'
  BY DEF IInv, OptionsKept, FreeResult, session, memory
<1>3. LinesLeft'
  BY DEF IInv, LinesLeft, FreeResult, session, memory
<1>4. MemoryOK'
  <2>1. opts.stdin \/ lines = <<>>
    BY DEF IInv, LinesLeft, FreeResult
  <2>. QED  BY <2>1 DEF IInv, MemoryOK, Opened, ListMode, FreeResult, session
<1>5. SearchOK'
  BY DEF IInv, SearchOK, Opened, FreeResult, session, memory
<1>6. PrintOK'
  <2>1. pc = "printing" /\ pc' = "close" /\ UNCHANGED <<opts, ary, key, out>>
    BY DEF FreeResult, session
  <2>2. opts.sort /\ PrintedSoFar /\ ResultSorted /\ rgnary \in Seq(Nat)
    BY <2>1 DEF IInv, SearchOK, PrintOK, TypeOK
  <2>3. DOMAIN rgnary = 1 .. i
    BY <2>2 DEF FreeResult
  <2>4. \A p : p \in ToSet(Found) <=> \E k \in 1 .. i : p = rgnary[k]
    BY <2>2, <2>3 DEF ResultSorted, ToSet
  <2>5. AllPrinted
    <3> DEFINE printed == {out[n].pos : n \in DOMAIN out}
    <3>1. printed \subseteq ToSet(Found)
      BY <2>2, <2>4 DEF PrintedSoFar
    <3>2. ASSUME ~ opts.uniq PROVE printed = ToSet(Found)
      <4>1. \A k \in 1 .. i : rgnary[k] \in printed
        BY <2>2, <3>2 DEF PrintedSoFar
      <4>2. ToSet(Found) \subseteq printed
        BY <2>4, <4>1
      <4>. QED  BY <3>1, <4>2
    <3>3. \A p \in ToSet(Found) : \E n \in DOMAIN out :
            p = out[n].pos \/ p \in out[n].ptr .. out[n].end - 1
      <4>1. \A k \in 1 .. i : \E n \in DOMAIN out :
              rgnary[k] = out[n].pos \/ rgnary[k] \in out[n].ptr .. out[n].end - 1
        BY <2>2 DEF PrintedSoFar
      <4>. QED  BY <2>4, <4>1
    <3>4. /\ Ascends(out)
          /\ opts.uniq /\ opts.before = 0 /\ ~ opts.tag /\ key[1] # NL => Apart
      BY <2>2 DEF PrintedSoFar
    <3>. QED  BY <2>2, <3>2, <3>3, <3>4 DEF AllPrinted
  <2>6. AllPrinted' /\ EachShown(2)'
    BY <2>1, <2>2, <2>5, SameOut DEF PrintedSoFar
  <2>7. EveryMatchPrinted'
    BY <2>6 DEF EveryMatchPrinted, AllPrinted, Found, Apart
  <2>8. KeyLength' = 2
    BY <2>1, <2>2 DEF KeyLength
  <2>9. EachShown(KeyLength)'
    BY <2>6, <2>8 DEF EachShown
  <2>. QED  BY <2>1, <2>7, <2>9 DEF PrintOK
<1>. QED  BY <1>1, <1>2, <1>3, <1>4, <1>5, <1>6 DEF IInv

LEMMA PrintNothingStep == ASSUME IInv, PrintNothing PROVE IInv'
<1>1. TypeOK'
  BY DEF IInv, TypeOK, Opened, PrintNothing, session, memory
<1>2. OptionsKept'
  BY DEF IInv, OptionsKept, PrintNothing, session, memory
<1>3. LinesLeft'
  BY DEF IInv, LinesLeft, PrintNothing, session, memory
<1>4. MemoryOK'
  BY DEF IInv, MemoryOK, Opened, ListMode, PrintNothing, session, memory
<1>5. SearchOK'
  BY DEF IInv, SearchOK, Opened, PrintNothing, session, memory
<1>6. PrintOK'
  <2>1. pc = "print" /\ pc' = "close" /\ UNCHANGED <<opts, ary, key, out>>
    BY DEF PrintNothing, session
  <2>2. opts.sort /\ Found = <<>> /\ out = <<>> /\ DOMAIN out = {}
    BY <2>1 DEF IInv, SearchOK, PrintNothing
  <2>3. AllPrinted
    BY <2>2 DEF AllPrinted, Ascends, Apart, ToSet
  <2>4. EachShown(2)
    BY <2>2 DEF EachShown
  <2>5. AllPrinted' /\ EachShown(2)'
    BY <2>1, <2>3, <2>4, SameOut
  <2>6. EveryMatchPrinted'
    BY <2>5 DEF EveryMatchPrinted, AllPrinted, Found, Apart
  <2>7. KeyLength' = 2
    BY <2>1, <2>2 DEF KeyLength
  <2>8. EachShown(KeyLength)'
    BY <2>5, <2>7 DEF EachShown
  <2>. QED  BY <2>1, <2>6, <2>8 DEF PrintOK
<1>. QED  BY <1>1, <1>2, <1>3, <1>4, <1>5, <1>6 DEF IInv

LEMMA PrintFreedStep == ASSUME IInv, PrintFreed PROVE IInv'
<1>1. TypeOK'
  BY DEF IInv, TypeOK, Opened, PrintFreed, session, memory
<1>2. OptionsKept'
  BY DEF IInv, OptionsKept, PrintFreed, session, memory
<1>3. LinesLeft'
  BY DEF IInv, LinesLeft, PrintFreed, session, memory
<1>4. MemoryOK'
  BY DEF IInv, MemoryOK, Opened, ListMode, PrintFreed, session, memory
<1>5. SearchOK'
  <2>1. Found' = Found
    BY SameFound DEF PrintFreed, session
  <2>. QED  BY <2>1 DEF IInv, SearchOK, PrintFreed, session, memory, Opened, ListMode
<1>6. PrintOK'
  BY DEF IInv, PrintOK, Answered, PrintFreed, session, memory
<1>. QED  BY <1>1, <1>2, <1>3, <1>4, <1>5, <1>6 DEF IInv

LEMMA CloseStep == ASSUME IInv, Close PROVE IInv'
<1>1. TypeOK'
  BY DEF IInv, TypeOK, Opened, Close, session, memory
<1>2. OptionsKept'
  BY DEF IInv, OptionsKept, Close, session, memory
<1>3. LinesLeft'
  BY DEF IInv, LinesLeft, Close, session, memory
<1>4. MemoryOK'
  BY DEF IInv, MemoryOK, Opened, ListMode, Close, session, memory
<1>5. SearchOK'
  BY DEF IInv, SearchOK, Opened, Close, session, memory
<1>6. PrintOK'
  BY DEF IInv, PrintOK, Answered, Close, session, memory
<1>. QED  BY <1>1, <1>2, <1>3, <1>4, <1>5, <1>6 DEF IInv

LEMMA FinishStep == ASSUME IInv, Finish PROVE IInv'
<1>1. TypeOK'
  BY DEF IInv, TypeOK, Opened, Finish, session, memory
<1>2. OptionsKept'
  BY DEF IInv, OptionsKept, Finish, session, memory
<1>3. LinesLeft'
  BY DEF IInv, LinesLeft, Finish, session, memory
<1>4. MemoryOK'
  BY DEF IInv, MemoryOK, Opened, ListMode, Finish, session, memory
<1>5. SearchOK'
  BY DEF IInv, SearchOK, Opened, Finish, session, memory
<1>6. PrintOK'
  BY DEF IInv, PrintOK, Answered, Finish, session, memory
<1>. QED  BY <1>1, <1>2, <1>3, <1>4, <1>5, <1>6 DEF IInv

(* Nothing changes where no variable does.                                 *)
LEMMA StutterStep == ASSUME IInv, UNCHANGED vars PROVE IInv'
<1>1. UNCHANGED <<disk, args, opts, lines, pc, ary, key, i, rgnary, rgnary_at,
                  blocks, out>>
  BY DEF vars
<1>2. Found' = Found /\ \A klen : EachShown(klen)' <=> EachShown(klen)
  BY <1>1, SameFound, SameOut
<1>3. (AllPrinted' <=> AllPrinted) /\ (Apart' <=> Apart)
  BY <1>1, SameOut DEF Apart
<1>4. TypeOK' /\ OptionsKept' /\ LinesLeft' /\ MemoryOK'
  BY <1>1 DEF IInv, TypeOK, OptionsKept, LinesLeft, MemoryOK, ListMode
<1>5. SearchOK'
  BY <1>1, <1>2 DEF IInv, SearchOK, ListMode
<1>6. PrintOK'
  <2>1. pc' = "printing" => ResultSorted' /\ PrintedSoFar'
    BY <1>1, <1>2, <1>3 DEF IInv, PrintOK, ResultSorted, PrintedSoFar, Ascends
  <2>2. ASSUME Answered', ~ opts'.count
        PROVE  EveryMatchPrinted' /\ EachShown(KeyLength)'
    <3>1. Answered /\ ~ opts.count
      BY <1>1, <2>2 DEF Answered
    <3>2. AllPrinted' /\ EachShown(KeyLength)
      BY <1>3, <3>1, AllPrintedIs DEF IInv, PrintOK
    <3>3. EveryMatchPrinted'
      BY <3>2 DEF EveryMatchPrinted, AllPrinted, Found, Apart
    <3>4. PICK klen : klen = KeyLength /\ KeyLength' = klen
      BY <1>1 DEF KeyLength
    <3>5. EachShown(klen)'
      BY <1>2, <3>2, <3>4
    <3>6. EachShown(KeyLength)'
      BY <3>4, <3>5 DEF EachShown
    <3>. QED  BY <3>3, <3>6
  <2>. QED  BY <2>1, <2>2 DEF PrintOK
<1>. QED  BY <1>4, <1>5, <1>6 DEF IInv

(* No option is read yet, nothing allocated.                               *)
LEMMA InitStep == ASSUME Init PROVE IInv
<1>1. TypeOK
  <2>1. DiskOK(disk) /\ args \in Arguments /\ ArgumentsOK(args)
    BY DisksAssumption, ArgumentsAssumption DEF Init
  <2>2. NoOptions \in OptionsType
    <3>1. <<>> \in Seq(Byte)
      OBVIOUS
    <3>2. PICK e \in Seq(Byte) : e = <<>>
      BY <3>1
    <3>3. PICK w \in Seq(Byte) \X Seq(Byte) : w = <<e, e>>
      OBVIOUS
    <3>4. w = <<<<>>, <<>>>>
      BY <3>2, <3>3
    <3>5. "" \in FileNames
      BY DEF FileNames
    <3>. QED  BY <3>4, <3>5 DEF NoOptions, OptionsType
  <2>3. args.options \in Seq(Range(args.options))
    BY <2>1 DEF ArgumentsOK
  <2>4. 0 \in 0 .. Len(args.options)
    BY <2>3
  <2>. QED  BY <2>1, <2>2, <2>4 DEF Init, TypeOK
<1>2. OptionsKept
  <2>1. 1 .. 0 = {}
    OBVIOUS
  <2>. QED  BY <2>1 DEF Init, OptionsKept, NoOptions
<1>3. LinesLeft /\ MemoryOK /\ SearchOK /\ PrintOK
  BY DEF Init, LinesLeft, MemoryOK, SearchOK, PrintOK, Answered, Opened
<1>. QED  BY <1>1, <1>2, <1>3 DEF IInv

LEMMA NextStep == ASSUME IInv, [Next]_vars PROVE IInv'
BY StartStep, ReadKeyStep, OpenStep, OpenFailsStep, EmptyKeyStep,
   CountMatchesStep, PrintMatchesStep, CollectForSortStep, FindFailsStep,
   ParseOptionStep, PrintSortedStep, PrintNextStep, FreeResultStep,
   PrintNothingStep, PrintFreedStep, CloseStep, FinishStep, StutterStep DEF Next
-----------------------------------------------------------------------------
(* The invariant holds in every state of every run.                        *)
THEOREM InductiveInvariant == Spec => []IInv
BY InitStep, NextStep, PTL DEF Spec

(* Each match is printed, in the array's order or sorted by the text, and  *)
(* -u leaves out only what a printed region shows already.                 *)
THEOREM EveryMatchIsPrinted == Spec => []EveryMatchPrinted
<1>1. IInv => EveryMatchPrinted
  BY DEF IInv, PrintOK, EveryMatchPrinted
<1>. QED  BY <1>1, InductiveInvariant, PTL

(* What the regions printed for an answered key are.                       *)
LEMMA AnsweredIs ==
  ASSUME IInv, Answered, NEW n \in Printed
  PROVE  /\ n \in DOMAIN out
         /\ IsAry(ary) /\ ary.text \in Seq(Byte) /\ Eof(ary) \in Nat
         /\ key \in Seq(Byte) /\ key # <<>> /\ opts \in OptionsType
         /\ opts.before \in Nat /\ opts.after \in Nat /\ opts.tags[2] \in Seq(Byte)
         /\ out[n] = Shown(out[n].pos, KeyLength)
         /\ out[n].pos \in Nat /\ out[n].pos < Eof(ary)
         /\ \E c \in DOMAIN Found : out[n].pos = Found[c]
<1>1. n \in DOMAIN out /\ ~ opts.count
  BY DEF Printed
<1>2. IsAry(ary) /\ key \in Seq(Byte) /\ key # <<>> /\ opts \in OptionsType
  BY DEF IInv, TypeOK, SearchOK, Opened, Answered
<1>3. ary.text \in Seq(Byte)
  BY <1>2 DEF IsAry
<1>4. EachShown(KeyLength)
  BY <1>1 DEF IInv, PrintOK
<1>5. \E c \in DOMAIN Found : out[n].pos = Found[c]
  BY <1>1, <1>4 DEF EachShown
<1>6. out[n].pos \in Nat /\ out[n].pos < Eof(ary)
  BY <1>2, <1>5, FoundIs
<1>7. out[n] = Shown(out[n].pos, KeyLength)
  BY <1>1, <1>4 DEF EachShown
<1>8. Eof(ary) \in Nat
  BY <1>3, EofType
<1>. QED  BY <1>1, <1>2, <1>3, <1>5, <1>6, <1>7, <1>8, TagsType

(* In terms of the sets that RegionsHoldTheirLines compares.               *)
LEMMA LinesOfRegion ==
  ASSUME ary.text \in Seq(Byte), opts.before \in Nat, opts.after \in Nat,
         NEW r, NEW stop, r.pos \in Nat, LinesShown(r, stop)
  PROVE  LET at == LineOf(r.pos)
             wanted == {p \in 0 .. Eof(ary) - 1 :
                          at - opts.before <= LineOf(p) /\ LineOf(p) <= at + opts.after}
             shown == r.ptr .. r.end - 1
             newline == IF Char(ary, r.end) = NL THEN {r.end} ELSE {}
             empty == \E l \in at + 1 .. at + opts.after : EmptyLine(l)
         IN /\ wanted \subseteq shown \union newline
            /\ ~ empty => shown \subseteq wanted
            /\ \A p \in shown : at - opts.before <= LineOf(p)
<1> DEFINE L(p) == Lines(ary, p)
<1>1. /\ \A p : LineOf(p) = L(p)
      /\ \A l : EmptyLine(l) <=> Empty(ary, l)
  BY DEF LineOf, Lines, EmptyLine, Empty
<1>2. PICK z \in Nat, pos \in Nat, b \in Nat, f \in Nat :
        z = Eof(ary) /\ pos = r.pos /\ b = opts.before /\ f = opts.after
  BY EofType
<1>3. PICK at \in Nat : at = L(pos)
  BY LinesType
<1>4. ASSUME NEW p \in Nat PROVE L(p) \in Nat
  BY LinesType
<1>5. PICK ptr \in 0 .. pos, end \in pos .. z : ptr = r.ptr /\ end = r.end
  BY <1>2 DEF LinesShown
<1>6. /\ \/ stop = end /\ end = z
         \/ stop = end + 1 /\ end < z /\ Char(ary, end) = NL
      /\ \A p \in ptr .. z : at - b <= L(p)
      /\ \A p \in 0 .. ptr - 1 : L(p) < at - b
      /\ \A p \in stop .. z - 1 : at + f < L(p)
      /\ (\A l \in at + 1 .. at + f : ~ Empty(ary, l)) =>
           \A p \in 0 .. stop - 1 : L(p) <= at + f
  BY <1>2, <1>3, <1>5 DEF LinesShown
<1> HIDE DEF L
<1>7. ASSUME NEW p \in 0 .. z - 1, at - b <= L(p), L(p) <= at + f
      PROVE  p \in ptr .. end - 1 \/ (p = end /\ Char(ary, end) = NL)
  <2>1. PICK x \in Nat : x = L(p) /\ at - b <= x /\ x <= at + f
    BY <1>4, <1>7
  <2>2. p \notin 0 .. ptr - 1
    BY <1>6, <2>1
  <2>3. p \notin stop .. z - 1
    <3>1. ASSUME p \in stop .. z - 1 PROVE FALSE
      <4>1. at + f < x
        BY <1>6, <2>1, <3>1
      <4>. QED  BY <2>1, <4>1
    <3>. QED  BY <3>1
  <2>. QED  BY <1>5, <1>6, <2>2, <2>3
<1>8. \A p \in ptr .. end - 1 : at - b <= L(p) /\ p \in 0 .. z - 1 /\ p \in 0 .. stop - 1
  BY <1>5, <1>6
<1>9. ASSUME \A l \in at + 1 .. at + f : ~ Empty(ary, l), NEW p \in ptr .. end - 1
      PROVE  L(p) <= at + f
  BY <1>6, <1>8, <1>9
<1>. QED  BY <1>1, <1>2, <1>3, <1>5, <1>7, <1>8, <1>9

(* A region of lines holds the lines asked for before and behind its       *)
(* match, and none more unless an empty line follows.                      *)
THEOREM LinesAreHeld == Spec => []RegionsHoldTheirLines
<1>1. IInv => RegionsHoldTheirLines
  <2> SUFFICES ASSUME IInv, Answered, ~ opts.tag
               PROVE  RegionsHoldTheirLines
    BY DEF RegionsHoldTheirLines
  <2>1. ASSUME NEW n \in Printed
        PROVE  /\ \E stop : LinesShown(out[n], stop)
               /\ ary.text \in Seq(Byte) /\ opts.before \in Nat /\ opts.after \in Nat
               /\ out[n].pos \in Nat
    <3>1. PICK p \in Nat : p = out[n].pos /\ out[n] = Shown(p, KeyLength) /\ p < Eof(ary)
      BY AnsweredIs
    <3>. QED  BY <3>1, AnsweredIs, LineRegion
  <2>. QED  BY <2>1, LinesOfRegion DEF RegionsHoldTheirLines
<1>. QED  BY <1>1, InductiveInvariant, PTL

(* A region of tags runs from the begin tag nearest before its match to    *)
(* the end tag nearest behind.                                             *)
THEOREM TagsEncloseTheMatch == Spec => []RegionsRunFromTagToTag
<1>1. IInv => RegionsRunFromTagToTag
  <2> SUFFICES ASSUME IInv, Answered, opts.tag, NEW n \in Printed
               PROVE  TagsShown(out[n])
    BY DEF RegionsRunFromTagToTag, TagsShown
  <2>1. PICK p \in Nat : p = out[n].pos /\ out[n] = Shown(p, KeyLength) /\ p < Eof(ary)
    BY AnsweredIs
  <2>. QED  BY <2>1, AnsweredIs, TagRegion
<1>. QED  BY <1>1, InductiveInvariant, PTL

(* With -k the region is shown to its end and no further, if the keyword   *)
(* lies in one line and has the two bytes that -S takes it to have.        *)
THEOREM EmphasisIsTheRegion == Spec => []EmphasisShowsTheRegion
<1>1. IInv => EmphasisShowsTheRegion
  <2> SUFFICES ASSUME IInv, Answered, ~ opts.tag, \A m \in DOMAIN key : key[m] # NL,
                      opts.sort => Len(key) >= 2, NEW n \in Printed
               PROVE  out[n].shown_to = out[n].end
    BY DEF EmphasisShowsTheRegion
  <2>1. PICK p \in Nat, z \in Nat :
          /\ p = out[n].pos /\ out[n] = Shown(p, KeyLength)
          /\ z = Eof(ary) /\ p < z
    BY AnsweredIs
  <2>2. PICK l \in Nat, klen \in Nat : l = Len(key) /\ klen = KeyLength /\ klen <= l
                                       /\ DOMAIN key = 1 .. l
    BY AnsweredIs DEF KeyLength
  <2>3. /\ p + l <= z
        /\ \A m \in 1 .. l : Char(ary, p + m - 1) # NL
    BY <2>1, <2>2, AnsweredIs, FoundIs
  <2>4. p + klen <= Eof(ary)
    BY <2>1, <2>2, <2>3
  <2>5. ASSUME NEW q \in p .. p + klen - 1 PROVE Char(ary, q) # NL
    <3>1. q - p + 1 \in 1 .. l /\ p + (q - p + 1) - 1 = q
      BY <2>2
    <3>. QED  BY <2>3, <3>1
  <2>6. Shown(p, klen).shown_to = Shown(p, klen).end
    BY <2>1, <2>4, <2>5, AnsweredIs, EmphasisRegion
  <2>. QED  BY <2>1, <2>2, <2>6
<1>. QED  BY <1>1, InductiveInvariant, PTL

(* At the end of a run no SUFARY and no array of positions is left, and a  *)
(* list of results only where -c has counted it.                           *)
THEOREM FreedAtTheEnd == Spec => []OnlyCountedListsLeft
<1>1. IInv => OnlyCountedListsLeft
  <2> SUFFICES ASSUME IInv, pc = "done"
               PROVE  /\ blocks \subseteq {"results"}
                      /\ "results" \in blocks => opts.count /\ ListMode
    BY DEF OnlyCountedListsLeft
  <2>1. pc \notin Opened /\ rgnary_at # "live"
    BY DEF IInv, MemoryOK, Opened
  <2>. QED  BY <2>1 DEF IInv, MemoryOK
<1>. QED  BY <1>1, InductiveInvariant, PTL
=============================================================================
