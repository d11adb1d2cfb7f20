--------------------------- MODULE SortIndexProofs ---------------------------
(***************************************************************************)
(* That sa_sort_index, by either of its ways, leaves an index sa_find can  *)
(* search, for texts and arrays of any size, any blocks and any choice of  *)
(* pivots.  First the order of suffixes, what qsort and the swaps do to an *)
(* array, and the steps of multikey_qsort; then the sort in place, the     *)
(* sort of the blocks, the heap they are merged through, and the file the  *)
(* merge writes.                                                           *)
(***************************************************************************)
EXTENDS SortInv, FiniteSetTheorems, WellFoundedInduction, TLAPS

LEMMA LeastElement ==
  ASSUME NEW T, T \subseteq Nat, T # {}
  PROVE  \E x \in T : \A y \in T : x <= y
<1>1. PICK x \in T : \A y \in T : ~ (<<y, x>> \in OpToRel(<, Nat))
  BY NatLessThanWellFounded, WFMin
<1>2. \A y \in T : ~ (y < x)
  BY <1>1 DEF OpToRel
<1>. QED  BY <1>2

-----------------------------------------------------------------------------
(* The order of suffixes.  The end of the text is a symbol below the bytes. *)
Symbol(a, p, m) == IF p + m < Len(a.text) THEN a.text[p + m + 1] + 1 ELSE 0

LEMMA SymbolIsChar ==
  ASSUME NEW a, PointsOK(a), NEW p \in Nat, NEW m \in Nat
  PROVE  /\ Symbol(a, p, m) \in Nat /\ Char(a, p + m) \in Nat
         /\ p + m < Len(a.text) => Symbol(a, p, m) = Char(a, p + m) + 1
         /\ p + m >= Len(a.text) => Symbol(a, p, m) = 0 /\ Char(a, p + m) = 0
<1> DEFINE t == a.text
           N == Len(t)
<1>1. t \in Seq(Byte)
  BY DEF PointsOK
<1>2. /\ Symbol(a, p, m) = IF p + m < N THEN t[p + m + 1] + 1 ELSE 0
      /\ Char(a, p + m) = IF p + m < N THEN t[p + m + 1] ELSE 0
  BY DEF Symbol, Char
<1> SUFFICES /\ Symbol(a, p, m) \in Nat /\ Char(a, p + m) \in Nat
             /\ p + m < N => Symbol(a, p, m) = Char(a, p + m) + 1
             /\ p + m >= N => Symbol(a, p, m) = 0 /\ Char(a, p + m) = 0
  OBVIOUS
<1> HIDE DEF t
<1>3. \A x \in 1 .. N : t[x] \in Byte
  BY <1>1
<1>4. Byte \subseteq Nat
  BY DEF Byte
<1>5. N \in Nat
  BY <1>1
<1> HIDE DEF N
<1>6. ASSUME p + m < N PROVE t[p + m + 1] \in Nat
  <2>1. p + m + 1 \in 1 .. N
    BY <1>5, <1>6
  <2>. QED  BY <1>3, <1>4, <2>1
<1>. QED  BY <1>2, <1>5, <1>6

LEMMA TextLengthType ==
  ASSUME NEW a, PointsOK(a)
  PROVE  Len(a.text) \in Nat
BY DEF PointsOK

LEMMA SuffixLessBySymbol ==
  ASSUME NEW a, PointsOK(a), NEW p \in Nat, NEW q \in Nat,
         p < Len(a.text), q < Len(a.text)
  PROVE  SuffixLess(a, p, q) <=>
           \E m \in Nat : /\ Symbol(a, p, m) < Symbol(a, q, m)
                          /\ \A n \in 0 .. m - 1 : Symbol(a, p, n) = Symbol(a, q, n)
<1> DEFINE N == Len(a.text)
<1>0. p < N /\ q < N
  OBVIOUS
<1>1. SuffixLess(a, p, q) <=>
        \E m \in 0 .. N :
          /\ p + m <= N /\ q + m < N
          /\ \A n \in 0 .. m - 1 : Char(a, p + n) = Char(a, q + n)
          /\ p + m = N \/ Char(a, p + m) < Char(a, q + m)
  BY DEF SuffixLess
<1> DEFINE F(x, m) ==
             /\ Symbol(a, x, m) \in Nat /\ Char(a, x + m) \in Nat
             /\ x + m < N => Symbol(a, x, m) = Char(a, x + m) + 1
             /\ x + m >= N => Symbol(a, x, m) = 0 /\ Char(a, x + m) = 0
<1>2. N \in Nat /\ \A m \in Nat : F(p, m) /\ F(q, m)
  BY SymbolIsChar, TextLengthType
<1> HIDE DEF N, F
<1>3. ASSUME NEW m \in 0 .. N, p + m <= N, q + m < N,
             \A n \in 0 .. m - 1 : Char(a, p + n) = Char(a, q + n),
             p + m = N \/ Char(a, p + m) < Char(a, q + m)
      PROVE  /\ Symbol(a, p, m) < Symbol(a, q, m)
             /\ \A n \in 0 .. m - 1 : Symbol(a, p, n) = Symbol(a, q, n)
  <2>1. m \in Nat /\ F(p, m) /\ F(q, m)
    BY <1>2
  <2>2. Symbol(a, p, m) < Symbol(a, q, m)
    <3>1. Symbol(a, q, m) = Char(a, q + m) + 1 /\ Char(a, q + m) \in Nat
      BY <1>3, <2>1 DEF F
    <3>2. CASE p + m = N
      <4>1. Symbol(a, p, m) = 0
        BY <1>2, <2>1, <3>2 DEF F
      <4>2. 0 < Char(a, q + m) + 1
        BY <3>1
      <4>. QED  BY <3>1, <4>1, <4>2
    <3>3. CASE p + m < N
      <4>1. Symbol(a, p, m) = Char(a, p + m) + 1 /\ Char(a, p + m) \in Nat
        BY <2>1, <3>3 DEF F
      <4>. QED  BY <1>2, <1>3, <3>1, <3>3, <4>1
    <3>. QED  BY <1>2, <1>3, <3>2, <3>3
  <2>3. ASSUME NEW n \in 0 .. m - 1
        PROVE  Symbol(a, p, n) = Symbol(a, q, n)
    <3>1. n \in Nat /\ F(p, n) /\ F(q, n) /\ Char(a, p + n) = Char(a, q + n)
      BY <1>2, <1>3
    <3>2. p + n < N /\ q + n < N
      BY <1>2, <1>3, <2>1
    <3>. QED  BY <3>1, <3>2 DEF F
  <2>. QED  BY <2>2, <2>3
<1>4. ASSUME NEW m \in Nat, Symbol(a, p, m) < Symbol(a, q, m),
             \A n \in 0 .. m - 1 : Symbol(a, p, n) = Symbol(a, q, n)
      PROVE  /\ m \in 0 .. N /\ p + m <= N /\ q + m < N
             /\ \A n \in 0 .. m - 1 : Char(a, p + n) = Char(a, q + n)
             /\ p + m = N \/ Char(a, p + m) < Char(a, q + m)
  <2>0. F(p, m) /\ F(q, m)
    BY <1>2
  <2>1. q + m < N
    BY <1>2, <1>4, <2>0 DEF F
  <2>2. p + m <= N
    <3> SUFFICES ASSUME p + m > N PROVE FALSE
      BY <1>2
    <3>1. m - 1 \in Nat /\ p + (m - 1) >= N /\ q + (m - 1) < N
      BY <1>0, <1>2, <2>1
    <3>2. F(p, m - 1) /\ F(q, m - 1) /\ Symbol(a, p, m - 1) = Symbol(a, q, m - 1)
      BY <1>2, <1>4, <3>1
    <3>. QED  BY <1>2, <3>1, <3>2 DEF F
  <2>3. ASSUME NEW n \in 0 .. m - 1
        PROVE  Char(a, p + n) = Char(a, q + n)
    <3>1. n \in Nat /\ F(p, n) /\ F(q, n) /\ Symbol(a, p, n) = Symbol(a, q, n)
      BY <1>2, <1>4
    <3>2. p + n < N /\ q + n < N
      BY <1>2, <2>1, <2>2
    <3>. QED  BY <3>1, <3>2 DEF F
  <2>4. p + m = N \/ Char(a, p + m) < Char(a, q + m)
    BY <1>2, <1>4, <2>0, <2>1, <2>2 DEF F
  <2>. QED  BY <1>2, <2>1, <2>2, <2>3, <2>4
<1>5. ASSUME SuffixLess(a, p, q)
      PROVE  \E m \in Nat : /\ Symbol(a, p, m) < Symbol(a, q, m)
                            /\ \A n \in 0 .. m - 1 : Symbol(a, p, n) = Symbol(a, q, n)
  <2>1. PICK m \in 0 .. N :
          /\ p + m <= N /\ q + m < N
          /\ \A n \in 0 .. m - 1 : Char(a, p + n) = Char(a, q + n)
          /\ p + m = N \/ Char(a, p + m) < Char(a, q + m)
    BY <1>1, <1>5
  <2>2. m \in Nat
    BY <1>2
  <2>3. /\ Symbol(a, p, m) < Symbol(a, q, m)
        /\ \A n \in 0 .. m - 1 : Symbol(a, p, n) = Symbol(a, q, n)
    BY <1>3, <2>1
  <2>. QED  BY <2>2, <2>3
<1>6. ASSUME NEW m \in Nat, Symbol(a, p, m) < Symbol(a, q, m),
             \A n \in 0 .. m - 1 : Symbol(a, p, n) = Symbol(a, q, n)
      PROVE  SuffixLess(a, p, q)
  BY <1>1, <1>4, <1>6
<1>. QED  BY <1>5, <1>6

(* It is a strict order of the positions of the text.                      *)
LEMMA SuffixOrder ==
  ASSUME NEW a, PointsOK(a)
  PROVE  LET P == {x \in Nat : x < Len(a.text)}
         IN /\ \A p \in P : ~ SuffixLess(a, p, p)
            /\ \A p, q, r \in P :
                 SuffixLess(a, p, q) /\ SuffixLess(a, q, r) => SuffixLess(a, p, r)
            /\ \A p, q \in P : p = q \/ SuffixLess(a, p, q) \/ SuffixLess(a, q, p)
<1> DEFINE N == Len(a.text)
           P == {x \in Nat : x < N}
           Less(p, q) ==
             \E m \in Nat : /\ Symbol(a, p, m) < Symbol(a, q, m)
                            /\ \A n \in 0 .. m - 1 : Symbol(a, p, n) = Symbol(a, q, n)
<1>1. \A p, q \in P : SuffixLess(a, p, q) <=> Less(p, q)
  BY SuffixLessBySymbol
<1>2. /\ N \in Nat
      /\ \A p \in P, m \in Nat :
           Symbol(a, p, m) \in Nat /\ (Symbol(a, p, m) = 0 <=> p + m >= N)
  <2>1. N \in Nat
    BY TextLengthType
  <2>2. ASSUME NEW p \in P, NEW m \in Nat
        PROVE  Symbol(a, p, m) \in Nat /\ (Symbol(a, p, m) = 0 <=> p + m >= N)
    <3> HIDE DEF N
    <3>1. /\ Symbol(a, p, m) \in Nat /\ Char(a, p + m) \in Nat
          /\ p + m < N => Symbol(a, p, m) = Char(a, p + m) + 1
          /\ p + m >= N => Symbol(a, p, m) = 0 /\ Char(a, p + m) = 0
      BY SymbolIsChar DEF N
    <3>. QED  BY <2>1, <3>1
  <2>. QED  BY <2>1, <2>2
<1> SUFFICES /\ \A p \in P : ~ Less(p, p)
             /\ \A p, q, r \in P : Less(p, q) /\ Less(q, r) => Less(p, r)
             /\ \A p, q \in P : p = q \/ Less(p, q) \/ Less(q, p)
  <2> HIDE DEF Less
  <2>. QED  BY <1>1
<1> HIDE DEF N
<1>3. ASSUME NEW p \in P PROVE ~ Less(p, p)
  BY <1>2
<1>4. ASSUME NEW p \in P, NEW q \in P, NEW r \in P, Less(p, q), Less(q, r)
      PROVE  Less(p, r)
  <2>1. PICK m \in Nat : /\ Symbol(a, p, m) < Symbol(a, q, m)
                         /\ \A n \in 0 .. m - 1 : Symbol(a, p, n) = Symbol(a, q, n)
    BY <1>4
  <2>2. PICK l \in Nat : /\ Symbol(a, q, l) < Symbol(a, r, l)
                         /\ \A n \in 0 .. l - 1 : Symbol(a, q, n) = Symbol(a, r, n)
    BY <1>4
  <2>3. \A n \in Nat : /\ Symbol(a, p, n) \in Nat
                       /\ Symbol(a, q, n) \in Nat
                       /\ Symbol(a, r, n) \in Nat
    BY <1>2
  <2>4. CASE m <= l
    <3>1. Symbol(a, p, m) < Symbol(a, r, m)
      <4>1. Symbol(a, p, m) \in Nat /\ Symbol(a, q, m) \in Nat /\ Symbol(a, r, m) \in Nat
        BY <2>3
      <4>2. Symbol(a, q, m) = Symbol(a, r, m) \/ Symbol(a, q, m) < Symbol(a, r, m)
        BY <2>2, <2>4
      <4>. QED  BY <2>1, <4>1, <4>2
    <3>2. \A n \in 0 .. m - 1 : Symbol(a, p, n) = Symbol(a, r, n)
      BY <2>1, <2>2, <2>4
    <3>. QED  BY <3>1, <3>2
  <2>5. CASE l < m
    <3>1. Symbol(a, p, l) < Symbol(a, r, l)
      BY <2>1, <2>2, <2>3, <2>5
    <3>2. \A n \in 0 .. l - 1 : Symbol(a, p, n) = Symbol(a, r, n)
      BY <2>1, <2>2, <2>5
    <3>. QED  BY <3>1, <3>2
  <2>. QED  BY <2>4, <2>5
<1>5. ASSUME NEW p \in P, NEW q \in P, p < q
      PROVE  Less(p, q) \/ Less(q, p)
  <2> DEFINE T == {m \in Nat : Symbol(a, p, m) # Symbol(a, q, m)}
  <2>1. N - q \in T
    <3>1. N - q \in Nat /\ q + (N - q) >= N /\ p + (N - q) < N /\ p \in Nat /\ q \in Nat
      BY <1>2, <1>5
    <3>. QED  BY <1>2, <3>1
  <2>2. PICK m \in T : \A n \in T : m <= n
    BY <2>1, LeastElement
  <2>3. \A n \in 0 .. m - 1 : Symbol(a, p, n) = Symbol(a, q, n)
    BY <2>2
  <2>4. Symbol(a, p, m) \in Nat /\ Symbol(a, q, m) \in Nat
    BY <1>2
  <2>. QED  BY <2>2, <2>3, <2>4
<1>. QED  BY <1>3, <1>4, <1>5

(* Without NUL in the text the first byte that differs decides.            *)
NoNul(a) == \A p \in 1 .. Len(a.text) : a.text[p] # 0

LEMMA NulIsEnd ==
  ASSUME NEW a, PointsOK(a), NoNul(a), NEW p \in Nat
  PROVE  Char(a, p) = 0 <=> p >= Len(a.text)
<1> DEFINE t == a.text
           N == Len(t)
<1>1. N \in Nat
  BY TextLengthType
<1>2. Char(a, p) = IF p < N THEN t[p + 1] ELSE 0
  BY DEF Char
<1>3. \A x \in 1 .. N : t[x] # 0
  BY DEF NoNul
<1> SUFFICES Char(a, p) = 0 <=> p >= N
  OBVIOUS
<1> HIDE DEF N, t
<1>4. CASE p < N
  <2>1. p + 1 \in 1 .. N
    BY <1>1, <1>4
  <2>. QED  BY <1>1, <1>2, <1>3, <1>4, <2>1
<1>5. CASE p >= N
  BY <1>1, <1>2, <1>5
<1>. QED  BY <1>1, <1>4, <1>5

ByteLess(a, p, q) ==
  \E m \in Nat : /\ Char(a, p + m) < Char(a, q + m)
                 /\ \A n \in 0 .. m - 1 : Char(a, p + n) = Char(a, q + n)

LEMMA SuffixLessByByte ==
  ASSUME NEW a, PointsOK(a), NoNul(a), NEW p \in Nat, NEW q \in Nat,
         p < Len(a.text), q < Len(a.text)
  PROVE  SuffixLess(a, p, q) <=> ByteLess(a, p, q)
<1>1. ASSUME NEW x \in Nat, NEW m \in Nat
      PROVE  /\ Symbol(a, x, m) \in Nat /\ Char(a, x + m) \in Nat
             /\ Symbol(a, x, m) = IF Char(a, x + m) = 0 THEN 0 ELSE Char(a, x + m) + 1
  <2> DEFINE N == Len(a.text)
  <2>1. /\ Symbol(a, x, m) \in Nat /\ Char(a, x + m) \in Nat
        /\ x + m < N => Symbol(a, x, m) = Char(a, x + m) + 1
        /\ x + m >= N => Symbol(a, x, m) = 0
    BY SymbolIsChar
  <2>2. N \in Nat
    BY TextLengthType
  <2>3. Char(a, x + m) = 0 <=> x + m >= N
    BY NulIsEnd
  <2> HIDE DEF N
  <2>4. x + m < N \/ x + m >= N
    BY <2>2
  <2>. QED  BY <2>1, <2>3, <2>4
<1>2. ASSUME NEW m \in Nat
      PROVE  /\ Symbol(a, p, m) < Symbol(a, q, m) <=> Char(a, p + m) < Char(a, q + m)
             /\ Symbol(a, p, m) = Symbol(a, q, m) <=> Char(a, p + m) = Char(a, q + m)
  <2>1. /\ Symbol(a, p, m) \in Nat /\ Char(a, p + m) \in Nat
        /\ Symbol(a, p, m) = IF Char(a, p + m) = 0 THEN 0 ELSE Char(a, p + m) + 1
    BY <1>1
  <2>2. /\ Symbol(a, q, m) \in Nat /\ Char(a, q + m) \in Nat
        /\ Symbol(a, q, m) = IF Char(a, q + m) = 0 THEN 0 ELSE Char(a, q + m) + 1
    BY <1>1
  <2>. QED  BY <2>1, <2>2
<1>3. ASSUME NEW m \in Nat
      PROVE  (\A n \in 0 .. m - 1 : Symbol(a, p, n) = Symbol(a, q, n)) <=>
             (\A n \in 0 .. m - 1 : Char(a, p + n) = Char(a, q + n))
  <2>1. \A n \in 0 .. m - 1 : n \in Nat
    OBVIOUS
  <2>. QED  BY <1>2, <2>1
<1> SUFFICES (\E m \in Nat : /\ Symbol(a, p, m) < Symbol(a, q, m)
                            /\ \A n \in 0 .. m - 1 : Symbol(a, p, n) = Symbol(a, q, n))
             <=> (\E m \in Nat : /\ Char(a, p + m) < Char(a, q + m)
                                /\ \A n \in 0 .. m - 1 : Char(a, p + n) = Char(a, q + n))
  BY SuffixLessBySymbol DEF ByteLess
<1>. QED  BY <1>2, <1>3, Zenon

(* Two suffixes that agree to the end of one of them are the same.         *)
LEMMA AgreeToEnd ==
  ASSUME NEW a, PointsOK(a), NoNul(a), NEW p \in Nat, NEW q \in Nat,
         p < Len(a.text), q < Len(a.text), NEW d \in Nat,
         \A m \in 0 .. d : Char(a, p + m) = Char(a, q + m),
         Char(a, p + d) = 0
  PROVE  p = q
<1> DEFINE N == Len(a.text)
<1>1. ASSUME NEW x \in Nat, NEW y \in Nat, SuffixLess(a, x, y), x < N, y < N,
             \A m \in 0 .. d : Char(a, x + m) = Char(a, y + m), Char(a, y + d) = 0
      PROVE  FALSE
  <2>1. PICK m \in Nat : /\ Char(a, x + m) < Char(a, y + m)
                         /\ \A n \in 0 .. m - 1 : Char(a, x + n) = Char(a, y + n)
    <3>1. x < Len(a.text) /\ y < Len(a.text)
      BY <1>1
    <3>2. ByteLess(a, x, y)
      BY <1>1, <3>1, SuffixLessByByte
    <3>. QED  BY <3>2 DEF ByteLess
  <2>2. Char(a, x + m) \in Nat /\ Char(a, y + m) \in Nat
    BY SymbolIsChar
  <2>3. N \in Nat
    BY TextLengthType
  <2>4. y + d >= N /\ ~ (y + m >= N)
    <3>1. y + d >= N
      BY <1>1, NulIsEnd
    <3>2. Char(a, y + m) # 0
      BY <2>1, <2>2
    <3>. QED  BY <3>1, <3>2, NulIsEnd
  <2> HIDE DEF N
  <2>5. m \in 0 .. d
    BY <2>3, <2>4
  <2>6. Char(a, x + m) = Char(a, y + m)
    BY <1>1, <2>5
  <2>. QED  BY <2>1, <2>2, <2>6
<1>2. Char(a, q + d) = 0 /\ \A m \in 0 .. d : Char(a, q + m) = Char(a, p + m)
  <2>1. d \in 0 .. d
    OBVIOUS
  <2>. QED  BY <2>1
<1>. QED  BY <1>1, <1>2, SuffixOrder

-----------------------------------------------------------------------------
(* What the sort does to an array: it moves the words at + 1 .. at + n     *)
(* among themselves.                                                       *)
Distinct(x) == \A i, j \in 1 .. Len(x) : x[i] = x[j] => i = j

Moved(x, y, at, n) ==
  /\ y \in Seq(Nat) /\ Len(y) = Len(x) /\ Distinct(y)
  /\ \A i \in 1 .. Len(x) : i \notin at + 1 .. at + n => y[i] = x[i]
  /\ \A i \in at + 1 .. at + n : \E j \in at + 1 .. at + n : y[i] = x[j]
  /\ \A j \in at + 1 .. at + n : \E i \in at + 1 .. at + n : y[i] = x[j]

LEMMA FunctionIsSeq ==
  ASSUME NEW N \in Nat, NEW S, NEW y \in [1 .. N -> S]
  PROVE  y \in Seq(S) /\ Len(y) = N
OBVIOUS

LEMMA BijectionMoves ==
  ASSUME NEW x \in Seq(Nat), Distinct(x), NEW y, NEW at \in Nat, NEW n \in Nat,
         NEW N \in Nat, N = Len(x), at + n <= N,
         DOMAIN y = 1 .. N, y = [i \in DOMAIN y |-> y[i]],
         NEW f \in [at + 1 .. at + n -> at + 1 .. at + n],
         \A i, j \in at + 1 .. at + n : f[i] = f[j] => i = j,
         \A j \in at + 1 .. at + n : \E i \in at + 1 .. at + n : f[i] = j,
         \A i \in at + 1 .. at + n : y[i] = x[f[i]],
         \A i \in 1 .. N : i \notin at + 1 .. at + n => y[i] = x[i]
  PROVE  Moved(x, y, at, n)
<1> DEFINE C == at + 1 .. at + n
<1>1. C \subseteq 1 .. N
  BY SMTT(30)
<1>2. \A i \in 1 .. N : x[i] \in Nat
  OBVIOUS
<1>3. \A i \in C : f[i] \in C /\ y[i] = x[f[i]]
  OBVIOUS
<1>4. \A i \in 1 .. N : i \notin C => y[i] = x[i]
  OBVIOUS
<1>5. \A i, j \in C : f[i] = f[j] => i = j
  OBVIOUS
<1>6. \A j \in C : \E i \in C : f[i] = j
  OBVIOUS
<1>7. \A i, j \in 1 .. N : x[i] = x[j] => i = j
  BY DEF Distinct
<1> HIDE DEF C
<1>8. ASSUME NEW i \in 1 .. N PROVE y[i] \in Nat
  <2>1. CASE i \in C
    <3>1. f[i] \in 1 .. N /\ y[i] = x[f[i]]
      BY <1>1, <1>3, <2>1
    <3>. QED  BY <1>2, <3>1
  <2>2. CASE i \notin C
    BY <1>2, <1>4, <2>2
  <2>. QED  BY <2>1, <2>2
<1>9. y \in Seq(Nat) /\ Len(y) = N
  <2>1. y \in [1 .. N -> Nat]
    BY <1>8
  <2>. QED  BY <2>1, FunctionIsSeq
<1>10. ASSUME NEW i \in 1 .. N, NEW j \in 1 .. N, y[i] = y[j] PROVE i = j
  <2>1. CASE i \in C /\ j \in C
    <3>1. f[i] \in 1 .. N /\ f[j] \in 1 .. N /\ x[f[i]] = x[f[j]]
      BY <1>1, <1>3, <1>10, <2>1
    <3>2. f[i] = f[j]
      BY <1>7, <3>1
    <3>. QED  BY <1>5, <2>1, <3>2
  <2>2. CASE i \in C /\ j \notin C
    <3>1. f[i] \in C /\ f[i] \in 1 .. N /\ x[f[i]] = x[j]
      BY <1>1, <1>3, <1>4, <1>10, <2>2
    <3>. QED  BY <1>7, <2>2, <3>1
  <2>3. CASE i \notin C /\ j \in C
    <3>1. f[j] \in C /\ f[j] \in 1 .. N /\ x[f[j]] = x[i]
      BY <1>1, <1>3, <1>4, <1>10, <2>3
    <3>. QED  BY <1>7, <2>3, <3>1
  <2>4. CASE i \notin C /\ j \notin C
    BY <1>4, <1>7, <1>10, <2>4
  <2>. QED  BY <2>1, <2>2, <2>3, <2>4
<1>11. Distinct(y)
  BY <1>9, <1>10 DEF Distinct
<1>12. ASSUME NEW j \in C PROVE \E i \in C : y[i] = x[j]
  <2>1. PICK i \in C : f[i] = j
    BY <1>6
  <2>2. y[i] = x[j]
    BY <1>3, <2>1
  <2>. QED  BY <2>2
<1>. QED  BY <1>3, <1>4, <1>9, <1>11, <1>12 DEF Moved, C

LEMMA SwapMoves ==
  ASSUME NEW x \in Seq(Nat), Distinct(x), NEW at \in Nat, NEW n \in Nat,
         at + n <= Len(x), NEW i \in at .. at + n - 1, NEW j \in at .. at + n - 1
  PROVE  Moved(x, Swap(x, i, j), at, n)
<1> DEFINE N == Len(x)
           C == at + 1 .. at + n
           y == Swap(x, i, j)
           f == [m \in C |-> IF m = i + 1 THEN j + 1 ELSE IF m = j + 1 THEN i + 1 ELSE m]
<1>1. N \in Nat /\ at + n <= N
  OBVIOUS
<1>2. i + 1 \in C /\ j + 1 \in C /\ C \subseteq 1 .. N
  OBVIOUS
<1>3. y = [m \in 1 .. N |-> IF m = j + 1 THEN x[i + 1]
                             ELSE IF m = i + 1 THEN x[j + 1] ELSE x[m]]
  <2>1. x \in [1 .. N -> Nat]
    OBVIOUS
  <2>2. i + 1 \in 1 .. N /\ j + 1 \in 1 .. N
    BY <1>2
  <2> HIDE DEF N
  <2>. QED  BY <2>1, <2>2 DEF Swap
<1> HIDE DEF N, y
<1>4. \A m \in C : y[m] = x[f[m]]
  <2>1. \A m \in C : f[m] = IF m = i + 1 THEN j + 1 ELSE IF m = j + 1 THEN i + 1 ELSE m
    OBVIOUS
  <2> HIDE DEF f
  <2>. QED  BY <1>2, <1>3, <2>1
<1>5. \A m \in 1 .. N : m \notin C => y[m] = x[m]
  BY <1>2, <1>3
<1>6. f \in [C -> C]
  BY <1>2
<1>7. \A m \in C : f[f[m]] = m
  BY <1>2
<1> HIDE DEF f
<1>8. /\ \A l, m \in C : f[l] = f[m] => l = m
      /\ \A m \in C : \E l \in C : f[l] = m
  BY <1>6, <1>7, Zenon
<1>9. DOMAIN y = 1 .. N /\ y = [m \in DOMAIN y |-> y[m]]
  BY <1>3
<1>10. Moved(x, y, at, n)
  BY <1>1, <1>4, <1>5, <1>6, <1>8, <1>9, BijectionMoves DEF N
<1>. QED  BY <1>10 DEF y

LEMMA SwapVectorMoves ==
  ASSUME NEW x \in Seq(Nat), Distinct(x), NEW at \in Nat, NEW n \in Nat,
         at + n <= Len(x), NEW i \in Nat, NEW j \in Nat, NEW l \in Nat,
         at <= i, i + l <= j, j + l <= at + n
  PROVE  Moved(x, SwapVector(x, i, j, l), at, n)
<1> DEFINE N == Len(x)
           C == at + 1 .. at + n
           y == SwapVector(x, i, j, l)
           f == [m \in C |-> IF m - 1 \in i .. i + l - 1 THEN m - i + j
                             ELSE IF m - 1 \in j .. j + l - 1 THEN m - j + i ELSE m]
<1>1. N \in Nat /\ at + n <= N
  OBVIOUS
<1>2. y = [m \in 1 .. N |-> IF m - 1 \in i .. i + l - 1 THEN x[m - i + j]
                             ELSE IF m - 1 \in j .. j + l - 1 THEN x[m - j + i] ELSE x[m]]
  <2> SUFFICES ASSUME NEW m \in 1 .. N
               PROVE  (CASE m - 1 \in i .. i + l - 1 -> x[m - i + j]
                         [] m - 1 \in j .. j + l - 1 -> x[m - j + i]
                         [] OTHER -> x[m])
                      = IF m - 1 \in i .. i + l - 1 THEN x[m - i + j]
                        ELSE IF m - 1 \in j .. j + l - 1 THEN x[m - j + i] ELSE x[m]
    BY DEF SwapVector
  <2>1. m - 1 \in i .. i + l - 1 => ~ (m - 1 \in j .. j + l - 1)
    BY <1>1
  <2>. QED  BY <2>1
<1> HIDE DEF N, y
<1>3. \A m \in C : y[m] = x[f[m]]
  <2>1. \A m \in C : f[m] = IF m - 1 \in i .. i + l - 1 THEN m - i + j
                           ELSE IF m - 1 \in j .. j + l - 1 THEN m - j + i ELSE m
    OBVIOUS
  <2>2. C \subseteq 1 .. N
    BY <1>1
  <2> HIDE DEF f, C
  <2>. QED  BY <1>2, <2>1, <2>2
<1>4. \A m \in 1 .. N : m \notin C => y[m] = x[m]
  BY <1>1, <1>2
<1>5. f \in [C -> C]
  OBVIOUS
<1>6. \A m \in C : f[f[m]] = m
  OBVIOUS
<1> HIDE DEF f
<1>7. /\ \A p, m \in C : f[p] = f[m] => p = m
      /\ \A m \in C : \E p \in C : f[p] = m
  BY <1>5, <1>6, Zenon
<1>8. DOMAIN y = 1 .. N /\ y = [m \in DOMAIN y |-> y[m]]
  BY <1>2
<1>9. Moved(x, y, at, n)
  BY <1>1, <1>3, <1>4, <1>5, <1>7, <1>8, BijectionMoves DEF N
<1>. QED  BY <1>9 DEF y

LEMMA MovedTwice ==
  ASSUME NEW x, NEW y, NEW z, NEW at \in Nat, NEW n \in Nat, Len(x) \in Nat,
         Moved(x, y, at, n), Moved(y, z, at, n)
  PROVE  Moved(x, z, at, n)
<1> DEFINE C == at + 1 .. at + n
           N == Len(x)
<1>1. /\ Len(y) = N
      /\ \A i \in 1 .. N : i \notin C => y[i] = x[i]
      /\ \A i \in C : \E j \in C : y[i] = x[j]
      /\ \A j \in C : \E i \in C : y[i] = x[j]
  BY DEF Moved
<1>2. /\ z \in Seq(Nat) /\ Len(z) = N /\ Distinct(z)
      /\ \A i \in 1 .. N : i \notin C => z[i] = y[i]
      /\ \A i \in C : \E j \in C : z[i] = y[j]
      /\ \A j \in C : \E i \in C : z[i] = y[j]
  BY <1>1 DEF Moved
<1> SUFFICES /\ \A i \in 1 .. N : i \notin C => z[i] = x[i]
             /\ \A i \in C : \E j \in C : z[i] = x[j]
             /\ \A j \in C : \E i \in C : z[i] = x[j]
  BY <1>2 DEF Moved
<1> HIDE DEF C, N
<1>3. \A i \in 1 .. N : i \notin C => z[i] = x[i]
  BY <1>1, <1>2
<1>4. ASSUME NEW i \in C PROVE \E j \in C : z[i] = x[j]
  <2>1. PICK l \in C : z[i] = y[l]
    BY <1>2
  <2>2. PICK j \in C : y[l] = x[j]
    BY <1>1
  <2>. QED  BY <2>1, <2>2
<1>5. ASSUME NEW j \in C PROVE \E i \in C : z[i] = x[j]
  <2>1. PICK l \in C : y[l] = x[j]
    BY <1>1
  <2>2. PICK i \in C : z[i] = y[l]
    BY <1>2
  <2>. QED  BY <2>1, <2>2
<1>. QED  BY <1>3, <1>4, <1>5

LEMMA MovedWords ==
  ASSUME NEW x \in Seq(Nat), NEW y, NEW at \in Nat, NEW n \in Nat,
         at + n <= Len(x), Moved(x, y, at, n)
  PROVE  ToSet(y) = ToSet(x)
<1> DEFINE C == at + 1 .. at + n
           N == Len(x)
<1>1. N \in Nat /\ C \subseteq 1 .. N /\ DOMAIN x = 1 .. N
  OBVIOUS
<1>2. /\ DOMAIN y = 1 .. N
      /\ \A i \in 1 .. N : i \notin C => y[i] = x[i]
      /\ \A i \in C : \E j \in C : y[i] = x[j]
      /\ \A j \in C : \E i \in C : y[i] = x[j]
  BY DEF Moved
<1> HIDE DEF C, N
<1>3. \A i \in 1 .. N : \E j \in 1 .. N : y[i] = x[j]
  BY <1>1, <1>2, Zenon
<1>4. \A j \in 1 .. N : \E i \in 1 .. N : y[i] = x[j]
  BY <1>1, <1>2, Zenon
<1>5. ToSet(x) = {x[i] : i \in 1 .. N} /\ ToSet(y) = {y[i] : i \in 1 .. N}
  BY <1>1, <1>2 DEF ToSet
<1>6. \A v1 \in ToSet(y) : v1 \in ToSet(x)
  BY <1>3, <1>5
<1>7. \A v1 \in ToSet(x) : v1 \in ToSet(y)
  BY <1>4, <1>5
<1>. QED  BY <1>6, <1>7
-----------------------------------------------------------------------------
(* Of the words [from, to) of x those that no call in S holds together are *)
(* in order; and those that one does hold together agree up to its depth.  *)
Together(S, i, j) == \E r \in S : Holds(r, i) /\ Holds(r, j)

Ordered(a, x, S, from, to) ==
  \A i, j \in from .. to - 1 :
    i < j /\ ~ Together(S, i, j) => SuffixLess(a, x[i + 1], x[j + 1])

Agreeing(a, x, S, from, to) ==
  \A r \in S : \A i, j \in from .. to - 1 :
    Holds(r, i) /\ Holds(r, j) =>
      \A m \in 0 .. r.depth - 1 : Char(a, x[i + 1] + m) = Char(a, x[j + 1] + m)

(* Both stay so when the words of one of the calls are moved.              *)
LEMMA MovedZero ==
  ASSUME NEW x, NEW y, NEW at \in Nat, NEW n \in Nat, Len(x) \in Nat,
         Moved(x, y, at, n), NEW i \in 0 .. Len(x) - 1
  PROVE  /\ i \notin at .. at + n - 1 => y[i + 1] = x[i + 1]
         /\ i \in at .. at + n - 1 =>
              \E j \in at .. at + n - 1 : y[i + 1] = x[j + 1]
<1> DEFINE C == at + 1 .. at + n
           N == Len(x)
<1>1. /\ \A l \in 1 .. N : l \notin C => y[l] = x[l]
      /\ \A l \in C : \E j \in C : y[l] = x[j]
  BY DEF Moved
<1> HIDE DEF N
<1>2. ASSUME i \notin at .. at + n - 1 PROVE y[i + 1] = x[i + 1]
  <2>1. i + 1 \in 1 .. N /\ i + 1 \notin C
    BY <1>2 DEF N
  <2>. QED  BY <1>1, <2>1
<1>3. ASSUME i \in at .. at + n - 1
      PROVE  \E j \in at .. at + n - 1 : y[i + 1] = x[j + 1]
  <2>1. PICK l \in C : y[i + 1] = x[l]
    BY <1>1, <1>3
  <2>2. l - 1 \in at .. at + n - 1 /\ (l - 1) + 1 = l
    OBVIOUS
  <2>. QED  BY <2>1, <2>2
<1>. QED  BY <1>2, <1>3

LEMMA OrderedMoved ==
  ASSUME NEW a, NEW x, NEW y, NEW at \in Nat, NEW n \in Nat, NEW from \in Nat,
         NEW to \in Nat, NEW N \in Nat, N = Len(x), from <= at, at + n <= to, to <= N,
         Moved(x, y, at, n), NEW T, NEW c,
         \A i \in Int : Holds(c, i) <=> i \in at .. at + n - 1,
         \A i \in at .. at + n - 1, r \in T : ~ Holds(r, i),
         Ordered(a, x, T \union {c}, from, to)
  PROVE  Ordered(a, y, T \union {c}, from, to)
<1> DEFINE C == at .. at + n - 1
           S == T \union {c}
<1> SUFFICES ASSUME NEW i \in from .. to - 1, NEW j \in from .. to - 1,
                    i < j, ~ Together(S, i, j)
             PROVE  SuffixLess(a, y[i + 1], y[j + 1])
  BY DEF Ordered
<1>1. /\ i \in 0 .. N - 1 /\ j \in 0 .. N - 1 /\ i \in Int /\ j \in Int
  OBVIOUS
<1>2. ~ (i \in C /\ j \in C)
  BY <1>1 DEF Together
<1>3. \A p, q \in from .. to - 1 :
        p < q /\ ~ Together(S, p, q) => SuffixLess(a, x[p + 1], x[q + 1])
  BY DEF Ordered
<1>4. CASE i \notin C /\ j \notin C
  <2>1. y[i + 1] = x[i + 1] /\ y[j + 1] = x[j + 1]
    BY <1>1, <1>4, MovedZero
  <2>. QED  BY <1>3, <2>1
<1>5. CASE i \in C /\ j \notin C
  <2>1. y[j + 1] = x[j + 1]
    BY <1>1, <1>5, MovedZero
  <2>2. PICK l \in C : y[i + 1] = x[l + 1]
    BY <1>1, <1>5, MovedZero
  <2>3. ~ Together(S, l, j)
    BY <1>1, <1>5 DEF Together
  <2>4. l \in from .. to - 1 /\ l < j
    BY <1>5
  <2>. QED  BY <1>3, <2>1, <2>2, <2>3, <2>4
<1>6. CASE i \notin C /\ j \in C
  <2>1. y[i + 1] = x[i + 1]
    BY <1>1, <1>6, MovedZero
  <2>2. PICK l \in C : y[j + 1] = x[l + 1]
    BY <1>1, <1>6, MovedZero
  <2>3. ~ Together(S, i, l)
    BY <1>1, <1>6 DEF Together
  <2>4. l \in from .. to - 1 /\ i < l
    BY <1>6
  <2>. QED  BY <1>3, <2>1, <2>2, <2>3, <2>4
<1>. QED  BY <1>2, <1>4, <1>5, <1>6

LEMMA AgreeingMoved ==
  ASSUME NEW a, NEW x, NEW y, NEW at \in Nat, NEW n \in Nat, NEW from \in Nat,
         NEW to \in Nat, NEW N \in Nat, N = Len(x), from <= at, at + n <= to, to <= N,
         Moved(x, y, at, n), NEW T, NEW c,
         \A i \in Int : Holds(c, i) <=> i \in at .. at + n - 1,
         \A i \in at .. at + n - 1, r \in T : ~ Holds(r, i),
         Agreeing(a, x, T \union {c}, from, to)
  PROVE  Agreeing(a, y, T \union {c}, from, to)
<1> DEFINE C == at .. at + n - 1
           S == T \union {c}
           Same(r, p, q) == \A m \in 0 .. r.depth - 1 : Char(a, p + m) = Char(a, q + m)
<1>0. \A r \in S : \A i, j \in from .. to - 1 :
        Holds(r, i) /\ Holds(r, j) => Same(r, x[i + 1], x[j + 1])
  BY DEF Agreeing
<1> SUFFICES ASSUME NEW r \in S, NEW i \in from .. to - 1, NEW j \in from .. to - 1,
                    Holds(r, i), Holds(r, j)
             PROVE  Same(r, y[i + 1], y[j + 1])
  BY DEF Agreeing
<1> HIDE DEF Same
<1>1. /\ i \in 0 .. N - 1 /\ j \in 0 .. N - 1 /\ i \in Int /\ j \in Int
  OBVIOUS
<1>2. CASE r = c
  <2>1. i \in C /\ j \in C
    BY <1>1, <1>2
  <2>5. \E l \in C : y[i + 1] = x[l + 1]
    BY <1>1, <2>1, MovedZero, SMTT(30)
  <2>6. \E l \in C : y[j + 1] = x[l + 1]
    BY <1>1, <2>1, MovedZero
  <2>2. PICK l \in C : y[i + 1] = x[l + 1]
    BY <2>5
  <2>3. PICK m \in C : y[j + 1] = x[m + 1]
    BY <2>6
  <2>4. l \in from .. to - 1 /\ m \in from .. to - 1 /\ Holds(c, l) /\ Holds(c, m)
    OBVIOUS
  <2>. QED  BY <1>0, <1>2, <2>2, <2>3, <2>4
<1>3. CASE r \in T
  <2>1. i \notin C /\ j \notin C
    BY <1>3
  <2>2. y[i + 1] = x[i + 1] /\ y[j + 1] = x[j + 1]
    BY <1>1, <2>1, MovedZero
  <2>. QED  BY <1>0, <2>2
<1>. QED  BY <1>2, <1>3

-----------------------------------------------------------------------------
(* The words of the array are positions of the text, each once, so any two *)
(* are in one order or the other.                                          *)
LEMMA WordsDiffer ==
  ASSUME PointsOK(ary)
  PROVE  /\ ary.array \in Seq(Nat) /\ Size \in Nat \ {0} /\ Distinct(ary.array)
         /\ \A m \in 1 .. Size : /\ ary.array[m] \in Nat
                                 /\ ary.array[m] < Len(ary.text)
<1>1. /\ ary.array \in Seq(Nat) /\ ary.array # <<>> /\ IsInjective(ary.array)
      /\ \A n \in 1 .. Len(ary.array) : ary.array[n] < Len(ary.text)
  BY DEF PointsOK
<1> DEFINE x == ary.array
<1>2. x \in Seq(Nat) /\ x # <<>> /\ IsInjective(x)
  BY <1>1
<1>3. Distinct(x) /\ Len(x) \in Nat \ {0} /\ \A m \in 1 .. Len(x) : x[m] \in Nat
  <2> HIDE DEF x
  <2>. QED  BY <1>2 DEF IsInjective, Distinct
<1>. QED  BY <1>1, <1>3 DEF Size

LEMMA WordOrder ==
  ASSUME PointsOK(ary)
  PROVE  /\ \A l \in 1 .. Size : ~ SuffixLess(ary, ary.array[l], ary.array[l])
         /\ \A l, m, n \in 1 .. Size :
              /\ SuffixLess(ary, ary.array[l], ary.array[m])
              /\ SuffixLess(ary, ary.array[m], ary.array[n])
              => SuffixLess(ary, ary.array[l], ary.array[n])
         /\ \A l, m \in 1 .. Size :
              \/ l = m
              \/ SuffixLess(ary, ary.array[l], ary.array[m])
              \/ SuffixLess(ary, ary.array[m], ary.array[l])
<1> DEFINE x == ary.array
           P == {p \in Nat : p < Len(ary.text)}
<1>1. \A m \in 1 .. Size : x[m] \in P
  BY WordsDiffer
<1>2. \A l, m \in 1 .. Size : x[l] = x[m] => l = m
  BY WordsDiffer DEF Distinct, Size
<1>3. /\ \A p \in P : ~ SuffixLess(ary, p, p)
      /\ \A p, q, r \in P :
           SuffixLess(ary, p, q) /\ SuffixLess(ary, q, r) => SuffixLess(ary, p, r)
      /\ \A p, q \in P : p = q \/ SuffixLess(ary, p, q) \/ SuffixLess(ary, q, p)
  BY SuffixOrder
<1> HIDE DEF x, P
<1>4. /\ \A l \in 1 .. Size : ~ SuffixLess(ary, x[l], x[l])
      /\ \A l, m, n \in 1 .. Size :
           SuffixLess(ary, x[l], x[m]) /\ SuffixLess(ary, x[m], x[n])
             => SuffixLess(ary, x[l], x[n])
      /\ \A l, m \in 1 .. Size :
           l = m \/ SuffixLess(ary, x[l], x[m]) \/ SuffixLess(ary, x[m], x[l])
  BY <1>1, <1>2, <1>3, Zenon
<1>. QED  BY <1>4 DEF x

(* The places a word is given by its number of smaller ones.               *)
LEMMA RanksDiffer ==
  ASSUME PointsOK(ary), NEW from \in Nat, NEW to \in Nat, from <= to, to <= Size
  PROVE  LET Rank(m) == Cardinality(Smaller(from, to, m))
             D == from + 1 .. to
         IN /\ \A m \in D : Rank(m) \in 0 .. to - from - 1
            /\ \A l, m \in D : SuffixLess(ary, ary.array[l], ary.array[m])
                                 => Rank(l) < Rank(m)
            /\ \A l, m \in D : Rank(l) = Rank(m) => l = m
            /\ \A n \in 0 .. to - from - 1 : \E m \in D : Rank(m) = n
<1> DEFINE Rank(m) == Cardinality(Smaller(from, to, m))
           D == from + 1 .. to
           Less(l, m) == SuffixLess(ary, ary.array[l], ary.array[m])
           B(m) == Smaller(from, to, m)
<1>0. Size \in Nat
  BY WordsDiffer
<1>1. D \subseteq 1 .. Size
  BY <1>0
<1>2. /\ \A l \in D : ~ Less(l, l)
      /\ \A l, m, n \in D : Less(l, m) /\ Less(m, n) => Less(l, n)
      /\ \A l, m \in D : l = m \/ Less(l, m) \/ Less(m, l)
  BY <1>1, WordOrder, Zenon
<1>3. \A m \in D : B(m) = {l \in D : Less(l, m)}
  BY DEF Smaller
<1>4. IsFiniteSet(D) /\ Cardinality(D) = to - from
  <2>1. from + 1 \in Int /\ to \in Int
    OBVIOUS
  <2>2. IsFiniteSet(D) /\ Cardinality(D) = IF from + 1 > to THEN 0 ELSE to - (from + 1) + 1
    BY <2>1, FS_Interval
  <2> HIDE DEF D
  <2>. QED  BY <2>2
<1> HIDE DEF D, Less, B
<1>5. ASSUME NEW m \in D
      PROVE  IsFiniteSet(B(m)) /\ Rank(m) \in 0 .. to - from - 1
  <2>1. B(m) \subseteq D \ {m}
    BY <1>2, <1>3
  <2>2. IsFiniteSet(D \ {m}) /\ Cardinality(D \ {m}) = to - from - 1
    BY <1>4, FS_RemoveElement
  <2>3. IsFiniteSet(B(m)) /\ Cardinality(B(m)) <= to - from - 1
    BY <2>1, <2>2, FS_Subset
  <2>4. Cardinality(B(m)) \in Nat
    BY <2>3, FS_CardinalityType
  <2>. QED  BY <2>3, <2>4 DEF B
<1>6. ASSUME NEW l \in D, NEW m \in D, Less(l, m)
      PROVE  Rank(l) < Rank(m)
  <2>1. l \notin B(l) /\ B(l) \union {l} \subseteq B(m)
    BY <1>2, <1>3, <1>6
  <2>2. IsFiniteSet(B(l)) /\ IsFiniteSet(B(m)) /\ Cardinality(B(l)) \in Nat
    BY <1>5, FS_CardinalityType
  <2>3. Cardinality(B(l) \union {l}) = Cardinality(B(l)) + 1
    BY <2>1, <2>2, FS_AddElement
  <2>4. Cardinality(B(l) \union {l}) <= Cardinality(B(m)) /\ Cardinality(B(m)) \in Nat
    BY <2>1, <2>2, FS_Subset, FS_CardinalityType
  <2>5. Cardinality(B(l)) < Cardinality(B(m))
    BY <2>2, <2>3, <2>4
  <2>. QED  BY <2>5 DEF B
<1> HIDE DEF Rank
<1>7. ASSUME NEW l \in D, NEW m \in D, Rank(l) = Rank(m)
      PROVE  l = m
  <2>1. Rank(l) \in Int /\ Rank(m) \in Int
    BY <1>5
  <2>2. ~ Less(l, m) /\ ~ Less(m, l)
    BY <1>6, <1>7, <2>1
  <2>. QED  BY <1>2, <2>2
<1>8. ASSUME NEW n \in 0 .. to - from - 1
      PROVE  \E m \in D : Rank(m) = n
  <2> DEFINE E == 0 .. to - from - 1
             f == [m \in D |-> Rank(m)]
  <2>1. f \in Injection(D, E)
    BY <1>5, <1>7 DEF Injection, IsInjective
  <2>2. IsFiniteSet(E) /\ Cardinality(E) = Cardinality(D)
    <3>1. IsFiniteSet(E) /\ Cardinality(E) = IF 0 > to - from - 1 THEN 0
                                              ELSE to - from - 1 - 0 + 1
      BY FS_Interval
    <3> HIDE DEF E
    <3>. QED  BY <1>4, <3>1
  <2>3. f \in Surjection(D, E)
    BY <2>1, <2>2, FS_Injection
  <2>. QED  BY <2>3 DEF Surjection
<1>. QED  BY <1>5, <1>6, <1>7, <1>8 DEF Rank, D, Less

(* qsort puts the words of its part in order.                              *)
LEMMA SortRangeSorts ==
  ASSUME PointsOK(ary), NEW at \in Nat, NEW n \in Nat, at + n <= Size
  PROVE  /\ Moved(ary.array, SortRange(at, at + n), at, n)
         /\ \A i, j \in at .. at + n - 1 :
              i < j => SuffixLess(ary, SortRange(at, at + n)[i + 1],
                                       SortRange(at, at + n)[j + 1])
<1> DEFINE x == ary.array
           N == Size
           to == at + n
           D == at + 1 .. at + n
           y == SortRange(at, to)
           Rank(m) == Cardinality(Smaller(at, to, m))
           f == [i \in D |-> CHOOSE m \in D : at + 1 + Rank(m) = i]
           Less(l, m) == SuffixLess(ary, x[l], x[m])
<1>1. x \in Seq(Nat) /\ N \in Nat /\ N = Len(x) /\ Distinct(x)
  BY WordsDiffer DEF Size
<1>2. to \in Nat /\ at <= to /\ to <= N /\ to - at - 1 = n - 1 /\ D \subseteq 1 .. N
  BY <1>1
<1>3. /\ \A m \in D : Rank(m) \in 0 .. n - 1
      /\ \A l, m \in D : Less(l, m) => Rank(l) < Rank(m)
      /\ \A l, m \in D : Rank(l) = Rank(m) => l = m
      /\ \A k_1 \in 0 .. n - 1 : \E m \in D : Rank(m) = k_1
  BY <1>2, RanksDiffer
<1>4. \A l, m \in D : l = m \/ Less(l, m) \/ Less(m, l)
  BY <1>2, WordOrder, Zenon
<1>5. y = [i \in 1 .. N |-> IF i \in D THEN x[f[i]] ELSE x[i]]
  BY <1>2 DEF SortRange, Size
<1> HIDE DEF x, N, y, Rank, Less
<1>6. ASSUME NEW i \in D
      PROVE  f[i] \in D /\ at + 1 + Rank(f[i]) = i
  <2>1. i - at - 1 \in 0 .. n - 1
    OBVIOUS
  <2>2. PICK m \in D : Rank(m) = i - at - 1
    BY <1>3, <2>1
  <2>3. at + 1 + Rank(m) = i
    BY <2>2
  <2>. QED  BY <2>3
<1>7. f \in [D -> D]
  BY <1>6
<1> HIDE DEF f
<1>8. \A i, j \in D : f[i] = f[j] => i = j
  BY <1>6
<1>9. ASSUME NEW j \in D PROVE \E i \in D : f[i] = j
  <2>1. Rank(j) \in 0 .. n - 1
    BY <1>3
  <2>2. at + 1 + Rank(j) \in D
    BY <2>1
  <2>3. f[at + 1 + Rank(j)] \in D /\ at + 1 + Rank(f[at + 1 + Rank(j)]) = at + 1 + Rank(j)
    BY <1>6, <2>2
  <2>4. Rank(f[at + 1 + Rank(j)]) \in 0 .. n - 1
    BY <1>3, <2>3
  <2>5. Rank(f[at + 1 + Rank(j)]) = Rank(j)
    BY <2>1, <2>3, <2>4
  <2>6. f[at + 1 + Rank(j)] = j
    BY <1>3, <2>3, <2>5
  <2>. QED  BY <2>2, <2>6
<1>10. /\ \A i \in D : y[i] = x[f[i]]
       /\ \A i \in 1 .. N : i \notin D => y[i] = x[i]
       /\ DOMAIN y = 1 .. N /\ y = [i \in DOMAIN y |-> y[i]]
  BY <1>2, <1>5
<1>11. Moved(x, y, at, n)
  BY <1>1, <1>2, <1>7, <1>8, <1>9, <1>10, BijectionMoves
<1>12. ASSUME NEW i \in at .. to - 1, NEW j \in at .. to - 1, i < j
       PROVE  SuffixLess(ary, y[i + 1], y[j + 1])
  <2>1. i + 1 \in D /\ j + 1 \in D /\ i + 1 < j + 1
    BY <1>12
  <2>2. /\ f[i + 1] \in D /\ at + 1 + Rank(f[i + 1]) = i + 1
        /\ f[j + 1] \in D /\ at + 1 + Rank(f[j + 1]) = j + 1
    BY <1>6, <2>1
  <2>3. Rank(f[i + 1]) \in Int /\ Rank(f[j + 1]) \in Int
    BY <1>3, <2>2
  <2>4. Rank(f[i + 1]) < Rank(f[j + 1])
    BY <2>1, <2>2, <2>3
  <2>5. f[i + 1] # f[j + 1] /\ ~ Less(f[j + 1], f[i + 1])
    BY <1>3, <2>2, <2>3, <2>4
  <2>6. Less(f[i + 1], f[j + 1])
    BY <1>4, <2>2, <2>5
  <2>. QED  BY <1>10, <2>1, <2>6 DEF Less
<1>. QED  BY <1>11, <1>12 DEF x, y

LEMMA MovedNot ==
  ASSUME NEW x \in Seq(Nat), Distinct(x), NEW at \in Nat, NEW n \in Nat,
         at + n <= Len(x)
  PROVE  Moved(x, x, at, n)
<1>1. \A i \in at + 1 .. at + n : \E j \in at + 1 .. at + n : x[i] = x[j]
  OBVIOUS
<1>. QED  BY <1>1 DEF Moved

(* Words moved within a part of the array are moved within the larger one. *)
LEMMA MovedWider ==
  ASSUME NEW x, Len(x) \in Nat, NEW y, NEW at \in Nat, NEW n \in Nat,
         Moved(x, y, at, n), NEW from \in Nat, NEW m \in Nat,
         from <= at, at + n <= from + m, from + m <= Len(x)
  PROVE  Moved(x, y, from, m)
<1> DEFINE C == at + 1 .. at + n
           D == from + 1 .. from + m
           N == Len(x)
<1>1. /\ y \in Seq(Nat) /\ Len(y) = N /\ Distinct(y)
      /\ \A i \in 1 .. N : i \notin C => y[i] = x[i]
      /\ \A i \in C : \E j \in C : y[i] = x[j]
      /\ \A j \in C : \E i \in C : y[i] = x[j]
  BY DEF Moved
<1>2. C \subseteq D /\ D \subseteq 1 .. N
  OBVIOUS
<1> HIDE DEF C, N
<1>3. ASSUME NEW i \in D PROVE \E j \in D : y[i] = x[j]
  <2>1. CASE i \in C
    BY <1>1, <1>2, <2>1
  <2>2. CASE i \notin C
    BY <1>1, <1>2, <2>2
  <2>. QED  BY <2>1, <2>2
<1>4. ASSUME NEW j \in D PROVE \E i \in D : y[i] = x[j]
  <2>1. CASE j \in C
    BY <1>1, <1>2, <2>1
  <2>2. CASE j \notin C
    BY <1>1, <1>2, <2>2
  <2>. QED  BY <2>1, <2>2
<1>5. \A i \in 1 .. N : i \notin D => y[i] = x[i]
  BY <1>1, <1>2
<1>. QED  BY <1>1, <1>3, <1>4, <1>5 DEF Moved, N

(* What a move leaves as it was.                                           *)
LEMMA MovedPoints ==
  ASSUME PointsOK(ary), NEW y, NEW at \in Nat, NEW n \in Nat, at + n <= Size,
         Moved(ary.array, y, at, n), ary' = [ary EXCEPT !.array = y]
  PROVE  /\ PointsOK(ary') /\ Size' = Size
         /\ ary'.array = y /\ ary'.text = ary.text
         /\ ToSet(y) = ToSet(ary.array)
<1> DEFINE x == ary.array
           t == ary.text
<1>1. /\ ary \in [text : Seq(Byte), array : Seq(Nat) \ {<<>>}]
      /\ x \in Seq(Nat) /\ Size \in Nat \ {0} /\ Size = Len(x)
      /\ \A m \in 1 .. Size : x[m] < Len(t)
  BY WordsDiffer DEF PointsOK, Size
<1>2. ary'.array = y /\ ary'.text = t
  BY <1>1
<1>3. y \in Seq(Nat) /\ Len(y) = Size /\ Distinct(y)
  BY <1>1 DEF Moved
<1>4. ToSet(y) = ToSet(x)
  BY <1>1, MovedWords
<1>5. ary' \in [text : Seq(Byte), array : Seq(Nat) \ {<<>>}]
  <2>1. y # <<>>
    BY <1>1, <1>3
  <2>. QED  BY <1>1, <1>3, <2>1
<1>6. \A m \in 1 .. Len(y) : y[m] < Len(t)
  <2> HIDE DEF x, t
  <2>1. DOMAIN x = 1 .. Size /\ DOMAIN y = 1 .. Size
    BY <1>1, <1>3
  <2>2. ASSUME NEW m \in 1 .. Size PROVE \E i \in 1 .. Size : y[m] = x[i]
    BY <1>4, <2>1 DEF ToSet
  <2>. QED  BY <1>1, <1>3, <2>2
<1>7. IsInjective(y)
  BY <1>3 DEF IsInjective, Distinct
<1>8. PointsOK(ary')
  BY <1>2, <1>5, <1>6, <1>7 DEF PointsOK
<1>. QED  BY <1>1, <1>2, <1>3, <1>4, <1>8 DEF Size

-----------------------------------------------------------------------------
(* RangesApart, said of the array.                                         *)
Callers == ToSet(ranges) \union (IF Scanning THEN {scan} ELSE {})

Parted ==
  \A i \in 0 .. scan.n - 1 :
    /\ i < scan.a \/ scan.d < i => R(i) = 0
    /\ scan.a <= i /\ i < scan.b => R(i) < 0
    /\ scan.c < i /\ i <= scan.d => R(i) > 0

ArrayApart(from, to) ==
  /\ Ordered(ary, ary.array, Callers, from, to)
  /\ Agreeing(ary, ary.array, Callers, from, to)
  /\ Scanning => Parted

LEMMA RangesApartForm ==
  ASSUME NEW from, NEW to, PointersInv
  PROVE  RangesApart(from, to) <=> (NulFree => ArrayApart(from, to))
BY DEF RangesApart, ArrayApart, PointersInv, Callers, Parted, Ordered, Together,
       Agreeing, SistringChar, AryIdx2TxtIdx

LEMMA RangesApartFormPrime ==
  ASSUME NEW from, NEW to, PointersInv'
  PROVE  RangesApart(from, to)' <=> (NulFree' => ArrayApart(from, to)')
BY DEF RangesApart, ArrayApart, PointersInv, Callers, Parted, Ordered, Together,
       Agreeing, SistringChar, AryIdx2TxtIdx

LEMMA SameText ==
  ASSUME ary'.text = ary.text
  PROVE  /\ NulFree' <=> NulFree
         /\ \A p : Char(ary', p) = Char(ary, p)
         /\ \A p, q : SuffixLess(ary', p, q) <=> SuffixLess(ary, p, q)
         /\ \A x, S, from, to : Ordered(ary', x, S, from, to) <=> Ordered(ary, x, S, from, to)
         /\ \A x, S, from, to : Agreeing(ary', x, S, from, to) <=> Agreeing(ary, x, S, from, to)
<1>1. \A p : Char(ary', p) = Char(ary, p)
  BY DEF Char
<1>2. \A p, q : SuffixLess(ary', p, q) <=> SuffixLess(ary, p, q)
  BY <1>1 DEF SuffixLess
<1>3. NulFree' <=> NulFree
  BY DEF NulFree
<1>4. \A x, S, from, to : Ordered(ary', x, S, from, to) <=> Ordered(ary, x, S, from, to)
  BY <1>2 DEF Ordered
<1>5. \A x, S, from, to : Agreeing(ary', x, S, from, to) <=> Agreeing(ary, x, S, from, to)
  BY <1>1 DEF Agreeing
<1>. QED  BY <1>1, <1>2, <1>3, <1>4, <1>5

LEMMA HolderReplaced ==
  ASSUME NEW a, NEW x, NEW T, NEW c, NEW d, NEW from \in Nat, NEW to \in Nat,
         c.at = d.at, c.n = d.n, c.depth = d.depth
  PROVE  /\ Ordered(a, x, T \union {c}, from, to) => Ordered(a, x, T \union {d}, from, to)
         /\ Agreeing(a, x, T \union {c}, from, to) => Agreeing(a, x, T \union {d}, from, to)
<1>1. \A i : Holds(c, i) <=> Holds(d, i)
  BY DEF Holds
<1>2. \A i, j : Together(T \union {c}, i, j) <=> Together(T \union {d}, i, j)
  BY <1>1 DEF Together
<1>3. Ordered(a, x, T \union {c}, from, to) => Ordered(a, x, T \union {d}, from, to)
  BY <1>2 DEF Ordered
<1>4. ASSUME Agreeing(a, x, T \union {c}, from, to), NEW r \in T \union {d},
             NEW i \in from .. to - 1, NEW j \in from .. to - 1, Holds(r, i), Holds(r, j)
      PROVE  \A m \in 0 .. r.depth - 1 : Char(a, x[i + 1] + m) = Char(a, x[j + 1] + m)
  <2>1. PICK s \in T \union {c} : Holds(s, i) /\ Holds(s, j) /\ s.depth = r.depth
    BY <1>1, <1>4
  <2>2. \A m \in 0 .. s.depth - 1 : Char(a, x[i + 1] + m) = Char(a, x[j + 1] + m)
    BY <1>4, <2>1 DEF Agreeing
  <2>. QED  BY <2>1, <2>2
<1>5. Agreeing(a, x, T \union {c}, from, to) => Agreeing(a, x, T \union {d}, from, to)
  BY <1>4 DEF Agreeing
<1>. QED  BY <1>3, <1>5

(* No other call holds a word of the range being split.                    *)
LEMMA ApartHolds ==
  ASSUME NEW c, NEW d, c.at \in Nat, c.n \in Nat, d.at \in Nat, d.n \in Nat, Apart(c, d),
         NEW i \in c.at .. c.at + c.n - 1
  PROVE  ~ Holds(d, i)
<1> DEFINE ca == c.at  cn == c.n  da == d.at  dn == d.n
<1>1. ca \in Nat /\ cn \in Nat /\ da \in Nat /\ dn \in Nat /\ i \in ca .. ca + cn - 1
  OBVIOUS
<1>2. cn = 0 \/ dn = 0 \/ ca + cn <= da \/ da + dn <= ca
  BY DEF Apart
<1> SUFFICES i \notin da .. da + dn - 1
  BY DEF Holds
<1> HIDE DEF ca, cn, da, dn
<1>. QED  BY <1>1, <1>2

(* What the calls are, and the words they hold.                            *)
LEMMA ScanningCalls ==
  ASSUME NEW from \in Nat, NEW to \in Nat, CallsWithin(from, to), Scanning
  PROVE  /\ scan \in ScanType /\ Callers = ToSet(ranges) \union {scan}
         /\ scan.at \in Nat /\ scan.n \in Nat /\ scan.depth \in Nat
         /\ from <= scan.at /\ scan.at + scan.n <= to
         /\ \A i \in Int : Holds(scan, i) <=> i \in scan.at .. scan.at + scan.n - 1
         /\ \A i \in scan.at .. scan.at + scan.n - 1, r \in ToSet(ranges) : ~ Holds(r, i)
<1>1. scan \in ScanType
  BY DEF CallsWithin, ScanType
<1>2. scan.at \in Nat /\ scan.n \in Nat /\ scan.depth \in Nat
  BY <1>1 DEF ScanType
<1>3. from <= scan.at /\ scan.at + scan.n <= to
  BY DEF CallsWithin, Within
<1>4. Callers = ToSet(ranges) \union {scan}
  BY DEF Callers
<1>5. \A i \in Int : Holds(scan, i) <=> i \in scan.at .. scan.at + scan.n - 1
  BY DEF Holds
<1>6. ASSUME NEW i \in scan.at .. scan.at + scan.n - 1, NEW r \in ToSet(ranges)
      PROVE  ~ Holds(r, i)
  <2>1. PICK m \in DOMAIN ranges : r = ranges[m]
    BY DEF ToSet
  <2>2. Apart(scan, r)
    BY <2>1 DEF CallsWithin
  <2>3. ranges \in Seq(CallType)
    BY DEF CallsWithin
  <2>4. r \in CallType
    BY <2>1, <2>3
  <2>5. r.at \in Nat /\ r.n \in Nat
    BY <2>4 DEF CallType
  <2>. QED  BY <1>2, <2>2, <2>5, ApartHolds
<1>. QED  BY <1>1, <1>2, <1>3, <1>4, <1>5, <1>6

(* What each step of the sort of the words [from, to) keeps.               *)
Kept(from, to) ==
  /\ SortingInv(from, to)' /\ PointsOK(ary')
  /\ Moved(ary.array, ary'.array, from, to - from) /\ ary'.text = ary.text

(* A turn of the loops moves words of the range being split.               *)
LEMMA ScanStep ==
  ASSUME PointsOK(ary), NEW from \in Nat, NEW to \in Nat, to <= Size,
         SortingInv(from, to), Scanning, ranges' = ranges, NEW y,
         Moved(ary.array, y, scan.at, scan.n), ary' = [ary EXCEPT !.array = y],
         scan' \in ScanType, scan'.at = scan.at, scan'.n = scan.n,
         scan'.depth = scan.depth, PointersInv', NulFree => Parted'
  PROVE  Kept(from, to)
<1> DEFINE at == scan.at
           n == scan.n
           N == Size
           T == ToSet(ranges)
<1>1. CallsWithin(from, to) /\ PointersInv /\ RangesApart(from, to)
  BY DEF SortingInv
<1>2. /\ scan \in ScanType /\ Callers = T \union {scan}
      /\ at \in Nat /\ n \in Nat
      /\ from <= at /\ at + n <= to
      /\ \A i \in Int : Holds(scan, i) <=> i \in at .. at + n - 1
      /\ \A i \in at .. at + n - 1, r \in T : ~ Holds(r, i)
  BY <1>1, ScanningCalls
<1>3. N \in Nat /\ N = Len(ary.array)
  BY WordsDiffer DEF Size
<1>4. at + n <= N
  <2> HIDE DEF at, n, N
  <2>. QED  BY <1>2, <1>3 DEF N
<1>5. ary'.array = y /\ ary'.text = ary.text /\ PointsOK(ary')
  BY <1>2, <1>4, MovedPoints
<1>6. Scanning' /\ Callers' = T \union {scan'}
  BY DEF Scanning, Callers
<1>7. CallsWithin(from, to)'
  <2>1. \A m \in DOMAIN ranges : Apart(scan', ranges[m])
    BY <1>1 DEF CallsWithin, Apart
  <2>2. Within(scan', from, to)
    BY <1>2 DEF Within
  <2>. QED  BY <1>1, <2>1, <2>2 DEF CallsWithin, ScanType, Apart, Within
<1>8. ASSUME NulFree'
      PROVE  ArrayApart(from, to)'
  <2>1. NulFree
    BY <1>5, <1>8, SameText
  <2>2. /\ Ordered(ary, ary.array, T \union {scan}, from, to)
        /\ Agreeing(ary, ary.array, T \union {scan}, from, to)
    BY <1>1, <1>2, <2>1, RangesApartForm DEF ArrayApart
  <2>3. Ordered(ary, y, T \union {scan}, from, to)
    BY <1>2, <1>3, <2>2, OrderedMoved
  <2>4. Agreeing(ary, y, T \union {scan}, from, to)
    BY <1>2, <1>3, <2>2, AgreeingMoved
  <2>5. /\ Ordered(ary, y, T \union {scan'}, from, to)
        /\ Agreeing(ary, y, T \union {scan'}, from, to)
    BY <2>3, <2>4, HolderReplaced
  <2>6. /\ Ordered(ary', y, T \union {scan'}, from, to)
        /\ Agreeing(ary', y, T \union {scan'}, from, to)
    BY <1>5, <2>5, SameText
  <2>. QED  BY <1>5, <1>6, <2>1, <2>6 DEF ArrayApart
<1>9. RangesApart(from, to)'
  BY <1>8, RangesApartFormPrime
<1>10. Moved(ary.array, y, from, to - from)
  <2>1. to - from \in Nat /\ from + (to - from) = to
    BY <1>2
  <2>. QED  BY <1>2, <1>3, <2>1, MovedWider
<1>. QED  BY <1>5, <1>7, <1>9, <1>10 DEF SortingInv, Kept

-----------------------------------------------------------------------------
(* The bytes that are compared with the pivot's, before and after a swap.  *)
Rel(a, x, s, i) == Char(a, x[s.at + i + 1] + s.depth) - s.v

LEMMA RIsRel ==
  /\ \A i : R(i) = Rel(ary, ary.array, scan, i)
  /\ \A i : R(i)' = Rel(ary', ary'.array, scan', i)
BY DEF R, Rel, SistringChar, AryIdx2TxtIdx

LEMMA RType ==
  ASSUME PointsOK(ary), scan \in ScanType, scan.at + scan.n <= Size,
         NEW i \in 0 .. scan.n - 1
  PROVE  R(i) \in Int
<1> DEFINE at == scan.at
           n == scan.n
           x == ary.array
           w == x[at + i + 1]
           d == scan.depth
           l == Len(ary.text)
<1>1. at \in Nat /\ n \in Nat /\ d \in Nat /\ scan.v \in Nat
  BY DEF ScanType
<1>2. /\ Size \in Nat /\ \A m \in 1 .. Size : x[m] \in Nat
  BY WordsDiffer
<1>3. at + n <= Size /\ i \in 0 .. n - 1
  OBVIOUS
<1>4. R(i) = Char(ary, w + d) - scan.v
  BY RIsRel DEF Rel
<1> HIDE DEF at, n, x, d
<1>5. at + i + 1 \in 1 .. Size
  BY <1>1, <1>2, <1>3
<1>6. w \in Nat
  BY <1>2, <1>5
<1>7. Char(ary, w + d) \in Nat
  BY <1>1, <1>6, SymbolIsChar
<1>. QED  BY <1>1, <1>4, <1>7

LEMMA SwapStep ==
  ASSUME PointsOK(ary), scan \in ScanType, scan.at + scan.n <= Size,
         NEW i \in 0 .. scan.n - 1, NEW j \in 0 .. scan.n - 1,
         ary' = [ary EXCEPT !.array = Swap(ary.array, scan.at + i, scan.at + j)],
         scan'.at = scan.at, scan'.depth = scan.depth, scan'.v = scan.v
  PROVE  /\ R(i)' = R(j) /\ R(j)' = R(i)
         /\ \A m \in 0 .. scan.n - 1 : m # i /\ m # j => R(m)' = R(m)
<1> DEFINE at == scan.at
           n == scan.n
           x == ary.array
           y == Swap(x, at + i, at + j)
<1>1. at \in Nat /\ n \in Nat
  BY DEF ScanType
<1>2. x \in Seq(Nat) /\ Size \in Nat /\ Len(x) = Size
  BY WordsDiffer DEF Size
<1>3. at + n <= Size /\ i \in 0 .. n - 1 /\ j \in 0 .. n - 1
  OBVIOUS
<1>4. ary'.array = y /\ ary'.text = ary.text
  BY DEF PointsOK
<1>5. \A m : R(m)' = Rel(ary', y, scan', m) /\ R(m) = Rel(ary, x, scan, m)
  BY <1>4, RIsRel
<1>6. \A m : Rel(ary', y, scan', m) = Rel(ary, y, scan, m)
  BY <1>4, SameText DEF Rel
<1> HIDE DEF n, x
<1>7. /\ y[at + i + 1] = x[at + j + 1] /\ y[at + j + 1] = x[at + i + 1]
      /\ \A m \in 0 .. n - 1 : m # i /\ m # j => y[at + m + 1] = x[at + m + 1]
  <2> HIDE DEF at
  <2>1. x \in [1 .. Size -> Nat]
    BY <1>2
  <2>2. at + i + 1 \in 1 .. Size /\ at + j + 1 \in 1 .. Size
    BY <1>1, <1>2, <1>3, SMTT(30)
  <2>3. y = [m \in 1 .. Size |-> IF m = at + j + 1 THEN x[at + i + 1]
                                 ELSE IF m = at + i + 1 THEN x[at + j + 1] ELSE x[m]]
    BY <2>1, <2>2 DEF Swap
  <2>4. \A m \in 0 .. n - 1 : at + m + 1 \in 1 .. Size
    BY <1>1, <1>2, <1>3
  <2>5. \A m \in 0 .. n - 1 : m # i /\ m # j => at + m + 1 # at + i + 1 /\ at + m + 1 # at + j + 1
    BY <1>1, <1>3
  <2> HIDE DEF y
  <2>6. y[at + i + 1] = x[at + j + 1]
    BY <2>2, <2>3
  <2>7. y[at + j + 1] = x[at + i + 1]
    BY <2>2, <2>3
  <2>8. ASSUME NEW m \in 0 .. n - 1, m # i, m # j
        PROVE  y[at + m + 1] = x[at + m + 1]
    BY <2>3, <2>4, <2>5, <2>8
  <2>. QED  BY <2>6, <2>7, <2>8
<1>8. /\ Rel(ary, y, scan, i) = Rel(ary, x, scan, j)
      /\ Rel(ary, y, scan, j) = Rel(ary, x, scan, i)
      /\ \A m \in 0 .. n - 1 : m # i /\ m # j => Rel(ary, y, scan, m) = Rel(ary, x, scan, m)
  <2> HIDE DEF y
  <2>. QED  BY <1>7 DEF Rel
<1>. QED  BY <1>5, <1>6, <1>8 DEF n

(* The four pointers, and what is known of the words by them.              *)
LEMMA ScanFacts ==
  ASSUME PointsOK(ary), NEW from \in Nat, NEW to \in Nat, to <= Size,
         SortingInv(from, to), Scanning,
         NEW at, NEW n, NEW a, NEW b, NEW c, NEW d,
         at = scan.at, n = scan.n, a = scan.a, b = scan.b, c = scan.c, d = scan.d
  PROVE  /\ at \in Nat /\ n \in Nat /\ a \in Nat /\ b \in Nat /\ c \in Int /\ d \in Int
         /\ scan \in ScanType /\ scan.at + scan.n <= Size /\ at + n <= Size
         /\ 1 <= a /\ a <= b /\ b <= c + 1 /\ c <= d /\ d < n
         /\ \A i \in 0 .. n - 1 : R(i) \in Int
         /\ NulFree => \A i \in 0 .. n - 1 :
              /\ i < a \/ d < i => R(i) = 0
              /\ a <= i /\ i < b => R(i) < 0
              /\ c < i /\ i <= d => R(i) > 0
<1>1. CallsWithin(from, to) /\ PointersInv /\ RangesApart(from, to)
  BY DEF SortingInv
<1>2. scan \in ScanType /\ from <= scan.at /\ scan.at + scan.n <= to
  BY <1>1, ScanningCalls
<1>3. at \in Nat /\ n \in Nat /\ a \in Nat /\ b \in Nat /\ c \in Int /\ d \in Int
  BY <1>2 DEF ScanType
<1>4. 1 <= a /\ a <= b /\ b <= c + 1 /\ c <= d /\ d < n
  BY <1>1 DEF PointersInv
<1>5. Size \in Nat
  BY WordsDiffer
<1>6. at + n <= Size
  <2>1. at + n <= to
    BY <1>2
  <2>. QED  BY <1>3, <1>5, <2>1
<1>7. \A i \in 0 .. scan.n - 1 : R(i) \in Int
  BY <1>2, <1>6, RType
<1>8. NulFree => \A i \in 0 .. scan.n - 1 :
                   /\ i < scan.a \/ scan.d < i => R(i) = 0
                   /\ scan.a <= i /\ i < scan.b => R(i) < 0
                   /\ scan.c < i /\ i <= scan.d => R(i) > 0
  BY <1>1, RangesApartForm DEF ArrayApart, Parted
<1>. QED  BY <1>2, <1>3, <1>4, <1>6, <1>7, <1>8

(* A turn that swaps the words i and j, or moves a pointer only; f[m] is   *)
(* then the byte of the word m less the pivot's.                           *)
Swapped(i, j, n) ==
  [m \in 0 .. n - 1 |-> R(IF m = i THEN j ELSE IF m = j THEN i ELSE m)]

PartedBy(f, n, a, b, c, d) ==
  \A m \in 0 .. n - 1 : /\ m < a \/ d < m => f[m] = 0
                        /\ a <= m /\ m < b => f[m] < 0
                        /\ c < m /\ m <= d => f[m] > 0

LEMMA TurnKeeps ==
  ASSUME PointsOK(ary), NEW from \in Nat, NEW to \in Nat, to <= Size,
         SortingInv(from, to), Scanning, ranges' = ranges,
         NEW n \in Nat, NEW i \in 0 .. n - 1, NEW j \in 0 .. n - 1, n = scan.n,
         ary' = [ary EXCEPT !.array = Swap(ary.array, scan.at + i, scan.at + j)],
         NEW a \in Nat, NEW b \in Nat, NEW c \in Int, NEW d \in Int,
         scan' = [scan EXCEPT !.a = a, !.b = b, !.c = c, !.d = d],
         1 <= a, a <= b, b <= c + 1, c <= d, d < n,
         NulFree => PartedBy(Swapped(i, j, n), n, a, b, c, d)
  PROVE  Kept(from, to)
<1> DEFINE y == Swap(ary.array, scan.at + i, scan.at + j)
<1>1. CallsWithin(from, to)
  BY DEF SortingInv
<1>2. scan \in ScanType /\ scan.at \in Nat /\ from <= scan.at /\ scan.at + scan.n <= to
  BY <1>1, ScanningCalls
<1>3. Size \in Nat /\ Size = Len(ary.array) /\ ary.array \in Seq(Nat) /\ Distinct(ary.array)
  BY WordsDiffer DEF Size
<1>4. scan.at + scan.n <= Size
  <2>1. \A p \in Nat : p <= to => p <= Size
    BY <1>3
  <2>2. scan.at + scan.n \in Nat
    BY <1>2
  <2>. QED  BY <1>2, <2>1, <2>2
<1>5. /\ scan' \in ScanType /\ scan'.at = scan.at /\ scan'.n = scan.n
      /\ scan'.depth = scan.depth /\ scan'.v = scan.v
      /\ scan'.a = a /\ scan'.b = b /\ scan'.c = c /\ scan'.d = d
  BY <1>2 DEF ScanType
<1>6. Moved(ary.array, y, scan.at, scan.n)
  <2>1. PICK at \in Nat : at = scan.at
    BY <1>2
  <2>2. at + i \in at .. at + n - 1 /\ at + j \in at .. at + n - 1
    BY <2>1, Z3
  <2>3. at + n <= Len(ary.array)
    BY <1>3, <1>4, <2>1
  <2>. QED  BY <1>3, <2>1, <2>2, <2>3, SwapMoves
<1>7. PointersInv'
  BY <1>5 DEF PointersInv
<1>8. /\ R(i)' = R(j) /\ R(j)' = R(i)
      /\ \A m \in 0 .. n - 1 : m # i /\ m # j => R(m)' = R(m)
  BY <1>2, <1>4, <1>5, SwapStep
<1>9. \A m \in 0 .. n - 1 : R(m)' = Swapped(i, j, n)[m]
  BY <1>8 DEF Swapped
<1>10. NulFree => Parted'
  BY <1>5, <1>9 DEF Parted, PartedBy
<1>. QED  BY <1>2, <1>5, <1>6, <1>7, <1>10, ScanStep

LEMMA SwapSame ==
  ASSUME PointsOK(ary), NEW i \in Nat, i < Size
  PROVE  ary = [ary EXCEPT !.array = Swap(ary.array, i, i)]
<1> DEFINE x == ary.array
<1>1. x \in Seq(Nat) /\ Size = Len(x) /\ ary \in [text : Seq(Byte), array : Seq(Nat)]
  BY WordsDiffer DEF Size, PointsOK
<1>2. Swap(x, i, i) = x
  <2> HIDE DEF x
  <2>. QED  BY <1>1 DEF Swap
<1>. QED  BY <1>1, <1>2

LEMMA PassSmallerKeeps ==
  ASSUME PointsOK(ary), NEW from \in Nat, NEW to \in Nat, to <= Size,
         SortingInv(from, to), PassSmaller
  PROVE  Kept(from, to)
<1>1. PICK at, n, a, b, c, d : /\ at = scan.at /\ n = scan.n /\ a = scan.a
                               /\ b = scan.b /\ c = scan.c /\ d = scan.d
  OBVIOUS
<1>2. /\ Scanning /\ b <= c /\ R(b) <= 0 /\ ranges' = ranges
  BY <1>1 DEF PassSmaller
<1>3. /\ at \in Nat /\ n \in Nat /\ a \in Nat /\ b \in Nat /\ c \in Int /\ d \in Int
      /\ scan \in ScanType /\ scan.at + scan.n <= Size /\ at + n <= Size
      /\ 1 <= a /\ a <= b /\ b <= c + 1 /\ c <= d /\ d < n
      /\ \A i \in 0 .. n - 1 : R(i) \in Int
      /\ NulFree => \A i \in 0 .. n - 1 :
           /\ i < a \/ d < i => R(i) = 0
           /\ a <= i /\ i < b => R(i) < 0
           /\ c < i /\ i <= d => R(i) > 0
  BY <1>1, <1>2, ScanFacts
<1>4. a \in 0 .. n - 1 /\ b \in 0 .. n - 1
  BY <1>2, <1>3
<1>5. CASE R(b) = 0
  <2> DEFINE f == Swapped(a, b, n)
  <2>1. /\ ary' = [ary EXCEPT !.array = Swap(ary.array, scan.at + a, scan.at + b)]
        /\ scan' = [scan EXCEPT !.a = a + 1, !.b = b + 1, !.c = c, !.d = d]
    BY <1>1, <1>3, <1>5 DEF PassSmaller, ScanType
  <2>2. ASSUME NulFree, NEW m \in 0 .. n - 1
        PROVE  /\ m < a + 1 \/ d < m => f[m] = 0
               /\ a + 1 <= m /\ m < b + 1 => f[m] < 0
               /\ c < m /\ m <= d => f[m] > 0
    <3>0. f[m] = R(IF m = a THEN b ELSE IF m = b THEN a ELSE m)
      BY DEF Swapped
    <3> HIDE DEF f
    <3>1. CASE m = a
      BY <1>2, <1>3, <1>5, <3>0, <3>1
    <3>2. CASE m = b /\ m # a
      <4>1. R(a) < 0
        BY <1>3, <1>4, <2>2, <3>2
      <4>. QED  BY <1>2, <1>3, <3>0, <3>2, <4>1
    <3>3. CASE m # a /\ m # b
      <4>1. f[m] = R(m)
        BY <3>0, <3>3
      <4>. QED  BY <1>3, <2>2, <3>3, <4>1
    <3>. QED  BY <3>1, <3>2, <3>3
  <2>3. a + 1 <= b + 1 /\ b + 1 <= c + 1 /\ a + 1 \in Nat /\ b + 1 \in Nat /\ 1 <= a + 1
    BY <1>2, <1>3
  <2>4. NulFree => PartedBy(f, n, a + 1, b + 1, c, d)
    BY <2>2 DEF PartedBy
  <2>5. n = scan.n
    BY <1>1
  <2>. QED  BY <1>2, <1>3, <1>4, <2>1, <2>3, <2>4, <2>5, TurnKeeps, ZenonT(60)
<1>6. CASE R(b) # 0
  <2> DEFINE f == Swapped(b, b, n)
  <2>1. /\ ary' = ary
        /\ scan' = [scan EXCEPT !.a = a, !.b = b + 1, !.c = c, !.d = d]
    BY <1>1, <1>3, <1>6 DEF PassSmaller, ScanType
  <2>2. ary' = [ary EXCEPT !.array = Swap(ary.array, scan.at + b, scan.at + b)]
    <3>1. scan.at + b \in Nat /\ scan.at + b < Size
      BY <1>1, <1>3, <1>4, WordsDiffer, SMTT(30)
    <3>. QED  BY <2>1, <3>1, SwapSame
  <2>3. ASSUME NulFree, NEW m \in 0 .. n - 1
        PROVE  /\ m < a \/ d < m => f[m] = 0
               /\ a <= m /\ m < b + 1 => f[m] < 0
               /\ c < m /\ m <= d => f[m] > 0
    <3>0. f[m] = R(m) /\ R(b) < 0
      BY <1>2, <1>3, <1>4, <1>6 DEF Swapped
    <3> HIDE DEF f
    <3>. QED  BY <1>3, <2>3, <3>0
  <2>4. NulFree => PartedBy(f, n, a, b + 1, c, d)
    BY <2>3 DEF PartedBy
  <2>5. a <= b + 1 /\ b + 1 <= c + 1 /\ b + 1 \in Nat
    BY <1>2, <1>3
  <2>6. n = scan.n
    BY <1>1
  <2>. QED  BY <1>2, <1>3, <1>4, <2>1, <2>2, <2>4, <2>5, <2>6, TurnKeeps, ZenonT(60)
<1>. QED  BY <1>5, <1>6

LEMMA PassGreaterKeeps ==
  ASSUME PointsOK(ary), NEW from \in Nat, NEW to \in Nat, to <= Size,
         SortingInv(from, to), PassGreater
  PROVE  Kept(from, to)
<1>1. PICK at, n, a, b, c, d : /\ at = scan.at /\ n = scan.n /\ a = scan.a
                               /\ b = scan.b /\ c = scan.c /\ d = scan.d
  OBVIOUS
<1>2. /\ Scanning /\ b <= c /\ R(b) > 0 /\ R(c) >= 0 /\ ranges' = ranges
  BY <1>1 DEF PassGreater
<1>3. /\ at \in Nat /\ n \in Nat /\ a \in Nat /\ b \in Nat /\ c \in Int /\ d \in Int
      /\ scan \in ScanType /\ scan.at + scan.n <= Size /\ at + n <= Size
      /\ 1 <= a /\ a <= b /\ b <= c + 1 /\ c <= d /\ d < n
      /\ \A i \in 0 .. n - 1 : R(i) \in Int
      /\ NulFree => \A i \in 0 .. n - 1 :
           /\ i < a \/ d < i => R(i) = 0
           /\ a <= i /\ i < b => R(i) < 0
           /\ c < i /\ i <= d => R(i) > 0
  BY <1>1, <1>2, ScanFacts
<1>4. b \in 0 .. n - 1 /\ c \in 0 .. n - 1 /\ d \in 0 .. n - 1 /\ n = scan.n
  BY <1>1, <1>2, <1>3
<1>5. CASE R(c) = 0
  <2> DEFINE f == Swapped(c, d, n)
  <2>0. b # c
    BY <1>2, <1>5
  <2>1. /\ ary' = [ary EXCEPT !.array = Swap(ary.array, scan.at + c, scan.at + d)]
        /\ scan' = [scan EXCEPT !.a = a, !.b = b, !.c = c - 1, !.d = d - 1]
    BY <1>1, <1>3, <1>5 DEF PassGreater, ScanType
  <2>2. ASSUME NulFree, NEW m \in 0 .. n - 1
        PROVE  /\ m < a \/ d - 1 < m => f[m] = 0
               /\ a <= m /\ m < b => f[m] < 0
               /\ c - 1 < m /\ m <= d - 1 => f[m] > 0
    <3>0. f[m] = R(IF m = c THEN d ELSE IF m = d THEN c ELSE m)
      BY DEF Swapped
    <3> HIDE DEF f
    <3>1. CASE m = d
      BY <1>2, <1>3, <1>5, <3>0, <3>1
    <3>2. CASE m = c /\ m # d
      <4>1. R(d) > 0
        BY <1>3, <1>4, <2>2, <3>2
      <4>. QED  BY <1>2, <1>3, <3>0, <3>2, <4>1
    <3>3. CASE m # c /\ m # d
      <4>1. f[m] = R(m)
        BY <3>0, <3>3
      <4>. QED  BY <1>3, <2>2, <3>3, <4>1
    <3>. QED  BY <3>1, <3>2, <3>3
  <2>3. /\ b <= (c - 1) + 1 /\ c - 1 <= d - 1 /\ d - 1 < n /\ c - 1 \in Int /\ d - 1 \in Int
    BY <1>2, <1>3
  <2>4. NulFree => PartedBy(f, n, a, b, c - 1, d - 1)
    BY <2>2 DEF PartedBy
  <2>. QED  BY <1>2, <1>3, <1>4, <2>1, <2>3, <2>4, TurnKeeps, ZenonT(60)
<1>6. CASE R(c) # 0
  <2> DEFINE f == Swapped(c, c, n)
  <2>1. /\ ary' = ary
        /\ scan' = [scan EXCEPT !.a = a, !.b = b, !.c = c - 1, !.d = d]
    BY <1>1, <1>3, <1>6 DEF PassGreater, ScanType
  <2>2. ary' = [ary EXCEPT !.array = Swap(ary.array, scan.at + c, scan.at + c)]
    <3>1. scan.at + c \in Nat /\ scan.at + c < Size
      BY <1>1, <1>3, <1>4, WordsDiffer, SMTT(30)
    <3>. QED  BY <2>1, <3>1, SwapSame
  <2>3. ASSUME NulFree, NEW m \in 0 .. n - 1
        PROVE  /\ m < a \/ d < m => f[m] = 0
               /\ a <= m /\ m < b => f[m] < 0
               /\ c - 1 < m /\ m <= d => f[m] > 0
    <3>0. f[m] = R(m) /\ R(c) > 0
      BY <1>2, <1>3, <1>4, <1>6 DEF Swapped
    <3> HIDE DEF f
    <3>. QED  BY <1>3, <2>3, <3>0
  <2>4. NulFree => PartedBy(f, n, a, b, c - 1, d)
    BY <2>3 DEF PartedBy
  <2>5. /\ b <= (c - 1) + 1 /\ c - 1 <= d /\ c - 1 \in Int
    BY <1>2, <1>3
  <2>6. scan' = [scan EXCEPT !.a = a, !.b = b, !.c = c - 1, !.d = d]
    BY <2>1
  <2>. QED  BY <1>2, <1>3, <1>4, <2>2, <2>4, <2>5, <2>6, TurnKeeps, ZenonT(60)
<1>. QED  BY <1>5, <1>6

LEMMA ExchangeKeeps ==
  ASSUME PointsOK(ary), NEW from \in Nat, NEW to \in Nat, to <= Size,
         SortingInv(from, to), Exchange
  PROVE  Kept(from, to)
<1>1. PICK at, n, a, b, c, d : /\ at = scan.at /\ n = scan.n /\ a = scan.a
                               /\ b = scan.b /\ c = scan.c /\ d = scan.d
  OBVIOUS
<1>2. /\ Scanning /\ b <= c /\ R(b) > 0 /\ R(c) < 0 /\ ranges' = ranges
  BY <1>1 DEF Exchange
<1>3. /\ at \in Nat /\ n \in Nat /\ a \in Nat /\ b \in Nat /\ c \in Int /\ d \in Int
      /\ scan \in ScanType /\ scan.at + scan.n <= Size /\ at + n <= Size
      /\ 1 <= a /\ a <= b /\ b <= c + 1 /\ c <= d /\ d < n
      /\ \A i \in 0 .. n - 1 : R(i) \in Int
      /\ NulFree => \A i \in 0 .. n - 1 :
           /\ i < a \/ d < i => R(i) = 0
           /\ a <= i /\ i < b => R(i) < 0
           /\ c < i /\ i <= d => R(i) > 0
  BY <1>1, <1>2, ScanFacts
<1>4. b \in 0 .. n - 1 /\ c \in 0 .. n - 1 /\ n = scan.n
  BY <1>1, <1>2, <1>3
<1>5. b # c
  BY <1>2, <1>3, <1>4
<1> DEFINE f == Swapped(b, c, n)
<1>6. /\ ary' = [ary EXCEPT !.array = Swap(ary.array, scan.at + b, scan.at + c)]
      /\ scan' = [scan EXCEPT !.a = a, !.b = b + 1, !.c = c - 1, !.d = d]
  BY <1>1, <1>3 DEF Exchange, ScanType
<1>7. ASSUME NulFree, NEW m \in 0 .. n - 1
      PROVE  /\ m < a \/ d < m => f[m] = 0
             /\ a <= m /\ m < b + 1 => f[m] < 0
             /\ c - 1 < m /\ m <= d => f[m] > 0
  <2>0. f[m] = R(IF m = b THEN c ELSE IF m = c THEN b ELSE m)
    BY DEF Swapped
  <2> HIDE DEF f
  <2>1. CASE m = b
    BY <1>2, <1>3, <1>5, <2>0, <2>1
  <2>2. CASE m = c
    BY <1>2, <1>3, <1>5, <2>0, <2>2
  <2>3. CASE m # b /\ m # c
    <3>1. f[m] = R(m)
      BY <2>0, <2>3
    <3>. QED  BY <1>3, <1>7, <2>3, <3>1
  <2>. QED  BY <2>1, <2>2, <2>3
<1>8. /\ a <= b + 1 /\ b + 1 <= (c - 1) + 1 /\ c - 1 <= d /\ b + 1 \in Nat /\ c - 1 \in Int
  BY <1>2, <1>3, <1>5
<1>9. NulFree => PartedBy(f, n, a, b + 1, c - 1, d)
  BY <1>7 DEF PartedBy
<1>. QED  BY <1>2, <1>3, <1>4, <1>6, <1>8, <1>9, TurnKeeps

-----------------------------------------------------------------------------
(* The call taken from the stack, and those that stay.                     *)
LEMMA HeadCalls ==
  ASSUME NEW from \in Nat, NEW to \in Nat, CallsWithin(from, to),
         ~ Scanning, ranges # <<>>, NEW r, r = ranges[1]
  PROVE  /\ r \in CallType /\ r.at \in Nat /\ r.n \in Nat /\ r.depth \in Nat
         /\ from <= r.at /\ r.at + r.n <= to
         /\ Callers = ToSet(Tail(ranges)) \union {r}
         /\ Tail(ranges) \in Seq(CallType)
         /\ \A x \in DOMAIN Tail(ranges) :
              Within(Tail(ranges)[x], from, to) /\ Apart(r, Tail(ranges)[x])
         /\ \A x, y \in DOMAIN Tail(ranges) :
              x # y => Apart(Tail(ranges)[x], Tail(ranges)[y])
         /\ \A i \in Int : Holds(r, i) <=> i \in r.at .. r.at + r.n - 1
         /\ \A i \in r.at .. r.at + r.n - 1, s \in ToSet(Tail(ranges)) : ~ Holds(s, i)
<1>1. /\ ranges \in Seq(CallType)
      /\ \A x \in DOMAIN ranges : Within(ranges[x], from, to)
      /\ \A x, y \in DOMAIN ranges : x # y => Apart(ranges[x], ranges[y])
  BY DEF CallsWithin
<1>2. r \in CallType /\ 1 \in DOMAIN ranges
  BY <1>1
<1>3. r.at \in Nat /\ r.n \in Nat /\ r.depth \in Nat
  BY <1>2 DEF CallType
<1>4. from <= r.at /\ r.at + r.n <= to
  BY <1>1, <1>2 DEF Within
<1> DEFINE t == Tail(ranges)
<1>5. /\ t \in Seq(CallType)
      /\ \A x \in DOMAIN t : x + 1 \in DOMAIN ranges /\ t[x] = ranges[x + 1] /\ x + 1 # 1
      /\ \A x \in DOMAIN ranges : x = 1 \/ (x - 1 \in DOMAIN t /\ ranges[x] = t[x - 1])
      /\ \A x, y \in DOMAIN t : x # y => x + 1 # y + 1
  BY <1>1
<1> HIDE DEF t
<1>6. \A x \in DOMAIN t : Within(t[x], from, to) /\ Apart(r, t[x])
  BY <1>1, <1>2, <1>5
<1>7. \A x, y \in DOMAIN t : x # y => Apart(t[x], t[y])
  <2> SUFFICES ASSUME NEW x \in DOMAIN t, NEW y \in DOMAIN t, x # y
               PROVE  Apart(t[x], t[y])
    OBVIOUS
  <2>1. Apart(ranges[x + 1], ranges[y + 1])
    BY <1>1, <1>5
  <2>. QED  BY <1>5, <2>1
<1>8. Callers = ToSet(t) \union {r}
  <2>1. Callers = ToSet(ranges)
    BY DEF Callers
  <2>2. ToSet(ranges) = ToSet(t) \union {r}
    BY <1>2, <1>5 DEF ToSet
  <2>. QED  BY <2>1, <2>2
<1>9. \A i \in Int : Holds(r, i) <=> i \in r.at .. r.at + r.n - 1
  BY DEF Holds
<1>10. ASSUME NEW i \in r.at .. r.at + r.n - 1, NEW s \in ToSet(t)
       PROVE  ~ Holds(s, i)
  <2>1. PICK m \in DOMAIN t : s = t[m]
    BY DEF ToSet
  <2>2. Apart(r, s)
    BY <1>6, <2>1
  <2>3. s \in CallType
    BY <1>5, <2>1
  <2>4. s.at \in Nat /\ s.n \in Nat
    BY <2>3 DEF CallType
  <2>. QED  BY <1>3, <2>2, <2>4, ApartHolds
<1>. QED  BY <1>2, <1>3, <1>4, <1>5, <1>6, <1>7, <1>8, <1>9, <1>10 DEF t

LEMMA PickPivotKeeps ==
  ASSUME PointsOK(ary), NEW from \in Nat, NEW to \in Nat, from <= to, to <= Size,
         SortingInv(from, to), PickPivot
  PROVE  Kept(from, to)
<1> DEFINE T == ToSet(Tail(ranges))
<1>1. /\ CallsWithin(from, to) /\ PointersInv /\ RangesApart(from, to)
      /\ ~ Scanning /\ ranges # <<>> /\ ranges' = Tail(ranges)
  BY DEF PickPivot, SortingInv
<1>0. PICK r, at, n, depth : r = ranges[1] /\ at = r.at /\ n = r.n /\ depth = r.depth
  OBVIOUS
<1>2. PICK p \in 0 .. n - 1 :
        /\ n > CutOff
        /\ ary' = [ary EXCEPT !.array = Swap(ary.array, at, at + p)]
        /\ scan' = [at |-> at, n |-> n, depth |-> depth,
                    v |-> SistringChar(ary', at, depth),
                    a |-> 1, b |-> 1, c |-> n - 1, d |-> n - 1]
  BY <1>0 DEF PickPivot
<1>3. /\ r \in CallType /\ r.at \in Nat /\ r.n \in Nat /\ r.depth \in Nat
      /\ from <= r.at /\ r.at + r.n <= to
      /\ Callers = T \union {r} /\ Tail(ranges) \in Seq(CallType)
      /\ \A x \in DOMAIN Tail(ranges) :
           Within(Tail(ranges)[x], from, to) /\ Apart(r, Tail(ranges)[x])
      /\ \A x, y \in DOMAIN Tail(ranges) :
           x # y => Apart(Tail(ranges)[x], Tail(ranges)[y])
      /\ \A i \in Int : Holds(r, i) <=> i \in r.at .. r.at + r.n - 1
      /\ \A i \in r.at .. r.at + r.n - 1, s \in ToSet(Tail(ranges)) : ~ Holds(s, i)
  BY <1>1, <1>0, <1>2, HeadCalls
<1>4. ary.array \in Seq(Nat) /\ Size \in Nat /\ Size = Len(ary.array) /\ Distinct(ary.array)
  BY WordsDiffer DEF Size
<1>5. /\ at \in Nat /\ n \in Nat \ {0} /\ depth \in Nat
      /\ from <= at /\ at + n <= to /\ at + n <= Size
  <2>1. /\ at \in Nat /\ n \in Nat \ {0} /\ depth \in Nat
        /\ from <= at /\ at + n <= to
    BY <1>0, <1>2, <1>3, CutOffAssumption
  <2>. QED  BY <1>4, <2>1
<1> DEFINE y == Swap(ary.array, at, at + p)
<1>6. Moved(ary.array, y, at, n)
  <2>1. at \in at .. at + n - 1 /\ at + p \in at .. at + n - 1
    BY <1>0, <1>2, <1>5
  <2>. QED  BY <1>4, <1>5, <2>1, SwapMoves
<1> HIDE DEF y
<1>7. ary' = [ary EXCEPT !.array = y]
  BY <1>0, <1>2 DEF y
<1>8. ary'.array = y /\ ary'.text = ary.text /\ PointsOK(ary') /\ Size' = Size
  BY <1>5, <1>6, <1>7, MovedPoints
<1>9. SistringChar(ary', at, depth) \in Nat
  <2>1. SistringChar(ary', at, depth) = Char(ary', y[at + 1] + depth)
    BY <1>8 DEF SistringChar, AryIdx2TxtIdx
  <2>2. at + 1 \in 1 .. Size
    BY <1>4, <1>5
  <2>3. y \in Seq(Nat) /\ Len(y) = Size
    BY <1>4, <1>6 DEF Moved
  <2>4. y[at + 1] \in Nat
    BY <2>2, <2>3
  <2>5. Char(ary', y[at + 1] + depth) \in Nat
    BY <1>5, <1>8, <2>4, SymbolIsChar
  <2>. QED  BY <2>1, <2>5
<1>10. /\ scan' \in ScanType /\ scan'.at = at /\ scan'.n = n /\ scan'.depth = depth
       /\ scan'.v = SistringChar(ary', at, depth)
       /\ scan'.a = 1 /\ scan'.b = 1 /\ scan'.c = n - 1 /\ scan'.d = n - 1
  BY <1>0, <1>2, <1>3, <1>5, <1>9 DEF ScanType
<1>11. Scanning' /\ Callers' = T \union {scan'}
  BY <1>1, <1>5, <1>10 DEF Scanning, Callers
<1>12. PointersInv'
  BY <1>5, <1>10 DEF PointersInv
<1>13. CallsWithin(from, to)'
  <2>1. \A m \in DOMAIN Tail(ranges) : Apart(scan', Tail(ranges)[m])
    BY <1>0, <1>2, <1>3, <1>10 DEF Apart
  <2>2. Within(scan', from, to)
    BY <1>5, <1>10 DEF Within
  <2>. QED  BY <1>1, <1>3, <1>10, <2>1, <2>2 DEF CallsWithin
<1>14. Parted'
  <2>1. R(0)' = 0
    <3>1. R(0)' = SistringChar(ary', at, depth) - SistringChar(ary', at, depth)
      BY <1>5, <1>10 DEF R
    <3>. QED  BY <1>9, <3>1
  <2>2. ASSUME NEW i \in 0 .. n - 1
        PROVE  /\ i < 1 \/ n - 1 < i => R(i)' = 0
               /\ ~ (1 <= i /\ i < 1) /\ ~ (n - 1 < i /\ i <= n - 1)
    <3>1. i < 1 \/ n - 1 < i => i = 0
      BY <1>5
    <3>2. ~ (1 <= i /\ i < 1) /\ ~ (n - 1 < i /\ i <= n - 1)
      BY <1>5
    <3>. QED  BY <2>1, <3>1, <3>2
  <2>. QED  BY <1>10, <2>2 DEF Parted
<1>15. ASSUME NulFree'
       PROVE  ArrayApart(from, to)'
  <2>1. NulFree
    BY <1>8, <1>15, SameText
  <2>2. /\ Ordered(ary, ary.array, T \union {r}, from, to)
        /\ Agreeing(ary, ary.array, T \union {r}, from, to)
    BY <1>1, <1>3, <2>1, RangesApartForm DEF ArrayApart
  <2>3. /\ \A i \in Int : Holds(r, i) <=> i \in at .. at + n - 1
        /\ \A i \in at .. at + n - 1, s \in T : ~ Holds(s, i)
    BY <1>0, <1>2, <1>3
  <2>4. Ordered(ary, y, T \union {r}, from, to)
    BY <1>4, <1>5, <1>6, <2>2, <2>3, OrderedMoved
  <2>5. Agreeing(ary, y, T \union {r}, from, to)
    BY <1>4, <1>5, <1>6, <2>2, <2>3, AgreeingMoved
  <2>6. /\ Ordered(ary, y, T \union {scan'}, from, to)
        /\ Agreeing(ary, y, T \union {scan'}, from, to)
    <3>1. r.at = scan'.at /\ r.n = scan'.n /\ r.depth = scan'.depth
      BY <1>0, <1>2, <1>10
    <3>. QED  BY <2>4, <2>5, <3>1, HolderReplaced
  <2>7. /\ Ordered(ary', y, T \union {scan'}, from, to)
        /\ Agreeing(ary', y, T \union {scan'}, from, to)
    BY <1>8, <2>6, SameText
  <2>. QED  BY <1>8, <1>11, <1>14, <2>7 DEF ArrayApart
<1>16. RangesApart(from, to)'
  BY <1>12, <1>15, RangesApartFormPrime
<1>17. Moved(ary.array, y, from, to - from)
  <2>1. to - from \in Nat /\ from + (to - from) = to
    BY <1>5
  <2>. QED  BY <1>4, <1>5, <1>6, <2>1, MovedWider
<1>. QED  BY <1>8, <1>12, <1>13, <1>16, <1>17 DEF SortingInv, Kept

(* The calls S take the place of c.                                        *)
LEMMA OrderedParts ==
  ASSUME NEW A, NEW x, NEW T, NEW c, NEW S, NEW from \in Nat, NEW to \in Nat,
         NEW at \in Nat, NEW n \in Nat,
         \A i \in Int : Holds(c, i) <=> i \in at .. at + n - 1,
         Ordered(A, x, T \union {c}, from, to),
         \A i, j \in at .. at + n - 1 :
           i < j /\ ~ Together(S, i, j) => SuffixLess(A, x[i + 1], x[j + 1])
  PROVE  Ordered(A, x, S \union T, from, to)
<1> SUFFICES ASSUME NEW i \in from .. to - 1, NEW j \in from .. to - 1,
                    i < j, ~ Together(S \union T, i, j)
             PROVE  SuffixLess(A, x[i + 1], x[j + 1])
  BY DEF Ordered
<1>1. ~ Together(S, i, j) /\ ~ Together(T, i, j)
  BY DEF Together
<1>2. CASE i \in at .. at + n - 1 /\ j \in at .. at + n - 1
  BY <1>1, <1>2
<1>3. CASE ~ (i \in at .. at + n - 1 /\ j \in at .. at + n - 1)
  <2>1. ~ (Holds(c, i) /\ Holds(c, j))
    BY <1>3
  <2>2. ~ Together(T \union {c}, i, j)
    BY <1>1, <2>1 DEF Together
  <2>. QED  BY <2>2 DEF Ordered
<1>. QED  BY <1>2, <1>3

LEMMA QsortRangeKeeps ==
  ASSUME PointsOK(ary), NEW from \in Nat, NEW to \in Nat, from <= to, to <= Size,
         SortingInv(from, to), QsortRange
  PROVE  Kept(from, to)
<1> DEFINE T == ToSet(Tail(ranges))
<1>1. /\ CallsWithin(from, to) /\ PointersInv /\ RangesApart(from, to)
      /\ ~ Scanning /\ ranges # <<>> /\ ranges' = Tail(ranges) /\ scan' = scan
  BY DEF QsortRange, SortingInv
<1>2. PICK r, at, n : r = ranges[1] /\ at = r.at /\ n = r.n
  OBVIOUS
<1> DEFINE y == SortRange(at, at + n)
<1>3. /\ r \in CallType /\ r.at \in Nat /\ r.n \in Nat /\ r.depth \in Nat
      /\ from <= r.at /\ r.at + r.n <= to
      /\ Callers = T \union {r} /\ Tail(ranges) \in Seq(CallType)
      /\ \A x \in DOMAIN Tail(ranges) :
           Within(Tail(ranges)[x], from, to) /\ Apart(r, Tail(ranges)[x])
      /\ \A x, z \in DOMAIN Tail(ranges) :
           x # z => Apart(Tail(ranges)[x], Tail(ranges)[z])
      /\ \A i \in Int : Holds(r, i) <=> i \in r.at .. r.at + r.n - 1
      /\ \A i \in r.at .. r.at + r.n - 1, s \in ToSet(Tail(ranges)) : ~ Holds(s, i)
  BY <1>1, <1>2, HeadCalls
<1>4. ary.array \in Seq(Nat) /\ Size \in Nat /\ Size = Len(ary.array) /\ Distinct(ary.array)
  BY WordsDiffer DEF Size
<1>5. at \in Nat /\ n \in Nat /\ from <= at /\ at + n <= to /\ at + n <= Size
  <2>1. at \in Nat /\ n \in Nat /\ from <= at /\ at + n <= to
    BY <1>2, <1>3
  <2>. QED  BY <1>4, <2>1
<1>6. /\ Moved(ary.array, y, at, n)
      /\ \A i, j \in at .. at + n - 1 : i < j => SuffixLess(ary, y[i + 1], y[j + 1])
  BY <1>5, SortRangeSorts
<1>7. ary' = [ary EXCEPT !.array = y]
  BY <1>2 DEF QsortRange
<1> HIDE DEF y
<1>8. ary'.array = y /\ ary'.text = ary.text /\ PointsOK(ary') /\ Size' = Size
  BY <1>5, <1>6, <1>7, MovedPoints
<1>9. ~ Scanning' /\ Callers' = {} \union T
  BY <1>1 DEF Scanning, Callers
<1>10. PointersInv'
  BY <1>9 DEF PointersInv
<1>11. CallsWithin(from, to)'
  <2>1. scan' \in ScanType
    BY <1>1 DEF CallsWithin
  <2>. QED  BY <1>1, <1>3, <1>9, <2>1 DEF CallsWithin
<1>12. ASSUME NulFree'
       PROVE  ArrayApart(from, to)'
  <2>1. NulFree
    BY <1>8, <1>12, SameText
  <2>2. /\ Ordered(ary, ary.array, T \union {r}, from, to)
        /\ Agreeing(ary, ary.array, T \union {r}, from, to)
    BY <1>1, <1>3, <2>1, RangesApartForm DEF ArrayApart
  <2>3. /\ \A i \in Int : Holds(r, i) <=> i \in at .. at + n - 1
        /\ \A i \in at .. at + n - 1, s \in T : ~ Holds(s, i)
    BY <1>2, <1>3
  <2>4. Ordered(ary, y, T \union {r}, from, to)
    BY <1>4, <1>5, <1>6, <2>2, <2>3, OrderedMoved
  <2>5. Agreeing(ary, y, T \union {r}, from, to)
    BY <1>4, <1>5, <1>6, <2>2, <2>3, AgreeingMoved
  <2>6. Ordered(ary, y, {} \union T, from, to)
    BY <1>5, <1>6, <2>3, <2>4, OrderedParts
  <2>7. Agreeing(ary, y, {} \union T, from, to)
    BY <2>5 DEF Agreeing
  <2>8. /\ Ordered(ary', y, {} \union T, from, to)
        /\ Agreeing(ary', y, {} \union T, from, to)
    BY <1>8, <2>6, <2>7, SameText
  <2>. QED  BY <1>8, <1>9, <2>8 DEF ArrayApart
<1>13. RangesApart(from, to)'
  BY <1>10, <1>12, RangesApartFormPrime
<1>14. Moved(ary.array, y, from, to - from)
  <2>1. to - from \in Nat /\ from + (to - from) = to
    BY <1>5
  <2>. QED  BY <1>4, <1>5, <1>6, <2>1, MovedWider
<1>. QED  BY <1>8, <1>10, <1>11, <1>13, <1>14 DEF SortingInv, Kept

-----------------------------------------------------------------------------
(* Where the words of the range stand after the two swaps of Split have    *)
(* brought the equal ones of both ends to the middle.                      *)
MinOf(i, j) == IF i <= j THEN i ELSE j

LEMMA MinOfTwo ==
  ASSUME NEW i \in Int, NEW j \in Int
  PROVE  Min({i, j}) = MinOf(i, j) /\ MinOf(i, j) \in {i, j}
         /\ MinOf(i, j) <= i /\ MinOf(i, j) <= j
<1>1. Min({i, j}) = CHOOSE x \in {i, j} : \A y \in {i, j} : x <= y
  BY DEF Min
<1>2. \E x \in {i, j} : \A y \in {i, j} : x <= y
  <2>1. CASE i <= j
    BY <2>1
  <2>2. CASE j <= i
    BY <2>2
  <2>. QED  BY <2>1, <2>2
<1>3. PICK m : m = Min({i, j})
  OBVIOUS
<1>4. m \in {i, j} /\ \A y \in {i, j} : m <= y
  BY <1>1, <1>2, <1>3
<1>5. m \in Int /\ m <= i /\ m <= j /\ (m = i \/ m = j)
  BY <1>4
<1>6. m = MinOf(i, j)
  BY <1>5 DEF MinOf
<1>. QED  BY <1>3, <1>5, <1>6

Exchanged(m, i, j, l) ==
  IF m \in i .. i + l - 1 THEN m - i + j
  ELSE IF m \in j .. j + l - 1 THEN m - j + i ELSE m

(* The word m of a range, which is one of n.                               *)
Word(x, at, m) == x[at + m + 1]

OneOf(n, m) == m \in 0 .. n - 1

(* The place the word m of the range had before the swaps.                 *)
Place(m, n, b, left, right) ==
  Exchanged(Exchanged(m, b, n - right, right), 0, b - left, left)

Parts(f, n, a, b, d, left, right) ==
  /\ n \in Nat /\ a \in Nat /\ b \in Nat /\ d \in Nat
  /\ 1 <= a /\ a <= b /\ b <= d + 1 /\ d < n
  /\ \A m \in 0 .. n - 1 : /\ m < a \/ d < m => f[m] = 0
                           /\ a <= m /\ m < b => f[m] < 0
                           /\ b <= m /\ m <= d => f[m] > 0
  /\ left = MinOf(a, b - a) /\ right = MinOf(d - b + 1, n - d - 1)

LEMMA SplitPlaces ==
  ASSUME NEW f, NEW n, NEW a, NEW b, NEW d, NEW left, NEW right,
         Parts(f, n, a, b, d, left, right),
         NEW m, OneOf(n, m), NEW p, p = Place(m, n, b, left, right)
  PROVE  /\ OneOf(n, p)
         /\ m < b - a => f[p] < 0
         /\ b - a <= m /\ m < n - (d - b + 1) => f[p] = 0
         /\ n - (d - b + 1) <= m => f[p] > 0
<1>0. /\ n \in Nat /\ a \in Nat /\ b \in Nat /\ d \in Nat
      /\ 1 <= a /\ a <= b /\ b <= d + 1 /\ d < n
      /\ \A i \in 0 .. n - 1 : /\ i < a \/ d < i => f[i] = 0
                               /\ a <= i /\ i < b => f[i] < 0
                               /\ b <= i /\ i <= d => f[i] > 0
      /\ left = MinOf(a, b - a) /\ right = MinOf(d - b + 1, n - d - 1)
      /\ m \in 0 .. n - 1
  BY DEF Parts, OneOf
<1> SUFFICES /\ p \in 0 .. n - 1
             /\ m < b - a => f[p] < 0
             /\ b - a <= m /\ m < n - (d - b + 1) => f[p] = 0
             /\ n - (d - b + 1) <= m => f[p] > 0
  BY DEF OneOf
<1>1. /\ left \in Nat /\ left <= a /\ left <= b - a /\ (left = a \/ left = b - a)
      /\ right \in Nat /\ right <= d - b + 1 /\ right <= n - d - 1
      /\ (right = d - b + 1 \/ right = n - d - 1)
  BY <1>0 DEF MinOf
<1>2. PICK q : q = Exchanged(m, b, n - right, right)
  OBVIOUS
<1>3. CASE m < b
  <2>1. q = m
    BY <1>0, <1>1, <1>2, <1>3 DEF Exchanged, Place
  <2>2. p = IF m < left THEN m + (b - left)
            ELSE IF b - left <= m THEN m - (b - left) ELSE m
    BY <1>0, <1>1, <1>2, <1>3, <2>1 DEF Exchanged, Place
  <2>3. p \in 0 .. n - 1 /\ p < b
    BY <1>0, <1>1, <1>3, <2>2
  <2>4. ASSUME m < b - a PROVE a <= p
    BY <1>0, <1>1, <1>3, <2>2, <2>4
  <2>5. ASSUME b - a <= m PROVE p < a
    BY <1>0, <1>1, <1>3, <2>2, <2>5
  <2>. QED  BY <1>0, <1>3, <2>3, <2>4, <2>5
<1>4. CASE b <= m
  <2>1. q = IF m < b + right THEN m - b + (n - right)
            ELSE IF n - right <= m THEN m - (n - right) + b ELSE m
    BY <1>0, <1>1, <1>2, <1>4 DEF Exchanged, Place
  <2>2. q \in b .. n - 1
    BY <1>0, <1>1, <1>4, <2>1
  <2>3. p = q
    BY <1>0, <1>1, <1>2, <2>2 DEF Exchanged, Place
  <2>4. ASSUME m < n - (d - b + 1) PROVE d < p
    BY <1>0, <1>1, <1>4, <2>1, <2>3, <2>4
  <2>5. ASSUME n - (d - b + 1) <= m PROVE p <= d
    BY <1>0, <1>1, <1>4, <2>1, <2>3, <2>5
  <2>. QED  BY <1>0, <1>4, <2>2, <2>3, <2>4, <2>5
<1>. QED  BY <1>0, <1>3, <1>4

(* The words p and q of the array are i and j of the range at at.          *)
Vectors(x, at, n, i, j, l, p, q) ==
  /\ x \in Seq(Nat) /\ at \in Nat /\ n \in Nat /\ i \in Nat /\ j \in Nat /\ l \in Nat
  /\ p \in Nat /\ q \in Nat /\ p = at + i /\ q = at + j
  /\ at + n <= Len(x) /\ i + l <= j /\ j + l <= n

LEMMA SwapVectorPlaces ==
  ASSUME NEW x, NEW at, NEW n, NEW i, NEW j, NEW l, NEW p, NEW q,
         Vectors(x, at, n, i, j, l, p, q), NEW m, OneOf(n, m)
  PROVE  /\ OneOf(n, Exchanged(m, i, j, l))
         /\ Word(SwapVector(x, p, q, l), at, m) = Word(x, at, Exchanged(m, i, j, l))
<1> DEFINE y == SwapVector(x, p, q, l)
<1> PICK e : e = Exchanged(m, i, j, l)
  OBVIOUS
<1> SUFFICES e \in 0 .. n - 1 /\ y[at + m + 1] = x[at + e + 1]
  BY DEF Word, OneOf
<1>0. /\ x \in Seq(Nat) /\ at \in Nat /\ n \in Nat /\ i \in Nat /\ j \in Nat /\ l \in Nat
      /\ p \in Nat /\ q \in Nat /\ p = at + i /\ q = at + j
      /\ at + n <= Len(x) /\ i + l <= j /\ j + l <= n /\ m \in 0 .. n - 1
  BY DEF Vectors, OneOf
<1> DEFINE N == Len(x)
<1>1. N \in Nat
  BY <1>0
<1>2. ASSUME NEW u \in 1 .. N
      PROVE  /\ u - 1 \in p .. p + l - 1 => y[u] = x[u - p + q]
             /\ u - 1 \in q .. q + l - 1 => y[u] = x[u - q + p]
             /\ u - 1 \notin p .. p + l - 1 /\ u - 1 \notin q .. q + l - 1 => y[u] = x[u]
  <2>1. y[u] = CASE u - 1 \in p .. p + l - 1 -> x[u - p + q]
                 [] u - 1 \in q .. q + l - 1 -> x[u - q + p]
                 [] OTHER -> x[u]
    BY DEF SwapVector
  <2>2. p + l <= q
    BY <1>0
  <2>3. ~ (u - 1 \in p .. p + l - 1 /\ u - 1 \in q .. q + l - 1)
    BY <1>0, <1>1, <2>2
  <2> HIDE DEF y, N
  <2>. QED  BY <2>1, <2>3
<1> HIDE DEF N, y
<1>3. at + m + 1 \in 1 .. N
  BY <1>0, <1>1 DEF N
<1>4. /\ m \in i .. i + l - 1 => e = m - i + j
      /\ m \notin i .. i + l - 1 /\ m \in j .. j + l - 1 => e = m - j + i
      /\ m \notin i .. i + l - 1 /\ m \notin j .. j + l - 1 => e = m
  BY DEF Exchanged
<1>5. e \in 0 .. n - 1
  <2>1. CASE m \in i .. i + l - 1
    BY <1>0, <1>4, <2>1
  <2>2. CASE m \notin i .. i + l - 1 /\ m \in j .. j + l - 1
    BY <1>0, <1>4, <2>2
  <2>3. CASE m \notin i .. i + l - 1 /\ m \notin j .. j + l - 1
    BY <1>0, <1>4, <2>3
  <2>. QED  BY <2>1, <2>2, <2>3
<1>6. PICK u : u = at + m + 1
  OBVIOUS
<1>7. CASE m \in i .. i + l - 1
  <2>1. u - 1 \in p .. p + l - 1 /\ u - p + q = at + e + 1
    BY <1>0, <1>4, <1>6, <1>7
  <2>2. y[u] = x[u - p + q]
    BY <1>2, <1>3, <1>6, <2>1
  <2>. QED  BY <1>5, <1>6, <2>1, <2>2
<1>8. CASE m \notin i .. i + l - 1 /\ m \in j .. j + l - 1
  <2>1. u - 1 \notin p .. p + l - 1 /\ u - 1 \in q .. q + l - 1 /\ u - q + p = at + e + 1
    BY <1>0, <1>4, <1>6, <1>8
  <2>2. y[u] = x[u - q + p]
    BY <1>2, <1>3, <1>6, <2>1
  <2>. QED  BY <1>5, <1>6, <2>1, <2>2
<1>9. CASE m \notin i .. i + l - 1 /\ m \notin j .. j + l - 1
  <2>1. u - 1 \notin p .. p + l - 1 /\ u - 1 \notin q .. q + l - 1 /\ u = at + e + 1
    BY <1>0, <1>4, <1>6, <1>9
  <2>2. y[u] = x[u]
    BY <1>2, <1>3, <1>6, <2>1
  <2>. QED  BY <1>5, <1>6, <2>1, <2>2
<1>. QED  BY <1>7, <1>8, <1>9

Joined(x, at, n, b, left, right) ==
  SwapVector(SwapVector(x, at, at + b - left, left), at + b, at + n - right, right)

Joins(x, at, n, b, left, right) ==
  /\ x \in Seq(Nat) /\ Distinct(x) /\ at \in Nat /\ n \in Nat /\ at + n <= Len(x)
  /\ b \in Nat /\ left \in Nat /\ right \in Nat
  /\ left <= b - left /\ b + right <= n - right

LEMMA SplitMoves ==
  ASSUME NEW x, NEW at, NEW n, NEW b, NEW left, NEW right,
         Joins(x, at, n, b, left, right),
         NEW y, y = Joined(x, at, n, b, left, right)
  PROVE  /\ Moved(x, y, at, n)
         /\ \A m : OneOf(n, m) => Word(y, at, m) = Word(x, at, Place(m, n, b, left, right))
<1>0. /\ x \in Seq(Nat) /\ Distinct(x) /\ at \in Nat /\ n \in Nat /\ at + n <= Len(x)
      /\ b \in Nat /\ left \in Nat /\ right \in Nat
      /\ left <= b - left /\ b + right <= n - right
  BY DEF Joins
<1> PICK front : front = SwapVector(x, at, at + b - left, left)
  OBVIOUS
<1>00. y = SwapVector(front, at + b, at + n - right, right)
  BY DEF Joined
<1>1. /\ b - left \in Nat /\ n - right \in Nat /\ b <= n
      /\ at + b - left = at + (b - left) /\ at + n - right = at + (n - right)
      /\ at + 0 = at /\ 0 \in Nat
  BY <1>0
<1>2. Moved(x, front, at, n)
  <2>1. /\ at + b - left \in Nat /\ at <= at /\ at + left <= at + b - left
        /\ at + b - left + left <= at + n
    BY <1>0, <1>1
  <2>. QED  BY <1>0, <2>1, SwapVectorMoves
<1>3. front \in Seq(Nat) /\ Len(front) = Len(x) /\ Distinct(front)
  BY <1>0, <1>2 DEF Moved
<1>4. Moved(front, y, at, n)
  <2>1. /\ at + b \in Nat /\ at + n - right \in Nat /\ at <= at + b
        /\ at + b + right <= at + n - right /\ at + n - right + right <= at + n
    BY <1>0, <1>1
  <2>. QED  BY <1>0, <1>00, <1>3, <2>1, SwapVectorMoves
<1>5. Moved(x, y, at, n)
  BY <1>0, <1>2, <1>4, MovedTwice
<1>6. ASSUME NEW m, OneOf(n, m)
      PROVE  Word(y, at, m) = Word(x, at, Place(m, n, b, left, right))
  <2>1. PICK i, j : i = b - left /\ j = n - right
    OBVIOUS
  <2>2. PICK q, e : q = Exchanged(m, b, j, right) /\ e = Exchanged(q, 0, i, left)
    OBVIOUS
  <2>3. PICK p \in Nat, r \in Nat : p = at + b - left /\ r = at + n - right
    BY <1>0, <1>1
  <2>4. PICK o \in Nat : o = at + b
    BY <1>0
  <2>5. /\ i \in Nat /\ 0 + left <= i /\ i + left <= n /\ p = at + i
        /\ j \in Nat /\ j + right <= n /\ b + right <= j /\ r = at + j
    BY <1>0, <1>1, <2>1, <2>3
  <2>6. OneOf(n, q) /\ Word(y, at, m) = Word(front, at, q)
    <3>1. at + n <= Len(front) /\ y = SwapVector(front, o, r, right)
      BY <1>0, <1>00, <1>3, <2>3, <2>4
    <3>2. Vectors(front, at, n, b, j, right, o, r) 
      BY <1>0, <1>3, <2>4, <2>5, <3>1 DEF Vectors
    <3>. QED  BY <1>6, <2>2, <3>1, <3>2, SwapVectorPlaces
  <2>7. Word(front, at, q) = Word(x, at, e)
    <3>1. front = SwapVector(x, at, p, left)
      BY <2>3
    <3>2. Vectors(x, at, n, 0, i, left, at, p)
      BY <1>0, <1>1, <2>5 DEF Vectors
    <3>. QED  BY <2>2, <2>6, <3>1, <3>2, SwapVectorPlaces
  <2>. QED  BY <2>1, <2>2, <2>6, <2>7 DEF Place
<1>. QED  BY <1>5, <1>6

(* The byte by which the range is split, of the word m of it.              *)
Key(x, m) == Char(ary, Word(x, scan.at, m) + scan.depth)

PointersAre(at, n, a, b, c, d) ==
  at = scan.at /\ n = scan.n /\ a = scan.a /\ b = scan.b /\ c = scan.c /\ d = scan.d

Splits(at, n, a, b, d, less, greater, left, right, y) ==
  /\ at \in Nat /\ n \in Nat /\ a \in Nat /\ b \in Nat /\ d \in Nat
  /\ PointersAre(at, n, a, b, b - 1, d)
  /\ less = b - a /\ greater = d - b + 1 /\ left \in Nat /\ right \in Nat
  /\ left = MinOf(a, b - a) /\ right = MinOf(d - b + 1, n - d - 1)
  /\ y = Joined(ary.array, at, n, b, left, right)

KeysSplit(y, n, less, greater) ==
  \A m \in 0 .. n - 1 :
    /\ Key(y, m) \in Nat
    /\ NulFree => /\ m < less => Key(y, m) < scan.v
                  /\ less <= m /\ m < n - greater => Key(y, m) = scan.v
                  /\ n - greater <= m => Key(y, m) > scan.v

LEMMA SplitKeys ==
  ASSUME PointsOK(ary), NEW from \in Nat, NEW to \in Nat, to <= Size,
         SortingInv(from, to), Scanning,
         NEW at, NEW n, NEW a, NEW b, NEW d, NEW less, NEW greater, NEW left, NEW right,
         NEW y, Splits(at, n, a, b, d, less, greater, left, right, y)
  PROVE  Moved(ary.array, y, at, n) /\ KeysSplit(y, n, less, greater)
<1>0. /\ at \in Nat /\ n \in Nat /\ a \in Nat /\ b \in Nat /\ d \in Nat
      /\ PointersAre(at, n, a, b, b - 1, d)
      /\ less = b - a /\ greater = d - b + 1 /\ left \in Nat /\ right \in Nat
      /\ left = MinOf(a, b - a) /\ right = MinOf(d - b + 1, n - d - 1)
      /\ y = Joined(ary.array, at, n, b, left, right)
  BY DEF Splits
<1> DEFINE x == ary.array
<1>1. PICK c \in Int : c = b - 1
  BY <1>0
<1>2. /\ scan \in ScanType /\ at + n <= Size
      /\ 1 <= a /\ a <= b /\ b <= d + 1 /\ d < n
      /\ NulFree => \A i \in 0 .. n - 1 :
           /\ i < a \/ d < i => R(i) = 0
           /\ a <= i /\ i < b => R(i) < 0
           /\ c < i /\ i <= d => R(i) > 0
  <2>1. /\ at = scan.at /\ n = scan.n /\ a = scan.a
        /\ b = scan.b /\ c = scan.c /\ d = scan.d
    BY <1>0, <1>1 DEF PointersAre
  <2>2. /\ scan \in ScanType /\ at + n <= Size
        /\ 1 <= a /\ a <= b /\ b <= c + 1 /\ c <= d /\ d < n
        /\ NulFree => \A i \in 0 .. n - 1 :
             /\ i < a \/ d < i => R(i) = 0
             /\ a <= i /\ i < b => R(i) < 0
             /\ c < i /\ i <= d => R(i) > 0
    BY <1>0, <2>1, ScanFacts
  <2>3. b <= d + 1
    BY <1>0, <1>1, <2>2
  <2>. QED  BY <2>2, <2>3
<1>4. left <= b - left /\ b + right <= n - right
  BY <1>0, <1>2 DEF MinOf
<1>5. x \in Seq(Nat) /\ Distinct(x) /\ Size = Len(x) /\ Size \in Nat
  BY WordsDiffer DEF Size
<1> HIDE DEF x
<1>6. /\ Moved(x, y, at, n)
      /\ \A m : OneOf(n, m) => Word(y, at, m) = Word(x, at, Place(m, n, b, left, right))
  <2>1. Joins(x, at, n, b, left, right)
    BY <1>0, <1>2, <1>4, <1>5 DEF Joins
  <2>. QED  BY <1>0, <2>1, SplitMoves DEF x
<1>7. ASSUME NEW m \in 0 .. n - 1
      PROVE  Key(y, m) \in Nat
  <2>1. y \in Seq(Nat) /\ Len(y) = Size
    BY <1>5, <1>6 DEF Moved
  <2>2. at + m + 1 \in 1 .. Size
    BY <1>0, <1>2, <1>5, SMTT(30)
  <2>3. Word(y, at, m) \in Nat
    BY <2>1, <2>2 DEF Word
  <2>4. scan.depth \in Nat
    BY <1>2 DEF ScanType
  <2>5. Key(y, m) = Char(ary, Word(y, at, m) + scan.depth)
    BY <1>0 DEF Key, PointersAre
  <2>6. PICK w \in Nat, u \in Nat : w = Word(y, at, m) /\ u = scan.depth
    BY <2>3, <2>4
  <2>7. Char(ary, w + u) \in Nat
    BY SymbolIsChar
  <2>. QED  BY <2>5, <2>6, <2>7
<1>8. ASSUME NulFree, NEW m \in 0 .. n - 1
      PROVE  /\ m < b - a => Key(y, m) < scan.v
             /\ b - a <= m /\ m < n - (d - b + 1) => Key(y, m) = scan.v
             /\ n - (d - b + 1) <= m => Key(y, m) > scan.v
  <2> DEFINE f == [i \in 0 .. n - 1 |-> R(i)]
  <2>1. \A i \in 0 .. n - 1 : /\ i < a \/ d < i => f[i] = 0
                              /\ a <= i /\ i < b => f[i] < 0
                              /\ b <= i /\ i <= d => f[i] > 0
    <3>1. \A i \in 0 .. n - 1 : b <= i => c < i
      BY <1>0, <1>1
    <3>. QED  BY <1>2, <1>8, <3>1
  <2>2. PICK q : q = Place(m, n, b, left, right)
    OBVIOUS
  <2>3. OneOf(n, m) /\ Word(y, at, m) = Word(x, at, q)
    <3>1. OneOf(n, m)
      BY DEF OneOf
    <3>. QED  BY <1>6, <2>2, <3>1
  <2>4. /\ q \in 0 .. n - 1
        /\ m < b - a => f[q] < 0
        /\ b - a <= m /\ m < n - (d - b + 1) => f[q] = 0
        /\ n - (d - b + 1) <= m => f[q] > 0
    <3> HIDE DEF f
    <3>1. Parts(f, n, a, b, d, left, right)
      BY <1>0, <1>2, <2>1 DEF Parts
    <3>2. /\ OneOf(n, q)
          /\ m < b - a => f[q] < 0
          /\ b - a <= m /\ m < n - (d - b + 1) => f[q] = 0
          /\ n - (d - b + 1) <= m => f[q] > 0
      BY <2>2, <2>3, <3>1, SplitPlaces
    <3>. QED  BY <3>2 DEF OneOf
  <2>5. f[q] = Key(y, m) - scan.v
    <3>1. f[q] = R(q)
      BY <2>4 DEF f
    <3>2. R(q) = Char(ary, Word(x, scan.at, q) + scan.depth) - scan.v
      BY DEF R, SistringChar, AryIdx2TxtIdx, Word, x
    <3>3. at = scan.at
      BY <1>0 DEF PointersAre
    <3>. QED  BY <2>3, <3>1, <3>2, <3>3 DEF Key
  <2>6. Key(y, m) \in Nat /\ scan.v \in Nat
    BY <1>2, <1>7 DEF ScanType
  <2> HIDE DEF f
  <2>7. PICK u \in Nat, w \in Nat, g \in {f[q]} : u = Key(y, m) /\ w = scan.v /\ g = f[q]
    BY <2>6
  <2>8. g = u - w
    BY <2>5, <2>7
  <2>9. /\ m < b - a => u < w
        /\ b - a <= m /\ m < n - (d - b + 1) => u = w
        /\ n - (d - b + 1) <= m => u > w
    BY <1>0, <2>4, <2>7, <2>8
  <2>. QED  BY <2>7, <2>9
<1>9. KeysSplit(y, n, less, greater)
  BY <1>0, <1>7, <1>8 DEF KeysSplit
<1>. QED  BY <1>6, <1>9 DEF x

LEMMA MovedWord ==
  ASSUME PointsOK(ary), NEW y, NEW at \in Nat, NEW n \in Nat, at + n <= Size,
         Moved(ary.array, y, at, n), NEW i \in 1 .. Size
  PROVE  y[i] \in Nat /\ y[i] < Len(ary.text)
<1> DEFINE x == ary.array
           N == Len(ary.text)
<1>1. /\ x \in Seq(Nat) /\ Size = Len(x)
      /\ \A m \in 1 .. Size : x[m] \in Nat /\ x[m] < N
  BY WordsDiffer DEF Size
<1>2. ToSet(y) = ToSet(x)
  BY <1>1, MovedWords
<1>3. DOMAIN x = 1 .. Size /\ DOMAIN y = 1 .. Size
  BY <1>1 DEF Moved
<1> HIDE DEF x, N
<1>4. PICK j \in 1 .. Size : y[i] = x[j]
  BY <1>2, <1>3 DEF ToSet
<1>. QED  BY <1>1, <1>4 DEF N

(* Two words of the range in the order of their keys, or with the same.    *)
Position(p) == p \in Nat /\ p < Len(ary.text)

KeyAt(p, depth) == Char(ary, p + depth)

Agree(p, q, depth) == \A m \in 0 .. depth - 1 : Char(ary, p + m) = Char(ary, q + m)

LEMMA KeyOrder ==
  ASSUME PointsOK(ary), NulFree, NEW p, NEW q, NEW depth \in Nat,
         Position(p), Position(q), Agree(p, q, depth)
  PROVE  /\ KeyAt(p, depth) < KeyAt(q, depth) => SuffixLess(ary, p, q)
         /\ KeyAt(p, depth) = 0 /\ KeyAt(q, depth) = 0 => p = q
<1>1. NoNul(ary)
  BY DEF NoNul, NulFree
<1>0. /\ p \in Nat /\ q \in Nat /\ p < Len(ary.text) /\ q < Len(ary.text)
      /\ \A m \in 0 .. depth - 1 : Char(ary, p + m) = Char(ary, q + m)
  BY DEF Position, Agree
<1>2. ASSUME Char(ary, p + depth) < Char(ary, q + depth)
      PROVE  SuffixLess(ary, p, q)
  <2>1. ByteLess(ary, p, q)
    BY <1>0, <1>2 DEF ByteLess
  <2>. QED  BY <1>0, <1>1, <2>1, SuffixLessByByte
<1>3. ASSUME Char(ary, p + depth) = 0, Char(ary, q + depth) = 0
      PROVE  p = q
  <2>1. \A m \in 0 .. depth : m \in 0 .. depth - 1 \/ m = depth
    OBVIOUS
  <2>2. \A m \in 0 .. depth : Char(ary, p + m) = Char(ary, q + m)
    BY <1>0, <1>3, <2>1
  <2>. QED  BY <1>0, <1>1, <1>3, <2>2, AgreeToEnd
<1>. QED  BY <1>2, <1>3 DEF KeyAt

(* The calls made for the parts.                                           *)
PartCall(at, n, depth) == [at |-> at, n |-> n, depth |-> depth]

PartCalls(at, n, depth, less, greater, byte) ==
  {PartCall(at, less, depth), PartCall(at + n - greater, greater, depth)} \union
  (IF byte # 0 THEN {PartCall(at + less, n - less - greater, depth + 1)} ELSE {})

LEMMA PartHolds ==
  ASSUME NEW at \in Nat, NEW n \in Nat, NEW depth, NEW i \in Int
  PROVE  Holds(PartCall(at, n, depth), i) <=> i \in at .. at + n - 1
BY DEF Holds, PartCall

LEMMA PartsOrdered ==
  ASSUME PointsOK(ary), NulFree, NEW y, Distinct(y), Len(y) = Size,
         NEW at \in Nat, NEW n \in Nat, NEW depth \in Nat, NEW pivot \in Nat, at + n <= Size,
         \A i \in at .. at + n - 1 : Position(y[i + 1]),
         \A i, j \in at .. at + n - 1 : Agree(y[i + 1], y[j + 1], depth),
         NEW less \in Nat, NEW greater \in Nat, less + greater <= n,
         NEW K, \A i \in at .. at + n - 1 : K[i] = KeyAt(y[i + 1], depth) /\ K[i] \in Nat,
         \A i \in at .. at + n - 1 :
           /\ i < at + less => K[i] < pivot
           /\ at + less <= i /\ i < at + n - greater => K[i] = pivot
           /\ at + n - greater <= i => K[i] > pivot,
         NEW i \in at .. at + n - 1, NEW j \in at .. at + n - 1, i < j,
         ~ Together(PartCalls(at, n, depth, less, greater, pivot), i, j)
  PROVE  SuffixLess(ary, y[i + 1], y[j + 1])
<1> DEFINE S == PartCalls(at, n, depth, less, greater, pivot)
<1>1. at + n - greater \in Nat /\ n - less - greater \in Nat
  OBVIOUS
<1>2. ~ (i < at + less /\ j < at + less)
  <2> SUFFICES ASSUME i < at + less, j < at + less PROVE FALSE
    OBVIOUS
  <2>1. /\ Holds(PartCall(at, less, depth), i) /\ Holds(PartCall(at, less, depth), j)
        /\ PartCall(at, less, depth) \in S
    BY PartHolds DEF PartCalls
  <2>. QED  BY <2>1 DEF Together
<1>3. ~ (at + n - greater <= i /\ at + n - greater <= j)
  <2> SUFFICES ASSUME at + n - greater <= i, at + n - greater <= j PROVE FALSE
    OBVIOUS
  <2>1. PICK c : c = PartCall(at + n - greater, greater, depth)
    OBVIOUS
  <2>2. i \in at + n - greater .. at + n - greater + greater - 1
    OBVIOUS
  <2>3. j \in at + n - greater .. at + n - greater + greater - 1
    OBVIOUS
  <2>4. Holds(c, i) /\ Holds(c, j)
    BY <1>1, <2>1, <2>2, <2>3, PartHolds
  <2>5. c \in S
    BY <2>1 DEF PartCalls
  <2>. QED  BY <2>4, <2>5 DEF Together
<1>4. ASSUME at + less <= i, i < at + n - greater, at + less <= j, j < at + n - greater
      PROVE  pivot = 0
  <2> SUFFICES ASSUME pivot # 0 PROVE FALSE
    OBVIOUS
  <2>1. PICK u \in Nat, w \in Nat : u = at + less /\ w = n - less - greater
    BY <1>1
  <2>2. i \in u .. u + w - 1 /\ j \in u .. u + w - 1 /\ i \in Int /\ j \in Int
    BY <1>4, <2>1
  <2>3. PICK c : c = PartCall(u, w, depth + 1)
    OBVIOUS
  <2>4. Holds(c, i) /\ Holds(c, j)
    BY <2>2, <2>3, PartHolds
  <2>5. c \in S
    BY <2>1, <2>3 DEF PartCalls
  <2>. QED  BY <2>4, <2>5 DEF Together
<1>5. PICK p, q : p = y[i + 1] /\ q = y[j + 1]
  OBVIOUS
<1>6. Position(p) /\ Position(q) /\ Agree(p, q, depth)
  BY <1>5
<1>7. /\ KeyAt(p, depth) < KeyAt(q, depth) => SuffixLess(ary, p, q)
      /\ KeyAt(p, depth) = 0 /\ KeyAt(q, depth) = 0 => p = q
  BY <1>6, KeyOrder
<1>8. K[i] = KeyAt(p, depth) /\ K[j] = KeyAt(q, depth)
  BY <1>5
<1>9. K[i] < K[j] \/ (K[i] = 0 /\ K[j] = 0)
  <2>1. K[i] \in Nat /\ K[j] \in Nat
    OBVIOUS
  <2>2. CASE i < at + less
    BY <1>2, <2>1, <2>2
  <2>3. CASE at + less <= i /\ i < at + n - greater
    BY <1>4, <2>1, <2>3
  <2>4. CASE at + n - greater <= i
    BY <1>3, <2>4
  <2>. QED  BY <2>2, <2>3, <2>4
<1>10. p # q
  <2>1. i + 1 \in 1 .. Len(y) /\ j + 1 \in 1 .. Len(y) /\ i + 1 # j + 1
    BY WordsDiffer
  <2>. QED  BY <1>5, <2>1 DEF Distinct
<1>. QED  BY <1>5, <1>7, <1>8, <1>9, <1>10

Equals(y, at, n, depth, less, greater, pivot, K) ==
  /\ at \in Nat /\ n \in Nat /\ depth \in Nat /\ less \in Nat /\ greater \in Nat
  /\ less + greater <= n
  /\ \A i, j \in at .. at + n - 1 : Agree(y[i + 1], y[j + 1], depth)
  /\ \A i \in at .. at + n - 1 : K[i] = KeyAt(y[i + 1], depth)
  /\ \A i \in at .. at + n - 1 : at + less <= i /\ i < at + n - greater => K[i] = pivot

LEMMA PartsAgree ==
  ASSUME NEW y, NEW at, NEW n, NEW depth, NEW pivot, NEW less, NEW greater, NEW K,
         Equals(y, at, n, depth, less, greater, pivot, K),
         NEW r \in PartCalls(at, n, depth, less, greater, pivot),
         NEW i \in Int, NEW j \in Int, Holds(r, i), Holds(r, j)
  PROVE  Agree(y[i + 1], y[j + 1], r.depth)
<1>0. /\ at \in Nat /\ n \in Nat /\ depth \in Nat /\ less \in Nat /\ greater \in Nat
      /\ less + greater <= n
      /\ \A h, l \in at .. at + n - 1 : Agree(y[h + 1], y[l + 1], depth)
      /\ \A h \in at .. at + n - 1 : K[h] = KeyAt(y[h + 1], depth)
      /\ \A h \in at .. at + n - 1 : at + less <= h /\ h < at + n - greater => K[h] = pivot
  BY DEF Equals
<1>1. at + n - greater \in Nat /\ n - less - greater \in Nat
  BY <1>0
<1>2. CASE r = PartCall(at, less, depth)
  <2>1. i \in at .. at + less - 1 /\ j \in at .. at + less - 1
    BY <1>0, <1>2, PartHolds
  <2>2. i \in at .. at + n - 1 /\ j \in at .. at + n - 1 /\ r.depth = depth
    BY <1>0, <1>2, <2>1 DEF PartCall
  <2>. QED  BY <1>0, <2>2
<1>3. CASE r = PartCall(at + n - greater, greater, depth)
  <2>1. PICK u \in Nat : u = at + n - greater
    BY <1>1
  <2>2. i \in u .. u + greater - 1 /\ j \in u .. u + greater - 1
    BY <1>0, <1>3, <2>1, PartHolds
  <2>3. i \in at .. at + n - 1 /\ j \in at .. at + n - 1 /\ r.depth = depth
    BY <1>0, <1>3, <2>1, <2>2 DEF PartCall
  <2>. QED  BY <1>0, <2>3
<1>4. CASE r = PartCall(at + less, n - less - greater, depth + 1)
  <2>1. PICK u \in Nat, w \in Nat : u = at + less /\ w = n - less - greater
    BY <1>0, <1>1
  <2>2. i \in u .. u + w - 1 /\ j \in u .. u + w - 1
    BY <1>0, <1>4, <2>1, PartHolds
  <2>3. i \in at .. at + n - 1 /\ j \in at .. at + n - 1 /\ r.depth = depth + 1
    BY <1>0, <1>4, <2>1, <2>2 DEF PartCall
  <2>4. K[i] = pivot /\ K[j] = pivot
    BY <1>0, <2>1, <2>2, <2>3
  <2>5. PICK p, q : p = y[i + 1] /\ q = y[j + 1]
    OBVIOUS
  <2>6. Agree(p, q, depth) /\ KeyAt(p, depth) = KeyAt(q, depth)
    BY <1>0, <2>3, <2>4, <2>5
  <2>7. \A m \in 0 .. (depth + 1) - 1 : m \in 0 .. depth - 1 \/ m = depth
    BY <1>0
  <2>8. Agree(p, q, depth + 1)
    BY <2>6, <2>7 DEF Agree, KeyAt
  <2>. QED  BY <2>3, <2>5, <2>8
<1>. QED  BY <1>2, <1>3, <1>4 DEF PartCalls

LEMMA PartsApart ==
  ASSUME PointsOK(ary), NulFree, NEW y, Distinct(y), Len(y) = Size,
         NEW from \in Nat, NEW to \in Nat, to <= Size,
         NEW at \in Nat, NEW n \in Nat, NEW depth \in Nat, NEW pivot \in Nat,
         from <= at, at + n <= to,
         \A i \in at .. at + n - 1 : Position(y[i + 1]),
         NEW less \in Nat, NEW greater \in Nat, less + greater <= n,
         NEW K, \A i \in at .. at + n - 1 : K[i] = KeyAt(y[i + 1], depth) /\ K[i] \in Nat,
         \A i \in at .. at + n - 1 :
           /\ i < at + less => K[i] < pivot
           /\ at + less <= i /\ i < at + n - greater => K[i] = pivot
           /\ at + n - greater <= i => K[i] > pivot,
         NEW T, NEW r, r.depth = depth,
         \A i \in Int : Holds(r, i) <=> i \in at .. at + n - 1,
         Ordered(ary, y, T \union {r}, from, to), Agreeing(ary, y, T \union {r}, from, to),
         NEW S, S = PartCalls(at, n, depth, less, greater, pivot)
  PROVE  Ordered(ary, y, S \union T, from, to) /\ Agreeing(ary, y, S \union T, from, to)
<1>1. at + n <= Size
  BY WordsDiffer
<1>2. \A i, j \in at .. at + n - 1 : Agree(y[i + 1], y[j + 1], depth)
  <2> SUFFICES ASSUME NEW i \in at .. at + n - 1, NEW j \in at .. at + n - 1
               PROVE  Agree(y[i + 1], y[j + 1], depth)
    OBVIOUS
  <2>1. i \in from .. to - 1 /\ j \in from .. to - 1 /\ Holds(r, i) /\ Holds(r, j)
    OBVIOUS
  <2>2. \A m \in 0 .. r.depth - 1 : Char(ary, y[i + 1] + m) = Char(ary, y[j + 1] + m)
    BY <2>1 DEF Agreeing
  <2>. QED  BY <2>2 DEF Agree
<1>3. ASSUME NEW i \in at .. at + n - 1, NEW j \in at .. at + n - 1, i < j,
             ~ Together(S, i, j)
      PROVE  SuffixLess(ary, y[i + 1], y[j + 1])
  BY <1>1, <1>2, <1>3, PartsOrdered
<1>4. Ordered(ary, y, S \union T, from, to)
  BY <1>3, OrderedParts
<1>5. ASSUME NEW q \in S \union T, NEW i \in from .. to - 1, NEW j \in from .. to - 1,
             Holds(q, i), Holds(q, j)
      PROVE  \A m \in 0 .. q.depth - 1 : Char(ary, y[i + 1] + m) = Char(ary, y[j + 1] + m)
  <2>1. CASE q \in T
    BY <1>5, <2>1 DEF Agreeing
  <2>2. CASE q \in S
    <3>1. q \in PartCalls(at, n, depth, less, greater, pivot) /\ i \in Int /\ j \in Int
      BY <2>2
    <3>2. Equals(y, at, n, depth, less, greater, pivot, K)
      BY <1>2 DEF Equals
    <3>3. Agree(y[i + 1], y[j + 1], q.depth)
      BY <1>5, <3>1, <3>2, PartsAgree
    <3>. QED  BY <3>3 DEF Agree
  <2>. QED  BY <2>1, <2>2
<1>. QED  BY <1>4, <1>5 DEF Agreeing

(* Calls pushed on the stack, apart from each other and those on it.       *)
Stack(s, from, to) ==
  /\ s \in Seq(CallType)
  /\ \A x \in DOMAIN s : Within(s[x], from, to)
  /\ \A x, y \in DOMAIN s : x # y => Apart(s[x], s[y])

LEMMA Pushed ==
  ASSUME NEW s, NEW t, NEW from, NEW to, Stack(s, from, to), Stack(t, from, to),
         \A x \in DOMAIN s, y \in DOMAIN t : Apart(s[x], t[y])
  PROVE  Stack(s \o t, from, to) /\ ToSet(s \o t) = ToSet(s) \union ToSet(t)
<1> DEFINE z == s \o t
           M == Len(s)
           N == Len(t)
<1>1. /\ M \in Nat /\ N \in Nat /\ DOMAIN s = 1 .. M /\ DOMAIN t = 1 .. N
      /\ z \in Seq(CallType) /\ DOMAIN z = 1 .. M + N
  BY DEF Stack
<1>2. ASSUME NEW x \in DOMAIN z
      PROVE  /\ x \in DOMAIN s => z[x] = s[x]
             /\ x \notin DOMAIN s => x - M \in DOMAIN t /\ z[x] = t[x - M]
  BY <1>1 DEF Stack
<1>3. \A x \in DOMAIN s : x \in DOMAIN z
  BY <1>1
<1>4. \A y \in DOMAIN t : y + M \in DOMAIN z /\ y + M \notin DOMAIN s /\ (y + M) - M = y
  BY <1>1
<1>5. \A x, y \in DOMAIN z : x # y => x - M # y - M
  BY <1>1
<1> HIDE DEF z, M, N
<1>6. \A x \in DOMAIN z : Within(z[x], from, to)
  BY <1>2 DEF Stack
<1>7. ASSUME NEW x \in DOMAIN z, NEW y \in DOMAIN z, x # y
      PROVE  Apart(z[x], z[y])
  <2>1. CASE x \in DOMAIN s /\ y \in DOMAIN s
    BY <1>2, <1>7, <2>1 DEF Stack
  <2>2. CASE x \in DOMAIN s /\ y \notin DOMAIN s
    BY <1>2, <1>7, <2>2
  <2>3. CASE x \notin DOMAIN s /\ y \in DOMAIN s
    <3>1. Apart(z[y], z[x])
      BY <1>2, <1>7, <2>3
    <3>. QED  BY <3>1 DEF Apart
  <2>4. CASE x \notin DOMAIN s /\ y \notin DOMAIN s
    <3>1. x - M \in DOMAIN t /\ y - M \in DOMAIN t /\ x - M # y - M
      BY <1>2, <1>5, <1>7, <2>4
    <3>2. Apart(t[x - M], t[y - M])
      BY <3>1 DEF Stack
    <3>. QED  BY <1>2, <2>4, <3>2
  <2>. QED  BY <2>1, <2>2, <2>3, <2>4
<1>8. ToSet(z) = ToSet(s) \union ToSet(t)
  <2>1. \A x \in DOMAIN s : x \in DOMAIN z /\ z[x] = s[x]
    BY <1>2, <1>3
  <2>2. ASSUME NEW y \in DOMAIN t PROVE \E x \in DOMAIN z : z[x] = t[y]
    <3>1. y + M \in DOMAIN z /\ z[y + M] = t[y]
      BY <1>2, <1>4
    <3>. QED  BY <3>1
  <2>3. \A x \in DOMAIN z :
          (\E y \in DOMAIN s : z[x] = s[y]) \/ (\E y \in DOMAIN t : z[x] = t[y])
    BY <1>2
  <2>. QED  BY <2>1, <2>2, <2>3 DEF ToSet
<1>. QED  BY <1>1, <1>6, <1>7, <1>8 DEF Stack, z

(* Part of a range is apart from what the range is apart from.             *)
LEMMA PartApart ==
  ASSUME NEW at \in Nat, NEW n \in Nat, NEW depth, NEW from \in Nat, NEW m \in Nat,
         NEW c, c.at = from, c.n = m, from <= at, at + n <= from + m,
         NEW d \in CallType, Apart(c, d)
  PROVE  Apart(PartCall(at, n, depth), d)
<1>1. PICK e \in Nat, f \in Nat : e = d.at /\ f = d.n
  BY DEF CallType
<1>2. m = 0 \/ f = 0 \/ from + m <= e \/ e + f <= from
  BY <1>1 DEF Apart
<1>3. n = 0 \/ f = 0 \/ at + n <= e \/ e + f <= at
  BY <1>2
<1>. QED  BY <1>1, <1>3 DEF Apart, PartCall

PartsPushed(s, at, n, depth, less, greater, from, to, byte) ==
  /\ at \in Nat /\ n \in Nat /\ depth \in Nat /\ less \in Nat /\ greater \in Nat
  /\ less + greater <= n /\ from \in Nat /\ to \in Nat /\ from <= at /\ at + n <= to
  /\ s = IF byte # 0
         THEN <<PartCall(at, less, depth),
                PartCall(at + less, n - less - greater, depth + 1),
                PartCall(at + n - greater, greater, depth)>>
         ELSE <<PartCall(at, less, depth), PartCall(at + n - greater, greater, depth)>>

ApartFrom(s, at, n) ==
  \A c, d : c.at = at /\ c.n = n /\ d \in CallType /\ Apart(c, d) =>
    \A x \in DOMAIN s : Apart(s[x], d)

LEMMA PartStack ==
  ASSUME NEW at, NEW n, NEW depth, NEW less, NEW greater, NEW from, NEW to, NEW byte, NEW s,
         PartsPushed(s, at, n, depth, less, greater, from, to, byte)
  PROVE  /\ Stack(s, from, to) /\ ToSet(s) = PartCalls(at, n, depth, less, greater, byte)
         /\ ApartFrom(s, at, n)
<1>0. /\ at \in Nat /\ n \in Nat /\ depth \in Nat /\ less \in Nat /\ greater \in Nat
      /\ less + greater <= n /\ from \in Nat /\ to \in Nat /\ from <= at /\ at + n <= to
  BY DEF PartsPushed
<1>1. PICK p \in Nat, w \in Nat, q \in Nat :
        p = at + less /\ w = n - less - greater /\ q = at + n - greater
  BY <1>0
<1>2. PICK f, e, l : /\ f = PartCall(at, less, depth)
                     /\ e = PartCall(p, w, depth + 1)
                     /\ l = PartCall(q, greater, depth)
  OBVIOUS
<1>3. s = IF byte # 0 THEN <<f, e, l>> ELSE <<f, l>>
  BY <1>1, <1>2 DEF PartsPushed
<1>4. f \in CallType /\ e \in CallType /\ l \in CallType
  BY <1>0, <1>2 DEF CallType, PartCall
<1>5. /\ at + less <= p /\ p + w <= q /\ at + less <= q /\ q + greater <= at + n
      /\ p + w <= at + n
  BY <1>0, <1>1
<1>6. Within(f, from, to) /\ Within(e, from, to) /\ Within(l, from, to)
  <2>1. /\ from <= at /\ at + less <= to /\ from <= p /\ p + w <= to
        /\ from <= q /\ q + greater <= to
    BY <1>0, <1>1, <1>5
  <2>. QED  BY <1>0, <1>2, <2>1 DEF Within, PartCall
<1>7. /\ Apart(f, e) /\ Apart(e, f) /\ Apart(f, l) /\ Apart(l, f) /\ Apart(e, l) /\ Apart(l, e)
  BY <1>0, <1>2, <1>5 DEF Apart, PartCall
<1>8. ASSUME NEW c, NEW d \in CallType, c.at = at, c.n = n, Apart(c, d)
      PROVE  Apart(f, d) /\ Apart(e, d) /\ Apart(l, d)
  <2>1. /\ at <= at /\ at + less <= at + n /\ at <= p /\ p + w <= at + n
        /\ at <= q /\ q + greater <= at + n
    BY <1>0, <1>1, <1>5
  <2>2. Apart(f, d)
    BY <1>0, <1>2, <1>8, <2>1, PartApart
  <2>3. Apart(e, d)
    BY <1>0, <1>2, <1>8, <2>1, PartApart
  <2>4. Apart(l, d)
    BY <1>0, <1>2, <1>8, <2>1, PartApart
  <2>. QED  BY <2>2, <2>3, <2>4
<1>9. PartCalls(at, n, depth, less, greater, byte) = {f, l} \union IF byte # 0 THEN {e} ELSE {}
  BY <1>1, <1>2 DEF PartCalls
<1>10. CASE byte # 0
  <2>1. s = <<f, e, l>>
    BY <1>3, <1>10
  <2>2. DOMAIN s = {1, 2, 3} /\ s[1] = f /\ s[2] = e /\ s[3] = l
    BY <2>1
  <2>3. s \in Seq(CallType)
    BY <1>4, <2>1
  <2>4. ToSet(s) = {f, e, l}
    BY <2>2 DEF ToSet
  <2>5. Stack(s, from, to)
    BY <1>6, <1>7, <2>2, <2>3 DEF Stack
  <2>6. ApartFrom(s, at, n)
    BY <1>8, <2>2 DEF ApartFrom
  <2>. QED  BY <1>9, <1>10, <2>4, <2>5, <2>6
<1>11. CASE byte = 0
  <2>1. s = <<f, l>>
    BY <1>3, <1>11
  <2>2. DOMAIN s = {1, 2} /\ s[1] = f /\ s[2] = l
    BY <2>1
  <2>3. s \in Seq(CallType)
    BY <1>4, <2>1
  <2>4. ToSet(s) = {f, l}
    BY <2>2 DEF ToSet
  <2>5. Stack(s, from, to)
    BY <1>6, <1>7, <2>2, <2>3 DEF Stack
  <2>6. ApartFrom(s, at, n)
    BY <1>8, <2>2 DEF ApartFrom
  <2>. QED  BY <1>9, <1>11, <2>4, <2>5, <2>6
<1>. QED  BY <1>10, <1>11

LEMMA NoScanType == NoScan \in ScanType /\ NoScan.n = 0
BY DEF NoScan, ScanType

LEMMA SplitKeeps ==
  ASSUME PointsOK(ary), NEW from \in Nat, NEW to \in Nat, from <= to, to <= Size,
         SortingInv(from, to), Split
  PROVE  Kept(from, to)
<1> DEFINE x == ary.array
           T == ToSet(ranges)
<1>1. PICK at, n, depth, pivot, a, b, c, d :
        /\ at = scan.at /\ n = scan.n /\ depth = scan.depth /\ pivot = scan.v
        /\ a = scan.a /\ b = scan.b /\ c = scan.c /\ d = scan.d
  OBVIOUS
<1>2. /\ Scanning /\ b > c /\ scan' = NoScan
      /\ CallsWithin(from, to) /\ PointersInv /\ RangesApart(from, to)
  BY <1>1 DEF Split, SortingInv
<1>3. /\ at \in Nat /\ n \in Nat /\ a \in Nat /\ b \in Nat /\ c \in Int /\ d \in Int
      /\ scan \in ScanType /\ at + n <= Size
      /\ 1 <= a /\ a <= b /\ b <= c + 1 /\ c <= d /\ d < n
  BY <1>1, <1>2, ScanFacts
<1>4. depth \in Nat /\ pivot \in Nat
  BY <1>1, <1>3 DEF ScanType
<1>5. c = b - 1 /\ d \in Nat
  BY <1>2, <1>3
<1>6. PICK less \in Nat, greater \in Nat : less = b - a /\ greater = d - b + 1
  BY <1>3, <1>5
<1>7. PICK left, right : left = Min({a, less}) /\ right = Min({greater, n - d - 1})
  OBVIOUS
<1>8. PICK y : y = Joined(x, at, n, b, left, right)
  OBVIOUS
<1>9. ary' = [ary EXCEPT !.array = y]
  <2>1. greater = d - c
    BY <1>3, <1>5, <1>6
  <2>. QED  BY <1>1, <1>6, <1>7, <1>8, <2>1 DEF Split, Joined
<1>10. PICK byte, s :
         /\ byte = SistringChar(ary', at + less, depth)
         /\ s = IF byte # 0
                THEN <<PartCall(at, less, depth),
                       PartCall(at + less, n - less - greater, depth + 1),
                       PartCall(at + n - greater, greater, depth)>>
                ELSE <<PartCall(at, less, depth),
                       PartCall(at + n - greater, greater, depth)>>
  OBVIOUS
<1>11. ranges' = s \o ranges
  <2>1. greater = d - c /\ n - less - greater = a + n - d - 1
    BY <1>3, <1>5, <1>6
  <2>. QED  BY <1>1, <1>6, <1>10, <2>1 DEF Split, PartCall
<1>12. from <= at /\ at + n <= to /\ less + greater <= n /\ less + greater < n
  <2>1. from <= at /\ at + n <= to
    BY <1>1, <1>2, ScanningCalls
  <2>. QED  BY <1>3, <1>6, <2>1
<1>13. left = MinOf(a, b - a) /\ right = MinOf(d - b + 1, n - d - 1)
  <2>1. a \in Int /\ less \in Int /\ greater \in Int /\ n - d - 1 \in Int
    BY <1>3, <1>5
  <2>. QED  BY <1>6, <1>7, <2>1, MinOfTwo
<1>14. left \in Nat /\ right \in Nat
  BY <1>3, <1>5, <1>13 DEF MinOf
<1>15. Moved(x, y, at, n) /\ KeysSplit(y, n, less, greater)
  <2>1. PointersAre(at, n, a, b, b - 1, d)
    BY <1>1, <1>5 DEF PointersAre
  <2>2. Splits(at, n, a, b, d, less, greater, left, right, y)
    BY <1>3, <1>5, <1>6, <1>8, <1>13, <1>14, <2>1 DEF Splits
  <2>. QED  BY <1>2, <2>2, SplitKeys
<1>16. x \in Seq(Nat) /\ Distinct(x) /\ Size = Len(x) /\ Size \in Nat
  BY WordsDiffer DEF Size
<1>17. ary'.array = y /\ ary'.text = ary.text /\ PointsOK(ary') /\ Size' = Size
  BY <1>3, <1>9, <1>15, MovedPoints
<1>18. Moved(x, y, from, to - from)
  <2>1. to - from \in Nat /\ from + (to - from) = to
    OBVIOUS
  <2>. QED  BY <1>3, <1>12, <1>15, <1>16, <2>1, MovedWider
<1>19. ~ Scanning' /\ scan' \in ScanType /\ PointersInv'
  BY <1>2, NoScanType DEF Scanning, PointersInv
<1>20. /\ Stack(s, from, to) /\ ToSet(s) = PartCalls(at, n, depth, less, greater, byte)
       /\ ApartFrom(s, at, n)
  <2>1. PartsPushed(s, at, n, depth, less, greater, from, to, byte)
    BY <1>3, <1>4, <1>10, <1>12 DEF PartsPushed
  <2>. QED  BY <2>1, PartStack
<1>21. Stack(s \o ranges, from, to) /\ ToSet(s \o ranges) = ToSet(s) \union T
  <2>1. Stack(ranges, from, to)
    BY <1>2 DEF CallsWithin, Stack
  <2>2. ASSUME NEW m \in DOMAIN s, NEW q \in DOMAIN ranges
        PROVE  Apart(s[m], ranges[q])
    <3>1. Apart(scan, ranges[q])
      BY <1>2 DEF CallsWithin
    <3>2. ranges[q] \in CallType
      BY <2>1 DEF Stack
    <3>. QED  BY <1>1, <1>20, <3>1, <3>2 DEF ApartFrom
  <2>. QED  BY <1>20, <2>1, <2>2, Pushed
<1>22. CallsWithin(from, to)'
  BY <1>11, <1>19, <1>21 DEF CallsWithin, Stack
<1>23. Callers' = PartCalls(at, n, depth, less, greater, byte) \union T
  BY <1>11, <1>19, <1>20, <1>21 DEF Callers
<1>24. PICK K : K = [i \in at .. at + n - 1 |-> Key(y, i - at)]
  OBVIOUS
<1>25. ASSUME NulFree, NEW i \in at .. at + n - 1
       PROVE  /\ K[i] = KeyAt(y[i + 1], depth) /\ K[i] \in Nat
              /\ i < at + less => K[i] < pivot
              /\ at + less <= i /\ i < at + n - greater => K[i] = pivot
              /\ at + n - greater <= i => K[i] > pivot
              /\ Position(y[i + 1])
  <2>1. PICK m \in 0 .. n - 1 : m = i - at
    BY <1>3
  <2>2. at + m + 1 = i + 1
    BY <1>3, <2>1
  <2>3. K[i] = Key(y, m)
    BY <1>24, <2>1
  <2>4. Key(y, m) = KeyAt(y[i + 1], depth)
    BY <1>1, <2>2 DEF Key, Word, KeyAt
  <2>5. /\ Key(y, m) \in Nat
        /\ m < less => Key(y, m) < pivot
        /\ less <= m /\ m < n - greater => Key(y, m) = pivot
        /\ n - greater <= m => Key(y, m) > pivot
    BY <1>1, <1>15, <1>25 DEF KeysSplit
  <2>6. /\ i < at + less => m < less
        /\ at + less <= i /\ i < at + n - greater => less <= m /\ m < n - greater
        /\ at + n - greater <= i => n - greater <= m
    BY <1>3, <2>1
  <2>7. Position(y[i + 1])
    <3>1. i + 1 \in 1 .. Size
      BY <1>3, <1>16
    <3>. QED  BY <1>3, <1>15, <3>1, MovedWord DEF Position
  <2>. QED  BY <2>3, <2>4, <2>5, <2>6, <2>7
<1>26. ASSUME NulFree
       PROVE  byte = pivot
  <2>1. PICK i \in Nat : i = at + less
    BY <1>3
  <2>2. /\ i \in at .. at + n - 1 /\ at + less <= i /\ i < at + n - greater
    BY <1>3, <1>12, <2>1
  <2>3. KeyAt(y[i + 1], depth) = pivot
    BY <1>25, <1>26, <2>2
  <2>4. byte = Char(ary', y[i + 1] + depth)
    BY <1>10, <1>17, <2>1 DEF SistringChar, AryIdx2TxtIdx
  <2>. QED  BY <1>17, <2>3, <2>4, SameText DEF KeyAt
<1>27. ASSUME NulFree'
       PROVE  ArrayApart(from, to)'
  <2>1. NulFree
    BY <1>17, <1>27, SameText
  <2>2. /\ Ordered(ary, x, T \union {scan}, from, to)
        /\ Agreeing(ary, x, T \union {scan}, from, to)
    BY <1>2, <2>1, RangesApartForm, ScanningCalls DEF ArrayApart
  <2>3. /\ \A i \in Int : Holds(scan, i) <=> i \in at .. at + n - 1
        /\ \A i \in at .. at + n - 1, q \in T : ~ Holds(q, i)
    BY <1>1, <1>2, ScanningCalls
  <2>4. Ordered(ary, y, T \union {scan}, from, to)
    BY <1>3, <1>12, <1>15, <1>16, <2>2, <2>3, OrderedMoved
  <2>5. Agreeing(ary, y, T \union {scan}, from, to)
    BY <1>3, <1>12, <1>15, <1>16, <2>2, <2>3, AgreeingMoved
  <2>6. PICK S : S = PartCalls(at, n, depth, less, greater, pivot)
    OBVIOUS
  <2>7. Ordered(ary, y, S \union T, from, to) /\ Agreeing(ary, y, S \union T, from, to)
    <3>1. Distinct(y) /\ Len(y) = Size
      BY <1>15, <1>16 DEF Moved
    <3>2. /\ \A i \in at .. at + n - 1 : Position(y[i + 1])
          /\ \A i \in at .. at + n - 1 : K[i] = KeyAt(y[i + 1], depth) /\ K[i] \in Nat
          /\ \A i \in at .. at + n - 1 :
               /\ i < at + less => K[i] < pivot
               /\ at + less <= i /\ i < at + n - greater => K[i] = pivot
               /\ at + n - greater <= i => K[i] > pivot
      BY <1>25, <2>1
    <3>3. scan.depth = depth
      BY <1>1
    <3>. QED  BY <1>3, <1>4, <1>12, <2>1, <2>3, <2>4, <2>5, <2>6, <3>1, <3>2, <3>3, PartsApart
  <2>8. Ordered(ary', y, S \union T, from, to) /\ Agreeing(ary', y, S \union T, from, to)
    BY <1>17, <2>7, SameText
  <2>9. Callers' = S \union T
    BY <1>23, <1>26, <2>1, <2>6
  <2>. QED  BY <1>17, <1>19, <2>8, <2>9 DEF ArrayApart
<1>28. RangesApart(from, to)'
  BY <1>19, <1>27, RangesApartFormPrime
<1>. QED  BY <1>17, <1>18, <1>19, <1>22, <1>28 DEF SortingInv, Kept

(* Every step of the sort of the words [from, to) keeps its invariant, and *)
(* moves words of that part only.                                          *)
LEMMA SortStepKeeps ==
  ASSUME PointsOK(ary), NEW from \in Nat, NEW to \in Nat, from <= to, to <= Size,
         SortingInv(from, to), SortStep
  PROVE  Kept(from, to)
<1>1. CASE QsortRange
  BY <1>1, QsortRangeKeeps
<1>2. CASE PickPivot
  BY <1>2, PickPivotKeeps
<1>3. CASE PassSmaller
  BY <1>3, PassSmallerKeeps
<1>4. CASE PassGreater
  BY <1>4, PassGreaterKeeps
<1>5. CASE Exchange
  BY <1>5, ExchangeKeeps
<1>6. CASE Split
  BY <1>6, SplitKeeps
<1>. QED  BY <1>1, <1>2, <1>3, <1>4, <1>5, <1>6 DEF SortStep
-----------------------------------------------------------------------------
(* The parts of the invariant of SortIndex that do not speak of the heap.  *)
HereInv ==
  /\ TypeInv /\ MultikeyInv /\ HostInv /\ InPlaceInv
  /\ pc \in {"block", "upheap"} => k < Size

-----------------------------------------------------------------------------
(* The same words are to be sorted after a step that leaves them alone, and *)
(* after one that sorts.                                                   *)
LEMMA SortingSame ==
  ASSUME NEW from, NEW to, ary' = ary, ranges' = ranges, scan' = scan
  PROVE  SortingInv(from, to)' <=> SortingInv(from, to)
BY DEF SortingInv, CallsWithin, PointersInv, RangesApart, Scanning, NulFree, R,
       SistringChar, AryIdx2TxtIdx

LEMMA SortingNow ==
  /\ \A to : to = Size => (SortingInv(0, Size) <=> SortingInv(0, to))
  /\ \A from, to : from = k /\ to = BlockEnd =>
       (SortingInv(k, BlockEnd) <=> SortingInv(from, to))
OBVIOUS

LEMMA SortingNext ==
  ASSUME NEW from, NEW to
  PROVE  /\ from = 0 /\ to = Size' => (SortingInv(0, Size)' <=> SortingInv(from, to)')
         /\ from = k' /\ to = BlockEnd' =>
              (SortingInv(k, BlockEnd)' <=> SortingInv(from, to)')
BY DEF SortingInv, CallsWithin, RangesApart

LEMMA BlockEndType ==
  ASSUME k \in Nat, bl_size \in Nat, Size \in Nat, k < Size
  PROVE  /\ BlockEnd = MinOf(k + bl_size, Size) /\ BlockEnd \in Nat
         /\ k <= BlockEnd /\ BlockEnd <= Size
         /\ bl_size > 0 => k < BlockEnd
<1>1. BlockEnd = MinOf(k + bl_size, Size)
  BY MinOfTwo DEF BlockEnd
<1>. QED  BY <1>1 DEF MinOf

LEMMA SizeType ==
  ASSUME PointsOK(ary)
  PROVE  Size \in Nat \ {0}
BY WordsDiffer

(* A sort begins with one call that holds all its words.                   *)
LEMMA SortBegins ==
  ASSUME NEW from \in Nat, NEW to \in Nat, from <= to, scan \in ScanType, ~ Scanning,
         scan' = scan,
         ranges' = <<[at |-> from, n |-> to - from, depth |-> 0]>>
  PROVE  SortingInv(from, to)'
<1>1. ~ Scanning' /\ scan' \in ScanType
  BY DEF Scanning
<1>2. PICK c : c = [at |-> from, n |-> to - from, depth |-> 0] /\ ranges' = <<c>>
  OBVIOUS
<1>3. c \in CallType /\ Within(c, from, to) /\ c.depth = 0
  BY <1>2 DEF CallType, Within
<1>4. /\ ranges' \in Seq(CallType) /\ DOMAIN ranges' = {1} /\ ranges'[1] = c
      /\ ToSet(ranges') = {c}
  BY <1>2, <1>3 DEF ToSet
<1>5. CallsWithin(from, to)'
  BY <1>1, <1>3, <1>4 DEF CallsWithin
<1>6. PointersInv'
  BY <1>1 DEF PointersInv
<1>7. RangesApart(from, to)'
  <2>1. Callers' = {c}
    BY <1>1, <1>4 DEF Callers
  <2>2. \A i \in from .. to - 1 : Holds(c, i)
    BY <1>2 DEF Holds
  <2>3. Ordered(ary, ary.array, Callers, from, to)'
    BY <2>1, <2>2 DEF Ordered, Together
  <2>4. Agreeing(ary, ary.array, Callers, from, to)'
    BY <1>3, <2>1 DEF Agreeing
  <2>5. ArrayApart(from, to)'
    BY <1>1, <2>3, <2>4 DEF ArrayApart
  <2>. QED  BY <1>6, <2>5, RangesApartFormPrime
<1>. QED  BY <1>5, <1>6, <1>7 DEF SortingInv

(* When it is over all the words are in order.                             *)
LEMMA SortEnds ==
  ASSUME NEW from, NEW to, SortingInv(from, to), Returned, NulFree,
         NEW i \in from .. to - 1, NEW j \in from .. to - 1, i < j
  PROVE  SuffixLess(ary, AryIdx2TxtIdx(ary, i), AryIdx2TxtIdx(ary, j))
BY DEF SortingInv, RangesApart, Returned, ToSet

-----------------------------------------------------------------------------
LEMMA InitHere == Init => HereInv
<1> SUFFICES ASSUME Init PROVE HereInv
  OBVIOUS
<1>1. PointsOK(ary)
  BY JobsAssumption DEF Init, PointsOK
<1>2. bl_size \in Nat \union {-1}
  BY SizesAssumption DEF Init
<1>3. TypeInv
  BY <1>1, <1>2 DEF Init, TypeInv, InPlace, Building, Merging
<1>4. MultikeyInv /\ HostInv /\ InPlaceInv
  BY NoScanType DEF Init, MultikeyInv, HostInv, InPlaceInv, InPlace, Building, Merging,
     Scanning
<1>. QED  BY <1>3, <1>4 DEF HereInv, Init

(* What the steps of the merge sort but those of the blocks' own sorts do  *)
(* to the rest of the state.                                               *)
ByBlocks == {"blocks", "block", "upheap", "merge", "downheap", "rename"}

MergeSortStep ==
  /\ pc \in ByBlocks /\ pc' \in ByBlocks \union {"close"} /\ pc' # "block"
  /\ UNCHANGED <<ary, ranges, scan, host, bl_size, stat>>
  /\ k' \in Nat /\ full' \in BOOLEAN /\ renamed' \in BOOLEAN /\ failed' \in BOOLEAN
  /\ pc' = "upheap" => k' < Size
  /\ pc' # "close" => renamed' = renamed /\ failed' = failed
  /\ pc = "block" => scan \in ScanType /\ ~ Scanning

LEMMA MergeSortSteps ==
  ASSUME HereInv,
         \/ BlockSorted \/ Upheap \/ UpheapDone \/ OpenMerged \/ SorterFails
         \/ MergeWord \/ Downheap \/ DownheapDone \/ CloseMerged \/ Rename
  PROVE  MergeSortStep
<1>1. TypeInv /\ InPlaceInv /\ (pc \in {"block", "upheap"} => k < Size)
  BY DEF HereInv
<1>2. k \in Nat /\ full \in BOOLEAN /\ renamed \in BOOLEAN /\ failed \in BOOLEAN
  BY <1>1 DEF TypeInv
<1> USE DEF MergeSortStep, ByBlocks, sorting, heap
<1>3. CASE BlockSorted
  <2>1. scan \in ScanType
    BY <1>3 DEF HereInv, MultikeyInv, SortingInv, CallsWithin, BlockSorted
  <2>. QED  BY <1>1, <1>2, <1>3, <2>1 DEF BlockSorted, Returned
<1>4. CASE Upheap
  BY <1>1, <1>2, <1>4 DEF Upheap
<1>8. CASE Downheap
  BY <1>1, <1>2, <1>8 DEF Downheap
<1>9. CASE DownheapDone
  BY <1>1, <1>2, <1>9 DEF DownheapDone
<1>10. CASE CloseMerged
  BY <1>1, <1>2, <1>10 DEF CloseMerged
<1>11. CASE Rename
  BY <1>1, <1>2, <1>11 DEF Rename
<1>12. CASE OpenMerged
  BY <1>1, <1>2, <1>12 DEF OpenMerged
<1>5. CASE UpheapDone
  <2>1. bl_size \in Nat
    BY <1>1, <1>5 DEF UpheapDone, TypeInv, InPlaceInv, Building
  <2>. QED  BY <1>1, <1>2, <1>5, <2>1 DEF UpheapDone
<1>6. CASE SorterFails
  BY <1>1, <1>2, <1>6 DEF SorterFails
<1>7. CASE MergeWord
  <2>1. pc = "merge" /\ pc' \in {"merge", "downheap"}
    BY <1>7 DEF MergeWord
  <2>2. full' \in BOOLEAN
    BY <1>2, <1>7 DEF MergeWord
  <2>3. /\ UNCHANGED <<ary, ranges, scan, host, bl_size, stat, renamed, failed>>
        /\ k' = k + 1
    BY <1>7 DEF MergeWord
  <2>. QED  BY <1>2, <2>1, <2>2, <2>3
<1>. QED  BY <1>3, <1>4, <1>5, <1>6, <1>7, <1>8, <1>9, <1>10, <1>11, <1>12

LEMMA MergeSortStepHere ==
  ASSUME HereInv, MergeSortStep
  PROVE  HereInv'
<1>0. TypeInv /\ MultikeyInv /\ HostInv /\ InPlaceInv
  BY DEF HereInv
<1>1. Size' = Size /\ bl_size \notin {0, -1}
  BY <1>0 DEF MergeSortStep, Size, InPlaceInv, ByBlocks, Building, Merging
<1>2. TypeInv'
  BY <1>0 DEF TypeInv, MergeSortStep, ByBlocks, InPlace, Building, Merging
<1>3. MultikeyInv'
  <2>1. /\ pc' \notin {"multikey", "block", "end"} /\ ranges' = ranges /\ scan' = scan
        /\ scan \in ScanType /\ ~ Scanning
    BY <1>0 DEF MultikeyInv, MergeSortStep, ByBlocks
  <2>. QED  BY <2>1 DEF MultikeyInv, Scanning
<1>4. HostInv'
  BY <1>0, <1>1 DEF HostInv, MergeSortStep, ByBlocks, Building, Merging
<1>5. InPlaceInv'
  BY <1>1 DEF InPlaceInv, MergeSortStep, ByBlocks, InPlace, Building, Merging
<1>6. pc' \in {"block", "upheap"} => k' < Size'
  BY <1>1 DEF MergeSortStep
<1>. QED  BY <1>2, <1>3, <1>4, <1>5, <1>6 DEF HereInv

(* The steps before the sort, behind it, and of the sort in place.         *)
LEMMA OtherStepsHere ==
  ASSUME HereInv,
         \/ OpenFails \/ Open \/ ReverseWord \/ ReversedToBig \/ Close \/ Crash
         \/ UNCHANGED vars
  PROVE  HereInv'
<1>0. TypeInv /\ MultikeyInv /\ HostInv /\ InPlaceInv
  BY DEF HereInv
<1>1. /\ UNCHANGED <<ary, ranges, scan, bl_size, renamed, full, failed>> /\ Size' = Size
      /\ k' \in Nat /\ (NulFree' <=> NulFree)
  <2>1. UNCHANGED <<ary, ranges, scan, bl_size, renamed, full, failed>>
    BY DEF OpenFails, Open, ReverseWord, ReversedToBig, Close, Crash, vars, sorting
  <2>2. k' \in {0, k, k + 1}
    BY DEF OpenFails, Open, ReverseWord, ReversedToBig, Close, Crash, vars
  <2>3. PICK m \in Nat : m = k
    BY <1>0 DEF TypeInv
  <2>4. k' \in Nat
    BY <2>2, <2>3
  <2>. QED  BY <2>1, <2>4 DEF Size, NulFree
<1>2. CASE OpenFails \/ Crash \/ Close
  <2>1. pc' = "end" /\ k' = k /\ host' = host /\ pc # "end"
    BY <1>2 DEF OpenFails, Crash, Close, Return
  <2>2. stat' = "SUCCESS" => pc = "close"
    BY <1>2 DEF OpenFails, Crash, Close, Return
  <2>3. TypeInv'
    BY <1>0, <1>1, <2>1 DEF TypeInv
  <2>4. MultikeyInv' /\ HostInv'
    BY <2>1 DEF MultikeyInv, HostInv, InPlace, Building, Merging
  <2>5. InPlaceInv'
    BY <1>0, <1>1, <2>1, <2>2 DEF InPlaceInv, InPlace, Building, Merging
  <2>. QED  BY <2>1, <2>3, <2>4, <2>5 DEF HereInv
<1>3. CASE Open
  <2>1. pc = "start" /\ pc' = "to host" /\ k' = 0 /\ host' = host /\ stat' = stat
    BY <1>3 DEF Open
  <2>2. TypeInv'
    BY <1>0, <1>1, <2>1 DEF TypeInv
  <2>3. MultikeyInv'
    BY <1>0, <1>1, <2>1 DEF MultikeyInv, Scanning
  <2>4. HostInv'
    <3>1. Size \in Nat
      BY <1>0, SizeType DEF TypeInv
    <3>2. 0 <= Size /\ 0 .. 0 - 1 = {}
      BY <3>1
    <3>. QED  BY <1>0, <1>1, <2>1, <3>2 DEF HostInv, InPlace, Building, Merging
  <2>5. InPlaceInv'
    BY <1>0, <1>1, <2>1 DEF InPlaceInv, TypeInv, InPlace, Building, Merging
  <2>. QED  BY <2>1, <2>2, <2>3, <2>4, <2>5 DEF HereInv
<1>4. CASE ReverseWord
  <2>1. /\ pc \in {"to host", "to big"} /\ pc' = pc /\ k' = k + 1 /\ k < Size
        /\ host' = IF pc = "to host" THEN host \union {k} ELSE host \ {k}
        /\ stat' = stat
    BY <1>4 DEF ReverseWord
  <2>2. TypeInv'
    BY <1>0, <1>1, <2>1 DEF TypeInv
  <2>3. MultikeyInv'
    BY <1>0, <1>1, <2>1 DEF MultikeyInv, Scanning
  <2>4. HostInv'
    <3>1. PICK N \in Nat, m \in Nat : N = Size /\ m = k
      BY <1>0, SizeType DEF TypeInv
    <3>2. CASE pc = "to host"
      <4>1. m < N /\ host = 0 .. m - 1 /\ host' = host \union {m}
        BY <1>0, <2>1, <3>1, <3>2 DEF HostInv
      <4>2. m + 1 <= N /\ host' = 0 .. (m + 1) - 1
        BY <4>1
      <4>. QED  BY <1>1, <2>1, <3>1, <3>2, <4>2 DEF HostInv, InPlace, Building, Merging
    <3>3. CASE pc = "to big"
      <4>1. m < N /\ host = m .. N - 1 /\ host' = host \ {m}
        BY <1>0, <2>1, <3>1, <3>3 DEF HostInv
      <4>2. m + 1 <= N /\ host' = m + 1 .. N - 1
        BY <4>1
      <4>. QED  BY <1>1, <2>1, <3>1, <3>3, <4>2 DEF HostInv, InPlace, Building, Merging
    <3>. QED  BY <2>1, <3>2, <3>3
  <2>5. InPlaceInv'
    BY <1>0, <1>1, <2>1 DEF InPlaceInv, TypeInv, InPlace, Building, Merging
  <2>. QED  BY <2>1, <2>2, <2>3, <2>4, <2>5 DEF HereInv
<1>5. CASE ReversedToBig
  <2>1. pc = "to big" /\ pc' = "close" /\ k' = k /\ k >= Size /\ host' = host /\ stat' = stat
    BY <1>5 DEF ReversedToBig
  <2>2. TypeInv'
    BY <1>0, <1>1, <2>1 DEF TypeInv
  <2>3. MultikeyInv'
    BY <1>0, <1>1, <2>1 DEF MultikeyInv, Scanning
  <2>4. HostInv' /\ host' = {}
    <3>1. PICK N \in Nat, m \in Nat : N = Size /\ m = k
      BY <1>0, SizeType DEF TypeInv
    <3>2. host = m .. N - 1 /\ m >= N
      BY <1>0, <2>1, <3>1 DEF HostInv
    <3>3. host = {}
      BY <3>2
    <3>. QED  BY <2>1, <3>3 DEF HostInv, InPlace, Building, Merging
  <2>5. InPlaceInv'
    BY <1>0, <1>1, <2>1, <2>4 DEF InPlaceInv, TypeInv, InPlace, Building, Merging
  <2>. QED  BY <2>1, <2>2, <2>3, <2>4, <2>5 DEF HereInv
<1>6. CASE UNCHANGED vars
  <2>1. UNCHANGED <<pc, ary, ranges, scan, host, bl_size, k, renamed, full, failed, stat>>
    BY <1>6 DEF vars
  <2>2. TypeInv' /\ HostInv'
    BY <1>0, <1>1, <2>1 DEF TypeInv, HostInv
  <2>4. InPlaceInv'
    <3> USE DEF InPlace, Building, Merging
    <3>1. /\ pc' = "multikey" => bl_size' = 0
          /\ pc' = "qsort" => bl_size' = -1
      BY <1>0, <2>1 DEF InPlaceInv
    <3>2. ASSUME bl_size' \in {0, -1}
          PROVE  /\ pc' \notin Building \union Merging \union {"rename"}
                 /\ ~ failed' /\ ~ renamed'
                 /\ pc' = "close" \/ stat' = "SUCCESS" => host' = {}
      BY <1>0, <2>1, <3>2 DEF InPlaceInv
    <3>3. ASSUME bl_size' \in {0, -1}, pc' \in {"to big", "close"} \/ stat' = "SUCCESS",
                 NulFree' \/ bl_size' = -1
          PROVE  Sorted(ary')
      <4>1. Sorted(ary)
        BY <1>0, <1>1, <2>1, <3>3 DEF InPlaceInv
      <4>. QED  BY <2>1, <4>1
    <3>. QED  BY <3>1, <3>2, <3>3 DEF InPlaceInv
  <2>3. MultikeyInv'
    <3>1. PICK N, from, to : N = Size /\ from = k /\ to = BlockEnd
      OBVIOUS
    <3>2. N = Size' /\ from = k' /\ to = BlockEnd'
      BY <1>1, <2>1, <3>1 DEF BlockEnd
    <3>3. pc' = "multikey" => SortingInv(0, Size)'
      BY <1>0, <2>1, <3>1, <3>2, SortingNow, SortingNext, SortingSame DEF MultikeyInv
    <3>4. pc' = "block" => SortingInv(k, BlockEnd)'
      BY <1>0, <2>1, <3>1, <3>2, SortingNow, SortingNext, SortingSame DEF MultikeyInv
    <3>. QED  BY <1>0, <2>1, <3>3, <3>4 DEF MultikeyInv, Scanning
  <2>. QED  BY <1>1, <2>1, <2>2, <2>3, <2>4 DEF HereInv
<1>. QED  BY <1>2, <1>3, <1>4, <1>5, <1>6

(* The steps that begin a sort.                                            *)
LEMMA BeginningsHere ==
  ASSUME HereInv, ReversedToHost \/ SortBlock
  PROVE  HereInv'
<1>0. TypeInv /\ MultikeyInv /\ HostInv /\ InPlaceInv
  BY DEF HereInv
<1>1. PICK N \in Nat \ {0} : N = Size
  BY <1>0, SizeType DEF TypeInv
<1>2. /\ UNCHANGED <<ary, scan, bl_size, renamed, full, failed, stat, host>> /\ Size' = N
      /\ scan \in ScanType /\ ~ Scanning /\ ~ Scanning' /\ stat = "NONE"
  <2>1. pc \in {"to host", "blocks"}
    BY DEF ReversedToHost, SortBlock
  <2>2. UNCHANGED <<ary, scan, bl_size, renamed, full, failed, stat, host>>
    BY DEF ReversedToHost, SortBlock, sorting
  <2>3. stat = "NONE"
    BY <1>0, <2>1 DEF TypeInv
  <2>4. scan \in ScanType /\ ~ Scanning /\ ~ Scanning'
    BY <1>0, <2>1, <2>2 DEF MultikeyInv, Scanning
  <2>5. Size' = N
    BY <1>1, <2>2 DEF Size
  <2>. QED  BY <2>2, <2>3, <2>4, <2>5
<1>3. CASE ReversedToHost
  <2>0. PICK b \in Nat \union {-1} : b = bl_size
    BY <1>0 DEF TypeInv
  <2>1. pc = "to host" /\ k >= N /\ k' = 0
    BY <1>1, <1>3 DEF ReversedToHost
  <2>2. \/ bl_size = 0 /\ pc' = "multikey"
        \/ bl_size = -1 /\ pc' = "qsort"
        \/ bl_size \notin {0, -1} /\ pc' = "blocks"
    <3>1. pc' = CASE b = 0 -> "multikey" [] b = -1 -> "qsort" [] OTHER -> "blocks"
      BY <1>3, <2>0 DEF ReversedToHost
    <3>2. b = 0 => b # -1
      OBVIOUS
    <3>. QED  BY <2>0, <3>1, <3>2
  <2>3. TypeInv'
    BY <1>0, <1>2, <2>1, <2>2 DEF TypeInv, InPlace, Building, Merging
  <2>4. MultikeyInv'
    <3>1. ASSUME pc' = "multikey"
          PROVE  SortingInv(0, N)'
      <4>1. bl_size = 0
        BY <2>0, <2>2, <3>1
      <4>2. ranges' = <<[at |-> 0, n |-> N, depth |-> 0]>>
        BY <1>1, <1>3, <4>1 DEF ReversedToHost, Call
      <4>3. N = N - 0
        OBVIOUS
      <4>. QED  BY <1>2, <4>2, <4>3, SortBegins
    <3>2. pc' = "multikey" => SortingInv(0, Size)'
      BY <1>2, <3>1, SortingNext
    <3>. QED  BY <1>2, <2>2, <3>2 DEF MultikeyInv
  <2>5. HostInv'
    <3>1. PICK m \in Nat : m = k
      BY <1>0 DEF TypeInv
    <3>2. m <= N /\ m >= N /\ host = 0 .. m - 1
      BY <1>0, <1>1, <2>1, <3>1 DEF HostInv
    <3>3. host = 0 .. N - 1
      BY <3>2
    <3>. QED  BY <1>2, <2>2, <3>3 DEF HostInv
  <2>6. InPlaceInv'
    BY <1>0, <1>2, <2>1, <2>2 DEF InPlaceInv, InPlace, Building, Merging
  <2>. QED  BY <2>2, <2>3, <2>4, <2>5, <2>6 DEF HereInv
<1>4. CASE SortBlock
  <2>1. /\ pc = "blocks" /\ pc' = "block" /\ k < N /\ k' = k
        /\ ranges' = <<[at |-> k, n |-> BlockEnd - k, depth |-> 0]>>
    BY <1>1, <1>4 DEF SortBlock, Call
  <2>2. bl_size \in Nat \ {0}
    BY <1>0, <2>1 DEF InPlaceInv, TypeInv, Building
  <2>3. PICK from \in Nat, to \in Nat : from = k /\ to = BlockEnd /\ from <= to
    BY <1>0, <1>1, <2>1, <2>2, BlockEndType DEF TypeInv
  <2>4. from = k' /\ to = BlockEnd'
    BY <1>1, <1>2, <2>1, <2>3 DEF BlockEnd
  <2>5. SortingInv(from, to)'
    <3>1. ranges' = <<[at |-> from, n |-> to - from, depth |-> 0]>>
      BY <2>1, <2>3
    <3>. QED  BY <1>2, <2>3, <3>1, SortBegins
  <2>6. MultikeyInv'
    <3>1. SortingInv(k, BlockEnd)'
      BY <2>4, <2>5, SortingNext
    <3>. QED  BY <2>1, <3>1 DEF MultikeyInv
  <2>7. TypeInv' /\ HostInv'
    BY <1>0, <1>1, <1>2, <2>1 DEF TypeInv, HostInv, InPlace, Building, Merging
  <2>8. InPlaceInv'
    BY <1>2, <2>1, <2>2 DEF InPlaceInv, InPlace, Building, Merging
  <2>. QED  BY <1>1, <1>2, <2>1, <2>6, <2>7, <2>8 DEF HereInv
<1>. QED  BY <1>3, <1>4

(* A step of multikey_qsort, for all words or those of a block.            *)
LEMMA SortKeeps ==
  ASSUME HereInv, Sort
  PROVE  \E from, to \in Nat :
           /\ from <= to /\ to <= Size
           /\ pc = "multikey" => from = 0 /\ to = Size
           /\ pc = "block" => from = k /\ to = BlockEnd
           /\ Kept(from, to)
<1>0. TypeInv /\ MultikeyInv /\ HostInv /\ InPlaceInv
  BY DEF HereInv
<1>1. PICK N \in Nat \ {0} : N = Size
  BY <1>0, SizeType DEF TypeInv
<1>2. PointsOK(ary) /\ SortStep /\ pc \in {"multikey", "block"}
  BY <1>0 DEF TypeInv, Sort
<1>3. CASE pc = "multikey"
  <2>1. SortingInv(0, N)
    BY <1>0, <1>1, <1>3, SortingNow DEF MultikeyInv
  <2>2. 0 \in Nat /\ 0 <= N /\ N <= Size
    BY <1>1
  <2>3. Kept(0, N)
    BY <1>2, <2>1, <2>2, SortStepKeeps
  <2>. QED  BY <1>1, <1>3, <2>2, <2>3
<1>4. CASE pc = "block"
  <2>1. bl_size \in Nat /\ k \in Nat /\ k < Size
    BY <1>0, <1>4 DEF HereInv, InPlaceInv, TypeInv, Building
  <2>2. PICK from \in Nat, to \in Nat :
          from = k /\ to = BlockEnd /\ from <= to /\ to <= Size
    BY <1>1, <2>1, BlockEndType
  <2>3. SortingInv(from, to)
    BY <1>0, <1>4, <2>2, SortingNow DEF MultikeyInv
  <2>4. Kept(from, to)
    BY <1>2, <2>2, <2>3, SortStepKeeps
  <2>. QED  BY <1>4, <2>2, <2>4
<1>. QED  BY <1>2, <1>3, <1>4

LEMMA SortHere ==
  ASSUME HereInv, Sort
  PROVE  HereInv'
<1>0. TypeInv /\ MultikeyInv /\ HostInv /\ InPlaceInv
  BY DEF HereInv
<1>1. PICK N \in Nat \ {0} : N = Size
  BY <1>0, SizeType DEF TypeInv
<1>2. PICK from \in Nat, to \in Nat :
        /\ pc = "multikey" => from = 0 /\ to = Size
        /\ pc = "block" => from = k /\ to = BlockEnd
        /\ Kept(from, to)
  BY SortKeeps
<1>3. /\ pc \in {"multikey", "block"}
      /\ UNCHANGED <<pc, host, bl_size, k, renamed, full, failed, stat>> /\ stat = "NONE"
  <2>1. /\ pc \in {"multikey", "block"}
        /\ UNCHANGED <<pc, host, bl_size, k, renamed, full, failed, stat>>
    BY DEF Sort
  <2>. QED  BY <1>0, <2>1 DEF TypeInv
<1>4. PointsOK(ary') /\ SortingInv(from, to)' /\ Size' = N
  <2>1. Len(ary'.array) = Len(ary.array)
    BY <1>2 DEF Kept, Moved
  <2>. QED  BY <1>1, <1>2, <2>1 DEF Kept, Size
<1>5. TypeInv'
  BY <1>0, <1>3, <1>4 DEF TypeInv, InPlace, Building, Merging
<1>6. HostInv'
  BY <1>0, <1>1, <1>3, <1>4 DEF HostInv, InPlace, Building, Merging
<1>7. InPlaceInv'
  BY <1>0, <1>3 DEF InPlaceInv, InPlace, Building, Merging
<1>8. MultikeyInv'
  <2>1. pc' = "multikey" => from = 0 /\ to = Size'
    BY <1>1, <1>2, <1>3, <1>4
  <2>2. pc' = "block" => from = k' /\ to = BlockEnd'
    BY <1>1, <1>2, <1>3, <1>4 DEF BlockEnd
  <2>. QED  BY <1>3, <1>4, <2>1, <2>2, SortingNext DEF MultikeyInv
<1>9. pc' \in {"block", "upheap"} => k' < Size'
  BY <1>1, <1>3, <1>4 DEF HereInv
<1>. QED  BY <1>5, <1>6, <1>7, <1>8, <1>9 DEF HereInv

(* The end of the sort in place, by multikey_qsort or by qsort.            *)
LEMMA SortedHere ==
  ASSUME HereInv, SortedAll \/ SystemQsort
  PROVE  /\ HereInv' /\ PointsOK(ary') /\ Size' = Size /\ ary'.text = ary.text
         /\ ToSet(ary'.array) = ToSet(ary.array)
<1>0. TypeInv /\ MultikeyInv /\ HostInv /\ InPlaceInv
  BY DEF HereInv
<1>1. PICK N \in Nat \ {0} : N = Size
  BY <1>0, SizeType DEF TypeInv
<1>2. PointsOK(ary)
  BY <1>0 DEF TypeInv
<1>3. /\ pc \in {"multikey", "qsort"} /\ pc' = "to big" /\ k' = 0
      /\ UNCHANGED <<ranges, scan, host, bl_size, renamed, full, failed, stat>>
      /\ stat = "NONE" /\ bl_size \in {0, -1}
  <2>1. /\ pc \in {"multikey", "qsort"} /\ pc' = "to big" /\ k' = 0
        /\ UNCHANGED <<ranges, scan, host, bl_size, renamed, full, failed, stat>>
    BY DEF SortedAll, SystemQsort, sorting
  <2>. QED  BY <1>0, <2>1 DEF TypeInv, InPlaceInv
<1>4. /\ PointsOK(ary') /\ Size' = Size /\ ary'.text = ary.text
      /\ ToSet(ary'.array) = ToSet(ary.array)
      /\ NulFree' \/ bl_size = -1 => Sorted(ary')
  <2>1. CASE SortedAll
    <3>1. ary' = ary /\ pc = "multikey" /\ Returned
      BY <2>1 DEF SortedAll
    <3>2. bl_size = 0
      BY <1>0, <3>1 DEF InPlaceInv
    <3>3. ASSUME NulFree PROVE Sorted(ary)
      <4>1. SortingInv(0, N)
        BY <1>0, <1>1, <3>1, SortingNow DEF MultikeyInv
      <4>2. \A i, j \in 0 .. N - 1 : i < j =>
              SuffixLess(ary, AryIdx2TxtIdx(ary, i), AryIdx2TxtIdx(ary, j))
        BY <3>1, <3>3, <4>1, SortEnds
      <4>. QED  BY <1>1, <4>2 DEF Sorted, Size
    <3>. QED  BY <1>2, <3>1, <3>2, <3>3 DEF NulFree, Size
  <2>2. CASE SystemQsort
    <3> DEFINE y == SortRange(0, 0 + N)
    <3>1. ary' = [ary EXCEPT !.array = y]
      <4>1. y = SortRange(0, N)
        BY <1>1
      <4> HIDE DEF y
      <4>2. ary' = [ary EXCEPT !.array = SortRange(0, Size)]
        BY <2>2 DEF SystemQsort
      <4>. QED  BY <1>1, <4>1, <4>2
    <3>2. /\ Moved(ary.array, y, 0, N)
          /\ \A i, j \in 0 .. 0 + N - 1 : i < j => SuffixLess(ary, y[i + 1], y[j + 1])
      BY <1>1, <1>2, SortRangeSorts
    <3> HIDE DEF y
    <3>3. /\ ary'.array = y /\ ary'.text = ary.text /\ PointsOK(ary') /\ Size' = Size
          /\ ToSet(y) = ToSet(ary.array)
      BY <1>1, <1>2, <3>1, <3>2, MovedPoints, SMTT(30)
    <3>4. Sorted(ary')
      <4>1. \A i, j \in 0 .. N - 1 : i < j => SuffixLess(ary', y[i + 1], y[j + 1])
        BY <3>2, <3>3, SameText
      <4>2. Len(ary'.array) = N
        BY <1>1, <3>3 DEF Size
      <4>. QED  BY <3>3, <4>1, <4>2 DEF Sorted, AryIdx2TxtIdx
    <3>. QED  BY <3>3, <3>4
  <2>. QED  BY <2>1, <2>2
<1>5. TypeInv'
  BY <1>0, <1>3, <1>4 DEF TypeInv, InPlace, Building, Merging
<1>6. HostInv'
  <2>1. host = 0 .. N - 1
    BY <1>0, <1>1, <1>3 DEF HostInv
  <2>2. host' = 0 .. N - 1 /\ k' = 0 /\ pc' = "to big"
    BY <1>3, <2>1
  <2>3. Size' = N
    BY <1>1, <1>4
  <2>4. 0 <= N
    OBVIOUS
  <2>. QED  BY <2>2, <2>3, <2>4 DEF HostInv, InPlace, Building, Merging
<1>7. InPlaceInv'
  BY <1>0, <1>3, <1>4 DEF InPlaceInv, InPlace, Building, Merging
<1>8. MultikeyInv'
  <2>1. scan \in ScanType /\ ~ Scanning
    <3>1. CASE pc = "multikey"
      BY <1>0, <3>1 DEF MultikeyInv, SortingInv, CallsWithin, SortedAll, SystemQsort, Returned
    <3>2. CASE pc = "qsort"
      BY <1>0, <3>2 DEF MultikeyInv
    <3>. QED  BY <1>3, <3>1, <3>2
  <2>. QED  BY <1>3, <2>1 DEF MultikeyInv, Scanning
<1>. QED  BY <1>3, <1>4, <1>5, <1>6, <1>7, <1>8 DEF HereInv

LEMMA NextHere == HereInv /\ [Next]_vars => HereInv'
<1> SUFFICES ASSUME HereInv, [Next]_vars PROVE HereInv'
  OBVIOUS
<1>1. CASE \/ BlockSorted \/ Upheap \/ UpheapDone \/ OpenMerged \/ SorterFails
           \/ MergeWord \/ Downheap \/ DownheapDone \/ CloseMerged \/ Rename
  BY <1>1, MergeSortSteps, MergeSortStepHere
<1>2. CASE \/ OpenFails \/ Open \/ ReverseWord \/ ReversedToBig \/ Close \/ Crash
           \/ UNCHANGED vars
  BY <1>2, OtherStepsHere
<1>3. CASE ReversedToHost \/ SortBlock
  BY <1>3, BeginningsHere
<1>4. CASE Sort
  BY <1>4, SortHere
<1>5. CASE SortedAll \/ SystemQsort
  BY <1>5, SortedHere
<1>. QED  BY <1>1, <1>2, <1>3, <1>4, <1>5 DEF Next, Internal, Ended

-----------------------------------------------------------------------------
(* The heap.  Blocks stand in the order of the words they have come to.    *)
Placed(h) == h \in Seq(BlockType) /\ \A n \in DOMAIN h : h[n].aryidx < Size

LEMMA ReachedWord ==
  ASSUME PointsOK(ary), NEW h, Placed(h), NEW n \in DOMAIN h
  PROVE  Position(Reached(ary, h[n])) /\ h[n].aryidx + 1 \in 1 .. Size
<1> DEFINE i == h[n].aryidx
<1>0. h[n] \in BlockType
  BY DEF Placed
<1>1. i \in Nat /\ i < Size
  BY <1>0 DEF Placed, BlockType
<1>2. Reached(ary, h[n]) = ary.array[i + 1]
  BY DEF Reached, AryIdx2TxtIdx
<1> HIDE DEF i
<1>3. i + 1 \in 1 .. Size
  BY <1>1, SizeType
<1>4. Position(ary.array[i + 1])
  BY <1>3, WordsDiffer DEF Position
<1>. QED  BY <1>2, <1>3, <1>4 DEF i

LEMMA BlockOrder ==
  ASSUME PointsOK(ary), NEW h, Placed(h)
  PROVE  /\ \A m, n \in DOMAIN h : NotBefore(h, m, n) \/ NotBefore(h, n, m)
         /\ \A l, m, n \in DOMAIN h :
              NotBefore(h, l, m) /\ NotBefore(h, m, n) => NotBefore(h, l, n)
<1> DEFINE P == {p \in Nat : p < Len(ary.text)}
<1>1. \A n \in DOMAIN h : Reached(ary, h[n]) \in P
  BY ReachedWord DEF Position
<1>2. /\ \A p \in P : ~ SuffixLess(ary, p, p)
      /\ \A p, q, r \in P :
           SuffixLess(ary, p, q) /\ SuffixLess(ary, q, r) => SuffixLess(ary, p, r)
      /\ \A p, q \in P : p = q \/ SuffixLess(ary, p, q) \/ SuffixLess(ary, q, p)
  BY SuffixOrder
<1> HIDE DEF P
<1>3. ASSUME NEW p \in P, NEW q \in P
      PROVE  ~ SuffixLess(ary, p, q) \/ ~ SuffixLess(ary, q, p)
  BY <1>2
<1>4. ASSUME NEW p \in P, NEW q \in P, NEW r \in P,
             ~ SuffixLess(ary, p, q), ~ SuffixLess(ary, q, r), SuffixLess(ary, p, r)
      PROVE  FALSE
  <2>1. CASE p = q
    BY <1>4, <2>1
  <2>2. CASE SuffixLess(ary, q, p)
    BY <1>2, <1>4, <2>2
  <2>. QED  BY <1>2, <1>4, <2>1, <2>2
<1>. QED  BY <1>1, <1>3, <1>4 DEF NotBefore

Parent(n) == n \div 2

LEMMA ParentType ==
  ASSUME NEW n \in Nat, n >= 2
  PROVE  Parent(n) \in Nat /\ 1 <= Parent(n) /\ Parent(n) < n
BY DEF Parent

LEMMA Children ==
  ASSUME NEW n \in Nat, NEW o \in Nat
  PROVE  Parent(n) = o <=> n = 2 * o \/ n = 2 * o + 1
BY DEF Parent

(* HeapOrder, when the place the block is moved to is o.                   *)
OrderedBut(h, p, o) ==
  /\ \A n \in 2 .. Len(h) :
       ~ (p = "upheap" /\ n = o) /\ ~ (p = "downheap" /\ Parent(n) = o) =>
         NotBefore(h, n, Parent(n))
  /\ p \in {"upheap", "downheap"} /\ o > 1 =>
       \A n \in 2 .. Len(h) : Parent(n) = o => NotBefore(h, n, Parent(o))

(* Two blocks of the heap change places.                                   *)
Exchange2(h, g, i, j) ==
  /\ i \in DOMAIN h /\ j \in DOMAIN h /\ i # j
  /\ g \in Seq(BlockType) /\ Len(g) = Len(h)
  /\ g[i] = h[j] /\ g[j] = h[i]
  /\ \A n \in DOMAIN h : n \notin {i, j} => g[n] = h[n]

LEMMA RisesInOrder ==
  ASSUME PointsOK(ary), NEW h, NEW g, NEW o \in 2 .. Len(h), NEW p, p = Parent(o),
         Placed(h), ~ NotBefore(h, o, p), Exchange2(h, g, o, p),
         OrderedBut(h, "upheap", o)
  PROVE  OrderedBut(g, "upheap", p)
<1> DEFINE L == Len(h)
           NB(m, n) == NotBefore(h, m, n)
<1>1. L \in Nat /\ DOMAIN h = 1 .. L /\ Len(g) = L
  BY DEF Placed, Exchange2
<1>2. /\ \A m, n \in 1 .. L : NB(m, n) \/ NB(n, m)
      /\ \A l, m, n \in 1 .. L : NB(l, m) /\ NB(m, n) => NB(l, n)
  BY <1>1, BlockOrder
<1>3. /\ \A n \in 2 .. L : n # o => NB(n, Parent(n))
      /\ o > 1 => \A n \in 2 .. L : Parent(n) = o => NB(n, p)
  BY <1>1 DEF OrderedBut
<1>4. \A n \in 2 .. L : n \in 1 .. L /\ Parent(n) \in 1 .. L /\ Parent(n) # n
  BY <1>1, ParentType
<1>5. /\ o \in 1 .. L /\ p \in 1 .. L /\ o # p /\ o > 1 /\ o \in 2 .. L /\ p < o
  BY <1>1, <1>4, ParentType
<1>6. /\ \A m, n \in 1 .. L : m \notin {o, p} /\ n \notin {o, p} =>
           (NotBefore(g, m, n) <=> NB(m, n))
      /\ \A m \in 1 .. L : m \notin {o, p} =>
           /\ NotBefore(g, m, o) <=> NB(m, p)
           /\ NotBefore(g, m, p) <=> NB(m, o)
           /\ NotBefore(g, o, m) <=> NB(p, m)
           /\ NotBefore(g, p, m) <=> NB(o, m)
      /\ NotBefore(g, o, p) <=> NB(p, o)
  BY <1>1 DEF Exchange2, NotBefore
<1>7. ~ NB(o, p) /\ NB(p, o)
  BY <1>2, <1>5
<1> HIDE DEF NB, L
<1>8. ASSUME NEW n \in 2 .. L, n # p
      PROVE  NotBefore(g, n, Parent(n))
  <2>1. CASE n = o
    BY <1>6, <1>7, <2>1
  <2>2. CASE n # o /\ Parent(n) = o
    BY <1>3, <1>4, <1>5, <1>6, <1>8, <2>2
  <2>3. CASE n # o /\ Parent(n) = p
    BY <1>2, <1>3, <1>4, <1>5, <1>6, <1>7, <1>8, <2>3
  <2>4. CASE n # o /\ Parent(n) \notin {o, p}
    BY <1>3, <1>4, <1>6, <1>8, <2>4
  <2>. QED  BY <2>1, <2>2, <2>3, <2>4
<1>9. ASSUME p > 1, NEW n \in 2 .. L, Parent(n) = p
      PROVE  NotBefore(g, n, Parent(p))
  <2>1. p \in 2 .. L /\ NB(p, Parent(p)) /\ Parent(p) \in 1 .. L
    BY <1>1, <1>3, <1>4, <1>5, <1>9 DEF L
  <2>2. Parent(p) \notin {o, p}
    <3>1. Parent(p) < p
      BY <1>9, <2>1, ParentType
    <3>. QED  BY <1>5, <2>1, <3>1
  <2>3. CASE n = o
    BY <1>5, <1>6, <2>1, <2>2, <2>3
  <2>4. CASE n # o
    <3>1. NB(n, p) /\ n \in 1 .. L /\ n # p
      BY <1>3, <1>4, <1>9, <2>4
    <3>2. NB(n, Parent(p))
      BY <1>2, <1>5, <2>1, <3>1
    <3>. QED  BY <1>6, <2>1, <2>2, <2>4, <3>1, <3>2
  <2>. QED  BY <2>3, <2>4
<1>. QED  BY <1>1, <1>8, <1>9 DEF OrderedBut, L

LEMMA RisenInOrder ==
  ASSUME NEW h, NEW o \in 1 .. Len(h), Placed(h), OrderedBut(h, "upheap", o),
         o = 1 \/ NotBefore(h, o, Parent(o))
  PROVE  \A q : OrderedBut(h, "blocks", q)
<1>1. \A n \in 2 .. Len(h) : n # o => NotBefore(h, n, Parent(n))
  BY DEF OrderedBut
<1>2. \A n \in 2 .. Len(h) : n = o => NotBefore(h, n, Parent(n))
  BY DEF Placed
<1>. QED  BY <1>1, <1>2 DEF OrderedBut

(* The child c of o takes its place; it is not behind the other child.     *)
LEMMA FallsInOrder ==
  ASSUME PointsOK(ary), NEW h, NEW g, NEW o \in 1 .. Len(h), NEW c \in 2 .. Len(h),
         Parent(c) = o, Placed(h), ~ NotBefore(h, c, o), Exchange2(h, g, o, c),
         \A n \in 2 .. Len(h) : Parent(n) = o => NotBefore(h, n, c),
         OrderedBut(h, "downheap", o)
  PROVE  OrderedBut(g, "downheap", c)
<1> DEFINE L == Len(h)
           NB(m, n) == NotBefore(h, m, n)
<1>1. L \in Nat /\ DOMAIN h = 1 .. L /\ Len(g) = L
  BY DEF Placed, Exchange2
<1>2. /\ \A m, n \in 1 .. L : NB(m, n) \/ NB(n, m)
      /\ \A l, m, n \in 1 .. L : NB(l, m) /\ NB(m, n) => NB(l, n)
  BY <1>1, BlockOrder
<1>3. /\ \A n \in 2 .. L : Parent(n) # o => NB(n, Parent(n))
      /\ o > 1 => \A n \in 2 .. L : Parent(n) = o => NB(n, Parent(o))
      /\ \A n \in 2 .. L : Parent(n) = o => NB(n, c)
  BY <1>1 DEF OrderedBut
<1>4. \A n \in 2 .. L : n \in 1 .. L /\ Parent(n) \in 1 .. L /\ Parent(n) # n
  BY <1>1, ParentType
<1>5. o \in 1 .. L /\ c \in 1 .. L /\ c \in 2 .. L /\ o < c
  <2>1. Parent(c) < c
    BY ParentType
  <2>. QED  BY <1>1, <2>1
<1>6. /\ \A m, n \in 1 .. L : m \notin {o, c} /\ n \notin {o, c} =>
           (NotBefore(g, m, n) <=> NB(m, n))
      /\ \A m \in 1 .. L : m \notin {o, c} =>
           /\ NotBefore(g, m, o) <=> NB(m, c)
           /\ NotBefore(g, m, c) <=> NB(m, o)
           /\ NotBefore(g, o, m) <=> NB(c, m)
           /\ NotBefore(g, c, m) <=> NB(o, m)
      /\ NotBefore(g, c, o) <=> NB(o, c)
  BY <1>1 DEF Exchange2, NotBefore
<1>7. ~ NB(c, o) /\ NB(o, c)
  BY <1>2, <1>5
<1>00. o # c
  BY <1>4, <1>5
<1> HIDE DEF NB, L
<1>8. ASSUME NEW n \in 2 .. L, Parent(n) # c
      PROVE  NotBefore(g, n, Parent(n))
  <2>1. CASE n = c
    BY <1>6, <1>7, <2>1
  <2>2. CASE n # c /\ Parent(n) = o
    BY <1>3, <1>4, <1>6, <2>2
  <2>3. CASE n = o
    <3>1. o > 1 /\ NB(c, Parent(o)) /\ Parent(o) \in 1 .. L /\ Parent(o) \notin {o, c}
      <4>1. o > 1
        BY <1>1, <2>3
      <4>. QED  BY <1>3, <1>4, <1>5, <1>8, <2>3, <4>1
    <3>. QED  BY <1>6, <2>3, <3>1
  <2>4. CASE n \notin {o, c} /\ Parent(n) \notin {o, c}
    BY <1>3, <1>4, <1>6, <2>4
  <2>. QED  BY <1>8, <2>1, <2>2, <2>3, <2>4
<1>9. ASSUME NEW n \in 2 .. L, Parent(n) = c
      PROVE  NotBefore(g, n, Parent(c))
  <2>1. NB(n, c) /\ n \in 1 .. L /\ n # c
    BY <1>00, <1>3, <1>4, <1>9
  <2>2. n # o
    <3>1. c < n
      <4>1. n \in Nat /\ n >= 2
        BY <1>1
      <4>2. Parent(n) < n
        BY <4>1, ParentType
      <4>. QED  BY <1>9, <4>2
    <3>. QED  BY <1>1, <1>5, <3>1
  <2>. QED  BY <1>6, <2>1, <2>2
<1>. QED  BY <1>1, <1>8, <1>9 DEF OrderedBut, L

LEMMA FallenInOrder ==
  ASSUME NEW h, NEW o \in 1 .. Len(h), Placed(h), OrderedBut(h, "downheap", o),
         \A n \in 2 .. Len(h) : Parent(n) = o => NotBefore(h, n, o)
  PROVE  \A q : OrderedBut(h, "merge", q)
<1>1. \A n \in 2 .. Len(h) : Parent(n) # o => NotBefore(h, n, Parent(n))
  BY DEF OrderedBut
<1>2. \A n \in 2 .. Len(h) : Parent(n) = o => NotBefore(h, n, Parent(n))
  OBVIOUS
<1>. QED  BY <1>1, <1>2 DEF OrderedBut

(* No block belongs before the one on top.                                 *)
LEMMA TopIsLeast ==
  ASSUME PointsOK(ary), NEW h, Placed(h), NEW q, OrderedBut(h, "merge", q),
         NEW n \in DOMAIN h
  PROVE  NotBefore(h, n, 1)
<1> DEFINE L == Len(h)
           T == {m \in 1 .. L : ~ NotBefore(h, m, 1)}
<1>1. L \in Nat /\ DOMAIN h = 1 .. L
  BY DEF Placed
<1>2. /\ \A l, m \in 1 .. L : NotBefore(h, l, m) \/ NotBefore(h, m, l)
      /\ \A l, m, r \in 1 .. L :
           NotBefore(h, l, m) /\ NotBefore(h, m, r) => NotBefore(h, l, r)
  BY <1>1, BlockOrder
<1>3. \A m \in 2 .. L : NotBefore(h, m, Parent(m))
  BY DEF OrderedBut
<1> SUFFICES ASSUME ~ NotBefore(h, n, 1) PROVE FALSE
  OBVIOUS
<1>4. T \subseteq Nat /\ T # {}
  BY <1>1
<1>5. PICK m \in T : \A l \in T : m <= l
  BY <1>4, LeastElement
<1>6. m \in 2 .. L
  <2>1. NotBefore(h, 1, 1)
    BY <1>1, <1>2, <1>5
  <2>. QED  BY <1>1, <1>5, <2>1
<1>7. Parent(m) \in 1 .. L /\ Parent(m) < m
  BY <1>1, <1>6, ParentType
<1>8. Parent(m) \notin T
  <2>1. ~ (m <= Parent(m))
    BY <1>1, <1>6, <1>7
  <2>. QED  BY <1>5, <2>1
<1>9. NotBefore(h, Parent(m), 1)
  BY <1>7, <1>8
<1>10. NotBefore(h, m, 1)
  BY <1>1, <1>2, <1>3, <1>6, <1>7, <1>9
<1>. QED  BY <1>5, <1>10

(* A block put behind the others, and another one put on top.              *)
LEMMA InsertedInOrder ==
  ASSUME NEW h, NEW q, NEW b \in BlockType, Placed(h), OrderedBut(h, "blocks", q)
  PROVE  OrderedBut(Append(h, b), "upheap", Len(h) + 1)
<1> DEFINE L == Len(h)
           g == Append(h, b)
<1>1. L \in Nat /\ g \in Seq(BlockType) /\ Len(g) = L + 1 /\ \A n \in 1 .. L : g[n] = h[n]
  BY DEF Placed
<1> HIDE DEF g
<1>2. ASSUME NEW n \in 2 .. L + 1, n # L + 1
      PROVE  NotBefore(g, n, Parent(n))
  <2>1. n \in 2 .. L
    BY <1>1, <1>2
  <2>2. Parent(n) \in 1 .. L
    BY <1>1, <2>1, ParentType
  <2>3. NotBefore(h, n, Parent(n))
    BY <2>1 DEF OrderedBut
  <2>. QED  BY <1>1, <2>1, <2>2, <2>3 DEF NotBefore
<1>3. ASSUME NEW n \in 2 .. L + 1 PROVE Parent(n) # L + 1
  BY <1>1, ParentType
<1>. QED  BY <1>1, <1>2, <1>3 DEF OrderedBut, g

LEMMA TopReplaced ==
  ASSUME NEW h, NEW g, NEW q, Placed(h), OrderedBut(h, "merge", q), Len(g) \in Nat,
         Len(g) <= Len(h), \A n \in 2 .. Len(g) : g[n] = h[n]
  PROVE  OrderedBut(g, "downheap", 1)
<1> DEFINE L == Len(g)
<1>1. L \in Nat /\ Len(h) \in Nat /\ L <= Len(h)
  BY DEF Placed
<1>2. ASSUME NEW n \in 2 .. L, Parent(n) # 1
      PROVE  NotBefore(g, n, Parent(n))
  <2>1. Parent(n) \in 1 .. L
    BY <1>1, ParentType
  <2>2. Parent(n) \in 2 .. L
    BY <1>1, <1>2, <2>1
  <2>3. n \in 2 .. Len(h)
    BY <1>1
  <2>4. NotBefore(h, n, Parent(n))
    BY <2>3 DEF OrderedBut
  <2>. QED  BY <2>2, <2>4 DEF NotBefore
<1>. QED  BY <1>2 DEF OrderedBut

(* Blocks that change places are the same blocks.                          *)
LEMMA SameBlocks ==
  ASSUME NEW h, NEW g, NEW i, NEW j, h \in Seq(BlockType), Exchange2(h, g, i, j)
  PROVE  /\ Left(g) = Left(h) /\ (Placed(h) => Placed(g))
         /\ CachesInv(h) => CachesInv(g)
         /\ BlocksSorted(h) => BlocksSorted(g)
         /\ \A to : BlocksWithin(h, to) => BlocksWithin(g, to)
<1> DEFINE D == DOMAIN h
           From(n) == IF n = i THEN j ELSE IF n = j THEN i ELSE n
<1>1. DOMAIN g = D /\ g \in Seq(BlockType)
  BY DEF Exchange2
<1>2. \A n \in D : From(n) \in D /\ g[n] = h[From(n)] /\ h[n] = g[From(n)]
  BY DEF Exchange2
<1>3. \A m, n \in D : m # n => From(m) # From(n)
  BY DEF Exchange2
<1> HIDE DEF D, From
<1>4. Left(g) = Left(h)
  BY <1>1, <1>2 DEF Left, D
<1>5. Placed(h) => Placed(g)
  BY <1>1, <1>2 DEF Placed, D
<1>6. CachesInv(h) => CachesInv(g)
  BY <1>1, <1>2 DEF CachesInv, D
<1>7. BlocksSorted(h) => BlocksSorted(g)
  BY <1>1, <1>2 DEF BlocksSorted, D
<1>8. ASSUME NEW to, BlocksWithin(h, to)
      PROVE  BlocksWithin(g, to)
  <2>1. \A n \in D : h[n].aryidx < h[n].max /\ h[n].max <= to
    BY <1>8 DEF BlocksWithin, D
  <2>2. \A m, n \in D :
          m # n => h[m].max <= h[n].aryidx \/ h[n].max <= h[m].aryidx
    BY <1>8 DEF BlocksWithin, D
  <2>3. \A n \in D : g[n].aryidx < g[n].max /\ g[n].max <= to
    BY <1>2, <2>1
  <2>4. ASSUME NEW m \in D, NEW n \in D, m # n
        PROVE  g[m].max <= g[n].aryidx \/ g[n].max <= g[m].aryidx
    <3>1. PICK l \in D, r \in D : g[m] = h[l] /\ g[n] = h[r] /\ l # r
      BY <1>2, <1>3, <2>4
    <3>. QED  BY <2>2, <3>1
  <2>. QED  BY <1>1, <2>3, <2>4 DEF BlocksWithin
<1>. QED  BY <1>4, <1>5, <1>6, <1>7, <1>8

-----------------------------------------------------------------------------
(* Both ways of comparing blocks are the order of the suffixes, when there *)
(* is no NUL in the text.                                                  *)
LEMMA CacheHoldsText ==
  ASSUME PointsOK(ary), NulFree, NEW p \in Nat
  PROVE  Cache(p) = [m \in 0 .. CacheSize - 1 |-> Char(ary, p + m)]
<1> SUFFICES ASSUME NEW m \in 0 .. CacheSize - 1
             PROVE  (\E n \in 0 .. m : Char(ary, p + n) = 0) => Char(ary, p + m) = 0
  BY DEF Cache
<1>1. NoNul(ary)
  BY DEF NoNul, NulFree
<1> SUFFICES ASSUME NEW n \in 0 .. m, Char(ary, p + n) = 0
             PROVE  Char(ary, p + m) = 0
  OBVIOUS
<1>2. PICK N \in Nat : N = Len(ary.text)
  BY TextLengthType
<1>3. m \in Nat /\ n \in Nat /\ p + n \in Nat /\ p + m \in Nat /\ p + n <= p + m
  BY SizesAssumption
<1>4. p + n >= N
  BY <1>1, <1>2, <1>3, NulIsEnd
<1>5. p + m >= N
  BY <1>2, <1>3, <1>4
<1>. QED  BY <1>1, <1>2, <1>3, <1>5, NulIsEnd

(* The strings f and g are n bytes, from the i-th, of suffixes that agree  *)
(* before, and the suffixes do not agree so far.                           *)
Strings(f, g, n, p, q, i) ==
  /\ i \in Nat /\ n \in Nat
  /\ \A m \in 0 .. n - 1 : f[m] = Char(ary, p + i + m) /\ g[m] = Char(ary, q + i + m)
  /\ \A m \in 0 .. i - 1 : Char(ary, p + m) = Char(ary, q + m)
  /\ \/ n > Len(ary.text)
     \/ \E m \in i .. i + n - 1 : Char(ary, p + m) # Char(ary, q + m)

LEMMA StrLessIsSuffixLess ==
  ASSUME PointsOK(ary), NulFree, NEW p, NEW q, Position(p), Position(q),
         NEW i, NEW n, NEW f, NEW g, Strings(f, g, n, p, q, i)
  PROVE  StrLess(f, g, n) <=> SuffixLess(ary, p, q)
<1>0. /\ i \in Nat /\ n \in Nat
      /\ \A m \in 0 .. n - 1 : f[m] = Char(ary, p + i + m) /\ g[m] = Char(ary, q + i + m)
      /\ \A m \in 0 .. i - 1 : Char(ary, p + m) = Char(ary, q + m)
      /\ \/ n > Len(ary.text)
         \/ \E m \in i .. i + n - 1 : Char(ary, p + m) # Char(ary, q + m)
  BY DEF Strings
<1>1. NoNul(ary) /\ p \in Nat /\ q \in Nat
  BY DEF NoNul, NulFree, Position
<1>2. PICK N \in Nat : N = Len(ary.text) /\ p < N /\ q < N
  BY TextLengthType DEF Position
<1> DEFINE P(m) == Char(ary, p + m)
           Q(m) == Char(ary, q + m)
<1>3. SuffixLess(ary, p, q) <=>
        \E m \in Nat : P(m) < Q(m) /\ \A l \in 0 .. m - 1 : P(l) = Q(l)
  <2>1. p < Len(ary.text) /\ q < Len(ary.text)
    BY <1>2
  <2>2. SuffixLess(ary, p, q) <=> ByteLess(ary, p, q)
    BY <1>1, <2>1, SuffixLessByByte
  <2>. QED  BY <2>2 DEF ByteLess
<1>4. \A m \in Nat : /\ P(m) \in Nat /\ Q(m) \in Nat
                     /\ P(m) = 0 <=> p + m >= N
                     /\ Q(m) = 0 <=> q + m >= N
  <2> SUFFICES ASSUME NEW m \in Nat
               PROVE  /\ P(m) \in Nat /\ Q(m) \in Nat
                      /\ P(m) = 0 <=> p + m >= N
                      /\ Q(m) = 0 <=> q + m >= N
    OBVIOUS
  <2>1. P(m) \in Nat /\ Q(m) \in Nat
    BY <1>1, SymbolIsChar
  <2>2. p + m \in Nat /\ q + m \in Nat
    BY <1>1
  <2>. QED  BY <1>1, <1>2, <2>1, <2>2, NulIsEnd
<1>5. ASSUME NEW m \in Nat, P(m) = 0, \A l \in 0 .. m : P(l) = Q(l)
      PROVE  p = q
  <2>1. Agree(p, q, m)
    BY <1>5 DEF Agree
  <2>2. KeyAt(p, m) = 0 /\ KeyAt(q, m) = 0
    BY <1>5 DEF KeyAt
  <2>. QED  BY <2>1, <2>2, KeyOrder
<1>6. \A m \in 0 .. n - 1 : f[m] = P(i + m) /\ g[m] = Q(i + m)
  BY <1>0, <1>1
<1>7. \A m \in 0 .. i - 1 : P(m) = Q(m)
  BY <1>0
<1>8. n > N \/ \E m \in i .. i + n - 1 : P(m) # Q(m)
  BY <1>0, <1>2
<1> HIDE DEF P, Q
<1>9. ASSUME StrLess(f, g, n)
      PROVE  SuffixLess(ary, p, q)
  <2>1. PICK m \in 0 .. n - 1 : f[m] < g[m] /\ \A l \in 0 .. m - 1 : f[l] = g[l]
    BY <1>9 DEF StrLess
  <2>2. i + m \in Nat /\ P(i + m) < Q(i + m)
    BY <1>0, <1>6, <2>1
  <2>3. ASSUME NEW l \in 0 .. i + m - 1
        PROVE  P(l) = Q(l)
    <3>1. CASE l < i
      BY <1>0, <1>7, <3>1
    <3>2. CASE l >= i
      <4>1. PICK r \in 0 .. m - 1 : l = i + r
        <5>1. l - i \in 0 .. m - 1 /\ l = i + (l - i)
          BY <1>0, <3>2
        <5>. QED  BY <5>1
      <4>2. r \in 0 .. n - 1 /\ f[r] = g[r]
        BY <1>0, <2>1
      <4>. QED  BY <1>0, <1>6, <4>1, <4>2
    <3>. QED  BY <1>0, <3>1, <3>2
  <2>. QED  BY <1>0, <1>3, <2>2, <2>3
<1>10. ASSUME SuffixLess(ary, p, q)
       PROVE  StrLess(f, g, n)
  <2>1. PICK m \in Nat : P(m) < Q(m) /\ \A l \in 0 .. m - 1 : P(l) = Q(l)
    BY <1>3, <1>10
  <2>2. m >= i
    BY <1>0, <1>4, <1>7, <2>1
  <2>3. m < i + n
    <3>1. m < N
      <4>1. P(m) \in Nat /\ Q(m) \in Nat /\ Q(m) # 0
        BY <1>4, <2>1
      <4>2. ~ (q + m >= N)
        BY <1>4, <4>1
      <4>. QED  BY <1>1, <1>2, <4>2
    <3>2. ASSUME NEW l \in i .. i + n - 1, P(l) # Q(l)
          PROVE  m <= l
      BY <1>0, <2>1, <3>2
    <3>. QED  BY <1>0, <1>8, <2>1, <3>1, <3>2
  <2>4. PICK r \in 0 .. n - 1 : m = i + r
    BY <1>0, <2>2, <2>3
  <2>5. f[r] < g[r]
    BY <1>0, <1>6, <2>1, <2>4
  <2>6. ASSUME NEW l \in 0 .. r - 1
        PROVE  f[l] = g[l] /\ f[l] # 0
    <3>1. f[l] = P(i + l) /\ g[l] = Q(i + l) /\ i + l \in 0 .. m - 1
      BY <1>0, <1>6, <2>4
    <3>2. P(i + l) = Q(i + l)
      BY <1>0, <2>1, <3>1
    <3>3. ASSUME P(i + l) = 0 PROVE FALSE
      <4>1. p = q
        BY <1>5, <2>1, <3>1, <3>3
      <4>. QED  BY <1>4, <2>1, <4>1 DEF P, Q
    <3>. QED  BY <3>1, <3>2, <3>3
  <2>. QED  BY <2>5, <2>6 DEF StrLess
<1>. QED  BY <1>9, <1>10

LEMMA TwoLevelLessIsSuffixLess ==
  ASSUME PointsOK(ary), NulFree, NEW a, NEW b, NEW p, NEW q,
         p = Reached(ary, a), q = Reached(ary, b), Position(p), Position(q),
         a.strbuf = Cache(p), b.strbuf = Cache(q)
  PROVE  TwoLevelLess(a, b) <=> SuffixLess(ary, p, q)
<1>1. PICK N \in Nat : N = Len(ary.text)
  BY TextLengthType
<1>2. p \in Nat /\ q \in Nat /\ CacheSize \in Nat
  BY SizesAssumption DEF Position
<1>3. PICK f, g : /\ f = [m \in 0 .. CacheSize - 1 |-> Char(ary, p + m)]
                  /\ g = [m \in 0 .. CacheSize - 1 |-> Char(ary, q + m)]
  OBVIOUS
<1>4. a.strbuf = f /\ b.strbuf = g
  BY <1>2, <1>3, CacheHoldsText
<1>5. CASE f = g
  <2>1. TwoLevelLess(a, b) <=>
          StrLess(TextFrom(p + CacheSize), TextFrom(q + CacheSize), N + 1)
    BY <1>1, <1>4, <1>5 DEF TwoLevelLess
  <2>2. \A m \in 0 .. CacheSize - 1 : Char(ary, p + m) = Char(ary, q + m)
    BY <1>3, <1>5
  <2>3. \A m \in 0 .. (N + 1) - 1 : /\ TextFrom(p + CacheSize)[m] = Char(ary, p + CacheSize + m)
                                    /\ TextFrom(q + CacheSize)[m] = Char(ary, q + CacheSize + m)
    BY <1>1 DEF TextFrom
  <2>4. Strings(TextFrom(p + CacheSize), TextFrom(q + CacheSize), N + 1, p, q, CacheSize)
    BY <1>1, <1>2, <2>2, <2>3 DEF Strings
  <2>5. StrLess(TextFrom(p + CacheSize), TextFrom(q + CacheSize), N + 1)
          <=> SuffixLess(ary, p, q)
    BY <2>4, StrLessIsSuffixLess
  <2>. QED  BY <2>1, <2>5
<1>6. CASE f # g
  <2>1. TwoLevelLess(a, b) <=> StrLess(f, g, CacheSize)
    BY <1>4, <1>6 DEF TwoLevelLess
  <2>2. \E m \in 0 .. CacheSize - 1 : Char(ary, p + m) # Char(ary, q + m)
    BY <1>3, <1>6
  <2>3. \E m \in 0 .. 0 + CacheSize - 1 : Char(ary, p + m) # Char(ary, q + m)
    BY <1>2, <2>2
  <2>4. \A m \in 0 .. CacheSize - 1 : f[m] = Char(ary, p + 0 + m) /\ g[m] = Char(ary, q + 0 + m)
    BY <1>2, <1>3
  <2>5. \A m \in 0 .. 0 - 1 : Char(ary, p + m) = Char(ary, q + m)
    OBVIOUS
  <2>6. Strings(f, g, CacheSize, p, q, 0)
    BY <1>2, <2>3, <2>4, <2>5 DEF Strings
  <2>7. StrLess(f, g, CacheSize) <=> SuffixLess(ary, p, q)
    BY <2>6, StrLessIsSuffixLess
  <2>. QED  BY <2>1, <2>7
<1>. QED  BY <1>5, <1>6

-----------------------------------------------------------------------------
(* The parts of the invariant that speak of the heap, for a heap h.        *)
HeapAt(h, p, o) == CachesInv(h) /\ (NulFree => BlocksSorted(h) /\ OrderedBut(h, p, o))

MergedAt(h, m, n, f) ==
  /\ BlocksWithin(h, Size)
  /\ n <= Size /\ Cardinality(Left(h)) = Size - n
  /\ m \in Seq(Nat) /\ ToSet(m) \subseteq ToSet(ary.array)
  /\ ~ f => /\ Len(m) = n
            /\ \A x \in 0 .. Size - 1 :
                 x \in Left(h) \/ AryIdx2TxtIdx(ary, x) \in ToSet(m)
  /\ NulFree => /\ Sorted([ary EXCEPT !.array = m])
                /\ \A p \in ToSet(m), x \in Left(h) :
                     SuffixLess(ary, p, AryIdx2TxtIdx(ary, x))

LEMMA HeapNow ==
  ASSUME HeapInv, MergingInv
  PROVE  /\ pc \in Building \union Merging =>
              /\ bl \in Seq(BlockType) /\ v \in BlockType
              /\ pc \in {"upheap", "downheap"} => hole \in DOMAIN bl
              /\ HeapAt(Heap, pc, hole)
         /\ pc \in Merging => MergedAt(Heap, merged, k, full)
<1>1. \A h : HeapOrder(h) => OrderedBut(h, pc, hole)
  BY DEF HeapOrder, OrderedBut, Parent
<1>2. pc \in Building \union Merging =>
        /\ bl \in Seq(BlockType) /\ v \in BlockType
        /\ pc \in {"upheap", "downheap"} => hole \in DOMAIN bl
        /\ HeapAt(Heap, pc, hole)
  BY <1>1 DEF HeapInv, HeapAt
<1>3. pc \in Merging => MergedAt(Heap, merged, k, full)
  BY DEF MergingInv, MergedAt
<1>. QED  BY <1>2, <1>3

LEMMA HeapNext ==
  ASSUME ary' = ary, pc' \notin {"start", "to host"}, bl' \in Seq(BlockType),
         v' \in BlockType, pc' \in {"upheap", "downheap"} => hole' \in DOMAIN bl',
         NEW g, g = Heap', NEW p, p = pc', NEW o, o = hole', HeapAt(g, p, o)
  PROVE  HeapInv'
<1>1. CachesInv(Heap)'
  <2>1. CachesInv(g)
    BY DEF HeapAt
  <2>2. \A q : Cache(q)' = Cache(q)
    BY DEF Cache
  <2>. QED  BY <2>1, <2>2 DEF CachesInv
<1>2. NulFree' <=> NulFree
  BY DEF NulFree
<1>3. ASSUME NulFree PROVE BlocksSorted(Heap)'
  BY <1>3 DEF HeapAt, BlocksSorted
<1>4. ASSUME NulFree PROVE HeapOrder(Heap)'
  <2>1. OrderedBut(g, p, o)
    BY <1>4 DEF HeapAt
  <2>2. \A n : Parent(n) = n \div 2
    BY DEF Parent
  <2>3. \A m, n : NotBefore(g, m, n) => NotBefore(Heap, m, n)'
    BY DEF NotBefore
  <2>. QED  BY <2>1, <2>2, <2>3 DEF OrderedBut, HeapOrder
<1>. QED  BY <1>1, <1>2, <1>3, <1>4 DEF HeapInv

LEMMA MergedNext ==
  ASSUME ary' = ary, NEW g, g = Heap', NEW m, m = merged', NEW n, n = k', NEW f, f = full',
         MergedAt(g, m, n, f)
  PROVE  MergingInv'
<1>1. NulFree' <=> NulFree
  BY DEF NulFree
<1>2. Left(Heap)' = Left(g) /\ Size' = Size
  BY DEF Left, Size
<1>3. BlocksWithin(Heap, Size)'
  BY <1>2 DEF MergedAt, BlocksWithin
<1>. QED  BY <1>1, <1>2, <1>3 DEF MergingInv, MergedAt

LEMMA BlocksPlaced ==
  ASSUME NEW h \in Seq(BlockType), NEW to \in Nat, to <= Size, Size \in Nat, BlocksWithin(h, to)
  PROVE  Placed(h)
<1> SUFFICES ASSUME NEW n \in DOMAIN h
             PROVE  h[n].aryidx < Size
  BY DEF Placed
<1>1. h[n] \in BlockType /\ h[n].aryidx < h[n].max /\ h[n].max <= to
  BY DEF BlocksWithin
<1>2. PICK i \in Nat, m \in Nat : i = h[n].aryidx /\ m = h[n].max
  BY <1>1 DEF BlockType
<1>. QED  BY <1>1, <1>2

(* The place the moved block is to have, filled with it.                   *)
LEMMA HoleFilled ==
  ASSUME NEW b \in Seq(BlockType), NEW w \in BlockType, NEW o \in DOMAIN b, NEW h,
         h = [b EXCEPT ![o] = w]
  PROVE  /\ h \in Seq(BlockType) /\ Len(h) = Len(b) /\ DOMAIN h = DOMAIN b /\ h[o] = w
         /\ \A n \in DOMAIN b : n # o => h[n] = b[n]
OBVIOUS

(* The loops of upheap and downheap move a block to the free place i.      *)
LEMMA MoveExchanges ==
  ASSUME NEW b \in Seq(BlockType), NEW w \in BlockType, NEW i \in DOMAIN b,
         NEW j \in DOMAIN b, i # j, NEW c, c = [b EXCEPT ![i] = b[j]],
         NEW h, h = [b EXCEPT ![i] = w], NEW g, g = [c EXCEPT ![j] = w]
  PROVE  /\ c \in Seq(BlockType) /\ DOMAIN c = DOMAIN b /\ h \in Seq(BlockType)
         /\ DOMAIN h = DOMAIN b /\ Exchange2(h, g, i, j)
<1>1. b[j] \in BlockType
  OBVIOUS
<1>2. /\ c \in Seq(BlockType) /\ Len(c) = Len(b) /\ DOMAIN c = DOMAIN b /\ c[i] = b[j]
      /\ \A n \in DOMAIN b : n # i => c[n] = b[n]
  BY <1>1, HoleFilled
<1>3. /\ h \in Seq(BlockType) /\ Len(h) = Len(b) /\ DOMAIN h = DOMAIN b /\ h[i] = w
      /\ \A n \in DOMAIN b : n # i => h[n] = b[n]
  BY HoleFilled
<1>4. /\ g \in Seq(BlockType) /\ Len(g) = Len(c) /\ DOMAIN g = DOMAIN c /\ g[j] = w
      /\ \A n \in DOMAIN c : n # j => g[n] = c[n]
  BY <1>2, HoleFilled
<1>. QED  BY <1>2, <1>3, <1>4 DEF Exchange2

-----------------------------------------------------------------------------
(* A turn of the loop of upheap.                                           *)
LEMMA UpheapKeeps ==
  ASSUME TypeInv, HeapInv, BuildingInv, MergingInv, Upheap,
         bl_size \in Nat
  PROVE  HeapInv' /\ BuildingInv' /\ MergingInv'
<1>1. PICK h, g, o, p : h = Heap /\ g = Heap' /\ o = hole /\ p = Parent(o)
  OBVIOUS
<1>2. /\ pc = "upheap" /\ pc' = pc /\ ary' = ary /\ v' = v /\ k' = k /\ bl_size' = bl_size
      /\ o > 1 /\ SuffixLess(ary, Reached(ary, v), Reached(ary, bl[p]))
      /\ bl' = [bl EXCEPT ![o] = bl[p]] /\ hole' = p
  BY <1>1 DEF Upheap, Rises, Parent
<1>3. /\ bl \in Seq(BlockType) /\ v \in BlockType /\ o \in DOMAIN bl
      /\ HeapAt(h, "upheap", o)
  BY <1>1, <1>2, HeapNow DEF Building
<1>4. PICK N \in Nat \ {0} : N = Size
  BY SizeType DEF TypeInv
<1>5. PICK to \in Nat : to = BlockEnd /\ to <= N
  BY <1>2, <1>4, BlockEndType DEF TypeInv, BuildingInv
<1>6. h = [bl EXCEPT ![o] = v] /\ g = [bl' EXCEPT ![p] = v]
  BY <1>1, <1>2 DEF Heap
<1>7. p \in DOMAIN bl /\ p # o /\ o \in 2 .. Len(bl)
  <2>1. o \in 2 .. Len(bl) /\ o \in Nat /\ o >= 2
    BY <1>2, <1>3
  <2>2. p \in Nat /\ 1 <= p /\ p < o
    BY <1>1, <2>1, ParentType
  <2>. QED  BY <1>3, <2>1, <2>2
<1>8. /\ bl' \in Seq(BlockType) /\ DOMAIN bl' = DOMAIN bl /\ h \in Seq(BlockType)
      /\ DOMAIN h = DOMAIN bl /\ Exchange2(h, g, o, p)
  BY <1>2, <1>3, <1>6, <1>7, MoveExchanges
<1>9. BlocksWithin(h, to) /\ Left(h) = 0 .. to - 1
  BY <1>1, <1>2, <1>5 DEF BuildingInv
<1>10. Placed(h)
  BY <1>4, <1>5, <1>8, <1>9, BlocksPlaced
<1>11. /\ Left(g) = Left(h) /\ BlocksWithin(g, to) /\ CachesInv(g)
       /\ BlocksSorted(h) => BlocksSorted(g)
  BY <1>3, <1>8, <1>9, SameBlocks DEF HeapAt
<1>12. HeapAt(g, "upheap", p)
  <2>1. ASSUME NulFree PROVE OrderedBut(g, "upheap", p)
    <3>1. ~ NotBefore(h, o, p)
      BY <1>2, <1>3, <1>6, <1>7 DEF NotBefore
    <3>2. OrderedBut(h, "upheap", o)
      BY <1>3, <2>1 DEF HeapAt
    <3>3. o \in 2 .. Len(h)
      BY <1>7, <1>8
    <3>. QED  BY <1>1, <1>8, <1>10, <3>1, <3>2, <3>3, RisesInOrder DEF TypeInv
  <2>. QED  BY <1>3, <1>11, <2>1 DEF HeapAt
<1>13. HeapInv'
  BY <1>1, <1>2, <1>3, <1>7, <1>8, <1>12, HeapNext
<1>14. BuildingInv'
  <2>1. BlockEnd' = to /\ Size' = N
    BY <1>2, <1>4, <1>5 DEF BlockEnd, Size
  <2>2. Left(Heap)' = 0 .. to - 1
    BY <1>1, <1>9, <1>11 DEF Left
  <2>3. BlocksWithin(Heap, BlockEnd)'
    BY <1>1, <1>11, <2>1 DEF BlocksWithin
  <2>. QED  BY <1>2, <1>4, <2>1, <2>2, <2>3 DEF BuildingInv
<1>15. MergingInv'
  BY <1>2 DEF MergingInv, Merging
<1>. QED  BY <1>13, <1>14, <1>15

LEMMA UpheapDoneKeeps ==
  ASSUME TypeInv, HeapInv, BuildingInv, MergingInv, UpheapDone,
         bl_size \in Nat
  PROVE  HeapInv' /\ BuildingInv' /\ MergingInv'
<1>1. PICK h, o : h = Heap /\ o = hole
  OBVIOUS
<1>2. /\ pc = "upheap" /\ pc' = "blocks" /\ ary' = ary /\ v' = v /\ k' = k + bl_size
      /\ bl_size' = bl_size /\ hole' = o /\ bl' = [bl EXCEPT ![o] = v]
      /\ o = 1 \/ ~ (o > 1) \/ ~ SuffixLess(ary, Reached(ary, v), Reached(ary, bl[Parent(o)]))
  BY <1>1 DEF UpheapDone, Rises, Parent
<1>3. /\ bl \in Seq(BlockType) /\ v \in BlockType /\ o \in DOMAIN bl
      /\ HeapAt(h, "upheap", o)
  BY <1>1, <1>2, HeapNow DEF Building
<1>4. PICK N \in Nat \ {0} : N = Size
  BY SizeType DEF TypeInv
<1>5. PICK to \in Nat : to = BlockEnd /\ to <= N
  BY <1>2, <1>4, BlockEndType DEF TypeInv, BuildingInv
<1>6. h = [bl EXCEPT ![o] = v] /\ h = Heap' /\ bl' = h
  BY <1>1, <1>2 DEF Heap
<1>7. /\ h \in Seq(BlockType) /\ Len(h) = Len(bl) /\ DOMAIN h = DOMAIN bl /\ h[o] = v
      /\ \A n \in DOMAIN bl : n # o => h[n] = bl[n]
  BY <1>3, <1>6, HoleFilled
<1>8. BlocksWithin(h, to) /\ Left(h) = 0 .. to - 1
  BY <1>1, <1>2, <1>5 DEF BuildingInv
<1>9. Placed(h)
  BY <1>4, <1>5, <1>7, <1>8, BlocksPlaced
<1>10. HeapAt(h, "blocks", o)
  <2>1. ASSUME NulFree PROVE OrderedBut(h, "blocks", o)
    <3>1. o \in 1 .. Len(h)
      BY <1>3, <1>7
    <3>2. o = 1 \/ NotBefore(h, o, Parent(o))
      <4>1. CASE o > 1
        <5>1. o \in Nat /\ o >= 2
          BY <3>1, <4>1
        <5>2. Parent(o) \in Nat /\ 1 <= Parent(o) /\ Parent(o) < o
          BY <5>1, ParentType
        <5>3. Parent(o) \in DOMAIN bl /\ Parent(o) # o /\ o # 1
          BY <1>3, <5>1, <5>2
        <5>. QED  BY <1>2, <1>7, <4>1, <5>3 DEF NotBefore
      <4>. QED  BY <3>1, <4>1
    <3>3. OrderedBut(h, "upheap", o)
      BY <1>3, <2>1 DEF HeapAt
    <3>. QED  BY <1>9, <3>1, <3>2, <3>3, RisenInOrder
  <2>. QED  BY <1>3, <2>1 DEF HeapAt
<1>11. HeapInv'
  BY <1>2, <1>3, <1>6, <1>7, <1>10, HeapNext
<1>12. BuildingInv'
  <2>1. Min({k, Size})' = to
    BY <1>2, <1>5 DEF BlockEnd, Size
  <2>2. Left(Heap)' = 0 .. to - 1
    BY <1>6, <1>8 DEF Left
  <2>3. BlocksWithin(Heap, Min({k, Size}))'
    BY <1>6, <1>8, <2>1 DEF BlocksWithin
  <2>. QED  BY <1>2, <2>1, <2>2, <2>3 DEF BuildingInv
<1>13. MergingInv'
  BY <1>2 DEF MergingInv, Merging
<1>. QED  BY <1>11, <1>12, <1>13

(* The child downheap looks at.                                            *)
LEMMA LesserChildIs ==
  ASSUME bl \in Seq(BlockType), v \in BlockType, NEW o \in DOMAIN bl, NEW h,
         h = [bl EXCEPT ![o] = v], o <= Len(bl) \div 2, NEW c, c = LesserChild(o)
  PROVE  /\ c \in 2 .. Len(bl) /\ c \in DOMAIN bl /\ Parent(c) = o /\ c # o
         /\ NulFree /\ PointsOK(ary) /\ Placed(h) /\ CachesInv(h) =>
              /\ TwoLevelLess(bl[c], v) <=> ~ NotBefore(h, c, o)
              /\ \A n \in 2 .. Len(h) : Parent(n) = o => NotBefore(h, n, c)
<1>1. PICK L \in Nat : L = Len(bl) /\ DOMAIN bl = 1 .. L
  OBVIOUS
<1>2. o \in Nat /\ 1 <= o /\ 2 * o <= L
  BY <1>1
<1>3. /\ c = 2 * o \/ c = 2 * o + 1
      /\ c = 2 * o + 1 => 2 * o < L /\ ~ TwoLevelLess(bl[2 * o], bl[2 * o + 1])
      /\ c = 2 * o /\ 2 * o < L => TwoLevelLess(bl[2 * o], bl[2 * o + 1])
  BY <1>1, <1>2 DEF LesserChild
<1>4. c \in 2 .. L /\ c \in DOMAIN bl /\ c # o /\ c \in Nat
  BY <1>1, <1>2, <1>3
<1>5. Parent(c) = o
  BY <1>2, <1>3, <1>4, Children
<1>6. ASSUME NulFree, PointsOK(ary), Placed(h), CachesInv(h)
      PROVE  /\ TwoLevelLess(bl[c], v) <=> ~ NotBefore(h, c, o)
             /\ \A n \in 2 .. Len(h) : Parent(n) = o => NotBefore(h, n, c)
  <2>1. /\ Len(h) = L /\ DOMAIN h = 1 .. L /\ h[o] = v
        /\ \A n \in 1 .. L : n # o => h[n] = bl[n]
    BY <1>1, HoleFilled
  <2>2. ASSUME NEW m \in 1 .. L, NEW n \in 1 .. L
        PROVE  TwoLevelLess(h[m], h[n]) <=> ~ NotBefore(h, m, n)
    <3>1. Position(Reached(ary, h[m])) /\ Position(Reached(ary, h[n]))
      BY <1>6, <2>1, ReachedWord
    <3>2. h[m].strbuf = Cache(Reached(ary, h[m])) /\ h[n].strbuf = Cache(Reached(ary, h[n]))
      BY <1>6, <2>1 DEF CachesInv
    <3>3. TwoLevelLess(h[m], h[n]) <=>
            SuffixLess(ary, Reached(ary, h[m]), Reached(ary, h[n]))
      BY <1>6, <3>1, <3>2, TwoLevelLessIsSuffixLess
    <3>. QED  BY <3>3 DEF NotBefore
  <2>3. TwoLevelLess(bl[c], v) <=> ~ NotBefore(h, c, o)
    <3>1. h[c] = bl[c] /\ c \in 1 .. L /\ o \in 1 .. L
      BY <1>1, <1>4, <2>1
    <3>. QED  BY <2>1, <2>2, <3>1
  <2>4. /\ \A m, n \in 1 .. L : NotBefore(h, m, n) \/ NotBefore(h, n, m)
    BY <1>6, <2>1, BlockOrder
  <2>5. ASSUME NEW n \in 2 .. L, Parent(n) = o
        PROVE  NotBefore(h, n, c)
    <3>1. n \in Nat /\ n \in 1 .. L /\ (n = 2 * o \/ n = 2 * o + 1)
      BY <1>2, <2>5, Children
    <3>2. CASE n = c
      BY <2>4, <3>1, <3>2
    <3>3. CASE n = 2 * o /\ c = 2 * o + 1
      <4>1. h[n] = bl[2 * o] /\ h[c] = bl[2 * o + 1] /\ c \in 1 .. L
        BY <1>1, <1>2, <1>4, <2>1, <3>1, <3>3
      <4>. QED  BY <1>3, <2>2, <3>1, <3>3, <4>1
    <3>4. CASE n = 2 * o + 1 /\ c = 2 * o
      <4>1. h[c] = bl[2 * o] /\ h[n] = bl[2 * o + 1] /\ c \in 1 .. L /\ 2 * o < L
        BY <1>1, <1>2, <1>4, <2>1, <3>1, <3>4
      <4>2. ~ NotBefore(h, c, n)
        BY <1>3, <2>2, <3>1, <3>4, <4>1
      <4>. QED  BY <2>4, <3>1, <4>1, <4>2
    <3>. QED  BY <1>3, <3>1, <3>2, <3>3, <3>4
  <2>. QED  BY <2>1, <2>3, <2>5
<1>. QED  BY <1>1, <1>4, <1>5, <1>6

(* A turn of the loop of downheap.                                         *)
LEMMA DownheapKeeps ==
  ASSUME TypeInv, HeapInv, BuildingInv, MergingInv, Downheap
  PROVE  HeapInv' /\ BuildingInv' /\ MergingInv'
<1>1. PICK h, g, o, c : h = Heap /\ g = Heap' /\ o = hole /\ c = LesserChild(o)
  OBVIOUS
<1>2. /\ pc = "downheap" /\ pc' = pc /\ ary' = ary /\ v' = v /\ k' = k
      /\ merged' = merged /\ full' = full
      /\ o <= Len(bl) \div 2 /\ TwoLevelLess(bl[c], v)
      /\ bl' = [bl EXCEPT ![o] = bl[c]] /\ hole' = c
  BY <1>1 DEF Downheap, Falls
<1>3. /\ bl \in Seq(BlockType) /\ v \in BlockType /\ o \in DOMAIN bl
      /\ HeapAt(h, "downheap", o) /\ MergedAt(h, merged, k, full)
  BY <1>1, <1>2, HeapNow DEF Merging
<1>4. PICK N \in Nat \ {0} : N = Size
  BY SizeType DEF TypeInv
<1>6. h = [bl EXCEPT ![o] = v] /\ g = [bl' EXCEPT ![c] = v]
  BY <1>1, <1>2 DEF Heap
<1>7. c \in 2 .. Len(bl) /\ c \in DOMAIN bl /\ Parent(c) = o /\ c # o
  BY <1>1, <1>2, <1>3, <1>6, LesserChildIs
<1>8. /\ bl' \in Seq(BlockType) /\ DOMAIN bl' = DOMAIN bl /\ h \in Seq(BlockType)
      /\ DOMAIN h = DOMAIN bl /\ Exchange2(h, g, o, c)
  BY <1>2, <1>3, <1>6, <1>7, MoveExchanges
<1>9. BlocksWithin(h, N)
  BY <1>3, <1>4 DEF MergedAt
<1>10. Placed(h)
  BY <1>4, <1>8, <1>9, BlocksPlaced
<1>11. /\ Left(g) = Left(h) /\ BlocksWithin(g, N) /\ CachesInv(g)
       /\ BlocksSorted(h) => BlocksSorted(g)
  BY <1>3, <1>8, <1>9, SameBlocks DEF HeapAt
<1>12. HeapAt(g, "downheap", c)
  <2>1. ASSUME NulFree PROVE OrderedBut(g, "downheap", c)
    <3>1. /\ ~ NotBefore(h, c, o)
          /\ \A n \in 2 .. Len(h) : Parent(n) = o => NotBefore(h, n, c)
      BY <1>1, <1>2, <1>3, <1>6, <1>10, <2>1, LesserChildIs DEF TypeInv, HeapAt
    <3>2. OrderedBut(h, "downheap", o)
      BY <1>3, <2>1 DEF HeapAt
    <3>3. o \in 1 .. Len(h) /\ c \in 2 .. Len(h)
      BY <1>3, <1>7, <1>8
    <3>. QED  BY <1>7, <1>8, <1>10, <3>1, <3>2, <3>3, FallsInOrder DEF TypeInv
  <2>. QED  BY <1>3, <1>11, <2>1 DEF HeapAt
<1>13. HeapInv'
  BY <1>1, <1>2, <1>3, <1>7, <1>8, <1>12, HeapNext
<1>14. BuildingInv'
  BY <1>2 DEF BuildingInv
<1>15. MergedAt(g, merged, k, full)
  BY <1>3, <1>4, <1>11 DEF MergedAt
<1>16. MergingInv'
  BY <1>1, <1>2, <1>15, MergedNext
<1>. QED  BY <1>13, <1>14, <1>16

LEMMA DownheapDoneKeeps ==
  ASSUME TypeInv, HeapInv, BuildingInv, MergingInv, DownheapDone
  PROVE  HeapInv' /\ BuildingInv' /\ MergingInv'
<1>1. PICK h, o, c : h = Heap /\ o = hole /\ c = LesserChild(o)
  OBVIOUS
<1>2. /\ pc = "downheap" /\ pc' = "merge" /\ ary' = ary /\ v' = v /\ k' = k /\ hole' = o
      /\ merged' = merged /\ full' = full /\ bl' = [bl EXCEPT ![o] = v]
      /\ o <= Len(bl) \div 2 => ~ TwoLevelLess(bl[c], v)
  BY <1>1 DEF DownheapDone, Falls
<1>3. /\ bl \in Seq(BlockType) /\ v \in BlockType /\ o \in DOMAIN bl
      /\ HeapAt(h, "downheap", o) /\ MergedAt(h, merged, k, full)
  BY <1>1, <1>2, HeapNow DEF Merging
<1>4. PICK N \in Nat \ {0} : N = Size
  BY SizeType DEF TypeInv
<1>6. h = [bl EXCEPT ![o] = v] /\ h = Heap' /\ bl' = h
  BY <1>1, <1>2 DEF Heap
<1>7. /\ h \in Seq(BlockType) /\ Len(h) = Len(bl) /\ DOMAIN h = DOMAIN bl
  BY <1>3, <1>6, HoleFilled
<1>8. Placed(h)
  <2>1. BlocksWithin(h, N)
    BY <1>3, <1>4 DEF MergedAt
  <2>. QED  BY <1>4, <1>7, <2>1, BlocksPlaced
<1>9. HeapAt(h, "merge", o)
  <2>1. ASSUME NulFree PROVE OrderedBut(h, "merge", o)
    <3>0. \A b \in Seq(BlockType) : Len(b) \in Nat /\ DOMAIN b = 1 .. Len(b)
      OBVIOUS
    <3>1. PICK L \in Nat : L = Len(h) /\ L = Len(bl) /\ DOMAIN h = 1 .. L
      BY <1>7, <3>0
    <3>2. o \in 1 .. L
      BY <1>3, <1>7, <3>1
    <3>3. ASSUME NEW n \in 2 .. L, Parent(n) = o
          PROVE  NotBefore(h, n, o)
      <4>1. n \in Nat /\ (n = 2 * o \/ n = 2 * o + 1)
        BY <3>1, <3>2, <3>3, Children
      <4>2. o <= Len(bl) \div 2
        BY <3>1, <3>2, <3>3, <4>1
      <4>3. /\ TwoLevelLess(bl[c], v) <=> ~ NotBefore(h, c, o)
            /\ NotBefore(h, n, c) /\ c \in DOMAIN bl
        BY <1>1, <1>3, <1>6, <1>8, <2>1, <3>1, <3>3, <4>2, LesserChildIs
           DEF TypeInv, HeapAt
      <4>4. NotBefore(h, c, o)
        BY <1>2, <4>2, <4>3
      <4>5. n \in DOMAIN h /\ c \in DOMAIN h /\ o \in DOMAIN h
        BY <1>7, <3>1, <3>2, <3>3, <4>3
      <4>. QED  BY <1>8, <4>3, <4>4, <4>5, BlockOrder DEF TypeInv
    <3>4. OrderedBut(h, "downheap", o)
      BY <1>3, <2>1 DEF HeapAt
    <3>. QED  BY <1>8, <3>1, <3>2, <3>3, <3>4, FallenInOrder
  <2>. QED  BY <1>3, <2>1 DEF HeapAt
<1>10. HeapInv'
  BY <1>2, <1>3, <1>6, <1>7, <1>9, HeapNext
<1>11. BuildingInv'
  BY <1>2 DEF BuildingInv
<1>12. MergingInv'
  BY <1>2, <1>3, <1>6, MergedNext
<1>. QED  BY <1>10, <1>11, <1>12

-----------------------------------------------------------------------------
(* A sorted block is put behind the others.                                *)
LEMMA CacheType ==
  ASSUME PointsOK(ary), NEW p \in Nat
  PROVE  Cache(p) \in [0 .. CacheSize - 1 -> Byte]
<1> SUFFICES ASSUME NEW m \in 0 .. CacheSize - 1
             PROVE  Char(ary, p + m) \in Byte
  BY DEF Cache, Byte
<1>1. PICK t : t = ary.text /\ t \in Seq(Byte)
  BY DEF PointsOK
<1>2. p + m \in Nat
  BY SizesAssumption
<1>3. CASE p + m < Len(t)
  <2>1. p + m + 1 \in 1 .. Len(t)
    BY <1>1, <1>2, <1>3
  <2>2. t[p + m + 1] \in Byte
    BY <1>1, <2>1
  <2>. QED  BY <1>1, <1>3, <2>2 DEF Char
<1>4. CASE ~ (p + m < Len(t))
  BY <1>1, <1>4 DEF Char, Byte
<1>. QED  BY <1>3, <1>4

LEMMA LeftIs ==
  ASSUME NEW h, NEW x
  PROVE  x \in Left(h) <=> \E n \in DOMAIN h : x \in h[n].aryidx .. h[n].max - 1
BY DEF Left

(* The block b, of the places from .. to - 1, behind the blocks of h.        *)
Appended(h, b, g, from, to) ==
  /\ h \in Seq(BlockType) /\ b \in BlockType /\ g = Append(h, b)
  /\ from \in Nat /\ to \in Nat /\ b.aryidx = from /\ b.max = to /\ from < to
  /\ BlocksWithin(h, from) /\ Left(h) = 0 .. from - 1

LEMMA BlockAppended ==
  ASSUME NEW h, NEW b, NEW g, NEW from, NEW to, Appended(h, b, g, from, to)
  PROVE  /\ g \in Seq(BlockType) /\ Left(g) = 0 .. to - 1 /\ BlocksWithin(g, to)
         /\ CachesInv(h) /\ b.strbuf = Cache(Reached(ary, b)) => CachesInv(g)
         /\ /\ BlocksSorted(h)
            /\ \A x, y \in from .. to - 1 :
                 x < y => SuffixLess(ary, AryIdx2TxtIdx(ary, x), AryIdx2TxtIdx(ary, y))
            => BlocksSorted(g)
<1>0. /\ h \in Seq(BlockType) /\ b \in BlockType /\ g = Append(h, b)
      /\ from \in Nat /\ to \in Nat /\ b.aryidx = from /\ b.max = to /\ from < to
      /\ BlocksWithin(h, from) /\ Left(h) = 0 .. from - 1
  BY DEF Appended
<1>1. PICK L \in Nat : L = Len(h) /\ DOMAIN h = 1 .. L
  BY <1>0
<1>2. /\ g \in Seq(BlockType) /\ DOMAIN g = 1 .. L + 1 /\ g[L + 1] = b
      /\ \A n \in 1 .. L : g[n] = h[n]
  BY <1>0, <1>1
<1>3. \A n \in 1 .. L + 1 : n \in 1 .. L \/ n = L + 1
  BY <1>1
<1>4. L + 1 \in 1 .. L + 1 /\ \A n \in 1 .. L : n \in 1 .. L + 1 /\ n # L + 1
  BY <1>1
<1>5. Left(g) = 0 .. to - 1
  <2>1. \A x : x \in Left(g) <=> x \in Left(h) \/ x \in from .. to - 1
    <3> SUFFICES ASSUME NEW x
                 PROVE  x \in Left(g) <=> x \in Left(h) \/ x \in from .. to - 1
      OBVIOUS
    <3>1. x \in Left(g) <=> \E n \in 1 .. L + 1 : x \in g[n].aryidx .. g[n].max - 1
      BY <1>2 DEF Left
    <3>2. x \in Left(h) <=> \E n \in 1 .. L : x \in h[n].aryidx .. h[n].max - 1
      BY <1>1 DEF Left
    <3>3. g[L + 1].aryidx .. g[L + 1].max - 1 = from .. to - 1
      BY <1>0, <1>2
    <3>. QED  BY <1>2, <1>3, <1>4, <3>1, <3>2, <3>3
  <2>2. \A x : x \in 0 .. to - 1 <=> x \in 0 .. from - 1 \/ x \in from .. to - 1
    BY <1>0
  <2>. QED  BY <1>0, <2>1, <2>2
<1>6. BlocksWithin(g, to)
  <2>1. \A n \in 1 .. L : h[n].aryidx < h[n].max /\ h[n].max <= from
    BY <1>0, <1>1 DEF BlocksWithin
  <2>2. \A m, n \in 1 .. L :
          m # n => h[m].max <= h[n].aryidx \/ h[n].max <= h[m].aryidx
    BY <1>0, <1>1 DEF BlocksWithin
  <2>3. ASSUME NEW n \in 1 .. L
        PROVE  h[n].max <= to
    <3>1. h[n] \in BlockType
      BY <1>0, <1>1
    <3>2. h[n].max \in Nat
      BY <3>1 DEF BlockType
    <3>. QED  BY <1>0, <2>1, <3>2
  <2>4. \A n \in DOMAIN g : g[n].aryidx < g[n].max /\ g[n].max <= to
    BY <1>0, <1>2, <1>3, <2>1, <2>3
  <2>5. \A m, n \in DOMAIN g :
          m # n => g[m].max <= g[n].aryidx \/ g[n].max <= g[m].aryidx
    BY <1>0, <1>2, <1>3, <2>1, <2>2
  <2>. QED  BY <2>4, <2>5 DEF BlocksWithin
<1>7. CachesInv(h) /\ b.strbuf = Cache(Reached(ary, b)) => CachesInv(g)
  BY <1>1, <1>2, <1>3 DEF CachesInv
<1>8. ASSUME BlocksSorted(h),
             \A x, y \in from .. to - 1 :
               x < y => SuffixLess(ary, AryIdx2TxtIdx(ary, x), AryIdx2TxtIdx(ary, y))
      PROVE  BlocksSorted(g)
  BY <1>0, <1>1, <1>2, <1>3, <1>8 DEF BlocksSorted
<1>. QED  BY <1>2, <1>5, <1>6, <1>7, <1>8

LEMMA BlockSortedKeeps ==
  ASSUME TypeInv, MultikeyInv, HeapInv, BuildingInv, MergingInv, BlockSorted,
         bl_size \in Nat \ {0}
  PROVE  HeapInv' /\ BuildingInv' /\ MergingInv'
<1>1. PICK h, g, b, from, to : h = bl /\ g = bl' /\ b = v' /\ from = k /\ to = BlockEnd
  OBVIOUS
<1>2. PICK p : p = AryIdx2TxtIdx(ary, from)
  OBVIOUS
<1>3. /\ pc = "block" /\ Returned /\ pc' = "upheap" /\ ary' = ary /\ k' = k
      /\ bl_size' = bl_size /\ hole' = Len(g)
      /\ b = [aryidx |-> from, max |-> to, strbuf |-> Cache(p)]
      /\ g = Append(h, b)
  BY <1>1, <1>2 DEF BlockSorted
<1>4. PICK N \in Nat \ {0} : N = Size
  BY SizeType DEF TypeInv
<1>5. from \in Nat /\ to \in Nat /\ from < to /\ from < N /\ to <= N
  BY <1>1, <1>3, <1>4, BlockEndType DEF TypeInv, BuildingInv
<1>6. h = Heap /\ h \in Seq(BlockType) /\ HeapAt(h, "block", hole)
  BY <1>1, <1>3, HeapNow DEF Building, Heap
<1>7. Min({k, Size}) = from
  BY <1>1, <1>4, <1>5, MinOfTwo
<1>8. Left(h) = 0 .. from - 1 /\ BlocksWithin(h, from)
  BY <1>3, <1>6, <1>7 DEF BuildingInv
<1>9. p \in Nat
  <2>1. from + 1 \in 1 .. N
    BY <1>4, <1>5
  <2>. QED  BY <1>2, <1>4, <2>1, WordsDiffer DEF AryIdx2TxtIdx, TypeInv
<1>10. b \in BlockType /\ b.aryidx = from /\ b.max = to /\ b.strbuf = Cache(p)
  BY <1>3, <1>5, <1>9, CacheType DEF BlockType, TypeInv
<1>11. Reached(ary, b) = p
  BY <1>2, <1>10 DEF Reached
<1>12. NulFree => \A x, y \in from .. to - 1 :
         x < y => SuffixLess(ary, AryIdx2TxtIdx(ary, x), AryIdx2TxtIdx(ary, y))
  <2>1. SortingInv(from, to)
    BY <1>1, <1>3 DEF MultikeyInv
  <2>. QED  BY <1>3, <2>1, SortEnds
<1>13. /\ g \in Seq(BlockType) /\ Left(g) = 0 .. to - 1 /\ BlocksWithin(g, to)
       /\ CachesInv(g) /\ (NulFree => BlocksSorted(g))
  <2>1. /\ g \in Seq(BlockType) /\ Left(g) = 0 .. to - 1 /\ BlocksWithin(g, to)
        /\ CachesInv(h) /\ b.strbuf = Cache(Reached(ary, b)) => CachesInv(g)
        /\ /\ BlocksSorted(h)
           /\ \A x, y \in from .. to - 1 :
                x < y => SuffixLess(ary, AryIdx2TxtIdx(ary, x), AryIdx2TxtIdx(ary, y))
           => BlocksSorted(g)
    <3>1. h \in Seq(BlockType) /\ g = Append(h, b)
      BY <1>3, <1>6
    <3>2. b \in BlockType /\ b.aryidx = from /\ b.max = to
      BY <1>10
    <3>3. from \in Nat /\ to \in Nat /\ from < to
      BY <1>5
    <3>4. Appended(h, b, g, from, to)
      BY <1>8, <3>1, <3>2, <3>3 DEF Appended
    <3>. QED  BY <3>4, BlockAppended
  <2>2. CachesInv(h) /\ (NulFree => BlocksSorted(h))
    BY <1>6 DEF HeapAt
  <2>3. b.strbuf = Cache(Reached(ary, b))
    BY <1>10, <1>11
  <2>. QED  BY <1>12, <2>1, <2>2, <2>3
<1>14. Len(g) = Len(h) + 1 /\ Len(g) \in DOMAIN g /\ g[Len(g)] = b
  BY <1>3, <1>6, <1>10
<1>15. g = Heap'
  <2>1. Heap' = [g EXCEPT ![Len(g)] = b]
    BY <1>1, <1>3 DEF Heap
  <2>2. \A i : g[i] = b => g = [g EXCEPT ![i] = b]
    BY <1>13
  <2>. QED  BY <1>14, <2>1, <2>2
<1>16. HeapAt(g, "upheap", Len(g))
  <2>1. ASSUME NulFree PROVE OrderedBut(g, "upheap", Len(g))
    <3>1. Placed(h)
      BY <1>4, <1>5, <1>6, <1>8, BlocksPlaced
    <3>2. OrderedBut(h, "blocks", hole)
      BY <1>6, <2>1 DEF HeapAt, OrderedBut
    <3>. QED  BY <1>3, <1>10, <1>14, <3>1, <3>2, InsertedInOrder
  <2>. QED  BY <1>13, <2>1 DEF HeapAt
<1>17. HeapInv'
  BY <1>1, <1>3, <1>10, <1>13, <1>14, <1>15, <1>16, HeapNext
<1>18. BuildingInv'
  <2>1. BlockEnd' = to /\ Size' = N
    BY <1>1, <1>3, <1>4 DEF BlockEnd, Size
  <2>2. Left(Heap)' = 0 .. to - 1
    BY <1>13, <1>15 DEF Left
  <2>3. BlocksWithin(Heap, BlockEnd)'
    BY <1>13, <1>15, <2>1 DEF BlocksWithin
  <2>. QED  BY <1>1, <1>3, <1>5, <2>1, <2>2, <2>3 DEF BuildingInv
<1>19. MergingInv'
  BY <1>3 DEF MergingInv, Merging
<1>. QED  BY <1>17, <1>18, <1>19

-----------------------------------------------------------------------------
(* The steps that begin and leave the building of the heap.                *)
LEMMA LeftWithin ==
  ASSUME NEW h \in Seq(BlockType), NEW to, BlocksWithin(h, to), to \in Nat
  PROVE  Left(h) \subseteq 0 .. to - 1
<1> SUFFICES ASSUME NEW x \in Left(h) PROVE x \in 0 .. to - 1
  OBVIOUS
<1>1. PICK n \in DOMAIN h : x \in h[n].aryidx .. h[n].max - 1
  BY LeftIs
<1>2. h[n] \in BlockType /\ h[n].max <= to
  BY DEF BlocksWithin
<1>3. PICK i \in Nat, m \in Nat : i = h[n].aryidx /\ m = h[n].max
  BY <1>2 DEF BlockType
<1>. QED  BY <1>1, <1>2, <1>3

LEMMA NoHeap ==
  ASSUME pc' \notin {"start", "to host"} \union Building \union Merging
  PROVE  HeapInv' /\ BuildingInv' /\ MergingInv'
<1>1. HeapInv'
  BY DEF HeapInv, Building, Merging
<1>2. BuildingInv'
  BY DEF BuildingInv, Building
<1>3. MergingInv'
  BY DEF MergingInv, Merging
<1>. QED  BY <1>1, <1>2, <1>3

LEMMA NoBlockType == NoBlock \in BlockType
<1>1. \A m \in 0 .. CacheSize - 1 : 0 \in Byte
  BY DEF Byte
<1>. QED  BY <1>1 DEF NoBlock, BlockType

LEMMA ReversedToHostKeeps ==
  ASSUME TypeInv, HeapInv, ReversedToHost
  PROVE  HeapInv' /\ BuildingInv' /\ MergingInv'
<1>1. /\ pc = "to host" /\ pc' \in {"multikey", "qsort", "blocks"} /\ k' = 0
      /\ bl' = bl /\ v' = v /\ ary' = ary
  <2>1. /\ pc = "to host" /\ k' = 0 /\ bl' = bl /\ v' = v /\ ary' = ary
        /\ pc' = CASE bl_size = 0 -> "multikey"
                   [] bl_size = -1 -> "qsort"
                   [] OTHER -> "blocks"
    BY DEF ReversedToHost, heap
  <2>2. PICK s \in Int : s = bl_size
    <3>1. bl_size \in Nat \union {-1}
      BY DEF TypeInv
    <3>. QED  BY <3>1
  <2>. QED  BY <2>1, <2>2
<1>2. CASE pc' # "blocks"
  BY <1>1, <1>2, NoHeap DEF Building, Merging
<1>3. CASE pc' = "blocks"
  <2>1. bl' = <<>> /\ v' \in BlockType
    BY <1>1, NoBlockType DEF HeapInv
  <2>2. Heap' = <<>>
    BY <1>3, <2>1 DEF Heap
  <2>3. HeapInv'
    <3>1. CachesInv(<<>>) /\ BlocksSorted(<<>>) /\ OrderedBut(<<>>, "blocks", hole')
      BY DEF CachesInv, BlocksSorted, OrderedBut
    <3>2. bl' \in Seq(BlockType)
      BY <2>1
    <3>. QED  BY <1>1, <1>3, <2>1, <2>2, <3>1, <3>2, HeapNext DEF HeapAt
  <2>4. BuildingInv'
    <3>1. PICK N \in Nat \ {0} : N = Size /\ N = Size'
      BY <1>1, SizeType DEF TypeInv, Size
    <3>2. Min({k, Size})' = 0
      <4>1. 0 \in Int /\ N \in Int /\ 0 <= N
        BY <3>1
      <4>2. Min({0, N}) = 0
        BY <4>1, MinOfTwo DEF MinOf
      <4>. QED  BY <1>1, <3>1, <4>2
    <3>3. Left(Heap)' = {} /\ BlocksWithin(Heap, Min({k, Size}))'
      BY <2>2 DEF Left, BlocksWithin
    <3>. QED  BY <1>3, <3>2, <3>3 DEF BuildingInv
  <2>5. MergingInv'
    BY <1>3 DEF MergingInv, Merging
  <2>. QED  BY <2>3, <2>4, <2>5
<1>. QED  BY <1>2, <1>3

LEMMA SortBlockKeeps ==
  ASSUME TypeInv, HeapInv, BuildingInv, MergingInv, SortBlock
  PROVE  HeapInv' /\ BuildingInv' /\ MergingInv'
<1>1. PICK h : h = Heap
  OBVIOUS
<1>2. /\ pc = "blocks" /\ pc' = "block" /\ k < Size /\ k' = k /\ bl_size' = bl_size
      /\ ary' = ary /\ bl' = bl /\ v' = v /\ hole' = hole
  BY DEF SortBlock, heap
<1>3. /\ bl \in Seq(BlockType) /\ v \in BlockType /\ HeapAt(h, "blocks", hole)
  BY <1>1, <1>2, HeapNow DEF Building
<1>4. h = Heap' /\ h = bl
  BY <1>1, <1>2 DEF Heap
<1>5. HeapAt(h, "block", hole)
  BY <1>3 DEF HeapAt, OrderedBut
<1>6. HeapInv'
  BY <1>2, <1>3, <1>4, <1>5, HeapNext
<1>7. BuildingInv'
  <2>1. Size' = Size /\ Min({k, Size})' = Min({k, Size})
    BY <1>2 DEF Size
  <2>2. Left(Heap)' = Left(h)
    BY <1>4 DEF Left
  <2>3. BlocksWithin(Heap, Min({k, Size}))'
    BY <1>1, <1>2, <1>4, <2>1 DEF BuildingInv, BlocksWithin
  <2>. QED  BY <1>1, <1>2, <2>1, <2>2, <2>3 DEF BuildingInv
<1>8. MergingInv'
  BY <1>2 DEF MergingInv, Merging
<1>. QED  BY <1>6, <1>7, <1>8

LEMMA OpenMergedKeeps ==
  ASSUME TypeInv, HeapInv, BuildingInv, MergingInv, OpenMerged
  PROVE  HeapInv' /\ BuildingInv' /\ MergingInv'
<1>1. PICK h : h = Heap
  OBVIOUS
<1>2. /\ pc = "blocks" /\ pc' = "merge" /\ k >= Size /\ k' = 0
      /\ ary' = ary /\ bl' = bl /\ v' = v /\ hole' = hole /\ merged' = <<>>
  BY DEF OpenMerged, heap
<1>3. /\ bl \in Seq(BlockType) /\ v \in BlockType /\ HeapAt(h, "blocks", hole)
  BY <1>1, <1>2, HeapNow DEF Building
<1>4. h = Heap' /\ h = bl
  BY <1>1, <1>2 DEF Heap
<1>5. HeapAt(h, "merge", hole)
  BY <1>3 DEF HeapAt, OrderedBut
<1>6. HeapInv'
  BY <1>2, <1>3, <1>4, <1>5, HeapNext
<1>7. BuildingInv'
  BY <1>2 DEF BuildingInv
<1>8. MergingInv'
  <2>1. PICK N \in Nat \ {0} : N = Size
    BY SizeType DEF TypeInv
  <2>2. Min({k, Size}) = N
    <3>1. k \in Nat /\ k >= N
      BY <1>2, <2>1 DEF TypeInv
    <3>. QED  BY <2>1, <3>1, MinOfTwo DEF MinOf
  <2>3. Left(h) = 0 .. N - 1 /\ BlocksWithin(h, N)
    BY <1>1, <1>2, <2>2 DEF BuildingInv
  <2>4. Cardinality(Left(h)) = N
    BY <2>1, <2>3, FS_Interval
  <2>5. MergedAt(h, <<>>, 0, full')
    <3>1. ToSet(<<>>) = {} /\ Len(<<>>) = 0 /\ <<>> \in Seq(Nat)
      BY DEF ToSet
    <3>2. Sorted([ary EXCEPT !.array = <<>>])
      <4>1. [ary EXCEPT !.array = <<>>].array = <<>>
        BY DEF TypeInv, PointsOK
      <4>. QED  BY <4>1 DEF Sorted
    <3>3. 0 <= N /\ N - 0 = N
      BY <2>1
    <3>. QED  BY <2>1, <2>3, <2>4, <3>1, <3>2, <3>3 DEF MergedAt
  <2>. QED  BY <1>2, <1>4, <2>5, MergedNext
<1>. QED  BY <1>6, <1>7, <1>8

(* While a block is sorted, the blocks in the heap keep their words.       *)
LEMMA SortInBlockKeeps ==
  ASSUME HereInv, HeapInv, BuildingInv, Sort, pc = "block"
  PROVE  HeapInv' /\ BuildingInv' /\ MergingInv'
<1>1. PICK from \in Nat, to \in Nat :
        from <= to /\ to <= Size /\ from = k /\ to = BlockEnd /\ Kept(from, to)
  BY SortKeeps
<1>2. /\ pc' = "block" /\ bl' = bl /\ v' = v /\ hole' = hole /\ k' = k
      /\ bl_size' = bl_size
  BY DEF Sort, heap
<1>3. /\ PointsOK(ary) /\ PointsOK(ary') /\ ary'.text = ary.text
      /\ Moved(ary.array, ary'.array, from, to - from)
  BY <1>1 DEF Kept, HereInv, TypeInv
<1>4. PICK N \in Nat \ {0} : N = Size
  BY <1>3, SizeType
<1>5. Size' = N /\ from < N
  <2>1. Len(ary'.array) = Len(ary.array)
    BY <1>3 DEF Moved
  <2>. QED  BY <1>1, <1>2, <1>4, <2>1 DEF Size, BuildingInv
<1>6. ASSUME NEW i \in 0 .. from - 1
      PROVE  AryIdx2TxtIdx(ary', i) = AryIdx2TxtIdx(ary, i)
  <2>1. to - from \in Nat /\ i \in 0 .. N - 1 /\ i \notin from .. from + (to - from) - 1
    BY <1>1, <1>4, <1>5
  <2>2. ary'.array[i + 1] = ary.array[i + 1]
    BY <1>3, <1>4, <2>1, MovedZero DEF Size
  <2>. QED  BY <2>2 DEF AryIdx2TxtIdx
<1>7. /\ \A p, q : SuffixLess(ary', p, q) <=> SuffixLess(ary, p, q)
      /\ \A p : Cache(p)' = Cache(p)
      /\ NulFree' <=> NulFree
  <2>1. \A p : Char(ary', p) = Char(ary, p)
    BY <1>3 DEF Char
  <2>. QED  BY <1>3, <2>1 DEF SuffixLess, Cache, NulFree
<1>8. Heap = bl /\ Heap' = bl
  BY <1>2 DEF Heap
<1>9. Min({k, Size}) = from /\ Min({k, Size})' = from
  BY <1>1, <1>2, <1>4, <1>5, MinOfTwo DEF MinOf
<1>10. /\ bl \in Seq(BlockType) /\ CachesInv(bl)
       /\ NulFree => BlocksSorted(bl) /\ HeapOrder(bl)
       /\ Left(bl) = 0 .. from - 1 /\ BlocksWithin(bl, from)
  BY <1>8, <1>9 DEF HeapInv, BuildingInv, Building
<1>11. ASSUME NEW n \in DOMAIN bl, NEW x \in bl[n].aryidx .. bl[n].max - 1
       PROVE  x \in 0 .. from - 1
  <2>1. x \in Left(bl)
    BY LeftIs
  <2>. QED  BY <1>10, <2>1
<1>12. ASSUME NEW n \in DOMAIN bl
       PROVE  Reached(ary', bl[n]) = Reached(ary, bl[n])
  <2>1. bl[n] \in BlockType /\ bl[n].aryidx < bl[n].max
    BY <1>10 DEF BlocksWithin
  <2>2. PICK i \in Nat, m \in Nat : i = bl[n].aryidx /\ m = bl[n].max
    BY <2>1 DEF BlockType
  <2>3. i \in 0 .. from - 1
    BY <1>11, <2>1, <2>2
  <2>. QED  BY <1>6, <2>2, <2>3 DEF Reached
<1>13. CachesInv(Heap)'
  BY <1>7, <1>8, <1>10, <1>12 DEF CachesInv
<1>14. ASSUME NulFree PROVE BlocksSorted(Heap)'
  <2>1. \A n \in DOMAIN bl : \A x, y \in bl[n].aryidx .. bl[n].max - 1 :
          x < y => SuffixLess(ary, AryIdx2TxtIdx(ary, x), AryIdx2TxtIdx(ary, y))
    BY <1>10, <1>14 DEF BlocksSorted
  <2>2. \A n \in DOMAIN bl : \A x, y \in bl[n].aryidx .. bl[n].max - 1 :
          x < y => SuffixLess(ary', AryIdx2TxtIdx(ary', x), AryIdx2TxtIdx(ary', y))
    BY <1>6, <1>7, <1>11, <2>1
  <2>. QED  BY <1>8, <2>2 DEF BlocksSorted
<1>15. ASSUME NulFree PROVE HeapOrder(Heap)'
  <2>1. \A n \in 2 .. Len(bl) : NotBefore(bl, n, n \div 2)
    BY <1>10, <1>15 DEF HeapOrder
  <2>2. ASSUME NEW n \in 2 .. Len(bl) PROVE NotBefore(bl, n, n \div 2)'
    <3>1. Len(bl) \in Nat /\ DOMAIN bl = 1 .. Len(bl)
      BY <1>10
    <3>2. n \in DOMAIN bl /\ n \div 2 \in DOMAIN bl
      BY <3>1
    <3>. QED  BY <1>2, <1>7, <1>12, <2>1, <3>2 DEF NotBefore
  <2>3. \A n \in 2 .. Len(Heap') : NotBefore(bl, n, n \div 2)' <=> NotBefore(Heap, n, n \div 2)'
    BY <1>2, <1>8 DEF NotBefore
  <2>. QED  BY <1>2, <1>8, <2>2, <2>3 DEF HeapOrder
<1>16. HeapInv'
  <2>1. v \in BlockType
    BY DEF HeapInv, Building
  <2>. QED  BY <1>2, <1>7, <1>10, <1>13, <1>14, <1>15, <2>1 DEF HeapInv
<1>17. BuildingInv'
  <2>1. Left(Heap)' = Left(bl)
    BY <1>8 DEF Left
  <2>2. BlocksWithin(Heap, Min({k, Size}))'
    BY <1>8, <1>9, <1>10 DEF BlocksWithin
  <2>. QED  BY <1>1, <1>2, <1>5, <1>9, <1>10, <2>1, <2>2 DEF BuildingInv
<1>18. MergingInv'
  BY <1>2 DEF MergingInv, Merging
<1>. QED  BY <1>16, <1>17, <1>18

-----------------------------------------------------------------------------
(* The top of the heap gives out a word.                                   *)
OnTop(h, c, g, i, m) ==
  /\ h \in Seq(BlockType) /\ c \in BlockType /\ 1 \in DOMAIN h
  /\ g = [h EXCEPT ![1] = c] /\ i \in Nat /\ m \in Nat
  /\ i = h[1].aryidx /\ m = h[1].max /\ c.aryidx = i + 1 /\ c.max = m /\ i + 1 < m
  /\ c.strbuf = Cache(Reached(ary, c))

LEMMA TopForward ==
  ASSUME NEW h, NEW c, NEW g, NEW i, NEW m, OnTop(h, c, g, i, m),
         NEW to, BlocksWithin(h, to)
  PROVE  /\ g \in Seq(BlockType) /\ Len(g) = Len(h) /\ \A n \in 2 .. Len(g) : g[n] = h[n]
         /\ Left(g) = Left(h) \ {i} /\ i \in Left(h) /\ BlocksWithin(g, to)
         /\ CachesInv(h) => CachesInv(g)
         /\ BlocksSorted(h) => BlocksSorted(g)
<1>0. /\ h \in Seq(BlockType) /\ c \in BlockType /\ 1 \in DOMAIN h
      /\ g = [h EXCEPT ![1] = c] /\ i \in Nat /\ m \in Nat
      /\ i = h[1].aryidx /\ m = h[1].max /\ c.aryidx = i + 1 /\ c.max = m /\ i + 1 < m
      /\ c.strbuf = Cache(Reached(ary, c))
  BY DEF OnTop
<1>1. PICK L \in Nat : L = Len(h) /\ DOMAIN h = 1 .. L
  BY <1>0
<1>2. /\ g \in Seq(BlockType) /\ Len(g) = L /\ DOMAIN g = 1 .. L /\ g[1] = c
      /\ \A n \in 1 .. L : n # 1 => g[n] = h[n]
  BY <1>0, <1>1, HoleFilled
<1>3. 1 \in 1 .. L
  BY <1>0, <1>1
<1>4. /\ \A n \in 1 .. L : h[n].aryidx < h[n].max /\ h[n].max <= to
      /\ \A l, n \in 1 .. L :
           l # n => h[l].max <= h[n].aryidx \/ h[n].max <= h[l].aryidx
  BY <1>1 DEF BlocksWithin
<1>5. ASSUME NEW n \in 1 .. L
      PROVE  h[n].aryidx \in Nat /\ h[n].max \in Nat
  <2>1. h[n] \in BlockType
    BY <1>0, <1>1
  <2>. QED  BY <2>1 DEF BlockType
<1>6. ASSUME NEW n \in 1 .. L, n # 1
      PROVE  i \notin h[n].aryidx .. h[n].max - 1
  <2>1. h[1].max <= h[n].aryidx \/ h[n].max <= h[1].aryidx
    BY <1>3, <1>4, <1>6
  <2>2. PICK q \in Nat, r \in Nat : q = h[n].aryidx /\ r = h[n].max
    BY <1>5
  <2>. QED  BY <1>0, <2>1, <2>2
<1>7. Left(g) = Left(h) \ {i} /\ i \in Left(h)
  <2>1. ASSUME NEW x
        PROVE  x \in Left(g) <=> x \in Left(h) /\ x # i
    <3>1. x \in Left(g) <=> \E n \in 1 .. L : x \in g[n].aryidx .. g[n].max - 1
      BY <1>2 DEF Left
    <3>2. x \in Left(h) <=> \E n \in 1 .. L : x \in h[n].aryidx .. h[n].max - 1
      BY <1>1 DEF Left
    <3>3. x \in g[1].aryidx .. g[1].max - 1 <=> x \in h[1].aryidx .. h[1].max - 1 /\ x # i
      <4>1. x \in g[1].aryidx .. g[1].max - 1 <=> x \in i + 1 .. m - 1
        BY <1>0, <1>2
      <4>2. x \in h[1].aryidx .. h[1].max - 1 <=> x \in i .. m - 1
        BY <1>0
      <4>. QED  BY <1>0, <4>1, <4>2
    <3>. QED  BY <1>2, <1>3, <1>6, <3>1, <3>2, <3>3
  <2>2. i \in h[1].aryidx .. h[1].max - 1
    BY <1>0
  <2>. QED  BY <1>1, <1>3, <2>1, <2>2, LeftIs
<1>8. BlocksWithin(g, to)
  <2>1. \A n \in 1 .. L : g[n].aryidx < g[n].max /\ g[n].max <= to
    BY <1>0, <1>2, <1>3, <1>4
  <2>2. ASSUME NEW l \in 1 .. L, NEW n \in 1 .. L, l # n
        PROVE  g[l].max <= g[n].aryidx \/ g[n].max <= g[l].aryidx
    <3>1. h[l].max <= h[n].aryidx \/ h[n].max <= h[l].aryidx
      BY <1>4, <2>2
    <3>2. /\ h[l].aryidx \in Nat /\ h[l].max \in Nat
          /\ h[n].aryidx \in Nat /\ h[n].max \in Nat
      BY <1>5
    <3>3. CASE l = 1
      BY <1>0, <1>2, <2>2, <3>1, <3>2, <3>3
    <3>4. CASE n = 1
      BY <1>0, <1>2, <2>2, <3>1, <3>2, <3>4
    <3>5. CASE l # 1 /\ n # 1
      BY <1>2, <3>1, <3>5
    <3>. QED  BY <3>3, <3>4, <3>5
  <2>. QED  BY <1>2, <2>1, <2>2 DEF BlocksWithin
<1>9. CachesInv(h) => CachesInv(g)
  BY <1>0, <1>1, <1>2 DEF CachesInv
<1>10. ASSUME BlocksSorted(h) PROVE BlocksSorted(g)
  <2>1. ASSUME NEW x \in g[1].aryidx .. g[1].max - 1
        PROVE  x \in h[1].aryidx .. h[1].max - 1
    BY <1>0, <1>2
  <2>2. \A n \in 1 .. L : \A x \in g[n].aryidx .. g[n].max - 1 :
          x \in h[n].aryidx .. h[n].max - 1
    BY <1>2, <2>1
  <2>. QED  BY <1>1, <1>2, <1>10, <2>2 DEF BlocksSorted
<1>11. \A n \in 2 .. L : n \in 1 .. L /\ n # 1
  BY <1>1
<1>. QED  BY <1>1, <1>2, <1>7, <1>8, <1>9, <1>10, <1>11

(* The last block of h takes the place of the top, whose word i was its    *)
(* last one.                                                               *)
LastOnTop(h, g, L, i) ==
  /\ h \in Seq(BlockType) /\ L \in Nat /\ L = Len(h) /\ L > 1
  /\ g \in Seq(BlockType) /\ Len(g) = L - 1 /\ g[1] = h[L]
  /\ \A n \in 2 .. L - 1 : g[n] = h[n]
  /\ i \in Nat /\ i = h[1].aryidx /\ i + 1 >= h[1].max

LEMMA LastToTop ==
  ASSUME NEW h, NEW g, NEW L, NEW i, LastOnTop(h, g, L, i), NEW to, BlocksWithin(h, to)
  PROVE  /\ Left(g) = Left(h) \ {i} /\ i \in Left(h) /\ BlocksWithin(g, to)
         /\ CachesInv(h) => CachesInv(g)
         /\ BlocksSorted(h) => BlocksSorted(g)
<1>1. /\ L \in Nat /\ L > 1 /\ DOMAIN h = 1 .. L /\ DOMAIN g = 1 .. L - 1
      /\ \A n \in 1 .. L : h[n] \in BlockType
  BY DEF LastOnTop
<1>2. i \in Nat /\ i = h[1].aryidx /\ i + 1 >= h[1].max
  BY DEF LastOnTop
<1>3. g[1] = h[L] /\ \A n \in 2 .. L - 1 : g[n] = h[n]
  BY DEF LastOnTop
<1> DEFINE From(n) == IF n = 1 THEN L ELSE n
<1>4. /\ \A n \in 1 .. L - 1 : From(n) \in 2 .. L /\ g[n] = h[From(n)]
      /\ \A n \in 2 .. L : \E l \in 1 .. L - 1 : From(l) = n
      /\ \A l, n \in 1 .. L - 1 : l # n => From(l) # From(n)
  <2>1. ASSUME NEW n \in 1 .. L - 1 PROVE From(n) \in 2 .. L /\ g[n] = h[From(n)]
    <3>1. n # 1 => n \in 2 .. L - 1 /\ n \in 2 .. L
      BY <1>1
    <3>2. L \in 2 .. L
      BY <1>1
    <3>. QED  BY <1>3, <3>1, <3>2
  <2>2. \A n \in 2 .. L : \E l \in 1 .. L - 1 : From(l) = n
    <3> SUFFICES ASSUME NEW n \in 2 .. L PROVE \E l \in 1 .. L - 1 : From(l) = n
      OBVIOUS
    <3>1. CASE n = L
      <4>1. 1 \in 1 .. L - 1 /\ From(1) = n
        BY <1>1, <3>1
      <4>. QED  BY <4>1
    <3>2. CASE n # L
      <4>1. n \in 1 .. L - 1 /\ From(n) = n
        BY <1>1, <3>2
      <4>. QED  BY <4>1
    <3>. QED  BY <3>1, <3>2
  <2>3. ASSUME NEW l \in 1 .. L - 1, NEW n \in 1 .. L - 1, l # n
        PROVE  From(l) # From(n)
    BY <1>1, <2>3
  <2>. QED  BY <2>1, <2>2, <2>3
<1>5. \A n \in 2 .. L : n \in 1 .. L /\ n # 1
  BY <1>1
<1>6. \A n \in 1 .. L : n = 1 \/ n \in 2 .. L
  BY <1>1
<1> HIDE DEF From
<1>7. /\ \A n \in 1 .. L : h[n].aryidx < h[n].max /\ h[n].max <= to
      /\ \A l, n \in 1 .. L :
           l # n => h[l].max <= h[n].aryidx \/ h[n].max <= h[l].aryidx
  BY <1>1 DEF BlocksWithin
<1>8. 1 \in 1 .. L /\ h[1].max = i + 1
  <2>1. 1 \in 1 .. L /\ h[1] \in BlockType
    BY <1>1
  <2>2. h[1].aryidx < h[1].max /\ h[1].max \in Nat
    BY <1>7, <2>1 DEF BlockType
  <2>. QED  BY <1>2, <2>1, <2>2
<1>9. ASSUME NEW n \in 2 .. L
      PROVE  i \notin h[n].aryidx .. h[n].max - 1
  <2>1. h[1].max <= h[n].aryidx \/ h[n].max <= h[1].aryidx
    BY <1>5, <1>7, <1>8
  <2>2. h[n] \in BlockType
    BY <1>1
  <2>3. PICK q \in Nat, r \in Nat : q = h[n].aryidx /\ r = h[n].max
    BY <2>2 DEF BlockType
  <2>. QED  BY <1>2, <1>8, <2>1, <2>3
<1>10. Left(g) = Left(h) \ {i} /\ i \in Left(h)
  <2>1. ASSUME NEW x
        PROVE  x \in Left(g) <=> x \in Left(h) /\ x # i
    <3>1. x \in Left(g) <=> \E n \in 1 .. L - 1 : x \in g[n].aryidx .. g[n].max - 1
      BY <1>1 DEF Left
    <3>2. x \in Left(h) <=> \E n \in 1 .. L : x \in h[n].aryidx .. h[n].max - 1
      BY <1>1 DEF Left
    <3>3. x \in h[1].aryidx .. h[1].max - 1 <=> x = i
      BY <1>2, <1>8
    <3>4. x \in Left(g) <=> \E n \in 2 .. L : x \in h[n].aryidx .. h[n].max - 1
      BY <1>4, <3>1
    <3>. QED  BY <1>5, <1>6, <1>8, <1>9, <3>2, <3>3, <3>4
  <2>2. i \in h[1].aryidx .. h[1].max - 1
    BY <1>2, <1>8
  <2>. QED  BY <1>1, <1>8, <2>1, <2>2, LeftIs
<1>11. BlocksWithin(g, to)
  <2>1. \A n \in 1 .. L - 1 : g[n].aryidx < g[n].max /\ g[n].max <= to
    BY <1>4, <1>5, <1>7
  <2>2. \A l, n \in 1 .. L - 1 :
           l # n => g[l].max <= g[n].aryidx \/ g[n].max <= g[l].aryidx
    BY <1>4, <1>5, <1>7
  <2>. QED  BY <1>1, <2>1, <2>2 DEF BlocksWithin
<1>12. CachesInv(h) => CachesInv(g)
  BY <1>1, <1>4, <1>5 DEF CachesInv
<1>13. BlocksSorted(h) => BlocksSorted(g)
  BY <1>1, <1>4, <1>5 DEF BlocksSorted
<1>. QED  BY <1>10, <1>11, <1>12, <1>13

(* What TopMoved makes of the heap h, whose top stands at the word i.      *)
TopGone(h, g, i) ==
  /\ g \in Seq(BlockType) /\ Len(g) <= Len(h) /\ \A n \in 2 .. Len(g) : g[n] = h[n]
  /\ Left(g) = Left(h) \ {i} /\ i \in Left(h) /\ BlocksWithin(g, Size)
  /\ CachesInv(h) => CachesInv(g)
  /\ BlocksSorted(h) => BlocksSorted(g)

LEMMA TopGoes ==
  ASSUME PointsOK(ary), bl \in Seq(BlockType), bl # <<>>, BlocksWithin(bl, Size),
         NEW g, g = TopMoved, NEW i, i = bl[1].aryidx
  PROVE  TopGone(bl, g, i)
<1>1. PICK N \in Nat \ {0} : N = Size
  BY SizeType
<1>2. PICK L \in Nat : L = Len(bl) /\ DOMAIN bl = 1 .. L
  OBVIOUS
<1>3. PICK b \in BlockType : b = bl[1] /\ 1 \in DOMAIN bl /\ L >= 1
  BY <1>2
<1>4. PICK m \in Nat : m = b.max /\ b.aryidx = i /\ i \in Nat /\ i < m /\ m <= N
  BY <1>1, <1>3 DEF BlocksWithin, BlockType
<1>5. CASE i + 1 < m
  <2>1. PICK p : p = AryIdx2TxtIdx(ary, i + 1)
    OBVIOUS
  <2>2. PICK c : c = [b EXCEPT !.aryidx = i + 1, !.strbuf = Cache(p)]
    OBVIOUS
  <2>3. p \in Nat
    <3>1. i + 1 + 1 \in 1 .. N
      BY <1>1, <1>4, <1>5
    <3>. QED  BY <1>1, <2>1, <3>1, WordsDiffer DEF AryIdx2TxtIdx
  <2>4. /\ c \in BlockType /\ c.aryidx = i + 1 /\ c.max = m
        /\ c.strbuf = Cache(p)
    <3>1. Cache(p) \in [0 .. CacheSize - 1 -> Byte] /\ i + 1 \in Nat
      BY <1>4, <2>3, CacheType
    <3>. QED  BY <1>4, <2>2, <3>1 DEF BlockType
  <2>5. c.strbuf = Cache(Reached(ary, c))
    BY <2>1, <2>4 DEF Reached
  <2>6. g = [bl EXCEPT ![1] = c]
    <3>1. ~ (i + 1 >= m)
      BY <1>4, <1>5
    <3>. QED  BY <1>3, <1>4, <2>1, <2>2, <3>1 DEF TopMoved
  <2>7. /\ g \in Seq(BlockType) /\ Len(g) = L /\ \A n \in 2 .. Len(g) : g[n] = bl[n]
        /\ Left(g) = Left(bl) \ {i} /\ i \in Left(bl) /\ BlocksWithin(g, Size)
        /\ CachesInv(bl) => CachesInv(g)
        /\ BlocksSorted(bl) => BlocksSorted(g)
    <3>1. OnTop(bl, c, g, i, m)
      BY <1>3, <1>4, <1>5, <2>4, <2>5, <2>6 DEF OnTop
    <3>. QED  BY <1>2, <3>1, TopForward
  <2>. QED  BY <1>2, <2>7 DEF TopGone
<1>6. CASE i + 1 >= m /\ L = 1
  <2>1. g = <<>>
    BY <1>2, <1>3, <1>4, <1>6 DEF TopMoved
  <2>2. Left(bl) = {i}
    <3>1. \A x : x \in Left(bl) <=> x \in b.aryidx .. b.max - 1
      BY <1>2, <1>3, <1>6, LeftIs
    <3>2. \A x : x \in b.aryidx .. b.max - 1 <=> x = i
      BY <1>4, <1>6
    <3>. QED  BY <3>1, <3>2
  <2>3. Left(g) = {} /\ BlocksWithin(g, Size) /\ CachesInv(g) /\ BlocksSorted(g)
    BY <2>1 DEF Left, BlocksWithin, CachesInv, BlocksSorted
  <2>. QED  BY <1>2, <2>1, <2>2, <2>3 DEF TopGone
<1>7. CASE i + 1 >= m /\ L > 1
  <2>1. PICK f \in Seq(BlockType) :
          f = Front(bl) /\ Len(f) = L - 1 /\ \A n \in 1 .. L - 1 : f[n] = bl[n]
    <3>1. L - 1 \in 0 .. L
      BY <1>7
    <3>2. Front(bl) = SubSeq(bl, 1, L - 1)
      BY <1>2 DEF Front
    <3>. QED  BY <1>2, <3>1, <3>2
  <2>2. PICK c \in BlockType : c = bl[L]
    BY <1>2, <1>7
  <2>3. g = [f EXCEPT ![1] = c]
    BY <1>2, <1>3, <1>4, <1>7, <2>1, <2>2 DEF TopMoved
  <2>4. 1 \in DOMAIN f /\ DOMAIN f = 1 .. L - 1
    BY <1>7, <2>1
  <2>5. /\ g \in Seq(BlockType) /\ Len(g) = L - 1 /\ g[1] = c
        /\ \A n \in 1 .. L - 1 : n # 1 => g[n] = f[n]
    BY <2>1, <2>3, <2>4, HoleFilled
  <2>6. \A n \in 2 .. L - 1 : n \in 1 .. L - 1 /\ n # 1
    BY <1>2
  <2>7. \A n \in 2 .. L - 1 : g[n] = bl[n]
    BY <2>1, <2>5, <2>6
  <2>8. LastOnTop(bl, g, L, i)
    BY <1>2, <1>3, <1>4, <1>7, <2>2, <2>5, <2>7 DEF LastOnTop
  <2>9. /\ Left(g) = Left(bl) \ {i} /\ i \in Left(bl) /\ BlocksWithin(g, Size)
        /\ CachesInv(bl) => CachesInv(g)
        /\ BlocksSorted(bl) => BlocksSorted(g)
    BY <2>8, LastToTop
  <2>10. Len(g) <= Len(bl)
    BY <1>2, <2>5
  <2>. QED  BY <2>5, <2>7, <2>9, <2>10 DEF TopGone
<1>. QED  BY <1>3, <1>4, <1>5, <1>6, <1>7

(* The word of the top goes before every other one left.                   *)
LEMMA TopWordIsLeast ==
  ASSUME PointsOK(ary), NEW h, Placed(h), BlocksWithin(h, Size), NEW q,
         OrderedBut(h, "merge", q), BlocksSorted(h), 1 \in DOMAIN h,
         NEW x \in Left(h), x # h[1].aryidx
  PROVE  SuffixLess(ary, AryIdx2TxtIdx(ary, h[1].aryidx), AryIdx2TxtIdx(ary, x))
<1>1. PICK N \in Nat \ {0} : N = Size
  BY SizeType
<1>2. PICK n \in DOMAIN h : x \in h[n].aryidx .. h[n].max - 1
  BY LeftIs
<1>3. \A l \in DOMAIN h : h[l] \in BlockType
  BY DEF Placed
<1>4. PICK i \in Nat, j \in Nat : i = h[1].aryidx /\ j = h[1].max /\ i < j /\ j <= N
  BY <1>1, <1>3 DEF BlocksWithin, BlockType
<1>5. PICK r \in Nat, m \in Nat : r = h[n].aryidx /\ m = h[n].max /\ r < m /\ m <= N
  BY <1>1, <1>3 DEF BlocksWithin, BlockType
<1> DEFINE W(l) == AryIdx2TxtIdx(ary, l)
<1>6. /\ \A k1, k2, k3 \in 0 .. N - 1 :
           SuffixLess(ary, W(k1), W(k2)) /\ SuffixLess(ary, W(k2), W(k3))
             => SuffixLess(ary, W(k1), W(k3))
      /\ \A k1, k2 \in 0 .. N - 1 :
           k1 = k2 \/ SuffixLess(ary, W(k1), W(k2)) \/ SuffixLess(ary, W(k2), W(k1))
  <2>1. \A l \in 0 .. N - 1 : l + 1 \in 1 .. N
    BY <1>1
  <2>2. /\ \A k1, k2, k3 \in 1 .. N :
             /\ SuffixLess(ary, ary.array[k1], ary.array[k2])
             /\ SuffixLess(ary, ary.array[k2], ary.array[k3])
             => SuffixLess(ary, ary.array[k1], ary.array[k3])
        /\ \A k1, k2 \in 1 .. N :
             \/ k1 = k2
             \/ SuffixLess(ary, ary.array[k1], ary.array[k2])
             \/ SuffixLess(ary, ary.array[k2], ary.array[k1])
    BY <1>1, WordOrder
  <2>3. \A k1, k2 \in 0 .. N - 1 : k1 + 1 = k2 + 1 => k1 = k2
    BY <1>1
  <2>. QED  BY <2>1, <2>2, <2>3 DEF AryIdx2TxtIdx
<1>7. \A l \in DOMAIN h : Reached(ary, h[l]) = W(h[l].aryidx)
  BY DEF Reached
<1>8. \A l \in DOMAIN h : \A y, z \in h[l].aryidx .. h[l].max - 1 :
        y < z => SuffixLess(ary, W(y), W(z))
  BY DEF BlocksSorted
<1> HIDE DEF W
<1>9. CASE n = 1
  <2>1. i \in h[1].aryidx .. h[1].max - 1 /\ x \in h[1].aryidx .. h[1].max - 1 /\ i < x
    BY <1>2, <1>4, <1>9
  <2>. QED  BY <1>4, <1>8, <2>1 DEF W
<1>10. CASE n # 1
  <2>1. j <= r \/ m <= i
    BY <1>4, <1>5, <1>10 DEF BlocksWithin
  <2>2. i \in 0 .. N - 1 /\ r \in 0 .. N - 1 /\ i # r /\ x \in 0 .. N - 1
    BY <1>1, <1>2, <1>4, <1>5, <2>1
  <2>3. ~ SuffixLess(ary, W(r), W(i))
    BY <1>4, <1>5, <1>7, TopIsLeast DEF NotBefore
  <2>4. SuffixLess(ary, W(i), W(r))
    BY <1>6, <2>2, <2>3
  <2>5. x = r \/ SuffixLess(ary, W(r), W(x))
    <3>1. r \in h[n].aryidx .. h[n].max - 1 /\ (x = r \/ r < x)
      BY <1>2, <1>5
    <3>. QED  BY <1>2, <1>8, <3>1
  <2>6. SuffixLess(ary, W(i), W(x))
    BY <1>6, <2>2, <2>4, <2>5
  <2>. QED  BY <1>4, <2>6 DEF W
<1>. QED  BY <1>9, <1>10

LEMMA AppendedWord ==
  ASSUME NEW m \in Seq(Nat), NEW w \in Nat
  PROVE  /\ Append(m, w) \in Seq(Nat) /\ Len(Append(m, w)) = Len(m) + 1
         /\ ToSet(Append(m, w)) = ToSet(m) \union {w}
<1>1. PICK L \in Nat : L = Len(m) /\ DOMAIN m = 1 .. L
  OBVIOUS
<1>2. PICK s : s = Append(m, w)
  OBVIOUS
<1>3. /\ s \in Seq(Nat) /\ Len(s) = L + 1 /\ DOMAIN s = 1 .. L + 1
      /\ s[L + 1] = w /\ \A l \in 1 .. L : s[l] = m[l]
  BY <1>1, <1>2
<1>4. \A l \in 1 .. L + 1 : l \in 1 .. L \/ l = L + 1
  BY <1>1
<1>5. L + 1 \in 1 .. L + 1 /\ \A l \in 1 .. L : l \in 1 .. L + 1
  BY <1>1
<1>6. ToSet(s) = ToSet(m) \union {w}
  BY <1>1, <1>3, <1>4, <1>5 DEF ToSet
<1>. QED  BY <1>1, <1>2, <1>3, <1>6

LEMMA SortedAppended ==
  ASSUME PointsOK(ary), NEW m \in Seq(Nat), NEW w \in Nat,
         Sorted([ary EXCEPT !.array = m]), \A p \in ToSet(m) : SuffixLess(ary, p, w)
  PROVE  Sorted([ary EXCEPT !.array = Append(m, w)])
<1>1. PICK L \in Nat : L = Len(m) /\ DOMAIN m = 1 .. L
  OBVIOUS
<1>2. PICK s : s = Append(m, w)
  OBVIOUS
<1>3. /\ s \in Seq(Nat) /\ Len(s) = L + 1
      /\ s[L + 1] = w /\ \A l \in 1 .. L : s[l] = m[l]
  BY <1>1, <1>2
<1>4. PICK a, b : a = [ary EXCEPT !.array = m] /\ b = [ary EXCEPT !.array = s]
  OBVIOUS
<1>5. a.array = m /\ b.array = s /\ a.text = ary.text /\ b.text = ary.text
  BY <1>4 DEF PointsOK
<1>6. \A p, q : /\ SuffixLess(a, p, q) <=> SuffixLess(ary, p, q)
                /\ SuffixLess(b, p, q) <=> SuffixLess(ary, p, q)
  BY <1>5 DEF SuffixLess, Char
<1>7. \A i, j \in 0 .. L - 1 : i < j => SuffixLess(ary, m[i + 1], m[j + 1])
  BY <1>1, <1>4, <1>5, <1>6 DEF Sorted, AryIdx2TxtIdx
<1>8. ASSUME NEW i \in 0 .. L, NEW j \in 0 .. L, i < j
      PROVE  SuffixLess(ary, s[i + 1], s[j + 1])
  <2>1. i \in 0 .. L - 1 /\ i + 1 \in 1 .. L /\ s[i + 1] = m[i + 1]
    BY <1>1, <1>3, <1>8
  <2>2. CASE j = L
    <3>1. m[i + 1] \in ToSet(m)
      BY <1>1, <2>1 DEF ToSet
    <3>. QED  BY <1>3, <2>1, <2>2, <3>1
  <2>3. CASE j # L
    <3>1. j \in 0 .. L - 1 /\ j + 1 \in 1 .. L
      BY <1>1, <2>3
    <3>. QED  BY <1>3, <1>7, <1>8, <2>1, <3>1
  <2>. QED  BY <2>2, <2>3
<1>9. Sorted(b)
  <2>1. \A i, j \in 0 .. L : i < j => SuffixLess(b, b.array[i + 1], b.array[j + 1])
    BY <1>5, <1>6, <1>8
  <2>2. Len(b.array) - 1 = L
    BY <1>1, <1>3, <1>5
  <2>. QED  BY <2>1, <2>2 DEF Sorted, AryIdx2TxtIdx
<1>. QED  BY <1>2, <1>4, <1>9

LEMMA OneRemoved ==
  ASSUME NEW S, IsFiniteSet(S), NEW x \in S
  PROVE  Cardinality(S \ {x}) = Cardinality(S) - 1
BY FS_RemoveElement

(* The word of the top of h goes to the second file, or gets lost.         *)
WordGone(h, g, m, n, f, m2, f2, q) ==
  /\ Placed(h) /\ 1 \in DOMAIN h /\ TopGone(h, g, h[1].aryidx)
  /\ NulFree => BlocksSorted(h) /\ OrderedBut(h, "merge", q)
  /\ n \in Nat /\ n < Size /\ MergedAt(h, m, n, f) /\ f2 \in BOOLEAN
  /\ \/ m2 = Append(m, AryIdx2TxtIdx(ary, h[1].aryidx)) /\ f2 = f
     \/ m2 = m /\ f2 = TRUE

LEMMA WordMerged ==
  ASSUME PointsOK(ary), NEW h, NEW g, NEW m, NEW n, NEW f, NEW m2, NEW f2, NEW q,
         WordGone(h, g, m, n, f, m2, f2, q)
  PROVE  MergedAt(g, m2, n + 1, f2)
<1>0. PICK i, w : i = h[1].aryidx /\ w = AryIdx2TxtIdx(ary, i)
  OBVIOUS
<1> SUFFICES ASSUME Placed(h), 1 \in DOMAIN h, TopGone(h, g, i),
                    NulFree => BlocksSorted(h) /\ OrderedBut(h, "merge", q),
                    n \in Nat, n < Size, MergedAt(h, m, n, f), f2 \in BOOLEAN,
                    (m2 = Append(m, w) /\ f2 = f) \/ (m2 = m /\ f2 = TRUE)
             PROVE  MergedAt(g, m2, n + 1, f2)
  BY <1>0 DEF WordGone
<1>1. PICK N \in Nat \ {0} : N = Size
  BY SizeType
<1>2. /\ Left(g) = Left(h) \ {i} /\ i \in Left(h) /\ BlocksWithin(g, N)
  BY <1>1 DEF TopGone
<1>3. /\ BlocksWithin(h, N) /\ Cardinality(Left(h)) = N - n
      /\ m \in Seq(Nat) /\ ToSet(m) \subseteq ToSet(ary.array)
  BY <1>1 DEF MergedAt
<1>4. Left(h) \subseteq 0 .. N - 1
  BY <1>1, <1>3, LeftWithin DEF Placed
<1>5. w \in Nat /\ w \in ToSet(ary.array)
  <2>1. i + 1 \in 1 .. N
    BY <1>1, <1>2, <1>4
  <2>2. ary.array \in Seq(Nat) /\ DOMAIN ary.array = 1 .. N /\ w = ary.array[i + 1]
    BY <1>0, <1>1, WordsDiffer DEF AryIdx2TxtIdx, Size
  <2>. QED  BY <2>1, <2>2 DEF ToSet
<1>6. Cardinality(Left(g)) = N - (n + 1) /\ n + 1 <= N
  <2>1. IsFiniteSet(Left(h))
    <3>1. IsFiniteSet(0 .. N - 1)
      BY FS_Interval
    <3>. QED  BY <1>4, <3>1, FS_Subset
  <2>2. Cardinality(Left(h) \ {i}) = Cardinality(Left(h)) - 1
    BY <1>2, <2>1, OneRemoved
  <2>. QED  BY <1>1, <1>2, <1>3, <2>2
<1>7. /\ m2 \in Seq(Nat) /\ ToSet(m2) \subseteq ToSet(ary.array)
      /\ ToSet(m) \subseteq ToSet(m2) /\ ToSet(m2) \subseteq ToSet(m) \union {w}
  <2>1. CASE m2 = m
    BY <1>3, <2>1
  <2>2. CASE m2 = Append(m, w)
    BY <1>3, <1>5, <2>2, AppendedWord
  <2>. QED  BY <2>1, <2>2
<1>8. ASSUME ~ f2
      PROVE  /\ Len(m2) = n + 1
             /\ \A x \in 0 .. N - 1 : x \in Left(g) \/ AryIdx2TxtIdx(ary, x) \in ToSet(m2)
  <2>1. m2 = Append(m, w) /\ f2 = f
    BY <1>8
  <2>2. Len(m2) = Len(m) + 1 /\ w \in ToSet(m2)
    BY <1>3, <1>5, <2>1, AppendedWord
  <2>3. /\ Len(m) = n
        /\ \A x \in 0 .. N - 1 : x \in Left(h) \/ AryIdx2TxtIdx(ary, x) \in ToSet(m)
    BY <1>1, <1>8, <2>1 DEF MergedAt
  <2>. QED  BY <1>0, <1>2, <1>7, <2>2, <2>3
<1>9. ASSUME NulFree
      PROVE  /\ Sorted([ary EXCEPT !.array = m2])
             /\ \A p \in ToSet(m2), x \in Left(g) :
                  SuffixLess(ary, p, AryIdx2TxtIdx(ary, x))
  <2>1. /\ Sorted([ary EXCEPT !.array = m])
        /\ \A p \in ToSet(m), x \in Left(h) : SuffixLess(ary, p, AryIdx2TxtIdx(ary, x))
    BY <1>9 DEF MergedAt
  <2>2. Sorted([ary EXCEPT !.array = m2])
    <3>1. \A p \in ToSet(m) : SuffixLess(ary, p, w)
      BY <1>0, <1>2, <2>1
    <3>2. Sorted([ary EXCEPT !.array = Append(m, w)])
      BY <1>3, <1>5, <2>1, <3>1, SortedAppended
    <3>. QED  BY <2>1, <3>2
  <2>3. ASSUME NEW x \in Left(g) PROVE SuffixLess(ary, w, AryIdx2TxtIdx(ary, x))
    <3>1. x \in Left(h) /\ x # h[1].aryidx
      BY <1>0, <1>2
    <3>. QED  BY <1>0, <1>1, <1>3, <1>9, <3>1, TopWordIsLeast
  <2>. QED  BY <1>2, <1>7, <2>1, <2>2, <2>3
<1>10. BlocksWithin(g, Size) /\ n + 1 <= Size /\ Cardinality(Left(g)) = Size - (n + 1)
  BY <1>1, <1>2, <1>6
<1>11. \A x : x \in 0 .. Size - 1 <=> x \in 0 .. N - 1
  BY <1>1
<1>. QED  BY <1>7, <1>8, <1>9, <1>10, <1>11 DEF MergedAt

LEMMA MergeWordKeeps ==
  ASSUME TypeInv, HeapInv, BuildingInv, MergingInv, MergeWord
  PROVE  HeapInv' /\ BuildingInv' /\ MergingInv'
<1>1. PICK h, g, i, w, m, f : /\ h = bl /\ g = bl' /\ i = h[1].aryidx
                              /\ w = AryIdx2TxtIdx(ary, i) /\ m = merged' /\ f = full'
  OBVIOUS
<1>2. /\ pc = "merge" /\ k < Size /\ k' = k + 1 /\ ary' = ary /\ g = TopMoved
      /\ (m = Append(merged, w) /\ f = full) \/ (m = merged /\ f = TRUE)
      /\ g = <<>> => pc' = pc /\ v' = v /\ hole' = hole
      /\ g # <<>> => pc' = "downheap" /\ v' = g[1] /\ hole' = 1
  BY <1>1 DEF MergeWord, Reached
<1>3. PICK N \in Nat \ {0} : N = Size
  BY SizeType DEF TypeInv
<1>4. /\ h = Heap /\ h \in Seq(BlockType) /\ v \in BlockType
      /\ HeapAt(h, "merge", hole) /\ MergedAt(h, merged, k, full)
  BY <1>1, <1>2, HeapNow DEF Heap, Merging
<1>5. BlocksWithin(h, Size) /\ Placed(h)
  <2>1. BlocksWithin(h, N)
    BY <1>3, <1>4 DEF MergedAt
  <2>. QED  BY <1>3, <1>4, <2>1, BlocksPlaced
<1>6. h # <<>>
  <2>1. ASSUME h = <<>> PROVE FALSE
    <3>1. Left(h) = {}
      BY <2>1 DEF Left
    <3>2. Cardinality(Left(h)) = N - k
      BY <1>3, <1>4 DEF MergedAt
    <3>3. N - k = 0 /\ k \in Nat
      BY <3>1, <3>2, FS_EmptySet DEF TypeInv
    <3>. QED  BY <1>2, <1>3, <3>3
  <2>. QED  BY <2>1
<1>7. 1 \in DOMAIN h
  BY <1>4, <1>6
<1>8. TopGone(h, g, i)
  BY <1>1, <1>2, <1>4, <1>5, <1>6, TopGoes DEF TypeInv
<1>9. MergedAt(g, m, k + 1, f)
  <2>1. NulFree => BlocksSorted(h) /\ OrderedBut(h, "merge", hole)
    BY <1>4 DEF HeapAt
  <2>2. k \in Nat /\ f \in BOOLEAN /\ PointsOK(ary)
    BY <1>1, <1>2 DEF TypeInv
  <2>3. WordGone(h, g, merged, k, full, m, f, hole)
    BY <1>1, <1>2, <1>4, <1>5, <1>7, <1>8, <2>1, <2>2 DEF WordGone
  <2>. QED  BY <2>2, <2>3, WordMerged
<1>10. /\ g \in Seq(BlockType) /\ CachesInv(g)
       /\ NulFree => BlocksSorted(g) /\ OrderedBut(g, "downheap", 1)
  <2>1. /\ g \in Seq(BlockType) /\ Len(g) <= Len(h) /\ \A n \in 2 .. Len(g) : g[n] = h[n]
        /\ CachesInv(h) => CachesInv(g)
        /\ BlocksSorted(h) => BlocksSorted(g)
    BY <1>8 DEF TopGone
  <2>2. ASSUME NulFree PROVE OrderedBut(g, "downheap", 1)
    <3>1. OrderedBut(h, "merge", hole) /\ Len(g) \in Nat
      BY <1>4, <2>1, <2>2 DEF HeapAt
    <3>. QED  BY <1>5, <2>1, <3>1, TopReplaced
  <2>. QED  BY <1>4, <2>1, <2>2 DEF HeapAt
<1>11. g = Heap'
  <2>1. CASE g = <<>>
    BY <1>1, <1>2, <2>1 DEF Heap
  <2>2. CASE g # <<>>
    <3>1. Heap' = [g EXCEPT ![1] = g[1]]
      BY <1>1, <1>2, <2>2 DEF Heap
    <3>2. g = [g EXCEPT ![1] = g[1]]
      BY <1>10
    <3>. QED  BY <3>1, <3>2
  <2>. QED  BY <2>1, <2>2
<1>12. HeapInv'
  <2>1. CASE g = <<>>
    <3>1. CachesInv(g) /\ BlocksSorted(g) /\ OrderedBut(g, "merge", hole)
      BY <2>1 DEF CachesInv, BlocksSorted, OrderedBut
    <3>. QED  BY <1>1, <1>2, <1>4, <1>10, <1>11, <2>1, <3>1, HeapNext DEF HeapAt
  <2>2. CASE g # <<>>
    <3>1. 1 \in DOMAIN g /\ g[1] \in BlockType
      BY <1>10, <2>2
    <3>2. HeapAt(g, "downheap", 1)
      BY <1>10 DEF HeapAt
    <3>. QED  BY <1>1, <1>2, <1>10, <1>11, <2>2, <3>1, <3>2, HeapNext
  <2>. QED  BY <2>1, <2>2
<1>13. BuildingInv'
  BY <1>2 DEF BuildingInv
<1>14. MergingInv'
  BY <1>1, <1>2, <1>9, <1>11, MergedNext
<1>. QED  BY <1>12, <1>13, <1>14

-----------------------------------------------------------------------------
(* The second file is whole when it is renamed.                            *)
LEMMA CloseMergedKeeps ==
  ASSUME TypeInv, RenamedInv, HeapInv, MergingInv, CloseMerged
  PROVE  RenamedInv'
<1>1. /\ pc = "merge" /\ pc' = "rename" /\ k >= Size /\ ary' = ary /\ merged' = merged
      /\ full' = full /\ renamed' = renamed /\ failed' = failed /\ bl_size' = bl_size
      /\ stat' = stat /\ stat = "NONE"
  BY DEF CloseMerged, TypeInv
<1>2. PICK N \in Nat \ {0} : N = Size
  BY SizeType DEF TypeInv
<1>3. PICK h \in Seq(BlockType) : h = bl /\ MergedAt(h, merged, k, full)
  BY <1>1, HeapNow DEF Heap, Merging
<1>4. /\ BlocksWithin(h, N) /\ k <= N /\ Cardinality(Left(h)) = N - k
      /\ merged \in Seq(Nat) /\ ToSet(merged) \subseteq ToSet(ary.array)
      /\ NulFree => Sorted([ary EXCEPT !.array = merged])
      /\ ~ full => \A x \in 0 .. N - 1 :
                     x \in Left(h) \/ AryIdx2TxtIdx(ary, x) \in ToSet(merged)
  BY <1>2, <1>3 DEF MergedAt
<1>5. Left(h) = {}
  <2>1. IsFiniteSet(0 .. N - 1) /\ Left(h) \subseteq 0 .. N - 1
    <3>1. IsFiniteSet(0 .. N - 1)
      BY FS_Interval
    <3>. QED  BY <1>2, <1>4, <3>1, LeftWithin
  <2>2. IsFiniteSet(Left(h))
    BY <2>1, FS_Subset
  <2>3. Cardinality(Left(h)) = 0
    <3>1. k \in Nat /\ k = N
      BY <1>1, <1>2, <1>4 DEF TypeInv
    <3>. QED  BY <1>4, <3>1
  <2>. QED  BY <2>2, <2>3, FS_EmptySet
<1>6. ASSUME ~ full PROVE ToSet(merged) = ToSet(ary.array)
  <2>1. ary.array \in Seq(Nat) /\ DOMAIN ary.array = 1 .. N
    <3>1. PointsOK(ary)
      BY DEF TypeInv
    <3>2. ary.array \in Seq(Nat) /\ Len(ary.array) = N
      BY <1>2, <3>1, WordsDiffer DEF Size
    <3>. QED  BY <3>2
  <2>2. ASSUME NEW l \in 1 .. N PROVE ary.array[l] \in ToSet(merged)
    <3>1. l - 1 \in 0 .. N - 1 /\ (l - 1) + 1 = l
      OBVIOUS
    <3>. QED  BY <1>4, <1>5, <1>6, <3>1 DEF AryIdx2TxtIdx
  <2>. QED  BY <1>4, <2>1, <2>2 DEF ToSet
<1>7. NulFree' <=> NulFree
  BY <1>1 DEF NulFree
<1>8. ~ renamed /\ ~ failed /\ (bl_size > 0 => pc' \notin InPlace)
  BY <1>1 DEF RenamedInv, InPlace
<1>. QED  BY <1>1, <1>4, <1>6, <1>7, <1>8 DEF RenamedInv

LEMMA SortingRenamed ==
  ASSUME RenamedInv, Sort \/ SortedAll \/ SystemQsort
  PROVE  RenamedInv'
<1>1. /\ pc \in {"multikey", "block", "qsort"} /\ pc' \in {"multikey", "block", "to big"}
      /\ pc = "block" => pc' = "block"
      /\ bl_size' = bl_size /\ renamed' = renamed /\ failed' = failed
  <2>1. CASE Sort
    BY <2>1 DEF Sort
  <2>2. CASE SortedAll \/ SystemQsort
    BY <2>2 DEF SortedAll, SystemQsort
  <2>. QED  BY <2>1, <2>2
<1>2. stat' = stat
  BY DEF Sort, SortedAll, SystemQsort
<1>. QED  BY <1>1, <1>2 DEF RenamedInv, InPlace

(* Steps with pc' # "rename" that leave the words and the files alone.     *)
LEMMA WordsAloneRenamed ==
  ASSUME RenamedInv, UNCHANGED <<ary, bl_size, merged, full, renamed, failed>>,
         pc' # "rename", pc \in {"close", "end"} => pc' = "end",
         bl_size > 0 => pc' \notin InPlace,
         pc' = "close" \/ stat' = "SUCCESS" =>
           pc = "close" \/ stat = "SUCCESS" \/ ~ bl_size > 0
  PROVE  RenamedInv'
<1>1. NulFree' <=> NulFree
  BY DEF NulFree
<1>. QED  BY <1>1 DEF RenamedInv

LEMMA OtherRenamed ==
  ASSUME TypeInv, RenamedInv, [Next]_vars, ~ CloseMerged, ~ Sort, ~ SortedAll, ~ SystemQsort
  PROVE  RenamedInv'
<1>0. /\ pc # "end" => stat = "NONE"
      /\ bl_size > 0 => pc \notin InPlace
      /\ bl_size \in Nat \union {-1}
  BY DEF TypeInv, RenamedInv
<1>1. CASE OpenFails \/ Open \/ ReverseWord \/ SortBlock \/ BlockSorted \/ Upheap
           \/ UpheapDone \/ Downheap \/ DownheapDone \/ Crash
  <2>1. /\ UNCHANGED <<ary, bl_size, merged, full, renamed, failed>>
        /\ pc \notin {"close", "end"} \/ pc' = "end"
        /\ pc' = "end" => stat' # "SUCCESS"
        /\ pc' # "end" => stat' = stat
        /\ pc' \in {pc, "end", "to host", "block", "upheap", "blocks", "merge"}
        /\ pc' # "rename" /\ pc' # "close"
    <3>1. CASE OpenFails \/ Open \/ SortBlock \/ BlockSorted \/ Crash
      <4>1. UNCHANGED <<ary, bl_size, merged, full, renamed, failed>>
        BY <3>1 DEF OpenFails, Open, SortBlock, BlockSorted, Crash
      <4>2. /\ pc \notin {"close", "end"} \/ pc' = "end"
            /\ pc' = "end" => stat' # "SUCCESS"
            /\ pc' # "end" => stat' = stat
            /\ pc' \in {pc, "end", "to host", "block", "upheap", "blocks", "merge"}
            /\ pc' # "rename" /\ pc' # "close"
        BY <3>1 DEF OpenFails, Open, SortBlock, BlockSorted, Crash, Return
      <4>. QED  BY <4>1, <4>2
    <3>2. CASE ReverseWord \/ Upheap \/ UpheapDone \/ Downheap \/ DownheapDone
      BY <3>2 DEF ReverseWord, Upheap, UpheapDone, Downheap, DownheapDone
    <3>. QED  BY <1>1, <3>1, <3>2
  <2>2. bl_size > 0 => pc' \notin InPlace
    BY <1>0, <2>1 DEF InPlace
  <2>3. stat' = "SUCCESS" => stat = "SUCCESS"
    BY <2>1
  <2>. QED  BY <2>1, <2>2, <2>3, WordsAloneRenamed
<1>2. CASE ReversedToHost \/ ReversedToBig \/ Close
  <2>1. UNCHANGED <<ary, bl_size, merged, full, renamed, failed>>
    BY <1>2 DEF ReversedToHost, ReversedToBig, Close
  <2>2. CASE ReversedToHost
    <3>1. pc = "to host" /\ stat' = stat /\ pc' = CASE bl_size = 0 -> "multikey"
                   [] bl_size = -1 -> "qsort"
                   [] OTHER -> "blocks"
      BY <2>2 DEF ReversedToHost
    <3>2. PICK n \in Int : n = bl_size
      BY <1>0
    <3>3. pc' \in {"multikey", "qsort", "blocks"} /\ (bl_size > 0 => pc' = "blocks")
      <4>1. pc' = CASE n = 0 -> "multikey" [] n = -1 -> "qsort" [] OTHER -> "blocks"
        BY <3>1, <3>2
      <4>2. pc' \in {"multikey", "qsort", "blocks"}
        BY <4>1
      <4>3. n > 0 => pc' = "blocks"
        BY <4>1
      <4>. QED  BY <3>2, <4>2, <4>3
    <3>. QED  BY <1>0, <2>1, <3>1, <3>3, WordsAloneRenamed DEF InPlace
  <2>3. CASE ReversedToBig
    <3>1. pc = "to big" /\ pc' = "close" /\ stat' = stat
      BY <2>3 DEF ReversedToBig
    <3>. QED  BY <1>0, <2>1, <3>1, WordsAloneRenamed DEF InPlace
  <2>4. CASE Close
    <3>1. pc = "close" /\ pc' = "end"
      BY <2>4 DEF Close, Return
    <3>. QED  BY <2>1, <3>1, WordsAloneRenamed DEF InPlace
  <2>. QED  BY <1>2, <2>2, <2>3, <2>4
<1>3. CASE OpenMerged \/ MergeWord
  <2>1. /\ pc \in {"blocks", "merge"} /\ pc' \in {"merge", "downheap"}
        /\ bl_size' = bl_size /\ renamed' = renamed /\ failed' = failed /\ stat' = stat
    BY <1>3 DEF OpenMerged, MergeWord
  <2>. QED  BY <1>0, <2>1 DEF RenamedInv, InPlace
<1>4. CASE SorterFails
  <2>1. /\ pc \in {"blocks", "rename"} /\ pc' = "close" /\ failed' = TRUE
        /\ bl_size' = bl_size /\ renamed' = renamed
    BY <1>4 DEF SorterFails
  <2>. QED  BY <2>1 DEF RenamedInv, InPlace
<1>5. CASE Rename
  <2>1. /\ pc = "rename" /\ pc' = "close" /\ renamed' = TRUE
        /\ UNCHANGED <<ary, bl_size, merged, full>>
    BY <1>5 DEF Rename
  <2>2. NulFree' <=> NulFree
    BY <2>1 DEF NulFree
  <2>. QED  BY <2>1, <2>2 DEF RenamedInv, InPlace
<1>6. CASE UNCHANGED vars
  <2>1. /\ UNCHANGED <<ary, bl_size, merged, full, renamed, failed>>
        /\ pc' = pc /\ stat' = stat
    BY <1>6 DEF vars
  <2>2. NulFree' <=> NulFree
    BY <2>1 DEF NulFree
  <2>. QED  BY <2>1, <2>2 DEF RenamedInv
<1>. QED  BY <1>1, <1>2, <1>3, <1>4, <1>5, <1>6 DEF Next, Internal, Ended

LEMMA NextRenamed ==
  ASSUME TypeInv, RenamedInv, HeapInv, MergingInv, [Next]_vars
  PROVE  RenamedInv'
<1>1. CASE CloseMerged
  BY <1>1, CloseMergedKeeps
<1>2. CASE Sort \/ SortedAll \/ SystemQsort
  BY <1>2, SortingRenamed
<1>. QED  BY <1>1, <1>2, OtherRenamed

-----------------------------------------------------------------------------
(* The invariant.                                                          *)
LEMMA InitInv == Init => IInv
<1> SUFFICES ASSUME Init PROVE IInv
  OBVIOUS
<1>1. HereInv
  BY InitHere
<1>2. /\ pc = "start" /\ bl = <<>> /\ v = NoBlock /\ ~ renamed /\ ~ failed /\ stat = "NONE"
  BY DEF Init
<1>3. RenamedInv
  BY <1>2 DEF RenamedInv, InPlace
<1>4. HeapInv
  BY <1>2 DEF HeapInv, Building, Merging
<1>5. BuildingInv
  BY <1>2 DEF BuildingInv
<1>6. MergingInv
  BY <1>2 DEF MergingInv, Merging
<1>. QED  BY <1>1, <1>3, <1>4, <1>5, <1>6 DEF IInv, HereInv

LEMMA InvIsHere == IInv => HereInv
BY DEF IInv, HereInv, BuildingInv

(* A sort that builds a heap has blocks of some words.                     *)
LEMMA ByBlocksType ==
  ASSUME TypeInv, InPlaceInv, pc \in Building \union Merging
  PROVE  bl_size \in Nat \ {0}
<1>1. bl_size \in Nat \union {-1}
  BY DEF TypeInv
<1>2. bl_size \notin {0, -1}
  BY DEF InPlaceInv
<1>. QED  BY <1>1, <1>2

LEMMA HeapSame ==
  ASSUME HeapInv, BuildingInv, MergingInv, UNCHANGED vars
  PROVE  HeapInv' /\ BuildingInv' /\ MergingInv'
<1>1. /\ UNCHANGED <<pc, ary, k, bl_size, bl, v, hole, merged, full>>
  BY DEF vars
<1>2. /\ NulFree' <=> NulFree
      /\ Heap' = Heap /\ Size' = Size /\ BlockEnd' = BlockEnd
  BY <1>1 DEF NulFree, Heap, Size, BlockEnd
<1>3. HeapInv'
  <2>1. CASE pc \in Building \union Merging
    <3>1. /\ bl \in Seq(BlockType) /\ v \in BlockType
          /\ pc \in {"upheap", "downheap"} => hole \in DOMAIN bl
          /\ HeapAt(Heap, pc, hole)
      BY <2>1, HeapNow
    <3>2. pc \notin {"start", "to host"}
      BY <2>1 DEF Building, Merging
    <3>. QED  BY <1>1, <1>2, <3>1, <3>2, HeapNext
  <2>2. CASE pc \notin Building \union Merging
    <3>1. pc \in {"start", "to host"} => bl = <<>> /\ v = NoBlock
      BY DEF HeapInv
    <3>. QED  BY <1>1, <2>2, <3>1 DEF HeapInv, Building, Merging
  <2>. QED  BY <2>1, <2>2
<1>4. BuildingInv'
  BY <1>1, <1>2 DEF BuildingInv, Left, BlocksWithin
<1>5. MergingInv'
  BY <1>1, <1>2 DEF MergingInv, Left, BlocksWithin
<1>. QED  BY <1>3, <1>4, <1>5

LEMMA NextHeap ==
  ASSUME IInv, [Next]_vars
  PROVE  HeapInv' /\ BuildingInv' /\ MergingInv'
<1>0. /\ HereInv /\ TypeInv /\ MultikeyInv /\ HeapInv /\ BuildingInv /\ MergingInv
      /\ pc \in Building \union Merging => bl_size \in Nat \ {0}
  BY InvIsHere, ByBlocksType DEF IInv
<1>1. CASE Open \/ ReverseWord
  <2>1. /\ pc \in {"start", "to host", "to big"} /\ pc' \in {"to host", "to big"}
        /\ pc = "start" => pc' = "to host"
        /\ pc # "start" => pc' = pc
        /\ bl' = bl /\ v' = v
    BY <1>1 DEF Open, ReverseWord, heap
  <2>2. HeapInv'
    BY <1>0, <2>1 DEF HeapInv, Building, Merging
  <2>3. BuildingInv' /\ MergingInv'
    BY <2>1 DEF BuildingInv, MergingInv, Merging
  <2>. QED  BY <2>2, <2>3
<1>2. CASE OpenFails \/ SortedAll \/ SystemQsort \/ ReversedToBig \/ SorterFails
           \/ CloseMerged \/ Rename \/ Close \/ Crash
  <2>1. pc' \in {"end", "to big", "close", "rename"}
    <3>1. CASE OpenFails \/ Close \/ Crash
      BY <3>1 DEF OpenFails, Close, Crash, Return
    <3>2. CASE SortedAll \/ SystemQsort \/ ReversedToBig
      BY <3>2 DEF SortedAll, SystemQsort, ReversedToBig
    <3>3. CASE SorterFails \/ CloseMerged \/ Rename
      BY <3>3 DEF SorterFails, CloseMerged, Rename
    <3>. QED  BY <1>2, <3>1, <3>2, <3>3
  <2>2. pc' \notin {"start", "to host"} \union Building \union Merging
    BY <2>1 DEF Building, Merging
  <2>. QED  BY <2>2, NoHeap
<1>3. CASE ReversedToHost
  BY <1>0, <1>3, ReversedToHostKeeps
<1>4. CASE Sort
  <2>1. pc \in {"multikey", "block"} /\ pc' = pc
    BY <1>4 DEF Sort
  <2>2. CASE pc = "block"
    BY <1>0, <1>4, <2>2, SortInBlockKeeps
  <2>3. CASE pc = "multikey"
    BY <2>1, <2>3, NoHeap DEF Building, Merging
  <2>. QED  BY <2>1, <2>2, <2>3
<1>5. CASE SortBlock
  BY <1>0, <1>5, SortBlockKeeps
<1>6. CASE BlockSorted
  <2>1. pc \in Building
    BY <1>6 DEF BlockSorted, Building
  <2>. QED  BY <1>0, <1>6, <2>1, BlockSortedKeeps
<1>7. CASE Upheap
  <2>1. pc \in Building
    BY <1>7 DEF Upheap, Building
  <2>. QED  BY <1>0, <1>7, <2>1, UpheapKeeps
<1>8. CASE UpheapDone
  <2>1. pc \in Building
    BY <1>8 DEF UpheapDone, Building
  <2>. QED  BY <1>0, <1>8, <2>1, UpheapDoneKeeps
<1>9. CASE OpenMerged
  BY <1>0, <1>9, OpenMergedKeeps
<1>10. CASE MergeWord
  BY <1>0, <1>10, MergeWordKeeps
<1>11. CASE Downheap
  BY <1>0, <1>11, DownheapKeeps
<1>12. CASE DownheapDone
  BY <1>0, <1>12, DownheapDoneKeeps
<1>13. CASE UNCHANGED vars
  BY <1>0, <1>13, HeapSame
<1>. QED  BY <1>1, <1>2, <1>3, <1>4, <1>5, <1>6, <1>7, <1>8, <1>9, <1>10, <1>11,
             <1>12, <1>13 DEF Next, Internal, Ended

LEMMA NextInv == IInv /\ [Next]_vars => IInv'
<1> SUFFICES ASSUME IInv, [Next]_vars PROVE IInv'
  OBVIOUS
<1>1. HereInv'
  BY InvIsHere, NextHere
<1>2. RenamedInv'
  BY NextRenamed DEF IInv
<1>3. HeapInv' /\ BuildingInv' /\ MergingInv'
  BY NextHeap
<1>. QED  BY <1>1, <1>2, <1>3 DEF IInv, HereInv

(* Every state satisfies the invariant, of whatever texts, arrays, blocks  *)
(* and caches, and however the pivots are picked.                          *)
THEOREM InductiveInvariant == Spec => []IInv
<1>. QED  BY InitInv, NextInv, PTL DEF Spec

-----------------------------------------------------------------------------
(* MultikeyInOrder: whatever the words, and whichever pivots are picked,   *)
(* each call of multikey_qsort splits and orders what it holds, in a sort  *)
(* of the whole array and in that of a block.                              *)
THEOREM MultikeyKeepsOrder == Spec => []MultikeyInOrder
<1>1. IInv => MultikeyInOrder
  <2> SUFFICES ASSUME IInv PROVE MultikeyInOrder
    OBVIOUS
  <2>1. CASE pc = "multikey"
    <3>1. bl_size = 0 /\ RangesApart(0, Size)
      BY <2>1 DEF IInv, InPlaceInv, MultikeyInv, SortingInv
    <3>. QED  BY <3>1 DEF MultikeyInOrder
  <2>2. CASE pc = "block"
    <3>1. bl_size # 0
      BY <2>2 DEF IInv, InPlaceInv, Building
    <3>2. RangesApart(k, BlockEnd)
      BY <2>2 DEF IInv, MultikeyInv, SortingInv
    <3>. QED  BY <2>2, <3>1, <3>2 DEF MultikeyInOrder
  <2>. QED  BY <2>1, <2>2 DEF MultikeyInOrder
<1>. QED  BY <1>1, InductiveInvariant, PTL

(* HeapWellFormed: the heap is ordered between its moves, and its caches   *)
(* are those of the words its blocks have come to, for any number and size *)
(* of blocks and any size of the caches.                                   *)
THEOREM HeapKeepsOrder == Spec => []HeapWellFormed
<1>1. IInv => HeapWellFormed
  <2> SUFFICES ASSUME IInv, NulFree, pc \in {"blocks", "block", "merge"},
                      NEW n \in DOMAIN bl
               PROVE  /\ bl[n].strbuf = Cache(Reached(ary, bl[n]))
                      /\ n > 1 => ~ SuffixLess(ary, Reached(ary, bl[n]),
                                               Reached(ary, bl[n \div 2]))
    BY DEF HeapWellFormed
  <2>1. Heap = bl /\ bl \in Seq(BlockType) /\ CachesInv(Heap) /\ HeapOrder(Heap)
    BY DEF IInv, HeapInv, Heap, Building, Merging
  <2>2. \A m \in 2 .. Len(bl) : NotBefore(bl, m, m \div 2)
    BY <2>1 DEF HeapOrder
  <2>3. n > 1 => n \in 2 .. Len(bl)
    BY <2>1
  <2>. QED  BY <2>1, <2>2, <2>3 DEF CachesInv, NotBefore
<1>. QED  BY <1>1, InductiveInvariant, PTL

(* As many index points are left in the blocks as places of the array.     *)
LEMMA RestIsLeft ==
  ASSUME PointsOK(ary), NEW h, Left(h) \subseteq 0 .. Size - 1
  PROVE  LET rest == UNION {Rest(h[n]) : n \in DOMAIN h}
         IN /\ rest = {AryIdx2TxtIdx(ary, x) : x \in Left(h)}
            /\ Cardinality(rest) = Cardinality(Left(h))
<1> DEFINE rest == UNION {Rest(h[n]) : n \in DOMAIN h}
           f == [x \in Left(h) |-> AryIdx2TxtIdx(ary, x)]
<1>1. rest = {AryIdx2TxtIdx(ary, x) : x \in Left(h)}
  BY DEF Rest, Left
<1>2. PICK N \in Nat \ {0} : N = Size
  BY SizeType
<1>3. \A x, y \in Left(h) : f[x] = f[y] => x = y
  <2> SUFFICES ASSUME NEW x \in Left(h), NEW y \in Left(h), x # y
               PROVE  ary.array[x + 1] # ary.array[y + 1]
    BY DEF AryIdx2TxtIdx
  <2>1. x + 1 \in 1 .. N /\ y + 1 \in 1 .. N /\ x + 1 # y + 1
    BY <1>2
  <2>2. IsInjective(ary.array) /\ DOMAIN ary.array = 1 .. N
    <3>1. ary.array \in Seq(Nat) /\ Len(ary.array) = N
      BY <1>2, WordsDiffer DEF Size
    <3>. QED  BY <3>1 DEF PointsOK
  <2>. QED  BY <2>1, <2>2 DEF IsInjective
<1>4. f \in Bijection(Left(h), rest)
  <2>1. f \in [Left(h) -> rest]
    BY <1>1
  <2>2. \A p \in rest : \E x \in Left(h) : f[x] = p
    BY <1>1
  <2>. QED  BY <1>3, <2>1, <2>2 DEF Bijection, Injection, Surjection, IsInjective
<1>5. IsFiniteSet(Left(h))
  <2>1. IsFiniteSet(0 .. N - 1)
    BY FS_Interval
  <2>. QED  BY <1>2, <2>1, FS_Subset
<1>6. ExistsBijection(Left(h), rest)
  BY <1>4 DEF ExistsBijection
<1>. QED  BY <1>1, <1>5, <1>6, FS_Bijection

(* MergeInOrder: at every moment of the merge each index point is in the   *)
(* second file or left in a block, never in both, and the file is sorted   *)
(* and stands before all that is left.                                     *)
THEOREM MergeKeepsOrder == Spec => []MergeInOrder
<1>1. IInv => MergeInOrder
  <2> SUFFICES ASSUME IInv, pc = "merge" PROVE MergeInOrder
    BY DEF MergeInOrder
  <2>0. PointsOK(ary) /\ k \in Nat
    BY DEF IInv, TypeInv
  <2>1. PICK N \in Nat \ {0} : N = Size
    BY <2>0, SizeType
  <2>2. PICK rest : rest = UNION {Rest(bl[n]) : n \in DOMAIN bl}
    OBVIOUS
  <2>3. PICK h \in Seq(BlockType) : h = bl /\ MergedAt(h, merged, k, full)
    BY HeapNow DEF IInv, Heap, Merging
  <2>4. /\ BlocksWithin(h, N) /\ k <= N /\ Cardinality(Left(h)) = N - k
        /\ ToSet(merged) \subseteq ToSet(ary.array)
        /\ NulFree => /\ Sorted([ary EXCEPT !.array = merged])
                      /\ \A p \in ToSet(merged), x \in Left(h) :
                           SuffixLess(ary, p, AryIdx2TxtIdx(ary, x))
        /\ ~ full => /\ Len(merged) = k
                     /\ \A x \in 0 .. N - 1 :
                          x \in Left(h) \/ AryIdx2TxtIdx(ary, x) \in ToSet(merged)
    BY <2>1, <2>3 DEF MergedAt
  <2>5. Left(h) \subseteq 0 .. N - 1
    BY <2>1, <2>4, LeftWithin
  <2>6. /\ rest = {AryIdx2TxtIdx(ary, x) : x \in Left(h)}
        /\ Cardinality(rest) = N - k
    BY <2>0, <2>1, <2>2, <2>3, <2>4, <2>5, RestIsLeft
  <2>7. ASSUME ~ full
        PROVE  /\ ToSet(merged) \union rest = ToSet(ary.array)
               /\ Len(merged) + Cardinality(rest) = N
    <3>1. ToSet(ary.array) = {AryIdx2TxtIdx(ary, x) : x \in 0 .. N - 1}
      <4>1. ary.array \in Seq(Nat) /\ Len(ary.array) = N
        BY <2>0, <2>1, WordsDiffer DEF Size
      <4>2. \A l \in 1 .. N : l - 1 \in 0 .. N - 1 /\ (l - 1) + 1 = l
        OBVIOUS
      <4>3. \A x \in 0 .. N - 1 : x + 1 \in 1 .. N
        OBVIOUS
      <4>4. DOMAIN ary.array = 1 .. N
        BY <4>1
      <4>. QED  BY <4>2, <4>3, <4>4 DEF ToSet, AryIdx2TxtIdx
    <3>2. ToSet(merged) \union rest = ToSet(ary.array)
      BY <2>4, <2>5, <2>6, <2>7, <3>1
    <3>. QED  BY <2>0, <2>1, <2>4, <2>6, <2>7, <3>2
  <2>8. NulFree => /\ Sorted([ary EXCEPT !.array = merged])
                   /\ \A p \in ToSet(merged), q \in rest : SuffixLess(ary, p, q)
    BY <2>4, <2>6
  <2>. QED  BY <2>1, <2>2, <2>7, <2>8 DEF MergeInOrder
<1>. QED  BY <1>1, InductiveInvariant, PTL

(* SortedAtEnd: when sa_sort_index returns and no error was met, or from   *)
(* the rename on, the array file holds all the index points in big-endian  *)
(* order if every word could be written; and it is sorted if there is no   *)
(* NUL in the text or qsort has sorted it.                                 *)
THEOREM SortEndsSorted == Spec => []SortedAtEnd
<1>1. IInv => SortedAtEnd
  <2> SUFFICES ASSUME IInv, Complete, ~ full
               PROVE  /\ File.host = {}
                      /\ ToSet(File.words) = ToSet(ary.array)
                      /\ NulFree \/ bl_size = -1 =>
                           IndexOK([ary EXCEPT !.array = File.words])
    BY DEF SortedAtEnd
  <2>0. PointsOK(ary) /\ bl_size \in Nat \union {-1}
    BY DEF IInv, TypeInv
  <2>1. CASE bl_size \in {0, -1}
    <3>1. /\ ~ renamed /\ stat = "SUCCESS" /\ host = {}
          /\ NulFree \/ bl_size = -1 => Sorted(ary)
      BY <2>1 DEF IInv, InPlaceInv, Complete
    <3>2. File = [words |-> ary.array, host |-> {}]
      BY <3>1 DEF File
    <3>3. [ary EXCEPT !.array = ary.array] = ary
      BY <2>0 DEF PointsOK
    <3>4. ASSUME NulFree \/ bl_size = -1
          PROVE  IndexOK(ary)
      <4>1. /\ ary.text \in Seq(Byte) /\ ary.array \in Seq(Nat)
            /\ \A n \in 1 .. Len(ary.array) : ary.array[n] < Len(ary.text)
        BY <2>0 DEF PointsOK
      <4>2. \A i \in 0 .. Len(ary.array) - 1 : i + 1 \in 1 .. Len(ary.array)
        BY <4>1
      <4>. QED  BY <3>1, <3>4, <4>1, <4>2 DEF IndexOK, AryIdx2TxtIdx
    <3>. QED  BY <3>2, <3>3, <3>4
  <2>2. CASE bl_size \notin {0, -1}
    <3>1. bl_size > 0
      BY <2>0, <2>2
    <3>2. renamed /\ bl_size # -1
      BY <2>2, <3>1 DEF IInv, RenamedInv, Complete
    <3>3. /\ merged \in Seq(Nat) /\ ToSet(merged) = ToSet(ary.array)
          /\ NulFree => Sorted([ary EXCEPT !.array = merged])
      BY <3>2 DEF IInv, RenamedInv
    <3>4. File = [words |-> merged, host |-> {}]
      BY <3>2 DEF File
    <3>5. PICK a : a = [ary EXCEPT !.array = merged]
      OBVIOUS
    <3>6. a.text = ary.text /\ a.array = merged /\ ary.text \in Seq(Byte)
      BY <2>0, <3>5 DEF PointsOK
    <3>7. ASSUME NEW i \in 0 .. Len(merged) - 1
          PROVE  merged[i + 1] < Len(ary.text)
      <4>1. merged[i + 1] \in ToSet(ary.array)
        <5>1. i + 1 \in DOMAIN merged
          BY <3>3
        <5>. QED  BY <3>3, <5>1 DEF ToSet
      <4>2. PICK n \in DOMAIN ary.array : merged[i + 1] = ary.array[n]
        BY <4>1 DEF ToSet
      <4>3. n \in 1 .. Len(ary.array)
        <5>1. ary.array \in Seq(Nat)
          BY <2>0 DEF PointsOK
        <5>. QED  BY <5>1
      <4>. QED  BY <2>0, <4>2, <4>3 DEF PointsOK
    <3>8. ASSUME NulFree
          PROVE  IndexOK(a)
      BY <3>8, <3>3, <3>5, <3>6, <3>7 DEF IndexOK, AryIdx2TxtIdx
    <3>. QED  BY <3>2, <3>3, <3>4, <3>5, <3>8
  <2>. QED  BY <2>1, <2>2
<1>. QED  BY <1>1, InductiveInvariant, PTL

(* No step of the sort loses an index point or brings in another one, or   *)
(* writes to the text.                                                     *)
THEOREM WordsAreKept ==
  Spec => [][ToSet(ary'.array) = ToSet(ary.array) /\ ary'.text = ary.text]_vars
<1>1. ASSUME IInv, [Next]_vars
      PROVE  [ToSet(ary'.array) = ToSet(ary.array) /\ ary'.text = ary.text]_vars
  <2>0. HereInv /\ PointsOK(ary)
    BY <1>1, InvIsHere DEF IInv, TypeInv
  <2>1. CASE Sort
    <3>1. PICK from \in Nat, to \in Nat : from <= to /\ to <= Size /\ Kept(from, to)
      BY <2>0, <2>1, SortKeeps
    <3>2. PICK n \in Nat : n = to - from
      BY <3>1
    <3>3. Moved(ary.array, ary'.array, from, n) /\ ary'.text = ary.text
      BY <3>1, <3>2 DEF Kept
    <3>4. ary.array \in Seq(Nat) /\ from + n <= Len(ary.array)
      BY <2>0, <3>1, <3>2, WordsDiffer DEF Size
    <3>. QED  BY <3>3, <3>4, MovedWords
  <2>2. CASE SortedAll \/ SystemQsort
    BY <2>0, <2>2, SortedHere
  <2>3. CASE ~ Sort /\ ~ SystemQsort
    <3>1. ary' = ary
      BY <1>1, <2>3 DEF Next, Internal, Ended, vars, OpenFails, Open, ReverseWord,
         ReversedToHost, SortedAll, ReversedToBig, SortBlock, BlockSorted, Upheap,
         UpheapDone, OpenMerged, SorterFails, MergeWord, Downheap, DownheapDone,
         CloseMerged, Rename, Close, Crash
    <3>. QED  BY <3>1
  <2>. QED  BY <2>1, <2>2, <2>3
<1>. QED  BY <1>1, InductiveInvariant, PTL DEF Spec
=============================================================================
