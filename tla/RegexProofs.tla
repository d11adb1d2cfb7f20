---------------------------- MODULE RegexProofs -----------------------------
(***************************************************************************)
(* That sa_regex asks sa_find only what sa_find answers, and comes to an   *)
(* end, for every index and every expression; and that sa_ignore_case      *)
(* finds what it is to find, for every keyword.  First the sequences the   *)
(* calls are kept in, then the order of suffixes, and the calls that one   *)
(* item of an expression makes.  The second half follows the expression    *)
(* made of a keyword byte by byte: the calls outstanding share no place of *)
(* the index and hold all that match and are not yet reported.             *)
(***************************************************************************)
EXTENDS Regex, FiniteSetTheorems, SequenceTheorems, WellFoundedInduction, TLAPS

LEMMA LeastNumber ==
  ASSUME NEW T, T \subseteq Nat, T # {}
  PROVE  \E x \in T : \A y \in T : x <= y
<1>1. PICK x \in T : \A y \in T : ~ (<<y, x>> \in OpToRel(<, Nat))
  BY NatLessThanWellFounded, WFMin
<1>2. \A y \in T : ~ (y < x)
  BY <1>1 DEF OpToRel
<1>. QED  BY <1>2

(* What holds of 0, and of n + 1 if it does of n, holds of every number.   *)
LEMMA Upwards ==
  ASSUME NEW T, 0 \in T, \A n \in Nat : n \in T => n + 1 \in T
  PROVE  Nat \subseteq T
<1> SUFFICES ASSUME Nat \ T # {} PROVE FALSE
  OBVIOUS
<1>1. PICK x \in Nat \ T : \A y \in Nat \ T : x <= y
  BY LeastNumber
<1>2. x # 0 /\ x - 1 \in Nat
  BY <1>1
<1>3. x - 1 \in T
  BY <1>1, <1>2
<1>4. (x - 1) + 1 \in T
  BY <1>2, <1>3
<1>. QED  BY <1>1, <1>4
-----------------------------------------------------------------------------
(* FlattenSeq: the sequences one behind the other.                         *)
Flat(seqs, f) ==
  f = [n \in 1 .. Len(seqs) |-> IF n = 1 THEN seqs[n] ELSE f[n - 1] \o seqs[n]]

LEMMA FlatExists ==
  ASSUME NEW seqs, Len(seqs) \in Nat
  PROVE  \E f : Flat(seqs, f)
<1>1. PICK l \in Nat : l = Len(seqs)
  OBVIOUS
<1> DEFINE Good(n, g) ==
             \A m \in 1 .. n : g[m] = IF m = 1 THEN seqs[m] ELSE g[m - 1] \o seqs[m]
           T == {n \in Nat : \E g : Good(n, g)}
<1>2. 0 \in T
  OBVIOUS
<1>3. ASSUME NEW n \in Nat, n \in T
      PROVE  n + 1 \in T
  <2>1. PICK g : Good(n, g)
    BY <1>3
  <2> DEFINE h == [m \in 1 .. n + 1 |->
                     IF m = n + 1
                     THEN IF m = 1 THEN seqs[m] ELSE g[m - 1] \o seqs[m] ELSE g[m]]
  <2>2. ASSUME NEW m \in 1 .. n + 1
        PROVE  h[m] = IF m = 1 THEN seqs[m] ELSE h[m - 1] \o seqs[m]
    <3>1. CASE m = 1
      BY <2>1, <3>1
    <3>2. CASE m # 1
      <4>1. m - 1 \in 1 .. n /\ h[m - 1] = g[m - 1]
        BY <3>2
      <4>2. CASE m = n + 1
        BY <3>2, <4>1, <4>2
      <4>3. CASE m # n + 1
        <5>1. m \in 1 .. n /\ h[m] = g[m]
          BY <4>3
        <5>. QED  BY <2>1, <3>2, <4>1, <5>1
      <4>. QED  BY <4>2, <4>3
    <3>. QED  BY <3>1, <3>2
  <2> HIDE DEF h
  <2>3. Good(n + 1, h)
    BY <2>2
  <2> HIDE DEF Good
  <2>. QED  BY <2>3
<1>4. Nat \subseteq T
  <2> HIDE DEF T
  <2>. QED  BY <1>2, <1>3, Upwards
<1>5. PICK g : Good(l, g)
  BY <1>4
<1> DEFINE f == [n \in 1 .. l |-> g[n]]
<1>6. f = [n \in 1 .. l |-> IF n = 1 THEN seqs[n] ELSE f[n - 1] \o seqs[n]]
  <2>1. ASSUME NEW n \in 1 .. l
        PROVE  f[n] = IF n = 1 THEN seqs[n] ELSE f[n - 1] \o seqs[n]
    <3>1. n # 1 => n - 1 \in 1 .. l /\ f[n - 1] = g[n - 1]
      OBVIOUS
    <3>2. g[n] = IF n = 1 THEN seqs[n] ELSE g[n - 1] \o seqs[n]
      BY <1>5
    <3>. QED  BY <3>1, <3>2
  <2>2. f = [n \in 1 .. l |-> f[n]]
    OBVIOUS
  <2> HIDE DEF f
  <2>. QED  BY <2>1, <2>2
<1> HIDE DEF f
<1>. QED  BY <1>1, <1>6 DEF Flat

LEMMA EmptySequence ==
  ASSUME NEW S, NEW s \in Seq(S), Len(s) = 0
  PROVE  s = <<>>
OBVIOUS

LEMMA FlattenSeqType ==
  ASSUME NEW S, NEW seqs \in Seq(Seq(S))
  PROVE  FlattenSeq(seqs) \in Seq(S)
<1>1. PICK l \in Nat : l = Len(seqs)
  OBVIOUS
<1>2. CASE l = 0
  <2>1. Len(seqs) = 0
    BY <1>1, <1>2
  <2>2. FlattenSeq(seqs) = seqs
    BY <2>1, Zenon DEF FlattenSeq
  <2>3. seqs = <<>>
    BY <2>1, EmptySequence
  <2>4. <<>> \in Seq(S)
    OBVIOUS
  <2>. QED  BY <2>2, <2>3, <2>4
<1>3. CASE l # 0
  <2> DEFINE f == CHOOSE g : Flat(seqs, g)
  <2>1. FlattenSeq(seqs) = f[l]
    BY <1>1, <1>3 DEF FlattenSeq, Flat
  <2>2. Flat(seqs, f)
    BY <1>1, FlatExists
  <2> HIDE DEF f
  <2>3. \A n \in 1 .. l : f[n] = IF n = 1 THEN seqs[n] ELSE f[n - 1] \o seqs[n]
    <3>1. f = [n \in 1 .. l |-> IF n = 1 THEN seqs[n] ELSE f[n - 1] \o seqs[n]]
      BY <1>1, <2>2 DEF Flat
    <3>. QED  BY <3>1
  <2> DEFINE T == {n \in Nat : n \in 1 .. l => f[n] \in Seq(S)}
  <2>4. 0 \in T
    OBVIOUS
  <2>5. ASSUME NEW n \in Nat, n \in T
        PROVE  n + 1 \in T
    <3> SUFFICES ASSUME n + 1 \in 1 .. l PROVE f[n + 1] \in Seq(S)
      OBVIOUS
    <3>1. seqs[n + 1] \in Seq(S)
      BY <1>1
    <3>2. CASE n = 0
      BY <2>3, <3>1, <3>2
    <3>3. CASE n # 0
      <4>1. n \in 1 .. l /\ f[n] \in Seq(S)
        BY <2>5, <3>3
      <4>2. f[n + 1] = f[(n + 1) - 1] \o seqs[n + 1] /\ (n + 1) - 1 = n
        <5>1. n + 1 # 1 /\ (n + 1) - 1 = n
          BY <3>3
        <5>2. f[n + 1] = IF n + 1 = 1 THEN seqs[n + 1] ELSE f[(n + 1) - 1] \o seqs[n + 1]
          BY <2>3, Zenon
        <5>. QED  BY <5>1, <5>2
      <4>. QED  BY <3>1, <4>1, <4>2
    <3>. QED  BY <3>2, <3>3
  <2>6. Nat \subseteq T
    <3> HIDE DEF T
    <3>. QED  BY <2>4, <2>5, Upwards
  <2>. QED  BY <1>3, <2>1, <2>6
<1>. QED  BY <1>2, <1>3
-----------------------------------------------------------------------------
(* A suffix between two that agree on n bytes agrees with them.            *)
LEMMA BytesAreNumbers == Byte \subseteq Nat
BY DEF Byte

LEMMA CharType ==
  ASSUME NEW a, a.text \in Seq(Byte)
  PROVE  \A p \in Nat : Char(a, p) \in Nat
<1>1. PICK t \in Seq(Byte) : t = a.text
  OBVIOUS
<1> SUFFICES ASSUME NEW p \in Nat PROVE Char(a, p) \in Nat
  OBVIOUS
<1>2. CASE p < Len(t)
  <2>1. p + 1 \in 1 .. Len(t)
    BY <1>2
  <2>2. t[p + 1] \in Byte
    BY <2>1
  <2>3. Char(a, p) = t[p + 1]
    BY <1>1, <1>2 DEF Char
  <2>. QED  BY <2>2, <2>3, BytesAreNumbers
<1>3. CASE ~ p < Len(t)
  <2>1. Char(a, p) = 0
    BY <1>1, <1>3 DEF Char
  <2>. QED  BY <2>1
<1>. QED  BY <1>2, <1>3

Agree(a, p, q, n) == \A k \in 0 .. n - 1 : Char(a, p + k) = Char(a, q + k)

LEMMA Between ==
  ASSUME NEW a, a.text \in Seq(Byte), NEW n \in Nat,
         NEW p \in Nat, NEW q \in Nat, NEW r \in Nat,
         SuffixLess(a, p, q), SuffixLess(a, q, r),
         p + n <= Len(a.text),
         Agree(a, p, r, n)
  PROVE  q + n <= Len(a.text) /\ Agree(a, q, p, n)
<1>1. PICK N \in Nat : N = Len(a.text)
  OBVIOUS
<1>2. PICK x \in 0 .. N :
        /\ p + x <= N /\ q + x < N
        /\ \A m \in 0 .. x - 1 : Char(a, p + m) = Char(a, q + m)
        /\ p + x = N \/ Char(a, p + x) < Char(a, q + x)
  BY <1>1 DEF SuffixLess
<1>3. PICK y \in 0 .. N :
        /\ q + y <= N /\ r + y < N
        /\ \A m \in 0 .. y - 1 : Char(a, q + m) = Char(a, r + m)
        /\ q + y = N \/ Char(a, q + y) < Char(a, r + y)
  BY <1>1 DEF SuffixLess
<1>4. CASE n <= x
  <2>1. q + n <= N
    BY <1>2, <1>4
  <2>2. ASSUME NEW k \in 0 .. n - 1
        PROVE  Char(a, q + k) = Char(a, p + k)
    <3>1. k \in 0 .. x - 1
      BY <1>4
    <3>. QED  BY <1>2, <3>1
  <2>. QED  BY <1>1, <2>1, <2>2 DEF Agree
<1>5. CASE x < n
  <2>1. x \in 0 .. n - 1 /\ p + x < N
    BY <1>1, <1>5
  <2>2. Char(a, p + x) < Char(a, q + x) /\ Char(a, p + x) = Char(a, r + x)
    BY <1>2, <2>1 DEF Agree
  <2>3. Char(a, p + x) \in Nat /\ Char(a, q + x) \in Nat
    <3>1. p + x \in Nat /\ q + x \in Nat
      OBVIOUS
    <3>. QED  BY <3>1, CharType
  <2>4. CASE x < y
    <3>1. Char(a, q + x) = Char(a, r + x)
      BY <1>3, <2>1, <2>4
    <3>. QED  BY <2>2, <2>3, <3>1
  <2>5. CASE x = y
    BY <1>2, <1>3, <2>2, <2>3, <2>5
  <2>6. CASE y < x
    <3>1. y \in 0 .. n - 1 /\ y \in 0 .. x - 1 /\ q + y < N
      BY <1>2, <1>5, <2>6
    <3>2. Char(a, p + y) = Char(a, q + y) /\ Char(a, p + y) = Char(a, r + y)
      BY <1>2, <3>1 DEF Agree
    <3>3. Char(a, q + y) < Char(a, r + y) /\ Char(a, q + y) \in Nat
      <4>1. q + y \in Nat /\ q + y # N
        BY <1>1, <3>1
      <4>. QED  BY <1>3, <4>1, CharType
    <3>. QED  BY <3>2, <3>3
  <2>. QED  BY <2>4, <2>5, <2>6
<1>. QED  BY <1>4, <1>5
-----------------------------------------------------------------------------
(* The calls sa_find answers: for each, its range and the bytes it shares. *)
CallType == [left : Nat, right : Nat, txt_skip : Nat, key : Seq(Byte)]

SoundCalls(a) ==
  {c \in CallType : FS!CallOK(a, c.left, c.right, c.txt_skip)}

SoundWith(a, key) == {c \in SoundCalls(a) : c.key = key}

(* The promise of sa_find, in the words of this module.                    *)
LEMMA CallOKIs ==
  ASSUME NEW a, NEW l, NEW r, NEW n
  PROVE  FS!CallOK(a, l, r, n) <=>
           /\ 0 <= l /\ l <= r /\ r < Len(a.array)
           /\ \A i \in l .. r : AryIdx2TxtIdx(a, i) + n <= Len(a.text)
           /\ \A i, j \in l .. r : \A k \in 0 .. n - 1 :
                Char(a, AryIdx2TxtIdx(a, i) + k) = Char(a, AryIdx2TxtIdx(a, j) + k)
<1>1. \A i : FS!AryIdx2TxtIdx(a, i) = AryIdx2TxtIdx(a, i)
  BY DEF FS!AryIdx2TxtIdx, AryIdx2TxtIdx
<1>2. \A i, k : FS!SistringChar(a, i, k) = Char(a, AryIdx2TxtIdx(a, i) + k)
  BY <1>1 DEF FS!SistringChar, FS!Char, Char
<1>. QED  BY <1>1, <1>2 DEF FS!CallOK

LEMMA OccursIs ==
  ASSUME NEW a, NEW c, NEW i
  PROVE  FS!Occurs(a, c, i) <=>
           /\ AryIdx2TxtIdx(a, i) + c.base_txt_skip + Len(c.key) <= Len(a.text)
           /\ \A k \in 1 .. Len(c.key) :
                a.text[AryIdx2TxtIdx(a, i) + c.base_txt_skip + k] = c.key[k]
BY DEF FS!Occurs, FS!AryIdx2TxtIdx, AryIdx2TxtIdx

(* A range found has a first and a last place.                             *)
LEMMA FirstAndLast ==
  ASSUME NEW l \in Nat, NEW r \in Nat, NEW H, H \subseteq l .. r, H # {}
  PROVE  \E x, y \in H :
           /\ x = (CHOOSE i \in H : \A j \in H : i <= j) /\ \A j \in H : x <= j
           /\ y = (CHOOSE i \in H : \A j \in H : j <= i) /\ \A j \in H : j <= y
<1>1. PICK x \in H : x = (CHOOSE i \in H : \A j \in H : i <= j)
                     /\ \A j \in H : x <= j
  <2>1. H \subseteq Nat
    OBVIOUS
  <2>2. \E i \in H : \A j \in H : i <= j
    BY <2>1, LeastNumber
  <2>. QED  BY <2>2
<1>2. PICK y \in H : y = (CHOOSE i \in H : \A j \in H : j <= i)
                     /\ \A j \in H : j <= y
  <2> DEFINE U == {i \in Nat : \A j \in H : j <= i}
  <2>1. r \in U
    OBVIOUS
  <2>2. PICK u \in U : \A i \in U : u <= i
    <3>1. U \subseteq Nat /\ U # {}
      BY <2>1
    <3> HIDE DEF U
    <3>. QED  BY <3>1, LeastNumber
  <2>3. u \in H
    <3> SUFFICES ASSUME u \notin H PROVE FALSE
      OBVIOUS
    <3>1. PICK h \in H : TRUE
      OBVIOUS
    <3>2. h \in Nat /\ h <= u /\ h # u
      BY <2>2
    <3>3. u - 1 \in Nat
      BY <3>2
    <3>4. \A j \in H : j <= u - 1
      <4> SUFFICES ASSUME NEW j \in H PROVE j <= u - 1
        OBVIOUS
      <4>1. j \in Nat /\ j <= u /\ j # u
        BY <2>2
      <4>. QED  BY <4>1
    <3>5. u - 1 \in U
      BY <3>3, <3>4
    <3>6. u <= u - 1
      BY <2>2, <3>5
    <3>. QED  BY <3>6
  <2>4. \E i \in H : \A j \in H : j <= i
    BY <2>2, <2>3
  <2>. QED  BY <2>4
<1>. QED  BY <1>1, <1>2

(* The places in the range of a call where a string stands.                *)
Standing(a, c, str) ==
  FS!Hits(a, [left |-> c.left, right |-> c.right, key |-> str,
              base_txt_skip |-> c.txt_skip])

FoundBetween(c, str, H) ==
  \E x, y \in H :
    /\ \A j \in H : x <= j /\ j <= y
    /\ Find(c, str) = <<[c EXCEPT !.left = x, !.right = y,
                                 !.txt_skip = @ + Len(str)]>>

LEMMA FindIs ==
  ASSUME NEW a, a = ary, NEW c \in SoundCalls(a), NEW str
  PROVE  /\ Standing(a, c, str) = {} => Find(c, str) = <<>>
         /\ Standing(a, c, str) # {} => FoundBetween(c, str, Standing(a, c, str))
<1> DEFINE H == Standing(a, c, str)
<1>1. PICK l \in Nat, r \in Nat : l = c.left /\ r = c.right
  BY DEF SoundCalls, CallType
<1>2. H \subseteq l .. r
  BY <1>1 DEF Standing, FS!Hits
<1>3. Find(c, str) =
        IF H = {} THEN <<>>
        ELSE <<[c EXCEPT !.left = CHOOSE i \in H : \A j \in H : i <= j,
                         !.right = CHOOSE i \in H : \A j \in H : j <= i,
                         !.txt_skip = @ + Len(str)]>>
  BY DEF Find, Standing
<1> HIDE DEF H
<1>4. ASSUME H # {}
      PROVE  FoundBetween(c, str, H)
  <2>1. PICK x \in H, y \in H :
          /\ x = (CHOOSE i \in H : \A j \in H : i <= j) /\ \A j \in H : x <= j
          /\ y = (CHOOSE i \in H : \A j \in H : j <= i) /\ \A j \in H : j <= y
    BY <1>2, <1>4, FirstAndLast
  <2>. QED  BY <1>3, <1>4, <2>1 DEF FoundBetween
<1>. QED  BY <1>3, <1>4 DEF H

(* What sa_find finds in a sound range is one sound range, as the index is *)
(* sorted.                                                                 *)
LEMMA FindSound ==
  ASSUME NEW a, a = ary, IndexOK(a), NEW c \in SoundCalls(a), NEW str, Len(str) \in Nat
  PROVE  Find(c, str) \in Seq(SoundWith(a, c.key))
<1> DEFINE call == [left |-> c.left, right |-> c.right, key |-> str,
                    base_txt_skip |-> c.txt_skip]
           hits == FS!Hits(a, call)
<1>1. CASE hits = {}
  <2>1. Find(c, str) = <<>>
    BY <1>1 DEF Find
  <2>. QED  BY <2>1
<1>2. CASE hits # {}
  <2>2. PICK l \in Nat, r \in Nat, s \in Nat :
          /\ l = c.left /\ r = c.right /\ s = c.txt_skip
          /\ FS!CallOK(a, l, r, s)
    BY DEF SoundCalls, CallType
  <2>3. PICK n \in Nat : n = Len(str)
    OBVIOUS
  <2>4. hits \subseteq l .. r
    BY <2>2 DEF FS!Hits
  <2>5. PICK x \in hits, y \in hits :
          /\ \A j \in hits : x <= j /\ j <= y
          /\ Find(c, str) = <<[c EXCEPT !.left = x, !.right = y,
                                       !.txt_skip = @ + Len(str)]>>
    <3>1. hits = Standing(a, c, str)
      BY DEF Standing
    <3> HIDE DEF hits
    <3>2. Standing(a, c, str) # {}
      BY <1>2, <3>1
    <3>3. FoundBetween(c, str, hits)
      BY <3>1, <3>2, FindIs
    <3>. QED  BY <3>3 DEF FoundBetween
  <2> DEFINE found == [c EXCEPT !.left = x, !.right = y, !.txt_skip = @ + n]
  <2>7. x \in l .. r /\ y \in l .. r /\ x <= y
    BY <2>4, <2>5
  <2>8. \A i \in x .. y : i \in l .. r
    BY <2>2, <2>7
  <2> DEFINE P(i) == AryIdx2TxtIdx(a, i)
  <2>9. PICK N \in Nat, M \in Nat : N = Len(a.text) /\ M = Len(a.array)
    BY DEF IndexOK
  <2>10. \A i \in l .. r : i \in 0 .. M - 1 /\ P(i) \in Nat /\ P(i) + s <= N
    <3>1. \A i \in l .. r : i \in 0 .. M - 1 /\ P(i) + s <= N
      BY <2>2, <2>9, CallOKIs
    <3>2. \A i \in 0 .. M - 1 : P(i) \in Nat
      BY <2>9 DEF IndexOK, AryIdx2TxtIdx
    <3>. QED  BY <3>1, <3>2
  <2>11. \A i, j \in l .. r : \A k \in 0 .. s - 1 : Char(a, P(i) + k) = Char(a, P(j) + k)
    BY <2>2, CallOKIs
  <2>12. ASSUME NEW i \in hits
         PROVE  /\ P(i) + (s + n) <= N
                /\ \A k \in 0 .. n - 1 : Char(a, P(i) + (s + k)) = str[k + 1]
    <3>1. i \in l .. r /\ P(i) \in Nat
      BY <2>4, <2>10
    <3>2. /\ P(i) + s + n <= N
          /\ \A k \in 1 .. n : a.text[P(i) + s + k] = str[k]
      <4>1. FS!Occurs(a, call, i)
        BY DEF FS!Hits
      <4>2. call.base_txt_skip = s /\ call.key = str
        BY <2>2
      <4>. QED  BY <2>3, <2>9, <4>1, <4>2, OccursIs
    <3>3. ASSUME NEW k \in 0 .. n - 1
          PROVE  Char(a, P(i) + (s + k)) = str[k + 1]
      <4>0. PICK p \in Nat : p = P(i)
        BY <3>1
      <4>1. p + (s + k) < N /\ (p + (s + k)) + 1 = p + s + (k + 1) /\ k + 1 \in 1 .. n
        BY <3>2, <4>0
      <4>2. Char(a, p + (s + k)) = a.text[(p + (s + k)) + 1]
        BY <2>9, <4>1 DEF Char
      <4>3. a.text[p + s + (k + 1)] = str[k + 1]
        BY <3>2, <4>0, <4>1
      <4>. QED  BY <4>0, <4>1, <4>2, <4>3
    <3>. QED  BY <3>1, <3>2, <3>3
  <2> HIDE DEF hits, found
  <2>13. PICK m \in Nat : m = s + n
    OBVIOUS
  <2>14. Agree(a, P(x), P(y), m)
    <3> SUFFICES ASSUME NEW k \in 0 .. m - 1
                 PROVE  Char(a, P(x) + k) = Char(a, P(y) + k)
      BY DEF Agree
    <3>1. CASE k < s
      BY <2>7, <2>11, <3>1
    <3>2. CASE ~ k < s
      <4>1. k - s \in 0 .. n - 1 /\ s + (k - s) = k
        BY <2>13, <3>2
      <4>2. /\ Char(a, P(x) + (s + (k - s))) = str[(k - s) + 1]
            /\ Char(a, P(y) + (s + (k - s))) = str[(k - s) + 1]
        BY <2>12, <4>1
      <4>. QED  BY <4>1, <4>2
    <3>. QED  BY <3>1, <3>2
  <2>15. ASSUME NEW i \in x .. y
         PROVE  P(i) + m <= N /\ Agree(a, P(i), P(x), m)
    <3>1. CASE i = x
      BY <2>12, <2>13, <3>1 DEF Agree
    <3>2. CASE i = y
      <4>1. P(i) + m <= N
        BY <2>12, <2>13, <3>2
      <4>2. Agree(a, P(i), P(x), m)
        BY <2>14, <3>2 DEF Agree
      <4>. QED  BY <4>1, <4>2
    <3>3. CASE x < i /\ i < y
      <4>1. SuffixLess(a, P(x), P(i)) /\ SuffixLess(a, P(i), P(y))
        BY <2>7, <2>8, <2>9, <2>10, <3>3 DEF IndexOK, Sorted
      <4>2. P(x) \in Nat /\ P(i) \in Nat /\ P(y) \in Nat /\ P(x) + m <= N
        BY <2>7, <2>8, <2>10, <2>12, <2>13
      <4>3. a.text \in Seq(Byte)
        BY DEF IndexOK
      <4> HIDE DEF P
      <4>4. P(i) + m <= Len(a.text) /\ Agree(a, P(i), P(x), m)
        BY <2>9, <2>14, <4>1, <4>2, <4>3, Between
      <4>. QED  BY <2>9, <4>4
    <3>. QED  BY <2>7, <3>1, <3>2, <3>3
  <2>16. FS!CallOK(a, x, y, m)
    <3>1. 0 <= x /\ x <= y /\ y < M
      BY <2>7, <2>10
    <3>2. \A i, j \in x .. y : \A k \in 0 .. m - 1 : Char(a, P(i) + k) = Char(a, P(j) + k)
      BY <2>15 DEF Agree
    <3>. QED  BY <2>9, <2>15, <3>1, <3>2, CallOKIs
  <2>18. c \in CallType /\ x \in Nat /\ y \in Nat /\ c.txt_skip + n = m
    BY <2>2, <2>7, <2>13 DEF SoundCalls
  <2>19. found \in SoundWith(a, c.key)
    <3>1. /\ found \in CallType /\ found.key = c.key
          /\ found.left = x /\ found.right = y /\ found.txt_skip = m
      BY <2>18 DEF CallType, found
    <3>. QED  BY <2>16, <3>1 DEF SoundWith, SoundCalls
  <2>. QED  BY <2>3, <2>5, <2>19 DEF found
<1>. QED  BY <1>1, <1>2
-----------------------------------------------------------------------------
(* Ascending lists a finite set of numbers: each has a rank of its own.    *)
RankIn(S, x) == Cardinality({y \in S : y < x})

LEMMA RankBounds ==
  ASSUME NEW S, S \subseteq Nat, IsFiniteSet(S)
  PROVE  /\ \A x \in S : RankIn(S, x) \in 0 .. Cardinality(S) - 1
         /\ \A x, y \in S : x < y => RankIn(S, x) < RankIn(S, y)
<1> DEFINE B(x) == {y \in S : y < x}
<1>1. Cardinality(S) \in Nat
  BY FS_CardinalityType
<1>2. ASSUME NEW T, T \subseteq S, NEW x \in T, NEW U, U \subseteq T, x \notin U
      PROVE  Cardinality(U) \in Nat /\ Cardinality(T) \in Nat /\ Cardinality(U) < Cardinality(T)
  <2>1. IsFiniteSet(T) /\ IsFiniteSet(U)
    <3>1. U \subseteq S
      BY <1>2
    <3>. QED  BY <1>2, <3>1, FS_Subset
  <2>2. U # T
    BY <1>2
  <2>3. Cardinality(U) \in Nat /\ Cardinality(T) \in Nat
    BY <2>1, FS_CardinalityType
  <2>4. Cardinality(U) <= Cardinality(T) /\ (Cardinality(U) = Cardinality(T) => U = T)
    BY <1>2, <2>1, FS_Subset
  <2>. QED  BY <2>2, <2>3, <2>4
<1>3. ASSUME NEW x \in S
      PROVE  RankIn(S, x) \in 0 .. Cardinality(S) - 1
  <2>1. x \notin B(x) /\ B(x) \subseteq S /\ S \subseteq S
    OBVIOUS
  <2> HIDE DEF B
  <2>2. Cardinality(B(x)) \in Nat /\ Cardinality(B(x)) < Cardinality(S)
    BY <1>2, <2>1
  <2>3. RankIn(S, x) = Cardinality(B(x))
    BY DEF RankIn, B
  <2>. QED  BY <1>1, <2>2, <2>3
<1>4. ASSUME NEW x \in S, NEW y \in S, x < y
      PROVE  RankIn(S, x) < RankIn(S, y)
  <2>1. B(y) \subseteq S /\ x \in B(y) /\ B(x) \subseteq B(y) /\ x \notin B(x)
    <3>1. x \in Nat /\ y \in Nat
      OBVIOUS
    <3>2. \A z \in S : z < x => z < y
      <4>1. \A z \in S : z \in Nat
        OBVIOUS
      <4>. QED  BY <1>4, <3>1, <4>1
    <3>3. B(x) \subseteq B(y)
      BY <3>2
    <3>4. x \notin B(x)
      BY <3>1
    <3>5. B(y) \subseteq S /\ x \in B(y)
      BY <1>4
    <3>. QED  BY <3>3, <3>4, <3>5
  <2> HIDE DEF B
  <2>2. Cardinality(B(x)) < Cardinality(B(y))
    BY <1>2, <2>1
  <2>. QED  BY <2>2 DEF RankIn, B
<1>. QED  BY <1>3, <1>4

LEMMA AscendingRanks ==
  ASSUME NEW S, S \subseteq Nat, IsFiniteSet(S)
  PROVE  \A m \in 1 .. Cardinality(S) : \E x \in S : RankIn(S, x) = m - 1
<1>1. PICK n \in Nat : n = Cardinality(S)
  BY FS_CardinalityType
<1> DEFINE f == [x \in S |-> RankIn(S, x)]
           K == 0 .. n - 1
<1>2. f \in [S -> K] /\ IsFiniteSet(K) /\ Cardinality(K) = n
  <2>1. \A x \in S : RankIn(S, x) \in K
    BY <1>1, RankBounds
  <2>2. IsFiniteSet(K) /\ Cardinality(K) = n
    BY FS_Interval
  <2>. QED  BY <2>1, <2>2
<1>3. \A x, y \in S : f[x] = f[y] => x = y
  <2> SUFFICES ASSUME NEW x \in S, NEW y \in S, x # y PROVE f[x] # f[y]
    OBVIOUS
  <2>1. x < y \/ y < x
    OBVIOUS
  <2>2. RankIn(S, x) < RankIn(S, y) \/ RankIn(S, y) < RankIn(S, x)
    BY <2>1, RankBounds
  <2>3. RankIn(S, x) \in Int /\ RankIn(S, y) \in Int
    <3>1. RankIn(S, x) \in 0 .. n - 1 /\ RankIn(S, y) \in 0 .. n - 1
      BY <1>1, RankBounds
    <3>. QED  BY <3>1
  <2>. QED  BY <2>2, <2>3
<1> HIDE DEF f, K
<1>4. f \in Injection(S, K)
  BY <1>2, <1>3 DEF Injection, IsInjective
<1>5. f \in Surjection(S, K)
  BY <1>1, <1>2, <1>4, FS_Injection
<1>6. \A m \in 1 .. n : \E x \in S : RankIn(S, x) = m - 1
  <2> SUFFICES ASSUME NEW m \in 1 .. n PROVE \E x \in S : RankIn(S, x) = m - 1
    OBVIOUS
  <2>1. m - 1 \in K
    BY DEF K
  <2>2. PICK x \in S : f[x] = m - 1
    BY <1>5, <2>1 DEF Surjection
  <2>. QED  BY <2>2 DEF f
<1>. QED  BY <1>1, <1>6

LEMMA AscendingType ==
  ASSUME NEW S, S \subseteq Nat, IsFiniteSet(S)
  PROVE  Ascending(S) \in Seq(S)
<1>1. PICK n \in Nat : n = Cardinality(S)
  BY FS_CardinalityType
<1>2. \A m \in 1 .. n : \E x \in S : RankIn(S, x) = m - 1
  BY <1>1, AscendingRanks
<1>3. Ascending(S) = [m \in 1 .. n |-> CHOOSE x \in S : RankIn(S, x) = m - 1]
  BY <1>1 DEF Ascending, RankIn
<1>4. Ascending(S) \in [1 .. n -> S]
  BY <1>2, <1>3
<1>. QED  BY <1>4
-----------------------------------------------------------------------------
(* All calls of one item keep what is left of the expression, and are      *)
(* sound: several strings, the bytes of a class, and characters of two.    *)
Strings(strs) == \A n \in DOMAIN strs : Len(strs[n]) \in Nat

LEMMA FindEachSound ==
  ASSUME NEW a, a = ary, IndexOK(a), NEW c \in SoundCalls(a),
         NEW m \in Nat, NEW strs, DOMAIN strs = 1 .. m, Strings(strs)
  PROVE  FindEach(c, strs) \in Seq(SoundWith(a, c.key))
<1> DEFINE X == SoundWith(a, c.key)
           seqs == [n \in DOMAIN strs |-> Find(c, strs[n])]
<1>1. \A n \in 1 .. m : Find(c, strs[n]) \in Seq(X)
  BY FindSound DEF Strings
<1> HIDE DEF X
<1>2. seqs \in [1 .. m -> Seq(X)]
  BY <1>1
<1>3. seqs \in Seq(Seq(X))
  BY <1>2
<1> HIDE DEF seqs
<1>4. FlattenSeq(seqs) \in Seq(X)
  BY <1>3, FlattenSeqType
<1>. QED  BY <1>4 DEF FindEach, seqs, X

LEMMA CandidatesType ==
  ASSUME NEW a, a = ary, IndexOK(a), NEW c \in SoundCalls(a), NEW S
  PROVE  Candidates(c, S) \subseteq Nat /\ IsFiniteSet(Candidates(c, S))
<1> DEFINE B(i) == SistringChar(ary, i, c.txt_skip)
           D == {B(i) : i \in c.left .. c.right}
<1>1. c.left \in Nat /\ c.right \in Nat /\ c.txt_skip \in Nat
  BY DEF SoundCalls, CallType
<1>2. D \subseteq Nat
  <2> SUFFICES ASSUME NEW i \in c.left .. c.right PROVE B(i) \in Nat
    OBVIOUS
  <2>1. FS!CallOK(a, c.left, c.right, c.txt_skip)
    BY DEF SoundCalls
  <2>2. PICK m \in Nat : m = Len(a.array)
    BY DEF IndexOK
  <2>3. i \in 0 .. m - 1
    BY <1>1, <2>1, <2>2, CallOKIs
  <2>4. AryIdx2TxtIdx(a, i) \in Nat
    BY <2>2, <2>3 DEF IndexOK, AryIdx2TxtIdx
  <2>5. AryIdx2TxtIdx(a, i) + c.txt_skip \in Nat /\ a.text \in Seq(Byte)
    BY <1>1, <2>4 DEF IndexOK
  <2>. QED  BY <2>5, CharType DEF SistringChar
<1>3. IsFiniteSet(D)
  <2>1. c.left \in Int /\ c.right \in Int
    BY <1>1
  <2>2. IsFiniteSet(c.left .. c.right)
    BY <2>1, FS_Interval
  <2> DEFINE R == c.left .. c.right
             f == [i \in R |-> B(i)]
  <2>3. D = {f[i] : i \in R}
    OBVIOUS
  <2>4. f \in Surjection(R, D)
    BY DEF Surjection
  <2> HIDE DEF D, R, f
  <2>. QED  BY <2>2, <2>4, FS_Surjection DEF R
<1>4. Candidates(c, S) = S \cap D
  BY DEF Candidates
<1> HIDE DEF D
<1>5. S \cap D \subseteq D
  OBVIOUS
<1>6. IsFiniteSet(S \cap D)
  BY <1>3, <1>5, FS_Subset
<1>. QED  BY <1>2, <1>4, <1>5, <1>6

LEMMA BytesSound ==
  ASSUME NEW a, a = ary, IndexOK(a), NEW c \in SoundCalls(a), NEW S
  PROVE  FindEach(c, Bytes(Candidates(c, S))) \in Seq(SoundWith(a, c.key))
<1> DEFINE asc == Ascending(Candidates(c, S))
           strs == [n \in DOMAIN asc |-> <<asc[n]>>]
<1>1. asc \in Seq(Candidates(c, S))
  BY CandidatesType, AscendingType
<1> HIDE DEF asc
<1>2. PICK m \in Nat : DOMAIN asc = 1 .. m
  BY <1>1
<1>3. DOMAIN strs = 1 .. m /\ \A n \in 1 .. m : Len(strs[n]) = 1
  BY <1>2
<1> HIDE DEF strs
<1>4. FindEach(c, strs) \in Seq(SoundWith(a, c.key))
  BY <1>3, FindEachSound DEF Strings
<1>. QED  BY <1>4 DEF Bytes, asc, strs

LEMMA WcharSearchSound ==
  ASSUME NEW a, a = ary, IndexOK(a), NEW key, NEW calls \in Seq(SoundWith(a, key)),
         NEW class, NEW first
  PROVE  WcharSearch(calls, class, first) \in Seq(SoundWith(a, key))
<1> DEFINE X == SoundWith(a, key)
           seqs == [n \in DOMAIN calls |->
                      FindEach(calls[n],
                        Bytes(Candidates(calls[n], SecondBytes(class, first))))]
<1>1. PICK m \in Nat : DOMAIN calls = 1 .. m /\ \A n \in 1 .. m : calls[n] \in X
  OBVIOUS
<1>2. ASSUME NEW n \in 1 .. m
      PROVE  seqs[n] \in Seq(X)
  <2>1. calls[n] \in SoundCalls(a) /\ calls[n].key = key
    BY <1>1 DEF SoundWith
  <2>2. FindEach(calls[n], Bytes(Candidates(calls[n], SecondBytes(class, first))))
          \in Seq(SoundWith(a, key))
    BY <2>1, BytesSound
  <2>. QED  BY <1>1, <2>2
<1> HIDE DEF X
<1>3. seqs \in [1 .. m -> Seq(X)]
  <2>1. DOMAIN seqs = 1 .. m /\ seqs = [n \in 1 .. m |-> seqs[n]]
    BY <1>1
  <2> HIDE DEF seqs
  <2>. QED  BY <1>2, <2>1
<1>4. seqs \in Seq(Seq(X))
  <2> HIDE DEF seqs
  <2>. QED  BY <1>3
<1> HIDE DEF seqs
<1>5. FlattenSeq(seqs) \in Seq(X)
  BY <1>4, FlattenSeqType
<1>. QED  BY <1>5 DEF WcharSearch, seqs, X

LEMMA BitVectorSearchSound ==
  ASSUME NEW a, a = ary, IndexOK(a), NEW c \in SoundCalls(a), NEW class
  PROVE  BitVectorSearch(c, class) \in Seq(SoundWith(a, c.key))
<1> DEFINE X == SoundWith(a, c.key)
           firsts == Ascending(Candidates(c, class.bv))
           one(n) == IF MSB_ON(firsts[n])
                     THEN WcharSearch(Find(c, <<firsts[n]>>), class, firsts[n])
                     ELSE Find(c, <<firsts[n]>>)
           seqs == [n \in DOMAIN firsts |-> one(n)]
<1>1. firsts \in Seq(Candidates(c, class.bv))
  BY CandidatesType, AscendingType
<1> HIDE DEF firsts
<1>2. PICK m \in Nat : DOMAIN firsts = 1 .. m
  BY <1>1
<1>3. ASSUME NEW n \in 1 .. m
      PROVE  one(n) \in Seq(X)
  <2>1. PICK b : b = firsts[n]
    OBVIOUS
  <2>2. PICK str : str = <<b>> /\ Len(str) \in Nat
    <3>1. Len(<<b>>) = 1
      OBVIOUS
    <3>2. Len(<<b>>) \in Nat
      BY <3>1
    <3>. QED  BY <3>2
  <2>3. Find(c, str) \in Seq(SoundWith(a, c.key))
    BY <2>2, FindSound
  <2>4. WcharSearch(Find(c, str), class, b) \in Seq(SoundWith(a, c.key))
    BY <2>3, WcharSearchSound
  <2>. QED  BY <2>1, <2>2, <2>3, <2>4
<1> HIDE DEF X, one
<1>4. seqs \in [1 .. m -> Seq(X)]
  BY <1>2, <1>3
<1>5. seqs \in Seq(Seq(X))
  <2> HIDE DEF seqs
  <2>. QED  BY <1>4
<1> HIDE DEF seqs
<1>6. FlattenSeq(seqs) \in Seq(X)
  BY <1>5, FlattenSeqType
<1>7. BitVectorSearch(c, class) = FlattenSeq(seqs)
  BY DEF BitVectorSearch, seqs, one, firsts
<1>. QED  BY <1>6, <1>7 DEF X
-----------------------------------------------------------------------------
(* A class takes at least its brackets.                                    *)
Scan(key, n, f) ==
  f = [m \in 0 .. n |-> IF m = 0 THEN [i |-> 1, class |-> EmptyClass]
                        ELSE TurnOfScan(key, f[m - 1])]

LEMMA ScanExists ==
  ASSUME NEW key, NEW l \in Nat
  PROVE  \E f : Scan(key, l, f)
<1> DEFINE first == [i |-> 1, class |-> EmptyClass]
           T == {n \in Nat : \E f : Scan(key, n, f)}
<1>1. 0 \in T
  <2> DEFINE f == [m \in 0 .. 0 |-> first]
  <2>1. \A m \in 0 .. 0 : m = 0
    OBVIOUS
  <2>2. Scan(key, 0, f)
    BY <2>1 DEF Scan
  <2> HIDE DEF f
  <2>. QED  BY <2>2
<1>2. ASSUME NEW n \in Nat, n \in T
      PROVE  n + 1 \in T
  <2>1. PICK g : Scan(key, n, g)
    BY <1>2
  <2>2. \A m \in 0 .. n : g[m] = IF m = 0 THEN first ELSE TurnOfScan(key, g[m - 1])
    <3>1. g = [m \in 0 .. n |-> IF m = 0 THEN first ELSE TurnOfScan(key, g[m - 1])]
      BY <2>1 DEF Scan
    <3>. QED  BY <3>1
  <2> DEFINE f == [m \in 0 .. n + 1 |-> IF m = n + 1 THEN TurnOfScan(key, g[n]) ELSE g[m]]
  <2>3. ASSUME NEW m \in 0 .. n + 1
        PROVE  f[m] = IF m = 0 THEN first ELSE TurnOfScan(key, f[m - 1])
    <3>1. CASE m = n + 1
      <4>1. m # 0 /\ m - 1 = n /\ n \in 0 .. n + 1 /\ n # n + 1
        BY <3>1
      <4>2. f[n] = g[n]
        BY <4>1
      <4>. QED  BY <3>1, <4>1, <4>2
    <3>2. CASE m # n + 1
      <4>1. m \in 0 .. n /\ f[m] = g[m]
        BY <3>2
      <4>2. m # 0 => f[m - 1] = g[m - 1]
        BY <3>2
      <4> HIDE DEF f
      <4>. QED  BY <2>2, <4>1, <4>2
    <3>. QED  BY <3>1, <3>2
  <2>4. f = [m \in 0 .. n + 1 |-> f[m]]
    OBVIOUS
  <2> HIDE DEF f
  <2>5. Scan(key, n + 1, f)
    BY <2>3, <2>4 DEF Scan
  <2>. QED  BY <2>5
<1>3. Nat \subseteq T
  <2> HIDE DEF T
  <2>. QED  BY <1>1, <1>2, Upwards
<1>. QED  BY <1>3

Turns(key, l, f) ==
  /\ ScanClass(key, l) = f[l]
  /\ f[0] = [i |-> 1, class |-> EmptyClass]
  /\ \A m \in 1 .. l : f[m] = TurnOfScan(key, f[m - 1])

LEMMA ScanClassIs ==
  ASSUME NEW key, NEW l \in Nat
  PROVE  \E f : Turns(key, l, f)
<1> DEFINE f == CHOOSE g : Scan(key, l, g)
<1>1. ScanClass(key, l) = f[l]
  BY DEF ScanClass, Scan
<1>2. Scan(key, l, f)
  BY ScanExists
<1> HIDE DEF f
<1>3. f = [m \in 0 .. l |-> IF m = 0 THEN [i |-> 1, class |-> EmptyClass]
                            ELSE TurnOfScan(key, f[m - 1])]
  BY <1>2 DEF Scan
<1>4. f[0] = [i |-> 1, class |-> EmptyClass]
  <2>1. 0 \in 0 .. l
    OBVIOUS
  <2>. QED  BY <1>3, <2>1
<1>5. \A m \in 1 .. l : f[m] = TurnOfScan(key, f[m - 1])
  <2>1. \A m \in 1 .. l : m \in 0 .. l /\ m # 0
    OBVIOUS
  <2>. QED  BY <1>3, <2>1
<1>. QED  BY <1>1, <1>4, <1>5 DEF Turns

LEMMA ClassEndBounds ==
  ASSUME NEW key, Len(key) \in Nat
  PROVE  ClassEnd(key) \in Nat /\ ClassEnd(key) >= 1
<1>1. PICK l \in Nat : l = Len(key)
  OBVIOUS
<1>7. PICK f : Turns(key, l, f)
  BY ScanClassIs
<1>2. /\ ScanClass(key, l) = f[l]
      /\ f[0] = [i |-> 1, class |-> EmptyClass]
      /\ \A m \in 1 .. l : f[m] = TurnOfScan(key, f[m - 1])
  BY <1>7 DEF Turns
<1> DEFINE T == {m \in Nat : m <= l => f[m].i \in Nat /\ f[m].i >= 1}
<1>3. 0 \in T
  BY <1>2
<1>4. ASSUME NEW m \in Nat, m \in T
      PROVE  m + 1 \in T
  <2> SUFFICES ASSUME m + 1 <= l PROVE f[m + 1].i \in Nat /\ f[m + 1].i >= 1
    OBVIOUS
  <2>1. PICK now : now = f[m] /\ now.i \in Nat /\ now.i >= 1
    BY <1>4
  <2>2. f[m + 1] = TurnOfScan(key, now)
    <3>1. m + 1 \in 1 .. l /\ (m + 1) - 1 = m
      OBVIOUS
    <3>. QED  BY <1>2, <2>1, <3>1
  <2>3. MemberLength(key, now.i) \in Nat
    BY DEF MemberLength
  <2>4. CASE ClassEnds(key, now.i)
    BY <2>1, <2>2, <2>4 DEF TurnOfScan
  <2>5. CASE ~ ClassEnds(key, now.i)
    <3>1. f[m + 1].i = now.i + MemberLength(key, now.i)
      BY <2>2, <2>5 DEF TurnOfScan
    <3>. QED  BY <2>1, <2>3, <3>1
  <2>. QED  BY <2>4, <2>5
<1>5. Nat \subseteq T
  <2> HIDE DEF T
  <2>. QED  BY <1>3, <1>4, Upwards
<1>6. f[l].i \in Nat /\ f[l].i >= 1
  BY <1>5
<1>. QED  BY <1>1, <1>2, <1>6 DEF ClassEnd
-----------------------------------------------------------------------------
(* Behind an item less of the expression is left, with the item or         *)
(* without it.                                                             *)
Shorter(a, key) == {d \in SoundCalls(a) : Len(d.key) < Len(key)}

LEMMA DropType ==
  ASSUME NEW key \in Seq(Byte), NEW n \in Nat
  PROVE  /\ Drop(key, n) \in Seq(Byte)
         /\ n >= 1 /\ key # <<>> => Len(Drop(key, n)) < Len(key)
<1>1. PICK l \in Nat : l = Len(key)
  OBVIOUS
<1>2. CASE n <= l
  <2>1. Drop(key, n) \in Seq(Byte) /\ Len(Drop(key, n)) = l - n
    BY <1>1, <1>2 DEF Drop
  <2>. QED  BY <1>1, <1>2, <2>1
<1>3. CASE ~ n <= l
  <2>1. Drop(key, n) = <<>>
    BY <1>1, <1>3 DEF Drop
  <2>2. <<>> \in Seq(Byte) /\ Len(<<>>) = 0 /\ (key # <<>> => l > 0)
    BY <1>1
  <2>. QED  BY <1>1, <2>1, <2>2
<1>. QED  BY <1>2, <1>3

LEMMA OtherKey ==
  ASSUME NEW a, NEW d \in SoundCalls(a), NEW n \in Nat, n >= 1, d.key # <<>>
  PROVE  [d EXCEPT !.key = Drop(@, n)] \in Shorter(a, d.key)
<1>1. d \in CallType /\ d.key \in Seq(Byte)
  BY DEF SoundCalls, CallType
<1>2. PICK k \in Seq(Byte) : k = Drop(d.key, n) /\ Len(k) < Len(d.key)
  BY <1>1, DropType
<1>3. PICK e : e = [d EXCEPT !.key = k]
  OBVIOUS
<1>4. /\ e \in CallType /\ e.key = k
      /\ e.left = d.left /\ e.right = d.right /\ e.txt_skip = d.txt_skip
  BY <1>1, <1>3 DEF CallType
<1>5. e \in SoundCalls(a)
  BY <1>4 DEF SoundCalls
<1>. QED  BY <1>2, <1>3, <1>4, <1>5 DEF Shorter

LEMMA GoOnShorter ==
  ASSUME NEW a, NEW c \in SoundCalls(a), c.key # <<>>,
         NEW calls \in Seq(SoundWith(a, c.key)), NEW n \in Nat, n >= 1
  PROVE  GoOn(c, calls, n) \in Seq(Shorter(a, c.key))
<1> DEFINE X == Shorter(a, c.key)
           gone == [m \in DOMAIN calls |-> [calls[m] EXCEPT !.key = Drop(@, n)]]
           without == IF KeyByte(c.key, n) = QUESTION
                      THEN <<[c EXCEPT !.key = Drop(@, n + 1)]>> ELSE <<>>
<1>1. PICK l \in Nat : DOMAIN calls = 1 .. l /\ \A m \in 1 .. l : calls[m] \in SoundWith(a, c.key)
  OBVIOUS
<1>2. ASSUME NEW m \in 1 .. l
      PROVE  [calls[m] EXCEPT !.key = Drop(@, n)] \in X
  <2>1. PICK d \in SoundCalls(a) : d = calls[m] /\ d.key = c.key
    BY <1>1 DEF SoundWith
  <2>2. [d EXCEPT !.key = Drop(@, n)] \in Shorter(a, d.key)
    BY <2>1, OtherKey
  <2>. QED  BY <2>1, <2>2
<1>3. [c EXCEPT !.key = Drop(@, n + 1)] \in X
  <2>1. n + 1 \in Nat /\ n + 1 >= 1
    OBVIOUS
  <2>. QED  BY <2>1, OtherKey
<1> HIDE DEF X
<1>4. gone \in Seq(X)
  <2>1. gone \in [1 .. l -> X]
    BY <1>1, <1>2
  <2> HIDE DEF gone
  <2>. QED  BY <2>1
<1>5. without \in Seq(X)
  BY <1>3
<1> HIDE DEF gone, without
<1>6. gone \o without \in Seq(X)
  BY <1>4, <1>5
<1>. QED  BY <1>6 DEF GoOn, gone, without, X
-----------------------------------------------------------------------------
(* What the actions of sa_regex_sub keep.                                  *)
RegexInv ==
  /\ IndexOK(ary) /\ ary.array # <<>>
  /\ asked \in Requests
  /\ todo \in Seq(SoundCalls(ary))
  /\ pc = "called" => todo = <<>>

NewCallsAreShorter ==
  \A n \in 1 .. Len(todo') - Len(todo) + 1 :
    todo # <<>> => Len(todo'[n].key) < Len(todo[1].key)

LEMMA HeadAndTail ==
  ASSUME NEW S, NEW s \in Seq(S), s # <<>>
  PROVE  Tail(s) \in Seq(S) /\ s[1] \in S /\ Len(s) = Len(Tail(s)) + 1
OBVIOUS

LEMMA MakeKeeps ==
  ASSUME RegexInv, todo # <<>>, NEW calls \in Seq(Shorter(ary, Head1.key)), Make(calls),
         pc # "called"
  PROVE  RegexInv' /\ NewCallsAreShorter
<1> DEFINE S == SoundCalls(ary)
<1>1. PICK q \in Seq(S), h \in S : q = Tail(todo) /\ h = todo[1] /\ Len(todo) = Len(q) + 1
  <2>1. todo \in Seq(S)
    BY DEF RegexInv
  <2> HIDE DEF S
  <2>. QED  BY <2>1, HeadAndTail
<1>2. PICK l \in Nat : l = Len(calls) /\ \A n \in 1 .. l : calls[n] \in Shorter(ary, h.key)
  BY <1>1 DEF Head1
<1>3. /\ todo' = calls \o q
      /\ ary' = ary /\ asked' = asked /\ pc' = pc
  BY <1>1 DEF Make
<1>4. calls \in Seq(S)
  <2>1. \A n \in 1 .. l : calls[n] \in S
    BY <1>2 DEF Shorter
  <2> HIDE DEF S
  <2>. QED  BY <1>2, <2>1
<1>5. RegexInv'
  <2> HIDE DEF S
  <2>1. calls \o q \in Seq(S)
    BY <1>1, <1>4
  <2>. QED  BY <1>3, <2>1 DEF RegexInv, S
<1>6. NewCallsAreShorter
  <2> HIDE DEF S
  <2>1. \A n \in 1 .. l : (calls \o q)[n] = calls[n]
    BY <1>1, <1>2, <1>4
  <2>2. Len(calls \o q) - Len(todo) + 1 = l
    <3>1. Len(calls \o q) = l + Len(q) /\ Len(q) \in Nat
      BY <1>1, <1>2, <1>4
    <3>. QED  BY <1>1, <1>2, <3>1
  <2>3. \A n \in 1 .. l : Len(calls[n].key) < Len(h.key)
    BY <1>2 DEF Shorter
  <2>. QED  BY <1>1, <1>3, <2>1, <2>2, <2>3 DEF NewCallsAreShorter
<1>. QED  BY <1>5, <1>6

(* The first call to be made has something left of the expression.         *)
LEMMA HeadSound ==
  ASSUME RegexInv, todo # <<>>, Len(Head1.key) > 0
  PROVE  /\ Head1 \in SoundCalls(ary) /\ Head1.key \in Seq(Byte) /\ Head1.key # <<>>
         /\ Len(Head1.key) \in Nat
<1> DEFINE S == SoundCalls(ary)
<1>1. todo[1] \in S
  <2>1. todo \in Seq(S)
    BY DEF RegexInv
  <2> HIDE DEF S
  <2>. QED  BY <2>1
<1>2. todo[1].key \in Seq(Byte)
  BY <1>1 DEF SoundCalls, CallType
<1>. QED  BY <1>1, <1>2 DEF Head1

LEMMA StoreResultKeeps ==
  ASSUME RegexInv, StoreResult
  PROVE  RegexInv' /\ NewCallsAreShorter
<1> DEFINE S == SoundCalls(ary)
<1>1. PICK q \in Seq(S) : q = Tail(todo) /\ Len(todo) = Len(q) + 1
  <2>1. todo \in Seq(S) /\ todo # <<>>
    BY DEF RegexInv, StoreResult
  <2> HIDE DEF S
  <2>. QED  BY <2>1, HeadAndTail
<1>2. todo' = q /\ ary' = ary /\ asked' = asked /\ pc' = pc /\ pc # "called"
  BY <1>1 DEF StoreResult
<1>3. RegexInv'
  BY <1>2 DEF RegexInv
<1>4. NewCallsAreShorter
  <2>1. Len(q) \in Nat
    OBVIOUS
  <2>2. 1 .. Len(q) - (Len(q) + 1) + 1 = {}
    BY <2>1
  <2>. QED  BY <1>1, <1>2, <2>2 DEF NewCallsAreShorter
<1>. QED  BY <1>3, <1>4

LEMMA MatchWildCardKeeps ==
  ASSUME RegexInv, MatchWildCard
  PROVE  RegexInv' /\ NewCallsAreShorter
<1>1. pc = "run" /\ todo # <<>> /\ Len(Head1.key) > 0
  BY DEF MatchWildCard, Next1
<1>2. Head1 \in SoundCalls(ary) /\ Head1.key # <<>>
  BY <1>1, HeadSound
<1>3. PICK a : a = ary /\ IndexOK(a)
  BY DEF RegexInv
<1>4. BitVectorSearch(Head1, WildCard) \in Seq(SoundWith(ary, Head1.key))
  BY <1>2, <1>3, BitVectorSearchSound
<1>5. GoOn(Head1, BitVectorSearch(Head1, WildCard), 1) \in Seq(Shorter(ary, Head1.key))
  BY <1>2, <1>4, GoOnShorter
<1>. QED  BY <1>1, <1>5, MakeKeeps DEF MatchWildCard

LEMMA ParseErrorKeeps ==
  ASSUME RegexInv, ParseError, todo # <<>>
  PROVE  RegexInv' /\ (NewCallsAreShorter \/ todo' = todo)
BY DEF RegexInv, ParseError

LEMMA MatchClassKeeps ==
  ASSUME RegexInv, MatchClass
  PROVE  RegexInv' /\ (NewCallsAreShorter \/ todo' = todo)
<1> DEFINE key == Head1.key
           end == ClassEnd(key)
           calls == BitVectorSearch(Head1, CharacterClass(key))
<1>1. pc = "run" /\ todo # <<>> /\ Len(Head1.key) > 0
  BY DEF MatchClass, Next1
<1>2. Head1 \in SoundCalls(ary) /\ Head1.key # <<>> /\ Len(key) \in Nat
  BY <1>1, HeadSound
<1>3. PICK a : a = ary /\ IndexOK(a)
  BY DEF RegexInv
<1>4. calls \in Seq(SoundWith(ary, Head1.key))
  BY <1>2, <1>3, BitVectorSearchSound
<1>5. end + 1 \in Nat /\ end + 1 >= 1
  <2>1. end \in Nat
    BY <1>2, ClassEndBounds
  <2>. QED  BY <2>1
<1>6. GoOn(Head1, calls, end + 1) \in Seq(Shorter(ary, Head1.key))
  BY <1>2, <1>4, <1>5, GoOnShorter
<1>7. Make(GoOn(Head1, calls, end + 1)) \/ ParseError
  BY DEF MatchClass
<1> HIDE DEF calls, end, key
<1>. QED  BY <1>1, <1>6, <1>7, MakeKeeps, ParseErrorKeeps

LEMMA SkipQuestionKeeps ==
  ASSUME RegexInv, SkipQuestion
  PROVE  RegexInv' /\ NewCallsAreShorter
<1>1. pc = "run" /\ todo # <<>> /\ Len(Head1.key) > 0
  BY DEF SkipQuestion, Next1
<1>2. /\ Head1 \in SoundCalls(ary) /\ Head1.key \in Seq(Byte) /\ Head1.key # <<>>
  BY <1>1, HeadSound
<1>3. Drop(Head1.key, 1) = Tail(Head1.key)
  <2>1. PICK k \in Seq(Byte) : k = Head1.key /\ k # <<>>
    BY <1>2
  <2>2. SubSeq(k, 1 + 1, Len(k)) = Tail(k)
    BY <2>1
  <2>. QED  BY <2>1, <2>2 DEF Drop
<1>4. [Head1 EXCEPT !.key = Tail(@)] = [Head1 EXCEPT !.key = Drop(@, 1)]
  BY <1>3
<1>5. [Head1 EXCEPT !.key = Tail(@)] \in Shorter(ary, Head1.key)
  <2>1. [Head1 EXCEPT !.key = Drop(@, 1)] \in Shorter(ary, Head1.key)
    <3>1. PICK h \in SoundCalls(ary) : h = Head1 /\ h.key # <<>>
      BY <1>2
    <3>2. 1 \in Nat /\ 1 >= 1
      OBVIOUS
    <3>3. [h EXCEPT !.key = Drop(@, 1)] \in Shorter(ary, h.key)
      BY <3>1, <3>2, OtherKey
    <3>. QED  BY <3>1, <3>3
  <2>. QED  BY <1>4, <2>1
<1>6. <<[Head1 EXCEPT !.key = Tail(@)]>> \in Seq(Shorter(ary, Head1.key))
  BY <1>5
<1>. QED  BY <1>1, <1>6, MakeKeeps DEF SkipQuestion

LEMMA MatchOneCharKeeps ==
  ASSUME RegexInv, MatchOneChar
  PROVE  RegexInv' /\ NewCallsAreShorter
<1> DEFINE key == Head1.key
           escape == Escaped(key)
           len == IF MSB_ON(key[1]) /\ Len(key) > 1 /\ MSB_ON(KeyByte(key, 1))
                  THEN 2 ELSE 1
<1>1. pc = "run" /\ todo # <<>> /\ Len(Head1.key) > 0
  BY DEF MatchOneChar
<1>2. /\ Head1 \in SoundCalls(ary) /\ key # <<>> /\ key \in Seq(Byte)
  BY <1>1, HeadSound
<1>3. PICK a : a = ary /\ IndexOK(a)
  BY DEF RegexInv
<1>4. ASSUME NEW str, Len(str) \in Nat, NEW n \in Nat, n >= 1
      PROVE  GoOn(Head1, Find(Head1, str), n) \in Seq(Shorter(ary, Head1.key))
  <2>1. Find(Head1, str) \in Seq(SoundWith(ary, Head1.key))
    BY <1>2, <1>3, <1>4, FindSound
  <2>. QED  BY <1>2, <1>4, <2>1, GoOnShorter
<1>5. escape.key_skip \in {2, 4}
  BY DEF Escaped
<1>6. len \in {1, 2}
  OBVIOUS
<1>7. \/ Make(GoOn(Head1, Find(Head1, <<escape.dcc>>), escape.key_skip))
      \/ Make(GoOn(Head1, Find(Head1, SubSeq(key, 1, len)), len))
  BY DEF MatchOneChar
<1>8. CASE Make(GoOn(Head1, Find(Head1, <<escape.dcc>>), escape.key_skip))
  <2> HIDE DEF escape, key
  <2>1. Len(<<escape.dcc>>) = 1
    OBVIOUS
  <2>2. /\ Len(<<escape.dcc>>) \in Nat
        /\ escape.key_skip \in Nat /\ escape.key_skip >= 1
    BY <1>5, <2>1
  <2>. QED  BY <1>1, <1>4, <1>8, <2>2, MakeKeeps
<1>9. CASE Make(GoOn(Head1, Find(Head1, SubSeq(key, 1, len)), len))
  <2> HIDE DEF len
  <2>1. PICK k \in Seq(Byte) : k = key
    BY <1>2
  <2> HIDE DEF key
  <2>2. Len(SubSeq(k, 1, len)) \in Nat
    BY <1>6
  <2>3. len \in Nat /\ len >= 1
    BY <1>6
  <2>. QED  BY <1>1, <1>4, <1>9, <2>1, <2>2, <2>3, MakeKeeps
<1>. QED  BY <1>7, <1>8, <1>9
(* An alternation goes from its parenthesis to the least one that closes.  *)
LEMMA MatchAlternationKeeps ==
  ASSUME RegexInv, MatchAlternation
  PROVE  RegexInv' /\ (NewCallsAreShorter \/ todo' = todo)
<1> DEFINE key == Head1.key
           ends(S) == {i \in 2 .. Len(key) - 1 :
                         KeyByte(key, i) \in S /\ KeyByte(key, i - 1) # ESCAPE_CHAR}
           close == CHOOSE i \in ends({RPAREN}) : \A j \in ends({RPAREN}) : i <= j
           before == {i \in ends({BAR}) : i < close}
           bars == <<0>> \o Ascending(before) \o <<close>>
           alternatives == [n \in 1 .. Len(bars) - 1 |->
                              SubSeq(key, bars[n] + 2, bars[n + 1])]
           calls == FindEach(Head1, alternatives)
<1>1. pc = "run" /\ todo # <<>> /\ Len(Head1.key) > 0
  BY DEF MatchAlternation, Next1
<1>2. /\ Head1 \in SoundCalls(ary) /\ Head1.key # <<>> /\ Head1.key \in Seq(Byte)
  BY <1>1, HeadSound
<1>3. PICK a : a = ary /\ IndexOK(a)
  BY DEF RegexInv
<1>4. \/ ends({RPAREN}) = {} /\ ParseError
      \/ ends({RPAREN}) # {} /\ Make(GoOn(Head1, calls, close + 1))
  BY DEF MatchAlternation
<1>5. CASE ends({RPAREN}) = {} /\ ParseError
  <2> HIDE DEF ends
  <2>. QED  BY <1>1, <1>5, ParseErrorKeeps
<1>6. CASE ends({RPAREN}) # {} /\ Make(GoOn(Head1, calls, close + 1))
  <2>1. PICK k \in Seq(Byte), l \in Nat : k = key /\ l = Len(k)
    BY <1>2
  <2>2. /\ ends({RPAREN}) \subseteq Nat
        /\ ends({BAR}) \subseteq 2 .. l - 1
        /\ before \subseteq 2 .. l - 1
    BY <2>1
  <2>3. close \in Nat
    <3> HIDE DEF ends
    <3>1. \E i \in ends({RPAREN}) : \A j \in ends({RPAREN}) : i <= j
      BY <1>6, <2>2, LeastNumber
    <3>2. close \in ends({RPAREN})
      BY <3>1
    <3> HIDE DEF close
    <3>. QED  BY <2>2, <3>2
  <2>4. before \subseteq Nat /\ IsFiniteSet(before)
    <3> HIDE DEF ends
    <3> HIDE DEF before
    <3>1. 2 \in Int /\ l - 1 \in Int
      BY <2>1
    <3>2. IsFiniteSet(2 .. l - 1)
      BY <3>1, FS_Interval
    <3>3. IsFiniteSet(before)
      BY <2>2, <3>2, FS_Subset
    <3>4. 2 .. l - 1 \subseteq Nat
      BY <2>1
    <3>. QED  BY <2>2, <3>3, <3>4
  <2>5. bars \in Seq(Nat)
    <3> HIDE DEF before, close
    <3>1. PICK asc \in Seq(before) : asc = Ascending(before)
      BY <2>4, AscendingType
    <3>2. PICK s \in Nat : asc \in [1 .. s -> before]
      BY <3>1
    <3>3. asc \in [1 .. s -> Nat]
      BY <2>4, <3>2
    <3>4. asc \in Seq(Nat)
      BY <3>3
    <3>. QED  BY <2>3, <3>1, <3>4
  <2> HIDE DEF bars, close
  <2>6. PICK m \in Int : m = Len(bars) - 1 /\ \A n \in 1 .. m + 1 : bars[n] \in Nat
    <3>1. PICK b \in Seq(Nat) : b = bars
      BY <2>5
    <3>2. Len(b) \in Nat /\ \A n \in 1 .. Len(b) : b[n] \in Nat
      OBVIOUS
    <3>3. Len(b) - 1 \in Int /\ (Len(b) - 1) + 1 = Len(b)
      BY <3>2
    <3>. QED  BY <3>1, <3>2, <3>3
  <2>7. m \in Nat
    <3>1. Len(bars) >= 1
      <4> HIDE DEF before
      <4>1. PICK asc \in Seq(before) : asc = Ascending(before)
        BY <2>4, AscendingType
      <4>. QED  BY <4>1 DEF bars
    <3>. QED  BY <2>6, <3>1
  <2>8. DOMAIN alternatives = 1 .. m /\ Strings(alternatives)
    <3>1. ASSUME NEW n \in 1 .. m
          PROVE  Len(SubSeq(k, bars[n] + 2, bars[n + 1])) \in Nat
      <4>1. bars[n] \in Nat /\ bars[n + 1] \in Nat
        BY <2>6
      <4>2. PICK x \in Nat, y \in Nat : x = bars[n] + 2 /\ y = bars[n + 1] /\ x >= 1
        BY <4>1
      <4>3. Len(SubSeq(k, x, y)) \in Nat
        BY <4>2
      <4>. QED  BY <4>2, <4>3
    <3>2. DOMAIN alternatives = 1 .. m
      BY <2>6
    <3> HIDE DEF key
    <3>. QED  BY <2>1, <3>1, <3>2 DEF Strings
  <2> HIDE DEF alternatives
  <2>9. calls \in Seq(SoundWith(ary, Head1.key))
    BY <1>2, <1>3, <2>7, <2>8, FindEachSound
  <2> HIDE DEF calls
  <2>10. close + 1 \in Nat /\ close + 1 >= 1
    BY <2>3
  <2>11. GoOn(Head1, calls, close + 1) \in Seq(Shorter(ary, Head1.key))
    BY <1>2, <2>9, <2>10, GoOnShorter
  <2>. QED  BY <1>1, <1>6, <2>11, MakeKeeps
<1> HIDE DEF ends, calls, close
<1>. QED  BY <1>4, <1>5, <1>6

-----------------------------------------------------------------------------
(* FlattenSeq from its first sequence on.                                  *)
LEMMA FlattenSeqIs ==
  ASSUME NEW seqs, Len(seqs) \in Nat, Len(seqs) # 0
  PROVE  \E f : /\ FlattenSeq(seqs) = f[Len(seqs)]
                /\ f[1] = seqs[1]
                /\ \A n \in Nat : n \in 1 .. Len(seqs) - 1 =>
                     f[n + 1] = f[n] \o seqs[n + 1]
<1>1. PICK l \in Nat : l = Len(seqs) /\ l # 0
  OBVIOUS
<1> DEFINE f == CHOOSE g : Flat(seqs, g)
<1>2. FlattenSeq(seqs) = f[l]
  BY <1>1 DEF FlattenSeq, Flat
<1>3. Flat(seqs, f)
  BY <1>1, FlatExists
<1> HIDE DEF f
<1>4. \A n \in 1 .. l : f[n] = IF n = 1 THEN seqs[n] ELSE f[n - 1] \o seqs[n]
  <2>1. f = [n \in 1 .. l |-> IF n = 1 THEN seqs[n] ELSE f[n - 1] \o seqs[n]]
    BY <1>1, <1>3 DEF Flat
  <2>. QED  BY <2>1
<1>5. f[1] = seqs[1]
  <2>1. 1 \in 1 .. l
    BY <1>1
  <2>. QED  BY <1>4, <2>1
<1>6. ASSUME NEW n \in Nat, n \in 1 .. l - 1
      PROVE  f[n + 1] = f[n] \o seqs[n + 1]
  <2>1. n + 1 \in 1 .. l /\ n + 1 # 1 /\ (n + 1) - 1 = n
    BY <1>6
  <2>2. f[n + 1] = IF n + 1 = 1 THEN seqs[n + 1] ELSE f[(n + 1) - 1] \o seqs[n + 1]
    BY <1>4, <2>1, Zenon
  <2>. QED  BY <2>1, <2>2
<1>. QED  BY <1>1, <1>2, <1>5, <1>6

LEMMA FlattenHead ==
  ASSUME NEW S, NEW seqs \in Seq(Seq(S)), seqs # <<>>
  PROVE  FlattenSeq(seqs) = seqs[1] \o FlattenSeq(Tail(seqs))
<1> DEFINE rest == Tail(seqs)
<1>1. PICK l \in Nat : /\ Len(seqs) = l + 1 /\ Len(rest) = l /\ seqs[1] \in Seq(S)
                       /\ \A n \in 1 .. l : rest[n] = seqs[n + 1] /\ rest[n] \in Seq(S)
  <2>1. PICK Q : Q = Seq(S)
    OBVIOUS
  <2>2. PICK r \in Seq(Q) : r = rest /\ Len(seqs) = Len(r) + 1 /\ seqs[1] \in Q
    BY <2>1, HeadAndTail
  <2>3. \A n \in 1 .. Len(r) : r[n] = seqs[n + 1] /\ r[n] \in Q
    BY <2>1, <2>2
  <2>4. PICK l \in Nat : l = Len(r)
    OBVIOUS
  <2>. QED  BY <2>1, <2>2, <2>3, <2>4
<1> HIDE DEF rest
<1>2. PICK f : /\ FlattenSeq(seqs) = f[l + 1] /\ f[1] = seqs[1]
               /\ \A n \in Nat : n \in 1 .. l => f[n + 1] = f[n] \o seqs[n + 1]
  <2>1. Len(seqs) \in Nat /\ Len(seqs) # 0 /\ Len(seqs) - 1 = l
    BY <1>1
  <2>2. \E f : /\ FlattenSeq(seqs) = f[Len(seqs)] /\ f[1] = seqs[1]
               /\ \A n \in Nat : n \in 1 .. Len(seqs) - 1 =>
                    f[n + 1] = f[n] \o seqs[n + 1]
    BY <2>1, FlattenSeqIs
  <2>. QED  BY <1>1, <2>1, <2>2, Zenon
<1>3. CASE l = 0
  <2>1. FlattenSeq(seqs) = seqs[1]
    BY <1>2, <1>3
  <2>2. Len(rest) = 0 /\ rest \in Seq(Seq(S))
    BY <1>1, <1>3, HeadAndTail DEF rest
  <2>3. FlattenSeq(rest) = rest
    BY <2>2, Zenon DEF FlattenSeq
  <2>4. rest = <<>>
    BY <2>2, EmptySequence
  <2>5. seqs[1] \o <<>> = seqs[1]
    <3>1. PICK s \in Seq(S) : s = seqs[1]
      BY <1>1
    <3>. QED  BY <3>1
  <2>. QED  BY <2>1, <2>3, <2>4, <2>5 DEF rest
<1>4. CASE l # 0
  <2>1. PICK g : /\ FlattenSeq(rest) = g[l] /\ g[1] = rest[1]
                 /\ \A n \in Nat : n \in 1 .. l - 1 => g[n + 1] = g[n] \o rest[n + 1]
    <3>1. Len(rest) \in Nat /\ Len(rest) # 0
      BY <1>1, <1>4
    <3>2. \E g : /\ FlattenSeq(rest) = g[Len(rest)] /\ g[1] = rest[1]
                 /\ \A n \in Nat : n \in 1 .. Len(rest) - 1 =>
                      g[n + 1] = g[n] \o rest[n + 1]
      BY <3>1, FlattenSeqIs
    <3>. QED  BY <1>1, <3>2, Zenon
  <2> DEFINE Good(n) == g[n] \in Seq(S) /\ f[n + 1] = seqs[1] \o g[n]
             T == {n \in Nat : n \in 1 .. l => Good(n)}
  <2>2. 0 \in T
    OBVIOUS
  <2>3. ASSUME NEW n \in Nat, n \in T
        PROVE  n + 1 \in T
    <3> SUFFICES ASSUME n + 1 \in 1 .. l PROVE Good(n + 1)
      <4> HIDE DEF Good
      <4>. QED  OBVIOUS
    <3>1. /\ rest[n + 1] = seqs[(n + 1) + 1] /\ rest[n + 1] \in Seq(S)
      BY <1>1
    <3>2. f[(n + 1) + 1] = f[n + 1] \o seqs[(n + 1) + 1]
      <4>1. n + 1 \in Nat
        OBVIOUS
      <4>. QED  BY <1>2, <4>1
    <3>3. CASE n = 0
      <4>1. g[n + 1] = rest[n + 1] /\ f[n + 1] = seqs[1]
        BY <1>2, <2>1, <3>3
      <4>. QED  BY <3>1, <3>2, <4>1
    <3>4. CASE n # 0
      <4>1. n \in 1 .. l /\ n \in 1 .. l - 1
        BY <3>4
      <4>2. g[n] \in Seq(S) /\ f[n + 1] = seqs[1] \o g[n]
        BY <2>3, <4>1
      <4>3. g[n + 1] = g[n] \o rest[n + 1]
        BY <2>1, <4>1
      <4>4. PICK s \in Seq(S), t \in Seq(S), u \in Seq(S) :
              s = seqs[1] /\ t = g[n] /\ u = rest[n + 1]
        BY <1>1, <3>1, <4>2
      <4>5. (s \o t) \o u = s \o (t \o u) /\ t \o u \in Seq(S)
        BY ConcatAssociative, SMTT(30)
      <4>. QED  BY <3>1, <3>2, <4>2, <4>3, <4>4, <4>5
    <3>. QED  BY <3>3, <3>4
  <2>4. Nat \subseteq T
    <3> HIDE DEF T
    <3>. QED  BY <2>2, <2>3, Upwards
  <2>5. Good(l)
    <3>1. l \in 1 .. l
      BY <1>4
    <3> HIDE DEF Good
    <3>. QED  BY <2>4, <3>1
  <2>. QED  BY <1>2, <2>1, <2>5 DEF rest
<1>. QED  BY <1>3, <1>4

-----------------------------------------------------------------------------
(* The expression sa_ignore_case makes, byte by byte of the keyword.       *)
Letter(b) == IsLower(b) \/ IsUpper(b)

Piece(b) ==
  CASE Letter(b) -> <<LBRACKET, ToLower(b), ToUpper(b), RBRACKET>>
    [] b \in Special -> <<ESCAPE_CHAR, b>>
    [] OTHER -> <<b>>

LEMMA PieceIs ==
  ASSUME NEW b \in Byte
  PROVE  /\ Letter(b) => /\ Piece(b) = <<LBRACKET, ToLower(b), ToUpper(b), RBRACKET>>
                         /\ ToLower(b) \in 97 .. 122 /\ ToUpper(b) \in 65 .. 90
         /\ b \in Special => ~ Letter(b) /\ Piece(b) = <<ESCAPE_CHAR, b>>
         /\ ~ Letter(b) /\ b \notin Special => Piece(b) = <<b>>
<1>1. b \in 0 .. 255
  BY DEF Byte
<1>2. b \in Special => ~ Letter(b)
  BY <1>1 DEF Letter, IsLower, IsUpper, Special, LBRACKET, RBRACKET, ESCAPE_CHAR,
     LPAREN, RPAREN, DOT, BAR, QUESTION
<1>3. Letter(b) => ToLower(b) \in 97 .. 122 /\ ToUpper(b) \in 65 .. 90
  BY <1>1 DEF Letter, IsLower, IsUpper, ToLower, ToUpper
<1>4. Letter(b) => Piece(b) = <<LBRACKET, ToLower(b), ToUpper(b), RBRACKET>>
  BY <1>2 DEF Piece
<1>5. b \in Special => Piece(b) = <<ESCAPE_CHAR, b>>
  BY <1>2 DEF Piece
<1>6. ~ Letter(b) /\ b \notin Special => Piece(b) = <<b>>
  BY DEF Piece
<1>. QED  BY <1>2, <1>3, <1>4, <1>5, <1>6

LEMMA PieceType ==
  ASSUME NEW b \in Byte
  PROVE  Piece(b) \in Seq(Byte)
<1>1. LBRACKET \in Byte /\ RBRACKET \in Byte /\ ESCAPE_CHAR \in Byte
  BY DEF LBRACKET, RBRACKET, ESCAPE_CHAR, Byte
<1>2. Letter(b) => ToLower(b) \in Byte /\ ToUpper(b) \in Byte
  <2>1. 97 .. 122 \subseteq Byte /\ 65 .. 90 \subseteq Byte
    BY DEF Byte
  <2>. QED  BY <2>1, PieceIs
<1>3. CASE Letter(b)
  <2>1. PICK l \in Byte, u \in Byte : l = ToLower(b) /\ u = ToUpper(b)
    BY <1>2, <1>3
  <2>2. Piece(b) = <<LBRACKET, l, u, RBRACKET>>
    BY <1>3, <2>1, PieceIs
  <2>. QED  BY <1>1, <2>2
<1>4. CASE b \in Special
  <2>1. Piece(b) = <<ESCAPE_CHAR, b>>
    BY <1>4, PieceIs
  <2>. QED  BY <1>1, <2>1
<1>5. CASE ~ Letter(b) /\ b \notin Special
  <2>1. Piece(b) = <<b>>
    BY <1>5, PieceIs
  <2>. QED  BY <2>1
<1>. QED  BY <1>3, <1>4, <1>5

Pieces(key) == [n \in DOMAIN key |-> Piece(key[n])]

LEMMA PiecesType ==
  ASSUME NEW key \in Seq(Byte)
  PROVE  /\ Pieces(key) \in Seq(Seq(Byte)) /\ Len(Pieces(key)) = Len(key)
         /\ ExpandIgnoreCase(key) = FlattenSeq(Pieces(key))
<1>1. PICK l \in Nat : l = Len(key) /\ DOMAIN key = 1 .. l
  OBVIOUS
<1>2. \A n \in 1 .. l : Piece(key[n]) \in Seq(Byte)
  <2> SUFFICES ASSUME NEW n \in 1 .. l PROVE Piece(key[n]) \in Seq(Byte)
    OBVIOUS
  <2>1. key[n] \in Byte
    BY <1>1
  <2>. QED  BY <2>1, PieceType
<1>3. Pieces(key) \in [1 .. l -> Seq(Byte)]
  BY <1>1, <1>2 DEF Pieces
<1>4. Pieces(key) \in Seq(Seq(Byte)) /\ Len(Pieces(key)) = l
  BY <1>3
<1>5. ExpandIgnoreCase(key) = FlattenSeq(Pieces(key))
  BY DEF ExpandIgnoreCase, Pieces, Piece, Letter
<1>. QED  BY <1>1, <1>4, <1>5

LEMMA ExpandOfType ==
  ASSUME NEW key \in Seq(Byte)
  PROVE  ExpandIgnoreCase(key) \in Seq(Byte)
BY PiecesType, FlattenSeqType

LEMMA ExpandHead ==
  ASSUME NEW key \in Seq(Byte), key # <<>>
  PROVE  ExpandIgnoreCase(key) = Piece(key[1]) \o ExpandIgnoreCase(Tail(key))
<1>1. PICK rest \in Seq(Byte) : rest = Tail(key) /\ Len(key) = Len(rest) + 1
  BY HeadAndTail
<1>2. PICK l \in Nat : l = Len(rest) /\ DOMAIN rest = 1 .. l
  OBVIOUS
<1>8. DOMAIN key = 1 .. l + 1 /\ \A n \in 1 .. l : rest[n] = key[n + 1]
  BY <1>1, <1>2
<1>3. Pieces(key) \in Seq(Seq(Byte)) /\ Len(Pieces(key)) = l + 1
  BY <1>1, <1>2, PiecesType
<1>4. Pieces(key)[1] = Piece(key[1])
  <2>1. 1 \in 1 .. l + 1
    OBVIOUS
  <2>. QED  BY <1>8, <2>1 DEF Pieces
<1>5. Tail(Pieces(key)) = Pieces(rest)
  <2>1. PICK Q : Q = Seq(Byte)
    OBVIOUS
  <2>2. PICK s \in Seq(Q) : s = Pieces(key) /\ Len(s) = l + 1
    BY <1>3, <2>1
  <2>3. PICK t \in Seq(Q) : t = Tail(s) /\ Len(t) = l /\ \A n \in 1 .. l : t[n] = s[n + 1]
    <3>1. s # <<>> /\ Len(s) - 1 = l
      BY <2>2
    <3>2. /\ Tail(s) \in Seq(Q) /\ Len(Tail(s)) = l
          /\ \A n \in 1 .. Len(Tail(s)) : Tail(s)[n] = s[n + 1]
      BY <3>1, HeadTailProperties
    <3>. QED  BY <3>2
  <2>4. \A n \in 1 .. l : s[n + 1] = Piece(rest[n])
    <3>1. \A n \in 1 .. l : n + 1 \in 1 .. l + 1
      OBVIOUS
    <3>. QED  BY <1>8, <2>2, <3>1 DEF Pieces
  <2>5. PICK u \in Seq(Q) : u = Pieces(rest) /\ Len(u) = l
    BY <1>2, <2>1, PiecesType
  <2>6. \A n \in 1 .. l : u[n] = Piece(rest[n])
    BY <1>2, <2>5 DEF Pieces
  <2>7. Len(t) = Len(u) /\ \A n \in 1 .. Len(t) : t[n] = u[n]
    BY <2>3, <2>4, <2>5, <2>6
  <2>8. t = u
    BY <2>7, SeqEqual
  <2>. QED  BY <2>2, <2>3, <2>5, <2>8
<1>6. Pieces(key) # <<>>
  <2>1. Len(<<>>) = 0
    OBVIOUS
  <2>. QED  BY <1>3, <2>1
<1>7. FlattenSeq(Pieces(key)) = Pieces(key)[1] \o FlattenSeq(Tail(Pieces(key)))
  BY <1>3, <1>6, FlattenHead
<1>. QED  BY <1>1, <1>4, <1>5, <1>7, PiecesType

LEMMA ExpandEmpty == ExpandIgnoreCase(<<>>) = <<>>
<1>1. <<>> \in Seq(Byte) /\ Len(<<>>) = 0
  OBVIOUS
<1>2. PICK s \in Seq(Seq(Byte)) : s = Pieces(<<>>) /\ Len(s) = 0
  BY <1>1, PiecesType
<1>3. FlattenSeq(s) = s
  BY <1>2, Zenon DEF FlattenSeq
<1>4. s = <<>>
  BY <1>2, EmptySequence
<1>. QED  BY <1>1, <1>2, <1>3, <1>4, PiecesType

(* What is left of the expression once k bytes of the keyword are matched. *)
Rest(key, k) == ExpandIgnoreCase(Drop(key, k))

LEMMA DropIs ==
  ASSUME NEW S, NEW key \in Seq(S), NEW k \in Nat, k < Len(key)
  PROVE  /\ Drop(key, k) # <<>> /\ Drop(key, k)[1] = key[k + 1]
         /\ Tail(Drop(key, k)) = Drop(key, k + 1)
<1>1. PICK l \in Nat : l = Len(key) /\ k < l
  OBVIOUS
<1>2. k + 1 \in 1 .. l /\ l \in k + 1 .. l
  BY <1>1
<1>3. /\ Head(SubSeq(key, k + 1, l)) = key[k + 1]
      /\ Tail(SubSeq(key, k + 1, l)) = SubSeq(key, (k + 1) + 1, l)
  BY <1>1, <1>2, HeadTailOfSubSeq
<1>4. SubSeq(key, k + 1, l) # <<>>
  <2>1. SubSeq(key, k + 1, l) = <<key[k + 1]>> \o SubSeq(key, (k + 1) + 1, l)
    BY <1>1, <1>2, SubSeqRecursiveFirst
  <2>2. PICK x \in S, t \in Seq(S) : x = key[k + 1] /\ t = SubSeq(key, (k + 1) + 1, l)
    <3>1. \A i \in (k + 1) + 1 .. l : key[i] \in S
      BY <1>1
    <3>2. SubSeq(key, (k + 1) + 1, l) \in Seq(S)
      BY <1>1, <3>1, SubSeqProperties
    <3>3. key[k + 1] \in S
      BY <1>1, <1>2
    <3>. QED  BY <3>2, <3>3, Zenon
  <2>3. <<x>> \o t # <<>>
    <3>1. <<x>> \in Seq(S) /\ <<x>> # <<>>
      OBVIOUS
    <3>. QED  BY <3>1, ConcatEqualIffEmpty
  <2>. QED  BY <2>1, <2>2, <2>3
<1>5. Head(Drop(key, k)) = Drop(key, k)[1]
  OBVIOUS
<1>. QED  BY <1>1, <1>3, <1>4, <1>5 DEF Drop

LEMMA RestIs ==
  ASSUME NEW key \in Seq(Byte), NEW k \in Nat
  PROVE  /\ Rest(key, k) \in Seq(Byte)
         /\ k < Len(key) => Rest(key, k) = Piece(key[k + 1]) \o Rest(key, k + 1)
         /\ k = Len(key) => Rest(key, k) = <<>>
<1>1. PICK l \in Nat : l = Len(key)
  OBVIOUS
<1>2. Drop(key, k) \in Seq(Byte)
  BY DropType
<1>6. Rest(key, k) \in Seq(Byte)
  BY <1>2, ExpandOfType DEF Rest
<1>3. CASE k < l
  <2>1. /\ Drop(key, k) # <<>> /\ Drop(key, k)[1] = key[k + 1]
        /\ Tail(Drop(key, k)) = Drop(key, k + 1)
    BY <1>1, <1>3, DropIs
  <2>2. ExpandIgnoreCase(Drop(key, k))
          = Piece(Drop(key, k)[1]) \o ExpandIgnoreCase(Tail(Drop(key, k)))
    BY <1>2, <2>1, ExpandHead
  <2>3. Rest(key, k) = Piece(key[k + 1]) \o Rest(key, k + 1)
    BY <2>1, <2>2 DEF Rest
  <2>. QED  BY <1>1, <1>3, <1>6, <2>3
<1>4. CASE k = l
  <2>1. Drop(key, k) = <<>>
    <3>1. k + 1 \in Int /\ l \in Int /\ l < k + 1
      BY <1>4
    <3>. QED  BY <1>1, <3>1, SubSeqEmpty DEF Drop
  <2>2. Rest(key, k) = <<>>
    BY <2>1, ExpandEmpty DEF Rest
  <2>. QED  BY <1>1, <1>4, <1>6, <2>2
<1>5. CASE k > l
  BY <1>1, <1>5, <1>6
<1>. QED  BY <1>3, <1>4, <1>5

-----------------------------------------------------------------------------
(* The first call is for the whole array, no byte of it compared.          *)
LEMMA CallKeeps ==
  ASSUME RegexInv, Call
  PROVE  RegexInv' /\ NewCallsAreShorter
<1> DEFINE c == [left |-> 0, right |-> Len(ary.array) - 1, txt_skip |-> 0,
                 key |-> KeySearched(asked)]
<1>1. /\ todo' = <<c>> /\ todo = <<>> /\ pc' = "run"
      /\ ary' = ary /\ asked' = asked
  BY DEF RegexInv, Call
<1>2. PICK m \in Nat : m = Len(ary.array) /\ m > 0
  <2>1. ary.array \in Seq(Nat) /\ ary.array # <<>>
    BY DEF RegexInv, IndexOK
  <2>. QED  BY <2>1
<1>3. KeySearched(asked) \in Seq(Byte)
  <2>1. asked.key \in Seq(Byte)
    BY RequestsAssumption DEF RegexInv
  <2>. QED  BY <2>1, ExpandOfType DEF KeySearched
<1>4. c \in CallType
  BY <1>2, <1>3 DEF CallType
<1>5. FS!CallOK(ary, 0, m - 1, 0)
  <2>1. PICK N \in Nat : N = Len(ary.text)
    BY DEF RegexInv, IndexOK
  <2>2. ASSUME NEW i \in 0 .. m - 1
        PROVE  AryIdx2TxtIdx(ary, i) + 0 <= Len(ary.text)
    <3>1. AryIdx2TxtIdx(ary, i) \in Nat /\ AryIdx2TxtIdx(ary, i) < N
      BY <1>2, <2>1 DEF RegexInv, IndexOK, AryIdx2TxtIdx
    <3>. QED  BY <2>1, <3>1
  <2>3. 0 .. 0 - 1 = {}
    OBVIOUS
  <2>4. 0 <= 0 /\ 0 <= m - 1 /\ m - 1 < Len(ary.array)
    BY <1>2
  <2>. QED  BY <2>2, <2>3, <2>4, CallOKIs
<1>6. c \in SoundCalls(ary)
  <2>1. c.left = 0 /\ c.right = m - 1 /\ c.txt_skip = 0
    BY <1>2
  <2> HIDE DEF c
  <2>. QED  BY <1>4, <1>5, <2>1 DEF SoundCalls
<1> HIDE DEF c
<1>7. <<c>> \in Seq(SoundCalls(ary))
  BY <1>6
<1>. QED  BY <1>1, <1>7 DEF RegexInv, NewCallsAreShorter

LEMMA ReturnKeeps ==
  ASSUME RegexInv, Return
  PROVE  RegexInv' /\ todo' = todo
BY DEF RegexInv, Return

LEMMA NextKeeps ==
  ASSUME RegexInv, [Next]_vars
  PROVE  RegexInv' /\ (NewCallsAreShorter \/ todo' = todo)
<1>1. CASE UNCHANGED vars
  BY <1>1 DEF vars, RegexInv
<1>2. CASE Next
  BY <1>2, CallKeeps, StoreResultKeeps, MatchWildCardKeeps, MatchClassKeeps,
     SkipQuestionKeeps, MatchAlternationKeeps, MatchOneCharKeeps, ReturnKeeps DEF Next
<1>. QED  BY <1>1, <1>2

LEMMA InitInv == Init => RegexInv
<1> SUFFICES ASSUME Init PROVE RegexInv
  OBVIOUS
<1>1. IndexOK(ary) /\ ary.array # <<>> /\ asked \in Requests /\ todo = <<>>
  BY IndexesAssumption DEF Init
<1>2. <<>> \in Seq(SoundCalls(ary))
  OBVIOUS
<1>. QED  BY <1>1, <1>2 DEF RegexInv

(* The calls outstanding are such as sa_find answers, at every moment of   *)
(* the search.                                                             *)
THEOREM InductiveInvariant == Spec => []RegexInv
<1>1. RegexInv /\ [Next]_vars => RegexInv'
  BY NextKeeps
<1>. QED  BY InitInv, <1>1, PTL DEF Spec

(* sa_regex never asks sa_find about a range whose suffixes differ in the  *)
(* bytes it has passed, whatever items the expression leaves out.          *)
THEOREM CallsAlwaysSound == Spec => []PendingCallsAreSound
<1>1. RegexInv => PendingCallsAreSound
  <2> SUFFICES ASSUME RegexInv, NEW n \in DOMAIN todo
               PROVE  FS!CallOK(ary, todo[n].left, todo[n].right, todo[n].txt_skip)
    BY DEF PendingCallsAreSound
  <2>1. todo[n] \in SoundCalls(ary)
    <3> DEFINE S == SoundCalls(ary)
    <3>1. todo \in Seq(S)
      BY DEF RegexInv
    <3> HIDE DEF S
    <3>2. todo[n] \in S
      BY <3>1
    <3>. QED  BY <3>2 DEF S
  <2>. QED  BY <2>1 DEF SoundCalls
<1>. QED  BY <1>1, InductiveInvariant, PTL

(* Each call of sa_regex_sub makes only calls with less of the expression  *)
(* left, for every expression, so that the recursion ends.                 *)
THEOREM RecursionEnds == Spec => CallsShortenTheKey
<1>1. RegexInv /\ [Next]_vars =>
        [\A n \in 1 .. Len(todo') - Len(todo) + 1 :
           todo # <<>> => Len(todo'[n].key) < Len(todo[1].key)]_todo
  BY NextKeeps DEF NewCallsAreShorter
<1>. QED  BY <1>1, InductiveInvariant, PTL DEF Spec, CallsShortenTheKey
-----------------------------------------------------------------------------
LEMMA BehindSequence ==
  ASSUME NEW S, NEW s \in Seq(S), NEW t \in Seq(S)
  PROVE  /\ Drop(s \o t, Len(s)) = t
         /\ KeyByte(s \o t, Len(s)) = KeyByte(t, 0)
         /\ \A i \in 0 .. Len(s) - 1 : KeyByte(s \o t, i) = s[i + 1]
         /\ Len(s \o t) = Len(s) + Len(t)
<1>1. PICK n \in Nat, m \in Nat : n = Len(s) /\ m = Len(t)
  BY LenProperties
<1>2. PICK u \in Seq(S) : /\ u = s \o t /\ Len(u) = n + m
                          /\ \A i \in 1 .. n + m : u[i] = IF i <= n THEN s[i] ELSE t[i - n]
  <2>1. s \o t \in Seq(S)
    BY ConcatProperties
  <2>2. Len(s \o t) = n + m
    BY <1>1, ConcatProperties
  <2>3. \A i \in 1 .. n + m : (s \o t)[i] = IF i <= n THEN s[i] ELSE t[i - n]
    BY <1>1, ConcatProperties
  <2>. QED  BY <2>1, <2>2, <2>3
<1>3. Drop(u, n) = t
  <2>1. CASE m = 0
    <3>1. n + 1 \in Int /\ n + m \in Int /\ n + m < n + 1
      BY <2>1
    <3>2. SubSeq(u, n + 1, n + m) = <<>>
      BY <3>1, SubSeqEmpty
    <3>3. t = <<>>
      BY <1>1, <2>1, EmptySequence
    <3>. QED  BY <1>2, <3>2, <3>3 DEF Drop
  <2>2. CASE m # 0
    <3>1. /\ n + 1 \in n + 1 .. n + m /\ n + m \in n + 1 .. n + m
          /\ (n + 1) - n = 1 /\ (n + m) - n = m
      BY <2>2
    <3>2. SubSeq(s \o t, n + 1, n + m) = SubSeq(t, (n + 1) - n, (n + m) - n)
      BY <1>1, <3>1, SubSeqOfConcat2
    <3>3. SubSeq(t, 1, m) = t
      BY <1>1, SubSeqFull
    <3>. QED  BY <1>2, <3>1, <3>2, <3>3 DEF Drop
  <2>. QED  BY <2>1, <2>2
<1>4. KeyByte(u, n) = KeyByte(t, 0)
  <2>1. CASE m = 0
    BY <1>1, <1>2, <2>1 DEF KeyByte
  <2>2. CASE m # 0
    <3>1. n + 1 \in 1 .. n + m /\ ~ (n + 1 <= n) /\ (n + 1) - n = 1 /\ n < n + m /\ 0 < m
      BY <2>2
    <3>2. u[n + 1] = t[1]
      <4>1. u[n + 1] = t[(n + 1) - n]
        BY <1>2, <3>1
      <4>. QED  BY <3>1, <4>1
    <3>. QED  BY <1>1, <1>2, <3>1, <3>2 DEF KeyByte
  <2>. QED  BY <2>1, <2>2
<1>5. ASSUME NEW i \in 0 .. n - 1
      PROVE  KeyByte(u, i) = s[i + 1]
  <2>1. i + 1 \in 1 .. n + m /\ i + 1 <= n /\ i < n + m
    OBVIOUS
  <2>. QED  BY <1>2, <2>1 DEF KeyByte
<1>. QED  BY <1>1, <1>2, <1>3, <1>4, <1>5

(* How the rest of the expression begins: never with a question mark.      *)
LEMMA RestFirst ==
  ASSUME NEW key \in Seq(Byte), NEW k \in 0 .. Len(key)
  PROVE  /\ KeyByte(Rest(key, k), 0) # QUESTION
         /\ MSB_ON(KeyByte(Rest(key, k), 0)) =>
              /\ k < Len(key) /\ KeyByte(Rest(key, k), 0) = key[k + 1]
              /\ ~ Letter(key[k + 1]) /\ key[k + 1] \notin Special
<1>1. k \in Nat /\ (k = Len(key) \/ k < Len(key))
  OBVIOUS
<1>2. CASE k = Len(key)
  <2>1. Rest(key, k) = <<>> /\ Len(<<>>) = 0
    BY <1>1, <1>2, RestIs
  <2>2. KeyByte(Rest(key, k), 0) = 0
    BY <2>1 DEF KeyByte
  <2>. QED  BY <2>2 DEF QUESTION, MSB_ON
<1>3. CASE k < Len(key)
  <2>1. PICK b \in Byte : b = key[k + 1]
    BY <1>1, <1>3
  <2>2. PICK p \in Seq(Byte), t \in Seq(Byte) : p = Piece(b) /\ t = Rest(key, k + 1)
    <3>1. k + 1 \in Nat
      BY <1>1
    <3>. QED  BY <3>1, PieceType, RestIs
  <2>3. Rest(key, k) = p \o t
    BY <1>1, <1>3, <2>1, <2>2, RestIs
  <2>4. ASSUME Len(p) \in Nat, Len(p) > 0
        PROVE  KeyByte(Rest(key, k), 0) = p[1]
    <3>1. 0 \in 0 .. Len(p) - 1 /\ 0 + 1 = 1
      BY <2>4
    <3>. QED  BY <2>3, <3>1, BehindSequence
  <2>5. CASE Letter(b)
    <3>1. Len(p) = 4 /\ p[1] = LBRACKET
      BY <2>2, <2>5, PieceIs
    <3>2. KeyByte(Rest(key, k), 0) = LBRACKET
      BY <2>4, <3>1
    <3>. QED  BY <3>2 DEF LBRACKET, QUESTION, MSB_ON
  <2>6. CASE b \in Special
    <3>1. Len(p) = 2 /\ p[1] = ESCAPE_CHAR
      BY <2>2, <2>6, PieceIs
    <3>2. KeyByte(Rest(key, k), 0) = ESCAPE_CHAR
      BY <2>4, <3>1
    <3>. QED  BY <3>2 DEF ESCAPE_CHAR, QUESTION, MSB_ON
  <2>7. CASE ~ Letter(b) /\ b \notin Special
    <3>1. Len(p) = 1 /\ p[1] = b
      BY <2>2, <2>7, PieceIs
    <3>2. KeyByte(Rest(key, k), 0) = b
      BY <2>4, <3>1
    <3>3. b # QUESTION
      BY <2>7 DEF Special
    <3>. QED  BY <1>3, <2>1, <2>7, <3>2, <3>3
  <2>. QED  BY <2>5, <2>6, <2>7
<1>. QED  BY <1>1, <1>2, <1>3
-----------------------------------------------------------------------------
(* The class that stands for a letter holds its two cases.                 *)
LetterScanned(key, lower, upper) ==
  /\ ClassEnd(key) = 3
  /\ CharacterClass(key) = [EmptyClass EXCEPT !.bv = {lower, upper}]

LEMMA ScanOfLetter ==
  ASSUME NEW key, NEW l \in Nat, l = Len(key), l >= 4,
         NEW lower \in 97 .. 122, NEW upper \in 65 .. 90,
         KeyByte(key, 1) = lower, KeyByte(key, 2) = upper, KeyByte(key, 3) = RBRACKET
  PROVE  LetterScanned(key, lower, upper)
<1>1. PICK f : Turns(key, l, f)
  BY ScanClassIs
<1>5. /\ ScanClass(key, l) = f[l]
      /\ f[0] = [i |-> 1, class |-> EmptyClass]
      /\ \A m \in 1 .. l : f[m] = TurnOfScan(key, f[m - 1])
  BY <1>1 DEF Turns
<1> DEFINE one == [EmptyClass EXCEPT !.bv = {lower}]
           two == [EmptyClass EXCEPT !.bv = {lower, upper}]
<1>6. ~ IsNegated(key)
  BY DEF IsNegated, NEGATED_CHAR_CLASS_CHAR
<1>7. /\ ~ ClassEnds(key, 1) /\ ~ ClassEnds(key, 2) /\ ClassEnds(key, 3)
  BY DEF ClassEnds, RBRACKET, ESCAPE_CHAR
<1>15. /\ KeyByte(key, 1) # DASH /\ ~ MSB_ON(KeyByte(key, 1))
       /\ KeyByte(key, 2) # DASH /\ ~ MSB_ON(KeyByte(key, 2))
  BY DEF DASH, MSB_ON
<1>8. MemberLength(key, 1) = 1 /\ MemberLength(key, 2) = 1
  BY <1>6, <1>15 DEF MemberLength
<1>9. AddMember(key, EmptyClass, 1) = one
  <2>1. AddMember(key, EmptyClass, 1) = [EmptyClass EXCEPT !.bv = @ \union {lower}]
    BY <1>6, <1>15, Zenon DEF AddMember
  <2>. QED  BY <2>1 DEF EmptyClass
<1>10. AddMember(key, one, 2) = two
  <2>1. AddMember(key, one, 2) = [one EXCEPT !.bv = @ \union {upper}]
    BY <1>6, <1>15, Zenon DEF AddMember
  <2>. QED  BY <2>1 DEF EmptyClass
<1> HIDE DEF one, two
<1>11. f[1] = [i |-> 2, class |-> one]
  <2>1. f[1] = TurnOfScan(key, f[0])
    <3>1. 1 \in 1 .. l /\ 1 - 1 = 0
      OBVIOUS
    <3>. QED  BY <1>5, <3>1
  <2>. QED  BY <1>5, <1>7, <1>8, <1>9, <2>1 DEF TurnOfScan
<1>12. f[2] = [i |-> 3, class |-> two]
  <2>1. f[2] = TurnOfScan(key, f[1])
    <3>1. 2 \in 1 .. l /\ 2 - 1 = 1
      OBVIOUS
    <3>. QED  BY <1>5, <3>1
  <2>. QED  BY <1>7, <1>8, <1>10, <1>11, <2>1 DEF TurnOfScan
<1>13. f[l] = [i |-> 3, class |-> two]
  <2> DEFINE final == [i |-> 3, class |-> two]
             T == {n \in Nat : n + 2 <= l => f[n + 2] = final}
  <2>1. 0 \in T
    BY <1>12
  <2>2. ASSUME NEW n \in Nat, n \in T
        PROVE  n + 1 \in T
    <3> SUFFICES ASSUME (n + 1) + 2 <= l PROVE f[(n + 1) + 2] = final
      OBVIOUS
    <3>1. f[n + 2] = final
      BY <2>2
    <3>2. f[(n + 1) + 2] = TurnOfScan(key, f[n + 2])
      <4>1. (n + 1) + 2 \in 1 .. l /\ ((n + 1) + 2) - 1 = n + 2
        OBVIOUS
      <4>. QED  BY <1>5, <4>1
    <3>3. TurnOfScan(key, final) = final
      BY <1>7 DEF TurnOfScan
    <3>. QED  BY <3>1, <3>2, <3>3
  <2>3. Nat \subseteq T
    <3> HIDE DEF T
    <3>. QED  BY <2>1, <2>2, Upwards
  <2>4. l - 2 \in T /\ (l - 2) + 2 = l
    <3>1. l - 2 \in Nat /\ (l - 2) + 2 = l
      OBVIOUS
    <3> HIDE DEF T
    <3>. QED  BY <2>3, <3>1
  <2>. QED  BY <2>4
<1>14. ClassEnd(key) = 3 /\ CharacterClass(key) = two
  BY <1>5, <1>6, <1>13 DEF ClassEnd, CharacterClass
<1>. QED  BY <1>14 DEF two, LetterScanned

ClassBefore(rest, lower, upper) == <<LBRACKET, lower, upper, RBRACKET>> \o rest

LetterRead(key, lower, upper, rest) ==
  /\ LetterScanned(key, lower, upper)
  /\ KeyByte(key, 0) = LBRACKET /\ KeyByte(key, 3) = RBRACKET
  /\ KeyByte(key, 4) = KeyByte(rest, 0) /\ Drop(key, 4) = rest

LEMMA ClassOfLetter ==
  ASSUME NEW rest \in Seq(Byte), NEW lower \in 97 .. 122, NEW upper \in 65 .. 90
  PROVE  LetterRead(ClassBefore(rest, lower, upper), lower, upper, rest)
<1>. PICK key : key = ClassBefore(rest, lower, upper)
  OBVIOUS
<1>0. key = <<LBRACKET, lower, upper, RBRACKET>> \o rest
  BY DEF ClassBefore
<1> DEFINE p == <<LBRACKET, lower, upper, RBRACKET>>
<1>1. p \in Seq(Byte) /\ Len(p) = 4
      /\ p[1] = LBRACKET /\ p[2] = lower /\ p[3] = upper /\ p[4] = RBRACKET
  <2>1. LBRACKET \in Byte /\ lower \in Byte /\ upper \in Byte /\ RBRACKET \in Byte
    BY DEF LBRACKET, RBRACKET, Byte
  <2>. QED  BY <2>1
<1> HIDE DEF p
<1>2. PICK l \in Nat : l = Len(key) /\ l >= 4
  <2>1. Len(key) = 4 + Len(rest) /\ Len(rest) \in Nat
    BY <1>0, <1>1, BehindSequence, LenProperties DEF p
  <2>. QED  BY <2>1
<1>3. /\ KeyByte(key, 0) = LBRACKET /\ KeyByte(key, 1) = lower
      /\ KeyByte(key, 2) = upper /\ KeyByte(key, 3) = RBRACKET
  <2>1. key = p \o rest
    BY <1>0 DEF p
  <2>2. \A i \in 0 .. 3 : KeyByte(key, i) = p[i + 1]
    <3>1. \A i \in 0 .. Len(p) - 1 : KeyByte(p \o rest, i) = p[i + 1]
      BY <1>1, BehindSequence
    <3>2. Len(p) - 1 = 3
      BY <1>1
    <3>. QED  BY <2>1, <3>1, <3>2
  <2>. QED  BY <1>1, <2>2
<1>4. KeyByte(key, 4) = KeyByte(rest, 0) /\ Drop(key, 4) = rest
  <2>1. key = p \o rest
    BY <1>0 DEF p
  <2>2. Drop(p \o rest, Len(p)) = rest /\ KeyByte(p \o rest, Len(p)) = KeyByte(rest, 0)
    BY <1>1, BehindSequence
  <2>. QED  BY <1>1, <2>1, <2>2, Zenon
<1>5. LetterScanned(key, lower, upper)
  BY <1>2, <1>3, ScanOfLetter
<1>. QED  BY <1>3, <1>4, <1>5 DEF LetterRead

-----------------------------------------------------------------------------
(* Calls that share no place of the index and together cover a set of it.  *)
Part(c) == c.left .. c.right

Held(calls, i) == \E n \in DOMAIN calls : i \in Part(calls[n])

Apart(calls) ==
  \A m, n \in DOMAIN calls : \A i : i \in Part(calls[m]) /\ i \in Part(calls[n]) => m = n

Cover(calls, R) == Apart(calls) /\ \A i : Held(calls, i) <=> i \in R

LEMMA CoverEmpty == Cover(<<>>, {})
BY DEF Cover, Apart, Held

LEMMA CoverConcat ==
  ASSUME NEW S, NEW s \in Seq(S), NEW t \in Seq(S), NEW R, NEW Q,
         Cover(s, R), Cover(t, Q), R \cap Q = {}
  PROVE  Cover(s \o t, R \union Q)
<1>1. PICK l \in Nat, m \in Nat : l = Len(s) /\ m = Len(t)
  BY LenProperties
<1>2. DOMAIN s = 1 .. l /\ DOMAIN t = 1 .. m
  BY <1>1, LenProperties
<1>3. PICK u : /\ u = s \o t /\ DOMAIN u = 1 .. l + m
               /\ \A n \in 1 .. l + m : u[n] = IF n <= l THEN s[n] ELSE t[n - l]
  <2>1. s \o t \in Seq(S) /\ Len(s \o t) = l + m
    BY <1>1, ConcatProperties
  <2>2. DOMAIN (s \o t) = 1 .. l + m
    BY <2>1, LenProperties
  <2>3. \A n \in 1 .. l + m : (s \o t)[n] = IF n <= l THEN s[n] ELSE t[n - l]
    BY <1>1, ConcatProperties
  <2>. QED  BY <2>2, <2>3
<1>4. ASSUME NEW n \in 1 .. l + m, NEW i, i \in Part(u[n])
      PROVE  \/ n \in 1 .. l /\ i \in Part(s[n]) /\ i \in R
             \/ n - l \in 1 .. m /\ n > l /\ i \in Part(t[n - l]) /\ i \in Q
  <2>1. CASE n <= l
    <3>1. n \in 1 .. l /\ i \in Part(s[n])
      BY <1>3, <1>4, <2>1
    <3>2. Held(s, i)
      BY <1>2, <3>1 DEF Held
    <3>. QED  BY <3>1, <3>2 DEF Cover
  <2>2. CASE ~ n <= l
    <3>1. n - l \in 1 .. m /\ i \in Part(t[n - l]) /\ n > l
      BY <1>3, <1>4, <2>2
    <3>2. Held(t, i)
      BY <1>2, <3>1 DEF Held
    <3>. QED  BY <3>1, <3>2 DEF Cover
  <2>. QED  BY <2>1, <2>2
<1>5. Apart(u)
  <2> SUFFICES ASSUME NEW n \in 1 .. l + m, NEW k \in 1 .. l + m, NEW i,
                      i \in Part(u[n]), i \in Part(u[k])
               PROVE  n = k
    BY <1>3 DEF Apart
  <2>1. \/ n \in 1 .. l /\ i \in Part(s[n]) /\ i \in R
        \/ n - l \in 1 .. m /\ n > l /\ i \in Part(t[n - l]) /\ i \in Q
    BY <1>4
  <2>2. \/ k \in 1 .. l /\ i \in Part(s[k]) /\ i \in R
        \/ k - l \in 1 .. m /\ k > l /\ i \in Part(t[k - l]) /\ i \in Q
    BY <1>4
  <2>3. n \in 1 .. l /\ k \in 1 .. l /\ i \in Part(s[n]) /\ i \in Part(s[k]) => n = k
    BY <1>2 DEF Cover, Apart
  <2>4. \A x, y \in 1 .. m : i \in Part(t[x]) /\ i \in Part(t[y]) => x = y
    BY <1>2 DEF Cover, Apart
  <2>5. CASE i \in R
    <3>1. i \notin Q
      BY <2>5
    <3>. QED  BY <2>1, <2>2, <2>3, <3>1
  <2>6. CASE i \notin R
    <3>1. PICK x \in 1 .. m : x = n - l /\ i \in Part(t[x])
      BY <2>1, <2>6
    <3>2. PICK y \in 1 .. m : y = k - l /\ i \in Part(t[y])
      BY <2>2, <2>6
    <3>3. x = y
      BY <2>4, <3>1, <3>2
    <3>. QED  BY <3>1, <3>2, <3>3
  <2>. QED  BY <2>5, <2>6
<1>6. ASSUME NEW i
      PROVE  Held(u, i) <=> i \in R \union Q
  <2>1. ASSUME Held(u, i) PROVE i \in R \union Q
    BY <1>3, <1>4, <2>1 DEF Held
  <2>2. ASSUME i \in R PROVE Held(u, i)
    <3>1. PICK n \in 1 .. l : i \in Part(s[n])
      BY <1>2, <2>2 DEF Cover, Held
    <3>2. n \in 1 .. l + m /\ u[n] = s[n]
      BY <1>3
    <3>. QED  BY <1>3, <3>1, <3>2 DEF Held
  <2>3. ASSUME i \in Q PROVE Held(u, i)
    <3>1. PICK n \in 1 .. m : i \in Part(t[n])
      BY <1>2, <2>3 DEF Cover, Held
    <3>2. n + l \in 1 .. l + m /\ ~ (n + l <= l) /\ (n + l) - l = n
      OBVIOUS
    <3>3. u[n + l] = t[n]
      BY <1>3, <3>2
    <3>. QED  BY <1>3, <3>1, <3>2, <3>3 DEF Held
  <2>. QED  BY <2>1, <2>2, <2>3
<1>. QED  BY <1>3, <1>5, <1>6 DEF Cover

LEMMA CoverFlatten ==
  ASSUME NEW S, NEW seqs \in Seq(Seq(S)), NEW R,
         \A n \in DOMAIN seqs : Cover(seqs[n], R[n]),
         \A m, n \in DOMAIN seqs : m # n => R[m] \cap R[n] = {}
  PROVE  Cover(FlattenSeq(seqs), UNION {R[n] : n \in DOMAIN seqs})
<1>1. PICK l \in Nat : l = Len(seqs) /\ DOMAIN seqs = 1 .. l
  BY LenProperties
<1>2. \A n \in 1 .. l : seqs[n] \in Seq(S)
  <2> DEFINE Q == Seq(S)
  <2>1. seqs \in Seq(Q)
    OBVIOUS
  <2> HIDE DEF Q
  <2>2. \A n \in 1 .. l : seqs[n] \in Q
    BY <1>1, <2>1
  <2>. QED  BY <2>2 DEF Q
<1>3. CASE l = 0
  <2>1. FlattenSeq(seqs) = seqs
    BY <1>1, <1>3, Zenon DEF FlattenSeq
  <2>2. seqs = <<>>
    BY <1>1, <1>3, EmptySequence
  <2>3. {R[n] : n \in DOMAIN seqs} = {}
    BY <1>1, <1>3
  <2>. QED  BY <2>1, <2>2, <2>3, CoverEmpty
<1>4. CASE l # 0
  <2>1. PICK f : /\ FlattenSeq(seqs) = f[l] /\ f[1] = seqs[1]
                 /\ \A n \in Nat : n \in 1 .. l - 1 => f[n + 1] = f[n] \o seqs[n + 1]
    <3>1. Len(seqs) \in Nat /\ Len(seqs) # 0
      BY <1>1, <1>4
    <3>2. \E f : /\ FlattenSeq(seqs) = f[Len(seqs)] /\ f[1] = seqs[1]
                 /\ \A n \in Nat : n \in 1 .. Len(seqs) - 1 =>
                      f[n + 1] = f[n] \o seqs[n + 1]
      BY <3>1, FlattenSeqIs
    <3>. QED  BY <1>1, <3>2, Zenon
  <2> DEFINE U(n) == UNION {R[m] : m \in 1 .. n}
             Good(n) == f[n] \in Seq(S) /\ Cover(f[n], U(n))
             T == {n \in Nat : n \in 1 .. l => Good(n)}
  <2>2. 0 \in T
    OBVIOUS
  <2>3. ASSUME NEW n \in Nat, n \in T
        PROVE  n + 1 \in T
    <3> SUFFICES ASSUME n + 1 \in 1 .. l PROVE Good(n + 1)
      <4> HIDE DEF Good
      <4>. QED  OBVIOUS
    <3>1. seqs[n + 1] \in Seq(S) /\ Cover(seqs[n + 1], R[n + 1])
      BY <1>1, <1>2
    <3>2. CASE n = 0
      <4>1. f[n + 1] = seqs[n + 1]
        BY <2>1, <3>2
      <4>2. U(n + 1) = R[n + 1]
        BY <3>2
      <4>. QED  BY <3>1, <4>1, <4>2
    <3>3. CASE n # 0
      <4>1. n \in 1 .. l /\ n \in 1 .. l - 1
        BY <3>3
      <4>2. f[n + 1] = f[n] \o seqs[n + 1]
        BY <2>1, <4>1
      <4>3. f[n] \in Seq(S) /\ Cover(f[n], U(n))
        BY <2>3, <4>1
      <4>4. U(n) \cap R[n + 1] = {}
        <5>1. \A m \in 1 .. n : m \in DOMAIN seqs /\ n + 1 \in DOMAIN seqs /\ m # n + 1
          BY <1>1
        <5>2. \A m \in 1 .. n : R[m] \cap R[n + 1] = {}
          BY <5>1
        <5>. QED  BY <5>2
      <4>5. U(n) \union R[n + 1] = U(n + 1)
        <5>1. 1 .. n + 1 = (1 .. n) \union {n + 1}
          OBVIOUS
        <5>. QED  BY <5>1
      <4> HIDE DEF U
      <4>6. Cover(f[n] \o seqs[n + 1], U(n) \union R[n + 1])
        BY <3>1, <4>3, <4>4, CoverConcat
      <4>7. f[n] \o seqs[n + 1] \in Seq(S)
        BY <3>1, <4>3, ConcatProperties
      <4>. QED  BY <4>2, <4>5, <4>6, <4>7
    <3>. QED  BY <3>2, <3>3
  <2>4. Nat \subseteq T
    <3> HIDE DEF T
    <3>. QED  BY <2>2, <2>3, Upwards
  <2>5. Good(l)
    <3>1. l \in 1 .. l
      BY <1>4
    <3> HIDE DEF Good
    <3>. QED  BY <2>4, <3>1
  <2>. QED  BY <1>1, <2>1, <2>5
<1>. QED  BY <1>3, <1>4
-----------------------------------------------------------------------------
(* Ascending lists all of a set, each member once.                         *)
LEMMA AscendingExact ==
  ASSUME NEW S, S \subseteq Nat, IsFiniteSet(S)
  PROVE  /\ \A m, n \in DOMAIN Ascending(S) : Ascending(S)[m] = Ascending(S)[n] => m = n
         /\ \A x \in S : \E n \in DOMAIN Ascending(S) : Ascending(S)[n] = x
<1>1. PICK n \in Nat : n = Cardinality(S)
  BY FS_CardinalityType
<1>2. Ascending(S) = [m \in 1 .. n |-> CHOOSE x \in S : RankIn(S, x) = m - 1]
  BY <1>1 DEF Ascending, RankIn
<1>3. PICK s \in Seq(S) : s = Ascending(S) /\ DOMAIN s = 1 .. n
  BY <1>2, AscendingType
<1>4. \A x, y \in S : RankIn(S, x) = RankIn(S, y) => x = y
  <2> SUFFICES ASSUME NEW x \in S, NEW y \in S, x # y
               PROVE  RankIn(S, x) # RankIn(S, y)
    OBVIOUS
  <2>1. x < y \/ y < x
    OBVIOUS
  <2>2. RankIn(S, x) < RankIn(S, y) \/ RankIn(S, y) < RankIn(S, x)
    BY <2>1, RankBounds
  <2>3. RankIn(S, x) \in Int /\ RankIn(S, y) \in Int
    <3>1. RankIn(S, x) \in 0 .. n - 1 /\ RankIn(S, y) \in 0 .. n - 1
      BY <1>1, RankBounds
    <3>. QED  BY <3>1
  <2>. QED  BY <2>2, <2>3
<1>5. ASSUME NEW x \in S
      PROVE  /\ RankIn(S, x) + 1 \in 1 .. n
             /\ s[RankIn(S, x) + 1] = x
  <2>1. PICK k \in 0 .. n - 1 : k = RankIn(S, x)
    BY <1>1, RankBounds
  <2>2. k + 1 \in 1 .. n /\ (k + 1) - 1 = k
    OBVIOUS
  <2>3. s[k + 1] = CHOOSE y \in S : RankIn(S, y) = k
    BY <1>2, <1>3, <2>2
  <2>4. (CHOOSE y \in S : RankIn(S, y) = k) = x
    BY <1>4, <2>1
  <2>. QED  BY <2>1, <2>2, <2>3, <2>4
<1>6. \A m \in 1 .. n : RankIn(S, s[m]) = m - 1
  <2> SUFFICES ASSUME NEW m \in 1 .. n PROVE RankIn(S, s[m]) = m - 1
    OBVIOUS
  <2>1. \E x \in S : RankIn(S, x) = m - 1
    BY <1>1, AscendingRanks
  <2>. QED  BY <1>2, <1>3, <2>1
<1>7. \A m, k \in 1 .. n : s[m] = s[k] => m = k
  <2> SUFFICES ASSUME NEW m \in 1 .. n, NEW k \in 1 .. n, s[m] = s[k] PROVE m = k
    OBVIOUS
  <2>1. RankIn(S, s[m]) = m - 1 /\ RankIn(S, s[k]) = k - 1
    BY <1>6
  <2>. QED  BY <2>1
<1>. QED  BY <1>3, <1>5, <1>7

-----------------------------------------------------------------------------
(* sa_find finds exactly the places of its range where the string stands.  *)
LEMMA StandingIs ==
  ASSUME NEW a, NEW c, NEW str, NEW i
  PROVE  i \in Standing(a, c, str) <=>
           /\ i \in Part(c)
           /\ AryIdx2TxtIdx(a, i) + c.txt_skip + Len(str) <= Len(a.text)
           /\ \A k \in 1 .. Len(str) :
                a.text[AryIdx2TxtIdx(a, i) + c.txt_skip + k] = str[k]
<1> DEFINE call == [left |-> c.left, right |-> c.right, key |-> str,
                    base_txt_skip |-> c.txt_skip]
<1>1. call.left = c.left /\ call.right = c.right /\ call.key = str
      /\ call.base_txt_skip = c.txt_skip
  OBVIOUS
<1> HIDE DEF call
<1>2. i \in FS!Hits(a, call) <=> i \in Part(c) /\ FS!Occurs(a, call, i)
  BY <1>1 DEF FS!Hits, Part
<1>3. Standing(a, c, str) = FS!Hits(a, call)
  BY DEF Standing, call
<1>. QED  BY <1>1, <1>2, <1>3, OccursIs

SoundAt(a, key, k) == {d \in SoundWith(a, key) : d.txt_skip = k}

LEMMA PlacesInIndex ==
  ASSUME NEW a, IndexOK(a), NEW c \in SoundCalls(a)
  PROVE  /\ c.left \in Nat /\ c.right \in Nat /\ c.txt_skip \in Nat
         /\ \A i \in Part(c) : /\ i \in 0 .. Len(a.array) - 1
                               /\ AryIdx2TxtIdx(a, i) \in Nat
                               /\ AryIdx2TxtIdx(a, i) + c.txt_skip <= Len(a.text)
<1>1. PICK l \in Nat, r \in Nat, s \in Nat :
        l = c.left /\ r = c.right /\ s = c.txt_skip /\ FS!CallOK(a, l, r, s)
  BY DEF SoundCalls, CallType
<1>2. PICK m \in Nat : m = Len(a.array)
  BY DEF IndexOK
<1>3. 0 <= l /\ r < m /\ \A i \in l .. r : AryIdx2TxtIdx(a, i) + s <= Len(a.text)
  BY <1>1, <1>2, CallOKIs
<1>4. \A i \in 0 .. m - 1 : AryIdx2TxtIdx(a, i) \in Nat
  BY <1>2 DEF IndexOK, AryIdx2TxtIdx
<1>5. \A i \in l .. r : i \in 0 .. m - 1
  BY <1>3
<1>. QED  BY <1>1, <1>2, <1>3, <1>4, <1>5 DEF Part

LEMMA FindExact ==
  ASSUME NEW a, a = ary, IndexOK(a), NEW c \in SoundCalls(a), NEW str, Len(str) \in Nat
  PROVE  /\ Find(c, str) \in Seq(SoundAt(a, c.key, c.txt_skip + Len(str)))
         /\ Cover(Find(c, str), Standing(a, c, str))
<1>1. CASE Standing(a, c, str) = {}
  <2>1. Find(c, str) = <<>>
    BY <1>1, FindIs
  <2>2. <<>> \in Seq(SoundAt(a, c.key, c.txt_skip + Len(str)))
    OBVIOUS
  <2>. QED  BY <1>1, <2>1, <2>2, CoverEmpty
<1>2. CASE Standing(a, c, str) # {}
  <2>1. FoundBetween(c, str, Standing(a, c, str))
    BY <1>2, FindIs
  <2>2. PICK x \in Standing(a, c, str), y \in Standing(a, c, str) :
          /\ \A j \in Standing(a, c, str) : x <= j /\ j <= y
          /\ Find(c, str) = <<[c EXCEPT !.left = x, !.right = y,
                                       !.txt_skip = @ + Len(str)]>>
    BY <2>1 DEF FoundBetween
  <2>3. PICK n \in Nat, N \in Nat, s \in Nat :
          n = Len(str) /\ N = Len(a.text) /\ s = c.txt_skip
    <3>1. Len(a.text) \in Nat
      BY DEF IndexOK
    <3>. QED  BY <3>1, PlacesInIndex
  <2>4. PICK d : d = [c EXCEPT !.left = x, !.right = y, !.txt_skip = @ + Len(str)]
    OBVIOUS
  <2>5. d.left = x /\ d.right = y /\ d.txt_skip = s + n
    BY <2>3, <2>4 DEF SoundCalls, CallType
  <2>6. d \in SoundWith(a, c.key)
    <3>1. <<d>> \in Seq(SoundWith(a, c.key))
      BY <2>2, <2>4, FindSound
    <3>2. <<d>>[1] = d /\ Len(<<d>>) = 1
      OBVIOUS
    <3>3. 1 \in 1 .. Len(<<d>>)
      BY <3>2
    <3>4. <<d>>[1] \in SoundWith(a, c.key)
      BY <3>1, <3>3, ElementOfSeq
    <3>. QED  BY <3>2, <3>4
  <2>7. <<d>> \in Seq(SoundAt(a, c.key, s + n))
    <3>1. d \in SoundAt(a, c.key, s + n)
      BY <2>5, <2>6 DEF SoundAt
    <3>. QED  BY <3>1
  <2>8. /\ x \in Nat /\ y \in Nat /\ x \in Part(c) /\ y \in Part(c)
        /\ \A i \in x .. y : i \in Part(c)
    <3>1. x \in Part(c) /\ y \in Part(c)
      BY StandingIs
    <3>2. c.left \in Nat /\ c.right \in Nat
      BY PlacesInIndex
    <3>. QED  BY <3>1, <3>2 DEF Part
  <2>9. /\ \A i \in x .. y : AryIdx2TxtIdx(a, i) \in Nat
        /\ \A i \in x .. y : AryIdx2TxtIdx(a, i) + (s + n) <= N
        /\ \A i, j \in x .. y : \A k \in 0 .. (s + n) - 1 :
             Char(a, AryIdx2TxtIdx(a, i) + k) = Char(a, AryIdx2TxtIdx(a, j) + k)
    <3>1. FS!CallOK(a, x, y, s + n)
      BY <2>5, <2>6 DEF SoundWith, SoundCalls
    <3>2. \A i \in x .. y : AryIdx2TxtIdx(a, i) \in Nat
      BY <2>8, PlacesInIndex
    <3>. QED  BY <2>3, <3>1, <3>2, CallOKIs
  <2>10. ASSUME NEW i \in x .. y
         PROVE  i \in Standing(a, c, str)
    <3>1. PICK p \in Nat, q \in Nat :
            p = AryIdx2TxtIdx(a, i) /\ q = AryIdx2TxtIdx(a, x)
      <4>1. x <= y /\ x \in x .. y
        BY <2>2, <2>8
      <4>. QED  BY <2>9, <4>1
    <3>2. p + (s + n) <= N /\ q + (s + n) <= N
          /\ \A k \in 0 .. (s + n) - 1 : Char(a, p + k) = Char(a, q + k)
      <4>1. x \in x .. y
        BY <2>2, <2>8
      <4>. QED  BY <2>9, <3>1, <4>1
    <3>3. ASSUME NEW k \in 1 .. n
          PROVE  a.text[p + s + k] = str[k]
      <4>1. s + (k - 1) \in 0 .. (s + n) - 1
        OBVIOUS
      <4>2. Char(a, p + (s + (k - 1))) = Char(a, q + (s + (k - 1)))
        BY <3>2, <4>1
      <4>3. /\ p + (s + (k - 1)) < N /\ (p + (s + (k - 1))) + 1 = p + s + k
            /\ q + (s + (k - 1)) < N /\ (q + (s + (k - 1))) + 1 = q + s + k
        BY <3>2
      <4>4. /\ Char(a, p + (s + (k - 1))) = a.text[p + s + k]
            /\ Char(a, q + (s + (k - 1))) = a.text[q + s + k]
        BY <2>3, <4>3 DEF Char
      <4>5. a.text[q + s + k] = str[k]
        <5>1. \A m \in 1 .. Len(str) :
                a.text[AryIdx2TxtIdx(a, x) + c.txt_skip + m] = str[m]
          BY StandingIs
        <5>2. \A m \in 1 .. n : a.text[q + s + m] = str[m]
          BY <2>3, <3>1, <5>1
        <5>. QED  BY <5>2
      <4>. QED  BY <4>2, <4>4, <4>5
    <3>4. p + s + n <= N
      BY <3>2
    <3>. QED  BY <2>3, <2>8, <3>1, <3>3, <3>4, StandingIs
  <2>11. Standing(a, c, str) = x .. y
    <3>1. Standing(a, c, str) \subseteq x .. y
      <4> SUFFICES ASSUME NEW j \in Standing(a, c, str) PROVE j \in x .. y
        OBVIOUS
      <4>1. x <= j /\ j <= y
        BY <2>2
      <4>2. j \in Nat
        <5>1. j \in Part(c)
          BY StandingIs
        <5>. QED  BY <5>1, PlacesInIndex DEF Part
      <4>. QED  BY <2>8, <4>1, <4>2
    <3>. QED  BY <2>10, <3>1
  <2>12. Cover(<<d>>, x .. y)
    <3>1. DOMAIN <<d>> = {1} /\ <<d>>[1] = d
      OBVIOUS
    <3>2. Part(d) = x .. y
      BY <2>5 DEF Part
    <3>. QED  BY <3>1, <3>2 DEF Cover, Apart, Held
  <2>. QED  BY <2>2, <2>3, <2>4, <2>7, <2>11, <2>12
<1>. QED  BY <1>1, <1>2

(* The places of its range where the text goes on with one of some bytes.  *)
GoesOnWith(a, c, bytes) ==
  {i \in Part(c) :
     /\ AryIdx2TxtIdx(a, i) + c.txt_skip + 1 <= Len(a.text)
     /\ a.text[AryIdx2TxtIdx(a, i) + c.txt_skip + 1] \in bytes}

(* A set of single bytes is searched byte by byte.                         *)
LEMMA BitVectorExact ==
  ASSUME NEW a, a = ary, IndexOK(a), NEW c \in SoundCalls(a), NEW class,
         class.bv \subseteq 0 .. 127
  PROVE  /\ BitVectorSearch(c, class) \in Seq(SoundAt(a, c.key, c.txt_skip + 1))
         /\ Cover(BitVectorSearch(c, class), GoesOnWith(a, c, class.bv))
<1> DEFINE X == SoundAt(a, c.key, c.txt_skip + 1)
           B == Candidates(c, class.bv)
           firsts == Ascending(B)
           seqs == [n \in DOMAIN firsts |-> Find(c, <<firsts[n]>>)]
           P(i) == AryIdx2TxtIdx(a, i)
           here == {i \in Part(c) : /\ P(i) + c.txt_skip + 1 <= Len(a.text)
                                    /\ a.text[P(i) + c.txt_skip + 1] \in class.bv}
<1>1. B \subseteq Nat /\ IsFiniteSet(B)
  BY CandidatesType
<1>2. B \subseteq class.bv
  BY DEF Candidates
<1> HIDE DEF B
<1>3. /\ firsts \in Seq(B)
      /\ \A m, n \in DOMAIN firsts : firsts[m] = firsts[n] => m = n
      /\ \A x \in B : \E n \in DOMAIN firsts : firsts[n] = x
  BY <1>1, AscendingType, AscendingExact
<1> HIDE DEF firsts
<1>4. PICK l \in Nat : DOMAIN firsts = 1 .. l /\ \A n \in 1 .. l : firsts[n] \in B
  BY <1>3
<1>5. BitVectorSearch(c, class) = FlattenSeq(seqs)
  <2>1. \A n \in DOMAIN firsts : ~ MSB_ON(firsts[n])
    <3>1. \A n \in 1 .. l : firsts[n] \in 0 .. 127
      BY <1>2, <1>4
    <3>2. \A x \in 0 .. 127 : ~ MSB_ON(x)
      BY DEF MSB_ON
    <3>3. \A n \in 1 .. l : ~ MSB_ON(firsts[n])
      BY <3>1, <3>2, Zenon
    <3>. QED  BY <1>4, <3>3, Zenon
  <2> DEFINE all == [n \in DOMAIN firsts |->
                       IF MSB_ON(firsts[n])
                       THEN WcharSearch(Find(c, <<firsts[n]>>), class, firsts[n])
                       ELSE Find(c, <<firsts[n]>>)]
  <2>2. BitVectorSearch(c, class) = FlattenSeq(all)
    BY DEF BitVectorSearch, firsts, B
  <2>3. all = seqs
    BY <2>1
  <2> HIDE DEF all, seqs
  <2>. QED  BY <2>2, <2>3
<1>6. ASSUME NEW n \in 1 .. l
      PROVE  /\ seqs[n] \in Seq(X)
             /\ Cover(seqs[n], Standing(a, c, <<firsts[n]>>))
  <2>1. PICK b : b = firsts[n]
    OBVIOUS
  <2>2. Len(<<b>>) = 1
    OBVIOUS
  <2>3. Len(<<b>>) \in Nat
    BY <2>2
  <2>4. /\ Find(c, <<b>>) \in Seq(SoundAt(a, c.key, c.txt_skip + Len(<<b>>)))
        /\ Cover(Find(c, <<b>>), Standing(a, c, <<b>>))
    BY <2>3, FindExact
  <2>5. seqs[n] = Find(c, <<b>>)
    BY <1>4, <2>1
  <2>. QED  BY <2>1, <2>2, <2>4, <2>5
<1>7. ASSUME NEW n \in 1 .. l, NEW i
      PROVE  i \in Standing(a, c, <<firsts[n]>>) <=>
               /\ i \in Part(c)
               /\ P(i) + c.txt_skip + 1 <= Len(a.text)
               /\ a.text[P(i) + c.txt_skip + 1] = firsts[n]
  <2>1. PICK b : b = firsts[n]
    OBVIOUS
  <2>2. Len(<<b>>) = 1 /\ <<b>>[1] = b /\ \A k \in 1 .. 1 : k = 1
    OBVIOUS
  <2>3. i \in Standing(a, c, <<b>>) <=>
           /\ i \in Part(c)
           /\ P(i) + c.txt_skip + 1 <= Len(a.text)
           /\ a.text[P(i) + c.txt_skip + 1] = b
    <3>1. PICK s : s = <<b>> /\ Len(s) = 1 /\ s[1] = b
      BY <2>2
    <3>2. i \in Standing(a, c, s) <=>
             /\ i \in Part(c)
             /\ P(i) + c.txt_skip + Len(s) <= Len(a.text)
             /\ \A k \in 1 .. Len(s) : a.text[P(i) + c.txt_skip + k] = s[k]
      BY StandingIs
    <3>3. (\A k \in 1 .. 1 : a.text[P(i) + c.txt_skip + k] = s[k])
          <=> a.text[P(i) + c.txt_skip + 1] = s[1]
      <4>1. \A k : k \in 1 .. 1 <=> k = 1
        OBVIOUS
      <4>. QED  BY <4>1, Zenon
    <3>. QED  BY <3>1, <3>2, <3>3, Zenon
  <2>. QED  BY <2>1, <2>3, Zenon
<1> DEFINE R == [n \in 1 .. l |-> Standing(a, c, <<firsts[n]>>)]
<1>8. seqs \in Seq(Seq(X)) /\ DOMAIN seqs = 1 .. l
  <2>1. DOMAIN seqs = 1 .. l /\ seqs = [n \in 1 .. l |-> seqs[n]]
    BY <1>4
  <2> HIDE DEF seqs, X
  <2>2. seqs \in [1 .. l -> Seq(X)]
    BY <1>6, <2>1
  <2>. QED  BY <2>1, <2>2
<1>9. \A m, n \in 1 .. l : m # n => R[m] \cap R[n] = {}
  <2> SUFFICES ASSUME NEW m \in 1 .. l, NEW n \in 1 .. l, m # n,
                      NEW i \in Standing(a, c, <<firsts[m]>>),
                      i \in Standing(a, c, <<firsts[n]>>)
               PROVE  FALSE
    OBVIOUS
  <2>1. firsts[m] = firsts[n]
    BY <1>7
  <2>. QED  BY <1>3, <1>4, <2>1
<1>10. UNION {R[n] : n \in 1 .. l} = here
  <2>1. ASSUME NEW n \in 1 .. l, NEW i \in Standing(a, c, <<firsts[n]>>)
        PROVE  i \in here
    <3>1. firsts[n] \in class.bv
      BY <1>2, <1>4
    <3>. QED  BY <1>7, <3>1
  <2>2. ASSUME NEW i \in here
        PROVE  \E n \in 1 .. l : i \in Standing(a, c, <<firsts[n]>>)
    <3>1. PICK p \in Nat, s \in Nat, N \in Nat :
            p = P(i) /\ s = c.txt_skip /\ N = Len(a.text) /\ p + s + 1 <= N
      <4>1. Len(a.text) \in Nat
        BY DEF IndexOK
      <4>2. P(i) \in Nat /\ c.txt_skip \in Nat
        BY PlacesInIndex
      <4>. QED  BY <4>1, <4>2
    <3>2. SistringChar(ary, i, c.txt_skip) = a.text[p + s + 1]
      BY <3>1 DEF SistringChar, Char
    <3>3. a.text[p + s + 1] \in class.bv /\ i \in Part(c)
      BY <3>1
    <3>4. a.text[p + s + 1] \in B
      BY <3>2, <3>3 DEF B, Candidates, Part
    <3>5. PICK n \in 1 .. l : firsts[n] = a.text[p + s + 1]
      BY <1>3, <1>4, <3>4
    <3>. QED  BY <1>7, <3>1, <3>3, <3>5
  <2> HIDE DEF here
  <2>3. \A n \in 1 .. l : R[n] = Standing(a, c, <<firsts[n]>>)
    OBVIOUS
  <2> HIDE DEF R
  <2>. QED  BY <2>1, <2>2, <2>3
<1> HIDE DEF seqs, X, here
<1>11. FlattenSeq(seqs) \in Seq(X)
  BY <1>8, FlattenSeqType
<1>12. Cover(FlattenSeq(seqs), UNION {R[n] : n \in 1 .. l})
  <2>1. \A n \in 1 .. l : Cover(seqs[n], R[n])
    BY <1>6
  <2> HIDE DEF R
  <2>2. /\ \A n \in DOMAIN seqs : Cover(seqs[n], R[n])
        /\ \A m, n \in DOMAIN seqs : m # n => R[m] \cap R[n] = {}
    BY <1>8, <1>9, <2>1, Zenon
  <2>3. seqs \in Seq(Seq(X))
    BY <1>8
  <2>4. Cover(FlattenSeq(seqs), UNION {R[n] : n \in DOMAIN seqs})
    BY <2>2, <2>3, CoverFlatten, SMTT(30)
  <2>. QED  BY <1>8, <2>4, Zenon
<1>13. here = GoesOnWith(a, c, class.bv)
  BY DEF GoesOnWith, here
<1>. QED  BY <1>5, <1>10, <1>11, <1>12, <1>13, Zenon DEF X

-----------------------------------------------------------------------------
(* No two places of a sorted index hold the same point.                    *)
LEMMA PlacesDiffer ==
  ASSUME NEW a, IndexOK(a), NEW i \in 0 .. Len(a.array) - 1, NEW j \in 0 .. Len(a.array) - 1,
         AryIdx2TxtIdx(a, i) = AryIdx2TxtIdx(a, j)
  PROVE  i = j
<1>1. PICK m \in Nat, N \in Nat : m = Len(a.array) /\ N = Len(a.text)
  BY DEF IndexOK
<1>2. PICK p \in Nat : p = AryIdx2TxtIdx(a, i)
  BY <1>1 DEF IndexOK, AryIdx2TxtIdx
<1>3. ~ SuffixLess(a, p, p)
  <2> SUFFICES ASSUME SuffixLess(a, p, p) PROVE FALSE
    OBVIOUS
  <2>1. PICK x \in 0 .. N : /\ p + x < N
                            /\ p + x = N \/ Char(a, p + x) < Char(a, p + x)
    BY <1>1 DEF SuffixLess
  <2>2. p + x \in Nat
    OBVIOUS
  <2>3. Char(a, p + x) \in Nat
    BY <2>2, CharType DEF IndexOK
  <2>. QED  BY <2>1, <2>3
<1>4. /\ i < j => SuffixLess(a, p, p)
      /\ j < i => SuffixLess(a, p, p)
  BY <1>2 DEF IndexOK, Sorted
<1>. QED  BY <1>1, <1>3, <1>4

-----------------------------------------------------------------------------
(* The suffix at place i begins with the first k bytes of the keyword, but *)
(* for the case of ASCII letters.                                          *)
Same(a, key, i, k) ==
  /\ i \in 0 .. Len(a.array) - 1
  /\ AryIdx2TxtIdx(a, i) + k <= Len(a.text)
  /\ \A j \in 1 .. k : ToLower(a.text[AryIdx2TxtIdx(a, i) + j]) = ToLower(key[j])

LEMMA ToLowerIs ==
  ASSUME NEW b \in Byte, NEW t \in Byte
  PROVE  /\ ~ Letter(b) => (ToLower(t) = ToLower(b) <=> t = b)
         /\ Letter(b) => (ToLower(t) = ToLower(b) <=> t \in {ToLower(b), ToUpper(b)})
<1>1. b \in 0 .. 255 /\ t \in 0 .. 255
  BY DEF Byte
<1>. QED  BY <1>1 DEF Letter, ToLower, ToUpper, IsLower, IsUpper

LEMMA SameNext ==
  ASSUME NEW a, NEW key, NEW i, NEW k \in Nat, Same(a, key, i, k), IndexOK(a)
  PROVE  Same(a, key, i, k + 1) <=>
           /\ AryIdx2TxtIdx(a, i) + k + 1 <= Len(a.text)
           /\ ToLower(a.text[AryIdx2TxtIdx(a, i) + k + 1]) = ToLower(key[k + 1])
<1>1. PICK p \in Nat, N \in Nat : p = AryIdx2TxtIdx(a, i) /\ N = Len(a.text)
  BY DEF IndexOK, Same, AryIdx2TxtIdx
<1> DEFINE Good(j) == ToLower(a.text[p + j]) = ToLower(key[j])
<1>2. Good(k + 1) <=> ToLower(a.text[p + k + 1]) = ToLower(key[k + 1])
  <2>1. p + (k + 1) = p + k + 1
    OBVIOUS
  <2>. QED  BY <2>1
<1>3. i \in 0 .. Len(a.array) - 1 /\ \A j \in 1 .. k : Good(j)
  BY <1>1 DEF Same
<1>4. Same(a, key, i, k + 1) <=>
        p + (k + 1) <= N /\ \A j \in 1 .. k + 1 : Good(j)
  BY <1>1, <1>3 DEF Same
<1> HIDE DEF Good
<1>5. (\A j \in 1 .. k + 1 : Good(j)) <=> Good(k + 1)
  <2>1. ASSUME Good(k + 1), NEW j \in 1 .. k + 1 PROVE Good(j)
    <3>1. CASE j = k + 1
      BY <2>1, <3>1
    <3>2. CASE j \in 1 .. k
      BY <1>3, <3>2
    <3>. QED  BY <3>1, <3>2
  <2>2. k + 1 \in 1 .. k + 1
    OBVIOUS
  <2>. QED  BY <2>1, <2>2
<1>. QED  BY <1>1, <1>2, <1>4, <1>5

(* A text that matches more of the keyword matches less of it.             *)
LEMMA SameBefore ==
  ASSUME NEW a, NEW key, NEW i, NEW k \in Nat, NEW m \in Nat, k <= m,
         Same(a, key, i, m), IndexOK(a)
  PROVE  Same(a, key, i, k)
<1>1. PICK p \in Nat, N \in Nat : p = AryIdx2TxtIdx(a, i) /\ N = Len(a.text)
  BY DEF IndexOK, Same, AryIdx2TxtIdx
<1>2. p + k <= N
  BY <1>1 DEF Same
<1>3. \A j \in 1 .. k : j \in 1 .. m
  OBVIOUS
<1>. QED  BY <1>1, <1>2, <1>3 DEF Same

LEMMA TextByte ==
  ASSUME NEW a, IndexOK(a), NEW p \in Nat, NEW k \in Nat, p + k + 1 <= Len(a.text)
  PROVE  a.text[p + k + 1] \in Byte
<1>1. PICK t \in Seq(Byte) : t = a.text
  BY DEF IndexOK
<1>2. p + k + 1 \in 1 .. Len(t)
  BY <1>1
<1>3. t[p + k + 1] \in Byte
  BY <1>2, ElementOfSeq
<1>. QED  BY <1>1, <1>3

(* Where the text goes on with the next byte of the keyword, in either     *)
(* case if it is a letter.                                                 *)
LEMMA SameByte ==
  ASSUME NEW a, IndexOK(a), NEW key \in Seq(Byte), NEW i, NEW k \in Nat, k < Len(key),
         Same(a, key, i, k)
  PROVE  /\ ~ Letter(key[k + 1]) =>
              (Same(a, key, i, k + 1) <=>
                 /\ AryIdx2TxtIdx(a, i) + k + 1 <= Len(a.text)
                 /\ a.text[AryIdx2TxtIdx(a, i) + k + 1] = key[k + 1])
         /\ Letter(key[k + 1]) =>
              (Same(a, key, i, k + 1) <=>
                 /\ AryIdx2TxtIdx(a, i) + k + 1 <= Len(a.text)
                 /\ a.text[AryIdx2TxtIdx(a, i) + k + 1]
                      \in {ToLower(key[k + 1]), ToUpper(key[k + 1])})
<1>1. PICK p \in Nat : p = AryIdx2TxtIdx(a, i)
  BY DEF IndexOK, Same, AryIdx2TxtIdx
<1>2. PICK b \in Byte : b = key[k + 1]
  <2>1. k + 1 \in 1 .. Len(key)
    OBVIOUS
  <2>. QED  BY <2>1, ElementOfSeq
<1>3. PICK t : t = a.text[p + k + 1]
  OBVIOUS
<1>4. Same(a, key, i, k + 1) <=>
        p + k + 1 <= Len(a.text) /\ ToLower(t) = ToLower(b)
  BY <1>1, <1>2, <1>3, SameNext
<1>5. p + k + 1 <= Len(a.text) => t \in Byte
  BY <1>3, TextByte
<1>6. p + k + 1 <= Len(a.text) =>
        /\ ~ Letter(b) => (ToLower(t) = ToLower(b) <=> t = b)
        /\ Letter(b) => (ToLower(t) = ToLower(b) <=> t \in {ToLower(b), ToUpper(b)})
  BY <1>5, ToLowerIs
<1> DEFINE fits == p + k + 1 <= Len(a.text)
<1> HIDE DEF fits
<1>7. /\ ~ Letter(b) => (Same(a, key, i, k + 1) <=> fits /\ t = b)
      /\ Letter(b) => (Same(a, key, i, k + 1) <=> fits /\ t \in {ToLower(b), ToUpper(b)})
  BY <1>4, <1>6, Zenon DEF fits
<1>. QED  BY <1>1, <1>2, <1>3, <1>7, Zenon DEF fits

-----------------------------------------------------------------------------
(* A call that has come to byte k of the keyword.                          *)
Matched(a, key, c, k) ==
  /\ c.txt_skip = k
  /\ \A i \in Part(c) : Same(a, key, i, k)

(* Of its range, the places that match m bytes.                            *)
Goes(a, key, c, m) == {i \in Part(c) : Same(a, key, i, m)}

LEMMA OneByteExact ==
  ASSUME NEW a, IndexOK(a), NEW key \in Seq(Byte), NEW k \in Nat, k < Len(key),
         NEW c, Matched(a, key, c, k), NEW b, b = key[k + 1], ~ Letter(b)
  PROVE  Standing(a, c, <<b>>) = Goes(a, key, c, k + 1)
<1>1. PICK str : str = <<b>> /\ Len(str) = 1 /\ str[1] = b
  <2>1. Len(<<b>>) = 1
    OBVIOUS
  <2>2. <<b>>[1] = b
    OBVIOUS
  <2>. QED  BY <2>1, <2>2, Zenon
<1>2. ASSUME NEW i
      PROVE  i \in Standing(a, c, str) <=> i \in Goes(a, key, c, k + 1)
  <2> DEFINE p == AryIdx2TxtIdx(a, i)
  <2>1. i \in Standing(a, c, str) <=>
          /\ i \in Part(c)
          /\ p + c.txt_skip + Len(str) <= Len(a.text)
          /\ \A j \in 1 .. Len(str) : a.text[p + c.txt_skip + j] = str[j]
    BY StandingIs
  <2>2. c.txt_skip = k
    BY DEF Matched
  <2>3. (\A j \in 1 .. 1 : a.text[p + k + j] = str[j]) <=> a.text[p + k + 1] = str[1]
    <3>1. \A j : j \in 1 .. 1 <=> j = 1
      OBVIOUS
    <3>. QED  BY <3>1, Zenon
  <2>4. i \in Part(c) =>
          (Same(a, key, i, k + 1) <=> /\ p + k + 1 <= Len(a.text)
                                      /\ a.text[p + k + 1] = b)
    <3> SUFFICES ASSUME i \in Part(c)
                 PROVE  Same(a, key, i, k + 1) <=> /\ p + k + 1 <= Len(a.text)
                                                   /\ a.text[p + k + 1] = b
      OBVIOUS
    <3>1. Same(a, key, i, k)
      BY DEF Matched
    <3>. QED  BY <3>1, SameByte
  <2>. QED  BY <1>1, <2>1, <2>2, <2>3, <2>4, Zenon DEF Goes
<1>. QED  BY <1>1, <1>2

LEMMA TwoBytesExact ==
  ASSUME NEW a, IndexOK(a), NEW key \in Seq(Byte), NEW k \in Nat, k + 1 < Len(key),
         NEW c, Matched(a, key, c, k), NEW b, b = key[k + 1], ~ Letter(b),
         NEW d, d = key[k + 2], ~ Letter(d)
  PROVE  Standing(a, c, <<b, d>>) = Goes(a, key, c, k + 2)
<1>1. PICK str : str = <<b, d>> /\ Len(str) = 2 /\ str[1] = b /\ str[2] = d
  <2>1. Len(<<b, d>>) = 2
    OBVIOUS
  <2>2. <<b, d>>[1] = b /\ <<b, d>>[2] = d
    OBVIOUS
  <2>. QED  BY <2>1, <2>2, Zenon
<1>2. ASSUME NEW i
      PROVE  i \in Standing(a, c, str) <=> i \in Goes(a, key, c, k + 2)
  <2> DEFINE p == AryIdx2TxtIdx(a, i)
  <2>1. i \in Standing(a, c, str) <=>
          /\ i \in Part(c)
          /\ p + c.txt_skip + Len(str) <= Len(a.text)
          /\ \A j \in 1 .. Len(str) : a.text[p + c.txt_skip + j] = str[j]
    BY StandingIs
  <2>2. c.txt_skip = k
    BY DEF Matched
  <2>3. (\A j \in 1 .. 2 : a.text[p + k + j] = str[j])
        <=> a.text[p + k + 1] = str[1] /\ a.text[p + k + 2] = str[2]
    <3>1. \A j : j \in 1 .. 2 <=> j = 1 \/ j = 2
      OBVIOUS
    <3>. QED  BY <3>1, Zenon
  <2>4. i \in Part(c) =>
          (Same(a, key, i, k + 2) <=> /\ p + k + 2 <= Len(a.text)
                                      /\ a.text[p + k + 1] = b
                                      /\ a.text[p + k + 2] = d)
    <3> SUFFICES ASSUME i \in Part(c)
                 PROVE  Same(a, key, i, k + 2) <=> /\ p + k + 2 <= Len(a.text)
                                                   /\ a.text[p + k + 1] = b
                                                   /\ a.text[p + k + 2] = d
      OBVIOUS
    <3>1. Same(a, key, i, k)
      BY DEF Matched
    <3>2. PICK q \in Nat, N \in Nat : q = p /\ N = Len(a.text)
      BY <3>1 DEF Same, IndexOK, AryIdx2TxtIdx
    <3>3. /\ k < Len(key) /\ k + 1 \in Nat /\ (k + 1) + 1 = k + 2
          /\ q + (k + 1) + 1 = q + k + 2
      OBVIOUS
    <3>4. Same(a, key, i, k + 1) <=> q + k + 1 <= N /\ a.text[q + k + 1] = b
      BY <3>1, <3>2, <3>3, SameByte
    <3>5. Same(a, key, i, k + 1) =>
            (Same(a, key, i, k + 2) <=> q + k + 2 <= N /\ a.text[q + k + 2] = d)
      <4> SUFFICES ASSUME Same(a, key, i, k + 1)
                   PROVE  Same(a, key, i, k + 2) <=> q + k + 2 <= N /\ a.text[q + k + 2] = d
        OBVIOUS
      <4>1. PICK n \in Nat : n = k + 1 /\ n + 1 = k + 2 /\ q + n + 1 = q + k + 2
        BY <3>3
      <4>2. ~ Letter(key[n + 1]) /\ n < Len(key) /\ Same(a, key, i, n)
        BY <4>1
      <4>3. Same(a, key, i, n + 1) <=> p + n + 1 <= Len(a.text) /\ a.text[p + n + 1] = key[n + 1]
        BY <4>2, SameByte
      <4>. QED  BY <3>2, <4>1, <4>3
    <3>6. Same(a, key, i, k + 2) => Same(a, key, i, k + 1)
      <4>1. k + 1 \in Nat /\ k + 2 \in Nat /\ k + 1 <= k + 2
        OBVIOUS
      <4>. QED  BY <4>1, SameBefore
    <3>7. q + k + 2 <= N => q + k + 1 <= N
      OBVIOUS
    <3>. QED  BY <3>2, <3>4, <3>5, <3>6, <3>7, Zenon
  <2>. QED  BY <1>1, <2>1, <2>2, <2>3, <2>4, Zenon DEF Goes
<1>. QED  BY <1>1, <1>2

LEMMA LetterExact ==
  ASSUME NEW a, IndexOK(a), NEW key \in Seq(Byte), NEW k \in Nat, k < Len(key),
         NEW c, Matched(a, key, c, k), NEW b, b = key[k + 1], Letter(b)
  PROVE  GoesOnWith(a, c, {ToLower(b), ToUpper(b)}) = Goes(a, key, c, k + 1)
<1>1. c.txt_skip = k
  BY DEF Matched
<1>2. ASSUME NEW i \in Part(c)
      PROVE  Same(a, key, i, k + 1) <=>
               /\ AryIdx2TxtIdx(a, i) + k + 1 <= Len(a.text)
               /\ a.text[AryIdx2TxtIdx(a, i) + k + 1] \in {ToLower(b), ToUpper(b)}
  <2>1. Same(a, key, i, k)
    BY DEF Matched
  <2>. QED  BY <2>1, SameByte
<1>. QED  BY <1>1, <1>2, Zenon DEF Goes, GoesOnWith

-----------------------------------------------------------------------------
(* The calls of sa_ignore_case: each at some byte of the keyword.          *)
CaseCalls(a, key) ==
  {c \in SoundCalls(a) :
     \E k \in 0 .. Len(key) : Matched(a, key, c, k) /\ c.key = Rest(key, k)}

(* Behind a piece of the expression every call goes on with the next one.  *)
LEMMA GoOnExact ==
  ASSUME NEW a, IndexOK(a), NEW key \in Seq(Byte), NEW k \in 0 .. Len(key),
         NEW c \in SoundCalls(a), c.key # <<>>, NEW n \in Nat, n >= 1,
         Drop(c.key, n) = Rest(key, k), KeyByte(c.key, n) # QUESTION,
         NEW calls \in Seq(SoundAt(a, c.key, k)), Cover(calls, Goes(a, key, c, k))
  PROVE  /\ GoOn(c, calls, n) \in Seq(CaseCalls(a, key))
         /\ Cover(GoOn(c, calls, n), Goes(a, key, c, k))
<1> DEFINE gone == [m \in DOMAIN calls |-> [calls[m] EXCEPT !.key = Drop(@, n)]]
<1>1. PICK l \in Nat : l = Len(calls) /\ DOMAIN calls = 1 .. l
                       /\ \A m \in 1 .. l : calls[m] \in SoundAt(a, c.key, k)
  <2>1. \A m \in 1 .. Len(calls) : calls[m] \in SoundAt(a, c.key, k)
    BY ElementOfSeq
  <2>. QED  BY <2>1
<1>2. ASSUME NEW m \in 1 .. l
      PROVE  Part(gone[m]) = Part(calls[m]) /\ gone[m] \in CaseCalls(a, key)
  <2>1. PICK d \in SoundCalls(a) : d = calls[m] /\ d.key = c.key /\ d.txt_skip = k
    BY <1>1 DEF SoundAt, SoundWith
  <2>2. gone[m] = [d EXCEPT !.key = Drop(@, n)]
    BY <1>1, <2>1
  <2>3. [d EXCEPT !.key = Drop(@, n)] \in Shorter(a, d.key)
    BY <2>1, OtherKey
  <2>4. PICK e : e = [d EXCEPT !.key = Drop(@, n)]
    OBVIOUS
  <2>5. e.left = d.left /\ e.right = d.right /\ e.txt_skip = k /\ e.key = Rest(key, k)
    BY <2>1, <2>4 DEF SoundCalls, CallType
  <2>6. e \in SoundCalls(a)
    BY <2>3, <2>4 DEF Shorter
  <2>7. Part(e) = Part(d)
    BY <2>5 DEF Part
  <2>8. \A i \in Part(d) : Same(a, key, i, k)
    <3> SUFFICES ASSUME NEW i \in Part(d) PROVE Same(a, key, i, k)
      OBVIOUS
    <3>1. Held(calls, i)
      BY <1>1, <2>1 DEF Held
    <3>. QED  BY <3>1 DEF Cover, Goes
  <2>9. Matched(a, key, e, k)
    BY <2>5, <2>7, <2>8 DEF Matched
  <2>10. e \in CaseCalls(a, key)
    BY <2>5, <2>6, <2>9 DEF CaseCalls
  <2> HIDE DEF gone
  <2>. QED  BY <2>1, <2>2, <2>4, <2>7, <2>10, Zenon
<1>3. DOMAIN gone = 1 .. l
  BY <1>1
<1>4. gone = [m \in 1 .. l |-> gone[m]]
  BY <1>1
<1>5. GoOn(c, calls, n) = gone \o <<>>
  BY DEF GoOn
<1> HIDE DEF gone
<1>6. gone \in Seq(CaseCalls(a, key))
  <2>1. gone \in [1 .. l -> CaseCalls(a, key)]
    BY <1>2, <1>4
  <2>. QED  BY <2>1
<1>7. gone \o <<>> = gone
  BY <1>6, ConcatEmptySeq
<1>8. Cover(gone, Goes(a, key, c, k))
  <2>1. \A i : Held(gone, i) <=> Held(calls, i)
    BY <1>1, <1>2, <1>3, Zenon DEF Held
  <2>2. Apart(gone)
    <3>1. Apart(calls)
      BY DEF Cover
    <3>. QED  BY <1>1, <1>2, <1>3, <3>1, Zenon DEF Apart
  <2>. QED  BY <2>1, <2>2 DEF Cover
<1>. QED  BY <1>5, <1>6, <1>7, <1>8

-----------------------------------------------------------------------------
(* What each piece of the expression makes of a call: calls for just those *)
(* places of its range that match one byte more, or two.                   *)
Narrowed(a, key, c, calls) ==
  /\ calls \in Seq(CaseCalls(a, key))
  /\ \E m \in 0 .. Len(key) : Cover(calls, Goes(a, key, c, m))

(* The first byte of the rest, by the byte of the keyword it stands for.   *)
LEMMA RestOfLetter ==
  ASSUME NEW key \in Seq(Byte), NEW k \in Nat, k < Len(key), NEW b, b = key[k + 1],
         Letter(b), NEW rest, rest = Rest(key, k)
  PROVE  /\ ClassEnd(rest) = 3 /\ KeyByte(rest, 0) = LBRACKET
         /\ KeyByte(rest, 3) = RBRACKET
         /\ CharacterClass(rest) = [EmptyClass EXCEPT !.bv = {ToLower(b), ToUpper(b)}]
         /\ Drop(rest, 4) = Rest(key, k + 1) /\ KeyByte(rest, 4) # QUESTION
         /\ ToLower(b) \in 0 .. 127 /\ ToUpper(b) \in 0 .. 127
<1>1. b \in Byte
  BY ElementOfSeq
<1>2. PICK lower \in 97 .. 122, upper \in 65 .. 90 :
        /\ lower = ToLower(b) /\ upper = ToUpper(b)
        /\ Piece(b) = <<LBRACKET, lower, upper, RBRACKET>>
  BY <1>1, PieceIs
<1>3. PICK t \in Seq(Byte) : t = Rest(key, k + 1)
  BY RestIs
<1>4. rest = <<LBRACKET, lower, upper, RBRACKET>> \o t
  BY <1>2, <1>3, RestIs
<1>5. KeyByte(t, 0) # QUESTION
  <2>1. k + 1 \in 0 .. Len(key)
    OBVIOUS
  <2>. QED  BY <1>3, <2>1, RestFirst
<1>6. /\ ClassEnd(rest) = 3
      /\ CharacterClass(rest) = [EmptyClass EXCEPT !.bv = {lower, upper}]
      /\ KeyByte(rest, 0) = LBRACKET /\ KeyByte(rest, 3) = RBRACKET
      /\ KeyByte(rest, 4) = KeyByte(t, 0) /\ Drop(rest, 4) = t
  <2>1. LetterRead(ClassBefore(t, lower, upper), lower, upper, t)
    BY ClassOfLetter
  <2>2. rest = ClassBefore(t, lower, upper)
    BY <1>4 DEF ClassBefore
  <2>3. LetterRead(rest, lower, upper, t)
    BY <2>1, <2>2, Zenon
  <2>. QED  BY <2>3 DEF LetterRead, LetterScanned
<1>7. lower \in 0 .. 127 /\ upper \in 0 .. 127
  OBVIOUS
<1>. QED  BY <1>2, <1>3, <1>5, <1>6, <1>7

LEMMA RestOfSpecial ==
  ASSUME NEW key \in Seq(Byte), NEW k \in Nat, k < Len(key), NEW b, b = key[k + 1],
         b \in Special, NEW rest, rest = Rest(key, k)
  PROVE  /\ KeyByte(rest, 0) = ESCAPE_CHAR /\ rest[1] = ESCAPE_CHAR
         /\ Escaped(rest) = [dcc |-> b, key_skip |-> 2] /\ ~ Letter(b)
         /\ Drop(rest, 2) = Rest(key, k + 1) /\ KeyByte(rest, 2) # QUESTION
<1>1. b \in Byte
  BY ElementOfSeq
<1>2. Piece(b) = <<ESCAPE_CHAR, b>> /\ ~ Letter(b)
  BY <1>1, PieceIs
<1>3. PICK t \in Seq(Byte) : t = Rest(key, k + 1)
  BY RestIs
<1>4. PICK s \in Seq(Byte) : s = <<ESCAPE_CHAR, b>> /\ Len(s) = 2
                             /\ s[1] = ESCAPE_CHAR /\ s[2] = b
  <2>1. ESCAPE_CHAR \in Byte
    BY DEF ESCAPE_CHAR, Byte
  <2>2. <<ESCAPE_CHAR, b>> \in Seq(Byte)
    BY <1>1, <2>1
  <2>3. Len(<<ESCAPE_CHAR, b>>) = 2
    OBVIOUS
  <2>4. <<ESCAPE_CHAR, b>>[1] = ESCAPE_CHAR /\ <<ESCAPE_CHAR, b>>[2] = b
    OBVIOUS
  <2>. QED  BY <2>2, <2>3, <2>4, Zenon
<1>5. rest = s \o t
  <2>1. Rest(key, k) = Piece(key[k + 1]) \o Rest(key, k + 1)
    BY RestIs
  <2>. QED  BY <1>2, <1>3, <1>4, <2>1, Zenon
<1>6. /\ Drop(rest, 2) = t /\ KeyByte(rest, 2) = KeyByte(t, 0)
      /\ \A i \in 0 .. 2 - 1 : KeyByte(rest, i) = s[i + 1]
      /\ Len(rest) = 2 + Len(t)
  <2>1. /\ Drop(s \o t, Len(s)) = t /\ KeyByte(s \o t, Len(s)) = KeyByte(t, 0)
        /\ \A i \in 0 .. Len(s) - 1 : KeyByte(s \o t, i) = s[i + 1]
        /\ Len(s \o t) = Len(s) + Len(t)
    BY BehindSequence
  <2>. QED  BY <1>4, <1>5, <2>1, Zenon
<1>7. KeyByte(rest, 0) = ESCAPE_CHAR /\ KeyByte(rest, 1) = b
  <2>1. 0 \in 0 .. 2 - 1 /\ 1 \in 0 .. 2 - 1 /\ 0 + 1 = 1 /\ 1 + 1 = 2
    OBVIOUS
  <2>. QED  BY <1>4, <1>6, <2>1
<1>8. rest[1] = KeyByte(rest, 0)
  <2>1. Len(t) \in Nat
    BY LenProperties
  <2>2. 0 < Len(rest)
    BY <1>6, <2>1
  <2>. QED  BY <2>2 DEF KeyByte
<1>9. b # 110 /\ b # 116 /\ b # 120
  BY SMTT(30)
  DEF Special, LBRACKET, RBRACKET, ESCAPE_CHAR, LPAREN, RPAREN, DOT, BAR, QUESTION
<1>10. Escaped(rest) = [dcc |-> b, key_skip |-> 2]
  BY <1>7, <1>9 DEF Escaped
<1>11. KeyByte(t, 0) # QUESTION
  <2>1. k + 1 \in 0 .. Len(key)
    OBVIOUS
  <2>. QED  BY <1>3, <2>1, RestFirst
<1>. QED  BY <1>2, <1>3, <1>6, <1>7, <1>8, <1>10, <1>11

LEMMA RestOfOther ==
  ASSUME NEW key \in Seq(Byte), NEW k \in Nat, k < Len(key), NEW b, b = key[k + 1],
         ~ Letter(b), b \notin Special, NEW rest, rest = Rest(key, k)
  PROVE  /\ KeyByte(rest, 0) = b /\ rest[1] = b
         /\ SubSeq(rest, 1, 1) = <<b>> /\ rest = <<b>> \o Rest(key, k + 1)
         /\ KeyByte(rest, 1) = KeyByte(Rest(key, k + 1), 0)
         /\ Drop(rest, 1) = Rest(key, k + 1) /\ KeyByte(rest, 1) # QUESTION
<1>1. b \in Byte
  BY ElementOfSeq
<1>2. Piece(b) = <<b>>
  BY <1>1, PieceIs
<1>3. PICK t \in Seq(Byte) : t = Rest(key, k + 1)
  BY RestIs
<1>4. PICK s \in Seq(Byte) : s = <<b>> /\ Len(s) = 1 /\ s[1] = b
  <2>1. <<b>> \in Seq(Byte)
    BY <1>1
  <2>2. Len(<<b>>) = 1
    OBVIOUS
  <2>3. <<b>>[1] = b
    OBVIOUS
  <2>. QED  BY <2>1, <2>2, <2>3, Zenon
<1>5. rest = s \o t
  <2>1. Rest(key, k) = Piece(key[k + 1]) \o Rest(key, k + 1)
    BY RestIs
  <2>. QED  BY <1>2, <1>3, <1>4, <2>1, Zenon
<1>6. /\ Drop(rest, 1) = t /\ KeyByte(rest, 1) = KeyByte(t, 0)
      /\ \A i \in 0 .. 1 - 1 : KeyByte(rest, i) = s[i + 1]
      /\ Len(rest) = 1 + Len(t)
  <2>1. /\ Drop(s \o t, Len(s)) = t /\ KeyByte(s \o t, Len(s)) = KeyByte(t, 0)
        /\ \A i \in 0 .. Len(s) - 1 : KeyByte(s \o t, i) = s[i + 1]
        /\ Len(s \o t) = Len(s) + Len(t)
    BY BehindSequence
  <2>. QED  BY <1>4, <1>5, <2>1, Zenon
<1>7. KeyByte(rest, 0) = b
  <2>1. 0 \in 0 .. 1 - 1 /\ 0 + 1 = 1
    OBVIOUS
  <2>. QED  BY <1>4, <1>6, <2>1
<1>8. rest[1] = KeyByte(rest, 0)
  <2>1. Len(t) \in Nat
    BY LenProperties
  <2>2. 0 < Len(rest)
    BY <1>6, <2>1
  <2>. QED  BY <2>2 DEF KeyByte
<1>9. SubSeq(rest, 1, 1) = <<b>>
  <2>1. SubSeq(s \o t, 1, Len(s)) = s
    <3>1. 1 \in 1 .. Len(s) + 1 /\ Len(s) \in 1 - 1 .. Len(s)
      BY <1>4
    <3>2. SubSeq(s \o t, 1, Len(s)) = SubSeq(s, 1, Len(s))
      BY <3>1, SubSeqOfConcat1
    <3>. QED  BY <3>2, SubSeqFull
  <2>. QED  BY <1>4, <1>5, <2>1
<1>11. KeyByte(t, 0) # QUESTION
  <2>1. k + 1 \in 0 .. Len(key)
    OBVIOUS
  <2>. QED  BY <1>3, <2>1, RestFirst
<1>. QED  BY <1>3, <1>4, <1>5, <1>6, <1>7, <1>8, <1>9, <1>11

LEMMA NarrowsByLetter ==
  ASSUME NEW a, a = ary, IndexOK(a), NEW key \in Seq(Byte), NEW k \in Nat, k < Len(key),
         NEW c \in SoundCalls(a), Matched(a, key, c, k), c.key = Rest(key, k),
         c.key # <<>>, NEW b, b = key[k + 1], Letter(b)
  PROVE  Narrowed(a, key, c, GoOn(c, BitVectorSearch(c, CharacterClass(c.key)), 4))
<1>1. PICK class : class = CharacterClass(c.key)
  OBVIOUS
<1>2. /\ class.bv = {ToLower(b), ToUpper(b)} /\ class.bv \subseteq 0 .. 127
      /\ Drop(c.key, 4) = Rest(key, k + 1) /\ KeyByte(c.key, 4) # QUESTION
  <2>1. class = [EmptyClass EXCEPT !.bv = {ToLower(b), ToUpper(b)}]
    BY <1>1, RestOfLetter
  <2>2. class.bv = {ToLower(b), ToUpper(b)}
    BY <2>1 DEF EmptyClass
  <2>3. ToLower(b) \in 0 .. 127 /\ ToUpper(b) \in 0 .. 127
    BY RestOfLetter
  <2>4. Drop(c.key, 4) = Rest(key, k + 1) /\ KeyByte(c.key, 4) # QUESTION
    BY RestOfLetter
  <2>. QED  BY <2>2, <2>3, <2>4
<1>3. PICK calls : calls = BitVectorSearch(c, class)
  OBVIOUS
<1>4. /\ calls \in Seq(SoundAt(a, c.key, c.txt_skip + 1))
      /\ Cover(calls, GoesOnWith(a, c, class.bv))
  BY <1>2, <1>3, BitVectorExact
<1>5. GoesOnWith(a, c, {ToLower(b), ToUpper(b)}) = Goes(a, key, c, k + 1)
  BY LetterExact
<1>6. Cover(calls, Goes(a, key, c, k + 1))
  BY <1>2, <1>4, <1>5, Zenon
<1>7. c.txt_skip = k /\ k + 1 \in 0 .. Len(key)
  BY DEF Matched
<1>8. calls \in Seq(SoundAt(a, c.key, k + 1))
  BY <1>4, <1>7, Zenon
<1>9. /\ GoOn(c, calls, 4) \in Seq(CaseCalls(a, key))
      /\ Cover(GoOn(c, calls, 4), Goes(a, key, c, k + 1))
  <2>1. 4 \in Nat /\ 4 >= 1
    OBVIOUS
  <2>. QED  BY <1>2, <1>6, <1>7, <1>8, <2>1, GoOnExact
<1>. QED  BY <1>1, <1>3, <1>7, <1>9 DEF Narrowed

LEMMA NarrowsByString ==
  ASSUME NEW a, a = ary, IndexOK(a), NEW key \in Seq(Byte), NEW k \in Nat,
         NEW c \in SoundCalls(a), Matched(a, key, c, k), c.key # <<>>,
         NEW str, NEW m \in {1, 2}, Len(str) = m, k + m <= Len(key),
         Standing(a, c, str) = Goes(a, key, c, k + m),
         NEW n \in {1, 2}, Drop(c.key, n) = Rest(key, k + m), KeyByte(c.key, n) # QUESTION
  PROVE  Narrowed(a, key, c, GoOn(c, Find(c, str), n))
<1>1. PICK calls : calls = Find(c, str)
  OBVIOUS
<1>2. c.txt_skip = k
  BY DEF Matched
<1>3. Len(str) \in Nat /\ k + m \in 0 .. Len(key) /\ n \in Nat /\ n >= 1
  OBVIOUS
<1>4. /\ calls \in Seq(SoundAt(a, c.key, c.txt_skip + Len(str)))
      /\ Cover(calls, Standing(a, c, str))
  BY <1>1, <1>3, FindExact
<1>5. /\ calls \in Seq(SoundAt(a, c.key, k + m))
      /\ Cover(calls, Goes(a, key, c, k + m))
  BY <1>2, <1>4, Zenon
<1>6. /\ GoOn(c, calls, n) \in Seq(CaseCalls(a, key))
      /\ Cover(GoOn(c, calls, n), Goes(a, key, c, k + m))
  BY <1>3, <1>5, GoOnExact
<1>. QED  BY <1>1, <1>3, <1>6 DEF Narrowed

LEMMA NarrowsByEscape ==
  ASSUME NEW a, a = ary, IndexOK(a), NEW key \in Seq(Byte), NEW k \in Nat, k < Len(key),
         NEW c \in SoundCalls(a), Matched(a, key, c, k), c.key = Rest(key, k),
         c.key # <<>>, key[k + 1] \in Special,
         NEW escape, escape = Escaped(c.key)
  PROVE  Narrowed(a, key, c, GoOn(c, Find(c, <<escape.dcc>>), escape.key_skip))
<1>1. PICK b : b = key[k + 1]
  OBVIOUS
<1>2. PICK rest : rest = c.key
  OBVIOUS
<1>3. /\ Escaped(rest) = [dcc |-> b, key_skip |-> 2] /\ ~ Letter(b)
      /\ Drop(rest, 2) = Rest(key, k + 1) /\ KeyByte(rest, 2) # QUESTION
  BY <1>1, <1>2, RestOfSpecial
<1>4. escape.dcc = b /\ escape.key_skip = 2
  BY <1>2, <1>3
<1>5. PICK str : str = <<b>> /\ Len(str) = 1
  <2>1. Len(<<b>>) = 1
    OBVIOUS
  <2>. QED  BY <2>1, Zenon
<1>6. Standing(a, c, <<b>>) = Goes(a, key, c, k + 1)
  BY <1>1, <1>3, OneByteExact
<1>7. Narrowed(a, key, c, GoOn(c, Find(c, str), 2))
  <2>1. 1 \in {1, 2} /\ 2 \in {1, 2} /\ k + 1 <= Len(key)
    OBVIOUS
  <2>2. Standing(a, c, str) = Goes(a, key, c, k + 1)
    BY <1>5, <1>6, Zenon
  <2>. QED  BY <1>2, <1>3, <1>5, <2>1, <2>2, NarrowsByString
<1>. QED  BY <1>4, <1>5, <1>7, Zenon

(* Two bytes that both have their highest bit are searched as one string.  *)
LEMMA NarrowsByByte ==
  ASSUME NEW a, a = ary, IndexOK(a), NEW key \in Seq(Byte), NEW k \in Nat, k < Len(key),
         NEW c \in SoundCalls(a), Matched(a, key, c, k), c.key = Rest(key, k),
         c.key # <<>>, key[k + 1] \notin Special, ~ Letter(key[k + 1]), NEW n,
         n = IF MSB_ON(c.key[1]) /\ Len(c.key) > 1 /\ MSB_ON(KeyByte(c.key, 1)) THEN 2 ELSE 1
  PROVE  Narrowed(a, key, c, GoOn(c, Find(c, SubSeq(c.key, 1, n)), n))
<1>1. PICK b : b = key[k + 1]
  OBVIOUS
<1>2. PICK rest : rest = c.key
  OBVIOUS
<1>3. /\ SubSeq(rest, 1, 1) = <<b>> /\ rest = <<b>> \o Rest(key, k + 1)
      /\ KeyByte(rest, 1) = KeyByte(Rest(key, k + 1), 0)
      /\ Drop(rest, 1) = Rest(key, k + 1) /\ KeyByte(rest, 1) # QUESTION
  BY <1>1, <1>2, RestOfOther
<1>4. CASE n = 1
  <2>1. PICK str : str = <<b>> /\ Len(str) = 1
    <3>1. Len(<<b>>) = 1
      OBVIOUS
    <3>. QED  BY <3>1, Zenon
  <2>2. Standing(a, c, <<b>>) = Goes(a, key, c, k + 1)
    BY <1>1, OneByteExact
  <2>3. 1 \in {1, 2} /\ k + 1 <= Len(key)
    OBVIOUS
  <2>4. Standing(a, c, str) = Goes(a, key, c, k + 1)
    BY <2>1, <2>2, Zenon
  <2>5. Narrowed(a, key, c, GoOn(c, Find(c, str), 1))
    BY <1>2, <1>3, <2>1, <2>3, <2>4, NarrowsByString
  <2>. QED  BY <1>2, <1>3, <1>4, <2>1, <2>5, Zenon
<1>5. CASE n = 2
  <2>1. MSB_ON(KeyByte(rest, 1))
    <3>1. 1 # 2
      OBVIOUS
    <3>. QED  BY <1>2, <1>5, <3>1, Zenon
  <2>2. PICK j \in Nat : j = k + 1 /\ j \in 0 .. Len(key)
    OBVIOUS
  <2>3. PICK t : t = Rest(key, j)
    OBVIOUS
  <2>4. /\ j < Len(key) /\ KeyByte(t, 0) = key[j + 1]
        /\ ~ Letter(key[j + 1]) /\ key[j + 1] \notin Special
    <3>1. MSB_ON(KeyByte(Rest(key, j), 0))
      BY <1>3, <2>1, <2>2, Zenon
    <3>. QED  BY <2>2, <2>3, <3>1, RestFirst
  <2>5. PICK d : d = key[j + 1]
    OBVIOUS
  <2>6. /\ t = <<d>> \o Rest(key, j + 1)
        /\ KeyByte(t, 1) = KeyByte(Rest(key, j + 1), 0) /\ KeyByte(t, 1) # QUESTION
    BY <2>3, <2>4, <2>5, RestOfOther
  <2>7. PICK u \in Seq(Byte) : u = Rest(key, j + 1)
    <3>1. j + 1 \in Nat
      OBVIOUS
    <3>. QED  BY <3>1, RestIs
  <2>8. b \in Byte /\ d \in Byte
    BY <1>1, <2>2, <2>4, <2>5, ElementOfSeq
  <2>9. PICK str \in Seq(Byte) : str = <<b, d>> /\ Len(str) = 2
    <3>1. Len(<<b, d>>) = 2
      OBVIOUS
    <3>2. <<b, d>> \in Seq(Byte)
      BY <2>8
    <3>. QED  BY <3>1, <3>2, Zenon
  <2>10. rest = str \o u
    <3>1. PICK x \in Seq(Byte), y \in Seq(Byte) : x = <<b>> /\ y = <<d>>
      <4>1. <<b>> \in Seq(Byte) /\ <<d>> \in Seq(Byte)
        BY <2>8
      <4>. QED  BY <4>1, Zenon
    <3>2. rest = x \o (y \o u)
      BY <1>3, <2>2, <2>3, <2>6, <2>7, <3>1, Zenon
    <3>3. x \o (y \o u) = (x \o y) \o u
      BY <2>7, <3>1, ConcatAssociative
    <3>4. x \o y = str
      <4>1. Len(x) = 1 /\ x[1] = b /\ Len(y) = 1 /\ y[1] = d
        <5>1. Len(<<b>>) = 1 /\ Len(<<d>>) = 1
          OBVIOUS
        <5>2. <<b>>[1] = b /\ <<d>>[1] = d
          OBVIOUS
        <5>. QED  BY <3>1, <5>1, <5>2, Zenon
      <4>2. str[1] = b /\ str[2] = d
        BY <2>9
      <4>3. PICK z \in Seq(Byte) : z = x \o y
        BY <3>1, ConcatProperties
      <4>4. /\ Len(z) = 1 + 1
            /\ \A i \in 1 .. 1 + 1 : z[i] = IF i <= 1 THEN x[i] ELSE y[i - 1]
        BY <3>1, <4>1, <4>3, ConcatProperties
      <4>5. Len(z) = 2 /\ z[1] = b /\ z[2] = d
        BY <4>1, <4>4
      <4>6. \A i \in 1 .. 2 : z[i] = str[i]
        <5>1. \A i \in 1 .. 2 : i = 1 \/ i = 2
          OBVIOUS
        <5>. QED  BY <4>2, <4>5, <5>1, Zenon
      <4>7. z = str
        BY <2>9, <4>5, <4>6, SeqEqual
      <4>. QED  BY <4>3, <4>7, Zenon
    <3>. QED  BY <3>2, <3>3, <3>4, Zenon
  <2>11. /\ Drop(rest, 2) = u /\ KeyByte(rest, 2) = KeyByte(u, 0)
         /\ SubSeq(rest, 1, 2) = str
    <3>1. Drop(str \o u, Len(str)) = u /\ KeyByte(str \o u, Len(str)) = KeyByte(u, 0)
      BY <2>7, <2>9, BehindSequence
    <3>2. 1 \in 1 .. Len(str) /\ Len(str) \in 1 .. Len(str)
      BY <2>9
    <3>3. SubSeq(str \o u, 1, Len(str)) = SubSeq(str, 1, Len(str))
      BY <2>7, <2>9, <3>2, SubSeqOfConcat1
    <3>4. SubSeq(str, 1, Len(str)) = str
      BY <2>9, SubSeqFull
    <3>. QED  BY <2>9, <2>10, <3>1, <3>3, <3>4, Zenon
  <2>12. Standing(a, c, <<b, d>>) = Goes(a, key, c, k + 2)
    <3>1. k + 1 < Len(key) /\ k + 2 = j + 1
      BY <2>2, <2>4
    <3>2. d = key[k + 2] /\ ~ Letter(d)
      BY <2>4, <2>5, <3>1, Zenon
    <3>. QED  BY <1>1, <3>1, <3>2, TwoBytesExact
  <2>13. /\ 2 \in {1, 2} /\ k + 2 <= Len(key) /\ k + 2 = j + 1
    BY <2>2, <2>4
  <2>14. /\ Standing(a, c, str) = Goes(a, key, c, k + 2)
         /\ Drop(c.key, 2) = Rest(key, k + 2) /\ KeyByte(c.key, 2) # QUESTION
    BY <1>2, <2>6, <2>7, <2>9, <2>11, <2>12, <2>13, Zenon
  <2>15. Narrowed(a, key, c, GoOn(c, Find(c, str), 2))
    BY <2>9, <2>13, <2>14, NarrowsByString
  <2>. QED  BY <1>2, <1>5, <2>11, <2>15, Zenon
<1>. QED  BY <1>4, <1>5, Zenon

-----------------------------------------------------------------------------
(* What the search of a keyword keeps true of the calls still to be made   *)
(* and the results already stored.                                         *)
Result(a, key, i) == [value |-> AryIdx2TxtIdx(a, i), len |-> Len(key)]

Reported(a, key, list, i) == \E n \in DOMAIN list : list[n] = Result(a, key, i)

Listed(a, key, list) ==
  /\ list \in Seq([value : Nat, len : Nat])
  /\ \A n \in DOMAIN list : \E i : /\ Same(a, key, i, Len(key))
                                   /\ list[n] = Result(a, key, i)
  /\ \A m, n \in DOMAIN list : list[m] = list[n] => m = n

Once(a, key, calls, list) ==
  /\ calls \in Seq(CaseCalls(a, key))
  /\ Apart(calls)
  /\ \A i : ~ (Held(calls, i) /\ Reported(a, key, list, i))

Complete(a, key, calls, list) ==
  \A i : Same(a, key, i, Len(key)) => Held(calls, i) \/ Reported(a, key, list, i)

CaseInv ==
  asked.mode = "ignore_case" =>
    /\ pc # "exit"
    /\ pc = "called" => results = <<>>
    /\ pc = "done" => todo = <<>>
    /\ Listed(ary, asked.key, results)
    /\ Once(ary, asked.key, todo, results)
    /\ pc # "called" => Complete(ary, asked.key, todo, results)

(* The first of some calls, and the others.                                *)
LEMMA HeldByTail ==
  ASSUME NEW S, NEW calls \in Seq(S), calls # <<>>, Apart(calls)
  PROVE  /\ Tail(calls) \in Seq(S) /\ Apart(Tail(calls))
         /\ \A i : Held(calls, i) <=> i \in Part(calls[1]) \/ Held(Tail(calls), i)
         /\ \A i : ~ (i \in Part(calls[1]) /\ Held(Tail(calls), i))
<1>1. PICK rest \in Seq(S), l \in Nat :
        /\ rest = Tail(calls) /\ l = Len(rest) /\ Len(calls) = l + 1
        /\ \A n \in 1 .. l : rest[n] = calls[n + 1]
  <2>1. Tail(calls) \in Seq(S) /\ Len(calls) = Len(Tail(calls)) + 1
    BY HeadAndTail
  <2>2. \A n \in 1 .. Len(Tail(calls)) : Tail(calls)[n] = calls[n + 1]
    BY HeadTailProperties
  <2>3. Len(Tail(calls)) \in Nat
    BY <2>1, LenProperties
  <2>. QED  BY <2>1, <2>2, <2>3
<1>2. DOMAIN calls = 1 .. l + 1 /\ DOMAIN rest = 1 .. l
  BY <1>1, LenProperties
<1>3. \A n \in 1 .. l : n + 1 \in DOMAIN calls /\ n + 1 # 1
  BY <1>2
<1>4. 1 \in DOMAIN calls
  BY <1>2
<1>5. Apart(rest)
  <2> SUFFICES ASSUME NEW m \in 1 .. l, NEW n \in 1 .. l, NEW i,
                      i \in Part(rest[m]), i \in Part(rest[n])
               PROVE  m = n
    BY <1>2 DEF Apart
  <2>1. i \in Part(calls[m + 1]) /\ i \in Part(calls[n + 1])
    BY <1>1
  <2>2. m + 1 = n + 1
    BY <1>3, <2>1, Zenon DEF Apart
  <2>. QED  BY <2>2
<1>6. ASSUME NEW i
      PROVE  Held(calls, i) <=> i \in Part(calls[1]) \/ Held(rest, i)
  <2>1. ASSUME NEW n \in DOMAIN calls, i \in Part(calls[n]), i \notin Part(calls[1])
        PROVE  Held(rest, i)
    <3>1. n # 1
      BY <2>1
    <3>2. n - 1 \in 1 .. l /\ (n - 1) + 1 = n
      BY <1>2, <3>1
    <3>3. rest[n - 1] = calls[n]
      BY <1>1, <3>2
    <3>. QED  BY <1>2, <2>1, <3>2, <3>3 DEF Held
  <2>2. ASSUME NEW n \in 1 .. l, i \in Part(rest[n])
        PROVE  Held(calls, i)
    <3>1. i \in Part(calls[n + 1])
      BY <1>1, <2>2
    <3>. QED  BY <1>3, <3>1 DEF Held
  <2>3. i \in Part(calls[1]) => Held(calls, i)
    BY <1>4 DEF Held
  <2>. QED  BY <1>2, <2>1, <2>2, <2>3, Zenon DEF Held
<1>7. ASSUME NEW i, i \in Part(calls[1]), Held(rest, i)
      PROVE  FALSE
  <2>1. PICK n \in 1 .. l : i \in Part(rest[n])
    BY <1>2, <1>7 DEF Held
  <2>2. i \in Part(calls[n + 1])
    BY <1>1, <2>1
  <2>3. n + 1 = 1
    BY <1>3, <1>4, <1>7, <2>2, Zenon DEF Apart
  <2>. QED  BY <1>3, <2>3
<1>. QED  BY <1>1, <1>5, <1>6, <1>7, Zenon

(* A call replaced by those it narrows to loses no place that matches.     *)
LEMMA NarrowKeeps ==
  ASSUME NEW a, IndexOK(a), NEW key \in Seq(Byte), NEW calls, calls # <<>>, NEW list,
         Once(a, key, calls, list), Complete(a, key, calls, list),
         NEW next, Narrowed(a, key, calls[1], next)
  PROVE  /\ Once(a, key, next \o Tail(calls), list)
         /\ Complete(a, key, next \o Tail(calls), list)
<1>1. PICK m \in 0 .. Len(key) : Cover(next, Goes(a, key, calls[1], m))
  BY DEF Narrowed
<1>2. PICK rest : rest = Tail(calls)
  OBVIOUS
<1>3. /\ rest \in Seq(CaseCalls(a, key)) /\ Apart(rest)
      /\ \A i : Held(calls, i) <=> i \in Part(calls[1]) \/ Held(rest, i)
      /\ \A i : ~ (i \in Part(calls[1]) /\ Held(rest, i))
  BY <1>2, HeldByTail DEF Once
<1> DEFINE R == Goes(a, key, calls[1], m)
           Q == {i \in Nat : Held(rest, i)}
<1>4. \A i : Held(rest, i) => i \in Nat
  <2> SUFFICES ASSUME NEW n \in DOMAIN rest, NEW i \in Part(rest[n]) PROVE i \in Nat
    BY DEF Held
  <2>1. rest[n] \in CaseCalls(a, key)
    BY <1>3, LenProperties, ElementOfSeq
  <2>2. rest[n] \in SoundCalls(a)
    BY <2>1 DEF CaseCalls
  <2>3. i \in 0 .. Len(a.array) - 1
    BY <2>2, PlacesInIndex
  <2>. QED  BY <2>3
<1>5. Cover(rest, Q)
  BY <1>3, <1>4 DEF Cover
<1>6. R \subseteq Part(calls[1])
  BY DEF Goes
<1>7. R \cap Q = {}
  BY <1>3, <1>6
<1> HIDE DEF R, Q
<1>8. next \in Seq(CaseCalls(a, key))
  BY DEF Narrowed
<1>9. Cover(next, R)
  BY <1>1 DEF R
<1>10. Cover(next \o rest, R \union Q)
  BY <1>3, <1>5, <1>7, <1>8, <1>9, CoverConcat
<1>11. next \o rest \in Seq(CaseCalls(a, key))
  BY <1>3, <1>8, ConcatProperties
<1>12. \A i : Held(next \o rest, i) <=> i \in R \/ Held(rest, i)
  <2>1. \A i : Held(next \o rest, i) <=> i \in R \union Q
    BY <1>10 DEF Cover
  <2>2. \A i : i \in Q <=> Held(rest, i)
    BY <1>5 DEF Cover
  <2>. QED  BY <2>1, <2>2
<1>13. Once(a, key, next \o rest, list)
  <2>1. Apart(next \o rest)
    BY <1>10 DEF Cover
  <2>2. \A i : Held(next \o rest, i) => Held(calls, i)
    BY <1>3, <1>6, <1>12
  <2>. QED  BY <1>11, <2>1, <2>2 DEF Once
<1>14. Complete(a, key, next \o rest, list)
  <2> SUFFICES ASSUME NEW i, Same(a, key, i, Len(key)), Held(calls, i)
               PROVE  Held(next \o rest, i)
    BY DEF Complete
  <2>1. Same(a, key, i, m)
    <3>1. Len(key) \in Nat /\ m \in Nat /\ m <= Len(key)
      OBVIOUS
    <3>. QED  BY <3>1, SameBefore
  <2>2. i \in Part(calls[1]) => i \in R
    BY <2>1 DEF R, Goes
  <2>. QED  BY <1>3, <1>12, <2>2
<1>. QED  BY <1>2, <1>13, <1>14

(* What has nothing of the expression left is at the end of the keyword.   *)
LEMMA AtTheEnd ==
  ASSUME NEW a, NEW key \in Seq(Byte), NEW c \in CaseCalls(a, key), c.key = <<>>
  PROVE  Matched(a, key, c, Len(key))
<1>1. PICK k \in 0 .. Len(key) : Matched(a, key, c, k) /\ c.key = Rest(key, k)
  BY DEF CaseCalls
<1>2. ASSUME k < Len(key)
      PROVE  FALSE
  <2>1. PICK b \in Byte : b = key[k + 1]
    <3>1. k + 1 \in 1 .. Len(key)
      BY <1>2
    <3>. QED  BY <3>1, ElementOfSeq
  <2>2. PICK s, t : s = Piece(b) /\ s \in Seq(Byte) /\ t = Rest(key, k + 1) /\ t \in Seq(Byte)
    BY PieceType, RestIs
  <2>3. s \o t = <<>>
    <3>1. Rest(key, k) = Piece(key[k + 1]) \o Rest(key, k + 1)
      <4>1. k \in Nat
        OBVIOUS
      <4>. QED  BY <1>2, <4>1, RestIs
    <3>. QED  BY <1>1, <2>1, <2>2, <3>1, Zenon
  <2>4. s = <<>>
    BY <2>2, <2>3, ConcatEqualIffEmpty
  <2>5. Piece(b) # <<>>
    <3>1. /\ <<LBRACKET, ToLower(b), ToUpper(b), RBRACKET>> # <<>>
          /\ <<ESCAPE_CHAR, b>> # <<>> /\ <<b>> # <<>>
      OBVIOUS
    <3>. QED  BY <3>1, PieceIs, Zenon
  <2>. QED  BY <2>2, <2>4, <2>5
<1>3. Len(key) \in Nat
  BY LenProperties
<1>4. k = Len(key)
  BY <1>2, <1>3
<1>. QED  BY <1>1, <1>4

(* The results of a call that is at the end.                               *)
Stored(a, c) ==
  [n \in 1 .. c.right - c.left + 1 |->
     [value |-> AryIdx2TxtIdx(a, c.left + n - 1), len |-> c.txt_skip]]

LEMMA StoredIs ==
  ASSUME NEW a, IndexOK(a), NEW key \in Seq(Byte), NEW c \in CaseCalls(a, key), c.key = <<>>
  PROVE  /\ Stored(a, c) \in Seq([value : Nat, len : Nat])
         /\ Listed(a, key, Stored(a, c))
         /\ \A i \in Part(c) : i \in 0 .. Len(a.array) - 1 /\ Same(a, key, i, Len(key))
         /\ \A i \in 0 .. Len(a.array) - 1 : Reported(a, key, Stored(a, c), i) <=> i \in Part(c)
<1>1. Matched(a, key, c, Len(key))
  BY AtTheEnd
<1>2. PICK l \in Nat, r \in Nat, N \in Nat :
        l = c.left /\ r = c.right /\ N = Len(key) /\ N = c.txt_skip
  <2>1. c.left \in Nat /\ c.right \in Nat /\ Len(key) \in Nat
    BY LenProperties DEF CaseCalls, SoundCalls, CallType
  <2>. QED  BY <1>1, <2>1 DEF Matched
<1>3. l <= r
  BY <1>2, CallOKIs DEF CaseCalls, SoundCalls
<1>4. PICK w \in Nat : w = r - l + 1
  BY <1>3
<1>5. Part(c) = l .. r
  BY <1>2 DEF Part
<1>6. \A i \in l .. r : /\ i \in 0 .. Len(a.array) - 1 /\ AryIdx2TxtIdx(a, i) \in Nat
                        /\ Same(a, key, i, N)
  <2>1. c \in SoundCalls(a)
    BY DEF CaseCalls
  <2>. QED  BY <1>1, <1>2, <1>5, <2>1, PlacesInIndex DEF Matched
<1>7. PICK s : s = Stored(a, c)
  OBVIOUS
<1>8. s = [n \in 1 .. w |-> Result(a, key, l + n - 1)]
  BY <1>2, <1>4, <1>7 DEF Stored, Result
<1>9. \A n \in 1 .. w : l + n - 1 \in l .. r
  BY <1>4
<1>10. DOMAIN s = 1 .. w /\ \A n \in 1 .. w : s[n] = Result(a, key, l + n - 1)
  BY <1>8
<1>11. \A i \in l .. r : Result(a, key, i) \in [value : Nat, len : Nat]
  BY <1>2, <1>6 DEF Result
<1>12. s \in Seq([value : Nat, len : Nat])
  <2>1. \A n \in 1 .. w : Result(a, key, l + n - 1) \in [value : Nat, len : Nat]
    BY <1>9, <1>11
  <2> DEFINE X == [value : Nat, len : Nat]
  <2> HIDE DEF X
  <2>2. s \in [1 .. w -> X]
    BY <1>8, <2>1 DEF X
  <2>3. s \in Seq(X)
    BY <2>2
  <2>. QED  BY <2>3 DEF X
<1>13. ASSUME NEW i \in 0 .. Len(a.array) - 1, NEW j \in 0 .. Len(a.array) - 1,
              Result(a, key, i) = Result(a, key, j)
       PROVE  i = j
  <2>1. AryIdx2TxtIdx(a, i) = AryIdx2TxtIdx(a, j)
    BY <1>13 DEF Result
  <2>. QED  BY <2>1, PlacesDiffer
<1>14. ASSUME NEW m \in 1 .. w, NEW n \in 1 .. w, s[m] = s[n]
       PROVE  m = n
  <2>1. Result(a, key, l + m - 1) = Result(a, key, l + n - 1)
    BY <1>10, <1>14
  <2>2. l + m - 1 \in 0 .. Len(a.array) - 1 /\ l + n - 1 \in 0 .. Len(a.array) - 1
    BY <1>6, <1>9
  <2>3. l + m - 1 = l + n - 1
    BY <1>13, <2>1, <2>2
  <2>. QED  BY <2>3
<1>15. Listed(a, key, s)
  <2>1. ASSUME NEW n \in 1 .. w
        PROVE  \E i : Same(a, key, i, Len(key)) /\ s[n] = Result(a, key, i)
    BY <1>2, <1>6, <1>9, <1>10
  <2>. QED  BY <1>10, <1>12, <1>14, <2>1 DEF Listed
<1>16. ASSUME NEW i \in 0 .. Len(a.array) - 1
       PROVE  Reported(a, key, s, i) <=> i \in l .. r
  <2>1. ASSUME NEW n \in 1 .. w, s[n] = Result(a, key, i)
        PROVE  i \in l .. r
    <3>1. Result(a, key, l + n - 1) = Result(a, key, i)
      BY <1>10, <2>1
    <3>2. l + n - 1 \in 0 .. Len(a.array) - 1
      BY <1>6, <1>9
    <3>3. l + n - 1 = i
      BY <1>13, <3>1, <3>2
    <3>. QED  BY <1>9, <3>3
  <2>2. ASSUME i \in l .. r
        PROVE  Reported(a, key, s, i)
    <3>1. i - l + 1 \in 1 .. w /\ l + (i - l + 1) - 1 = i
      BY <1>4, <2>2
    <3>2. s[i - l + 1] = Result(a, key, i)
      BY <1>10, <3>1
    <3>. QED  BY <1>10, <3>1, <3>2 DEF Reported
  <2>. QED  BY <1>10, <2>1, <2>2 DEF Reported
<1>. QED  BY <1>2, <1>5, <1>6, <1>7, <1>12, <1>15, <1>16

(* Storing the results of the first call.                                  *)
LEMMA StoreKeeps ==
  ASSUME NEW a, IndexOK(a), NEW key \in Seq(Byte), NEW calls, calls # <<>>, NEW list,
         Listed(a, key, list), Once(a, key, calls, list), Complete(a, key, calls, list),
         calls[1].key = <<>>
  PROVE  /\ Listed(a, key, list \o Stored(a, calls[1]))
         /\ Once(a, key, Tail(calls), list \o Stored(a, calls[1]))
         /\ Complete(a, key, Tail(calls), list \o Stored(a, calls[1]))
<1>1. PICK rest, c, s : rest = Tail(calls) /\ c = calls[1] /\ s = Stored(a, c)
  OBVIOUS
<1>2. c \in CaseCalls(a, key) /\ c.key = <<>>
  <2>1. calls \in Seq(CaseCalls(a, key))
    BY DEF Once
  <2>. QED  BY <1>1, <2>1, HeadAndTail
<1>3. /\ rest \in Seq(CaseCalls(a, key)) /\ Apart(rest)
      /\ \A i : Held(calls, i) <=> i \in Part(c) \/ Held(rest, i)
      /\ \A i : ~ (i \in Part(c) /\ Held(rest, i))
  BY <1>1, HeldByTail DEF Once
<1>4. /\ Listed(a, key, s)
      /\ \A i \in Part(c) : i \in 0 .. Len(a.array) - 1 /\ Same(a, key, i, Len(key))
      /\ \A i \in 0 .. Len(a.array) - 1 : Reported(a, key, s, i) <=> i \in Part(c)
  BY <1>1, <1>2, StoredIs
<1> DEFINE X == [value : Nat, len : Nat]
<1>5. list \in Seq(X) /\ s \in Seq(X)
  BY <1>4 DEF Listed
<1> HIDE DEF X
<1>6. PICK both \in Seq(X), l \in Nat, m \in Nat :
        /\ both = list \o s /\ l = Len(list) /\ m = Len(s)
        /\ \A n \in 1 .. l + m : both[n] = IF n <= l THEN list[n] ELSE s[n - l]
        /\ DOMAIN both = 1 .. l + m /\ DOMAIN list = 1 .. l /\ DOMAIN s = 1 .. m
  <2>1. /\ list \o s \in Seq(X) /\ Len(list \o s) = Len(list) + Len(s)
        /\ \A n \in 1 .. Len(list) + Len(s) :
             (list \o s)[n] = IF n <= Len(list) THEN list[n] ELSE s[n - Len(list)]
    BY <1>5, ConcatProperties
  <2>2. /\ Len(list) \in Nat /\ Len(s) \in Nat /\ DOMAIN list = 1 .. Len(list)
        /\ DOMAIN s = 1 .. Len(s) /\ DOMAIN (list \o s) = 1 .. Len(list \o s)
    BY <1>5, <2>1, LenProperties
  <2>. QED  BY <2>1, <2>2
<1>7. \A n \in 1 .. l + m : \/ n \in 1 .. l /\ both[n] = list[n]
                            \/ n > l /\ n - l \in 1 .. m /\ both[n] = s[n - l]
  BY <1>6
<1>8. /\ \A n \in 1 .. l : n \in 1 .. l + m /\ both[n] = list[n]
      /\ \A n \in 1 .. m : n + l \in 1 .. l + m /\ both[n + l] = s[n]
  BY <1>6
<1>9. \A i : Reported(a, key, both, i) <=> Reported(a, key, list, i) \/ Reported(a, key, s, i)
  <2> SUFFICES ASSUME NEW r
               PROVE  (\E n \in 1 .. l + m : both[n] = r)
                      <=> (\E n \in 1 .. l : list[n] = r) \/ (\E n \in 1 .. m : s[n] = r)
    BY <1>6, Zenon DEF Reported
  <2>1. ASSUME NEW n \in 1 .. l + m, both[n] = r
        PROVE  (\E k \in 1 .. l : list[k] = r) \/ (\E k \in 1 .. m : s[k] = r)
    BY <1>7, <2>1, Zenon
  <2>2. ASSUME NEW n \in 1 .. l, list[n] = r
        PROVE  \E k \in 1 .. l + m : both[k] = r
    BY <1>8, <2>2, Zenon
  <2>3. ASSUME NEW n \in 1 .. m, s[n] = r
        PROVE  \E k \in 1 .. l + m : both[k] = r
    BY <1>8, <2>3, Zenon
  <2>. QED  BY <2>1, <2>2, <2>3, Zenon
<1>10. \A n \in 1 .. m : \E i \in Part(c) : s[n] = Result(a, key, i)
  <2> SUFFICES ASSUME NEW n \in 1 .. m PROVE \E i \in Part(c) : s[n] = Result(a, key, i)
    OBVIOUS
  <2>1. PICK i : Same(a, key, i, Len(key)) /\ s[n] = Result(a, key, i)
    BY <1>4, <1>6 DEF Listed
  <2>2. i \in 0 .. Len(a.array) - 1
    BY <2>1 DEF Same
  <2>3. Reported(a, key, s, i)
    BY <1>6, <2>1 DEF Reported
  <2>. QED  BY <1>4, <2>1, <2>2, <2>3
<1>11. Listed(a, key, both)
  <2>1. \A n \in DOMAIN both : \E i : Same(a, key, i, Len(key)) /\ both[n] = Result(a, key, i)
    <3>1. /\ \A n \in 1 .. l : \E i : Same(a, key, i, Len(key)) /\ list[n] = Result(a, key, i)
          /\ \A n \in 1 .. m : \E i : Same(a, key, i, Len(key)) /\ s[n] = Result(a, key, i)
      BY <1>4, <1>6, Zenon DEF Listed
    <3>2. ASSUME NEW n \in 1 .. l + m
          PROVE  \E i : Same(a, key, i, Len(key)) /\ both[n] = Result(a, key, i)
      <4>1. CASE n \in 1 .. l /\ both[n] = list[n]
        BY <3>1, <4>1, Zenon
      <4>2. CASE n - l \in 1 .. m /\ both[n] = s[n - l]
        BY <3>1, <4>2, Zenon
      <4>. QED  BY <1>7, <4>1, <4>2, Zenon
    <3>. QED  BY <1>6, <3>2, Zenon
  <2>2. ASSUME NEW n \in 1 .. l, NEW k \in 1 .. m, list[n] = s[k]
        PROVE  FALSE
    <3>1. PICK i \in Part(c) : s[k] = Result(a, key, i)
      BY <1>10
    <3>2. Reported(a, key, list, i)
      BY <1>6, <2>2, <3>1 DEF Reported
    <3>3. Held(calls, i)
      BY <1>3
    <3>. QED  BY <3>2, <3>3 DEF Once
  <2>3. ASSUME NEW n \in 1 .. l + m, NEW k \in 1 .. l + m, both[n] = both[k]
        PROVE  n = k
    <3>1. CASE n \in 1 .. l /\ both[n] = list[n] /\ k \in 1 .. l /\ both[k] = list[k]
      BY <1>6, <2>3, <3>1 DEF Listed
    <3>2. CASE n \in 1 .. l /\ both[n] = list[n] /\ k - l \in 1 .. m /\ both[k] = s[k - l]
      BY <2>2, <2>3, <3>2
    <3>3. CASE n - l \in 1 .. m /\ both[n] = s[n - l] /\ k \in 1 .. l /\ both[k] = list[k]
      BY <2>2, <2>3, <3>3
    <3>4. CASE n - l \in 1 .. m /\ both[n] = s[n - l] /\ k - l \in 1 .. m /\ both[k] = s[k - l]
      <4>1. s[n - l] = s[k - l]
        BY <2>3, <3>4
      <4>2. n - l = k - l
        BY <1>4, <1>6, <3>4, <4>1 DEF Listed
      <4>. QED  BY <4>2
    <3>. QED  BY <1>7, <3>1, <3>2, <3>3, <3>4, Zenon
  <2>4. both \in Seq([value : Nat, len : Nat])
    BY <1>6 DEF X
  <2>. QED  BY <1>6, <2>1, <2>3, <2>4 DEF Listed
<1>12. Once(a, key, rest, both)
  <2>1. ASSUME NEW i, Held(rest, i)
        PROVE  ~ Reported(a, key, both, i)
    <3>1. Held(calls, i) /\ i \notin Part(c)
      BY <1>3, <2>1
    <3>2. ~ Reported(a, key, list, i)
      BY <3>1 DEF Once
    <3>3. i \in 0 .. Len(a.array) - 1
      <4>1. PICK n \in DOMAIN rest : i \in Part(rest[n])
        BY <2>1 DEF Held
      <4>2. rest[n] \in CaseCalls(a, key)
        BY <1>3, LenProperties, ElementOfSeq
      <4>3. rest[n] \in SoundCalls(a)
        BY <4>2 DEF CaseCalls
      <4>. QED  BY <4>1, <4>3, PlacesInIndex
    <3>. QED  BY <1>4, <1>9, <3>1, <3>2, <3>3
  <2>. QED  BY <1>3, <2>1 DEF Once
<1>13. Complete(a, key, rest, both)
  <2> SUFFICES ASSUME NEW i, Same(a, key, i, Len(key))
               PROVE  Held(rest, i) \/ Reported(a, key, both, i)
    BY DEF Complete
  <2>1. i \in 0 .. Len(a.array) - 1
    BY DEF Same
  <2>2. Held(calls, i) \/ Reported(a, key, list, i)
    BY DEF Complete
  <2>. QED  BY <1>3, <1>4, <1>9, <2>1, <2>2
<1>. QED  BY <1>1, <1>6, <1>11, <1>12, <1>13

(* The calls of the search of a keyword, one action after the other.       *)
AtPiece(a, key, c, k) ==
  /\ c \in SoundCalls(a) /\ c.key # <<>> /\ Matched(a, key, c, k)
  /\ c.key = Rest(key, k) /\ k \in Nat /\ k < Len(key)

LEMMA CaseHead ==
  ASSUME RegexInv, CaseInv, asked.mode = "ignore_case", todo # <<>>, Len(Head1.key) > 0
  PROVE  \E k : AtPiece(ary, asked.key, Head1, k)
<1>1. PICK key \in Seq(Byte) : key = asked.key
  BY RequestsAssumption DEF RegexInv
<1>2. PICK c \in CaseCalls(ary, key) : c = Head1
  <2>1. todo \in Seq(CaseCalls(ary, key))
    BY <1>1 DEF CaseInv, Once
  <2>. QED  BY <2>1, HeadAndTail DEF Head1
<1>3. PICK k \in 0 .. Len(key) : Matched(ary, key, c, k) /\ c.key = Rest(key, k)
  BY DEF CaseCalls
<1>4. c \in SoundCalls(ary) /\ c.key # <<>>
  BY <1>2, HeadSound
<1>5. Len(key) \in Nat
  BY LenProperties
<1>6. k \in Nat /\ k < Len(key)
  <2>1. k # Len(key)
    <3> SUFFICES ASSUME k = Len(key) PROVE FALSE
      OBVIOUS
    <3>1. Rest(key, k) = <<>>
      BY <1>5, RestIs
    <3>. QED  BY <1>3, <1>4, <3>1
  <2>. QED  BY <1>5, <2>1
<1>. QED  BY <1>1, <1>2, <1>3, <1>4, <1>6, Zenon DEF AtPiece

LEMMA PieceFirst ==
  ASSUME NEW key \in Seq(Byte), NEW k \in Nat, k < Len(key), NEW b, b = key[k + 1],
         NEW rest, rest = Rest(key, k)
  PROVE  \/ /\ Letter(b) /\ KeyByte(rest, 0) = LBRACKET
         \/ /\ ~ Letter(b) /\ b \in Special
            /\ KeyByte(rest, 0) = ESCAPE_CHAR /\ rest[1] = ESCAPE_CHAR
         \/ /\ ~ Letter(b) /\ b \notin Special
            /\ KeyByte(rest, 0) = b /\ rest[1] = b
<1>1. CASE Letter(b)
  BY <1>1, RestOfLetter
<1>2. CASE ~ Letter(b) /\ b \in Special
  BY <1>2, RestOfSpecial
<1>3. CASE ~ Letter(b) /\ b \notin Special
  <2>1. /\ KeyByte(rest, 0) = b /\ rest[1] = b
        /\ SubSeq(rest, 1, 1) = <<b>> /\ rest = <<b>> \o Rest(key, k + 1)
        /\ KeyByte(rest, 1) = KeyByte(Rest(key, k + 1), 0)
        /\ Drop(rest, 1) = Rest(key, k + 1) /\ KeyByte(rest, 1) # QUESTION
    BY <1>3, RestOfOther
  <2>. QED  BY <1>3, <2>1, Zenon
<1>. QED  BY <1>1, <1>2, <1>3, Zenon

LEMMA CaseMakeKeeps ==
  ASSUME RegexInv, CaseInv, asked.mode = "ignore_case", pc = "run", todo # <<>>,
         NEW calls, Make(calls), Narrowed(ary, asked.key, Head1, calls)
  PROVE  CaseInv'
<1>1. PICK key \in Seq(Byte) : key = asked.key
  BY RequestsAssumption DEF RegexInv
<1>2. /\ todo' = calls \o Tail(todo) /\ ary' = ary /\ asked' = asked
      /\ pc' = pc /\ results' = results
  BY DEF Make
<1>3. /\ Once(ary, key, todo, results) /\ Complete(ary, key, todo, results)
      /\ Listed(ary, key, results)
  BY <1>1 DEF CaseInv
<1>4. /\ Once(ary, key, calls \o Tail(todo), results)
      /\ Complete(ary, key, calls \o Tail(todo), results)
  <2>1. IndexOK(ary) /\ Narrowed(ary, key, todo[1], calls)
    BY <1>1 DEF RegexInv, Head1
  <2>. QED  BY <1>3, <2>1, NarrowKeeps
<1>. QED  BY <1>1, <1>2, <1>3, <1>4, Zenon DEF CaseInv

LEMMA CaseMatchClass ==
  ASSUME RegexInv, CaseInv, asked.mode = "ignore_case", MatchClass
  PROVE  CaseInv'
<1>0. PICK a : a = ary /\ IndexOK(a)
  BY DEF RegexInv
<1>1. pc = "run" /\ todo # <<>> /\ Len(Head1.key) > 0 /\ KeyByte(Head1.key, 0) = LBRACKET
  BY DEF MatchClass, Next1
<1>2. PICK key \in Seq(Byte) : key = asked.key
  BY RequestsAssumption DEF RegexInv
<1>3. PICK c : c = Head1
  OBVIOUS
<1>4. PICK k : AtPiece(a, key, c, k)
  BY <1>0, <1>1, <1>2, <1>3, CaseHead
<1>5. PICK b : b = key[k + 1]
  OBVIOUS
<1>6. Letter(b)
  <2>1. LBRACKET \in Special /\ LBRACKET # ESCAPE_CHAR
    BY DEF Special, LBRACKET, ESCAPE_CHAR
  <2>. QED  BY <1>1, <1>3, <1>4, <1>5, <2>1, PieceFirst DEF AtPiece
<1>7. ClassEnd(c.key) = 3 /\ KeyByte(c.key, 3) = RBRACKET
  BY <1>4, <1>5, <1>6, RestOfLetter DEF AtPiece
<1>8. Narrowed(a, key, c, GoOn(c, BitVectorSearch(c, CharacterClass(c.key)), 4))
  BY <1>0, <1>2, <1>4, <1>5, <1>6, NarrowsByLetter DEF AtPiece
<1>9. Make(GoOn(c, BitVectorSearch(c, CharacterClass(c.key)), 4))
  <2>1. Make(GoOn(c, BitVectorSearch(c, CharacterClass(c.key)), 3 + 1))
    BY <1>3, <1>7 DEF MatchClass
  <2>2. 3 + 1 = 4
    OBVIOUS
  <2>. QED  BY <2>1, <2>2
<1>. QED  BY <1>0, <1>1, <1>2, <1>3, <1>8, <1>9, CaseMakeKeeps

LEMMA CaseMatchOneChar ==
  ASSUME RegexInv, CaseInv, asked.mode = "ignore_case", MatchOneChar
  PROVE  CaseInv'
<1>0. PICK a : a = ary /\ IndexOK(a)
  BY DEF RegexInv
<1>1. /\ pc = "run" /\ todo # <<>> /\ Len(Head1.key) > 0
      /\ KeyByte(Head1.key, 0) \notin {DOT, LBRACKET, QUESTION, LPAREN}
  BY DEF MatchOneChar
<1>2. PICK key \in Seq(Byte) : key = asked.key
  BY RequestsAssumption DEF RegexInv
<1>3. PICK c : c = Head1
  OBVIOUS
<1>4. PICK k : AtPiece(a, key, c, k)
  BY <1>0, <1>1, <1>2, <1>3, CaseHead
<1>5. PICK b : b = key[k + 1]
  OBVIOUS
<1>6. PICK escape, n :
        /\ escape = Escaped(c.key)
        /\ n = IF MSB_ON(c.key[1]) /\ Len(c.key) > 1 /\ MSB_ON(KeyByte(c.key, 1))
               THEN 2 ELSE 1
  OBVIOUS
<1>7. /\ c.key[1] = ESCAPE_CHAR => Make(GoOn(c, Find(c, <<escape.dcc>>), escape.key_skip))
      /\ c.key[1] # ESCAPE_CHAR => Make(GoOn(c, Find(c, SubSeq(c.key, 1, n)), n))
  BY <1>3, <1>6 DEF MatchOneChar
<1>8. ~ Letter(b) /\ (b \in Special <=> c.key[1] = ESCAPE_CHAR)
  <2>1. ESCAPE_CHAR \in Special
    BY DEF Special
  <2>2. KeyByte(c.key, 0) # LBRACKET
    BY <1>1, <1>3
  <2>. QED  BY <1>4, <1>5, <2>1, <2>2, PieceFirst DEF AtPiece
<1>9. CASE c.key[1] = ESCAPE_CHAR
  <2>1. Narrowed(a, key, c, GoOn(c, Find(c, <<escape.dcc>>), escape.key_skip))
    BY <1>0, <1>2, <1>4, <1>5, <1>6, <1>8, <1>9, NarrowsByEscape DEF AtPiece
  <2>. QED  BY <1>0, <1>1, <1>2, <1>3, <1>7, <1>9, <2>1, CaseMakeKeeps
<1>10. CASE c.key[1] # ESCAPE_CHAR
  <2>1. Narrowed(a, key, c, GoOn(c, Find(c, SubSeq(c.key, 1, n)), n))
    BY <1>0, <1>2, <1>4, <1>5, <1>6, <1>8, <1>10, NarrowsByByte DEF AtPiece
  <2>. QED  BY <1>0, <1>1, <1>2, <1>3, <1>7, <1>10, <2>1, CaseMakeKeeps
<1>. QED  BY <1>9, <1>10

(* A keyword holds no wild card, no alternation and no optional item.      *)
LEMMA CaseNever ==
  ASSUME RegexInv, CaseInv, asked.mode = "ignore_case"
  PROVE  ~ MatchWildCard /\ ~ SkipQuestion /\ ~ MatchAlternation
<1> SUFFICES ASSUME MatchWildCard \/ SkipQuestion \/ MatchAlternation
             PROVE  FALSE
  OBVIOUS
<1>1. /\ todo # <<>> /\ Len(Head1.key) > 0
      /\ KeyByte(Head1.key, 0) \in {DOT, QUESTION, LPAREN}
  BY DEF MatchWildCard, SkipQuestion, MatchAlternation, Next1
<1>2. PICK key \in Seq(Byte) : key = asked.key
  BY RequestsAssumption DEF RegexInv
<1>3. PICK k : AtPiece(ary, key, Head1, k)
  BY <1>1, <1>2, CaseHead
<1>4. /\ {DOT, QUESTION, LPAREN} \subseteq Special
      /\ LBRACKET \notin {DOT, QUESTION, LPAREN} /\ ESCAPE_CHAR \notin {DOT, QUESTION, LPAREN}
  BY DEF Special, DOT, QUESTION, LPAREN, LBRACKET, ESCAPE_CHAR
<1>5. PICK b : b = key[k + 1]
  OBVIOUS
<1>. QED  BY <1>1, <1>3, <1>4, <1>5, PieceFirst DEF AtPiece

LEMMA CaseStoreResult ==
  ASSUME RegexInv, CaseInv, asked.mode = "ignore_case", StoreResult
  PROVE  CaseInv'
<1>1. PICK key \in Seq(Byte) : key = asked.key
  BY RequestsAssumption DEF RegexInv
<1>2. /\ pc = "run" /\ todo # <<>> /\ todo[1].key = <<>>
      /\ todo' = Tail(todo) /\ ary' = ary /\ asked' = asked /\ pc' = pc
      /\ results' = results \o Stored(ary, todo[1])
  BY DEF StoreResult, Stored, Head1
<1>3. /\ Once(ary, key, todo, results) /\ Complete(ary, key, todo, results)
      /\ Listed(ary, key, results)
  BY <1>1, <1>2 DEF CaseInv
<1>4. /\ Listed(ary, key, results \o Stored(ary, todo[1]))
      /\ Once(ary, key, Tail(todo), results \o Stored(ary, todo[1]))
      /\ Complete(ary, key, Tail(todo), results \o Stored(ary, todo[1]))
  <2>1. IndexOK(ary)
    BY DEF RegexInv
  <2>. QED  BY <1>2, <1>3, <2>1, StoreKeeps
<1>. QED  BY <1>1, <1>2, <1>4, Zenon DEF CaseInv

LEMMA CaseReturn ==
  ASSUME RegexInv, CaseInv, asked.mode = "ignore_case", Return
  PROVE  CaseInv'
BY DEF Return, CaseInv

LEMMA CaseCall ==
  ASSUME RegexInv, CaseInv, asked.mode = "ignore_case", Call
  PROVE  CaseInv'
<1>1. PICK key \in Seq(Byte) : key = asked.key
  BY RequestsAssumption DEF RegexInv
<1>2. PICK a : a = ary /\ IndexOK(a)
  BY DEF RegexInv
<1>3. PICK c : c = [left |-> 0, right |-> Len(ary.array) - 1, txt_skip |-> 0,
                    key |-> KeySearched(asked)]
  OBVIOUS
<1>4. /\ todo' = <<c>> /\ ary' = ary /\ asked' = asked /\ pc' = "run"
      /\ results' = results /\ results = <<>>
  BY <1>3 DEF Call, CaseInv
<1>5. c \in SoundCalls(a)
  <2>1. RegexInv'
    BY CallKeeps
  <2>2. todo' \in Seq(SoundCalls(a))
    <3>1. todo' \in Seq(SoundCalls(ary'))
      BY <2>1 DEF RegexInv
    <3>. QED  BY <1>2, <1>4, <3>1
  <2>3. Len(<<c>>) = 1 /\ <<c>>[1] = c
    OBVIOUS
  <2>4. 1 \in 1 .. Len(<<c>>)
    BY <2>3
  <2>5. <<c>>[1] \in SoundCalls(a)
    BY <1>4, <2>2, <2>4, ElementOfSeq
  <2>. QED  BY <2>3, <2>5
<1>6. Part(c) = 0 .. Len(a.array) - 1
  BY <1>2, <1>3 DEF Part
<1>7. Len(key) \in Nat /\ 0 \in 0 .. Len(key)
  BY LenProperties
<1>8. c.txt_skip = 0 /\ c.key = Rest(key, 0)
  <2>1. c.txt_skip = 0 /\ c.key = ExpandIgnoreCase(key)
    BY <1>1, <1>3 DEF KeySearched
  <2>2. Drop(key, 0) = key
    <3>1. SubSeq(key, 1, Len(key)) = key
      BY SubSeqFull
    <3>. QED  BY <3>1 DEF Drop
  <2>. QED  BY <2>1, <2>2, Zenon DEF Rest
<1>9. Matched(a, key, c, 0)
  <2> SUFFICES ASSUME NEW i \in Part(c) PROVE Same(a, key, i, 0)
    BY <1>8 DEF Matched
  <2>1. i \in 0 .. Len(a.array) - 1 /\ AryIdx2TxtIdx(a, i) + c.txt_skip <= Len(a.text)
    BY <1>2, <1>5, PlacesInIndex
  <2>2. \A j : j \notin 1 .. 0
    OBVIOUS
  <2>. QED  BY <1>8, <2>1, <2>2, Zenon DEF Same
<1>10. c \in CaseCalls(a, key)
  BY <1>5, <1>7, <1>8, <1>9 DEF CaseCalls
<1>11. DOMAIN <<c>> = {1} /\ <<c>>[1] = c
  OBVIOUS
<1>12. <<c>> \in Seq(CaseCalls(a, key))
  BY <1>10
<1>13. DOMAIN <<>> = {} /\ <<>> \in Seq([value : Nat, len : Nat])
  OBVIOUS
<1>14. Listed(a, key, <<>>) /\ \A i : ~ Reported(a, key, <<>>, i)
  BY <1>13, Zenon DEF Listed, Reported
<1>15. Once(a, key, <<c>>, <<>>)
  BY <1>11, <1>12, <1>14 DEF Once, Apart
<1>16. Complete(a, key, <<c>>, <<>>)
  BY <1>6, <1>11 DEF Complete, Held, Same
<1>. QED  BY <1>1, <1>2, <1>4, <1>14, <1>15, <1>16, Zenon DEF CaseInv

LEMMA CaseNext ==
  ASSUME RegexInv, CaseInv, [Next]_vars
  PROVE  CaseInv'
<1>1. CASE asked.mode # "ignore_case"
  <2>1. asked' = asked
    BY DEF Next, vars, Call, StoreResult, MatchWildCard, MatchClass, SkipQuestion,
       MatchAlternation, MatchOneChar, Return, Make, ParseError
  <2>. QED  BY <1>1, <2>1 DEF CaseInv
<1>2. CASE asked.mode = "ignore_case" /\ UNCHANGED vars
  BY <1>2 DEF CaseInv, vars
<1>3. CASE asked.mode = "ignore_case" /\ Next
  BY <1>3, CaseCall, CaseStoreResult, CaseMatchClass, CaseMatchOneChar, CaseReturn,
     CaseNever DEF Next
<1>. QED  BY <1>1, <1>2, <1>3

LEMMA CaseInit == Init => CaseInv
<1> SUFFICES ASSUME Init PROVE CaseInv
  OBVIOUS
<1>1. pc = "called" /\ todo = <<>> /\ results = <<>>
  BY DEF Init
<1>2. DOMAIN <<>> = {} /\ <<>> \in Seq([value : Nat, len : Nat])
      /\ <<>> \in Seq(CaseCalls(ary, asked.key))
  OBVIOUS
<1>3. Listed(ary, asked.key, <<>>) /\ Once(ary, asked.key, <<>>, <<>>)
  BY <1>2, Zenon DEF Listed, Once, Apart, Held, Reported
<1>. QED  BY <1>1, <1>3, Zenon DEF CaseInv

(* At the end every place that matches is reported, and by one result.     *)
LEMMA CaseExact == RegexInv /\ CaseInv => IgnoreCaseExact
<1> SUFFICES ASSUME RegexInv, CaseInv, pc = "done", asked.mode = "ignore_case",
                    NEW i \in 0 .. Len(ary.array) - 1, NEW len \in 0 .. Len(ary.text),
                    NEW p, p = AryIdx2TxtIdx(ary, i)
             PROVE  ResultCount(p, len)
                      = IF /\ len = Len(asked.key) /\ p + len <= Len(ary.text)
                           /\ \A k \in 1 .. len :
                                ToLower(ary.text[p + k]) = ToLower(asked.key[k])
                        THEN 1 ELSE 0
  BY DEF IgnoreCaseExact
<1> DEFINE same == /\ len = Len(asked.key) /\ p + len <= Len(ary.text)
                   /\ \A k \in 1 .. len :
                        ToLower(ary.text[p + k]) = ToLower(asked.key[k])
           D == {n \in DOMAIN results : results[n] = [value |-> p, len |-> len]}
<1>1. /\ Listed(ary, asked.key, results) /\ Complete(ary, asked.key, <<>>, results)
  <2>1. pc # "called"
    OBVIOUS
  <2>. QED  BY <2>1 DEF CaseInv
<1>2. same <=> len = Len(asked.key) /\ Same(ary, asked.key, i, Len(asked.key))
  BY DEF Same
<1>3. CASE same
  <2>1. ~ Held(<<>>, i)
    BY DEF Held
  <2>2. Reported(ary, asked.key, results, i)
    BY <1>1, <1>2, <1>3, <2>1 DEF Complete
  <2>3. PICK n \in DOMAIN results : results[n] = [value |-> p, len |-> len]
    BY <1>2, <1>3, <2>2 DEF Reported, Result
  <2>4. D = {n}
    BY <1>1, <2>3 DEF Listed
  <2>5. Cardinality({n}) = 1
    BY FS_Singleton
  <2> HIDE DEF D
  <2>6. Cardinality(D) = 1
    BY <2>4, <2>5
  <2>. QED  BY <1>3, <2>6 DEF ResultCount, D
<1>4. CASE ~ same
  <2>1. ASSUME NEW n \in DOMAIN results, results[n] = [value |-> p, len |-> len]
        PROVE  FALSE
    <3>1. PICK j : /\ Same(ary, asked.key, j, Len(asked.key))
                   /\ results[n] = Result(ary, asked.key, j)
      BY <1>1 DEF Listed
    <3>2. AryIdx2TxtIdx(ary, j) = p /\ len = Len(asked.key)
      BY <2>1, <3>1 DEF Result
    <3>3. same
      BY <3>1, <3>2 DEF Same
    <3>. QED  BY <1>4, <3>3
  <2>2. D = {}
    BY <2>1
  <2>3. Cardinality({}) = 0
    BY FS_EmptySet
  <2> HIDE DEF D
  <2>4. Cardinality(D) = 0
    BY <2>2, <2>3
  <2>. QED  BY <1>4, <2>4 DEF ResultCount, D
<1>. QED  BY <1>3, <1>4

(* Whatever bytes the keyword holds, sa_ignore_case finds each index point *)
(* where the text is the keyword but for the case of ASCII letters, once,  *)
(* and nothing else.                                                       *)
THEOREM IgnoreCaseCorrect == Spec => []IgnoreCaseExact
<1>1. RegexInv /\ CaseInv /\ [Next]_vars => RegexInv' /\ CaseInv'
  BY NextKeeps, CaseNext
<1>2. Init => RegexInv /\ CaseInv
  BY InitInv, CaseInit
<1>. QED  BY <1>1, <1>2, CaseExact, PTL DEF Spec
=============================================================================
