---------------------------- MODULE SearchProofs ----------------------------
(***************************************************************************)
(* Proofs about Search: the order of the array carries the comparisons     *)
(* made at a few entries over to all others (the lemmas), and with that    *)
(* every step of sa_find and sa_bsearch keeps IInv; then what follows from *)
(* it: the soundness of the skipped bytes, the bounds of every read, the   *)
(* assertions of the C code, and that sa_find implements FindSpec.         *)
(***************************************************************************)
EXTENDS SearchInv, TLAPS

(* An open index and a call its caller may make.                           *)
CallType == [key : Seq(1 .. 255), left : Nat, right : Nat, base_txt_skip : Nat]

GoodCall(a, c) ==
  /\ IndexOK(a)
  /\ c \in CallType
  /\ Abstract!CallOK(a, c.left, c.right, c.base_txt_skip)

-----------------------------------------------------------------------------
(* Facts about bytes                                                       *)

LEMMA ElementType ==
  ASSUME NEW S, NEW s \in Seq(S), NEW i \in 1 .. Len(s)
  PROVE  s[i] \in S
OBVIOUS

(* A read at any offset yields a byte, and 0 behind the end of the text.   *)
LEMMA CharType ==
  ASSUME NEW a, a.text \in Seq(Byte), NEW p \in Nat
  PROVE  /\ Char(a, p) \in Byte
         /\ p >= Len(a.text) => Char(a, p) = 0
<1>1. CASE p < Len(a.text)
  <2>1. p + 1 \in 1 .. Len(a.text)
    BY <1>1
  <2>2. a.text[p + 1] \in Byte
    BY <2>1, ElementType
  <2>3. QED BY <1>1, <2>2 DEF Char
<1>2. CASE ~(p < Len(a.text))
  BY <1>2 DEF Char, Byte
<1>3. QED BY <1>1, <1>2

LEMMA EntryPlace ==
  ASSUME NEW a, NEW c, GoodCall(a, c), NEW i \in c.left .. c.right
  PROVE  /\ c.left \in Nat /\ c.right \in Nat /\ c.base_txt_skip \in Nat
         /\ Length(c) \in Nat /\ Len(a.text) \in Nat
         /\ i \in 0 .. Len(a.array) - 1
         /\ AryIdx2TxtIdx(a, i) \in Nat
         /\ AryIdx2TxtIdx(a, i) + c.base_txt_skip <= Len(a.text)
<1>1. /\ c.left \in Nat /\ c.right \in Nat /\ c.base_txt_skip \in Nat
      /\ Length(c) \in Nat
      /\ a.array \in Seq(Nat) /\ a.text \in Seq(Byte)
  BY DEF GoodCall, CallType, IndexOK, Length
<1>2. i \in 0 .. Len(a.array) - 1
  BY <1>1 DEF GoodCall, Abstract!CallOK
<1>3. AryIdx2TxtIdx(a, i) \in Nat
  BY <1>1, <1>2 DEF AryIdx2TxtIdx
<1>4. AryIdx2TxtIdx(a, i) + c.base_txt_skip <= Len(a.text)
  BY DEF GoodCall, Abstract!CallOK, Abstract!AryIdx2TxtIdx, AryIdx2TxtIdx
<1>5. Len(a.text) \in Nat
  BY <1>1
<1>6. QED
  BY <1>1, <1>2, <1>3, <1>4, <1>5

LEMMA EntryType ==
  ASSUME NEW a, NEW c, GoodCall(a, c),
         NEW i \in c.left .. c.right, NEW k \in Nat
  PROVE  /\ EntryChar(a, c, i, k) \in Byte
         /\ EntryChar(a, c, i, k) \in Int
         /\ EntryChar(a, c, i, k)
              = Char(a, AryIdx2TxtIdx(a, i) + c.base_txt_skip + k)
<1>1. AryIdx2TxtIdx(a, i) \in Nat /\ c.base_txt_skip \in Nat
  BY EntryPlace
<1>2. AryIdx2TxtIdx(a, i) + (c.base_txt_skip + k)
        = AryIdx2TxtIdx(a, i) + c.base_txt_skip + k
  BY <1>1
<1>3. EntryChar(a, c, i, k)
        = Char(a, AryIdx2TxtIdx(a, i) + c.base_txt_skip + k)
  BY <1>2 DEF EntryChar, SistringChar
<1>4. AryIdx2TxtIdx(a, i) + c.base_txt_skip + k \in Nat
  BY <1>1
<1>5. a.text \in Seq(Byte)
  BY DEF GoodCall, IndexOK
<1>6. EntryChar(a, c, i, k) \in Byte
  BY <1>3, <1>4, <1>5, CharType
<1>7. QED
  BY <1>3, <1>6 DEF Byte

LEMMA KeyByteType ==
  ASSUME NEW c \in CallType, NEW k \in 0 .. Length(c) - 1
  PROVE  KeyChar(c, k) \in 1 .. 255
<1>1. c.key \in Seq(1 .. 255)
  BY DEF CallType
<1>2. k + 1 \in 1 .. Len(c.key)
  BY <1>1 DEF Length
<1>3. QED BY <1>1, <1>2, ElementType DEF KeyChar

(* The order of the array, seen through the bytes behind the skipped ones: *)
(* two entries agree for a while, then the earlier one has the smaller     *)
(* byte or has come to the end of the text, where it reads 0.              *)
LEMMA EntryOrder ==
  ASSUME NEW a, NEW c, GoodCall(a, c),
         NEW i \in c.left .. c.right, NEW j \in c.left .. c.right, i < j
  PROVE  \E k \in Nat :
           /\ \A m \in 0 .. k - 1 : EntryChar(a, c, i, m) = EntryChar(a, c, j, m)
           /\ \/ EntryChar(a, c, i, k) < EntryChar(a, c, j, k)
              \/ EntryChar(a, c, i, k) = 0
<1> DEFINE p == AryIdx2TxtIdx(a, i)
           q == AryIdx2TxtIdx(a, j)
           s == c.base_txt_skip
           n == Len(a.text)
<1>1. /\ p \in Nat /\ q \in Nat /\ s \in Nat /\ n \in Nat
      /\ p + s <= n /\ a.text \in Seq(Byte)
  BY EntryPlace DEF GoodCall, IndexOK
<1>2. SuffixLess(a, p, q)
  BY EntryPlace DEF GoodCall, IndexOK, Sorted
<1>3. PICK k \in 0 .. n :
        /\ p + k <= n /\ q + k < n
        /\ \A m \in 0 .. k - 1 : Char(a, p + m) = Char(a, q + m)
        /\ p + k = n \/ Char(a, p + k) < Char(a, q + k)
  BY <1>2 DEF SuffixLess
<1>4. k >= s
  <2> SUFFICES ASSUME k < s PROVE FALSE
    BY <1>1
  <2>1. k \in 0 .. s - 1
    BY <1>1
  <2>2. SistringChar(a, i, k) = SistringChar(a, j, k)
    BY <2>1
       DEF GoodCall, Abstract!CallOK, Abstract!SistringChar, SistringChar,
           Abstract!AryIdx2TxtIdx, AryIdx2TxtIdx, Abstract!Char, Char
  <2>3. Char(a, p + k) = Char(a, q + k) /\ Char(a, p + k) \in Byte
    BY <1>1, <2>2, CharType DEF SistringChar
  <2>4. p + k # n
    BY <1>1
  <2>5. Char(a, p + k) < Char(a, q + k)
    BY <1>3, <2>4
  <2>6. Char(a, p + k) \in Int
    BY <2>3 DEF Byte
  <2>7. QED
    BY <2>3, <2>5, <2>6
<1> DEFINE e == k - s
<1>5. e \in Nat /\ s + e = k
  BY <1>1, <1>4
<1>6. \A m \in 0 .. e - 1 : EntryChar(a, c, i, m) = EntryChar(a, c, j, m)
  <2> TAKE m \in 0 .. e - 1
  <2>1. s + m \in 0 .. k - 1 /\ m \in Nat
    BY <1>1, <1>5, SMTT(30)
  <2>2. Char(a, p + (s + m)) = Char(a, q + (s + m))
    BY <1>3, <2>1
  <2>3. QED
    BY <2>2 DEF EntryChar, SistringChar
<1>7. /\ EntryChar(a, c, i, e) = Char(a, p + k)
      /\ EntryChar(a, c, j, e) = Char(a, q + k)
  BY <1>5 DEF EntryChar, SistringChar
<1>8. p + k = n => Char(a, p + k) = 0
  BY <1>1, CharType
<1>9. QED
  BY <1>3, <1>5, <1>6, <1>7, <1>8

-----------------------------------------------------------------------------
(* Facts the order of the array gives                                      *)

(* What lies between two entries that share n bytes with the key shares    *)
(* them too: the reason a probe may skip min(left_prefix_len,              *)
(* right_prefix_len) bytes without looking at them.                        *)
LEMMA Sandwich ==
  ASSUME NEW a, NEW c, GoodCall(a, c),
         NEW x \in c.left .. c.right, NEW i \in c.left .. c.right,
         NEW y \in c.left .. c.right, x <= i, i <= y,
         NEW n \in Nat, n <= Length(c),
         StartsWith(a, c, x, n), StartsWith(a, c, y, n)
  PROVE  StartsWith(a, c, i, n)
<1>0. c.left \in Nat /\ c.right \in Nat /\ Length(c) \in Nat
  BY EntryPlace
<1>1. CASE x = i \/ i = y
  BY <1>1
<1>2. CASE x < i /\ i < y
  <2>1. PICK k \in Nat :
          /\ \A m \in 0 .. k - 1 : EntryChar(a, c, x, m) = EntryChar(a, c, i, m)
          /\ \/ EntryChar(a, c, x, k) < EntryChar(a, c, i, k)
             \/ EntryChar(a, c, x, k) = 0
    BY <1>2, EntryOrder
  <2>2. PICK l \in Nat :
          /\ \A m \in 0 .. l - 1 : EntryChar(a, c, i, m) = EntryChar(a, c, y, m)
          /\ \/ EntryChar(a, c, i, l) < EntryChar(a, c, y, l)
             \/ EntryChar(a, c, i, l) = 0
    BY <1>2, EntryOrder
  <2>3. CASE k >= n
    BY <1>0, <2>1, <2>3 DEF StartsWith
  <2>4. CASE l >= n
    BY <1>0, <2>2, <2>4 DEF StartsWith
  <2>5. CASE k < n /\ l < n
    <3>0. k \in 0 .. Length(c) - 1 /\ l \in 0 .. Length(c) - 1 /\ c \in CallType
      BY <1>0, <2>5 DEF GoodCall
    <3>1. /\ KeyChar(c, k) \in 1 .. 255 /\ KeyChar(c, l) \in 1 .. 255
      BY <3>0, KeyByteType
    <3>2. EntryChar(a, c, x, k) = KeyChar(c, k) /\ EntryChar(a, c, y, l) = KeyChar(c, l)
          /\ EntryChar(a, c, y, k) = KeyChar(c, k) /\ EntryChar(a, c, x, l) = KeyChar(c, l)
      BY <1>0, <2>5 DEF StartsWith
    <3>3. EntryChar(a, c, i, k) \in Byte /\ EntryChar(a, c, i, l) \in Byte
      BY EntryType
    <3>4. EntryChar(a, c, x, k) # 0
      BY <3>1, <3>2
    <3>5. EntryChar(a, c, x, k) < EntryChar(a, c, i, k)
      BY <2>1, <3>4
    <3>6. KeyChar(c, k) < EntryChar(a, c, i, k)
      BY <3>2, <3>5
    <3>7. EntryChar(a, c, i, k) # KeyChar(c, k) /\ EntryChar(a, c, i, k) # 0
      BY <3>1, <3>3, <3>6 DEF Byte
    <3>8. ~(k < l)
      BY <2>2, <3>2, <3>7
    <3>9. k # l
      <4> SUFFICES ASSUME k = l PROVE FALSE
        OBVIOUS
      <4>1. EntryChar(a, c, i, k) < EntryChar(a, c, y, k)
        BY <2>2, <3>7
      <4>2. EntryChar(a, c, i, k) < KeyChar(c, k)
        BY <3>2, <4>1
      <4>3. KeyChar(c, k) \in Int /\ EntryChar(a, c, i, k) \in Int
        BY <3>1, <3>3 DEF Byte
      <4>4. QED
        BY <3>6, <4>2, <4>3
    <3>10. l \in 0 .. k - 1
      BY <3>8, <3>9
    <3>11. EntryChar(a, c, i, l) = KeyChar(c, l)
      BY <2>1, <3>2, <3>10
    <3>12. EntryChar(a, c, i, l) # 0
      BY <3>1, <3>11
    <3>13. EntryChar(a, c, i, l) < EntryChar(a, c, y, l)
      BY <2>2, <3>12
    <3>14. QED
      BY <3>1, <3>2, <3>11, <3>13
  <2>6. QED
    BY <1>0, <2>3, <2>4, <2>5
<1>3. QED
  BY <1>0, <1>1, <1>2

(* An entry before one that is below the key is below it as well.          *)
LEMMA BelowMono ==
  ASSUME NEW a, NEW c, GoodCall(a, c),
         NEW i \in c.left .. c.right, NEW j \in c.left .. c.right, i <= j,
         KeyBelow(a, c, j)
  PROVE  KeyBelow(a, c, i)
<1>1. CASE i = j
  BY <1>1
<1>2. CASE i < j
  <2>1. PICK k \in 0 .. Length(c) - 1 :
          StartsWith(a, c, j, k) /\ EntryChar(a, c, j, k) < KeyChar(c, k)
    BY DEF KeyBelow
  <2>2. PICK m \in Nat :
          /\ \A x \in 0 .. m - 1 : EntryChar(a, c, i, x) = EntryChar(a, c, j, x)
          /\ \/ EntryChar(a, c, i, m) < EntryChar(a, c, j, m)
             \/ EntryChar(a, c, i, m) = 0
    BY <1>2, EntryOrder
  <2>3. Length(c) \in Nat /\ k \in Nat /\ k < Length(c)
    BY EntryPlace
  <2>4. CASE k < m
    <3>1. StartsWith(a, c, i, k)
      BY <2>1, <2>2, <2>3, <2>4 DEF StartsWith
    <3>2. EntryChar(a, c, i, k) < KeyChar(c, k)
      BY <2>1, <2>2, <2>3, <2>4
    <3>3. QED
      BY <3>1, <3>2 DEF KeyBelow
  <2>5. CASE m <= k
    <3>1. StartsWith(a, c, i, m)
      BY <2>1, <2>2, <2>3, <2>5 DEF StartsWith
    <3>2. m \in 0 .. Length(c) - 1
      BY <2>3, <2>5
    <3>3. KeyChar(c, m) \in 1 .. 255
      BY <3>2, KeyByteType DEF GoodCall
    <3>4. EntryChar(a, c, i, m) \in Int /\ EntryChar(a, c, j, m) \in Int
      BY EntryType
    <3>5. EntryChar(a, c, j, m) <= KeyChar(c, m)
      <4>1. CASE m = k
        BY <4>1, <2>1, <3>3, <3>4
      <4>2. CASE m < k
        <5>1. EntryChar(a, c, j, m) = KeyChar(c, m)
          BY <2>1, <2>3, <4>2 DEF StartsWith
        <5>2. QED BY <3>3, <5>1
      <4>3. QED BY <2>3, <2>5, <4>1, <4>2
    <3>6. EntryChar(a, c, i, m) < KeyChar(c, m)
      BY <2>2, <3>3, <3>4, <3>5
    <3>7. QED
      BY <3>1, <3>2, <3>6 DEF KeyBelow
  <2>6. QED BY <2>3, <2>4, <2>5
<1>3. c.left \in Nat /\ c.right \in Nat
  BY EntryPlace
<1>4. QED BY <1>1, <1>2, <1>3

(* An entry before one that is below the key or starts with it is such an  *)
(* entry too.                                                              *)
LEMMA NotAboveMono ==
  ASSUME NEW a, NEW c, GoodCall(a, c),
         NEW i \in c.left .. c.right, NEW j \in c.left .. c.right, i <= j,
         NotAbove(a, c, j)
  PROVE  NotAbove(a, c, i)
<1>1. CASE i = j
  BY <1>1
<1>2. CASE KeyBelow(a, c, j)
  BY <1>2, BelowMono DEF NotAbove
<1>3. CASE i < j /\ StartsWith(a, c, j, Length(c))
  <2>1. PICK m \in Nat :
          /\ \A x \in 0 .. m - 1 : EntryChar(a, c, i, x) = EntryChar(a, c, j, x)
          /\ \/ EntryChar(a, c, i, m) < EntryChar(a, c, j, m)
             \/ EntryChar(a, c, i, m) = 0
    BY <1>3, EntryOrder
  <2>2. Length(c) \in Nat
    BY EntryPlace
  <2>3. CASE Length(c) <= m
    <3>1. StartsWith(a, c, i, Length(c))
      BY <1>3, <2>1, <2>2, <2>3 DEF StartsWith
    <3>2. QED BY <3>1 DEF NotAbove
  <2>4. CASE m < Length(c)
    <3>1. StartsWith(a, c, i, m)
      BY <1>3, <2>1, <2>2, <2>4 DEF StartsWith
    <3>2. m \in 0 .. Length(c) - 1
      BY <2>2, <2>4
    <3>3. KeyChar(c, m) \in 1 .. 255
      BY <3>2, KeyByteType DEF GoodCall
    <3>4. EntryChar(a, c, j, m) = KeyChar(c, m)
      BY <1>3, <3>2 DEF StartsWith
    <3>5. EntryChar(a, c, i, m) < KeyChar(c, m)
      BY <2>1, <3>3, <3>4
    <3>6. QED
      BY <3>1, <3>2, <3>5 DEF KeyBelow, NotAbove
  <2>5. QED BY <2>2, <2>3, <2>4
<1>4. c.left \in Nat /\ c.right \in Nat
  BY EntryPlace
<1>5. QED BY <1>1, <1>2, <1>3, <1>4 DEF NotAbove

(* An entry behind one that is above the key is above it as well.          *)
LEMMA AboveMono ==
  ASSUME NEW a, NEW c, GoodCall(a, c),
         NEW i \in c.left .. c.right, NEW j \in c.left .. c.right, i <= j,
         KeyAbove(a, c, i)
  PROVE  KeyAbove(a, c, j)
<1>1. CASE i = j
  BY <1>1
<1>2. CASE i < j
  <2>1. PICK k \in 0 .. Length(c) - 1 :
          StartsWith(a, c, i, k) /\ EntryChar(a, c, i, k) > KeyChar(c, k)
    BY DEF KeyAbove
  <2>2. PICK m \in Nat :
          /\ \A x \in 0 .. m - 1 : EntryChar(a, c, i, x) = EntryChar(a, c, j, x)
          /\ \/ EntryChar(a, c, i, m) < EntryChar(a, c, j, m)
             \/ EntryChar(a, c, i, m) = 0
    BY <1>2, EntryOrder
  <2>3. Length(c) \in Nat /\ k \in Nat /\ k < Length(c)
    BY EntryPlace
  <2>4. CASE k < m
    <3>1. StartsWith(a, c, j, k)
      BY <2>1, <2>2, <2>3, <2>4 DEF StartsWith
    <3>2. EntryChar(a, c, j, k) > KeyChar(c, k)
      BY <2>1, <2>2, <2>3, <2>4
    <3>3. QED
      BY <3>1, <3>2 DEF KeyAbove
  <2>5. CASE m <= k
    <3>1. StartsWith(a, c, j, m)
      BY <2>1, <2>2, <2>3, <2>5 DEF StartsWith
    <3>2. m \in 0 .. Length(c) - 1
      BY <2>3, <2>5
    <3>3. KeyChar(c, m) \in 1 .. 255
      BY <3>2, KeyByteType DEF GoodCall
    <3>4. EntryChar(a, c, i, m) \in Int /\ EntryChar(a, c, j, m) \in Int
      BY EntryType
    <3>5. EntryChar(a, c, i, m) >= KeyChar(c, m)
      <4>1. CASE m = k
        BY <4>1, <2>1, <3>3, <3>4
      <4>2. CASE m < k
        <5>1. EntryChar(a, c, i, m) = KeyChar(c, m)
          BY <2>1, <2>3, <4>2 DEF StartsWith
        <5>2. QED BY <3>3, <5>1
      <4>3. QED BY <2>3, <2>5, <4>1, <4>2
    <3>6. EntryChar(a, c, j, m) > KeyChar(c, m)
      BY <2>2, <3>3, <3>4, <3>5
    <3>7. QED
      BY <3>1, <3>2, <3>6 DEF KeyAbove
  <2>6. QED BY <2>3, <2>4, <2>5
<1>3. c.left \in Nat /\ c.right \in Nat
  BY EntryPlace
<1>4. QED BY <1>1, <1>2, <1>3

(* An entry behind one that starts with the key or is above it is such an  *)
(* entry too.                                                              *)
LEMMA NotBelowMono ==
  ASSUME NEW a, NEW c, GoodCall(a, c),
         NEW i \in c.left .. c.right, NEW j \in c.left .. c.right, i <= j,
         NotBelow(a, c, i)
  PROVE  NotBelow(a, c, j)
<1>1. CASE i = j
  BY <1>1
<1>2. CASE KeyAbove(a, c, i)
  BY <1>2, AboveMono DEF NotBelow
<1>3. CASE i < j /\ StartsWith(a, c, i, Length(c))
  <2>1. PICK m \in Nat :
          /\ \A x \in 0 .. m - 1 : EntryChar(a, c, i, x) = EntryChar(a, c, j, x)
          /\ \/ EntryChar(a, c, i, m) < EntryChar(a, c, j, m)
             \/ EntryChar(a, c, i, m) = 0
    BY <1>3, EntryOrder
  <2>2. Length(c) \in Nat
    BY EntryPlace
  <2>3. CASE Length(c) <= m
    <3>1. StartsWith(a, c, j, Length(c))
      BY <1>3, <2>1, <2>2, <2>3 DEF StartsWith
    <3>2. QED BY <3>1 DEF NotBelow
  <2>4. CASE m < Length(c)
    <3>1. StartsWith(a, c, j, m)
      BY <1>3, <2>1, <2>2, <2>4 DEF StartsWith
    <3>2. m \in 0 .. Length(c) - 1
      BY <2>2, <2>4
    <3>3. KeyChar(c, m) \in 1 .. 255
      BY <3>2, KeyByteType DEF GoodCall
    <3>4. EntryChar(a, c, i, m) = KeyChar(c, m)
      BY <1>3, <3>2 DEF StartsWith
    <3>5. EntryChar(a, c, j, m) \in Int
      BY EntryType
    <3>6. EntryChar(a, c, j, m) > KeyChar(c, m)
      BY <2>1, <3>3, <3>4, <3>5
    <3>7. QED
      BY <3>1, <3>2, <3>6 DEF KeyAbove, NotBelow
  <2>5. QED BY <2>2, <2>3, <2>4
<1>4. c.left \in Nat /\ c.right \in Nat
  BY EntryPlace
<1>5. QED BY <1>1, <1>2, <1>3, <1>4 DEF NotBelow

(* An entry that starts with the key is neither below nor above it, and    *)
(* one that is not below and not above starts with it.                     *)
LEMMA BelowIsNoMatch ==
  ASSUME NEW a, NEW c, GoodCall(a, c), NEW i \in c.left .. c.right,
         KeyBelow(a, c, i)
  PROVE  ~StartsWith(a, c, i, Length(c))
<1>1. PICK k \in 0 .. Length(c) - 1 : EntryChar(a, c, i, k) < KeyChar(c, k)
  BY DEF KeyBelow
<1>2. KeyChar(c, k) \in 1 .. 255
  BY KeyByteType DEF GoodCall
<1>3. EntryChar(a, c, i, k) # KeyChar(c, k)
  BY <1>1, <1>2
<1>4. QED BY <1>3 DEF StartsWith

LEMMA AboveIsNoMatch ==
  ASSUME NEW a, NEW c, GoodCall(a, c), NEW i \in c.left .. c.right,
         KeyAbove(a, c, i)
  PROVE  ~StartsWith(a, c, i, Length(c))
<1>1. PICK k \in 0 .. Length(c) - 1 : EntryChar(a, c, i, k) > KeyChar(c, k)
  BY DEF KeyAbove
<1>2. KeyChar(c, k) \in 1 .. 255
  BY KeyByteType DEF GoodCall
<1>3. EntryChar(a, c, i, k) # KeyChar(c, k)
  BY <1>1, <1>2
<1>4. QED BY <1>3 DEF StartsWith

LEMMA BetweenIsMatch ==
  ASSUME NEW a, NEW c, GoodCall(a, c), NEW i \in c.left .. c.right,
         NotBelow(a, c, i), NotAbove(a, c, i)
  PROVE  StartsWith(a, c, i, Length(c))
<1>1. SUFFICES ASSUME KeyBelow(a, c, i), KeyAbove(a, c, i) PROVE FALSE
  BY DEF NotBelow, NotAbove
<1>2. PICK k \in 0 .. Length(c) - 1 :
        StartsWith(a, c, i, k) /\ EntryChar(a, c, i, k) < KeyChar(c, k)
  BY <1>1 DEF KeyBelow
<1>3. PICK l \in 0 .. Length(c) - 1 :
        StartsWith(a, c, i, l) /\ EntryChar(a, c, i, l) > KeyChar(c, l)
  BY <1>1 DEF KeyAbove
<1>4. KeyChar(c, k) \in 1 .. 255 /\ KeyChar(c, l) \in 1 .. 255
  BY KeyByteType DEF GoodCall
<1>5. Length(c) \in Nat
  BY EntryPlace
<1>6. EntryChar(a, c, i, k) \in Int /\ EntryChar(a, c, i, l) \in Int
  BY <1>5, EntryType
<1>7. EntryChar(a, c, i, k) # KeyChar(c, k) /\ EntryChar(a, c, i, l) # KeyChar(c, l)
  BY <1>2, <1>3, <1>4, <1>6
<1>8. ~(k < l) /\ ~(l < k)
  BY <1>2, <1>3, <1>5, <1>7 DEF StartsWith
<1>9. k = l
  BY <1>5, <1>8
<1>10. QED
  BY <1>2, <1>3, <1>4, <1>6, <1>9

(* Comparing bytes without a test for the end of the text finds exactly    *)
(* the occurrences that lie inside it.                                     *)
LEMMA OccursIsStartsWith ==
  ASSUME NEW a, NEW c, GoodCall(a, c), NEW i \in c.left .. c.right
  PROVE  Abstract!Occurs(a, c, i) <=> StartsWith(a, c, i, Length(c))
<1> DEFINE p == AryIdx2TxtIdx(a, i) + c.base_txt_skip
           n == Length(c)
<1>1. p \in Nat /\ n \in Nat /\ p <= Len(a.text) /\ Len(a.text) \in Nat
      /\ a.text \in Seq(Byte)
  BY EntryPlace DEF GoodCall, IndexOK
<1>2. \A k \in 0 .. n - 1 : EntryChar(a, c, i, k) = Char(a, p + k)
  BY <1>1, EntryType
<1>3. Abstract!Occurs(a, c, i) <=>
        /\ p + n <= Len(a.text)
        /\ \A k \in 1 .. n : a.text[p + k] = c.key[k]
  BY DEF Abstract!Occurs, Abstract!AryIdx2TxtIdx, AryIdx2TxtIdx, Length
<1>4. ASSUME p + n <= Len(a.text), \A k \in 1 .. n : a.text[p + k] = c.key[k]
      PROVE  StartsWith(a, c, i, n)
  <2> SUFFICES ASSUME NEW k \in 0 .. n - 1
               PROVE  EntryChar(a, c, i, k) = KeyChar(c, k)
    BY DEF StartsWith
  <2>1. k + 1 \in 1 .. n /\ p + k < Len(a.text) /\ (p + k) + 1 = p + (k + 1)
    BY <1>1, <1>4
  <2>2. Char(a, p + k) = a.text[p + (k + 1)]
    BY <2>1 DEF Char
  <2>3. QED
    BY <1>2, <1>4, <2>1, <2>2 DEF KeyChar
<1>5. ASSUME StartsWith(a, c, i, n)
      PROVE  p + n <= Len(a.text) /\ \A k \in 1 .. n : a.text[p + k] = c.key[k]
  <2>1. ASSUME NEW k \in 0 .. n - 1
        PROVE  p + k < Len(a.text) /\ Char(a, p + k) = KeyChar(c, k)
    <3>1. Char(a, p + k) = KeyChar(c, k)
      BY <1>2, <1>5 DEF StartsWith
    <3>2. Char(a, p + k) # 0
      BY <3>1, KeyByteType DEF GoodCall
    <3>3. QED
      BY <1>1, <3>1, <3>2 DEF Char
  <2>2. p + n <= Len(a.text)
    <3>1. CASE n = 0
      BY <1>1, <3>1
    <3>2. CASE n # 0
      <4>1. n - 1 \in 0 .. n - 1
        BY <1>1, <3>2
      <4>2. p + (n - 1) < Len(a.text)
        BY <2>1, <4>1
      <4>3. QED BY <1>1, <4>2
    <3>3. QED BY <3>1, <3>2
  <2>3. ASSUME NEW k \in 1 .. n PROVE a.text[p + k] = c.key[k]
    <3>1. k - 1 \in 0 .. n - 1 /\ p + (k - 1) + 1 = p + k /\ k - 1 + 1 = k
      BY <1>1
    <3>2. p + (k - 1) < Len(a.text) /\ Char(a, p + (k - 1)) = KeyChar(c, k - 1)
      BY <2>1, <3>1
    <3>3. Char(a, p + (k - 1)) = a.text[p + k]
      BY <3>1, <3>2 DEF Char
    <3>4. KeyChar(c, k - 1) = c.key[k]
      BY <3>1 DEF KeyChar
    <3>5. QED BY <3>2, <3>3, <3>4
  <2>4. QED BY <2>2, <2>3
<1>6. QED BY <1>3, <1>4, <1>5

(* The midpoint lies in the window and its computation does not overflow.  *)
LEMMA MidBounds ==
  ASSUME NEW l \in Nat, NEW r \in Nat, l <= r, r <= SaIndexMax
  PROVE  /\ Mid(l, r) \in Nat
         /\ l <= Mid(l, r) /\ Mid(l, r) <= r
         /\ l < r => Mid(l, r) < r
<1> DEFINE m == l \div 2 + r \div 2 + (IF l % 2 = 1 /\ r % 2 = 1 THEN 1 ELSE 0)
<1>1. /\ l = 2 * (l \div 2) + (l % 2) /\ l % 2 \in 0 .. 1 /\ l \div 2 \in Nat
      /\ r = 2 * (r \div 2) + (r % 2) /\ r % 2 \in 0 .. 1 /\ r \div 2 \in Nat
  OBVIOUS
<1>2. m \in Nat /\ l <= m /\ m <= r /\ (l < r => m < r)
  BY <1>1
<1>3. m <= SaIndexMax
  BY <1>2, NumbersAssumption
<1>4. Mid(l, r) = m
  BY <1>3, NumbersAssumption, <1>2 DEF Mid, Wrap
<1>5. QED BY <1>2, <1>4

LEMMA LeftMono ==
  ASSUME NEW a, NEW c, GoodCall(a, c), NEW st,
         NEW i \in c.left .. c.right, NEW j \in c.left .. c.right, i <= j,
         LeftSide(a, c, st, j)
  PROVE  LeftSide(a, c, st, i)
BY BelowMono, NotAboveMono DEF LeftSide

LEMMA RightMono ==
  ASSUME NEW a, NEW c, GoodCall(a, c), NEW st,
         NEW i \in c.left .. c.right, NEW j \in c.left .. c.right, i <= j,
         RightSide(a, c, st, i)
  PROVE  RightSide(a, c, st, j)
BY AboveMono, NotBelowMono DEF RightSide

-----------------------------------------------------------------------------
(* What IInv says while sa_find runs                                       *)

LEMMA RunningFacts ==
  ASSUME IInv, pc # "idle"
  PROVE  /\ GoodCall(ary, call) /\ TypeOK /\ RunningInv
         /\ call.left \in Nat /\ call.right \in Nat /\ call.base_txt_skip \in Nat
         /\ Length(call) \in Nat /\ Length(call) = Len(call.key)
         /\ Length(call) < KeywordMaxLength
         /\ call.right + 1 <= SaIndexMax
         /\ sbr \in SbrType /\ sbr_1 \in SbrType /\ sbr_r \in SbrType
<1>1. TypeOK /\ RunningInv /\ CallHolds
  BY DEF IInv, RunningInv
<1>2. IndexOK(ary) /\ Len(ary.array) <= SaIndexMax /\ call \in CallType
  BY <1>1, IndexesAssumption DEF TypeOK, CallType
<1>3. GoodCall(ary, call)
  BY <1>1, <1>2 DEF CallHolds, GoodCall
<1>4. /\ call.left \in Nat /\ call.right \in Nat /\ call.base_txt_skip \in Nat
      /\ Len(call.key) \in Nat
  BY <1>2 DEF CallType
<1>5. call.right < Len(ary.array) /\ Len(ary.array) \in Nat
  BY <1>1, <1>2 DEF CallHolds, Abstract!CallOK, IndexOK
<1>6. call.right + 1 <= SaIndexMax
  BY <1>2, <1>4, <1>5, NumbersAssumption
<1>7. Len(call.key) < KeywordMaxLength /\ sbr \in SbrType /\ sbr_1 \in SbrType /\ sbr_r \in SbrType
  BY <1>1 DEF TypeOK
<1>8. QED
  BY <1>1, <1>3, <1>4, <1>6, <1>7 DEF Length

(* A probe looks inside the window, and the entry it looks at agrees with  *)
(* the key on the bytes it skips.                                          *)
LEMMA ProbeFacts ==
  ASSUME IInv, InLoop
  PROVE  /\ Cur \in Nat /\ sbr.left <= Cur /\ Cur < sbr.right
         /\ Cur \in call.left .. call.right
         /\ KeySkip \in Nat /\ KeySkip <= Length(call)
         /\ TxtSkip \in Nat /\ TxtSkip = call.base_txt_skip + KeySkip
         /\ \A i \in sbr.left .. sbr.right - 1 :
              i \in call.left .. call.right /\ StartsWith(ary, call, i, KeySkip)
<1>0. pc # "idle" /\ sbr.left < sbr.right
  BY DEF InLoop
<1>1. /\ GoodCall(ary, call) /\ TypeOK /\ RunningInv
      /\ call.left \in Nat /\ call.right \in Nat /\ call.base_txt_skip \in Nat
      /\ Length(call) \in Nat /\ call.right + 1 <= SaIndexMax /\ sbr \in SbrType
  BY <1>0, RunningFacts
<1>2. /\ sbr.left \in Nat /\ sbr.right \in Nat
      /\ sbr.left_prefix_len \in Nat /\ sbr.right_prefix_len \in Nat
  BY <1>1 DEF SbrType
<1>3. call.left <= sbr.left /\ sbr.right <= call.right + 1
  BY <1>1 DEF RunningInv, WindowOK
<1>4. sbr.right <= SaIndexMax
  BY <1>1, <1>2, <1>3, NumbersAssumption
<1>5. Cur \in Nat /\ sbr.left <= Cur /\ Cur < sbr.right
  BY <1>0, <1>2, <1>4, MidBounds DEF Cur
<1>6. Cur \in call.left .. call.right
  BY <1>1, <1>2, <1>3, <1>5
<1> DEFINE lp == sbr.left_prefix_len - call.base_txt_skip
           rp == sbr.right_prefix_len - call.base_txt_skip
<1>7. /\ lp \in 0 .. Length(call) /\ rp \in 0 .. Length(call)
      /\ lp = 0 \/ \E i \in call.left .. call.right :
                     i <= sbr.left /\ StartsWith(ary, call, i, lp)
      /\ rp = 0 \/ \E i \in call.left .. call.right :
                     sbr.right <= i + 1 /\ StartsWith(ary, call, i, rp)
  BY <1>1 DEF RunningInv, PrefixesOK
<1>8. /\ TxtSkip = call.base_txt_skip + KeySkip
      /\ KeySkip = IF lp < rp THEN lp ELSE rp
  BY <1>1, <1>2 DEF TxtSkip, KeySkip
<1>9. KeySkip \in Nat /\ KeySkip <= Length(call) /\ KeySkip <= lp /\ KeySkip <= rp
  BY <1>1, <1>7, <1>8
<1>10. TxtSkip \in Nat
  BY <1>1, <1>8, <1>9
<1>11. ASSUME NEW i \in sbr.left .. sbr.right - 1
       PROVE  i \in call.left .. call.right /\ StartsWith(ary, call, i, KeySkip)
  <2>1. i \in call.left .. call.right
    BY <1>1, <1>2, <1>3
  <2>2. CASE KeySkip = 0
    BY <2>1, <2>2 DEF StartsWith
  <2>3. CASE KeySkip # 0
    <3>1. lp # 0 /\ rp # 0
      BY <1>7, <1>8, <1>9, <2>3
    <3>2. PICK x \in call.left .. call.right :
            x <= sbr.left /\ StartsWith(ary, call, x, lp)
      BY <1>7, <3>1
    <3>3. PICK y \in call.left .. call.right :
            sbr.right <= y + 1 /\ StartsWith(ary, call, y, rp)
      BY <1>7, <3>1
    <3>4. /\ StartsWith(ary, call, x, KeySkip)
          /\ StartsWith(ary, call, y, KeySkip)
      BY <1>1, <1>7, <1>9, <3>2, <3>3 DEF StartsWith
    <3>5. x <= i /\ i <= y
      BY <1>1, <1>2, <3>2, <3>3
    <3>6. QED
      BY <1>1, <1>9, <2>1, <3>4, <3>5, Sandwich
  <2>4. QED BY <2>2, <2>3
<1>12. QED
  BY <1>5, <1>6, <1>8, <1>9, <1>10, <1>11

(* d equal bytes found by cmp_sistr extend the agreement with the key.     *)
LEMMA CompareFacts ==
  ASSUME IInv, InLoop, NEW d \in Nat, KeySkip + d <= Length(call), SameUpTo(d)
  PROVE  /\ StartsWith(ary, call, Cur, KeySkip + d)
         /\ TextByte(d) = EntryChar(ary, call, Cur, KeySkip + d)
         /\ TextByte(d) \in 0 .. 255
<1>1. /\ GoodCall(ary, call) /\ RunningInv
      /\ call.base_txt_skip \in Nat /\ Length(call) \in Nat
  BY RunningFacts DEF InLoop
<1>2. /\ Cur \in Nat /\ sbr.left <= Cur /\ Cur < sbr.right
      /\ Cur \in call.left .. call.right
      /\ KeySkip \in Nat /\ TxtSkip = call.base_txt_skip + KeySkip
  BY ProbeFacts
<1>3. StartsWith(ary, call, Cur, KeySkip)
  <2>1. sbr.left \in Nat /\ sbr.right \in Nat
    BY RunningFacts DEF InLoop, SbrType
  <2>2. Cur \in sbr.left .. sbr.right - 1
    BY <1>2, <2>1
  <2>3. QED BY <2>2, ProbeFacts
<1>4. ASSUME NEW k \in Nat
      PROVE  TextByte(k) = EntryChar(ary, call, Cur, KeySkip + k)
  <2>1. TxtSkip + k = call.base_txt_skip + (KeySkip + k)
    BY <1>1, <1>2
  <2>2. QED BY <2>1 DEF TextByte, EntryChar
<1>5. ASSUME NEW e \in 0 .. (KeySkip + d) - 1
      PROVE  EntryChar(ary, call, Cur, e) = KeyChar(call, e)
  <2>1. CASE e < KeySkip
    BY <1>2, <1>3, <2>1 DEF StartsWith
  <2>2. CASE KeySkip <= e
    <3>1. e - KeySkip \in 0 .. d - 1 /\ KeySkip + (e - KeySkip) = e
      BY <1>2, <2>2
    <3>2. TextByte(e - KeySkip) = keyary[e]
      BY <3>1 DEF SameUpTo
    <3>3. TextByte(e - KeySkip) = EntryChar(ary, call, Cur, e)
      BY <1>4, <3>1
    <3>4. e \in 0 .. Length(call) - 1
      BY <1>1, <1>2
    <3>5. keyary[e] = KeyChar(call, e)
      BY <1>1, <3>4 DEF RunningInv, CallHolds
    <3>6. QED BY <3>2, <3>3, <3>5
  <2>3. QED BY <1>2, <2>1, <2>2
<1>6. StartsWith(ary, call, Cur, KeySkip + d)
  <2>1. \A e \in 0 .. (KeySkip + d) - 1 :
          EntryChar(ary, call, Cur, e) = KeyChar(call, e)
    BY <1>5
  <2>2. QED BY <2>1 DEF StartsWith
<1>7. EntryChar(ary, call, Cur, KeySkip + d) \in 0 .. 255
  BY <1>1, <1>2, EntryType DEF Byte
<1>8. QED
  BY <1>4, <1>6, <1>7

-----------------------------------------------------------------------------
(* The steps of sa_bsearch                                                 *)

(* text < key: what lies up to the probed entry is left of the window.     *)
LEMMA ProbeLessKeepsIInv ==
  ASSUME IInv, ProbeLess
  PROVE  IInv'
<1>1. /\ InLoop /\ pc = "loop"
      /\ ary' = ary /\ pc' = pc /\ step' = step /\ call' = call
      /\ keyary' = keyary /\ sbr_1' = sbr_1 /\ sbr_r' = sbr_r /\ sr' = sr
  BY DEF ProbeLess, InLoop
<1>2. /\ GoodCall(ary, call) /\ TypeOK /\ RunningInv
      /\ call.left \in Nat /\ call.right \in Nat /\ call.base_txt_skip \in Nat
      /\ Length(call) \in Nat /\ Length(call) = Len(call.key) /\ sbr \in SbrType
  BY <1>1, RunningFacts
<1>3. PICK d \in 0 .. KeyLen - KeySkip - 1 :
        /\ SameUpTo(d)
        /\ TextByte(d) < keyary[KeySkip + d]
        /\ sbr' = [sbr EXCEPT !.left = Cur + 1,
                              !.left_prefix_len = TxtSkip + d]
  BY DEF ProbeLess
<1>4. /\ Cur \in Nat /\ sbr.left <= Cur /\ Cur < sbr.right
      /\ Cur \in call.left .. call.right
      /\ KeySkip \in Nat /\ TxtSkip \in Nat
      /\ TxtSkip = call.base_txt_skip + KeySkip
  BY <1>1, ProbeFacts
<1> DEFINE e == KeySkip + d
<1>5. /\ d \in Nat /\ e \in 0 .. Length(call)
      /\ e = Length(call) => step # 1
  BY <1>2, <1>4 DEF KeyLen, TypeOK
<1>6. /\ StartsWith(ary, call, Cur, e)
      /\ TextByte(d) = EntryChar(ary, call, Cur, e)
      /\ TextByte(d) \in 0 .. 255
  BY <1>1, <1>2, <1>3, <1>5, CompareFacts
<1>7. LeftSide(ary, call, step, Cur)
  <2>1. CASE e < Length(call)
    <3>1. e \in 0 .. Length(call) - 1
      BY <1>2, <1>5, <2>1
    <3>2. keyary[e] = KeyChar(call, e)
      BY <1>2, <3>1 DEF RunningInv, CallHolds
    <3>3. KeyBelow(ary, call, Cur)
      BY <1>3, <1>6, <3>1, <3>2 DEF KeyBelow
    <3>4. QED BY <3>3 DEF LeftSide, NotAbove
  <2>2. CASE e = Length(call)
    <3>1. step = 3 => keyary[e] = -1
      BY <1>2, <2>2 DEF RunningInv, CallHolds
    <3>2. step # 3
      BY <1>3, <1>6, <3>1
    <3>3. step = 2
      BY <1>2, <1>5, <2>2, <3>2 DEF TypeOK
    <3>4. QED BY <1>6, <2>2, <3>3 DEF LeftSide, NotAbove
  <2>3. QED BY <1>2, <1>5, <2>1, <2>2
<1>8. /\ sbr'.left = Cur + 1 /\ sbr'.right = sbr.right
      /\ sbr'.left_prefix_len = TxtSkip + d
      /\ sbr'.right_prefix_len = sbr.right_prefix_len
      /\ sbr'.state = sbr.state /\ sbr' \in SbrType
      /\ sbr.left \in Nat /\ sbr.right \in Nat
  <2>1. Cur + 1 \in Nat /\ TxtSkip + d \in Nat
    BY <1>4, <1>5
  <2>2. QED BY <1>2, <1>3, <1>4, <2>1 DEF SbrType
<1>9. TypeOK'
  BY <1>1, <1>2, <1>8 DEF TypeOK, SbrType
<1>10. WindowOK(ary, call, step, sbr')
  <2>1. /\ call.left <= sbr.left /\ sbr.right <= call.right + 1
        /\ \A i \in sbr.right .. call.right : RightSide(ary, call, step, i)
    BY <1>2 DEF RunningInv, WindowOK
  <2>2. ASSUME NEW i \in call.left .. Cur
        PROVE  LeftSide(ary, call, step, i)
    <3>1. i \in call.left .. call.right /\ i <= Cur
      BY <1>2, <1>4
    <3>2. QED BY <1>2, <1>4, <1>7, <3>1, LeftMono
  <2>3. /\ call.left <= Cur + 1 /\ Cur + 1 <= sbr.right
        /\ (Cur + 1) - 1 = Cur
    BY <1>2, <1>4, <1>8
  <2>4. QED
    BY <1>8, <2>1, <2>2, <2>3 DEF WindowOK
<1>11. PrefixesOK(ary, call, sbr')
  <2>1. (TxtSkip + d) - call.base_txt_skip = e
    BY <1>2, <1>4, <1>5
  <2>2. Cur <= Cur + 1
    BY <1>4
  <2>3. QED
    BY <1>2, <1>4, <1>5, <1>6, <1>8, <2>1, <2>2 DEF RunningInv, PrefixesOK
<1>12. RunningInv'
  <2>1. CallHolds'
    BY <1>1, <1>2 DEF RunningInv, CallHolds
  <2>2. QED
    BY <1>1, <1>2, <1>8, <1>10, <1>11, <2>1 DEF RunningInv
<1>13. ResultCorrect'
  BY <1>1 DEF ResultCorrect
<1>14. QED
  BY <1>9, <1>12, <1>13 DEF IInv

(* text > key: what lies from the probed entry on is right of the window.  *)
LEMMA ProbeGreaterKeepsIInv ==
  ASSUME IInv, ProbeGreater
  PROVE  IInv'
<1>1. /\ InLoop /\ pc = "loop"
      /\ ary' = ary /\ pc' = pc /\ step' = step /\ call' = call
      /\ keyary' = keyary /\ sbr_1' = sbr_1 /\ sbr_r' = sbr_r /\ sr' = sr
  BY DEF ProbeGreater, InLoop
<1>2. /\ GoodCall(ary, call) /\ TypeOK /\ RunningInv
      /\ call.left \in Nat /\ call.right \in Nat /\ call.base_txt_skip \in Nat
      /\ Length(call) \in Nat /\ Length(call) = Len(call.key) /\ sbr \in SbrType
  BY <1>1, RunningFacts
<1>3. PICK d \in 0 .. KeyLen - KeySkip - 1 :
        /\ SameUpTo(d)
        /\ TextByte(d) > keyary[KeySkip + d]
        /\ sbr' = [sbr EXCEPT !.right = Cur,
                              !.right_prefix_len = TxtSkip + d]
  BY DEF ProbeGreater
<1>4. /\ Cur \in Nat /\ sbr.left <= Cur /\ Cur < sbr.right
      /\ Cur \in call.left .. call.right
      /\ KeySkip \in Nat /\ TxtSkip \in Nat
      /\ TxtSkip = call.base_txt_skip + KeySkip
  BY <1>1, ProbeFacts
<1> DEFINE e == KeySkip + d
<1>5. /\ d \in Nat /\ e \in 0 .. Length(call)
      /\ e = Length(call) => step # 1
  BY <1>2, <1>4 DEF KeyLen, TypeOK
<1>6. /\ StartsWith(ary, call, Cur, e)
      /\ TextByte(d) = EntryChar(ary, call, Cur, e)
      /\ TextByte(d) \in 0 .. 255
  BY <1>1, <1>2, <1>3, <1>5, CompareFacts
<1>7. RightSide(ary, call, step, Cur)
  <2>1. CASE e < Length(call)
    <3>1. e \in 0 .. Length(call) - 1
      BY <1>2, <1>5, <2>1
    <3>2. keyary[e] = KeyChar(call, e)
      BY <1>2, <3>1 DEF RunningInv, CallHolds
    <3>3. KeyAbove(ary, call, Cur)
      BY <1>3, <1>6, <3>1, <3>2 DEF KeyAbove
    <3>4. QED BY <3>3 DEF RightSide, NotBelow
  <2>2. CASE e = Length(call)
    <3>1. step = 2 => keyary[e] = 256
      BY <1>2, <2>2 DEF RunningInv, CallHolds
    <3>2. step # 2
      BY <1>3, <1>6, <3>1
    <3>3. step = 3
      BY <1>2, <1>5, <2>2, <3>2 DEF TypeOK
    <3>4. QED BY <1>6, <2>2, <3>3 DEF RightSide, NotBelow
  <2>3. QED BY <1>2, <1>5, <2>1, <2>2
<1>8. /\ sbr'.left = sbr.left /\ sbr'.right = Cur
      /\ sbr'.left_prefix_len = sbr.left_prefix_len
      /\ sbr'.right_prefix_len = TxtSkip + d
      /\ sbr'.state = sbr.state /\ sbr' \in SbrType
      /\ sbr.left \in Nat /\ sbr.right \in Nat
  <2>1. Cur + 1 \in Nat /\ TxtSkip + d \in Nat
    BY <1>4, <1>5
  <2>2. QED BY <1>2, <1>3, <1>4, <2>1 DEF SbrType
<1>9. TypeOK'
  BY <1>1, <1>2, <1>8 DEF TypeOK, SbrType
<1>10. WindowOK(ary, call, step, sbr')
  <2>1. /\ call.left <= sbr.left /\ sbr.right <= call.right + 1
        /\ \A i \in call.left .. sbr.left - 1 : LeftSide(ary, call, step, i)
    BY <1>2 DEF RunningInv, WindowOK
  <2>2. ASSUME NEW i \in Cur .. call.right
        PROVE  RightSide(ary, call, step, i)
    <3>1. i \in call.left .. call.right /\ Cur <= i
      BY <1>2, <1>4
    <3>2. QED BY <1>2, <1>4, <1>7, <3>1, RightMono
  <2>3. Cur <= call.right + 1
    BY <1>2, <1>4
  <2>4. QED
    BY <1>4, <1>8, <2>1, <2>2, <2>3 DEF WindowOK
<1>11. PrefixesOK(ary, call, sbr')
  <2>1. (TxtSkip + d) - call.base_txt_skip = e
    BY <1>2, <1>4, <1>5
  <2>2. Cur <= Cur + 1
    BY <1>4
  <2>3. QED
    BY <1>2, <1>4, <1>5, <1>6, <1>8, <2>1, <2>2 DEF RunningInv, PrefixesOK
<1>12. RunningInv'
  <2>1. CallHolds'
    BY <1>1, <1>2 DEF RunningInv, CallHolds
  <2>2. QED
    BY <1>1, <1>2, <1>8, <1>10, <1>11, <2>1 DEF RunningInv
<1>13. ResultCorrect'
  BY <1>1 DEF ResultCorrect
<1>14. QED
  BY <1>9, <1>12, <1>13 DEF IInv

(* text == key: only step 1 can find that, because no byte equals a        *)
(* sentinel.                                                               *)
LEMMA ProbeMatchKeepsIInv ==
  ASSUME IInv, ProbeMatch
  PROVE  IInv'
<1>1. /\ InLoop /\ pc = "loop" /\ pc' = "return"
      /\ ary' = ary /\ step' = step /\ call' = call
      /\ keyary' = keyary /\ sbr_1' = sbr_1 /\ sbr_r' = sbr_r /\ sr' = sr
      /\ KeySkip <= KeyLen /\ SameUpTo(KeyLen - KeySkip)
      /\ sbr' = [sbr EXCEPT !.state = "SUCCESS", !.center = Cur]
  BY DEF ProbeMatch, InLoop
<1>2. /\ GoodCall(ary, call) /\ TypeOK /\ RunningInv
      /\ Length(call) \in Nat /\ Length(call) = Len(call.key) /\ sbr \in SbrType
  BY <1>1, RunningFacts
<1>3. /\ Cur \in Nat /\ sbr.left <= Cur /\ Cur < sbr.right
      /\ KeySkip \in Nat /\ KeySkip <= Length(call)
  BY <1>1, ProbeFacts
<1> DEFINE d == Length(call) - KeySkip
<1>4. d \in Nat /\ KeySkip + d = Length(call)
  BY <1>2, <1>3
<1>5. SameUpTo(d)
  <2>0. KeyLen = Length(call) \/ KeyLen = Length(call) + 1
    BY <1>2 DEF KeyLen, TypeOK
  <2>1. KeyLen >= Length(call) /\ KeyLen \in Nat
    BY <1>2, <2>0
  <2>2. \A k \in 0 .. d - 1 : k \in 0 .. (KeyLen - KeySkip) - 1
    BY <1>2, <1>3, <1>4, <2>1
  <2>3. QED BY <1>1, <2>2 DEF SameUpTo
<1>6. /\ StartsWith(ary, call, Cur, Length(call))
      /\ TextByte(d) \in 0 .. 255
  BY <1>1, <1>2, <1>4, <1>5, CompareFacts
<1>7. step = 1
  <2> SUFFICES ASSUME step # 1 PROVE FALSE
    OBVIOUS
  <2>1. KeyLen = Length(call) + 1
    BY <1>2 DEF KeyLen, TypeOK
  <2>2. d \in 0 .. (KeyLen - KeySkip) - 1
    BY <1>2, <1>3, <1>4, <2>1
  <2>3. TextByte(d) = keyary[Length(call)]
    BY <1>1, <1>4, <2>2 DEF SameUpTo
  <2>4. step \in {2, 3}
    BY <1>2 DEF TypeOK
  <2>5. keyary[Length(call)] \in {256, -1}
    BY <1>2, <2>4 DEF RunningInv, CallHolds
  <2>6. QED BY <1>6, <2>3, <2>5
<1>8. /\ sbr'.left = sbr.left /\ sbr'.right = sbr.right
      /\ sbr'.left_prefix_len = sbr.left_prefix_len
      /\ sbr'.right_prefix_len = sbr.right_prefix_len
      /\ sbr'.state = "SUCCESS" /\ sbr'.center = Cur /\ sbr' \in SbrType
  BY <1>1, <1>2, <1>3 DEF SbrType
<1>9. TypeOK'
  BY <1>1, <1>2, <1>8 DEF TypeOK, SbrType
<1>10. WindowOK(ary, call, 1, sbr') /\ PrefixesOK(ary, call, sbr')
  BY <1>2, <1>7, <1>8 DEF RunningInv, WindowOK, PrefixesOK
<1>11. MatchedOK(ary, call, sbr')
  BY <1>3, <1>6, <1>8, <1>10 DEF MatchedOK
<1>12. RunningInv'
  <2>1. CallHolds'
    BY <1>1, <1>2 DEF RunningInv, CallHolds
  <2>2. QED
    BY <1>1, <1>7, <1>8, <1>10, <1>11, <2>1 DEF RunningInv
<1>13. ResultCorrect'
  BY <1>1 DEF ResultCorrect
<1>14. QED
  BY <1>9, <1>12, <1>13 DEF IInv

(* The window is empty: the search has failed where it closed.             *)
LEMMA LoopEndKeepsIInv ==
  ASSUME IInv, LoopEnd
  PROVE  IInv'
<1>1. /\ pc = "loop" /\ pc' = "return" /\ sbr.left >= sbr.right
      /\ ary' = ary /\ step' = step /\ call' = call
      /\ keyary' = keyary /\ sbr_1' = sbr_1 /\ sbr_r' = sbr_r /\ sr' = sr
      /\ sbr' = [sbr EXCEPT !.center = Cur]
  BY DEF LoopEnd
<1>2. /\ TypeOK /\ RunningInv /\ sbr \in SbrType
      /\ call.right \in Nat /\ call.right + 1 <= SaIndexMax
  BY <1>1, RunningFacts
<1>3. /\ sbr.left \in Nat /\ sbr.right \in Nat
      /\ sbr.left <= sbr.right /\ sbr.right <= call.right + 1
  BY <1>2 DEF SbrType, RunningInv, WindowOK
<1>4. sbr.left = sbr.right
  BY <1>1, <1>3
<1>5. Cur = sbr.left
  <2>1. sbr.right <= SaIndexMax
    BY <1>2, <1>3, NumbersAssumption
  <2>2. sbr.left <= Cur /\ Cur <= sbr.right /\ Cur \in Nat
    BY <1>3, <2>1, MidBounds DEF Cur
  <2>3. QED BY <1>3, <1>4, <2>2
<1>6. /\ sbr'.left = sbr.left /\ sbr'.right = sbr.right
      /\ sbr'.left_prefix_len = sbr.left_prefix_len
      /\ sbr'.right_prefix_len = sbr.right_prefix_len
      /\ sbr'.state = sbr.state /\ sbr'.center = sbr.left /\ sbr' \in SbrType
  BY <1>1, <1>2, <1>3, <1>5 DEF SbrType
<1>7. TypeOK'
  BY <1>1, <1>2, <1>6 DEF TypeOK, SbrType
<1>8. WindowOK(ary, call, step, sbr') /\ PrefixesOK(ary, call, sbr')
  BY <1>2, <1>6 DEF RunningInv, WindowOK, PrefixesOK
<1>9. RunningInv'
  <2>1. CallHolds'
    BY <1>1, <1>2 DEF RunningInv, CallHolds
  <2>2. QED
    BY <1>1, <1>2, <1>4, <1>6, <1>8, <2>1 DEF RunningInv
<1>10. ResultCorrect'
  BY <1>1 DEF ResultCorrect
<1>11. QED
  BY <1>7, <1>9, <1>10 DEF IInv

-----------------------------------------------------------------------------
(* The steps of sa_find                                                    *)

LEMMA NoSbrType == NoSbr \in SbrType
BY DEF NoSbr, SbrType

LEMMA FindKeepsIInv ==
  ASSUME IInv,
         NEW key \in Keys, NEW l \in Positions, NEW r \in Positions,
         NEW skip \in Skips, Find(key, l, r, skip)
  PROVE  IInv'
<1>1. /\ pc = "idle" /\ pc' = "loop" /\ step' = 1
      /\ Abstract!CallOK(ary, l, r, skip)
      /\ call' = [key |-> key, left |-> l, right |-> r, base_txt_skip |-> skip]
      /\ keyary' = [i \in DOMAIN keyary |->
                      IF i < Len(key) THEN key[i + 1] ELSE keyary[i]]
      /\ sbr' = [sbr EXCEPT !.left = l, !.right = r + 1,
                        !.left_prefix_len = skip,
                        !.right_prefix_len = skip, !.state = "FAIL"]
      /\ ary' = ary /\ sbr_1' = sbr_1 /\ sbr_r' = sbr_r /\ sr' = Abstract!NoResult
  BY DEF Find
<1>2. /\ TypeOK /\ sbr \in SbrType
      /\ key \in Seq(1 .. 255) /\ Len(key) < KeywordMaxLength
      /\ skip \in Nat /\ l \in Nat /\ r \in Nat
  BY KeysAssumption, NumbersAssumption DEF IInv, TypeOK, Positions
<1>3. /\ call'.key = key /\ call'.left = l /\ call'.right = r
      /\ call'.base_txt_skip = skip
      /\ call' \in [key : Seq(1 .. 255), left : Nat, right : Nat, base_txt_skip : Nat]
  BY <1>1, <1>2
<1>4. /\ sbr'.left = l /\ sbr'.right = r + 1
      /\ sbr'.left_prefix_len = skip /\ sbr'.right_prefix_len = skip
      /\ sbr'.state = "FAIL" /\ sbr' \in SbrType
  <2>1. r + 1 \in Nat
    BY <1>2
  <2>2. QED BY <1>1, <1>2, <2>1 DEF SbrType
<1>5. /\ keyary' \in [0 .. KeywordMaxLength - 1 -> -1 .. 256]
      /\ \A k \in 0 .. Len(key) - 1 : keyary'[k] = key[k + 1]
  <2>1. keyary \in [0 .. KeywordMaxLength - 1 -> -1 .. 256]
    BY <1>2 DEF TypeOK
  <2>2. Len(key) \in Nat
    BY <1>2
  <2>3. \A k \in 0 .. Len(key) - 1 : key[k + 1] \in -1 .. 256
    <3> TAKE k \in 0 .. Len(key) - 1
    <3>1. k + 1 \in 1 .. Len(key)
      BY <2>2
    <3>2. key[k + 1] \in 1 .. 255
      BY <1>2, <3>1, ElementType
    <3>3. QED BY <3>2
  <2>4. \A k \in 0 .. Len(key) - 1 :
          k \in 0 .. KeywordMaxLength - 1 /\ k < Len(key)
    BY <1>2, <2>2, NumbersAssumption
  <2>5. \A k \in 0 .. KeywordMaxLength - 1 :
          (IF k < Len(key) THEN key[k + 1] ELSE keyary[k]) \in -1 .. 256
    <3> TAKE k \in 0 .. KeywordMaxLength - 1
    <3>1. CASE k < Len(key)
      <4>1. k \in 0 .. Len(key) - 1
        BY <2>2, <3>1
      <4>2. QED BY <2>3, <3>1, <4>1
    <3>2. CASE ~(k < Len(key))
      <4>1. keyary[k] \in -1 .. 256
        BY <2>1
      <4>2. QED BY <3>2, <4>1
    <3>3. QED BY <3>1, <3>2
  <2>6. QED BY <1>1, <2>1, <2>4, <2>5
<1>6. TypeOK'
  BY <1>1, <1>2, <1>3, <1>4, <1>5 DEF TypeOK
<1>7. CallHolds'
  <2>1. Abstract!CallOK(ary, call.left, call.right, call.base_txt_skip)'
    BY <1>1, <1>3
  <2>2. (\A k \in 0 .. Length(call) - 1 : keyary[k] = KeyChar(call, k))'
    BY <1>3, <1>5 DEF Length, KeyChar
  <2>3. (step = 2 => keyary[Length(call)] = 256)'
    BY <1>1
  <2>4. (step = 3 => keyary[Length(call)] = -1)'
    BY <1>1
  <2>5. QED BY <2>1, <2>2, <2>3, <2>4 DEF CallHolds
<1>8. WindowOK(ary, call', 1, sbr')
  <2>1. l <= r
    BY <1>1 DEF Abstract!CallOK
  <2>2. QED BY <1>2, <1>3, <1>4, <2>1 DEF WindowOK
<1>9. PrefixesOK(ary, call', sbr')
  <2>1. Length(call') \in Nat
    BY <1>2, <1>3 DEF Length
  <2>2. QED BY <1>2, <1>3, <1>4, <2>1 DEF PrefixesOK
<1>10. RunningInv'
  BY <1>1, <1>4, <1>7, <1>8, <1>9 DEF RunningInv
<1>11. ResultCorrect'
  BY <1>1 DEF ResultCorrect
<1>12. QED
  BY <1>6, <1>10, <1>11 DEF IInv

(* Step 1 has ended without a match: every entry of the range is on one    *)
(* side of the empty window, so none of them matches.                      *)
LEMMA Step1FailsKeepsIInv ==
  ASSUME IInv, Step1Fails
  PROVE  IInv'
<1>1. /\ pc = "return" /\ step = 1 /\ sbr.state = "FAIL" /\ pc' = "idle"
      /\ sr' = Abstract!NotFound
      /\ sbr' = NoSbr /\ sbr_1' = NoSbr /\ sbr_r' = NoSbr
      /\ ary' = ary /\ step' = step /\ call' = call /\ keyary' = keyary
  BY DEF Step1Fails
<1>2. /\ GoodCall(ary, call) /\ TypeOK /\ RunningInv /\ sbr \in SbrType
      /\ call.left \in Nat /\ call.right \in Nat
  BY <1>1, RunningFacts
<1>3. Abstract!Hits(ary, call) = {}
  <2> SUFFICES ASSUME NEW i \in call.left .. call.right, Abstract!Occurs(ary, call, i)
               PROVE  FALSE
    BY DEF Abstract!Hits
  <2>1. StartsWith(ary, call, i, Length(call))
    BY <1>2, OccursIsStartsWith
  <2>2. sbr.left = sbr.right /\ sbr.left \in Nat
    BY <1>1, <1>2 DEF RunningInv, SbrType
  <2>3. CASE i < sbr.left
    <3>1. i \in call.left .. sbr.left - 1
      BY <1>2, <2>2, <2>3
    <3>2. KeyBelow(ary, call, i)
      BY <1>1, <1>2, <3>1 DEF RunningInv, WindowOK, LeftSide
    <3>3. QED BY <1>2, <2>1, <3>2, BelowIsNoMatch
  <2>4. CASE sbr.right <= i
    <3>1. i \in sbr.right .. call.right
      BY <1>2, <2>2, <2>4
    <3>2. KeyAbove(ary, call, i)
      BY <1>1, <1>2, <3>1 DEF RunningInv, WindowOK, RightSide
    <3>3. QED BY <1>2, <2>1, <3>2, AboveIsNoMatch
  <2>5. QED BY <1>2, <2>2, <2>3, <2>4
<1>4. TypeOK'
  BY <1>1, <1>2, NoSbrType DEF TypeOK
<1>5. Abstract!CorrectAnswer(ary, call, sr')
  BY <1>1, <1>3 DEF Abstract!CorrectAnswer
<1>6. ResultCorrect'
  BY <1>1, <1>5 DEF ResultCorrect
<1>7. QED
  BY <1>1, <1>4, <1>6 DEF IInv

(* From the match onwards to the right, for the key with 256 behind it.    *)
LEMMA Step2KeepsIInv ==
  ASSUME IInv, Step2
  PROVE  IInv'
<1>1. /\ pc = "return" /\ step = 1 /\ sbr.state = "SUCCESS"
      /\ pc' = "loop" /\ step' = 2
      /\ keyary' = [keyary EXCEPT ![Len(call.key)] = 256]
      /\ sbr_1' = sbr
      /\ sbr' = [sbr EXCEPT !.left = sbr.center,
                   !.left_prefix_len = Len(call.key) + call.base_txt_skip,
                   !.state = "FAIL"]
      /\ ary' = ary /\ call' = call /\ sbr_r' = sbr_r /\ sr' = sr
  BY DEF Step2
<1>2. /\ GoodCall(ary, call) /\ TypeOK /\ RunningInv /\ sbr \in SbrType
      /\ call.left \in Nat /\ call.right \in Nat /\ call.base_txt_skip \in Nat
      /\ Length(call) \in Nat /\ Length(call) = Len(call.key)
      /\ Length(call) < KeywordMaxLength
  BY <1>1, RunningFacts
<1>3. MatchedOK(ary, call, sbr)
  BY <1>1, <1>2 DEF RunningInv
<1>4. /\ sbr.left \in Nat /\ sbr.right \in Nat /\ sbr.center \in Nat
      /\ call.left <= sbr.left /\ sbr.left <= sbr.center
      /\ sbr.center < sbr.right /\ sbr.right <= call.right + 1
      /\ StartsWith(ary, call, sbr.center, Length(call))
      /\ \A i \in sbr.right .. call.right : KeyAbove(ary, call, i)
  BY <1>2, <1>3 DEF SbrType, MatchedOK, WindowOK, RightSide
<1>5. sbr.center \in call.left .. call.right
  BY <1>2, <1>4
<1>6. /\ sbr'.left = sbr.center /\ sbr'.right = sbr.right
      /\ sbr'.left_prefix_len = Length(call) + call.base_txt_skip
      /\ sbr'.right_prefix_len = sbr.right_prefix_len
      /\ sbr'.state = "FAIL" /\ sbr' \in SbrType
  <2>1. Length(call) + call.base_txt_skip \in Nat
    BY <1>2
  <2>2. QED BY <1>1, <1>2, <1>4, <2>1 DEF SbrType
<1>7. /\ keyary' \in [0 .. KeywordMaxLength - 1 -> -1 .. 256]
      /\ keyary'[Length(call)] = 256
      /\ \A k \in 0 .. Length(call) - 1 : keyary'[k] = keyary[k]
  <2>1. keyary \in [0 .. KeywordMaxLength - 1 -> -1 .. 256]
    BY <1>2 DEF TypeOK
  <2>2. Length(call) \in 0 .. KeywordMaxLength - 1 /\ 256 \in -1 .. 256
    BY <1>2, NumbersAssumption
  <2>3. keyary' = [keyary EXCEPT ![Length(call)] = 256]
    BY <1>1, <1>2
  <2>4. \A k \in 0 .. Length(call) - 1 :
          k # Length(call) /\ k \in 0 .. KeywordMaxLength - 1
    BY <1>2, <2>2, NumbersAssumption
  <2>5. QED BY <2>1, <2>2, <2>3, <2>4
<1>8. TypeOK'
  BY <1>1, <1>2, <1>6, <1>7 DEF TypeOK
<1>9. CallHolds'
  <2>1. (\A k \in 0 .. Length(call) - 1 : keyary[k] = KeyChar(call, k))'
    BY <1>1, <1>2, <1>7 DEF RunningInv, CallHolds
  <2>2. (step = 2 => keyary[Length(call)] = 256)'
    BY <1>1, <1>7
  <2>3. (step = 3 => keyary[Length(call)] = -1)'
    BY <1>1
  <2>4. Abstract!CallOK(ary, call.left, call.right, call.base_txt_skip)'
    BY <1>1, <1>2 DEF RunningInv, CallHolds
  <2>5. QED BY <2>1, <2>2, <2>3, <2>4 DEF CallHolds
<1>10. WindowOK(ary, call, 2, sbr')
  <2>1. ASSUME NEW i \in call.left .. sbr.center - 1
        PROVE  LeftSide(ary, call, 2, i)
    <3>1. i \in call.left .. call.right /\ i <= sbr.center
      BY <1>2, <1>4
    <3>2. NotAbove(ary, call, sbr.center)
      BY <1>4 DEF NotAbove
    <3>3. NotAbove(ary, call, i)
      BY <1>2, <1>5, <3>1, <3>2, NotAboveMono
    <3>4. QED BY <3>3 DEF LeftSide
  <2>2. \A i \in sbr.right .. call.right : RightSide(ary, call, 2, i)
    BY <1>4 DEF RightSide
  <2>3. call.left <= sbr.center /\ sbr.center <= sbr.right
    BY <1>2, <1>4
  <2>4. QED BY <1>4, <1>6, <2>1, <2>2, <2>3 DEF WindowOK
<1>11. PrefixesOK(ary, call, sbr')
  <2>1. (Length(call) + call.base_txt_skip) - call.base_txt_skip = Length(call)
    BY <1>2
  <2>2. Length(call) \in 0 .. Length(call) /\ sbr.center <= sbr.center
    BY <1>2, <1>4
  <2>3. PrefixesOK(ary, call, sbr)
    BY <1>3 DEF MatchedOK
  <2>4. QED BY <1>4, <1>5, <1>6, <2>1, <2>2, <2>3 DEF PrefixesOK
<1>12. RunningInv'
  BY <1>1, <1>3, <1>6, <1>9, <1>10, <1>11 DEF RunningInv
<1>13. ResultCorrect'
  BY <1>1 DEF ResultCorrect
<1>14. QED
  BY <1>8, <1>12, <1>13 DEF IInv

(* From the match to the left, for the key with -1 behind it, in the       *)
(* window step 1 had left.                                                 *)
LEMMA Step3KeepsIInv ==
  ASSUME IInv, Step3
  PROVE  IInv'
<1>1. /\ pc = "return" /\ step = 2 /\ pc' = "loop" /\ step' = 3
      /\ keyary' = [keyary EXCEPT ![Len(call.key)] = -1]
      /\ sbr_r' = sbr
      /\ sbr' = [sbr_1 EXCEPT !.right = sbr_1.center + 1,
                   !.right_prefix_len = Len(call.key) + call.base_txt_skip,
                   !.state = "FAIL"]
      /\ ary' = ary /\ call' = call /\ sbr_1' = sbr_1 /\ sr' = sr
  BY DEF Step3
<1>2. /\ GoodCall(ary, call) /\ TypeOK /\ RunningInv
      /\ sbr \in SbrType /\ sbr_1 \in SbrType
      /\ call.left \in Nat /\ call.right \in Nat /\ call.base_txt_skip \in Nat
      /\ Length(call) \in Nat /\ Length(call) = Len(call.key)
      /\ Length(call) < KeywordMaxLength
  BY <1>1, RunningFacts
<1>3. /\ MatchedOK(ary, call, sbr_1)
      /\ sbr.left = sbr.right /\ sbr.center = sbr.left
      /\ WindowOK(ary, call, 2, sbr)
  BY <1>1, <1>2 DEF RunningInv, SbrType
<1>4. /\ sbr_1.left \in Nat /\ sbr_1.right \in Nat /\ sbr_1.center \in Nat
      /\ call.left <= sbr_1.left /\ sbr_1.left <= sbr_1.center
      /\ sbr_1.center < sbr_1.right /\ sbr_1.right <= call.right + 1
      /\ StartsWith(ary, call, sbr_1.center, Length(call))
      /\ \A i \in call.left .. sbr_1.left - 1 : KeyBelow(ary, call, i)
  BY <1>2, <1>3 DEF SbrType, MatchedOK, WindowOK, LeftSide
<1>5. sbr_1.center \in call.left .. call.right
  BY <1>2, <1>4
<1>6. /\ sbr'.left = sbr_1.left /\ sbr'.right = sbr_1.center + 1
      /\ sbr'.left_prefix_len = sbr_1.left_prefix_len
      /\ sbr'.right_prefix_len = Length(call) + call.base_txt_skip
      /\ sbr'.state = "FAIL" /\ sbr' \in SbrType
  <2>1. Length(call) + call.base_txt_skip \in Nat /\ sbr_1.center + 1 \in Nat
    BY <1>2, <1>4
  <2>2. QED BY <1>1, <1>2, <1>4, <2>1 DEF SbrType
<1>7. /\ keyary' \in [0 .. KeywordMaxLength - 1 -> -1 .. 256]
      /\ keyary'[Length(call)] = -1
      /\ \A k \in 0 .. Length(call) - 1 : keyary'[k] = keyary[k]
  <2>1. keyary \in [0 .. KeywordMaxLength - 1 -> -1 .. 256]
    BY <1>2 DEF TypeOK
  <2>2. Length(call) \in 0 .. KeywordMaxLength - 1 /\ -1 \in -1 .. 256
    BY <1>2, NumbersAssumption
  <2>3. keyary' = [keyary EXCEPT ![Length(call)] = -1]
    BY <1>1, <1>2
  <2>4. \A k \in 0 .. Length(call) - 1 :
          k # Length(call) /\ k \in 0 .. KeywordMaxLength - 1
    BY <1>2, <2>2, NumbersAssumption
  <2>5. QED BY <2>1, <2>2, <2>3, <2>4
<1>8. TypeOK'
  BY <1>1, <1>2, <1>6, <1>7 DEF TypeOK
<1>9. CallHolds'
  <2>1. (\A k \in 0 .. Length(call) - 1 : keyary[k] = KeyChar(call, k))'
    BY <1>1, <1>2, <1>7 DEF RunningInv, CallHolds
  <2>2. (step = 2 => keyary[Length(call)] = 256)'
    BY <1>1
  <2>3. (step = 3 => keyary[Length(call)] = -1)'
    BY <1>1, <1>7
  <2>4. Abstract!CallOK(ary, call.left, call.right, call.base_txt_skip)'
    BY <1>1, <1>2 DEF RunningInv, CallHolds
  <2>5. QED BY <2>1, <2>2, <2>3, <2>4 DEF CallHolds
<1>10. WindowOK(ary, call, 3, sbr')
  <2>1. ASSUME NEW i \in sbr_1.center + 1 .. call.right
        PROVE  RightSide(ary, call, 3, i)
    <3>1. i \in call.left .. call.right /\ sbr_1.center <= i
      BY <1>2, <1>4
    <3>2. NotBelow(ary, call, sbr_1.center)
      BY <1>4 DEF NotBelow
    <3>3. NotBelow(ary, call, i)
      BY <1>2, <1>5, <3>1, <3>2, NotBelowMono
    <3>4. QED BY <3>3 DEF RightSide
  <2>2. \A i \in call.left .. sbr_1.left - 1 : LeftSide(ary, call, 3, i)
    BY <1>4 DEF LeftSide
  <2>3. /\ sbr_1.left <= sbr_1.center + 1
        /\ sbr_1.center + 1 <= call.right + 1
    BY <1>2, <1>4
  <2>4. QED BY <1>4, <1>6, <2>1, <2>2, <2>3 DEF WindowOK
<1>11. PrefixesOK(ary, call, sbr')
  <2>1. (Length(call) + call.base_txt_skip) - call.base_txt_skip = Length(call)
    BY <1>2
  <2>2. Length(call) \in 0 .. Length(call) /\ sbr_1.center + 1 <= sbr_1.center + 1
    BY <1>2, <1>4
  <2>3. PrefixesOK(ary, call, sbr_1)
    BY <1>3 DEF MatchedOK
  <2>4. QED BY <1>4, <1>5, <1>6, <2>1, <2>2, <2>3 DEF PrefixesOK
<1>12. RunningInv'
  BY <1>1, <1>3, <1>6, <1>9, <1>10, <1>11 DEF RunningInv
<1>13. ResultCorrect'
  BY <1>1 DEF ResultCorrect
<1>14. QED
  BY <1>8, <1>12, <1>13 DEF IInv

(* The two ends found enclose exactly the matches.                         *)
LEMMA ReturnIsCorrect ==
  ASSUME IInv, Return
  PROVE  Abstract!CorrectAnswer(ary, call, sr')
<1>1. /\ pc = "return" /\ step = 3
      /\ sr' = [stat |-> "SUCCESS", left |-> sbr.center,
                right |-> sbr_r.center - 1]
  BY DEF Return
<1>2. /\ GoodCall(ary, call) /\ RunningInv
      /\ sbr \in SbrType /\ sbr_1 \in SbrType /\ sbr_r \in SbrType
      /\ call.left \in Nat /\ call.right \in Nat
  BY <1>1, RunningFacts
<1> DEFINE L == sbr.center
           R == sbr_r.center
<1>3. /\ sbr.left = L /\ sbr.right = L /\ sbr_r.left = R /\ sbr_r.right = R
      /\ WindowOK(ary, call, 3, sbr) /\ WindowOK(ary, call, 2, sbr_r)
      /\ MatchedOK(ary, call, sbr_1)
  BY <1>1, <1>2 DEF RunningInv, SbrType
<1>4. /\ L \in Nat /\ R \in Nat
      /\ call.left <= L /\ R <= call.right + 1
      /\ \A i \in call.left .. L - 1 : KeyBelow(ary, call, i)
      /\ \A i \in L .. call.right : NotBelow(ary, call, i)
      /\ \A i \in call.left .. R - 1 : NotAbove(ary, call, i)
      /\ \A i \in R .. call.right : KeyAbove(ary, call, i)
  BY <1>2, <1>3 DEF WindowOK, LeftSide, RightSide, SbrType
<1>5. ASSUME NEW i \in call.left .. call.right
      PROVE  StartsWith(ary, call, i, Length(call)) <=> L <= i /\ i <= R - 1
  <2>1. ASSUME L <= i, i <= R - 1
        PROVE  StartsWith(ary, call, i, Length(call))
    <3>1. NotBelow(ary, call, i) /\ NotAbove(ary, call, i)
      BY <1>2, <1>4, <2>1
    <3>2. QED BY <1>2, <3>1, BetweenIsMatch
  <2>2. ASSUME i < L PROVE ~StartsWith(ary, call, i, Length(call))
    <3>1. i \in call.left .. L - 1
      BY <1>2, <1>4, <2>2
    <3>2. QED BY <1>2, <1>4, <3>1, BelowIsNoMatch
  <2>3. ASSUME i >= R PROVE ~StartsWith(ary, call, i, Length(call))
    <3>1. i \in R .. call.right
      BY <1>2, <1>4, <2>3
    <3>2. QED BY <1>2, <1>4, <3>1, AboveIsNoMatch
  <2>4. QED BY <1>2, <1>4, <2>1, <2>2, <2>3
<1>6. PICK x \in call.left .. call.right : StartsWith(ary, call, x, Length(call))
  <2>1. sbr_1.center \in call.left .. call.right
    BY <1>2, <1>3 DEF MatchedOK, WindowOK, SbrType
  <2>2. QED BY <1>3, <2>1 DEF MatchedOK
<1>7. L <= x /\ x <= R - 1
  BY <1>5, <1>6
<1>8. L \in call.left .. call.right /\ R - 1 \in call.left .. call.right
  BY <1>2, <1>4, <1>7
<1>9. Abstract!Hits(ary, call) = L .. R - 1
  <2>1. \A i \in call.left .. call.right :
          Abstract!Occurs(ary, call, i) <=> L <= i /\ i <= R - 1
    BY <1>2, <1>5, OccursIsStartsWith
  <2>2. \A i : i \in L .. R - 1 <=>
                i \in call.left .. call.right /\ L <= i /\ i <= R - 1
    BY <1>2, <1>4, <1>8
  <2>3. QED BY <2>1, <2>2 DEF Abstract!Hits
<1>10. x \in L .. R - 1
  BY <1>2, <1>4, <1>7
<1>11. QED
  BY <1>1, <1>8, <1>9, <1>10 DEF Abstract!CorrectAnswer

LEMMA ReturnKeepsIInv ==
  ASSUME IInv, Return
  PROVE  IInv'
<1>1. /\ pc' = "idle" /\ ary' = ary /\ step' = step /\ call' = call
      /\ keyary' = keyary
      /\ sbr' = NoSbr /\ sbr_1' = NoSbr /\ sbr_r' = NoSbr
  BY DEF Return
<1>2. TypeOK
  BY DEF IInv
<1>3. TypeOK'
  BY <1>1, <1>2, NoSbrType DEF TypeOK
<1>4. ResultCorrect'
  BY <1>1, ReturnIsCorrect DEF ResultCorrect
<1>5. QED
  BY <1>1, <1>3, <1>4 DEF IInv

-----------------------------------------------------------------------------
(* IInv holds in every state: initially, and after each action.            *)
LEMMA InitIInv == Init => IInv
<1> SUFFICES ASSUME Init PROVE IInv
  OBVIOUS
<1>1. TypeOK
  <2>1. keyary \in [0 .. KeywordMaxLength - 1 -> -1 .. 256]
    BY DEF Init
  <2>2. /\ call \in [key : Seq(1 .. 255), left : Nat, right : Nat, base_txt_skip : Nat]
        /\ Len(call.key) < KeywordMaxLength
    BY NumbersAssumption DEF Init
  <2>3. QED
    BY <2>1, <2>2, NoSbrType DEF Init, TypeOK
<1>2. ResultCorrect
  BY DEF Init, ResultCorrect
<1>3. QED BY <1>1, <1>2 DEF Init, IInv

LEMMA NextIInv == IInv /\ [Next]_vars => IInv'
<1> SUFFICES ASSUME IInv, [Next]_vars PROVE IInv'
  OBVIOUS
<1>1. CASE \E key \in Keys, l, r \in Positions, skip \in Skips : Find(key, l, r, skip)
  BY <1>1, FindKeepsIInv
<1>2. CASE Internal
  BY <1>2, ProbeLessKeepsIInv, ProbeGreaterKeepsIInv, ProbeMatchKeepsIInv,
     LoopEndKeepsIInv, Step1FailsKeepsIInv, Step2KeepsIInv, Step3KeepsIInv,
     ReturnKeepsIInv DEF Internal
<1>3. CASE UNCHANGED vars
  BY <1>3 DEF vars, IInv, TypeOK, SbrType, RunningInv, CallHolds, ResultCorrect
<1>4. QED BY <1>1, <1>2, <1>3 DEF Next

THEOREM InductiveInvariant == Spec => []IInv
BY InitIInv, NextIInv, PTL DEF Spec

(* The variables of sa_find and sa_bsearch keep their types: no midpoint,  *)
(* window end or prefix length is ever negative or overflows.              *)
THEOREM TypeCorrect == Spec => []TypeOK
<1>1. IInv => TypeOK
  BY DEF IInv
<1>2. QED BY <1>1, InductiveInvariant, PTL

(* sa_find answers FAIL exactly when the key occurs nowhere in the range,  *)
(* and otherwise returns exactly the range of the occurrences: for every   *)
(* text, every sorted array of index points, every key and every history   *)
(* of earlier calls.                                                       *)
THEOREM SearchCorrect == Spec => []ResultCorrect
<1>1. IInv => ResultCorrect
  BY DEF IInv
<1>2. QED BY <1>1, InductiveInvariant, PTL
-----------------------------------------------------------------------------
(* How the invariant, stated of the key, reads in terms of keyary.         *)
LEMMA KeyaryFacts ==
  ASSUME IInv, pc # "idle", NEW i \in call.left .. call.right
  PROVE  /\ \A n \in 0 .. Length(call) :
              StartsWith(ary, call, i, n) => Agrees(i, n)
         /\ LeftSide(ary, call, step, i) => Below(i)
         /\ RightSide(ary, call, step, i) => Above(i)
<1>1. /\ GoodCall(ary, call) /\ TypeOK /\ RunningInv /\ CallHolds
      /\ Length(call) \in Nat /\ Length(call) = Len(call.key)
  BY RunningFacts DEF RunningInv
<1>2. \A k : EntryByte(i, k) = EntryChar(ary, call, i, k)
  BY DEF EntryByte, EntryChar
<1>3. \A k \in 0 .. Length(call) - 1 : keyary[k] = KeyChar(call, k)
  BY <1>1 DEF CallHolds
<1>4. ASSUME NEW n \in 0 .. Length(call), StartsWith(ary, call, i, n)
      PROVE  Agrees(i, n)
  <2>1. \A k \in 0 .. n - 1 : k \in 0 .. Length(call) - 1
    BY <1>1
  <2>2. QED BY <1>2, <1>3, <1>4, <2>1 DEF Agrees, StartsWith
<1>5. /\ KeyLen \in Nat /\ Length(call) <= KeyLen
      /\ step # 1 => KeyLen = Length(call) + 1
  BY <1>1 DEF KeyLen, TypeOK
<1>6. \A k \in 0 .. Length(call) - 1 :
        k \in 0 .. KeyLen - 1 /\ k \in 0 .. Length(call)
  BY <1>1, <1>5
<1>7. ASSUME KeyBelow(ary, call, i) PROVE Below(i)
  <2>1. PICK k \in 0 .. Length(call) - 1 :
          StartsWith(ary, call, i, k) /\ EntryChar(ary, call, i, k) < KeyChar(call, k)
    BY <1>7 DEF KeyBelow
  <2>2. QED BY <1>2, <1>3, <1>4, <1>6, <2>1 DEF Below
<1>8. ASSUME KeyAbove(ary, call, i) PROVE Above(i)
  <2>1. PICK k \in 0 .. Length(call) - 1 :
          StartsWith(ary, call, i, k) /\ EntryChar(ary, call, i, k) > KeyChar(call, k)
    BY <1>8 DEF KeyAbove
  <2>2. QED BY <1>2, <1>3, <1>4, <1>6, <2>1 DEF Above
<1>9. ASSUME StartsWith(ary, call, i, Length(call))
      PROVE  (step = 2 => Below(i)) /\ (step = 3 => Above(i))
  <2>1. Agrees(i, Length(call))
    BY <1>1, <1>4, <1>9
  <2>2. EntryByte(i, Length(call)) \in 0 .. 255
    BY <1>1, <1>2, EntryType DEF Byte
  <2>3. step # 1 => Length(call) \in 0 .. KeyLen - 1
    BY <1>1, <1>5
  <2>4. (step = 2 => keyary[Length(call)] = 256) /\ (step = 3 => keyary[Length(call)] = -1)
    BY <1>1 DEF CallHolds
  <2>5. step = 2 => Below(i)
    BY <2>1, <2>2, <2>3, <2>4 DEF Below
  <2>6. step = 3 => Above(i)
    BY <2>1, <2>2, <2>3, <2>4 DEF Above
  <2>7. QED BY <2>5, <2>6
<1>10. QED
  BY <1>4, <1>7, <1>8, <1>9 DEF LeftSide, RightSide, NotAbove, NotBelow

(* No search of sa_find ever drops an entry it might still have to return: *)
(* what is left of the window is below the key searched for, what is right *)
(* of it above.                                                            *)
THEOREM WindowCorrect == Spec => []WindowKeepsAnswers
<1>1. ASSUME IInv PROVE WindowKeepsAnswers
  <2> SUFFICES ASSUME pc # "idle"
               PROVE  /\ \A i \in call.left .. sbr.left - 1 : Below(i)
                      /\ \A i \in sbr.right .. call.right : Above(i)
    BY DEF WindowKeepsAnswers
  <2>1. /\ WindowOK(ary, call, step, sbr)
        /\ call.left \in Nat /\ call.right \in Nat
        /\ sbr.left \in Nat /\ sbr.right \in Nat
    BY <1>1, RunningFacts DEF RunningInv, SbrType
  <2>2. ASSUME NEW i \in call.left .. sbr.left - 1 PROVE Below(i)
    <3>1. i \in call.left .. call.right
      BY <2>1 DEF WindowOK
    <3>2. LeftSide(ary, call, step, i)
      BY <2>1 DEF WindowOK
    <3>3. QED BY <1>1, <3>1, <3>2, KeyaryFacts
  <2>3. ASSUME NEW i \in sbr.right .. call.right PROVE Above(i)
    <3>1. i \in call.left .. call.right
      BY <2>1 DEF WindowOK
    <3>2. RightSide(ary, call, step, i)
      BY <2>1 DEF WindowOK
    <3>3. QED BY <1>1, <3>1, <3>2, KeyaryFacts
  <2>4. QED BY <2>2, <2>3
<1>2. QED BY <1>1, InductiveInvariant, PTL

(* The bytes a probe skips agree with the key in every entry of the        *)
(* window: the optimisation of left_prefix_len and right_prefix_len is     *)
(* sound.                                                                  *)
THEOREM SkipsAreSound == Spec => []SkippedBytesAgree
<1>1. ASSUME IInv PROVE SkippedBytesAgree
  <2> SUFFICES ASSUME pc = "loop"
               PROVE  /\ 0 <= KeySkip /\ KeySkip <= KeyLen
                      /\ \A i \in sbr.left .. sbr.right - 1 : Agrees(i, KeySkip)
    BY DEF SkippedBytesAgree
  <2>1. /\ TypeOK /\ RunningInv /\ sbr \in SbrType
        /\ call.base_txt_skip \in Nat
        /\ Length(call) \in Nat /\ Length(call) = Len(call.key)
    BY <1>1, RunningFacts
  <2>2. KeySkip \in 0 .. Length(call)
    BY <2>1 DEF RunningInv, PrefixesOK, TxtSkip, KeySkip, SbrType
  <2>3. KeySkip <= KeyLen
    BY <2>1, <2>2 DEF KeyLen, TypeOK
  <2>4. ASSUME NEW i \in sbr.left .. sbr.right - 1 PROVE Agrees(i, KeySkip)
    <3>1. InLoop
      BY <2>1 DEF InLoop, SbrType
    <3>2. i \in call.left .. call.right /\ StartsWith(ary, call, i, KeySkip)
      BY <1>1, <3>1, ProbeFacts
    <3>3. QED BY <1>1, <2>2, <3>2, KeyaryFacts
  <2>5. QED BY <2>2, <2>3, <2>4
<1>2. QED BY <1>1, InductiveInvariant, PTL

(* No comparison reads further than one byte behind the end of the text.   *)
THEOREM ReadsBounded == Spec => []ReadsStopAtEndOfText
<1>1. ASSUME IInv PROVE ReadsStopAtEndOfText
  <2> SUFFICES ASSUME InLoop, NEW d \in 0 .. KeyLen - KeySkip - 1, SameUpTo(d)
               PROVE  AryIdx2TxtIdx(ary, Cur) + TxtSkip + d <= Len(ary.text)
    BY DEF ReadsStopAtEndOfText
  <2>1. /\ GoodCall(ary, call) /\ TypeOK
        /\ call.base_txt_skip \in Nat
        /\ Length(call) \in Nat /\ Length(call) = Len(call.key)
    BY <1>1, RunningFacts DEF InLoop
  <2>2. /\ Cur \in call.left .. call.right
        /\ KeySkip \in Nat /\ TxtSkip = call.base_txt_skip + KeySkip
    BY <1>1, ProbeFacts
  <2> DEFINE p == AryIdx2TxtIdx(ary, Cur) + call.base_txt_skip
             e == KeySkip + d
             n == Len(ary.text)
  <2>3. d \in Nat /\ e \in Nat /\ e <= Length(call)
    BY <2>1, <2>2 DEF KeyLen, TypeOK
  <2>4. StartsWith(ary, call, Cur, e)
    BY <1>1, <2>2, <2>3, CompareFacts
  <2>5. p \in Nat /\ n \in Nat /\ p <= n /\ AryIdx2TxtIdx(ary, Cur) \in Nat
    BY <2>1, <2>2, EntryPlace
  <2>6. p + e <= n
    <3>1. CASE e = 0
      BY <2>5, <3>1
    <3>2. CASE e # 0
      <4>1. e - 1 \in 0 .. e - 1 /\ e - 1 \in 0 .. Length(call) - 1
        BY <2>1, <2>3, <3>2
      <4>2. EntryChar(ary, call, Cur, e - 1) = KeyChar(call, e - 1)
        BY <2>4, <4>1 DEF StartsWith
      <4>3. KeyChar(call, e - 1) \in 1 .. 255
        BY <2>1, <4>1, KeyByteType DEF GoodCall
      <4>4. EntryChar(ary, call, Cur, e - 1) = Char(ary, p + (e - 1))
        BY <2>1, <2>2, <4>1, EntryType
      <4>5. Char(ary, p + (e - 1)) # 0
        BY <4>2, <4>3, <4>4
      <4>6. p + (e - 1) < n
        BY <4>5 DEF Char
      <4>7. QED BY <2>3, <2>5, <4>6
    <3>3. QED BY <3>1, <3>2
  <2>7. AryIdx2TxtIdx(ary, Cur) + TxtSkip + d = p + e
    BY <2>1, <2>2, <2>3, <2>5
  <2>8. QED BY <2>6, <2>7
<1>2. QED BY <1>1, InductiveInvariant, PTL

(* Neither assertion of sa_bsearch fails at any of its three entries: the  *)
(* window of step 1 is the caller's range, those of steps 2 and 3 hold the *)
(* entry step 1 has matched.                                               *)
THEOREM AssertionsHold == Spec => EntryAssertions
<1> DEFINE Holds == pc # "loop" /\ pc' = "loop" =>
                      /\ 0 <= sbr'.left /\ sbr'.right <= Len(ary.array)
                      /\ sbr'.left < sbr'.right
<1>1. ASSUME IInv, [Next]_vars PROVE [Holds]_vars
  <2> SUFFICES ASSUME Next, pc # "loop", pc' = "loop"
               PROVE  /\ 0 <= sbr'.left /\ sbr'.right <= Len(ary.array)
                      /\ sbr'.left < sbr'.right
    BY <1>1
  <2>1. ASSUME NEW key \in Keys, NEW l \in Positions, NEW r \in Positions,
               NEW skip \in Skips, Find(key, l, r, skip)
        PROVE  /\ 0 <= sbr'.left /\ sbr'.right <= Len(ary.array)
               /\ sbr'.left < sbr'.right
    <3>1. sbr \in SbrType
      BY <1>1 DEF IInv, TypeOK
    <3>2. sbr'.left = l /\ sbr'.right = r + 1
      BY <2>1, <3>1 DEF Find, SbrType
    <3>3. l <= r
      BY <2>1 DEF Find, Abstract!CallOK
    <3>4. l \in Nat /\ r \in Nat /\ r + 1 <= Len(ary.array)
      BY <1>1 DEF Positions, IInv, TypeOK, IndexesAssumption
    <3>5. QED BY <3>2, <3>3, <3>4
  <2>2. ASSUME pc = "return", Step2 \/ Step3
        PROVE  /\ 0 <= sbr'.left /\ sbr'.right <= Len(ary.array)
               /\ sbr'.left < sbr'.right
    <3>1. /\ RunningInv /\ CallHolds /\ call.right \in Nat /\ call.left \in Nat
          /\ sbr \in SbrType /\ sbr_1 \in SbrType
          /\ GoodCall(ary, call)
      BY <1>1, <2>2, RunningFacts DEF RunningInv, GoodCall, TypeOK
    <3>2. call.right + 1 <= Len(ary.array)
      BY <3>1 DEF CallHolds, Abstract!CallOK, GoodCall, IndexOK
    <3>3. CASE Step2
      <4>1. /\ sbr.left <= sbr.center /\ sbr.center < sbr.right
            /\ sbr.right <= call.right + 1
        BY <2>2, <3>1, <3>3 DEF Step2, RunningInv, MatchedOK, WindowOK
      <4>2. sbr'.left = sbr.center /\ sbr'.right = sbr.right
        BY <3>1, <3>3 DEF Step2, SbrType
      <4>3. QED BY <3>1, <3>2, <4>1, <4>2 DEF SbrType
    <3>4. CASE Step3
      <4>1. /\ sbr_1.left <= sbr_1.center /\ sbr_1.center < sbr_1.right
            /\ sbr_1.right <= call.right + 1
        BY <3>1, <3>4 DEF Step3, RunningInv, MatchedOK, WindowOK
      <4>2. sbr'.left = sbr_1.left /\ sbr'.right = sbr_1.center + 1
        BY <3>1, <3>4 DEF Step3, SbrType
      <4>3. QED BY <3>1, <3>2, <4>1, <4>2 DEF SbrType
    <3>5. QED BY <2>2, <3>3, <3>4
  <2>3. ASSUME Internal PROVE pc = "return" /\ (Step2 \/ Step3)
    BY <2>3 DEF Internal, ProbeLess, ProbeGreater, ProbeMatch, LoopEnd, InLoop,
                Step1Fails, Step2, Step3, Return
  <2>4. QED BY <2>1, <2>2, <2>3 DEF Next
<1>2. QED BY <1>1, InductiveInvariant, PTL DEF Spec, EntryAssertions

(* sa_find implements its abstract promise: a call is the abstract Ask,    *)
(* its return the abstract Answer, and every step between is a stutter.    *)
THEOREM SearchImplementsFindSpec ==
  Spec => Abstract!Init /\ [][Abstract!Next]_(Abstract!vars)
<1>1. Init => Abstract!Init
  BY DEF Init, Abstract!Init, Abstract!NoResult
<1>2. ASSUME IInv, [Next]_vars
      PROVE  [Abstract!Next]_(Abstract!vars)
  <2>1. ASSUME NEW key \in Keys, NEW l \in Positions, NEW r \in Positions,
               NEW skip \in Skips, Find(key, l, r, skip)
        PROVE  Abstract!Next
    <3>1. Abstract!Ask(key, l, r, skip)
      BY <2>1 DEF Find, Abstract!Ask
    <3>2. l \in Abstract!Positions /\ r \in Abstract!Positions
      BY DEF Positions, Abstract!Positions
    <3>3. QED BY <3>1, <3>2 DEF Abstract!Next
  <2>2. CASE ProbeLess \/ ProbeGreater \/ ProbeMatch \/ LoopEnd \/ Step2 \/ Step3
    BY <2>2 DEF ProbeLess, ProbeGreater, ProbeMatch, LoopEnd, Step2, Step3,
                InLoop, Abstract!vars
  <2>3. CASE Step1Fails
    <3>1. ary' = ary /\ call' = call /\ pc = "return" /\ pc' = "idle"
      BY <2>3 DEF Step1Fails
    <3>2. ResultCorrect' /\ sr' = Abstract!NotFound
      BY <1>2, <2>3, Step1FailsKeepsIInv DEF IInv, Step1Fails
    <3>3. sr' # Abstract!NoResult
      BY <3>2 DEF Abstract!NotFound, Abstract!NoResult
    <3>4. Abstract!CorrectAnswer(ary, call, sr')
      BY <3>1, <3>2, <3>3 DEF ResultCorrect
    <3>5. Abstract!Answer
      BY <3>1, <3>4 DEF Abstract!Answer
    <3>6. QED BY <3>5 DEF Abstract!Next
  <2>4. CASE Return
    <3>1. ary' = ary /\ call' = call /\ pc = "return" /\ pc' = "idle"
      BY <2>4 DEF Return
    <3>2. Abstract!CorrectAnswer(ary, call, sr')
      BY <1>2, <2>4, ReturnIsCorrect
    <3>3. Abstract!Answer
      BY <3>1, <3>2 DEF Abstract!Answer
    <3>4. QED BY <3>3 DEF Abstract!Next
  <2>5. CASE UNCHANGED vars
    BY <2>5 DEF vars, Abstract!vars
  <2>6. QED BY <1>2, <2>1, <2>2, <2>3, <2>4, <2>5 DEF Next, Internal
<1>3. QED
  BY <1>1, <1>2, InductiveInvariant, PTL DEF Spec
=============================================================================
