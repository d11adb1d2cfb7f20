-------------------------- MODULE WriteIndexProofs --------------------------
(***************************************************************************)
(* That sa_write_index writes the index points in the order of the text,   *)
(* and those the options ask for, for texts of any size.  First what the   *)
(* functions of index-point.c return; the one for characters goes from     *)
(* character to character, so that its argument counts from the end of the *)
(* text.                                                                   *)
(***************************************************************************)
EXTENDS WriteIndex, FiniteSetTheorems, WellFoundedInduction, TLAPS

LEMMA LeastNumber ==
  ASSUME NEW T, T \subseteq Nat, T # {}
  PROVE  \E x \in T : \A y \in T : x <= y
<1>1. PICK x \in T : \A y \in T : ~ (<<y, x>> \in OpToRel(<, Nat))
  BY NatLessThanWellFounded, WFMin
<1>2. \A y \in T : ~ (y < x)
  BY <1>1 DEF OpToRel
<1>. QED  BY <1>2

(* What holds from n on if it does from n + 1 on holds from 0 on.          *)
LEMMA Downwards ==
  ASSUME NEW T, NEW n \in Nat, n \in T,
         \A m \in Nat : m + 1 \in T => m \in T
  PROVE  0 \in T
<1> DEFINE S == T \cap Nat
<1>1. PICK x \in S : \A y \in S : x <= y
  <2>1. S \subseteq Nat /\ S # {}
    OBVIOUS
  <2> HIDE DEF S
  <2>. QED  BY <2>1, LeastNumber
<1>2. x \in Nat /\ x \in T
  OBVIOUS
<1>3. CASE x = 0
  BY <1>2, <1>3
<1>4. CASE x # 0
  <2>1. x - 1 \in Nat /\ (x - 1) + 1 \in T
    BY <1>2, <1>4
  <2>2. x - 1 \in S
    BY <2>1
  <2>3. x <= x - 1
    BY <1>1, <2>2
  <2>. QED  BY <1>2, <2>3
<1>. QED  BY <1>3, <1>4

LEMMA LeastOf ==
  ASSUME NEW T, T \subseteq Nat, T # {}
  PROVE  Min(T) \in T /\ \A y \in T : Min(T) <= y
BY LeastNumber DEF Min

(* The next of a set of positions behind ip, or the end of the text.       *)
LEMMA LeastIsNext ==
  ASSUME NEW t \in Seq(ByteClass), NEW lo \in Nat, lo <= Len(t),
         NEW S, S \subseteq lo .. Len(t) - 1
  PROVE  /\ Least(t, S) \in Nat /\ lo <= Least(t, S) /\ Least(t, S) <= Len(t)
         /\ \A q \in lo .. Least(t, S) - 1 : q \notin S
         /\ Least(t, S) < Len(t) => Least(t, S) \in S
<1>1. PICK l \in Nat : l = Len(t)
  OBVIOUS
<1>2. CASE S = {}
  BY <1>1, <1>2 DEF Least
<1>3. CASE S # {}
  <2>1. S \subseteq Nat
    BY <1>1
  <2>2. PICK m \in S : m = Min(S) /\ \A y \in S : m <= y
    BY <1>3, <2>1, LeastOf
  <2>3. Least(t, S) = m
    BY <1>3, <2>2 DEF Least
  <2>4. m \in lo .. l - 1
    BY <1>1
  <2>5. \A q \in lo .. m - 1 : q \notin S
    <3> SUFFICES ASSUME NEW q \in lo .. m - 1, q \in S PROVE FALSE
      OBVIOUS
    <3>1. m <= q
      BY <2>2
    <3>. QED  BY <2>4, <3>1
  <2>. QED  BY <1>1, <2>2, <2>3, <2>4, <2>5
<1>. QED  BY <1>2, <1>3
-----------------------------------------------------------------------------
(* sa_get_next_ip_char.  Its loop from p on: From is a function that does  *)
(* what one turn says.                                                     *)
Turn(t, o, f, p) ==
  IF p >= Len(t) THEN Len(t)
  ELSE IF Wanted(t, o, p) THEN p
  ELSE f[SkipOneChar(t, p)]

LEMMA SkipForward ==
  ASSUME NEW t, NEW p \in Nat
  PROVE  SkipOneChar(t, p) \in Nat /\ p < SkipOneChar(t, p)
BY DEF SkipOneChar

LEMMA LoopExists ==
  ASSUME NEW t \in Seq(ByteClass), NEW o
  PROVE  \E f : f = [p \in Nat |-> Turn(t, o, f, p)]
<1> DEFINE Behind(n) == {p \in Nat : n <= p}
           Good(n, g) == \A p \in Behind(n) : g[p] = Turn(t, o, g, p)
           T == {n \in Nat : \E g : Good(n, g)}
<1>1. Len(t) \in T
  <2> DEFINE g == [p \in Nat |-> Len(t)]
  <2>1. Len(t) \in Nat
    OBVIOUS
  <2>2. Good(Len(t), g)
    BY <2>1 DEF Turn
  <2> HIDE DEF Good, g
  <2>. QED  BY <2>1, <2>2
<1>2. ASSUME NEW m \in Nat, m + 1 \in T
      PROVE  m \in T
  <2>1. PICK g : Good(m + 1, g)
    BY <1>2
  <2> DEFINE h == [p \in Nat |-> IF p = m THEN Turn(t, o, g, m) ELSE g[p]]
  <2>2. ASSUME NEW p \in Behind(m)
        PROVE  h[p] = Turn(t, o, h, p)
    <3>1. p \in Nat /\ SkipOneChar(t, p) \in Nat /\ p < SkipOneChar(t, p)
      BY SkipForward
    <3>2. h[SkipOneChar(t, p)] = g[SkipOneChar(t, p)]
      BY <3>1
    <3>3. Turn(t, o, h, p) = Turn(t, o, g, p)
      BY <3>2 DEF Turn
    <3>4. CASE p = m
      BY <3>3, <3>4
    <3>5. CASE p # m
      <4>1. p \in Behind(m + 1)
        BY <3>1, <3>5
      <4>2. g[p] = Turn(t, o, g, p)
        BY <2>1, <4>1
      <4>3. h[p] = g[p]
        BY <3>1, <3>5
      <4>. QED  BY <3>3, <4>2, <4>3
    <3>. QED  BY <3>4, <3>5
  <2> HIDE DEF h
  <2>3. Good(m, h)
    BY <2>2
  <2> HIDE DEF Good
  <2>. QED  BY <2>3
<1>3. 0 \in T
  <2> HIDE DEF T
  <2>1. Len(t) \in Nat
    OBVIOUS
  <2>. QED  BY <1>1, <1>2, <2>1, Downwards
<1>4. PICK g : Good(0, g)
  BY <1>3
<1> DEFINE f == [p \in Nat |-> g[p]]
<1>5. f = [p \in Nat |-> Turn(t, o, f, p)]
  <2>1. ASSUME NEW p \in Nat
        PROVE  f[p] = Turn(t, o, f, p)
    <3>1. p \in Behind(0) /\ SkipOneChar(t, p) \in Nat
      BY SkipForward
    <3>2. g[p] = Turn(t, o, g, p)
      BY <1>4, <3>1
    <3>3. f[SkipOneChar(t, p)] = g[SkipOneChar(t, p)]
      BY <3>1
    <3>4. Turn(t, o, f, p) = Turn(t, o, g, p)
      BY <3>3 DEF Turn
    <3>. QED  BY <3>2, <3>4
  <2>2. f = [p \in Nat |-> f[p]]
    OBVIOUS
  <2> HIDE DEF f
  <2>. QED  BY <2>1, <2>2
<1> HIDE DEF f
<1>. QED  BY <1>5

Loop(t, o, f) == \A p \in Nat : f[p] = Turn(t, o, f, p)

LEMMA NextCharLoop ==
  ASSUME NEW t \in Seq(ByteClass), NEW o, NEW ip
  PROVE  \E f : /\ Loop(t, o, f)
                /\ NextChar(t, o, ip) = f[IF ip = -1 THEN 0 ELSE SkipOneChar(t, ip)]
<1> DEFINE Eq(f) == f = [p \in Nat |-> Turn(t, o, f, p)]
           f == CHOOSE g : Eq(g)
<1>1. NextChar(t, o, ip) = f[IF ip = -1 THEN 0 ELSE SkipOneChar(t, ip)]
  BY DEF NextChar, Turn
<1>2. \E g : Eq(g)
  BY LoopExists
<1>3. Eq(f)
  <2> HIDE DEF Eq
  <2>. QED  BY <1>2
<1> HIDE DEF f
<1>4. Loop(t, o, f)
  <2>1. f = [p \in Nat |-> Turn(t, o, f, p)]
    BY <1>3
  <2>. QED  BY <2>1 DEF Loop
<1>. QED  BY <1>1, <1>4

LEMMA CharBounds ==
  ASSUME NEW t \in Seq(ByteClass), NEW o, NEW f, Loop(t, o, f)
  PROVE  \A p \in Nat : /\ f[p] \in Nat /\ f[p] <= Len(t)
                        /\ p <= Len(t) => p <= f[p]
<1>0. PICK l \in Nat : l = Len(t)
  OBVIOUS
<1> DEFINE Good(p) == f[p] \in Nat /\ f[p] <= l /\ (p <= l => p <= f[p])
           T == {n \in Nat : \A p \in Nat : n <= p => Good(p)}
<1>1. ASSUME NEW p \in Nat, l <= p
      PROVE  Good(p)
  <2>1. f[p] = l
    BY <1>0, <1>1 DEF Loop, Turn
  <2>. QED  BY <1>1, <2>1
<1>2. ASSUME NEW m \in Nat, m + 1 \in T
      PROVE  Good(m)
  <2>1. PICK k \in Nat : k = SkipOneChar(t, m) /\ m < k
    BY SkipForward
  <2>2. Good(k)
    BY <1>2, <2>1
  <2>3. f[m] = IF m >= l THEN l ELSE IF Wanted(t, o, m) THEN m ELSE f[k]
    BY <1>0, <2>1 DEF Loop, Turn
  <2>4. CASE m >= l
    BY <1>1, <2>4
  <2>5. CASE ~ m >= l /\ Wanted(t, o, m)
    BY <2>3, <2>5
  <2>6. CASE ~ m >= l /\ ~ Wanted(t, o, m)
    <3>1. f[m] = f[k]
      BY <2>3, <2>6
    <3>2. CASE k <= l
      BY <2>1, <2>2, <3>1, <3>2
    <3>3. CASE ~ k <= l
      <4>1. f[k] = l
        BY <1>0, <3>3 DEF Loop, Turn
      <4>. QED  BY <2>6, <3>1, <4>1
    <3>. QED  BY <3>2, <3>3
  <2>. QED  BY <2>4, <2>5, <2>6
<1> HIDE DEF Good
<1>3. ASSUME NEW m \in Nat, m + 1 \in T
      PROVE  m \in T
  <2>1. \A p \in Nat : m <= p => p = m \/ m + 1 <= p
    OBVIOUS
  <2>. QED  BY <1>2, <1>3, <2>1
<1>4. l \in T
  BY <1>1
<1>5. 0 \in T
  <2> HIDE DEF T
  <2>. QED  BY <1>3, <1>4, Downwards
<1>. QED  BY <1>0, <1>5 DEF Good
-----------------------------------------------------------------------------
(* Bytes of EUC characters before a position, counted from the left.       *)
LEMMA EucNext ==
  ASSUME NEW t, NEW p \in Nat
  PROVE  /\ EucBefore(t, p) \in Nat
         /\ EucBefore(t, p + 1) = IF MsbOn(At(t, p)) THEN EucBefore(t, p) + 1 ELSE 0
<1> DEFINE B(x) == {q \in 0 .. x - 1 : \A r \in q .. x - 1 : MsbOn(At(t, r))}
<1>1. IsFiniteSet(0 .. p - 1)
  BY FS_Interval
<1>2. IsFiniteSet(B(p))
  <2>1. B(p) \subseteq 0 .. p - 1
    OBVIOUS
  <2> HIDE DEF B
  <2>. QED  BY <1>1, <2>1, FS_Subset
<1>3. CASE MsbOn(At(t, p))
  <2>1. B(p + 1) = B(p) \union {p}
    <3>1. ASSUME NEW q \in B(p + 1), q # p PROVE q \in B(p)
      <4>1. q \in 0 .. p - 1 /\ \A r \in q .. p - 1 : r \in q .. (p + 1) - 1
        BY <3>1
      <4>. QED  BY <4>1
    <3>2. ASSUME NEW q \in B(p) PROVE q \in B(p + 1)
      <4>1. q \in 0 .. (p + 1) - 1 /\ \A r \in q .. (p + 1) - 1 : r = p \/ r \in q .. p - 1
        OBVIOUS
      <4>. QED  BY <1>3, <4>1
    <3>3. p \in B(p + 1)
      <4>1. p \in 0 .. (p + 1) - 1 /\ \A r \in p .. (p + 1) - 1 : r = p
        OBVIOUS
      <4>. QED  BY <1>3, <4>1
    <3> HIDE DEF B
    <3>. QED  BY <3>1, <3>2, <3>3
  <2>2. p \notin B(p)
    OBVIOUS
  <2>3. EucBefore(t, p + 1) = Cardinality(B(p + 1)) /\ EucBefore(t, p) = Cardinality(B(p))
    BY DEF EucBefore
  <2> HIDE DEF B
  <2>4. Cardinality(B(p) \union {p}) = Cardinality(B(p)) + 1 /\ Cardinality(B(p)) \in Nat
    BY <1>2, <2>2, FS_AddElement, FS_CardinalityType
  <2>. QED  BY <1>3, <2>1, <2>3, <2>4
<1>4. CASE ~ MsbOn(At(t, p))
  <2>1. B(p + 1) = {}
    <3> SUFFICES ASSUME NEW q \in B(p + 1) PROVE FALSE
      OBVIOUS
    <3>1. p \in q .. (p + 1) - 1
      OBVIOUS
    <3>. QED  BY <1>4, <3>1
  <2>2. EucBefore(t, p + 1) = Cardinality(B(p + 1)) /\ EucBefore(t, p) = Cardinality(B(p))
    BY DEF EucBefore
  <2> HIDE DEF B
  <2>3. Cardinality(B(p)) \in Nat /\ Cardinality({}) = 0
    BY <1>2, FS_CardinalityType, FS_EmptySet
  <2>. QED  BY <1>4, <2>1, <2>2, <2>3
<1>. QED  BY <1>3, <1>4

CharStart(t, p) == EucBefore(t, p) % 2 = 0

LEMMA FirstStart ==
  ASSUME NEW t PROVE CharStart(t, 0)
<1>1. {q \in 0 .. 0 - 1 : \A r \in q .. 0 - 1 : MsbOn(At(t, r))} = {}
  OBVIOUS
<1>. QED  BY <1>1, FS_EmptySet DEF CharStart, EucBefore

(* Where characters are whole, sa_skip_one_char goes to the next one.      *)
LEMMA SkipToStart ==
  ASSUME NEW t \in Seq(ByteClass), WholeCharacters(t), NEW p \in Nat, p < Len(t),
         CharStart(t, p)
  PROVE  /\ SkipOneChar(t, p) <= Len(t)
         /\ CharStart(t, SkipOneChar(t, p))
         /\ \A q \in p + 1 .. SkipOneChar(t, p) - 1 : ~ CharStart(t, q)
<1>0. PICK l \in Nat : l = Len(t)
  OBVIOUS
<1>1. CASE ~ MsbOn(At(t, p))
  <2>1. SkipOneChar(t, p) = p + 1 /\ EucBefore(t, p + 1) = 0
    BY <1>1, EucNext DEF SkipOneChar
  <2>. QED  BY <1>0, <2>1 DEF CharStart
<1>2. CASE MsbOn(At(t, p))
  <2>1. PICK b \in Nat : b = EucBefore(t, p) /\ EucBefore(t, p + 1) = b + 1
    BY <1>2, EucNext
  <2>2. b % 2 = 0
    BY <2>1 DEF CharStart
  <2>3. (b + 1) % 2 = 1 /\ (b + 2) % 2 = 0
    BY <2>2
  <2>4. ~ CharStart(t, p + 1)
    BY <2>1, <2>3 DEF CharStart
  <2>5. p + 1 \in 1 .. l /\ p + 1 # l /\ MsbOn(At(t, p + 1))
    <3>1. p + 1 \in 1 .. l
      BY <1>0
    <3>2. ~ (p + 1 = l \/ ~ MsbOn(At(t, p + 1)))
      BY <1>0, <2>4, <3>1 DEF WholeCharacters, CharStart
    <3>. QED  BY <3>1, <3>2
  <2>6. EucBefore(t, (p + 1) + 1) = (b + 1) + 1
    <3>1. p + 1 \in Nat
      OBVIOUS
    <3>2. EucBefore(t, (p + 1) + 1) = EucBefore(t, p + 1) + 1
      BY <2>5, <3>1, EucNext
    <3>. QED  BY <2>1, <3>2
  <2>7. (p + 1) + 1 = p + 2 /\ (b + 1) + 1 = b + 2
    OBVIOUS
  <2>8. CharStart(t, p + 2)
    BY <2>3, <2>6, <2>7 DEF CharStart
  <2>9. SkipOneChar(t, p) = p + 2
    BY <1>2 DEF SkipOneChar
  <2>10. \A q \in p + 1 .. (p + 2) - 1 : q = p + 1
    OBVIOUS
  <2>. QED  BY <1>0, <2>4, <2>5, <2>8, <2>9, <2>10
<1>. QED  BY <1>1, <1>2

(* From a character on, the loop finds the first that is wanted.           *)
LEMMA CharAsked ==
  ASSUME NEW t \in Seq(ByteClass), NEW o, NEW f, Loop(t, o, f), WholeCharacters(t)
  PROVE  \A p \in Nat : p <= Len(t) /\ CharStart(t, p) =>
           /\ \A q \in p .. f[p] - 1 : ~ (CharStart(t, q) /\ Wanted(t, o, q))
           /\ f[p] < Len(t) => CharStart(t, f[p]) /\ Wanted(t, o, f[p])
<1>0. PICK l \in Nat : l = Len(t)
  OBVIOUS
<1> DEFINE Pass(p) == \A q \in p .. f[p] - 1 : ~ (CharStart(t, q) /\ Wanted(t, o, q))
           Take(p) == f[p] < l => CharStart(t, f[p]) /\ Wanted(t, o, f[p])
           Good(p) == p <= l /\ CharStart(t, p) => Pass(p) /\ Take(p)
           T == {n \in Nat : \A p \in Nat : n <= p => Good(p)}
<1>1. ASSUME NEW p \in Nat, l <= p
      PROVE  Good(p)
  <2>1. f[p] = l
    BY <1>0, <1>1 DEF Loop, Turn
  <2>. QED  BY <1>1, <2>1
<1>2. ASSUME NEW m \in Nat, m + 1 \in T
      PROVE  Good(m)
  <2>1. PICK k \in Nat : k = SkipOneChar(t, m) /\ m < k
    BY SkipForward
  <2>2. Good(k)
    BY <1>2, <2>1
  <2>3. f[m] = IF m >= l THEN l ELSE IF Wanted(t, o, m) THEN m ELSE f[k]
    BY <1>0, <2>1 DEF Loop, Turn
  <2>4. CASE m >= l
    BY <1>1, <2>4
  <2>5. CASE ~ m >= l /\ Wanted(t, o, m)
    <3>1. f[m] = m
      BY <2>3, <2>5
    <3>. QED  BY <2>5, <3>1
  <2>6. CASE ~ m >= l /\ ~ Wanted(t, o, m)
    <3> SUFFICES ASSUME CharStart(t, m) PROVE Pass(m) /\ Take(m)
      OBVIOUS
    <3>1. f[m] = f[k]
      BY <2>3, <2>6
    <3>2. /\ k <= l /\ CharStart(t, k)
          /\ \A q \in m + 1 .. k - 1 : ~ CharStart(t, q)
      BY <1>0, <2>1, <2>6, SkipToStart
    <3>3. Pass(k) /\ Take(k)
      BY <2>2, <3>2
    <3>4. f[k] \in Nat
      BY CharBounds
    <3>5. Pass(m)
      <4> SUFFICES ASSUME NEW q \in m .. f[k] - 1
                   PROVE  ~ (CharStart(t, q) /\ Wanted(t, o, q))
        BY <3>1
      <4>1. q = m \/ q \in m + 1 .. k - 1 \/ q \in k .. f[k] - 1
        BY <2>1, <3>4
      <4>. QED  BY <2>6, <3>2, <3>3, <4>1
    <3>6. Take(m)
      BY <3>1, <3>3
    <3>. QED  BY <3>5, <3>6
  <2>. QED  BY <2>4, <2>5, <2>6
<1> HIDE DEF Good
<1>3. ASSUME NEW m \in Nat, m + 1 \in T
      PROVE  m \in T
  <2>1. \A p \in Nat : m <= p => p = m \/ m + 1 <= p
    OBVIOUS
  <2>. QED  BY <1>2, <1>3, <2>1
<1>4. l \in T
  BY <1>1
<1>5. 0 \in T
  <2> HIDE DEF T
  <2>. QED  BY <1>3, <1>4, Downwards
<1>. QED  BY <1>0, <1>5 DEF Good
-----------------------------------------------------------------------------
(* All the functions go forward, to the end of the text at most.           *)
LEMMA NextIpBounds ==
  ASSUME NEW t \in Seq(ByteClass), NEW o \in OptionType, t # <<>>,
         NEW ip \in Int, -1 <= ip, ip < Len(t)
  PROVE  NextIp(t, o, ip) \in Nat /\ ip < NextIp(t, o, ip) /\ NextIp(t, o, ip) <= Len(t)
<1>0. PICK l \in Nat : l = Len(t) /\ l > 0
  OBVIOUS
<1>1. PICK lo \in Nat : lo = ip + 1 /\ lo <= Len(t)
  BY <1>0
<1>2. CASE o.next_ip \in {"line", "word"}
  <2>1. NextIp(t, o, ip) = NextAfterDelimiter(t, o, ip)
    BY <1>2 DEF NextIp
  <2>2. CASE ip = -1
    BY <1>0, <2>1, <2>2 DEF NextAfterDelimiter
  <2>3. CASE ip # -1
    <3> DEFINE S == {p \in ip + 1 .. Len(t) - 1 :
                       /\ IsDelimiter(t, o, p - 1)
                       /\ ~ IsDelimiter(t, o, p)
                       /\ ~ IsSkip(t, o, p)}
    <3>1. NextIp(t, o, ip) = Least(t, S)
      BY <2>1, <2>3 DEF NextAfterDelimiter
    <3>2. S \subseteq lo .. Len(t) - 1
      BY <1>1
    <3> HIDE DEF S
    <3>3. Least(t, S) \in Nat /\ lo <= Least(t, S) /\ Least(t, S) <= Len(t)
      BY <1>1, <3>2, LeastIsNext
    <3>. QED  BY <1>1, <3>1, <3>3
  <2>. QED  BY <2>2, <2>3
<1>3. CASE o.next_ip = "char"
  <2>1. NextIp(t, o, ip) = NextChar(t, o, ip)
    BY <1>3 DEF NextIp
  <2>2. PICK f : /\ Loop(t, o, f)
                 /\ NextChar(t, o, ip) = f[IF ip = -1 THEN 0 ELSE SkipOneChar(t, ip)]
    BY NextCharLoop
  <2>3. PICK k \in Nat : k = (IF ip = -1 THEN 0 ELSE SkipOneChar(t, ip)) /\ ip < k
    <3>1. CASE ip = -1
      BY <3>1
    <3>2. CASE ip # -1
      <4>1. ip \in Nat
        BY <3>2
      <4>. QED  BY <3>2, <4>1, SkipForward
    <3>. QED  BY <3>1, <3>2
  <2>4. /\ f[k] \in Nat /\ f[k] <= l
        /\ k <= l => k <= f[k]
    BY <1>0, <2>2, CharBounds
  <2>5. k >= l => f[k] = l
    BY <1>0, <2>2 DEF Loop, Turn
  <2>. QED  BY <1>0, <2>1, <2>2, <2>3, <2>4, <2>5
<1>4. CASE o.next_ip = "byte"
  <2> DEFINE S == {p \in ip + 1 .. Len(t) - 1 : Wanted(t, o, p)}
  <2>1. NextIp(t, o, ip) = Least(t, S)
    BY <1>4 DEF NextIp, NextByte
  <2>2. S \subseteq lo .. Len(t) - 1
    BY <1>1
  <2> HIDE DEF S
  <2>3. Least(t, S) \in Nat /\ lo <= Least(t, S) /\ Least(t, S) <= Len(t)
    BY <1>1, <2>2, LeastIsNext
  <2>. QED  BY <1>1, <2>1, <2>3
<1>. QED  BY <1>2, <1>3, <1>4 DEF OptionType

(* None of them passes over a position asked for, and each stops at one,   *)
(* but for the first position of lines and words.                          *)
LEMMA NextIpAsked ==
  ASSUME NEW t \in Seq(ByteClass), NEW o \in OptionType, t # <<>>, WholeCharacters(t),
         NEW ip \in Int, -1 <= ip, ip < Len(t),
         o.next_ip = "char" /\ 0 <= ip => CharStart(t, ip)
  PROVE  /\ \A q \in ip + 1 .. NextIp(t, o, ip) - 1 : ~ AskedFor(t, o, q)
         /\ NextIp(t, o, ip) < Len(t) =>
              \/ AskedFor(t, o, NextIp(t, o, ip))
              \/ ip = -1 /\ o.next_ip \in {"line", "word"} /\ NextIp(t, o, ip) = 0
         /\ o.next_ip = "char" /\ NextIp(t, o, ip) < Len(t) =>
              CharStart(t, NextIp(t, o, ip))
         /\ ip = -1 /\ o.next_ip \in {"line", "word"} => NextIp(t, o, ip) = 0
<1>0. PICK l \in Nat : l = Len(t) /\ l > 0
  OBVIOUS
<1>1. PICK lo \in Nat : lo = ip + 1 /\ lo <= Len(t)
  BY <1>0
<1>2. CASE o.next_ip \in {"line", "word"}
  <2>1. NextIp(t, o, ip) = NextAfterDelimiter(t, o, ip)
    BY <1>2 DEF NextIp
  <2>2. CASE ip = -1
    <3>1. NextIp(t, o, ip) = 0
      BY <2>1, <2>2 DEF NextAfterDelimiter
    <3>. QED  BY <1>2, <2>2, <3>1
  <2>3. CASE ip # -1
    <3> DEFINE S == {p \in ip + 1 .. Len(t) - 1 :
                       /\ IsDelimiter(t, o, p - 1)
                       /\ ~ IsDelimiter(t, o, p)
                       /\ ~ IsSkip(t, o, p)}
    <3>1. NextIp(t, o, ip) = Least(t, S)
      BY <2>1, <2>3 DEF NextAfterDelimiter
    <3>2. S \subseteq lo .. Len(t) - 1
      BY <1>1
    <3>3. \A q \in lo .. Len(t) - 1 : q \in S <=> AskedFor(t, o, q)
      <4> SUFFICES ASSUME NEW q \in lo .. Len(t) - 1
                   PROVE  q \in S <=> AskedFor(t, o, q)
        OBVIOUS
      <4>1. AskedFor(t, o, q) <=> /\ q > 0 => IsDelimiter(t, o, q - 1)
                                  /\ ~ IsDelimiter(t, o, q)
                                  /\ ~ IsSkip(t, o, q)
        <5>1. StartsUnit(t, o, q) <=> /\ q > 0 => IsDelimiter(t, o, q - 1)
                                      /\ ~ IsDelimiter(t, o, q)
          <6>1. o.next_ip # "char" /\ o.next_ip # "byte"
            BY <1>2
          <6>. QED  BY <1>2, <6>1 DEF StartsUnit
        <5>. QED  BY <1>2, <5>1 DEF AskedFor
      <4>2. q > 0
        BY <1>1, <2>3
      <4>. QED  BY <1>1, <4>1, <4>2
    <3> HIDE DEF S
    <3>4. /\ Least(t, S) \in Nat /\ lo <= Least(t, S) /\ Least(t, S) <= Len(t)
          /\ \A q \in lo .. Least(t, S) - 1 : q \notin S
          /\ Least(t, S) < Len(t) => Least(t, S) \in S
      BY <1>1, <3>2, LeastIsNext
    <3>5. PICK n \in Nat : n = Least(t, S) /\ lo <= n /\ n <= l
      BY <1>0, <3>4
    <3>6. \A q \in lo .. n - 1 : ~ AskedFor(t, o, q)
      BY <1>0, <3>3, <3>4, <3>5
    <3>7. n < l => AskedFor(t, o, n)
      BY <1>0, <3>2, <3>3, <3>4, <3>5
    <3>. QED  BY <1>0, <1>1, <1>2, <2>3, <3>1, <3>5, <3>6, <3>7
  <2>. QED  BY <2>2, <2>3
<1>3. CASE o.next_ip = "char"
  <2>1. NextIp(t, o, ip) = NextChar(t, o, ip)
    BY <1>3 DEF NextIp
  <2>2. PICK f : /\ Loop(t, o, f)
                 /\ NextChar(t, o, ip) = f[IF ip = -1 THEN 0 ELSE SkipOneChar(t, ip)]
    BY NextCharLoop
  <2>3. PICK k \in Nat : /\ k = (IF ip = -1 THEN 0 ELSE SkipOneChar(t, ip)) /\ ip < k
                         /\ k <= l /\ CharStart(t, k)
                         /\ \A q \in ip + 1 .. k - 1 : ~ CharStart(t, q)
    <3>1. CASE ip = -1
      <4>1. CharStart(t, 0)
        BY FirstStart
      <4>. QED  BY <3>1, <4>1
    <3>2. CASE ip # -1
      <4>1. ip \in Nat /\ CharStart(t, ip)
        BY <1>3, <3>2
      <4>2. SkipOneChar(t, ip) \in Nat /\ ip < SkipOneChar(t, ip)
        BY <4>1, SkipForward
      <4>3. /\ SkipOneChar(t, ip) <= Len(t)
            /\ CharStart(t, SkipOneChar(t, ip))
            /\ \A q \in ip + 1 .. SkipOneChar(t, ip) - 1 : ~ CharStart(t, q)
        BY <4>1, SkipToStart
      <4>. QED  BY <1>0, <3>2, <4>2, <4>3
    <3>. QED  BY <3>1, <3>2
  <2>4. Loop(t, o, f)
    BY <2>2
  <2>5. f[k] \in Nat
    BY <2>4, CharBounds
  <2>6. /\ \A q \in k .. f[k] - 1 : ~ (CharStart(t, q) /\ Wanted(t, o, q))
        /\ f[k] < l => CharStart(t, f[k]) /\ Wanted(t, o, f[k])
    BY <1>0, <2>3, <2>4, CharAsked
  <2>7. PICK n \in Nat : n = f[k] /\ n = NextIp(t, o, ip)
    BY <2>1, <2>2, <2>3, <2>5
  <2>8. \A q : AskedFor(t, o, q) <=> CharStart(t, q) /\ Wanted(t, o, q)
    BY <1>3 DEF AskedFor, StartsUnit, CharStart
  <2>9. \A q \in ip + 1 .. n - 1 : ~ AskedFor(t, o, q)
    <3> SUFFICES ASSUME NEW q \in ip + 1 .. n - 1 PROVE ~ AskedFor(t, o, q)
      OBVIOUS
    <3>1. q \in ip + 1 .. k - 1 \/ q \in k .. n - 1
      OBVIOUS
    <3>. QED  BY <2>3, <2>6, <2>7, <2>8, <3>1
  <2>. QED  BY <1>0, <1>3, <2>6, <2>7, <2>8, <2>9
<1>4. CASE o.next_ip = "byte"
  <2> DEFINE S == {p \in ip + 1 .. Len(t) - 1 : Wanted(t, o, p)}
  <2>1. NextIp(t, o, ip) = Least(t, S)
    BY <1>4 DEF NextIp, NextByte
  <2>2. S \subseteq lo .. Len(t) - 1
    BY <1>1
  <2>3. \A q \in lo .. Len(t) - 1 : q \in S <=> AskedFor(t, o, q)
    <3>1. \A q : AskedFor(t, o, q) <=> Wanted(t, o, q)
      <4>1. o.next_ip \notin {"line", "word"} /\ o.next_ip # "char"
        BY <1>4
      <4>. QED  BY <1>4, <4>1 DEF AskedFor, StartsUnit
    <3>. QED  BY <1>1, <3>1
  <2> HIDE DEF S
  <2>4. /\ Least(t, S) \in Nat /\ lo <= Least(t, S) /\ Least(t, S) <= Len(t)
        /\ \A q \in lo .. Least(t, S) - 1 : q \notin S
        /\ Least(t, S) < Len(t) => Least(t, S) \in S
    BY <1>1, <2>2, LeastIsNext
  <2>5. PICK n \in Nat : n = Least(t, S) /\ lo <= n /\ n <= l
    BY <1>0, <2>4
  <2>6. \A q \in lo .. n - 1 : ~ AskedFor(t, o, q)
    BY <1>0, <2>3, <2>4, <2>5
  <2>7. n < l => AskedFor(t, o, n)
    BY <1>0, <2>2, <2>3, <2>4, <2>5
  <2>. QED  BY <1>0, <1>1, <1>4, <2>1, <2>5, <2>6, <2>7
<1>. QED  BY <1>2, <1>3, <1>4 DEF OptionType
-----------------------------------------------------------------------------
(* The walk: the position reached is in the text or at its end; the file   *)
(* ascends up to it; whole characters are never cut.                       *)
TypeInv ==
  /\ text \in Seq(ByteClass) /\ text # <<>>
  /\ opts \in OptionType
  /\ i \in Int
  /\ file \in Seq(Nat)

WalkInv ==
  /\ pc = "truncated" => file = <<>>
  /\ pc = "walk" =>
       /\ -1 <= i /\ i <= Len(text)
       /\ \A n \in 1 .. Len(file) : file[n] <= i
       /\ i = -1 => ~ opts.cut_top
       /\ opts.next_ip = "char" /\ WholeCharacters(text) /\ 0 <= i /\ i < Len(text) =>
            CharStart(text, i)

WalkedIsDue ==
  WholeCharacters(text) /\ pc = "walk" /\ ~ full =>
    Points = {p \in Due : p <= i}

IInv == TypeInv /\ WalkInv /\ PointsInOrder /\ WalkedIsDue

LEMMA InitInv == Init => IInv
<1> SUFFICES ASSUME Init PROVE IInv
  OBVIOUS
<1>1. TypeInv
  <2>1. text \in Seq(ByteClass) /\ text # <<>>
    BY TextsAssumption DEF Init
  <2>2. opts \in OptionType
    BY OptionsAssumption DEF Init
  <2>3. file \in Seq(Nat) /\ i \in Int
    <3>1. <<>> \in Seq(Nat) /\ <<0>> \in Seq(Nat) /\ -1 \in Int
      OBVIOUS
    <3>. QED  BY <3>1 DEF Init
  <2>. QED  BY <2>1, <2>2, <2>3 DEF TypeInv
<1>2. PointsInOrder
  BY DEF Init, PointsInOrder
<1>3. pc # "truncated" /\ pc # "walk"
  BY DEF Init
<1>. QED  BY <1>1, <1>2, <1>3 DEF IInv, WalkInv, WalkedIsDue

(* Nothing is due up to where the walk starts.                             *)
LEMMA OpenTextInv ==
  ASSUME IInv, OpenText
  PROVE  IInv'
<1>1. /\ pc = "truncated" /\ file = <<>>
      /\ pc' = "walk" /\ i' = (IF opts.cut_top THEN 0 ELSE -1)
      /\ text' = text /\ opts' = opts /\ file' = file
  BY DEF IInv, WalkInv, OpenText
<1>2. TypeInv'
  BY <1>1 DEF IInv, TypeInv
<1>3. PointsInOrder'
  BY <1>1 DEF IInv, PointsInOrder
<1>4. WalkInv'
  <2>1. CharStart(text, 0)
    BY FirstStart
  <2>2. i' = 0 \/ (i' = -1 /\ ~ opts.cut_top)
    BY <1>1
  <2>3. Len(text) \in Nat
    BY DEF IInv, TypeInv
  <2>. QED  BY <1>1, <2>1, <2>2, <2>3 DEF WalkInv
<1>5. WalkedIsDue'
  <2>1. {p \in Due : p <= i'} = {}
    <3> SUFFICES ASSUME NEW p \in Due, p <= i' PROVE FALSE
      OBVIOUS
    <3>1. Len(text) \in Nat /\ p \in Nat
      BY DEF IInv, TypeInv, Due, PointsAskedFor, Unasked, Delimited
    <3>2. opts.cut_top /\ p = 0
      BY <1>1, <3>1
    <3>. QED  BY <3>2 DEF Due, First, Unasked, Delimited
  <2>2. {file'[n] : n \in 1 .. Len(file')} = {}
    BY <1>1
  <2>. QED  BY <1>1, <2>1, <2>2 DEF WalkedIsDue, Due, First, Unasked, Delimited, Points
<1>. QED  BY <1>2, <1>3, <1>4, <1>5 DEF IInv

(* What a turn of the walk finds.                                          *)
LEMMA TurnOfWalk ==
  ASSUME TypeInv, WalkInv, pc = "walk", i < Len(text)
  PROVE  /\ NextIp(text, opts, i) \in Nat /\ i < NextIp(text, opts, i)
         /\ NextIp(text, opts, i) <= Len(text)
         /\ WholeCharacters(text) =>
              /\ \A q \in i + 1 .. NextIp(text, opts, i) - 1 : q \notin Due
              /\ NextIp(text, opts, i) < Len(text) => NextIp(text, opts, i) \in Due
              /\ opts.next_ip = "char" /\ NextIp(text, opts, i) < Len(text) =>
                   CharStart(text, NextIp(text, opts, i))
<1>1. PICK t \in Seq(ByteClass) : t = text /\ t # <<>>
  BY DEF TypeInv
<1>2. PICK o \in OptionType : o = opts
  BY DEF TypeInv
<1>3. PICK ip \in Int : ip = i /\ -1 <= ip /\ ip < Len(t)
  BY <1>1 DEF TypeInv, WalkInv
<1>4. PICK n : n = NextIp(t, o, ip)
  OBVIOUS
<1>5. n \in Nat /\ ip < n /\ n <= Len(t)
  BY <1>1, <1>2, <1>3, <1>4, NextIpBounds
<1>6. ASSUME WholeCharacters(t)
      PROVE  /\ \A q \in ip + 1 .. n - 1 : q \notin Due
             /\ n < Len(t) => n \in Due
             /\ o.next_ip = "char" /\ n < Len(t) => CharStart(t, n)
  <2>1. o.next_ip = "char" /\ 0 <= ip => CharStart(t, ip)
    BY <1>1, <1>2, <1>3, <1>6 DEF WalkInv
  <2>2. /\ \A q \in ip + 1 .. n - 1 : ~ AskedFor(t, o, q)
        /\ n < Len(t) =>
             \/ AskedFor(t, o, n)
             \/ ip = -1 /\ o.next_ip \in {"line", "word"} /\ n = 0
        /\ o.next_ip = "char" /\ n < Len(t) => CharStart(t, n)
        /\ ip = -1 /\ o.next_ip \in {"line", "word"} => n = 0
    BY <1>1, <1>2, <1>3, <1>4, <1>6, <2>1, NextIpAsked
  <2>3. ASSUME NEW q \in ip + 1 .. n - 1
        PROVE  q \notin Due
    <3>1. q \in Nat /\ q > ip /\ q < n
      BY <1>3, <1>5
    <3>2. q \notin PointsAskedFor(text, opts)
      BY <1>1, <1>2, <2>2 DEF PointsAskedFor
    <3>3. q \notin Unasked
      <4> SUFFICES ASSUME q \in Unasked PROVE FALSE
        OBVIOUS
      <4>1. q = 0 /\ o.next_ip \in {"line", "word"}
        BY <1>2 DEF Unasked, Delimited
      <4>2. ip = -1
        BY <1>3, <3>1, <4>1
      <4>. QED  BY <2>2, <3>1, <4>1, <4>2
    <3>. QED  BY <3>2, <3>3 DEF Due
  <2>4. ASSUME n < Len(t)
        PROVE  n \in Due
    <3>1. CASE AskedFor(t, o, n)
      <4>1. n \in 0 .. Len(t) - 1
        BY <1>5, <2>4
      <4>2. n \in PointsAskedFor(text, opts)
        BY <1>1, <1>2, <3>1, <4>1 DEF PointsAskedFor
      <4>3. n \notin First
        <5> SUFFICES ASSUME n \in First PROVE FALSE
          OBVIOUS
        <5>1. n = 0 /\ opts.cut_top
          BY DEF First
        <5>2. ip = -1
          BY <1>3, <1>5, <5>1
        <5>. QED  BY <1>3, <5>1, <5>2 DEF WalkInv
      <4>. QED  BY <4>2, <4>3 DEF Due
    <3>2. CASE ip = -1 /\ o.next_ip \in {"line", "word"} /\ n = 0
      <4>1. ~ opts.cut_top
        BY <1>3, <3>2 DEF WalkInv
      <4>. QED  BY <1>2, <3>2, <4>1 DEF Due, Unasked, Delimited
    <3>. QED  BY <2>2, <2>4, <3>1, <3>2
  <2>. QED  BY <2>2, <2>3, <2>4
<1>. QED  BY <1>1, <1>2, <1>3, <1>4, <1>5, <1>6

LEMMA WritePointInv ==
  ASSUME IInv, WritePoint
  PROVE  IInv'
<1>1. PICK n \in Nat : /\ n = NextIp(text, opts, i) /\ n = i'
                       /\ i < n /\ n < Len(text)
                       /\ WholeCharacters(text) =>
                            /\ \A q \in i + 1 .. n - 1 : q \notin Due
                            /\ n \in Due
                            /\ opts.next_ip = "char" => CharStart(text, n)
  BY TurnOfWalk DEF IInv, WritePoint
<1>2. /\ pc = "walk" /\ pc' = "walk" /\ text' = text /\ opts' = opts
      /\ \/ file' = Append(file, n) /\ full' = full
         \/ file' = file /\ full'
  BY <1>1 DEF WritePoint
<1>3. /\ file \in Seq(Nat) /\ i \in Int /\ text \in Seq(ByteClass)
      /\ \A k \in 1 .. Len(file) : file[k] <= i
  BY <1>2 DEF IInv, TypeInv, WalkInv
<1>4. TypeInv'
  BY <1>1, <1>2, <1>3 DEF IInv, TypeInv
<1>5. \A k \in 1 .. Len(file') : file'[k] <= n
  BY <1>1, <1>2, <1>3
<1>6. WalkInv'
  <2>1. Len(text) \in Nat
    BY <1>3
  <2>2. -1 <= n /\ n <= Len(text) /\ n # -1
    BY <1>1, <2>1
  <2>3. opts.next_ip = "char" /\ WholeCharacters(text) => CharStart(text, n)
    BY <1>1
  <2>4. pc' = "walk" /\ text' = text /\ opts' = opts /\ i' = n
    BY <1>1, <1>2
  <2>. QED  BY <1>5, <2>2, <2>3, <2>4 DEF WalkInv
<1>7. PointsInOrder'
  <2>1. PointsInOrder
    BY DEF IInv
  <2>2. CASE file' = file
    BY <2>1, <2>2 DEF PointsInOrder
  <2>3. CASE file' = Append(file, n)
    <3>1. PICK l \in Nat : l = Len(file) /\ Len(file') = l + 1
      BY <1>3, <2>3
    <3>2. \A k \in 1 .. l : file'[k] = file[k] /\ file[k] \in Nat /\ file[k] < n
      BY <1>1, <1>3, <2>3, <3>1
    <3>3. file'[l + 1] = n
      BY <1>3, <2>3, <3>1
    <3> SUFFICES ASSUME NEW k \in 1 .. l + 1, NEW m \in 1 .. l + 1, k < m
                 PROVE  file'[k] < file'[m]
      BY <3>1 DEF PointsInOrder
    <3>4. k \in 1 .. l /\ (m \in 1 .. l \/ m = l + 1)
      BY <3>1
    <3>. QED  BY <2>1, <3>1, <3>2, <3>3, <3>4 DEF PointsInOrder
  <2>. QED  BY <1>2, <2>2, <2>3
<1>8. WalkedIsDue'
  <2> SUFFICES ASSUME WholeCharacters(text), ~ full'
               PROVE  {file'[k] : k \in 1 .. Len(file')} = {p \in Due : p <= n}
    BY <1>1, <1>2 DEF WalkedIsDue, Due, First, Unasked, Delimited, Points
  <2>1. file' = Append(file, n) /\ ~ full
    BY <1>2
  <2>2. Points = {p \in Due : p <= i}
    BY <1>2, <2>1 DEF IInv, WalkedIsDue, Due, Points
  <2>3. {file'[k] : k \in 1 .. Len(file')} = Points \union {n}
    BY <1>3, <2>1 DEF Points
  <2>4. {p \in Due : p <= n} = {p \in Due : p <= i} \union {n}
    <3>1. Due \subseteq Nat
      BY <1>3 DEF Due, PointsAskedFor, Unasked, Delimited
    <3>2. ASSUME NEW p \in Due, p <= n, p # n
          PROVE  p <= i
      <4>1. p \in i + 1 .. n - 1 \/ p <= i
        BY <1>3, <3>1, <3>2
      <4>. QED  BY <1>1, <4>1
    <3>3. \A p \in Due : p <= i => p <= n
      BY <1>1, <1>3, <3>1
    <3> HIDE DEF Due
    <3>. QED  BY <1>1, <3>2, <3>3
  <2>. QED  BY <2>2, <2>3, <2>4
<1>. QED  BY <1>4, <1>6, <1>7, <1>8 DEF IInv

LEMMA LastPointInv ==
  ASSUME IInv, LastPoint
  PROVE  IInv'
<1>1. PICK n \in Nat : /\ n = NextIp(text, opts, i) /\ n = i'
                       /\ i < n /\ n = Len(text)
                       /\ WholeCharacters(text) =>
                            \A q \in i + 1 .. n - 1 : q \notin Due
  BY TurnOfWalk DEF IInv, TypeInv, LastPoint
<1>2. /\ pc = "walk" /\ pc' = "walk" /\ text' = text /\ opts' = opts
      /\ file' = file /\ full' = full
  BY DEF LastPoint
<1>3. /\ file \in Seq(Nat) /\ i \in Int /\ text \in Seq(ByteClass)
      /\ \A k \in 1 .. Len(file) : file[k] <= i
  BY <1>2 DEF IInv, TypeInv, WalkInv
<1>4. TypeInv'
  BY <1>1, <1>2 DEF IInv, TypeInv
<1>5. WalkInv'
  BY <1>1, <1>2, <1>3 DEF WalkInv
<1>6. PointsInOrder'
  BY <1>2 DEF IInv, PointsInOrder
<1>7. WalkedIsDue'
  <2> SUFFICES ASSUME WholeCharacters(text), ~ full
               PROVE  Points = {p \in Due : p <= n}
    BY <1>1, <1>2 DEF WalkedIsDue, Due, First, Unasked, Delimited, Points
  <2>1. Points = {p \in Due : p <= i}
    BY <1>2 DEF IInv, WalkedIsDue, Due, Points
  <2>2. Due \subseteq 0 .. n - 1
    <3>1. text # <<>> /\ n > 0
      BY <1>1, <1>3 DEF IInv, TypeInv
    <3>2. Unasked \subseteq 0 .. n - 1
      BY <3>1 DEF Unasked, Delimited
    <3>3. PointsAskedFor(text, opts) \subseteq 0 .. n - 1
      BY <1>1 DEF PointsAskedFor
    <3>. QED  BY <3>2, <3>3 DEF Due
  <2>3. \A p \in Due : p <= i <=> p <= n
    <3> HIDE DEF Due
    <3> SUFFICES ASSUME NEW p \in Due PROVE p <= i <=> p <= n
      OBVIOUS
    <3>1. p \in i + 1 .. n - 1 \/ p <= i
      BY <1>3, <2>2
    <3>2. p \in Nat /\ p <= n
      BY <2>2
    <3>. QED  BY <1>1, <3>1, <3>2
  <2>. QED  BY <2>1, <2>3
<1>. QED  BY <1>4, <1>5, <1>6, <1>7 DEF IInv

(* Whatever ends the call leaves the file as it is.                        *)
LEMMA ReturnInv ==
  ASSUME IInv, pc' = "end", UNCHANGED <<text, opts, i, file, full>>
  PROVE  IInv'
BY DEF IInv, TypeInv, WalkInv, PointsInOrder, WalkedIsDue

LEMMA TruncateArrayInv ==
  ASSUME IInv, TruncateArray
  PROVE  IInv'
BY DEF IInv, TypeInv, WalkInv, PointsInOrder, WalkedIsDue, TruncateArray

(* What holds at every moment of sa_write_index.                           *)
THEOREM InductiveInvariant == Spec => []IInv
<1>1. IInv /\ [Next]_vars => IInv'
  <2> SUFFICES ASSUME IInv, [Next]_vars PROVE IInv'
    OBVIOUS
  <2>1. CASE OpenArrayFails \/ OpenTextFails \/ Close \/ Crash
    BY <2>1, ReturnInv DEF OpenArrayFails, OpenTextFails, Close, Crash, Return
  <2>2. CASE TruncateArray
    BY <2>2, TruncateArrayInv
  <2>3. CASE OpenText
    BY <2>3, OpenTextInv
  <2>4. CASE WritePoint
    BY <2>4, WritePointInv
  <2>5. CASE LastPoint
    BY <2>5, LastPointInv
  <2>6. CASE UNCHANGED vars
    BY <2>6 DEF vars, IInv, TypeInv, WalkInv, PointsInOrder, WalkedIsDue,
                Due, First, Unasked, Delimited, Points
  <2>. QED  BY <2>1, <2>2, <2>3, <2>4, <2>5, <2>6 DEF Next, Internal, Ended
<1>. QED  BY InitInv, <1>1, PTL DEF Spec

(* For texts of any size, cut characters among them, and whatever cannot   *)
(* be written: sa_write_index writes ascending positions, none twice.      *)
THEOREM PointsAlwaysInOrder == Spec => []PointsInOrder
<1>1. IInv => PointsInOrder
  BY DEF IInv
<1>. QED  BY InductiveInvariant, <1>1, PTL

(* In texts of whole characters sa_write_index has written, at every       *)
(* moment of its walk, the points asked for up to there, and no others;    *)
(* a first position the options skip is left out of what is said.          *)
THEOREM PointsAlwaysAskedFor == Spec => []PointsAreThoseAskedFor
<1>1. IInv => PointsAreThoseAskedFor
  BY DEF IInv, WalkedIsDue, PointsAreThoseAskedFor
<1>. QED  BY InductiveInvariant, <1>1, PTL
=============================================================================
