------------------------------ MODULE AfProofs ------------------------------
(***************************************************************************)
(* af answers its queries rightly for any number of documents, keys and    *)
(* hits, and any width of a byte.                                          *)
(***************************************************************************)
EXTENDS AfInv, TLAPS

(* A hit lies in a document or in none.                                    *)
LEMMA HitType ==
  ASSUME TypeOK, NEW key \in Keys
  PROVE  /\ occ[key] \in Seq(Hit)
         /\ Len(occ[key]) \in Nat
         /\ \A x \in 1 .. Len(occ[key]) :
              occ[key][x] = None \/ occ[key][x] \in Docs
<1>1. occ \in [Keys -> Seq(Hit)]
  BY OccurrencesAssumption DEF TypeOK
<1>2. occ[key] \in Seq(Hit)
  BY <1>1
<1>. QED BY <1>2 DEF Hit

(* The keys of the query are keys.                                         *)
LEMMA KeyType ==
  ASSUME TypeOK
  PROVE  /\ Len(keys) \in Nat /\ Len(nkeys) \in Nat
         /\ \A n \in 1 .. Len(keys) : keys[n] \in Keys
         /\ \A n \in 1 .. Len(nkeys) : nkeys[n] \in Keys
         /\ keys # <<>> => Len(keys) > 0 /\ LastKey \in Keys
<1>1. keys \in Seq(Keys) /\ nkeys \in Seq(Keys)
  BY DEF TypeOK
<1>. QED BY <1>1 DEF LastKey

LEMMA CounterType ==
  ASSUME TypeOK
  PROVE  /\ i \in Nat /\ ai \in Nat /\ i + 1 \in Nat /\ ai + 1 \in Nat
         /\ num_of_tas \in Nat /\ num_of_tas + 1 \in Nat
<1>1. i \in Nat /\ ai \in Nat /\ num_of_tas \in Nat
  BY DEF TypeOK
<1>. QED BY <1>1

(* Nothing is seen before the first hit; one more hit shows its document;  *)
(* all hits show what holds the key.                                       *)
LEMMA SeenHits ==
  ASSUME NEW hits, NEW d
  PROVE  /\ ~ Seen(hits, d, 0)
         /\ \A m \in Nat :
              Seen(hits, d, m + 1) <=> Seen(hits, d, m) \/ hits[m + 1] = d
         /\ Seen(hits, d, Len(hits)) <=> Holds(hits, d)
<1>1. ASSUME NEW m \in Nat
      PROVE  Seen(hits, d, m + 1) <=> Seen(hits, d, m) \/ hits[m + 1] = d
  <2>1. 1 .. m + 1 = (1 .. m) \union {m + 1}
    OBVIOUS
  <2>. QED BY <2>1 DEF Seen
<1>. QED BY <1>1 DEF Seen, Holds

LEMMA NoHits == \A d : ~ Holds(<<>>, d)
<1>1. 1 .. Len(<<>>) = {}
  OBVIOUS
<1>. QED BY <1>1 DEF Holds

LEMMA RefusedHits ==
  ASSUME NEW o, NEW nots, NEW d
  PROVE  /\ ~ RefusedBy(o, nots, d, 0)
         /\ \A m \in Nat :
              RefusedBy(o, nots, d, m + 1)
                <=> RefusedBy(o, nots, d, m) \/ Holds(o[nots[m + 1]], d)
<1>1. ASSUME NEW m \in Nat
      PROVE  RefusedBy(o, nots, d, m + 1)
               <=> RefusedBy(o, nots, d, m) \/ Holds(o[nots[m + 1]], d)
  <2>1. 1 .. m + 1 = (1 .. m) \union {m + 1}
    OBVIOUS
  <2>. QED BY <2>1 DEF RefusedBy
<1>. QED BY <1>1 DEF RefusedBy

(* What is asked for stays the same as long as the query does.             *)
LEMMA SameQuery ==
  ASSUME UNCHANGED <<occ, keys, nkeys>>
  PROVE  /\ \A d : AskedFor(d)' <=> AskedFor(d)
         /\ FewKeys' <=> FewKeys
         /\ LastKey' = LastKey
BY DEF AskedFor, FewKeys, LastKey

(* As long as nothing has been found the properties of the answer hold.    *)
LEMMA NoneTaken ==
  ASSUME tas' = <<>>
  PROVE  FoundOnce' /\ NotKeysRefuse'
<1>1. 1 .. Len(tas') = {}
  OBVIOUS
<1>2. FoundOnce'
  BY <1>1 DEF FoundOnce
<1>3. NotKeysRefuse'
  BY <1>1 DEF NotKeysRefuse
<1>. QED BY <1>2, <1>3

LEMMA NotDone == ASSUME pc' # "done" PROVE AnswerIsQuery'
BY DEF AnswerIsQuery
-----------------------------------------------------------------------------
LEMMA InitStep == ASSUME Init PROVE IInv
<1>1. TypeOK
  BY CountsAssumption DEF Init, TypeOK, Bit
<1>2. Fresh
  BY DEF Init, Fresh
<1>. QED
  BY <1>1, <1>2 DEF Init, IInv, FoundOnce, NotKeysRefuse, AnswerIsQuery

LEMMA FormatErrorStep ==
  ASSUME IInv, NEW query \in Lines, FormatError(query) PROVE IInv'
<1>1. TypeOK'
  BY DEF IInv, TypeOK, FormatError, Return, parsed
<1>2. FoundOnce' /\ NotKeysRefuse'
  BY NoneTaken DEF IInv, Fresh, FormatError
<1>. QED BY <1>1, <1>2 DEF IInv, FormatError, Return, AnswerIsQuery

LEMMA ReadQueryStep ==
  ASSUME IInv, NEW query \in Lines, ReadQuery(query) PROVE IInv'
<1>1. TypeOK'
  BY LinesAssumption DEF IInv, TypeOK, ReadQuery
<1>2. Fresh'
  BY DEF IInv, ReadQuery, Fresh
<1>3. FoundOnce' /\ NotKeysRefuse' /\ AnswerIsQuery'
  BY <1>2, NoneTaken, NotDone DEF ReadQuery, Fresh
<1>. QED BY <1>1, <1>2, <1>3 DEF IInv, ReadQuery

LEMMA ParseTermStep == ASSUME IInv, ParseTerm PROVE IInv'
<1>1. TypeOK'
  <2>0. line \in Seq(Term) /\ line # <<>>
    BY DEF IInv, TypeOK, ParseTerm
  <2>1. Head(line) \in Term /\ Tail(line) \in Seq(Term)
    BY <2>0
  <2>2. Head(line).key \in Keys
    BY <2>1 DEF Term
  <2>3. keys \in Seq(Keys) /\ nkeys \in Seq(Keys)
    BY DEF IInv, TypeOK
  <2>4. keys' \in Seq(Keys) /\ nkeys' \in Seq(Keys)
    <3>1. CASE Head(line).not
      <4>1. nkeys' = Append(nkeys, Head(line).key) /\ keys' = keys
        BY <3>1 DEF ParseTerm
      <4>. QED BY <4>1, <2>2, <2>3
    <3>2. CASE ~ Head(line).not
      <4>1. keys' = Append(keys, Head(line).key) /\ nkeys' = nkeys
        BY <3>2 DEF ParseTerm
      <4>. QED BY <4>1, <2>2, <2>3
    <3>. QED BY <3>1, <3>2
  <2>. QED BY <2>1, <2>4 DEF IInv, TypeOK, ParseTerm
<1>2. Fresh'
  BY DEF IInv, ParseTerm, Fresh
<1>3. FoundOnce' /\ NotKeysRefuse' /\ AnswerIsQuery'
  BY <1>2, NoneTaken, NotDone DEF ParseTerm, Fresh
<1>. QED BY <1>1, <1>2, <1>3 DEF IInv, ParseTerm

LEMMA NoKeysStep == ASSUME IInv, NoKeys PROVE IInv'
<1>1. TypeOK'
  BY DEF IInv, TypeOK, NoKeys, Return, parsed
<1>2. FoundOnce' /\ NotKeysRefuse'
  BY NoneTaken DEF IInv, Fresh, NoKeys
<1>. QED BY <1>1, <1>2 DEF IInv, NoKeys, Return, AnswerIsQuery

LEMMA ParsedStep == ASSUME IInv, Parsed PROVE IInv'
<1>1. TypeOK'
  BY DEF IInv, TypeOK, Parsed, parsed
<1>2. NotKeysInv'
  <2>1. \A d \in Docs : ~ RefusedBy(occ', nkeys', d, 0)
    BY RefusedHits
  <2>2. Len(nkeys) \in Nat
    BY KeyType DEF IInv
  <2>3. Fresh
    BY DEF IInv, Parsed
  <2>4. /\ keys' # <<>> /\ checker' = {0} /\ tas' = <<>> /\ i' = 0
        /\ nkeys' = nkeys
    BY <2>3 DEF Parsed, parsed, Fresh
  <2>5. \A d \in Docs : did_check'[d] = {}
    BY <2>3 DEF Parsed, Fresh
  <2>6. \A d \in Docs :
          did_check'[d] = IF RefusedBy(occ', nkeys', d, i')
                          THEN Refused ELSE {}
    BY <2>1, <2>4, <2>5
  <2>. QED BY <2>2, <2>4, <2>6 DEF NotKeysInv
<1>3. FoundOnce' /\ NotKeysRefuse' /\ AnswerIsQuery'
  BY <1>2, NoneTaken, NotDone DEF Parsed, NotKeysInv
<1>. QED BY <1>1, <1>2, <1>3 DEF IInv, Parsed
-----------------------------------------------------------------------------
(* The NOT keys.                                                           *)
LEMMA NotKeyFoundStep == ASSUME IInv, NotKeyFound PROVE IInv'
<1>1. TypeOK'
  BY DEF IInv, TypeOK, NotKeyFound, parsed
<1>2. MarkNotKeyInv'
  <2>1. \A d \in Docs : ~ Seen(occ[nkeys[i + 1]], d, 0)
    BY SeenHits
  <2>2. i \in Nat /\ Len(nkeys) \in Nat /\ i < Len(nkeys)
    BY KeyType, CounterType DEF IInv, NotKeyFound
  <2>3. nkeys[i + 1] \in Keys
    <3>1. i + 1 \in 1 .. Len(nkeys)
      BY <2>2
    <3>. QED BY <3>1, KeyType DEF IInv
  <2>4. Len(occ[nkeys[i + 1]]) \in Nat
    BY <2>3, HitType DEF IInv
  <2>5. NotKeysInv
    BY DEF IInv, NotKeyFound
  <2>6. /\ UNCHANGED <<occ, keys, nkeys, checker, tas, i, did_check>>
        /\ ai' = 0
    BY DEF NotKeyFound, parsed
  <2>7. \A d \in Docs :
          did_check'[d] = IF RefusedBy(occ', nkeys', d, i')
                             \/ Seen(occ'[nkeys'[i' + 1]], d, ai')
                          THEN Refused ELSE {}
    BY <2>1, <2>5, <2>6 DEF NotKeysInv
  <2>. QED BY <2>2, <2>4, <2>5, <2>6, <2>7 DEF NotKeysInv, MarkNotKeyInv
<1>3. FoundOnce' /\ NotKeysRefuse' /\ AnswerIsQuery'
  BY <1>2, NoneTaken, NotDone DEF NotKeyFound, MarkNotKeyInv
<1>. QED BY <1>1, <1>2, <1>3 DEF IInv, NotKeyFound

LEMMA NotKeyNotFoundStep == ASSUME IInv, NotKeyNotFound PROVE IInv'
<1>1. TypeOK'
  BY CounterType DEF IInv, TypeOK, NotKeyNotFound, parsed
<1>2. NotKeysInv'
  <2>1. i \in Nat /\ Len(nkeys) \in Nat
    BY KeyType DEF IInv, TypeOK
  <2>2. \A d \in Docs : ~ Holds(occ[nkeys[i + 1]], d)
    BY DEF NotKeyNotFound, Holds
  <2>3. \A d \in Docs :
          RefusedBy(occ, nkeys, d, i + 1) <=> RefusedBy(occ, nkeys, d, i)
    BY <2>1, <2>2, RefusedHits
  <2>. QED BY <2>1, <2>3 DEF IInv, NotKeysInv, NotKeyNotFound, parsed
<1>3. FoundOnce' /\ NotKeysRefuse' /\ AnswerIsQuery'
  BY <1>2, NoneTaken, NotDone DEF NotKeyNotFound, NotKeysInv
<1>. QED BY <1>1, <1>2, <1>3 DEF IInv, NotKeyNotFound

LEMMA NotKeysEndStep == ASSUME IInv, NotKeysEnd PROVE IInv'
<1>1. TypeOK'
  BY DEF IInv, TypeOK, NotKeysEnd, parsed
<1>2. KeysInv'
  <2>0. NotKeysInv
    BY DEF IInv, NotKeysEnd
  <2>1. i = Len(nkeys) /\ Len(keys) > 0
    BY <2>0, KeyType, CounterType DEF IInv, NotKeysInv, NotKeysEnd
  <2>2. ASSUME NEW d \in Docs
        PROVE  NotBit(d)' /\ KeyBits(d)'
    <3>1. did_check'[d] = IF RefusedBy(occ, nkeys, d, Len(nkeys)) THEN {0} ELSE {}
      BY <2>1 DEF IInv, NotKeysInv, NotKeysEnd, Refused
    <3>2. NotBit(d)'
      BY <3>1 DEF NotBit, NotKeysEnd, parsed
    <3>3. ASSUME NEW b \in 1 .. CharBit - 1
          PROVE  b \notin did_check'[d] /\ ~ b <= i'
      BY <3>1, CountsAssumption DEF NotKeysEnd
    <3>. QED BY <3>2, <3>3 DEF KeyBits
  <2>. QED BY <2>1, <2>2 DEF IInv, NotKeysInv, NotKeysEnd, parsed, KeysInv
<1>3. FoundOnce' /\ NotKeysRefuse' /\ AnswerIsQuery'
  BY <1>2, NoneTaken, NotDone DEF NotKeysEnd, KeysInv
<1>. QED BY <1>1, <1>2, <1>3 DEF IInv, NotKeysEnd

LEMMA NotKeyMarkedStep == ASSUME IInv, NotKeyMarked PROVE IInv'
<1>1. TypeOK'
  BY CounterType DEF IInv, TypeOK, NotKeyMarked, parsed
<1>2. NotKeysInv'
  <2>0. MarkNotKeyInv
    BY DEF IInv, NotKeyMarked
  <2>1. i \in Nat /\ ai \in Nat /\ Len(nkeys) \in Nat /\ i < Len(nkeys)
    BY <2>0, KeyType, CounterType DEF IInv, MarkNotKeyInv
  <2>2. nkeys[i + 1] \in Keys
    <3>1. i + 1 \in 1 .. Len(nkeys)
      BY <2>1
    <3>. QED BY <3>1, KeyType DEF IInv
  <2>3. ai = Len(occ[nkeys[i + 1]])
    <3>1. Len(occ[nkeys[i + 1]]) \in Nat
      BY <2>2, HitType DEF IInv
    <3>2. /\ ai <= Len(occ[nkeys[i + 1]])
          /\ ai >= Len(occ[nkeys[i + 1]])
      BY <2>0 DEF NotKeyMarked, MarkNotKeyInv
    <3>. QED BY <2>1, <3>1, <3>2
  <2>4. \A d \in Docs :
          RefusedBy(occ, nkeys, d, i + 1)
            <=> RefusedBy(occ, nkeys, d, i) \/ Seen(occ[nkeys[i + 1]], d, ai)
    BY <2>1, <2>3, RefusedHits, SeenHits
  <2>5. /\ UNCHANGED <<occ, keys, nkeys, checker, tas, did_check>>
        /\ i' = i + 1
    BY DEF NotKeyMarked, parsed
  <2>6. \A d \in Docs :
          did_check'[d] = IF RefusedBy(occ', nkeys', d, i')
                          THEN Refused ELSE {}
    BY <2>0, <2>4, <2>5 DEF MarkNotKeyInv
  <2>7. i' <= Len(nkeys')
    BY <2>1, <2>5
  <2>. QED BY <2>0, <2>5, <2>6, <2>7 DEF NotKeysInv, MarkNotKeyInv
<1>3. FoundOnce' /\ NotKeysRefuse' /\ AnswerIsQuery'
  BY <1>2, NoneTaken, NotDone DEF NotKeyMarked, NotKeysInv
<1>. QED BY <1>1, <1>2, <1>3 DEF IInv, NotKeyMarked

(* A turn of check_keyword turns the bits of var on in the document of the *)
(* hit, if it lies in one, and counts it unless one of them was on.        *)
LEMMA CheckKeywordTurn ==
  ASSUME TypeOK, NEW hits \in Seq(Hit), NEW var \in SUBSET Bit,
         CheckKeyword(hits, var)
  PROVE  /\ UNCHANGED <<pc, occ, line, keys, nkeys, i, checker, tas, answer>>
         /\ ai' = ai + 1 /\ ai' <= Len(hits)
         /\ TypeOK'
         /\ \A d \in Docs :
              did_check'[d] = IF hits[ai + 1] = d THEN did_check[d] \union var
                              ELSE did_check[d]
         /\ \A d : Seen(hits, d, ai') <=> Seen(hits, d, ai) \/ hits[ai + 1] = d
         /\ num_of_tas' = 0 =>
              /\ num_of_tas = 0
              /\ \A d \in Docs :
                   hits[ai + 1] = d => did_check[d] \intersect var # {}
<1>0. /\ UNCHANGED <<pc, occ, line, keys, nkeys, i, checker, tas, answer>>
      /\ ai' = ai + 1
  BY DEF CheckKeyword, parsed
<1>1. /\ ai \in Nat /\ ai' \in Nat /\ num_of_tas \in Nat
      /\ did_check \in [Docs -> SUBSET Bit]
  BY <1>0, CounterType DEF TypeOK
<1>2. Len(hits) \in Nat /\ ai < Len(hits)
  BY DEF CheckKeyword
<1>3. ai + 1 \in 1 .. Len(hits) /\ ai' <= Len(hits)
  BY <1>0, <1>1, <1>2
<1>4. hits[ai + 1] = None \/ hits[ai + 1] \in Docs
  BY <1>3 DEF Hit
<1>5. \A d : Seen(hits, d, ai') <=> Seen(hits, d, ai) \/ hits[ai + 1] = d
  BY <1>0, <1>1, SeenHits
<1>6. /\ did_check' \in [Docs -> SUBSET Bit]
      /\ num_of_tas' \in Nat
      /\ \A d \in Docs :
           did_check'[d] = IF hits[ai + 1] = d THEN did_check[d] \union var
                           ELSE did_check[d]
      /\ num_of_tas' = 0 =>
           /\ num_of_tas = 0
           /\ \A d \in Docs :
                hits[ai + 1] = d => did_check[d] \intersect var # {}
  <2>1. CASE hits[ai + 1] = None
    <3>1. UNCHANGED <<did_check, num_of_tas>>
      BY <2>1 DEF CheckKeyword
    <3>2. \A d \in Docs : hits[ai + 1] # d
      BY <2>1 DEF Docs, None
    <3>. QED BY <3>1, <3>2, <1>1
  <2>2. CASE hits[ai + 1] # None
    <3>1. hits[ai + 1] \in Docs
      BY <2>2, <1>4
    <3>2. did_check' = [did_check EXCEPT ![hits[ai + 1]] = @ \union var]
      BY <2>2 DEF CheckKeyword
    <3>3. num_of_tas' = IF did_check[hits[ai + 1]] \intersect var = {}
                        THEN num_of_tas + 1 ELSE num_of_tas
      BY <2>2 DEF CheckKeyword
    <3>4. num_of_tas + 1 \in Nat /\ num_of_tas + 1 # 0
      BY <1>1
    <3>5. did_check' \in [Docs -> SUBSET Bit]
      BY <3>1, <3>2, <1>1
    <3>6. num_of_tas' \in Nat
      BY <3>3, <3>4, <1>1
    <3>7. num_of_tas' = 0 =>
            num_of_tas = 0 /\ did_check[hits[ai + 1]] \intersect var # {}
      BY <3>3, <3>4
    <3>. QED BY <3>1, <3>2, <3>5, <3>6, <3>7, <1>1
  <2>. QED BY <2>1, <2>2
<1>7. TypeOK'
  BY <1>0, <1>1, <1>6 DEF TypeOK
<1>. QED BY <1>0, <1>3, <1>5, <1>6, <1>7

LEMMA NotBitIsBit == Refused \in SUBSET Bit
BY CountsAssumption DEF Refused, Bit

(* One hit of a NOT key.                                                   *)
LEMMA MarkNotKeyStep == ASSUME IInv, MarkNotKey PROVE IInv'
<1>. DEFINE hits == occ[nkeys[i + 1]]
<1>0. pc = "mark nkey" /\ CheckKeyword(hits, Refused)
  BY DEF MarkNotKey
<1>a. MarkNotKeyInv /\ TypeOK
  BY <1>0 DEF IInv
<1>b. i \in Nat /\ Len(nkeys) \in Nat /\ i < Len(nkeys)
  BY <1>a, KeyType, CounterType DEF MarkNotKeyInv
<1>c. hits \in Seq(Hit)
  <2>1. i + 1 \in 1 .. Len(nkeys)
    BY <1>b
  <2>2. nkeys[i + 1] \in Keys
    BY <1>a, <2>1, KeyType
  <2>. QED BY <1>a, <2>2, HitType
<1>. HIDE DEF hits
<1>d. /\ UNCHANGED <<pc, occ, line, keys, nkeys, i, checker, tas, answer>>
      /\ ai' <= Len(hits)
      /\ TypeOK'
      /\ \A d \in Docs :
           did_check'[d] = IF hits[ai + 1] = d THEN did_check[d] \union Refused
                           ELSE did_check[d]
      /\ \A d : Seen(hits, d, ai') <=> Seen(hits, d, ai) \/ hits[ai + 1] = d
  BY <1>0, <1>a, <1>c, NotBitIsBit, CheckKeywordTurn
<1>1. \A d \in Docs :
        did_check'[d] = IF RefusedBy(occ, nkeys, d, i) \/ Seen(hits, d, ai')
                        THEN Refused ELSE {}
  <2>1. \A d \in Docs :
          did_check[d] = IF RefusedBy(occ, nkeys, d, i) \/ Seen(hits, d, ai)
                         THEN Refused ELSE {}
    BY <1>a DEF MarkNotKeyInv, hits
  <2>. QED BY <2>1, <1>d
<1>2. MarkNotKeyInv'
  BY <1>a, <1>d, <1>1 DEF MarkNotKeyInv, hits
<1>3. FoundOnce' /\ NotKeysRefuse' /\ AnswerIsQuery'
  BY <1>0, <1>d, <1>2, NoneTaken, NotDone DEF MarkNotKeyInv
<1>. QED BY <1>0, <1>d, <1>2, <1>3 DEF IInv
-----------------------------------------------------------------------------
(* The keys but the last.                                                  *)
LEMMA TwiceLeavesNotBit ==
  ASSUME NEW byte \in SUBSET Bit
  PROVE  Twice(byte) \in SUBSET Bit /\ 0 \notin Twice(byte)
<1>1. ASSUME NEW b \in byte PROVE b + 1 # 0
  <2>1. b \in Bit
    OBVIOUS
  <2>2. b \in Nat
    BY <2>1, CountsAssumption DEF Bit
  <2>. QED BY <2>2
<1>. QED BY <1>1 DEF Twice

LEMMA KeyFoundStep == ASSUME IInv, KeyFound PROVE IInv'
<1>0. /\ pc = "keys" /\ pc' = "mark key" /\ i < Len(keys) - 1
      /\ UNCHANGED <<occ, line, keys, nkeys, did_check, i, tas, answer>>
      /\ checker' = Twice(checker) /\ ai' = 0 /\ num_of_tas' = 0
  BY DEF KeyFound, parsed
<1>a. KeysInv /\ TypeOK
  BY <1>0 DEF IInv
<1>b. i \in Nat /\ Len(keys) \in Nat /\ i + 1 < Len(keys)
  <2>1. i \in Nat /\ Len(keys) \in Nat
    BY <1>a, KeyType, CounterType
  <2>2. i < Len(keys) - 1
    BY <1>0
  <2>. QED BY <2>1, <2>2
<1>c. Len(occ[keys[i + 1]]) \in Nat
  <2>1. i + 1 \in 1 .. Len(keys)
    BY <1>b
  <2>. QED BY <1>a, <2>1, KeyType, HitType
<1>d. checker \in SUBSET Bit
  BY <1>a DEF TypeOK
<1>e. checker' \in SUBSET Bit /\ 0 \notin checker'
  BY <1>0, <1>d, TwiceLeavesNotBit
<1>1. TypeOK'
  BY <1>0, <1>a, <1>e DEF TypeOK
<1>2. \A d \in Docs : NotBit(d)'
  BY <1>0, <1>a DEF KeysInv, NotBit
<1>3. ASSUME FewKeys
      PROVE  /\ checker' = {i + 1}
             /\ \A d \in Docs : KeyBitsMarking(d)'
             /\ \A d \in Docs : ~ Seen(occ[keys[i + 1]], d, 0)
  <2>1. \A d \in Docs : ~ Seen(occ[keys[i + 1]], d, 0)
    BY SeenHits
  <2>2. checker = {i} /\ \A d \in Docs : KeyBits(d)
    BY <1>a, <1>3 DEF KeysInv
  <2>3. i + 1 \in Bit
    BY <1>b, <1>3, CountsAssumption DEF FewKeys, Bit
  <2>4. checker' = {i + 1}
    BY <1>0, <2>2, <2>3 DEF Twice
  <2>5. \A d \in Docs : KeyBitsMarking(d)'
    BY <1>0, <2>1, <2>2 DEF KeyBits, KeyBitsMarking
  <2>. QED BY <2>1, <2>4, <2>5
<1>4. MarkKeyInv'
  <2>1. FewKeys' => FewKeys
    BY <1>0 DEF FewKeys
  <2>2. i' + 1 < Len(keys') /\ tas' = <<>> /\ ai' <= Len(occ'[keys'[i' + 1]])
    <3>1. i' + 1 < Len(keys')
      BY <1>0, <1>b
    <3>2. tas' = <<>>
      BY <1>0, <1>a DEF KeysInv
    <3>3. 0 <= Len(occ[keys[i + 1]])
      BY <1>c
    <3>4. ai' <= Len(occ'[keys'[i' + 1]])
      BY <1>0, <3>3
    <3>. QED BY <3>1, <3>2, <3>4
  <2>3. ASSUME FewKeys'
        PROVE  /\ checker' = {i' + 1}
               /\ \A d \in Docs : KeyBitsMarking(d)'
               /\ \A d \in Docs : ~ Seen(occ'[keys'[i' + 1]], d, ai')
    BY <1>0, <1>3, <2>1, <2>3
  <2>. QED BY <1>e, <1>2, <2>2, <2>3 DEF MarkKeyInv
<1>5. FoundOnce' /\ NotKeysRefuse' /\ AnswerIsQuery'
  BY <1>0, <1>4, NoneTaken, NotDone DEF MarkKeyInv
<1>. QED BY <1>0, <1>1, <1>4, <1>5 DEF IInv

(* The hits of the key at hand.                                            *)
LEMMA KeyHits ==
  ASSUME TypeOK, i + 1 < Len(keys) \/ i < Len(keys) - 1
  PROVE  /\ i \in Nat /\ Len(keys) \in Nat
         /\ i + 1 < Len(keys) /\ i + 1 \in 1 .. Len(keys)
         /\ occ[keys[i + 1]] \in Seq(Hit) /\ Len(occ[keys[i + 1]]) \in Nat
<1>1. i \in Nat /\ Len(keys) \in Nat
  BY KeyType, CounterType
<1>2. i + 1 < Len(keys) /\ i + 1 \in 1 .. Len(keys)
  BY <1>1
<1>3. keys[i + 1] \in Keys
  BY <1>2, KeyType
<1>. QED BY <1>1, <1>2, <1>3, HitType

(* A key that a document does not hold is enough not to ask for it.        *)
LEMMA KeyMissing ==
  ASSUME NEW n \in 1 .. Len(keys), NEW d, ~ Holds(occ[keys[n]], d)
  PROVE  ~ AskedFor(d)
BY DEF AskedFor

LEMMA KeyNotFoundStep == ASSUME IInv, KeyNotFound PROVE IInv'
<1>0. /\ pc = "keys" /\ pc' = "done" /\ i < Len(keys) - 1
      /\ occ[keys[i + 1]] = <<>>
      /\ UNCHANGED <<occ, line, keys, nkeys, did_check, i, ai, num_of_tas, tas>>
      /\ checker' = Twice(checker) /\ answer' = "NOT FOUND"
  BY DEF KeyNotFound, Return, parsed
<1>a. KeysInv /\ TypeOK
  BY <1>0 DEF IInv
<1>1. TypeOK'
  <2>1. checker' \in SUBSET Bit
    BY <1>0, <1>a, TwiceLeavesNotBit DEF TypeOK
  <2>. QED BY <1>0, <1>a, <2>1 DEF TypeOK
<1>2. FoundOnce' /\ NotKeysRefuse'
  BY <1>0, <1>a, NoneTaken DEF KeysInv
<1>3. \A d \in Docs : ~ AskedFor(d)'
  <2>1. i + 1 \in 1 .. Len(keys)
    BY <1>0, <1>a, KeyHits
  <2>2. \A d \in Docs : ~ Holds(occ[keys[i + 1]], d)
    BY <1>0, NoHits
  <2>. QED BY <1>0, <2>1, <2>2, KeyMissing, SameQuery
<1>4. AnswerIsQuery'
  BY <1>0, <1>3 DEF AnswerIsQuery
<1>. QED BY <1>0, <1>1, <1>2, <1>4 DEF IInv

(* One hit of a key.                                                       *)
LEMMA MarkKeyStep == ASSUME IInv, MarkKey PROVE IInv'
<1>. DEFINE hits == occ[keys[i + 1]]
<1>0. pc = "mark key" /\ CheckKeyword(hits, checker)
  BY DEF MarkKey
<1>a. MarkKeyInv /\ TypeOK
  BY <1>0 DEF IInv
<1>b. /\ i \in Nat /\ Len(keys) \in Nat
      /\ i + 1 < Len(keys) /\ hits \in Seq(Hit)
  BY <1>a, KeyHits DEF MarkKeyInv
<1>c. checker \in SUBSET Bit /\ 0 \notin checker
  BY <1>a DEF MarkKeyInv, TypeOK
<1>. HIDE DEF hits
<1>d. /\ UNCHANGED <<pc, occ, line, keys, nkeys, i, checker, tas, answer>>
      /\ ai' <= Len(hits)
      /\ TypeOK'
      /\ \A d \in Docs :
           did_check'[d] = IF hits[ai + 1] = d THEN did_check[d] \union checker
                           ELSE did_check[d]
      /\ \A d : Seen(hits, d, ai') <=> Seen(hits, d, ai) \/ hits[ai + 1] = d
      /\ num_of_tas' = 0 =>
           /\ num_of_tas = 0
           /\ \A d \in Docs :
                hits[ai + 1] = d => did_check[d] \intersect checker # {}
  BY <1>0, <1>a, <1>b, <1>c, CheckKeywordTurn
<1>1. \A d \in Docs : NotBit(d)'
  <2>1. \A d \in Docs : 0 \in did_check'[d] <=> 0 \in did_check[d]
    BY <1>c, <1>d
  <2>2. \A d \in Docs : NotBit(d)
    BY <1>a DEF MarkKeyInv
  <2>. QED BY <1>d, <2>1, <2>2 DEF NotBit
<1>2. ASSUME FewKeys
      PROVE  /\ checker = {i + 1}
             /\ \A d \in Docs : KeyBitsMarking(d)'
             /\ num_of_tas' = 0 => \A d \in Docs : ~ Seen(hits, d, ai')
  <2>1. /\ checker = {i + 1}
        /\ \A d \in Docs : KeyBitsMarking(d)
        /\ num_of_tas = 0 => \A d \in Docs : ~ Seen(hits, d, ai)
    BY <1>a, <1>2 DEF MarkKeyInv, hits
  <2>2. ASSUME NEW d \in Docs
        PROVE  \A b \in 1 .. CharBit - 1 :
                 b \in did_check'[d]
                   <=> \/ b <= i /\ Holds(occ[keys[b]], d)
                       \/ b = i + 1 /\ Seen(occ[keys[b]], d, ai')
    <3>1. \A b \in 1 .. CharBit - 1 :
            b \in did_check[d]
              <=> \/ b <= i /\ Holds(occ[keys[b]], d)
                  \/ b = i + 1 /\ Seen(occ[keys[b]], d, ai)
      BY <2>1 DEF KeyBitsMarking
    <3>2. \A b : b \in did_check'[d]
                   <=> b \in did_check[d] \/ (b = i + 1 /\ hits[ai + 1] = d)
      BY <1>d, <2>1
    <3>3. \A b : b = i + 1 =>
                   (Seen(occ[keys[b]], d, ai')
                      <=> Seen(occ[keys[b]], d, ai) \/ hits[ai + 1] = d)
      BY <1>d DEF hits
    <3>. QED BY <3>1, <3>2, <3>3
  <2>3. \A d \in Docs : KeyBitsMarking(d)'
    BY <1>d, <2>2 DEF KeyBitsMarking
  <2>4. ASSUME num_of_tas' = 0, NEW d \in Docs, Seen(hits, d, ai')
        PROVE  FALSE
    <3>1. num_of_tas = 0 /\ ~ Seen(hits, d, ai)
      BY <1>d, <2>1, <2>4
    <3>2. hits[ai + 1] = d
      BY <1>d, <2>4, <3>1
    <3>3. i + 1 \in did_check[d]
      BY <1>d, <2>1, <2>4, <3>2
    <3>4. i + 1 \in 1 .. CharBit - 1 /\ ~ i + 1 <= i
      BY <1>b, <1>2, CountsAssumption DEF FewKeys
    <3>5. Seen(occ[keys[i + 1]], d, ai)
      BY <2>1, <3>3, <3>4 DEF KeyBitsMarking
    <3>. QED BY <3>1, <3>5 DEF hits
  <2>. QED BY <2>1, <2>3, <2>4
<1>3. MarkKeyInv'
  <2>1. FewKeys' <=> FewKeys
    BY <1>d DEF FewKeys
  <2>2. hits = occ'[keys'[i' + 1]]
    BY <1>d DEF hits
  <2>3. /\ i' + 1 < Len(keys') /\ tas' = <<>>
        /\ ai' <= Len(occ'[keys'[i' + 1]]) /\ 0 \notin checker'
    BY <1>a, <1>c, <1>d, <2>2 DEF MarkKeyInv
  <2>4. ASSUME FewKeys'
        PROVE  /\ checker' = {i' + 1}
               /\ \A d \in Docs : KeyBitsMarking(d)'
               /\ num_of_tas' = 0 =>
                    \A d \in Docs : ~ Seen(occ'[keys'[i' + 1]], d, ai')
    BY <1>d, <1>2, <2>1, <2>2, <2>4
  <2>. QED BY <1>1, <2>3, <2>4 DEF MarkKeyInv
<1>4. FoundOnce' /\ NotKeysRefuse' /\ AnswerIsQuery'
  BY <1>0, <1>d, <1>3, NoneTaken, NotDone DEF MarkKeyInv
<1>. QED BY <1>0, <1>d, <1>3, <1>4 DEF IInv

LEMMA KeyMarkedStep == ASSUME IInv, KeyMarked PROVE IInv'
<1>0. /\ pc = "mark key" /\ pc' = "keys" /\ ai >= Len(occ[keys[i + 1]])
      /\ UNCHANGED <<occ, line, keys, nkeys, did_check, ai, checker, num_of_tas, tas, answer>>
      /\ i' = i + 1
  BY DEF KeyMarked, parsed
<1>a. MarkKeyInv /\ TypeOK
  BY <1>0 DEF IInv
<1>b. /\ i \in Nat /\ ai \in Nat /\ Len(keys) \in Nat /\ i + 1 < Len(keys)
      /\ Len(occ[keys[i + 1]]) \in Nat
  BY <1>a, KeyHits, CounterType DEF MarkKeyInv
<1>c. ai = Len(occ[keys[i + 1]])
  <2>1. ai <= Len(occ[keys[i + 1]]) /\ ai >= Len(occ[keys[i + 1]])
    BY <1>0, <1>a DEF MarkKeyInv
  <2>. QED BY <1>b, <2>1
<1>1. TypeOK'
  BY <1>0, <1>a, CounterType DEF TypeOK
<1>2. \A d \in Docs : NotBit(d)'
  BY <1>0, <1>a DEF MarkKeyInv, NotBit
<1>3. ASSUME FewKeys
      PROVE  checker' = {i'} /\ \A d \in Docs : KeyBits(d)'
  <2>1. checker = {i + 1} /\ \A d \in Docs : KeyBitsMarking(d)
    BY <1>a, <1>3 DEF MarkKeyInv
  <2>2. ASSUME NEW d \in Docs, NEW b \in 1 .. CharBit - 1
        PROVE  b \in did_check[d] <=> b <= i + 1 /\ Holds(occ[keys[b]], d)
    <3>1. b \in did_check[d]
            <=> \/ b <= i /\ Holds(occ[keys[b]], d)
                \/ b = i + 1 /\ Seen(occ[keys[b]], d, ai)
      BY <2>1 DEF KeyBitsMarking
    <3>2. b = i + 1 =>
            (Seen(occ[keys[b]], d, ai) <=> Holds(occ[keys[b]], d))
      BY <1>c, SeenHits
    <3>3. b <= i + 1 <=> b <= i \/ b = i + 1
      BY <1>b
    <3>. QED BY <3>1, <3>2, <3>3
  <2>. QED BY <1>0, <2>1, <2>2 DEF KeyBits
<1>4. KeysInv'
  <2>1. FewKeys' <=> FewKeys
    BY <1>0 DEF FewKeys
  <2>2. i' < Len(keys') /\ tas' = <<>>
    BY <1>0, <1>a, <1>b DEF MarkKeyInv
  <2>. QED BY <1>2, <1>3, <2>1, <2>2 DEF KeysInv
<1>5. FoundOnce' /\ NotKeysRefuse' /\ AnswerIsQuery'
  BY <1>0, <1>4, NoneTaken, NotDone DEF KeysInv
<1>. QED BY <1>0, <1>1, <1>4, <1>5 DEF IInv

LEMMA NoTextAreaStep == ASSUME IInv, NoTextArea PROVE IInv'
<1>0. /\ pc = "mark key" /\ pc' = "done" /\ ai >= Len(occ[keys[i + 1]])
      /\ UNCHANGED <<occ, line, keys, nkeys, did_check, i, ai, checker, num_of_tas, tas>>
      /\ num_of_tas = 0 /\ answer' = "NOTHING"
  BY DEF NoTextArea, Return, parsed
<1>a. MarkKeyInv /\ TypeOK
  BY <1>0 DEF IInv
<1>b. ai \in Nat /\ i + 1 \in 1 .. Len(keys) /\ Len(occ[keys[i + 1]]) \in Nat
  BY <1>a, KeyHits, CounterType DEF MarkKeyInv
<1>c. ai = Len(occ[keys[i + 1]])
  <2>1. ai <= Len(occ[keys[i + 1]]) /\ ai >= Len(occ[keys[i + 1]])
    BY <1>0, <1>a DEF MarkKeyInv
  <2>. QED BY <1>b, <2>1
<1>1. TypeOK'
  BY <1>0, <1>a DEF TypeOK
<1>2. FoundOnce' /\ NotKeysRefuse'
  BY <1>0, <1>a, NoneTaken DEF MarkKeyInv
<1>3. ASSUME FewKeys PROVE \A d \in Docs : ~ AskedFor(d)'
  <2>1. \A d \in Docs : ~ Seen(occ[keys[i + 1]], d, ai)
    BY <1>0, <1>a, <1>3 DEF MarkKeyInv
  <2>2. \A d \in Docs : ~ Holds(occ[keys[i + 1]], d)
    BY <1>c, <2>1, SeenHits
  <2>. QED BY <1>0, <1>b, <2>2, KeyMissing, SameQuery
<1>4. AnswerIsQuery'
  BY <1>0, <1>3 DEF AnswerIsQuery, FewKeys
<1>. QED BY <1>0, <1>1, <1>2, <1>4 DEF IInv
-----------------------------------------------------------------------------
(* The last key.                                                           *)
LEMMA LastKeyNotFoundStep == ASSUME IInv, LastKeyNotFound PROVE IInv'
<1>0. /\ pc = "keys" /\ pc' = "done" /\ occ[LastKey] = <<>>
      /\ UNCHANGED <<occ, line, keys, nkeys, did_check, i, ai, checker, num_of_tas, tas>>
      /\ answer' = "NOT FOUND"
  BY DEF LastKeyNotFound, Return, parsed
<1>a. KeysInv /\ TypeOK
  BY <1>0 DEF IInv
<1>1. TypeOK'
  BY <1>0, <1>a DEF TypeOK
<1>2. FoundOnce' /\ NotKeysRefuse'
  BY <1>0, <1>a, NoneTaken DEF KeysInv
<1>3. \A d \in Docs : ~ AskedFor(d)'
  <2>1. Len(keys) \in 1 .. Len(keys)
    <3>1. i \in Nat /\ Len(keys) \in Nat
      BY <1>a, KeyType, CounterType
    <3>2. i < Len(keys)
      BY <1>a DEF KeysInv
    <3>. QED BY <3>1, <3>2
  <2>2. \A d : ~ Holds(occ[keys[Len(keys)]], d)
    BY <1>0, NoHits DEF LastKey
  <2>. QED BY <1>0, <2>1, <2>2, KeyMissing, SameQuery
<1>4. AnswerIsQuery'
  BY <1>0, <1>3 DEF AnswerIsQuery
<1>. QED BY <1>0, <1>1, <1>2, <1>4 DEF IInv

LEMMA LastKeyFoundStep == ASSUME IInv, LastKeyFound PROVE IInv'
<1>0. /\ pc = "keys" /\ pc' = "mark last" /\ i >= Len(keys) - 1
      /\ UNCHANGED <<occ, line, keys, nkeys, did_check, i, checker, num_of_tas, answer>>
      /\ ai' = 0 /\ tas' = <<>>
  BY DEF LastKeyFound, parsed
<1>a. KeysInv /\ TypeOK
  BY <1>0 DEF IInv
<1>b. i = Len(keys) - 1 /\ Len(keys) > 0 /\ keys # <<>>
  <2>1. i \in Nat /\ Len(keys) \in Nat
    BY <1>a, KeyType, CounterType
  <2>2. i >= Len(keys) - 1 /\ i < Len(keys)
    BY <1>0, <1>a DEF KeysInv
  <2>3. i = Len(keys) - 1 /\ Len(keys) > 0
    BY <2>1, <2>2
  <2>. QED BY <2>3
<1>c. Len(occ[LastKey]) \in Nat
  BY <1>a, <1>b, KeyType, HitType
<1>1. TypeOK'
  <2>1. ai' = 0 /\ tas' = <<>>
    BY <1>0
  <2>2. ai' \in Nat /\ tas' \in Seq(Docs)
    BY <2>1
  <2>. QED BY <1>0, <1>a, <2>2 DEF TypeOK
<1>2. /\ \A d : ~ Taken(d)'
      /\ \A d : ~ Seen(occ'[LastKey'], d, ai')
  <2>0. tas' = <<>> /\ ai' = 0
    BY <1>0
  <2>1. 1 .. Len(tas') = {}
    BY <2>0
  <2>. QED BY <2>0, <2>1, SeenHits DEF Taken
<1>3. \A d \in Docs : NotBit(d)'
  BY <1>0, <1>a DEF KeysInv, NotBit
<1>4. FewKeys' => checker' = {i'} /\ \A d \in Docs : KeyBits(d)'
  BY <1>0, <1>a DEF KeysInv, FewKeys, KeyBits
<1>5. LastKeyInv'
  <2>1. LastKey' = LastKey
    BY <1>0, SameQuery
  <2>2. keys' # <<>> /\ i' = Len(keys') - 1
    BY <1>0, <1>b
  <2>3. ai' <= Len(occ'[LastKey'])
    <3>1. 0 <= Len(occ[LastKey])
      BY <1>c
    <3>. QED BY <1>0, <2>1, <3>1
  <2>. QED BY <1>2, <1>3, <1>4, <2>2, <2>3 DEF LastKeyInv
<1>6. FoundOnce' /\ NotKeysRefuse' /\ AnswerIsQuery'
  BY <1>0, NoneTaken, NotDone
<1>. QED BY <1>0, <1>1, <1>5, <1>6 DEF IInv

LEMMA SikiiBits ==
  /\ 0 \notin Sikii
  /\ \A b \in Bit : checker = {i} => (b \in Sikii <=> b > 0 /\ b <= i)
BY DEF Sikii

(* Of the documents that hold the last key and have not been taken those   *)
(* have the right bits that the query asks for.                            *)
LEMMA RightBits ==
  ASSUME TypeOK, LastKeyInv, FewKeys, NEW d \in Docs, ~ Taken(d),
         Holds(occ[LastKey], d)
  PROVE  did_check[d] = Sikii <=> AskedFor(d)
<1>1. /\ i \in Nat /\ i = Len(keys) - 1 /\ Len(keys) \in Nat
      /\ CharBit \in Nat /\ Len(keys) <= CharBit
  BY KeyType, CounterType, CountsAssumption DEF LastKeyInv, FewKeys
<1>2. checker = {i} /\ NotBit(d) /\ KeyBits(d)
  BY DEF LastKeyInv
<1>3. did_check[d] \subseteq Bit /\ Sikii \subseteq Bit
  BY DEF TypeOK, Sikii
<1>4. Bit = {0} \union (1 .. CharBit - 1)
  BY <1>1 DEF Bit
<1>5. \A b \in 1 .. CharBit - 1 : b \in Sikii <=> b <= i
  <2>1. \A b \in 1 .. CharBit - 1 : b \in Bit /\ b > 0
    BY <1>1 DEF Bit
  <2>. QED BY <1>2, <2>1, SikiiBits
<1>6. did_check[d] = Sikii
        <=> /\ 0 \notin did_check[d]
            /\ \A b \in 1 .. CharBit - 1 : b \in did_check[d] <=> b <= i
  <2>1. ASSUME 0 \notin did_check[d],
               \A b \in 1 .. CharBit - 1 : b \in did_check[d] <=> b <= i
        PROVE  did_check[d] = Sikii
    <3>1. ASSUME NEW b \in Bit PROVE b \in did_check[d] <=> b \in Sikii
      BY <1>4, <1>5, <2>1, SikiiBits
    <3>. QED BY <1>3, <3>1
  <2>2. ASSUME did_check[d] = Sikii
        PROVE  /\ 0 \notin did_check[d]
               /\ \A b \in 1 .. CharBit - 1 : b \in did_check[d] <=> b <= i
    BY <1>5, <2>2, SikiiBits
  <2>. QED BY <2>1, <2>2
<1>7. 0 \notin did_check[d]
        <=> \A n \in 1 .. Len(nkeys) : ~ Holds(occ[nkeys[n]], d)
  BY <1>2 DEF NotBit, RefusedBy
<1>8. (\A b \in 1 .. CharBit - 1 : b \in did_check[d] <=> b <= i)
        <=> \A n \in 1 .. i : Holds(occ[keys[n]], d)
  <2>1. \A b \in 1 .. CharBit - 1 :
          b \in did_check[d] <=> b <= i /\ Holds(occ[keys[b]], d)
    BY <1>2 DEF KeyBits
  <2>2. \A b : b \in 1 .. i <=> b \in 1 .. CharBit - 1 /\ b <= i
    BY <1>1
  <2>. QED BY <2>1, <2>2
<1>9. (\A n \in 1 .. Len(keys) : Holds(occ[keys[n]], d))
        <=> \A n \in 1 .. i : Holds(occ[keys[n]], d)
  <2>1. 1 .. Len(keys) = (1 .. i) \union {Len(keys)}
    BY <1>1
  <2>. QED BY <2>1 DEF LastKey
<1>. QED BY <1>6, <1>7, <1>8, <1>9 DEF AskedFor

(* The hit of the last key at hand.                                        *)
LEMMA LastHit ==
  ASSUME TypeOK, keys # <<>>, ai < Len(occ[LastKey])
  PROVE  /\ ai \in Nat /\ ai + 1 <= Len(occ[LastKey])
         /\ \A d : occ[LastKey][ai + 1] = d => Holds(occ[LastKey], d)
         /\ occ[LastKey][ai + 1] = None \/ occ[LastKey][ai + 1] \in Docs
         /\ \A d : Seen(occ[LastKey], d, ai + 1)
                    <=> Seen(occ[LastKey], d, ai) \/ occ[LastKey][ai + 1] = d
         /\ \A d : Seen(occ[LastKey], d, ai + 1) => Holds(occ[LastKey], d)
<1>1. ai \in Nat /\ Len(occ[LastKey]) \in Nat /\ LastKey \in Keys
  BY KeyType, HitType, CounterType
<1>2. ai + 1 <= Len(occ[LastKey]) /\ ai + 1 \in 1 .. Len(occ[LastKey])
  BY <1>1
<1>3. \A x \in 1 .. ai + 1 : x \in 1 .. Len(occ[LastKey])
  BY <1>1
<1>. QED BY <1>1, <1>2, <1>3, HitType, SeenHits DEF Holds, Seen

(* One document more is found.                                             *)
LEMMA OneTaken ==
  ASSUME tas \in Seq(Docs), NEW h \in Docs, tas' = Append(tas, h)
  PROVE  /\ tas' \in Seq(Docs)
         /\ Len(tas) \in Nat /\ Len(tas') = Len(tas) + 1
         /\ \A n \in 1 .. Len(tas) : tas'[n] = tas[n]
         /\ tas'[Len(tas) + 1] = h
         /\ \A d : Taken(d)' <=> Taken(d) \/ d = h
<1>1. /\ tas' \in Seq(Docs)
      /\ Len(tas) \in Nat /\ Len(tas') = Len(tas) + 1
      /\ \A n \in 1 .. Len(tas) : tas'[n] = tas[n]
      /\ tas'[Len(tas) + 1] = h
  OBVIOUS
<1>2. 1 .. Len(tas') = (1 .. Len(tas)) \union {Len(tas) + 1}
  BY <1>1
<1>3. \A d : Taken(d)' <=> Taken(d) \/ d = h
  BY <1>1, <1>2 DEF Taken
<1>. QED BY <1>1, <1>3

LEMMA TakeDocumentStep == ASSUME IInv, TakeDocument PROVE IInv'
<1>. DEFINE h == occ[LastKey][ai + 1]
<1>0. /\ pc = "mark last" /\ pc' = pc /\ ai < Len(occ[LastKey])
      /\ h # None /\ did_check[h] = Sikii
      /\ did_check' = [did_check EXCEPT ![h] = Refused]
      /\ tas' = Append(tas, h) /\ ai' = ai + 1
      /\ UNCHANGED <<occ, line, keys, nkeys, i, checker, num_of_tas, answer>>
  BY DEF TakeDocument, parsed
<1>a. LastKeyInv /\ TypeOK /\ FoundOnce /\ NotKeysRefuse
  BY <1>0 DEF IInv
<1>b. /\ ai \in Nat /\ ai + 1 <= Len(occ[LastKey])
      /\ h \in Docs /\ Holds(occ[LastKey], h)
      /\ \A d : Seen(occ[LastKey], d, ai + 1) <=> Seen(occ[LastKey], d, ai) \/ h = d
  BY <1>0, <1>a, LastHit DEF LastKeyInv
<1>. HIDE DEF h
<1>c. ~ Taken(h)
  BY <1>0, <1>a, <1>b, SikiiBits DEF LastKeyInv, Refused
<1>d. \A n \in 1 .. Len(nkeys) : ~ Holds(occ[nkeys[n]], h)
  BY <1>0, <1>a, <1>b, <1>c, SikiiBits DEF LastKeyInv, NotBit, RefusedBy
<1>e. /\ tas' \in Seq(Docs)
      /\ Len(tas) \in Nat /\ Len(tas') = Len(tas) + 1
      /\ \A n \in 1 .. Len(tas) : tas'[n] = tas[n]
      /\ tas'[Len(tas) + 1] = h
      /\ \A d : Taken(d)' <=> Taken(d) \/ d = h
  BY <1>0, <1>a, <1>b, OneTaken DEF TypeOK
<1>f. \A n \in 1 .. Len(tas') :
        n \in 1 .. Len(tas) \/ n = Len(tas) + 1
  BY <1>e
<1>g. did_check \in [Docs -> SUBSET Bit]
  BY <1>a DEF TypeOK
<1>h. \A d \in Docs : did_check'[d] = IF d = h THEN Refused ELSE did_check[d]
  BY <1>0, <1>g
<1>1. TypeOK'
  <2>1. did_check' \in [Docs -> SUBSET Bit]
    BY <1>0, <1>b, <1>g, NotBitIsBit
  <2>2. ai' \in Nat
    BY <1>0, <1>a, CounterType
  <2>. QED BY <1>0, <1>a, <1>e, <2>1, <2>2 DEF TypeOK
<1>2. LastKeyInv'
  <2>1. LastKey' = LastKey /\ (FewKeys' <=> FewKeys)
    BY <1>0, SameQuery
  <2>2. \A d : AskedFor(d)' <=> AskedFor(d)
    BY <1>0, SameQuery
  <2>3. keys' # <<>> /\ i' = Len(keys') - 1 /\ ai' <= Len(occ'[LastKey'])
    BY <1>0, <1>a, <1>b, <2>1 DEF LastKeyInv
  <2>4. \A d \in Docs : Taken(d)' => did_check'[d] = Refused
    BY <1>a, <1>e, <1>h DEF LastKeyInv
  <2>5. \A d \in Docs : ~ Taken(d)' => NotBit(d)'
    BY <1>0, <1>a, <1>e, <1>h DEF LastKeyInv, NotBit
  <2>6. ASSUME FewKeys
        PROVE  /\ checker' = {i'}
               /\ \A d \in Docs : Taken(d)' => AskedFor(d)
               /\ \A d \in Docs : ~ Taken(d)' => KeyBits(d)'
               /\ \A d \in Docs :
                    Seen(occ[LastKey], d, ai + 1) /\ AskedFor(d) => Taken(d)'
    <3>1. AskedFor(h)
      BY <1>0, <1>a, <1>b, <1>c, <2>6, RightBits
    <3>2. \A d \in Docs : ~ Taken(d)' => KeyBits(d)'
      BY <1>0, <1>a, <1>e, <1>h, <2>6, ZenonT(60) DEF LastKeyInv, KeyBits
    <3>. QED BY <1>0, <1>a, <1>b, <1>e, <2>6, <3>1, <3>2 DEF LastKeyInv
  <2>7. \A d : Seen(occ[LastKey], d, ai + 1) <=> Seen(occ'[LastKey'], d, ai')
    BY <1>0, <2>1
  <2>. QED BY <2>1, <2>2, <2>3, <2>4, <2>5, <2>6, <2>7 DEF LastKeyInv
<1>3. FoundOnce'
  <2>1. \A n \in 1 .. Len(tas) : tas[n] # h
    BY <1>c DEF Taken
  <2>. QED BY <1>a, <1>e, <1>f, <2>1 DEF FoundOnce
<1>4. NotKeysRefuse'
  BY <1>0, <1>a, <1>d, <1>e, <1>f DEF NotKeysRefuse
<1>5. AnswerIsQuery'
  BY <1>0, NotDone
<1>. QED BY <1>0, <1>1, <1>2, <1>3, <1>4, <1>5 DEF IInv

LEMMA PassHitStep == ASSUME IInv, PassHit PROVE IInv'
<1>. DEFINE h == occ[LastKey][ai + 1]
<1>0. /\ pc = "mark last" /\ pc' = pc /\ ai < Len(occ[LastKey])
      /\ h # None => did_check[h] # Sikii
      /\ ai' = ai + 1
      /\ UNCHANGED <<occ, line, keys, nkeys, did_check, i, checker, num_of_tas, tas, answer>>
  BY DEF PassHit, parsed
<1>a. LastKeyInv /\ TypeOK /\ FoundOnce /\ NotKeysRefuse
  BY <1>0 DEF IInv
<1>b. /\ ai \in Nat /\ ai + 1 <= Len(occ[LastKey])
      /\ \A d : Seen(occ[LastKey], d, ai + 1) <=> Seen(occ[LastKey], d, ai) \/ h = d
      /\ \A d : h = d => Holds(occ[LastKey], d)
  BY <1>0, <1>a, LastHit DEF LastKeyInv
<1>. HIDE DEF h
<1>1. TypeOK'
  BY <1>0, <1>a, CounterType DEF TypeOK
<1>2. LastKeyInv'
  <2>1. LastKey' = LastKey /\ (FewKeys' <=> FewKeys)
    BY <1>0, SameQuery
  <2>2. \A d : /\ AskedFor(d)' <=> AskedFor(d)
               /\ Taken(d)' <=> Taken(d)
               /\ NotBit(d)' <=> NotBit(d)
               /\ KeyBits(d)' <=> KeyBits(d)
    BY <1>0 DEF AskedFor, Taken, NotBit, KeyBits
  <2>3. ASSUME FewKeys, NEW d \in Docs, Seen(occ[LastKey], d, ai + 1), AskedFor(d)
        PROVE  Taken(d)
    <3>1. CASE h = d
      <4>0. d # None
        BY DEF Docs, None
      <4>1. did_check[d] # Sikii
        BY <1>0, <3>1, <4>0
      <4>. QED BY <1>a, <1>b, <2>3, <3>1, <4>1, RightBits
    <3>2. CASE h # d
      <4>1. Seen(occ[LastKey], d, ai)
        BY <1>b, <2>3, <3>2
      <4>. QED BY <1>a, <2>3, <4>1 DEF LastKeyInv
    <3>. QED BY <3>1, <3>2
  <2>4. \A d : Seen(occ[LastKey], d, ai + 1) <=> Seen(occ'[LastKey'], d, ai')
    BY <1>0, <2>1
  <2>5. keys' # <<>> /\ i' = Len(keys') - 1 /\ ai' <= Len(occ'[LastKey'])
    BY <1>0, <1>a, <1>b, <2>1 DEF LastKeyInv
  <2>6. \A d \in Docs : /\ Taken(d)' => did_check'[d] = Refused
                        /\ ~ Taken(d)' => NotBit(d)'
    BY <1>0, <1>a, <2>2 DEF LastKeyInv
  <2>7. ASSUME FewKeys
        PROVE  /\ checker' = {i'}
               /\ \A d \in Docs : Taken(d)' => AskedFor(d)'
               /\ \A d \in Docs : ~ Taken(d)' => KeyBits(d)'
    BY <1>0, <1>a, <2>2, <2>7 DEF LastKeyInv
  <2>. QED BY <2>1, <2>2, <2>3, <2>4, <2>5, <2>6, <2>7 DEF LastKeyInv
<1>3. FoundOnce' /\ NotKeysRefuse'
  BY <1>0, <1>a DEF FoundOnce, NotKeysRefuse
<1>4. AnswerIsQuery'
  BY <1>0, NotDone
<1>. QED BY <1>0, <1>1, <1>2, <1>3, <1>4 DEF IInv

LEMMA FoundStep == ASSUME IInv, Found PROVE IInv'
<1>0. /\ pc = "mark last" /\ pc' = "done" /\ ai >= Len(occ[LastKey])
      /\ answer' = "FOUND"
      /\ UNCHANGED <<occ, line, keys, nkeys, did_check, i, ai, checker, num_of_tas, tas>>
  BY DEF Found, Return, parsed
<1>a. LastKeyInv /\ TypeOK /\ FoundOnce /\ NotKeysRefuse
  BY <1>0 DEF IInv
<1>b. /\ ai = Len(occ[LastKey]) /\ Len(keys) \in 1 .. Len(keys)
  <2>1. keys # <<>> /\ ai <= Len(occ[LastKey])
    BY <1>a DEF LastKeyInv
  <2>2. ai \in Nat /\ Len(occ[LastKey]) \in Nat /\ Len(keys) \in Nat /\ Len(keys) > 0
    BY <1>a, <2>1, KeyType, HitType, CounterType
  <2>3. ai >= Len(occ[LastKey])
    BY <1>0
  <2>. QED BY <2>1, <2>2, <2>3
<1>1. TypeOK'
  BY <1>0, <1>a DEF TypeOK
<1>2. FoundOnce' /\ NotKeysRefuse'
  BY <1>0, <1>a DEF FoundOnce, NotKeysRefuse
<1>3. ASSUME FewKeys PROVE \A d \in Docs : AskedFor(d) <=> Taken(d)
  <2>1. \A d \in Docs : AskedFor(d) => Seen(occ[LastKey], d, ai)
    BY <1>b, SeenHits DEF AskedFor, LastKey
  <2>. QED BY <1>a, <1>3, <2>1 DEF LastKeyInv
<1>4. AnswerIsQuery'
  <2>1. \A d : AskedFor(d)' <=> AskedFor(d)
    BY <1>0, SameQuery
  <2>. QED BY <1>0, <1>3, <2>1 DEF AnswerIsQuery, FewKeys, Taken
<1>. QED BY <1>0, <1>1, <1>2, <1>4 DEF IInv
-----------------------------------------------------------------------------
LEMMA NextLineStep == ASSUME IInv, NextLine PROVE IInv'
<1>0. /\ pc' = "read" /\ occ' = occ
      /\ line' = <<>> /\ keys' = <<>> /\ nkeys' = <<>> /\ tas' = <<>>
      /\ did_check' = [d \in Docs |-> {}] /\ checker' = {0}
      /\ i' = 0 /\ ai' = 0 /\ num_of_tas' = 0 /\ answer' = "NONE"
  BY DEF NextLine
<1>1. TypeOK'
  <2>1. 0 \in Bit
    BY CountsAssumption DEF Bit
  <2>2. occ' \in Occurrences
    BY <1>0 DEF IInv, TypeOK
  <2>. QED BY <1>0, <2>1, <2>2 DEF TypeOK
<1>2. Fresh'
  BY <1>0 DEF Fresh
<1>3. FoundOnce' /\ NotKeysRefuse' /\ AnswerIsQuery'
  BY <1>0, NoneTaken, NotDone
<1>. QED BY <1>0, <1>1, <1>2, <1>3 DEF IInv

LEMMA ExitStep == ASSUME IInv, Exit PROVE IInv'
<1>0. /\ pc' = "end"
      /\ UNCHANGED <<occ, line, keys, nkeys, did_check, i, ai, checker, num_of_tas, tas, answer>>
  BY DEF Exit, parsed
<1>1. TypeOK'
  BY <1>0 DEF IInv, TypeOK
<1>2. FoundOnce' /\ NotKeysRefuse'
  BY <1>0 DEF IInv, FoundOnce, NotKeysRefuse
<1>3. AnswerIsQuery'
  BY <1>0, NotDone
<1>. QED BY <1>0, <1>1, <1>2, <1>3 DEF IInv

LEMMA StutterStep == ASSUME IInv, UNCHANGED vars PROVE IInv'
<1>. USE DEF vars, parsed
<1>1. TypeOK' /\ (Fresh' <=> Fresh) /\ (NotKeysInv' <=> NotKeysInv)
  BY DEF IInv, TypeOK, Fresh, NotKeysInv
<1>2. \A d : /\ AskedFor(d)' <=> AskedFor(d)
             /\ Taken(d)' <=> Taken(d)
             /\ NotBit(d)' <=> NotBit(d)
             /\ KeyBits(d)' <=> KeyBits(d)
             /\ KeyBitsMarking(d)' <=> KeyBitsMarking(d)
  BY DEF AskedFor, Taken, NotBit, KeyBits, KeyBitsMarking
<1>3. (FewKeys' <=> FewKeys) /\ LastKey' = LastKey
  BY SameQuery
<1>4. (MarkNotKeyInv' <=> MarkNotKeyInv) /\ (KeysInv' <=> KeysInv)
  BY <1>2, <1>3 DEF MarkNotKeyInv, KeysInv
<1>5. MarkKeyInv' <=> MarkKeyInv
  BY <1>2, <1>3 DEF MarkKeyInv
<1>6. LastKeyInv' <=> LastKeyInv
  BY <1>2, <1>3 DEF LastKeyInv
<1>7. FoundOnce' /\ NotKeysRefuse'
  BY DEF IInv, FoundOnce, NotKeysRefuse
<1>8. AnswerIsQuery'
  BY <1>2 DEF IInv, AnswerIsQuery
<1>. QED BY <1>1, <1>4, <1>5, <1>6, <1>7, <1>8 DEF IInv
-----------------------------------------------------------------------------
(* Spec => []IInv: at each place of do_kensaku the check bits say what     *)
(* they are read for.                                                      *)
THEOREM InductiveInvariant == Spec => []IInv
<1>1. Init => IInv
  BY InitStep
<1>2. IInv /\ [Next]_vars => IInv'
  <2>. SUFFICES ASSUME IInv, [Next]_vars PROVE IInv'
    OBVIOUS
  <2>1. ASSUME NEW query \in Lines, FormatError(query) PROVE IInv'
    BY <2>1, FormatErrorStep
  <2>2. ASSUME NEW query \in Lines, ReadQuery(query) PROVE IInv'
    BY <2>2, ReadQueryStep
  <2>3. CASE ParseTerm BY <2>3, ParseTermStep
  <2>4. CASE NoKeys BY <2>4, NoKeysStep
  <2>5. CASE Parsed BY <2>5, ParsedStep
  <2>6. CASE NotKeyFound BY <2>6, NotKeyFoundStep
  <2>7. CASE NotKeyNotFound BY <2>7, NotKeyNotFoundStep
  <2>8. CASE MarkNotKey BY <2>8, MarkNotKeyStep
  <2>9. CASE NotKeyMarked BY <2>9, NotKeyMarkedStep
  <2>10. CASE NotKeysEnd BY <2>10, NotKeysEndStep
  <2>11. CASE KeyFound BY <2>11, KeyFoundStep
  <2>12. CASE KeyNotFound BY <2>12, KeyNotFoundStep
  <2>13. CASE MarkKey BY <2>13, MarkKeyStep
  <2>14. CASE KeyMarked BY <2>14, KeyMarkedStep
  <2>15. CASE NoTextArea BY <2>15, NoTextAreaStep
  <2>16. CASE LastKeyFound BY <2>16, LastKeyFoundStep
  <2>17. CASE LastKeyNotFound BY <2>17, LastKeyNotFoundStep
  <2>18. CASE TakeDocument BY <2>18, TakeDocumentStep
  <2>19. CASE PassHit BY <2>19, PassHitStep
  <2>20. CASE Found BY <2>20, FoundStep
  <2>21. CASE NextLine BY <2>21, NextLineStep
  <2>22. CASE Exit BY <2>22, ExitStep
  <2>23. CASE UNCHANGED vars BY <2>23, StutterStep
  <2>. QED
    BY <2>1, <2>2, <2>3, <2>4, <2>5, <2>6, <2>7, <2>8, <2>9, <2>10, <2>11,
       <2>12, <2>13, <2>14, <2>15, <2>16, <2>17, <2>18, <2>19, <2>20, <2>21,
       <2>22, <2>23
    DEF Next, Kensaku, Ended
<1>. QED BY <1>1, <1>2, PTL DEF Spec

(* Spec => []TypeOK: no check byte and no counter leaves its type.         *)
THEOREM TypeCorrect == Spec => []TypeOK
<1>1. IInv => TypeOK
  BY DEF IInv
<1>. QED BY <1>1, InductiveInvariant, PTL

(* Spec => []AnswerIsQuery: do_kensaku answers a query of at most as many  *)
(* keys as a check byte has bits with the documents it asks for, and a     *)
(* line of stdin is answered as if it were the first.                      *)
THEOREM AnswersTheQuery == Spec => []AnswerIsQuery
<1>1. IInv => AnswerIsQuery
  BY DEF IInv
<1>. QED BY <1>1, InductiveInvariant, PTL

(* Spec => []FoundOnce: check_last_keyword takes no document twice, even   *)
(* after more keys than bits.                                              *)
THEOREM DocumentsFoundOnce == Spec => []FoundOnce
<1>1. IInv => FoundOnce
  BY DEF IInv
<1>. QED BY <1>1, InductiveInvariant, PTL

(* Spec => []NotKeysRefuse: no document found holds a key behind a ^, even *)
(* after more keys than bits.                                              *)
THEOREM NotKeysAlwaysRefuse == Spec => []NotKeysRefuse
<1>1. IInv => NotKeysRefuse
  BY DEF IInv
<1>. QED BY <1>1, InductiveInvariant, PTL
=============================================================================
