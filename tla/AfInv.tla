------------------------------- MODULE AfInv -------------------------------
(***************************************************************************)
(* The inductive invariant of Af: what the check bits of a document say at *)
(* each place of the query, in terms of the hits that have been passed.    *)
(***************************************************************************)
EXTENDS Af

(* Document d is among the first m hits.                                   *)
Seen(hits, d, m) == \E x \in 1 .. m : hits[x] = d

(* One of the first m NOT keys refuses it, the hits of keys being o.       *)
RefusedBy(o, nots, d, m) == \E x \in 1 .. m : Holds(o[nots[x]], d)

Taken(d) == \E n \in 1 .. Len(tas) : tas[n] = d

(* The keys have a bit each, the last needs none.                          *)
FewKeys == Len(keys) <= CharBit

(* Bit 0 says that a NOT key refuses the document; bit b that it holds the *)
(* b-th key, if that is one of the first i.                                *)
NotBit(d) == 0 \in did_check[d] <=> RefusedBy(occ, nkeys, d, Len(nkeys))

KeyBits(d) ==
  \A b \in 1 .. CharBit - 1 :
    b \in did_check[d] <=> b <= i /\ Holds(occ[keys[b]], d)

KeyBitsMarking(d) ==
  \A b \in 1 .. CharBit - 1 :
    b \in did_check[d] <=> \/ b <= i /\ Holds(occ[keys[b]], d)
                           \/ b = i + 1 /\ Seen(occ[keys[b]], d, ai)

Fresh == i = 0 /\ checker = {0} /\ tas = <<>> /\ \A d \in Docs : did_check[d] = {}

NotKeysInv ==
  /\ keys # <<>> /\ checker = {0} /\ tas = <<>>
  /\ i <= Len(nkeys)
  /\ \A d \in Docs :
       did_check[d] = IF RefusedBy(occ, nkeys, d, i) THEN Refused ELSE {}

MarkNotKeyInv ==
  /\ keys # <<>> /\ checker = {0} /\ tas = <<>>
  /\ i < Len(nkeys) /\ ai <= Len(occ[nkeys[i + 1]])
  /\ \A d \in Docs :
       did_check[d] = IF RefusedBy(occ, nkeys, d, i) \/ Seen(occ[nkeys[i + 1]], d, ai)
                      THEN Refused ELSE {}

KeysInv ==
  /\ i < Len(keys) /\ tas = <<>>
  /\ \A d \in Docs : NotBit(d)
  /\ FewKeys => checker = {i} /\ \A d \in Docs : KeyBits(d)

MarkKeyInv ==
  /\ i + 1 < Len(keys) /\ tas = <<>>
  /\ ai <= Len(occ[keys[i + 1]])
  /\ 0 \notin checker
  /\ \A d \in Docs : NotBit(d)
  /\ FewKeys => /\ checker = {i + 1}
                /\ \A d \in Docs : KeyBitsMarking(d)
                /\ num_of_tas = 0 => \A d \in Docs : ~ Seen(occ[keys[i + 1]], d, ai)

LastKeyInv ==
  /\ keys # <<>> /\ i = Len(keys) - 1 /\ ai <= Len(occ[LastKey])
  /\ \A d \in Docs : Taken(d) => did_check[d] = Refused
  /\ \A d \in Docs : ~ Taken(d) => NotBit(d)
  /\ FewKeys =>
       /\ checker = {i}
       /\ \A d \in Docs : Taken(d) => AskedFor(d)
       /\ \A d \in Docs : ~ Taken(d) => KeyBits(d)
       /\ \A d \in Docs : Seen(occ[LastKey], d, ai) /\ AskedFor(d) => Taken(d)

(* The inductive invariant: types, the meaning of the bits at each place,  *)
(* and the properties of the answer.                                       *)
IInv ==
  /\ TypeOK
  /\ pc \in {"read", "parse"} => Fresh
  /\ pc = "nkeys" => NotKeysInv
  /\ pc = "mark nkey" => MarkNotKeyInv
  /\ pc = "keys" => KeysInv
  /\ pc = "mark key" => MarkKeyInv
  /\ pc = "mark last" => LastKeyInv
  /\ FoundOnce /\ NotKeysRefuse /\ AnswerIsQuery
=============================================================================
