--------------------------------- MODULE Af ---------------------------------
(***************************************************************************)
(* af (src/af.c), the article finder: a query "^x&y&z" asks for the        *)
(* documents that hold y and z and not x.  Each document has a byte of     *)
(* check bits: bit 0 for a NOT key, and one bit more for each key but the  *)
(* last, whose hits then pick the documents with just the right bits.  A   *)
(* byte is the set of its bits that are on.  sa_find and sa_didsearch are  *)
(* taken by what they promise (FindSpec, DidSearch): a key has a sequence  *)
(* of hits in the order of the array, a hit the number of its document.    *)
(***************************************************************************)
EXTENDS Integers, Sequences, FiniteSets

CONSTANTS Keys,        \* the keys a query may name
          EmptyKey,    \* the one of no characters
          Documents,   \* how many documents there are
          Occurrences, \* the hits each key may have, for each opened index
          Lines,       \* the queries, split at "&"
          CharBit      \* bits in an unsigned char

None == -1             \* a hit between the documents
Docs == 0 .. Documents - 1
Hit == Docs \union {None}
Bit == 0 .. CharBit - 1
Term == [not : BOOLEAN, key : Keys]

ASSUME CountsAssumption == Documents \in Nat \ {0} /\ CharBit \in Nat \ {0}
ASSUME KeysAssumption == EmptyKey \in Keys
ASSUME OccurrencesAssumption == Occurrences \subseteq [Keys -> Seq(Hit)]
ASSUME LinesAssumption == Lines \subseteq Seq(Term) \ {<<>>}

VARIABLES pc,         \* the function or loop it is in
          occ,        \* the hits of the keys in the opened index
          line,       \* what is left of the query to parse
          keys,       \* the keys of the query
          nkeys,      \* those behind a ^
          did_check,  \* the check bits
          i, ai,      \* loop counters
          checker,    \* the bit of the key at hand
          num_of_tas, \* documents found with it
          tas,        \* the documents found
          answer      \* what do_kensaku has printed last

(* The query, as far as it is parsed.                                      *)
parsed == <<line, keys, nkeys>>

vars ==
  <<pc, occ, parsed, did_check, i, ai, checker, num_of_tas, tas, answer>>

(* What parse_keys refuses at once: two & in a row, an & at the end, an    *)
(* empty line.  An & at the beginning makes an empty key.                  *)
EmptyTerm == [not |-> FALSE, key |-> EmptyKey]

Malformed(query) ==
  \/ \E n \in 2 .. Len(query) : query[n] = EmptyTerm
  \/ query = <<EmptyTerm>>

(* checker * 2 in an unsigned char.                                        *)
Twice(byte) == {b + 1 : b \in byte} \intersect Bit

(* Fault: checker * 2 - 1.                                                 *)
SikiiMinusOne == {b \in Bit : \A c \in checker : b <= c}

(* checker * 2 - 2: all bits from 1 to that of checker.  A checker whose   *)
(* bit has been lost gives -2, 254 in an unsigned char.                    *)
Sikii == {b \in Bit : b > 0 /\ \A c \in checker : b <= c}

(* The byte that marks a NOT key, and a document already found.            *)
Refused == {0}
-----------------------------------------------------------------------------
Init ==
  /\ pc = "read"
  /\ occ \in Occurrences
  /\ line = <<>> /\ keys = <<>> /\ nkeys = <<>>
  /\ did_check = [d \in Docs |-> {}]
  /\ i = 0 /\ ai = 0
  /\ checker = {0}
  /\ num_of_tas = 0
  /\ tas = <<>>
  /\ answer = "NONE"

Return(result) == answer' = result /\ pc' = "done"

FormatError(query) ==
  /\ pc = "read" /\ Malformed(query)
  /\ Return("KEYWORD FORMAT ERROR")
  /\ UNCHANGED <<occ, parsed, did_check, i, ai, checker, num_of_tas, tas>>

ReadQuery(query) ==
  /\ pc = "read" /\ ~ Malformed(query)
  /\ line' = query
  /\ pc' = "parse"
  /\ UNCHANGED <<occ, keys, nkeys, did_check, i, ai, checker, num_of_tas, tas, answer>>

(* parse_keys_sub for one term.                                            *)
ParseTerm ==
  /\ pc = "parse" /\ line # <<>>
  /\ IF Head(line).not
     THEN nkeys' = Append(nkeys, Head(line).key) /\ UNCHANGED keys
     ELSE keys' = Append(keys, Head(line).key) /\ UNCHANGED nkeys
  /\ line' = Tail(line)
  /\ UNCHANGED <<pc, occ, did_check, i, ai, checker, num_of_tas, tas, answer>>

NoKeys ==
  /\ pc = "parse" /\ line = <<>> /\ keys = <<>>
  /\ Return("KEYWORD FORMAT ERROR")
  /\ UNCHANGED <<occ, parsed, did_check, i, ai, checker, num_of_tas, tas>>

Parsed ==
  /\ pc = "parse" /\ line = <<>> /\ keys # <<>>
  /\ pc' = "nkeys"
  /\ UNCHANGED <<occ, parsed, did_check, i, ai, checker, num_of_tas, tas, answer>>

NotKeyFound ==
  /\ pc = "nkeys" /\ i < Len(nkeys)
  /\ occ[nkeys[i + 1]] # <<>>
  /\ ai' = 0 /\ num_of_tas' = 0
  /\ pc' = "mark nkey"
  /\ UNCHANGED <<occ, parsed, did_check, i, checker, tas, answer>>

NotKeyNotFound ==
  /\ pc = "nkeys" /\ i < Len(nkeys)
  /\ occ[nkeys[i + 1]] = <<>>
  /\ i' = i + 1
  /\ UNCHANGED <<pc, occ, parsed, did_check, ai, checker, num_of_tas, tas, answer>>

NotKeysEnd ==
  /\ pc = "nkeys" /\ i >= Len(nkeys)
  /\ i' = 0
  /\ pc' = "keys"
  /\ UNCHANGED <<occ, parsed, did_check, ai, checker, num_of_tas, tas, answer>>

(* A turn of check_keyword over the hits of a key.                         *)
CheckKeyword(hits, var) ==
  /\ ai < Len(hits)
  /\ IF hits[ai + 1] = None THEN UNCHANGED <<did_check, num_of_tas>>
     ELSE /\ did_check' = [did_check EXCEPT ![hits[ai + 1]] = @ \union var]
          /\ num_of_tas' = IF did_check[hits[ai + 1]] \intersect var = {}
                           THEN num_of_tas + 1 ELSE num_of_tas
  /\ ai' = ai + 1
  /\ UNCHANGED <<pc, occ, parsed, i, checker, tas, answer>>

MarkNotKey == pc = "mark nkey" /\ CheckKeyword(occ[nkeys[i + 1]], Refused)

NotKeyMarked ==
  /\ pc = "mark nkey" /\ ai >= Len(occ[nkeys[i + 1]])
  /\ i' = i + 1
  /\ pc' = "nkeys"
  /\ UNCHANGED <<occ, parsed, did_check, ai, checker, num_of_tas, tas, answer>>

KeyFound ==
  /\ pc = "keys" /\ i < Len(keys) - 1
  /\ checker' = Twice(checker)
  /\ occ[keys[i + 1]] # <<>>
  /\ ai' = 0 /\ num_of_tas' = 0
  /\ pc' = "mark key"
  /\ UNCHANGED <<occ, parsed, did_check, i, tas, answer>>

KeyNotFound ==
  /\ pc = "keys" /\ i < Len(keys) - 1
  /\ checker' = Twice(checker)
  /\ occ[keys[i + 1]] = <<>>
  /\ Return("NOT FOUND")
  /\ UNCHANGED <<occ, parsed, did_check, i, ai, num_of_tas, tas>>

MarkKey == pc = "mark key" /\ CheckKeyword(occ[keys[i + 1]], checker)

(* Fault: the same key again.                                              *)
KeyMarkedAgain ==
  /\ pc = "mark key" /\ ai >= Len(occ[keys[i + 1]])
  /\ num_of_tas # 0
  /\ pc' = "keys"
  /\ UNCHANGED <<occ, parsed, did_check, i, ai, checker, num_of_tas, tas, answer>>

KeyMarked ==
  /\ pc = "mark key" /\ ai >= Len(occ[keys[i + 1]])
  /\ num_of_tas # 0
  /\ i' = i + 1
  /\ pc' = "keys"
  /\ UNCHANGED <<occ, parsed, did_check, ai, checker, num_of_tas, tas, answer>>

(* Hits, but none in a document: nothing is printed.                       *)
NoTextArea ==
  /\ pc = "mark key" /\ ai >= Len(occ[keys[i + 1]])
  /\ num_of_tas = 0
  /\ Return("NOTHING")
  /\ UNCHANGED <<occ, parsed, did_check, i, ai, checker, num_of_tas, tas>>

LastKey == keys[Len(keys)]

LastKeyFound ==
  /\ pc = "keys" /\ i >= Len(keys) - 1
  /\ occ[LastKey] # <<>>
  /\ ai' = 0
  /\ tas' = <<>>
  /\ pc' = "mark last"
  /\ UNCHANGED <<occ, parsed, did_check, i, checker, num_of_tas, answer>>

LastKeyNotFound ==
  /\ pc = "keys" /\ i >= Len(keys) - 1
  /\ occ[LastKey] = <<>>
  /\ Return("NOT FOUND")
  /\ UNCHANGED <<occ, parsed, did_check, i, ai, checker, num_of_tas, tas>>

(* Fault: the document is not marked as found.                             *)
TakeDocumentUnmarked ==
  /\ pc = "mark last" /\ ai < Len(occ[LastKey])
  /\ occ[LastKey][ai + 1] # None
  /\ did_check[occ[LastKey][ai + 1]] = Sikii
  /\ tas' = Append(tas, occ[LastKey][ai + 1])
  /\ ai' = ai + 1
  /\ UNCHANGED <<pc, occ, parsed, did_check, i, checker, num_of_tas, answer>>

(* Turns of check_last_keyword: a document that is taken gets the NOT bit, *)
(* so that its next hit does not take it again.                            *)
TakeDocument ==
  /\ pc = "mark last" /\ ai < Len(occ[LastKey])
  /\ occ[LastKey][ai + 1] # None
  /\ did_check[occ[LastKey][ai + 1]] = Sikii
  /\ did_check' = [did_check EXCEPT ![occ[LastKey][ai + 1]] = Refused]
  /\ tas' = Append(tas, occ[LastKey][ai + 1])
  /\ ai' = ai + 1
  /\ UNCHANGED <<pc, occ, parsed, i, checker, num_of_tas, answer>>

PassHit ==
  /\ pc = "mark last" /\ ai < Len(occ[LastKey])
  /\ occ[LastKey][ai + 1] # None => did_check[occ[LastKey][ai + 1]] # Sikii
  /\ ai' = ai + 1
  /\ UNCHANGED <<pc, occ, parsed, did_check, i, checker, num_of_tas, tas, answer>>

Found ==
  /\ pc = "mark last" /\ ai >= Len(occ[LastKey])
  /\ Return("FOUND")
  /\ UNCHANGED <<occ, parsed, did_check, i, ai, checker, num_of_tas, tas>>

(* Fault: the check bits are not cleared.                                  *)
NextLineKeepsBits ==
  /\ pc = "done"
  /\ line' = <<>> /\ keys' = <<>> /\ nkeys' = <<>>
  /\ i' = 0 /\ ai' = 0
  /\ checker' = {0}
  /\ num_of_tas' = 0
  /\ tas' = <<>>
  /\ answer' = "NONE"
  /\ pc' = "read"
  /\ UNCHANGED <<occ, did_check>>

(* main clears the check bits for the next line of stdin.  do_kensaku      *)
(* starts it with new locals and no keys.                                  *)
NextLine ==
  /\ pc = "done"
  /\ did_check' = [d \in Docs |-> {}]
  /\ line' = <<>> /\ keys' = <<>> /\ nkeys' = <<>>
  /\ i' = 0 /\ ai' = 0
  /\ checker' = {0}
  /\ num_of_tas' = 0
  /\ tas' = <<>>
  /\ answer' = "NONE"
  /\ pc' = "read"
  /\ UNCHANGED occ

(* The end of stdin, or of the query in argv[1].                           *)
Exit ==
  /\ pc \in {"read", "done"}
  /\ pc' = "end"
  /\ UNCHANGED <<occ, parsed, did_check, i, ai, checker, num_of_tas, tas, answer>>

Ended == pc = "end" /\ UNCHANGED vars

Kensaku ==
  \/ ParseTerm \/ NoKeys \/ Parsed
  \/ NotKeyFound \/ NotKeyNotFound \/ MarkNotKey \/ NotKeyMarked \/ NotKeysEnd
  \/ KeyFound \/ KeyNotFound \/ MarkKey \/ KeyMarked \/ NoTextArea
  \/ LastKeyFound \/ LastKeyNotFound \/ TakeDocument \/ PassHit \/ Found

Next ==
  \/ \E query \in Lines : FormatError(query) \/ ReadQuery(query)
  \/ Kensaku \/ NextLine \/ Exit \/ Ended

(* A query once read is worked on until it is answered.                    *)
Spec == Init /\ [][Next]_vars /\ WF_vars(Kensaku)
-----------------------------------------------------------------------------
(* Type invariant.                                                         *)
TypeOK ==
  /\ pc \in {"read", "parse", "nkeys", "mark nkey", "keys", "mark key",
             "mark last", "done", "end"}
  /\ occ \in Occurrences
  /\ line \in Seq(Term) /\ keys \in Seq(Keys) /\ nkeys \in Seq(Keys)
  /\ did_check \in [Docs -> SUBSET Bit]
  /\ i \in Nat /\ ai \in Nat
  /\ checker \in SUBSET Bit
  /\ num_of_tas \in Nat
  /\ tas \in Seq(Docs)
  /\ answer \in {"NONE", "KEYWORD FORMAT ERROR", "NOT FOUND", "NOTHING",
                 "FOUND"}

(* Document d holds a key with these hits.                                 *)
Holds(hits, d) == \E n \in 1 .. Len(hits) : hits[n] = d

(* What the query asks for: every key and no NOT key.                      *)
AskedFor(d) ==
  /\ \A n \in 1 .. Len(keys) : Holds(occ[keys[n]], d)
  /\ \A n \in 1 .. Len(nkeys) : ~ Holds(occ[nkeys[n]], d)

(* A query of up to as many keys as a byte has bits finds the documents    *)
(* that hold all its keys and none of its NOT keys, whatever the queries   *)
(* before it have left, and gives up early only if there is none.          *)
AnswerIsQuery ==
  pc = "done" /\ Len(keys) <= CharBit =>
    /\ answer = "FOUND" =>
         \A d \in Docs : AskedFor(d) <=> \E n \in 1 .. Len(tas) : tas[n] = d
    /\ answer \in {"NOT FOUND", "NOTHING"} => \A d \in Docs : ~ AskedFor(d)

(* A document is found once, however many hits it holds and however many   *)
(* keys there are.                                                         *)
FoundOnce == \A m, n \in 1 .. Len(tas) : tas[m] = tas[n] => m = n

(* The NOT keys refuse a document whatever the number of keys.             *)
NotKeysRefuse ==
  \A m \in 1 .. Len(nkeys), n \in 1 .. Len(tas) :
    ~ Holds(occ[nkeys[m]], tas[n])

(* src/af.c:333: & is an AND search of the keys it joins, without a limit. *)
AndOfAllKeys ==
  pc = "done" /\ answer = "FOUND" =>
    \A m \in 1 .. Len(keys), n \in 1 .. Len(tas) : Holds(occ[keys[m]], tas[n])

(* Every query read is answered.                                           *)
QueryAnswered == pc = "parse" ~> pc = "done"
=============================================================================
