------------------------------- MODULE Regex --------------------------------
(***************************************************************************)
(* lib/regex.c: sa_regex and sa_ignore_case.  An expression is searched    *)
(* left to right: every call of sa_regex_sub holds a range of the index,   *)
(* what is left of the expression and the number of bytes of the suffixes  *)
(* already matched, narrows the range by sa_find for each byte string the  *)
(* head of the expression stands for, and calls itself for each range      *)
(* found.  The calls are made depth first, so todo, the calls still to be  *)
(* made, is a sequence whose head is made next and replaced by its own     *)
(* calls.  sa_find is taken by its promise, FindSpec.                      *)
(***************************************************************************)
EXTENDS Suffix, SequencesExt

CONSTANTS Indexes,   \* the opened indexes to search
          Requests   \* records with a mode, a key and what they ask for

(* sa_open fails on an array file without a word.                          *)
ASSUME IndexesAssumption == \A a \in Indexes : IndexOK(a) /\ a.array # <<>>
VARIABLES ary,       \* the SUFARY
          asked,     \* the request being served
          pc,        \* "called", "run", "done" or "exit"
          todo,      \* the calls of sa_regex_sub still to be made
          results    \* the SA_RESULT_LIST, in order

vars == <<ary, asked, pc, todo, results>>

NL == 10
LPAREN == 40
RPAREN == 41
DASH == 45
DOT == 46
QUESTION == 63
LBRACKET == 91
ESCAPE_CHAR == 92
RBRACKET == 93
NEGATED_CHAR_CLASS_CHAR == 94
BAR == 124

MSB_ON(c) == c >= 128
Signed(c) == IF MSB_ON(c) THEN c - 256 ELSE c

(* key[i] of a C string, its terminator included.                          *)
KeyByte(key, i) == IF i < Len(key) THEN key[i + 1] ELSE 0

Drop(key, n) == SubSeq(key, n + 1, Len(key))

Ascending(S) ==
  [n \in 1 .. Cardinality(S) |->
     CHOOSE x \in S : Cardinality({y \in S : y < x}) = n - 1]

-----------------------------------------------------------------------------
(* Character classes: bv holds the (first) bytes, and wide the second      *)
(* bytes of those first bytes that have a bit vector of their own, which   *)
(* is kept by the low seven bits of the first byte.                        *)

(* bit_multi_set, over the bytes of the bit vector.                        *)
BitMultiSet(start, stop) ==
  IF start \div 8 = stop \div 8 THEN start .. stop
  ELSE (start .. 8 * (start \div 8) + 7) \union (8 * (stop \div 8) .. stop)
       \union (8 * (start \div 8 + 1) .. 8 * (stop \div 8) - 1)

SetBits(class, uc, from, to) ==
  LET bits == {b + 128 : b \in BitMultiSet(from % 128, to % 128)} IN
  IF uc % 128 \in DOMAIN class.wide
  THEN [class EXCEPT !.wide[uc % 128] = @ \union bits]
  ELSE IF uc \in class.bv THEN class
  ELSE [class EXCEPT !.bv = @ \union {uc}, !.wide = @ @@ (uc % 128 :> bits)]

(* [c11 c12 - c21 c22], two characters of two bytes.                       *)
WideRange(class, c11, c12, c21, c22) ==
  IF c11 = c21 THEN SetBits(class, c11, c12, c22)
  ELSE LET ends == SetBits(SetBits(class, c11, c12, 255), c21, 0, c22)
           between == c11 + 1 .. c21 - 1
           kept == DOMAIN ends.wide \ {uc % 128 : uc \in between}
       IN [ends EXCEPT
             !.bv = @ \union {uc \in between : uc % 128 \notin DOMAIN ends.wide},
             !.wide = [uc7 \in kept |-> @[uc7]]]

(* Bytes 128 to 255 are negated eight at a time; in a group with any bit   *)
(* set, those that have second bytes keep their own bit.                   *)
Group(uc) == 8 * (uc \div 8) .. 8 * (uc \div 8) + 7

NegatesSecond(class, uc) ==
  uc % 128 \in DOMAIN class.wide /\ Group(uc) \intersect class.bv # {}

NegatedWide(class) ==
  [uc7 \in DOMAIN class.wide |->
     IF NegatesSecond(class, uc7 + 128) THEN (128 .. 255) \ class.wide[uc7]
     ELSE class.wide[uc7]]

NegatedFirsts(class) ==
  {uc \in 128 .. 255 : (uc \in class.bv) = NegatesSecond(class, uc)}

(* Fault: a negated class may match the end of a line.                     *)
NegateWithNewline(class) ==
  [bv |-> ((0 .. 127) \ (class.bv \union {0})) \union NegatedFirsts(class),
   wide |-> NegatedWide(class)]

NegateCharacterClass(class) ==
  [bv |-> ((0 .. 127) \ (class.bv \union {0, NL})) \union NegatedFirsts(class),
   wide |-> NegatedWide(class)]

EmptyClass == [bv |-> {}, wide |-> [uc \in {} |-> {}]]

IsNegated(key) == KeyByte(key, 1) = NEGATED_CHAR_CLASS_CHAR

(* A class ends at its bracket, or else with the key.                      *)
ClassEnds(key, i) ==
  \/ i >= Len(key)
  \/ KeyByte(key, i) = RBRACKET /\ i >= 2 /\ KeyByte(key, i - 1) # ESCAPE_CHAR

(* What stands at i: the bytes it takes, and the class with it.            *)
IsWideRange(key, i) == i + 4 < Len(key) /\ KeyByte(key, i + 2) = DASH

MemberLength(key, i) ==
  IF i = 1 /\ IsNegated(key) THEN 1
  ELSE IF KeyByte(key, i) = DASH /\ i + 1 < Len(key) THEN 2
  ELSE IF ~ MSB_ON(KeyByte(key, i)) THEN 1
  ELSE IF IsWideRange(key, i) THEN 5
  ELSE 2

AddMember(key, class, i) ==
  LET at(n) == KeyByte(key, n) IN
  IF i = 1 /\ IsNegated(key) THEN class
  ELSE IF at(i) = DASH /\ i + 1 < Len(key)
  THEN [class EXCEPT !.bv = @ \union (at(i - 1) .. Signed(at(i + 1)))]
  ELSE IF ~ MSB_ON(at(i)) THEN [class EXCEPT !.bv = @ \union {at(i)}]
  ELSE IF IsWideRange(key, i)
  THEN WideRange(class, at(i), at(i + 1), at(i + 3), at(i + 4))
  ELSE SetBits(class, at(i), at(i + 1), at(i + 1))

(* The loop that begins behind the opening bracket, after n turns.         *)
TurnOfScan(key, now) ==
  IF ClassEnds(key, now.i) THEN now
  ELSE [i |-> now.i + MemberLength(key, now.i),
        class |-> AddMember(key, now.class, now.i)]

ScanClass(key, n) ==
  LET turn[m \in 0 .. n] ==
        IF m = 0 THEN [i |-> 1, class |-> EmptyClass]
        ELSE TurnOfScan(key, turn[m - 1])
  IN turn[n]

CharacterClass(key) ==
  LET class == ScanClass(key, Len(key)).class
  IN IF IsNegated(key) THEN NegateCharacterClass(class) ELSE class

ClassEnd(key) == ScanClass(key, Len(key)).i

WildCard == [EmptyClass EXCEPT !.bv = (1 .. 255) \ {NL}]

-----------------------------------------------------------------------------
(* sa_find within the range of a call, behind the bytes already matched.   *)
FS == INSTANCE FindSpec WITH Keys <- {}, Skips <- {}, busy <- FALSE,
                             call <- {}, sr <- {}

Find(c, str) ==
  LET hits == FS!Hits(ary, [left |-> c.left, right |-> c.right, key |-> str,
                            base_txt_skip |-> c.txt_skip])
  IN IF hits = {} THEN <<>>
     ELSE <<[c EXCEPT !.left = CHOOSE i \in hits : \A j \in hits : i <= j,
                      !.right = CHOOSE i \in hits : \A j \in hits : j <= i,
                      !.txt_skip = @ + Len(str)]>>

(* The calls for each string of a sequence of strings found, in its order. *)
FindEach(c, strs) == FlattenSeq([n \in DOMAIN strs |-> Find(c, strs[n])])

Bytes(S) == [n \in DOMAIN Ascending(S) |-> <<Ascending(S)[n]>>]

SecondBytes(class, first) ==
  IF first % 128 \in DOMAIN class.wide THEN class.wide[first % 128] ELSE 161 .. 254

(* Fault: an item left out counts as matched text.                         *)
GoOnSkippingText(c, calls, n) ==
  [m \in DOMAIN calls |-> [calls[m] EXCEPT !.key = Drop(@, n)]]
  \o (IF KeyByte(c.key, n) = QUESTION
      THEN <<[c EXCEPT !.key = Drop(@, n + 1), !.txt_skip = @ + 1]>> ELSE <<>>)

(* Fault: one byte too few of the key is dropped.                          *)
GoOnShort(c, calls, n) ==
  [m \in DOMAIN calls |-> [calls[m] EXCEPT !.key = Drop(@, n - 1)]]
  \o (IF KeyByte(c.key, n) = QUESTION
      THEN <<[c EXCEPT !.key = Drop(@, n + 1)]>> ELSE <<>>)

(* Each call goes on with what is behind the first n bytes of the key, and *)
(* if a ? stands there the item may also be left out: the old range.       *)
GoOn(c, calls, n) ==
  [m \in DOMAIN calls |-> [calls[m] EXCEPT !.key = Drop(@, n)]]
  \o (IF KeyByte(c.key, n) = QUESTION
      THEN <<[c EXCEPT !.key = Drop(@, n + 1)]>> ELSE <<>>)

(* The bytes at the place to be matched that the index has at all.         *)
Candidates(c, S) ==
  S \intersect {SistringChar(ary, i, c.txt_skip) : i \in c.left .. c.right}

WcharSearch(c, class, first) ==
  FlattenSeq([n \in DOMAIN c |->
    FindEach(c[n], Bytes(Candidates(c[n], SecondBytes(class, first))))])

BitVectorSearch(c, class) ==
  LET firsts == Ascending(Candidates(c, class.bv)) IN
  FlattenSeq([n \in DOMAIN firsts |->
    IF MSB_ON(firsts[n])
    THEN WcharSearch(Find(c, <<firsts[n]>>), class, firsts[n])
    ELSE Find(c, <<firsts[n]>>)])

-----------------------------------------------------------------------------
Head1 == todo[1]

(* The head of the call's key, if the call is a running one.               *)
Next1(byte) == pc = "run" /\ todo # <<>> /\ Len(Head1.key) > 0
               /\ KeyByte(Head1.key, 0) = byte

Make(calls) ==
  /\ todo' = calls \o Tail(todo)
  /\ UNCHANGED <<ary, asked, pc, results>>

(* exit(EXIT_FAILURE) in the middle of the library.                        *)
ParseError ==
  /\ pc' = "exit"
  /\ UNCHANGED <<ary, asked, todo, results>>

StoreResult ==
  /\ pc = "run" /\ todo # <<>> /\ Head1.key = <<>>
  /\ results' = results \o
       [n \in 1 .. Head1.right - Head1.left + 1 |->
          [value |-> AryIdx2TxtIdx(ary, Head1.left + n - 1),
           len |-> Head1.txt_skip]]
  /\ todo' = Tail(todo)
  /\ UNCHANGED <<ary, asked, pc>>

MatchWildCard ==
  /\ Next1(DOT)
  /\ Make(GoOn(Head1, BitVectorSearch(Head1, WildCard), 1))

MatchClass ==
  /\ Next1(LBRACKET)
  /\ LET key == Head1.key
         end == ClassEnd(key)
     IN IF KeyByte(key, end) = RBRACKET
        THEN Make(GoOn(Head1, BitVectorSearch(Head1, CharacterClass(key)), end + 1))
        ELSE ParseError

(* The item before it has already made the call that leaves it out.        *)
SkipQuestion ==
  /\ Next1(QUESTION)
  /\ Make(<<[Head1 EXCEPT !.key = Tail(@)]>>)

(* Alternatives are searched as they stand, escapes not decoded.           *)
MatchAlternation ==
  /\ Next1(LPAREN)
  /\ LET key == Head1.key
         ends(S) == {i \in 2 .. Len(key) - 1 :
                       KeyByte(key, i) \in S /\ KeyByte(key, i - 1) # ESCAPE_CHAR}
         close == CHOOSE i \in ends({RPAREN}) : \A j \in ends({RPAREN}) : i <= j
         bars == <<0>> \o Ascending({i \in ends({BAR}) : i < close}) \o <<close>>
         alternatives == [n \in 1 .. Len(bars) - 1 |->
                            SubSeq(key, bars[n] + 2, bars[n + 1])]
     IN IF ends({RPAREN}) = {} THEN ParseError
        ELSE Make(GoOn(Head1, FindEach(Head1, alternatives), close + 1))

Hex(c) == IF c <= 57 THEN c - 48 ELSE IF c <= 70 THEN c - 55 ELSE c - 87

(* The byte an escape stands for, and the bytes of the key it takes.       *)
Escaped(key) ==
  CASE KeyByte(key, 1) = 110 -> [dcc |-> NL, key_skip |-> 2]
    [] KeyByte(key, 1) = 116 -> [dcc |-> 9, key_skip |-> 2]
    [] KeyByte(key, 1) = 120 ->
         [dcc |-> 16 * Hex(KeyByte(key, 2)) + Hex(KeyByte(key, 3)), key_skip |-> 4]
    [] OTHER -> [dcc |-> KeyByte(key, 1), key_skip |-> 2]

IsHex(c) == c \in (48 .. 57) \union (65 .. 70) \union (97 .. 102)

(* An odd number of backslashes ends at the i-th byte.                     *)
BeginsEscape(key, i) ==
  \E j \in 0 .. i - 1 :
    /\ j = 0 \/ key[j] # ESCAPE_CHAR
    /\ \A k \in j + 1 .. i : key[k] = ESCAPE_CHAR
    /\ (i - j) % 2 = 1

(* A key is a C string, and NUL is nothing sa_find may be asked for: an    *)
(* expression does not spell it, two hexadecimal digits stand behind \x,   *)
(* and no expression ends in half an escape.                               *)
NulFree(request) ==
  /\ 0 \notin Range(request.key)
  /\ request.mode # "ignore_case" =>
       \A i \in DOMAIN request.key : BeginsEscape(request.key, i) =>
         LET key == Drop(request.key, i - 1)
         IN /\ KeyByte(key, 1) = 120 => IsHex(KeyByte(key, 2)) /\ IsHex(KeyByte(key, 3))
            /\ Escaped(key).dcc # 0

ASSUME RequestsAssumption ==
  \A request \in Requests : request.key \in Seq(Byte) /\ NulFree(request)

MatchOneChar ==
  /\ pc = "run" /\ todo # <<>> /\ Len(Head1.key) > 0
  /\ KeyByte(Head1.key, 0) \notin {DOT, LBRACKET, QUESTION, LPAREN}
  /\ LET key == Head1.key
         escape == Escaped(key)
         len == IF MSB_ON(key[1]) /\ Len(key) > 1 /\ MSB_ON(KeyByte(key, 1))
                THEN 2 ELSE 1
     IN IF key[1] = ESCAPE_CHAR
        THEN Make(GoOn(Head1, Find(Head1, <<escape.dcc>>), escape.key_skip))
        ELSE Make(GoOn(Head1, Find(Head1, SubSeq(key, 1, len)), len))

Return ==
  /\ pc = "run" /\ todo = <<>>
  /\ pc' = "done"
  /\ UNCHANGED <<ary, asked, todo, results>>

-----------------------------------------------------------------------------
IsLower(c) == c \in 97 .. 122
IsUpper(c) == c \in 65 .. 90
ToLower(c) == IF IsUpper(c) THEN c + 32 ELSE c
ToUpper(c) == IF IsLower(c) THEN c - 32 ELSE c

(* [ ] \ ( ) . | * ?                                                       *)
Special == {LBRACKET, RBRACKET, ESCAPE_CHAR, LPAREN, RPAREN, DOT, BAR, 42,
            QUESTION}

(* Fault: the bytes regular expressions use are not escaped.               *)
ExpandWithoutEscapes(key) ==
  FlattenSeq([n \in DOMAIN key |->
    IF IsLower(key[n]) \/ IsUpper(key[n])
    THEN <<LBRACKET, ToLower(key[n]), ToUpper(key[n]), RBRACKET>>
    ELSE <<key[n]>>])

ExpandIgnoreCase(key) ==
  FlattenSeq([n \in DOMAIN key |->
    CASE IsLower(key[n]) \/ IsUpper(key[n]) ->
           <<LBRACKET, ToLower(key[n]), ToUpper(key[n]), RBRACKET>>
      [] key[n] \in Special -> <<ESCAPE_CHAR, key[n]>>
      [] OTHER -> <<key[n]>>])

Init ==
  /\ ary \in Indexes
  /\ asked \in Requests
  /\ pc = "called"
  /\ todo = <<>>
  /\ results = <<>>

KeySearched(request) ==
  IF request.mode = "ignore_case" THEN ExpandIgnoreCase(request.key)
  ELSE request.key

Call ==
  /\ pc = "called"
  /\ pc' = "run"
  /\ todo' = <<[left |-> 0, right |-> Len(ary.array) - 1, txt_skip |-> 0,
                key |-> KeySearched(asked)]>>
  /\ UNCHANGED <<ary, asked, results>>

Next ==
  \/ Call \/ StoreResult \/ MatchWildCard \/ MatchClass \/ SkipQuestion
  \/ MatchAlternation \/ MatchOneChar \/ Return

Spec == Init /\ [][Next]_vars

-----------------------------------------------------------------------------
(* Every range a call goes on with, and sa_find is then asked within, is   *)
(* one sa_find's promise covers: its suffixes agree on the bytes that are  *)
(* no longer compared.  An optional item goes back to an older range with  *)
(* an older number of bytes, and the two must belong together.             *)
PendingCallsAreSound ==
  \A n \in DOMAIN todo :
    FS!CallOK(ary, todo[n].left, todo[n].right, todo[n].txt_skip)

(* The number of ways in which the expression's items, each a set of byte  *)
(* strings or, if optional, nothing, make up text[p .. p + len - 1].       *)
Ways(items, text, p, len) ==
  LET ways[n \in 0 .. Len(items), left \in 0 .. len] ==
        LET from == p + len - left
            fits == {s \in items[n + 1].lang :
                       /\ Len(s) <= left /\ p + len <= Len(text)
                       /\ SubSeq(text, from + 1, from + Len(s)) = s}
        IN IF n = Len(items) THEN IF left = 0 THEN 1 ELSE 0
           ELSE (IF items[n + 1].opt THEN ways[n + 1, left] ELSE 0)
                + MapThenSumSet(LAMBDA s : ways[n + 1, left - Len(s)], fits)
  IN ways[0, len]

ResultCount(p, len) ==
  Cardinality({n \in DOMAIN results : results[n] = [value |-> p, len |-> len]})

(* The list sa_regex returns holds each index point with each length that  *)
(* the expression matches there, once for each way to match it, and        *)
(* nothing else; it exits only over an expression that is not closed.      *)
ResultsAreMatches ==
  /\ pc = "done" /\ asked.mode = "regex" =>
       \A i \in 0 .. Len(ary.array) - 1, len \in 0 .. Len(ary.text) :
         ResultCount(AryIdx2TxtIdx(ary, i), len)
           = Ways(asked.items, ary.text, AryIdx2TxtIdx(ary, i), len)
  /\ pc = "exit" => asked.mode = "unclosed"

(* Whatever stands in the keyword, sa_ignore_case finds each index point   *)
(* where the text is the keyword but for the case of ASCII letters, once.  *)
IgnoreCaseExact ==
  pc = "done" /\ asked.mode = "ignore_case" =>
    \A i \in 0 .. Len(ary.array) - 1, len \in 0 .. Len(ary.text) :
      LET p == AryIdx2TxtIdx(ary, i)
          same == /\ len = Len(asked.key) /\ p + len <= Len(ary.text)
                  /\ \A k \in 1 .. len :
                       ToLower(ary.text[p + k]) = ToLower(asked.key[k])
      IN ResultCount(p, len) = IF same THEN 1 ELSE 0

(* However an expression branches, the search comes to an end: each call   *)
(* makes only calls with less of the expression left.                      *)
CallsShortenTheKey ==
  [][\A n \in 1 .. Len(todo') - Len(todo) + 1 :
       todo # <<>> => Len(todo'[n].key) < Len(todo[1].key)]_todo
=============================================================================
