------------------------------- MODULE Search -------------------------------
(***************************************************************************)
(* sa_find and sa_bsearch (lib/search.c): the search every client of the   *)
(* library stands on.  sa_find runs sa_bsearch three times: for an entry   *)
(* that matches the key, for the right end of the matches (the key with    *)
(* the sentinel 256 behind it) and for their left end (sentinel -1).  A    *)
(* probe skips the bytes both ends of the window are known to share with   *)
(* the key.  One action is one turn of the loop of sa_bsearch, its exit,   *)
(* or one piece of sa_find between two searches.  keyary is static in the  *)
(* C code: it keeps the bytes of earlier calls.                            *)
(***************************************************************************)
EXTENDS Suffix

CONSTANTS Indexes,           \* the indexes that may be open
          Keys,              \* the search keys
          Skips,             \* the values of base_txt_skip
          KeywordMaxLength,  \* KEYWORD_MAX_LENGTH
          SaIndexMax         \* the largest SA_INDEX (2^31 - 1)

ASSUME IndexesAssumption ==
  \A a \in Indexes : IndexOK(a) /\ Len(a.array) <= SaIndexMax

(* Keys come from C strings: no NUL byte, and sa_find has room for the     *)
(* sentinel behind them.                                                   *)
ASSUME KeysAssumption ==
  \A key \in Keys : key \in Seq(1 .. 255) /\ Len(key) < KeywordMaxLength

ASSUME NumbersAssumption ==
  /\ Skips \subseteq Nat
  /\ KeywordMaxLength \in Nat \ {0}
  /\ SaIndexMax \in Nat

VARIABLES ary,     \* the opened index
          pc,      \* "idle", in the loop of sa_bsearch, or behind it
          step,    \* the search of sa_find under way: 1, 2 or 3
          call,    \* the arguments of sa_find
          keyary,  \* the static key buffer
          sbr,     \* the SA_BSEARCH_RESULT sa_bsearch works on
          sbr_1,   \* the result of step 1 (sbr in sa_find)
          sbr_r,   \* the result of step 2
          sr       \* the SUF_RESULT of the last call, once it has returned

vars == <<ary, pc, step, call, keyary, sbr, sbr_1, sbr_r, sr>>

Abstract == INSTANCE FindSpec WITH busy <- pc # "idle"

-----------------------------------------------------------------------------
(* int arithmetic wraps where it leaves its width.                         *)
Wrap(x) == IF x > SaIndexMax THEN x - 2 * (SaIndexMax + 1) ELSE x

(* left / 2 + right / 2 + (1 & left & right).                              *)
Mid(l, r) ==
  Wrap(l \div 2 + r \div 2 + (IF l % 2 = 1 /\ r % 2 = 1 THEN 1 ELSE 0))

Cur == Mid(sbr.left, sbr.right)

(* Fault: the sentinel is left out of the comparison.                      *)
KeyLenNoSentinel == Len(call.key)

KeyLen == Len(call.key) + (IF step = 1 THEN 0 ELSE 1)

(* Fault: the longer of the two prefixes is skipped.                       *)
TxtSkipLonger ==
  IF sbr.left_prefix_len < sbr.right_prefix_len
  THEN sbr.right_prefix_len ELSE sbr.left_prefix_len

TxtSkip ==
  IF sbr.left_prefix_len < sbr.right_prefix_len
  THEN sbr.left_prefix_len ELSE sbr.right_prefix_len

(* Fault: base_txt_skip is not taken off.                                  *)
KeySkipNoBase == TxtSkip

KeySkip == TxtSkip - call.base_txt_skip

TextByte(d) == SistringChar(ary, Cur, TxtSkip + d)

(* Fault: the comparison runs past a difference.                           *)
SameUpToAnything(d) == TRUE

(* cmp_sistr has compared d bytes and found no difference.                 *)
SameUpTo(d) == \A k \in 0 .. d - 1 : TextByte(k) = keyary[KeySkip + k]

(* The local variables of sa_find when it is not running.                  *)
NoSbr == [left |-> 0, right |-> 0, left_prefix_len |-> 0,
          right_prefix_len |-> 0, center |-> 0, state |-> "FAIL"]

Init ==
  /\ ary \in Indexes
  /\ pc = "idle"
  /\ step = 1
  /\ call = [key |-> <<>>, left |-> 0, right |-> 0, base_txt_skip |-> 0]
  /\ keyary = [i \in 0 .. KeywordMaxLength - 1 |-> 0]
  /\ sbr = NoSbr /\ sbr_1 = NoSbr /\ sbr_r = NoSbr
  /\ sr = Abstract!NoResult

Find(key, l, r, skip) ==
  /\ pc = "idle"
  /\ Abstract!CallOK(ary, l, r, skip)
  /\ call' = [key |-> key, left |-> l, right |-> r, base_txt_skip |-> skip]
  /\ keyary' = [i \in DOMAIN keyary |->
                  IF i < Len(key) THEN key[i + 1] ELSE keyary[i]]
  /\ sbr' = [sbr EXCEPT !.left = l, !.right = r + 1,
                        !.left_prefix_len = skip,
                        !.right_prefix_len = skip, !.state = "FAIL"]
  /\ step' = 1
  /\ pc' = "loop"
  /\ sr' = Abstract!NoResult
  /\ UNCHANGED <<ary, sbr_1, sbr_r>>

InLoop == pc = "loop" /\ sbr.left < sbr.right

(* Fault: the probed entry stays in the window.                            *)
ProbeLessKeepsCur ==
  /\ InLoop
  /\ \E d \in 0 .. KeyLen - KeySkip - 1 :
       /\ SameUpTo(d)
       /\ TextByte(d) < keyary[KeySkip + d]
       /\ sbr' = [sbr EXCEPT !.left = Cur,
                             !.left_prefix_len = TxtSkip + d]
  /\ UNCHANGED <<ary, pc, step, call, keyary, sbr_1, sbr_r, sr>>

ProbeLess ==
  /\ InLoop
  /\ \E d \in 0 .. KeyLen - KeySkip - 1 :
       /\ SameUpTo(d)
       /\ TextByte(d) < keyary[KeySkip + d]
       /\ sbr' = [sbr EXCEPT !.left = Cur + 1,
                             !.left_prefix_len = TxtSkip + d]
  /\ UNCHANGED <<ary, pc, step, call, keyary, sbr_1, sbr_r, sr>>

ProbeGreater ==
  /\ InLoop
  /\ \E d \in 0 .. KeyLen - KeySkip - 1 :
       /\ SameUpTo(d)
       /\ TextByte(d) > keyary[KeySkip + d]
       /\ sbr' = [sbr EXCEPT !.right = Cur,
                             !.right_prefix_len = TxtSkip + d]
  /\ UNCHANGED <<ary, pc, step, call, keyary, sbr_1, sbr_r, sr>>

ProbeMatch ==
  /\ InLoop
  /\ KeySkip <= KeyLen
  /\ SameUpTo(KeyLen - KeySkip)
  /\ sbr' = [sbr EXCEPT !.state = "SUCCESS", !.center = Cur]
  /\ pc' = "return"
  /\ UNCHANGED <<ary, step, call, keyary, sbr_1, sbr_r, sr>>

LoopEnd ==
  /\ pc = "loop"
  /\ sbr.left >= sbr.right
  /\ sbr' = [sbr EXCEPT !.center = Cur]
  /\ pc' = "return"
  /\ UNCHANGED <<ary, step, call, keyary, sbr_1, sbr_r, sr>>

Step1Fails ==
  /\ pc = "return" /\ step = 1
  /\ sbr.state = "FAIL"
  /\ sr' = Abstract!NotFound
  /\ pc' = "idle"
  /\ sbr' = NoSbr /\ sbr_1' = NoSbr /\ sbr_r' = NoSbr
  /\ UNCHANGED <<ary, step, call, keyary>>

(* Fault: the right end is searched behind the match only.                 *)
Step2PastCenter ==
  /\ pc = "return" /\ step = 1
  /\ sbr.state = "SUCCESS"
  /\ keyary' = [keyary EXCEPT ![Len(call.key)] = 256]
  /\ sbr_1' = sbr
  /\ sbr' = [sbr EXCEPT !.left = sbr.center + 1,
               !.left_prefix_len = call.base_txt_skip,
               !.state = "FAIL"]
  /\ step' = 2
  /\ pc' = "loop"
  /\ UNCHANGED <<ary, call, sbr_r, sr>>

Step2 ==
  /\ pc = "return" /\ step = 1
  /\ sbr.state = "SUCCESS"
  /\ keyary' = [keyary EXCEPT ![Len(call.key)] = 256]
  /\ sbr_1' = sbr
  /\ sbr' = [sbr EXCEPT !.left = sbr.center,
               !.left_prefix_len = Len(call.key) + call.base_txt_skip,
               !.state = "FAIL"]
  /\ step' = 2
  /\ pc' = "loop"
  /\ UNCHANGED <<ary, call, sbr_r, sr>>

(* Fault: the left end is searched in the window step 2 has left.          *)
Step3FromStep2 ==
  /\ pc = "return" /\ step = 2
  /\ keyary' = [keyary EXCEPT ![Len(call.key)] = -1]
  /\ sbr_r' = sbr
  /\ sbr' = [sbr EXCEPT !.right = sbr_1.center + 1,
               !.right_prefix_len = Len(call.key) + call.base_txt_skip,
               !.state = "FAIL"]
  /\ step' = 3
  /\ pc' = "loop"
  /\ UNCHANGED <<ary, call, sbr_1, sr>>

Step3 ==
  /\ pc = "return" /\ step = 2
  /\ keyary' = [keyary EXCEPT ![Len(call.key)] = -1]
  /\ sbr_r' = sbr
  /\ sbr' = [sbr_1 EXCEPT !.right = sbr_1.center + 1,
               !.right_prefix_len = Len(call.key) + call.base_txt_skip,
               !.state = "FAIL"]
  /\ step' = 3
  /\ pc' = "loop"
  /\ UNCHANGED <<ary, call, sbr_1, sr>>

(* Fault: the right end of the answer is one too far.                      *)
ReturnPastEnd ==
  /\ pc = "return" /\ step = 3
  /\ sr' = [stat |-> "SUCCESS", left |-> sbr.center, right |-> sbr_r.center]
  /\ pc' = "idle"
  /\ sbr' = NoSbr /\ sbr_1' = NoSbr /\ sbr_r' = NoSbr
  /\ UNCHANGED <<ary, step, call, keyary>>

Return ==
  /\ pc = "return" /\ step = 3
  /\ sr' = [stat |-> "SUCCESS", left |-> sbr.center,
            right |-> sbr_r.center - 1]
  /\ pc' = "idle"
  /\ sbr' = NoSbr /\ sbr_1' = NoSbr /\ sbr_r' = NoSbr
  /\ UNCHANGED <<ary, step, call, keyary>>

Positions == 0 .. Len(ary.array) - 1

Internal ==
  \/ ProbeLess \/ ProbeGreater \/ ProbeMatch \/ LoopEnd
  \/ Step1Fails \/ Step2 \/ Step3 \/ Return

Next ==
  \/ \E key \in Keys, l, r \in Positions, skip \in Skips : Find(key, l, r, skip)
  \/ Internal

(* The loop is sequential code on the caller's thread: once entered it is  *)
(* run on.                                                                 *)
Spec == Init /\ [][Next]_vars /\ WF_vars(Internal)
-----------------------------------------------------------------------------
(* Type invariant: every variable keeps to the C types of search.c, and    *)
(* window ends, prefix lengths and midpoints never go negative.            *)
SbrType == [left : Nat, right : Nat, left_prefix_len : Nat,
            right_prefix_len : Nat, center : Nat,
            state : {"SUCCESS", "FAIL"}]

TypeOK ==
  /\ ary \in Indexes
  /\ pc \in {"idle", "loop", "return"}
  /\ step \in 1 .. 3
  /\ call \in [key : Seq(1 .. 255), left : Nat, right : Nat, base_txt_skip : Nat]
  /\ Len(call.key) < KeywordMaxLength
  /\ keyary \in [0 .. KeywordMaxLength - 1 -> -1 .. 256]
  /\ sbr \in SbrType /\ sbr_1 \in SbrType /\ sbr_r \in SbrType

(* The i-th suffix agrees with the key on the first n bytes behind the     *)
(* skipped ones, is below the key, is above it.                            *)
EntryByte(i, k) == SistringChar(ary, i, call.base_txt_skip + k)
Agrees(i, n) == \A k \in 0 .. n - 1 : EntryByte(i, k) = keyary[k]
Below(i) == \E k \in 0 .. KeyLen - 1 : Agrees(i, k) /\ EntryByte(i, k) < keyary[k]
Above(i) == \E k \in 0 .. KeyLen - 1 : Agrees(i, k) /\ EntryByte(i, k) > keyary[k]

(* The window of the binary search never loses an answer: in each of the   *)
(* three searches of sa_find, what lies left of it is below the key        *)
(* searched for and what lies right of it is above.  Steps 2 and 3 start   *)
(* from a window step 1 has narrowed for another key.                      *)
WindowKeepsAnswers ==
  pc # "idle" =>
    /\ \A i \in call.left .. sbr.left - 1 : Below(i)
    /\ \A i \in sbr.right .. call.right : Above(i)

(* Skipping txt_skip bytes without comparing them is sound: every entry    *)
(* still in the window agrees with the key on all the bytes the next probe *)
(* skips, though only entries at the window's ends were ever compared.     *)
SkippedBytesAgree ==
  pc = "loop" =>
    /\ 0 <= KeySkip /\ KeySkip <= KeyLen
    /\ \A i \in sbr.left .. sbr.right - 1 : Agrees(i, KeySkip)

(* cmp_sistr has no test for the end of the text.  It still stops at the   *)
(* byte behind the last one at the latest, the first the mapping does not  *)
(* take from the file.                                                     *)
ReadsStopAtEndOfText ==
  InLoop => \A d \in 0 .. KeyLen - KeySkip - 1 :
    SameUpTo(d) => AryIdx2TxtIdx(ary, Cur) + TxtSkip + d <= Len(ary.text)

(* sa_find's answer is right: FAIL only when the key occurs nowhere in the *)
(* range asked for, else exactly the range of index points where it does;  *)
(* whatever bytes an earlier call has left in keyary.                      *)
ResultCorrect ==
  pc = "idle" /\ sr # Abstract!NoResult => Abstract!CorrectAnswer(ary, call, sr)

(* Both assertions of sa_bsearch hold at each of its three entries: the    *)
(* window lies in the array and is not empty, though steps 2 and 3 make    *)
(* theirs from what step 1 has left.                                       *)
EntryAssertions ==
  [][pc # "loop" /\ pc' = "loop" =>
       /\ 0 <= sbr'.left /\ sbr'.right <= Len(ary.array)
       /\ sbr'.left < sbr'.right]_vars

(* Every call of sa_find returns.                                          *)
FindReturns == pc # "idle" ~> pc = "idle"

(* sa_find implements its abstract promise.                                *)
ImplementsFindSpec == Abstract!Spec
=============================================================================
