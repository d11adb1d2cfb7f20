------------------------------ MODULE FindSpec ------------------------------
(***************************************************************************)
(* What sa_find promises its callers, with no word about how it searches:  *)
(* asked for a key within array[left..right], where the first              *)
(* base_txt_skip bytes of every suffix are already known to match, it      *)
(* answers FAIL when the key occurs at none of those index points, and     *)
(* otherwise the range of exactly the index points where it occurs.        *)
(***************************************************************************)
EXTENDS Suffix

CONSTANTS Indexes, Keys, Skips

VARIABLES ary,   \* the opened index, chosen once
          busy,  \* TRUE between the call and its return
          call,  \* the arguments of the last call
          sr     \* the SUF_RESULT of the last call, once it has returned

vars == <<ary, busy, call, sr>>

NoResult == [stat |-> "NONE"]
NotFound == [stat |-> "FAIL"]

(* What a caller may ask: a range inside the array whose suffixes share    *)
(* their first skip bytes, all of them inside the text.                    *)
CallOK(a, l, r, skip) ==
  /\ 0 <= l /\ l <= r /\ r < Len(a.array)
  /\ \A i \in l .. r : AryIdx2TxtIdx(a, i) + skip <= Len(a.text)
  /\ \A i, j \in l .. r : \A k \in 0 .. skip - 1 :
       SistringChar(a, i, k) = SistringChar(a, j, k)

(* The key stands in the text, skip bytes behind the i-th index point.     *)
Occurs(a, c, i) ==
  LET p == AryIdx2TxtIdx(a, i) + c.base_txt_skip IN
  /\ p + Len(c.key) <= Len(a.text)
  /\ \A k \in 1 .. Len(c.key) : a.text[p + k] = c.key[k]

Hits(a, c) == {i \in c.left .. c.right : Occurs(a, c, i)}

CorrectAnswer(a, c, s) ==
  \/ s = NotFound /\ Hits(a, c) = {}
  \/ /\ Hits(a, c) # {}
     /\ \E l, r \in c.left .. c.right :
          /\ s = [stat |-> "SUCCESS", left |-> l, right |-> r]
          /\ l .. r = Hits(a, c)

-----------------------------------------------------------------------------
Init ==
  /\ ary \in Indexes
  /\ busy = FALSE
  /\ call = [key |-> <<>>, left |-> 0, right |-> 0, base_txt_skip |-> 0]
  /\ sr = NoResult

Ask(key, l, r, skip) ==
  /\ ~busy
  /\ CallOK(ary, l, r, skip)
  /\ busy' = TRUE
  /\ call' = [key |-> key, left |-> l, right |-> r, base_txt_skip |-> skip]
  /\ sr' = NoResult
  /\ UNCHANGED ary

Answer ==
  /\ busy
  /\ busy' = FALSE
  /\ CorrectAnswer(ary, call, sr')
  /\ UNCHANGED <<ary, call>>

Positions == 0 .. Len(ary.array) - 1

Next ==
  \/ \E key \in Keys, l, r \in Positions, skip \in Skips : Ask(key, l, r, skip)
  \/ Answer

Spec == Init /\ [][Next]_vars /\ WF_vars(Answer)
=============================================================================
