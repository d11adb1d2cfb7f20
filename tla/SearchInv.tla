----------------------------- MODULE SearchInv -----------------------------
(***************************************************************************)
(* The inductive invariant of Search.  It speaks of the key itself, not of *)
(* keyary, so that the sentinels written behind the key disturb none of    *)
(* it; what the three searches have in common is stated once, by the side  *)
(* of the window an entry may have been left on.                           *)
(***************************************************************************)
EXTENDS Search

(* How the i-th suffix compares with the key of call c, skip bytes on.     *)
EntryChar(a, c, i, k) == SistringChar(a, i, c.base_txt_skip + k)

KeyChar(c, k) == c.key[k + 1]
Length(c) == Len(c.key)

StartsWith(a, c, i, n) ==
  \A k \in 0 .. n - 1 : EntryChar(a, c, i, k) = KeyChar(c, k)

KeyBelow(a, c, i) ==
  \E k \in 0 .. Length(c) - 1 :
    StartsWith(a, c, i, k) /\ EntryChar(a, c, i, k) < KeyChar(c, k)

KeyAbove(a, c, i) ==
  \E k \in 0 .. Length(c) - 1 :
    StartsWith(a, c, i, k) /\ EntryChar(a, c, i, k) > KeyChar(c, k)

NotAbove(a, c, i) == KeyBelow(a, c, i) \/ StartsWith(a, c, i, Length(c))
NotBelow(a, c, i) == KeyAbove(a, c, i) \/ StartsWith(a, c, i, Length(c))

(* What the search of step st has left on the left and right of a window.  *)
LeftSide(a, c, st, i) ==
  IF st = 2 THEN NotAbove(a, c, i) ELSE KeyBelow(a, c, i)

RightSide(a, c, st, i) ==
  IF st = 3 THEN NotBelow(a, c, i) ELSE KeyAbove(a, c, i)

WindowOK(a, c, st, s) ==
  /\ c.left <= s.left /\ s.left <= s.right /\ s.right <= c.right + 1
  /\ \A i \in c.left .. s.left - 1 : LeftSide(a, c, st, i)
  /\ \A i \in s.right .. c.right : RightSide(a, c, st, i)

(* A prefix length is backed by an entry at or beyond its end of the       *)
(* window that shares so many bytes with the key.                          *)
PrefixesOK(a, c, s) ==
  LET lp == s.left_prefix_len - c.base_txt_skip
      rp == s.right_prefix_len - c.base_txt_skip IN
  /\ lp \in 0 .. Length(c) /\ rp \in 0 .. Length(c)
  /\ lp = 0 \/ \E i \in c.left .. c.right : i <= s.left /\ StartsWith(a, c, i, lp)
  /\ rp = 0 \/ \E i \in c.left .. c.right : s.right <= i + 1 /\ StartsWith(a, c, i, rp)

(* What step 1 hands to steps 2 and 3.                                     *)
MatchedOK(a, c, s) ==
  /\ WindowOK(a, c, 1, s)
  /\ PrefixesOK(a, c, s)
  /\ s.left <= s.center /\ s.center < s.right
  /\ StartsWith(a, c, s.center, Length(c))

CallHolds ==
  /\ Abstract!CallOK(ary, call.left, call.right, call.base_txt_skip)
  /\ \A k \in 0 .. Length(call) - 1 : keyary[k] = KeyChar(call, k)
  /\ step = 2 => keyary[Length(call)] = 256
  /\ step = 3 => keyary[Length(call)] = -1

RunningInv ==
  /\ CallHolds
  /\ WindowOK(ary, call, step, sbr)
  /\ PrefixesOK(ary, call, sbr)
  /\ pc = "loop" => sbr.state = "FAIL"
  /\ pc = "return" /\ sbr.state = "SUCCESS" => step = 1 /\ MatchedOK(ary, call, sbr)
  /\ pc = "return" /\ sbr.state = "FAIL" =>
       sbr.left = sbr.right /\ sbr.center = sbr.left
  /\ step # 1 => MatchedOK(ary, call, sbr_1)
  /\ step = 3 => /\ sbr_r.left = sbr_r.right /\ sbr_r.center = sbr_r.left
                 /\ WindowOK(ary, call, 2, sbr_r)

(* The inductive invariant: types; while sa_find runs, the window, the     *)
(* prefix lengths and the results of the finished steps are right; when it *)
(* has returned, so is its answer.                                         *)
IInv ==
  /\ TypeOK
  /\ pc # "idle" => RunningInv
  /\ ResultCorrect
=============================================================================
