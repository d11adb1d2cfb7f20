------------------------------ MODULE Multikey ------------------------------
(***************************************************************************)
(* multikey_qsort (lib/make-index.c): Bentley and Sedgewick's quicksort of *)
(* index points, which splits a range in three by one byte of its suffixes *)
(* and looks at the next byte of those that had the pivot's.  A recursion  *)
(* is a range on the stack; the splitting of the range taken from it goes  *)
(* a swap at a time.                                                       *)
(***************************************************************************)
EXTENDS Suffix, SequencesExt

CONSTANT CutOff       \* the longest range left to qsort, 1000 in the code

ASSUME CutOffAssumption == CutOff \in Nat \ {0}

VARIABLES ary,        \* the text, and the array as it stands in memory
          ranges,     \* the calls outstanding: words [at, at + n) from depth on
          scan        \* the range being split, with its a, b, c, d and v

NoScan == [at |-> 0, n |-> 0, depth |-> 0, v |-> 0,
           a |-> 0, b |-> 0, c |-> 0, d |-> 0]

Scanning == scan.n > 0

(* swap: the words i and j of the array x.                                 *)
Swap(x, i, j) == [x EXCEPT ![i + 1] = x[j + 1], ![j + 1] = x[i + 1]]

(* swap_vector, of n words from i and n from j.                            *)
SwapVector(x, i, j, n) ==
  [m \in 1 .. Len(x) |->
     CASE m - 1 \in i .. i + n - 1 -> x[m - i + j]
       [] m - 1 \in j .. j + n - 1 -> x[m - j + i]
       [] OTHER -> x[m]]

(* get_char_inside_text - v, for the word i of the range being split.      *)
R(i) == SistringChar(ary, scan.at + i, scan.depth) - scan.v

(* The places from + 1 .. to of the array whose words go before the word m. *)
Smaller(from, to, m) ==
  {l \in from + 1 .. to : SuffixLess(ary, ary.array[l], ary.array[m])}

(* The words [from, to), each in the place its number of smaller ones gives. *)
SortRange(from, to) ==
  [n \in 1 .. Len(ary.array) |->
     IF n \in from + 1 .. to
     THEN ary.array[CHOOSE m \in from + 1 .. to :
                      from + 1 + Cardinality(Smaller(from, to, m)) = n]
     ELSE ary.array[n]]

(* qsort by suffix_compare, from the first byte of the suffixes.           *)
QsortRange ==
  /\ ~ Scanning /\ ranges # <<>> /\ ranges[1].n <= CutOff
  /\ ary' = [ary EXCEPT !.array = SortRange(ranges[1].at, ranges[1].at + ranges[1].n)]
  /\ ranges' = Tail(ranges)
  /\ UNCHANGED scan

(* rand() % n picks the pivot, which goes to the front.                    *)
PickPivot ==
  /\ ~ Scanning /\ ranges # <<>> /\ ranges[1].n > CutOff
  /\ LET r == ranges[1] IN
     \E p \in 0 .. r.n - 1 :
       /\ ary' = [ary EXCEPT !.array = Swap(ary.array, r.at, r.at + p)]
       /\ scan' = [at |-> r.at, n |-> r.n, depth |-> r.depth,
                   v |-> SistringChar(ary', r.at, r.depth),
                   a |-> 1, b |-> 1, c |-> r.n - 1, d |-> r.n - 1]
  /\ ranges' = Tail(ranges)

(* Fault: a word with the pivot's byte stays among those with a smaller.   *)
PassSmallerOrEqual ==
  /\ Scanning /\ scan.b <= scan.c /\ R(scan.b) <= 0
  /\ scan' = [scan EXCEPT !.b = @ + 1]
  /\ UNCHANGED <<ary, ranges>>

(* A turn of the first inner loop.                                         *)
PassSmaller ==
  /\ Scanning /\ scan.b <= scan.c /\ R(scan.b) <= 0
  /\ IF R(scan.b) = 0
     THEN /\ ary' = [ary EXCEPT !.array =
                       Swap(ary.array, scan.at + scan.a, scan.at + scan.b)]
          /\ scan' = [scan EXCEPT !.a = @ + 1, !.b = @ + 1]
     ELSE UNCHANGED ary /\ scan' = [scan EXCEPT !.b = @ + 1]
  /\ UNCHANGED ranges

(* A turn of the second, which the first has left at a greater byte.       *)
PassGreater ==
  /\ Scanning /\ scan.b <= scan.c /\ R(scan.b) > 0 /\ R(scan.c) >= 0
  /\ IF R(scan.c) = 0
     THEN /\ ary' = [ary EXCEPT !.array =
                       Swap(ary.array, scan.at + scan.c, scan.at + scan.d)]
          /\ scan' = [scan EXCEPT !.c = @ - 1, !.d = @ - 1]
     ELSE UNCHANGED ary /\ scan' = [scan EXCEPT !.c = @ - 1]
  /\ UNCHANGED ranges

Exchange ==
  /\ Scanning /\ scan.b <= scan.c /\ R(scan.b) > 0 /\ R(scan.c) < 0
  /\ ary' = [ary EXCEPT !.array =
               Swap(ary.array, scan.at + scan.b, scan.at + scan.c)]
  /\ scan' = [scan EXCEPT !.b = @ + 1, !.c = @ - 1]
  /\ UNCHANGED ranges

(* The equal words of both ends go to the middle, and each part is sorted, *)
(* but for the equal ones if the first of them has come to a NUL.          *)
Split ==
  /\ Scanning /\ scan.b > scan.c
  /\ LET s == scan
         less == s.b - s.a
         greater == s.d - s.c
         left == Min({s.a, less})
         right == Min({greater, s.n - s.d - 1})
         front == SwapVector(ary.array, s.at, s.at + s.b - left, left)
         first == [at |-> s.at, n |-> less, depth |-> s.depth]
         equal == [at |-> s.at + less, n |-> s.a + s.n - s.d - 1, depth |-> s.depth + 1]
         last == [at |-> s.at + s.n - greater, n |-> greater, depth |-> s.depth]
     IN /\ ary' = [ary EXCEPT !.array =
                     SwapVector(front, s.at + s.b, s.at + s.n - right, right)]
        /\ ranges' = (IF SistringChar(ary', equal.at, s.depth) # 0
                      THEN <<first, equal, last>> ELSE <<first, last>>) \o ranges
  /\ scan' = NoScan

SortStep ==
  QsortRange \/ PickPivot \/ PassSmaller \/ PassGreater \/ Exchange \/ Split

(* multikey_qsort(m_array_ptr + at, m_text_ptr, n, 0) called, and returned *)
Call(at, n) == ranges' = <<[at |-> at, n |-> n, depth |-> 0]>>

Returned == ranges = <<>> /\ ~ Scanning
-----------------------------------------------------------------------------
NulFree == \A p \in 1 .. Len(ary.text) : ary.text[p] # 0

Holds(r, i) == i \in r.at .. r.at + r.n - 1

(* While the words [from, to) are sorted, without NUL in the text: two of  *)
(* them that no outstanding call holds both stand in order already; those  *)
(* of one call agree up to its depth; and of the range being split, the    *)
(* words before a and behind d have the pivot's byte, those from a to b a  *)
(* smaller and those from c to d a greater one.                            *)
RangesApart(from, to) ==
  LET calls == ToSet(ranges) \union (IF Scanning THEN {scan} ELSE {}) IN
  NulFree =>
    /\ \A i, j \in from .. to - 1 :
         i < j /\ (\A r \in calls : ~ (Holds(r, i) /\ Holds(r, j)))
           => SuffixLess(ary, AryIdx2TxtIdx(ary, i), AryIdx2TxtIdx(ary, j))
    /\ \A r \in calls, i, j \in from .. to - 1 :
         Holds(r, i) /\ Holds(r, j) =>
           \A m \in 0 .. r.depth - 1 :
             SistringChar(ary, i, m) = SistringChar(ary, j, m)
    /\ Scanning =>
         /\ 1 <= scan.a /\ scan.a <= scan.b /\ scan.b <= scan.c + 1
         /\ scan.c <= scan.d /\ scan.d < scan.n
         /\ \A i \in 0 .. scan.n - 1 :
              /\ i < scan.a \/ scan.d < i => R(i) = 0
              /\ scan.a <= i /\ i < scan.b => R(i) < 0
              /\ scan.c < i /\ i <= scan.d => R(i) > 0
=============================================================================
