------------------------------ MODULE MCSearch ------------------------------
(* Small instances of Search: every text over a small alphabet with every  *)
(* set of index points into it, sorted; and longer texts of two bytes,     *)
(* where repeats are deep, with all their positions.                       *)
EXTENDS SearchInv, SequencesExt

CONSTANTS TextBytes, TextLengths, LongTextLengths

Texts == UNION {[1 .. n -> TextBytes] : n \in TextLengths}

LongTexts == UNION {[1 .. n -> {1, 2}] : n \in LongTextLengths}

SortedIndex(text, points) ==
  LET a == [text |-> text, array |-> <<>>]
  IN [a EXCEPT !.array =
        SetToSortSeq(points, LAMBDA p, q : SuffixLess(a, p, q))]

MCIndexes ==
  UNION {{SortedIndex(text, points) :
            points \in SUBSET (0 .. Len(text) - 1) \ {{}}} : text \in Texts}
  \union {SortedIndex(text, 0 .. Len(text) - 1) : text \in LongTexts}

MCKeys == {<<>>, <<1, 1>>, <<1, 2>>, <<2, 1>>, <<1, 2, 1>>}
=============================================================================
