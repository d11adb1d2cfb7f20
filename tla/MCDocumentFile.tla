--------------------------- MODULE MCDocumentFile ---------------------------
(* Every tagging of a text of TextSize bytes with at most MaxTags hits of   *)
(* each tag.  Hits come in the reverse order of the text, as those of a tag *)
(* do whose suffixes go down.  The files open at first are all those with   *)
(* at most MaxTags documents over a text two bytes longer, empty documents  *)
(* too, whole or cut off after any word.                                    *)
EXTENDS DocumentFile

CONSTANTS TextSize, MaxTags, EndTagLength

Hits(positions) ==
  {SetToSortSeq(P, >) : P \in {Q \in SUBSET positions : Cardinality(Q) <= MaxTags}}

MCTaggings ==
  LET At == 0 .. TextSize - 1
      EndAt == 0 .. TextSize - EndTagLength
  IN {[size |-> TextSize, starts |-> s, ends |-> <<>>, tag2 |-> FALSE,
       len_tag2 |-> 0] : s \in Hits(At)}
     \union
     {[size |-> TextSize, starts |-> s, ends |-> e, tag2 |-> TRUE,
       len_tag2 |-> EndTagLength] : s \in Hits(At), e \in Hits(EndAt)}

MCTargets == 0 .. TextSize + 2

LastWord(words) == IF words = <<>> THEN 0 ELSE words[Len(words)]

WholeFiles[n \in 0 .. MaxTags] ==
  IF n = 0 THEN {<<>>}
  ELSE UNION {{words \o region :
                 region \in {<<s, e>> \in MCTargets \X MCTargets :
                              LastWord(words) <= s /\ s <= e}} :
              words \in WholeFiles[n - 1]}

MCDidFiles ==
  UNION {{SubSeq(words, 1, m) : m \in 0 .. Len(words)} :
         words \in UNION {WholeFiles[n] : n \in 0 .. MaxTags}}

MCGarbage == {-1}
MCCurGarbage == {-1, MaxTags}
=============================================================================
