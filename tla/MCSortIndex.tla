---------------------------- MODULE MCSortIndex ----------------------------
(* Every choice of index points in the texts of up to MaxLength bytes, NUL  *)
(* among them, and every position of the longer texts of two bytes.         *)
EXTENDS SortInv

CONSTANTS MaxLength, LongLength

Ascending(S) == SetToSortSeq(S, <)

MCTexts == UNION {[1 .. n -> 0 .. 2] : n \in 1 .. MaxLength}

SparseJobs ==
  UNION {{[text |-> t, array |-> Ascending(S)] :
            S \in SUBSET (0 .. Len(t) - 1) \ {{}}} : t \in MCTexts}

FullJobs ==
  {[text |-> t, array |-> Ascending(0 .. LongLength - 1)] :
     t \in [1 .. LongLength -> {1, 2}]}

MCBlockSizes == {-1, 0, 1, 3}

MCJobs == SparseJobs \union FullJobs
=============================================================================
