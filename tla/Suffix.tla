------------------------------- MODULE Suffix -------------------------------
(***************************************************************************)
(* The data every part of SUFARY works on: a text (a file of bytes) and an *)
(* array of index points, offsets into the text sorted by the suffix that  *)
(* starts there.  An opened pair is a record [text, array], the struct     *)
(* SUFARY without its mmap handles; the C arrays are 0-indexed and the     *)
(* sequences 1-indexed, so all access goes through the operators below.    *)
(***************************************************************************)
EXTENDS Integers, Sequences

Byte == 0 .. 255

(* The byte a pointer into the mapped text yields.  Past the last byte the *)
(* mapping's page is filled with zeros.                                    *)
Char(a, p) == IF p < Len(a.text) THEN a.text[p + 1] ELSE 0

(* array[i], already converted from the big-endian order of the file.      *)
AryIdx2TxtIdx(a, i) == a.array[i + 1]

(* The k-th byte of the text that starts at the i-th index point.          *)
SistringChar(a, i, k) == Char(a, AryIdx2TxtIdx(a, i) + k)

(* sa_strcmp(p1, p2) < 0: unsigned bytes decide at the first difference,   *)
(* and of two suffixes that agree up to the end of the text the shorter    *)
(* one is the smaller.                                                     *)
SuffixLess(a, p1, p2) ==
  \E k \in 0 .. Len(a.text) :
    /\ p1 + k <= Len(a.text) /\ p2 + k < Len(a.text)
    /\ \A m \in 0 .. k - 1 : Char(a, p1 + m) = Char(a, p2 + m)
    /\ p1 + k = Len(a.text) \/ Char(a, p1 + k) < Char(a, p2 + k)

(* What sa_is_sorted tests of neighbours, said of every pair.              *)
Sorted(a) ==
  \A i, j \in 0 .. Len(a.array) - 1 :
    i < j => SuffixLess(a, AryIdx2TxtIdx(a, i), AryIdx2TxtIdx(a, j))

(* A pair of files mkary has left in working order.                        *)
IndexOK(a) ==
  /\ a.text \in Seq(Byte)
  /\ a.array \in Seq(Nat)
  /\ \A i \in 0 .. Len(a.array) - 1 : AryIdx2TxtIdx(a, i) < Len(a.text)
  /\ Sorted(a)
=============================================================================
