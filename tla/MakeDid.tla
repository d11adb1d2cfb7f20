------------------------------ MODULE MakeDid ------------------------------
(***************************************************************************)
(* sa_make_did (lib/make-did.c) as mkdid runs it: the hits of the start    *)
(* tag, and those of the end tag if there is one, become the document file *)
(* that sa_didsearch reads.  The file is created and written in place, one *)
(* word at a time; the process may die, and the disk may be full, after    *)
(* any word.  Runs follow one another, with other tags.                    *)
(***************************************************************************)
EXTENDS Integers, FiniteSetsExt, SequencesExt

CONSTANTS Taggings,  \* what the tags of a run hit
          Garbage    \* what memory fresh from malloc may hold

(* A tagging: the size of the text, the positions of the start tag and of  *)
(* the end tag in the order sa_find gives them (that of the suffixes, not  *)
(* of the text), whether an end tag is given, and how long it is.          *)
TaggingOK(t) ==
  /\ t \in [size : Nat, starts : Seq(Nat), ends : Seq(Nat), tag2 : BOOLEAN,
            len_tag2 : Nat]
  /\ IsInjective(t.starts) /\ IsInjective(t.ends)
  /\ \A k \in 1 .. Len(t.starts) : t.starts[k] < t.size
  /\ \A k \in 1 .. Len(t.ends) : t.ends[k] + t.len_tag2 <= t.size

ASSUME TaggingsAssumption == \A t \in Taggings : TaggingOK(t)

VARIABLES pc,    \* where sa_make_did stands, "idle" outside of it
          tags,  \* the tagging of this run
          num,   \* number of documents
          rslt,  \* the positions, indexed from 0
          i,     \* the loop counter
          stat,  \* what the last run returned; "CRASH" if it died
          file,  \* the document file on disk, as words
          full,  \* the disk has run full
          made,  \* ghost: the tagging file was made from, last
          kept   \* ghost: the last run has left the file as it found it

vars == <<pc, tags, num, rslt, i, stat, file, full, made, kept>>

Did == INSTANCE DidSearch WITH
  DidFiles <- {}, Targets <- {}, CurGarbage <- {}, did <- file, lookup <- 0,
  target <- 0, li <- 0, ri <- 0, cur <- 0, region_from <- 0, region_to <- 0,
  dr <- 0

NoTagging == [size |-> 0, starts |-> <<>>, ends |-> <<>>, tag2 |-> FALSE,
              len_tag2 |-> 0]

NoCells == [k \in {} |-> 0]

(* Those of the first n cells that belong before cell k in ascending order. *)
Before(r, n, k) == {j \in 0 .. n - 1 : r[j] < r[k] \/ (r[j] = r[k] /\ j < k)}

(* The first n cells of rslt in ascending order (qsort with longcomp).     *)
Qsort(r, n) ==
  [k \in DOMAIN r |->
     IF k < n
     THEN r[CHOOSE c \in 0 .. n - 1 : Cardinality(Before(r, n, c)) = k]
     ELSE r[k]]
-----------------------------------------------------------------------------
Init ==
  /\ pc = "idle"
  /\ tags = NoTagging /\ num = 0 /\ rslt = NoCells /\ i = 0
  /\ stat = "NONE"
  /\ file = <<>> /\ full = FALSE
  /\ made = NoTagging /\ kept = TRUE

Run(t) ==
  /\ pc = "idle"
  /\ tags' = t
  /\ kept' = TRUE
  /\ stat' = "NONE"
  /\ full' = FALSE
  /\ pc' = "open"
  /\ UNCHANGED <<num, rslt, i, file, made>>

(* A return from the middle; rslt is freed if there was one.               *)
Return(status) ==
  /\ stat' = status
  /\ pc' = "idle"
  /\ tags' = NoTagging /\ num' = 0 /\ rslt' = NoCells /\ i' = 0

OpenFails ==
  /\ pc = "open"
  /\ Return("FAIL")
  /\ UNCHANGED <<file, full, made, kept>>

(* Fault: the file is created as soon as there is something to write.      *)
FindTag1CreatesFile ==
  /\ pc = "open"
  /\ tags.starts # <<>>
  /\ num' = Len(tags.starts)
  /\ \E g \in Garbage :
       rslt' = [k \in 0 .. 2 * num' - 1 |->
                  IF k < num' THEN tags.starts[k + 1] ELSE g]
  /\ pc' = IF tags.tag2 THEN "tag2" ELSE "sort"
  /\ file' = <<>> /\ made' = tags /\ kept' = FALSE
  /\ UNCHANGED <<tags, i, stat, full>>

FindTag1 ==
  /\ pc = "open"
  /\ tags.starts # <<>>
  /\ num' = Len(tags.starts)
  /\ \E g \in Garbage :
       rslt' = [k \in 0 .. 2 * num' - 1 |->
                  IF k < num' THEN tags.starts[k + 1] ELSE g]
  /\ pc' = IF tags.tag2 THEN "tag2" ELSE "sort"
  /\ UNCHANGED <<tags, i, stat, file, full, made, kept>>

Tag1NotFound ==
  /\ pc = "open"
  /\ tags.starts = <<>>
  /\ Return("FAIL")
  /\ UNCHANGED <<file, full, made, kept>>

(* One test in the code for each of the two reasons.                       *)
Tag2Fails ==
  /\ pc = "tag2"
  /\ tags.ends = <<>> \/ Len(tags.ends) # num
  /\ Return("FAIL")
  /\ UNCHANGED <<file, full, made, kept>>

(* Fault: no sort where both tags are given.                               *)
FindTag2Unsorted ==
  /\ pc = "tag2"
  /\ tags.ends # <<>> /\ Len(tags.ends) = num
  /\ rslt' = [k \in DOMAIN rslt |->
                IF k < num THEN rslt[k]
                ELSE tags.ends[k - num + 1] + tags.len_tag2]
  /\ pc' = "create"
  /\ UNCHANGED <<tags, num, i, stat, file, full, made, kept>>

(* Fault: a document ends in front of its end tag, not behind it.          *)
FindTag2WithoutLength ==
  /\ pc = "tag2"
  /\ tags.ends # <<>> /\ Len(tags.ends) = num
  /\ rslt' = Qsort([k \in DOMAIN rslt |->
                      IF k < num THEN rslt[k] ELSE tags.ends[k - num + 1]], 2 * num)
  /\ pc' = "create"
  /\ UNCHANGED <<tags, num, i, stat, file, full, made, kept>>

FindTag2 ==
  /\ pc = "tag2"
  /\ tags.ends # <<>> /\ Len(tags.ends) = num
  /\ rslt' = Qsort([k \in DOMAIN rslt |->
                      IF k < num THEN rslt[k]
                      ELSE tags.ends[k - num + 1] + tags.len_tag2], 2 * num)
  /\ pc' = "create"
  /\ UNCHANGED <<tags, num, i, stat, file, full, made, kept>>

(* No end tag: a document ends where the next one starts, the last one     *)
(* with the text.                                                          *)
SortStarts ==
  /\ pc = "sort"
  /\ rslt' = [Qsort(rslt, num) EXCEPT ![2 * num - 1] = tags.size]
  /\ i' = 2 * num - 2
  /\ pc' = "double"
  /\ UNCHANGED <<tags, num, stat, file, full, made, kept>>

(* Fault: the start of a document is read where its end has been put.      *)
DoubleOffByOne ==
  /\ pc = "double" /\ i > 0
  /\ rslt' = [rslt EXCEPT ![i] = rslt[(i - 1) \div 2],
                          ![i - 1] = rslt[(i - 1) \div 2]]
  /\ i' = i - 2
  /\ UNCHANGED <<pc, tags, num, stat, file, full, made, kept>>

Double ==
  /\ pc = "double" /\ i > 0
  /\ rslt' = [rslt EXCEPT ![i] = rslt[i \div 2], ![i - 1] = rslt[i \div 2]]
  /\ i' = i - 2
  /\ UNCHANGED <<pc, tags, num, stat, file, full, made, kept>>

DoubleEnd ==
  /\ pc = "double" /\ i <= 0
  /\ pc' = "create"
  /\ UNCHANGED <<tags, num, rslt, i, stat, file, full, made, kept>>

Create ==
  /\ pc = "create"
  /\ file' = <<>>
  /\ made' = tags /\ kept' = FALSE
  /\ i' = 0
  /\ pc' = "write"
  /\ UNCHANGED <<tags, num, rslt, stat, full>>

CreateFails ==
  /\ pc = "create"
  /\ Return("FAIL")
  /\ UNCHANGED <<file, full, made, kept>>

(* The result of sa_fwrite is not looked at.                               *)
WriteWord ==
  /\ pc = "write" /\ i < 2 * num
  /\ full' \in {full, TRUE}
  /\ file' = IF full' THEN file ELSE Append(file, rslt[i])
  /\ i' = i + 1
  /\ UNCHANGED <<pc, tags, num, rslt, stat, made, kept>>

Close ==
  /\ pc = "write" /\ i >= 2 * num
  /\ Return("SUCCESS")
  /\ UNCHANGED <<file, full, made, kept>>

(* The process dies; what it has written stays.                            *)
Crash ==
  /\ pc # "idle"
  /\ Return("CRASH")
  /\ UNCHANGED <<file, full, made, kept>>

Internal ==
  \/ OpenFails \/ FindTag1 \/ Tag1NotFound \/ Tag2Fails \/ FindTag2
  \/ SortStarts \/ Double \/ DoubleEnd
  \/ Create \/ CreateFails \/ WriteWord \/ Close

Next == (\E t \in Taggings : Run(t)) \/ Internal \/ Crash

(* mkdid is a sequential program; nothing makes it die.                    *)
Spec == Init /\ [][Next]_vars /\ WF_vars(Internal)
-----------------------------------------------------------------------------
(* The documents of a tagging, said of sets: each start with the next end  *)
(* behind it, or where there is no end tag the next start or the end of    *)
(* the text.                                                               *)
Starts(t) == ToSet(t.starts)
Ends(t) ==
  IF t.tag2 THEN {e + t.len_tag2 : e \in ToSet(t.ends)}
  ELSE Starts(t) \union {t.size}

NextEnds(t, s) == {e \in Ends(t) : s < e}

(* Start and end tags take turns: documents are not nested, none is open.  *)
WellTagged(t) ==
  /\ t.tag2 => Len(t.starts) = Len(t.ends)
  /\ \A s \in Starts(t) : NextEnds(t, s) # {}
  /\ \A s, n \in Starts(t) : s < n => Min(NextEnds(t, s)) <= n

DocumentsOf(t) == {<<s, Min(NextEnds(t, s))>> : s \in Starts(t)}

DocumentsIn(words) ==
  {<<Did!RegionFrom(words, k), Did!RegionTo(words, k)>> :
     k \in Did!Documents(words)}

(* Whatever the tags hit, nested, unbalanced or back to front, and         *)
(* wherever a run has died, the file on disk is one the binary search of   *)
(* sa_didsearch can read: it meets the assumption DidSearch makes.         *)
FileInOrder == Did!DidOK(file)

(* The documents in the file are documents of the text, the first ones: a  *)
(* run cut short leaves a file that lacks some at the end, never one that  *)
(* has a wrong region.  A run that returns SUCCESS on a disk with room has *)
(* recorded every document.                                                *)
FileHoldsDocuments ==
  WellTagged(made) =>
    /\ DocumentsIn(file) \subseteq DocumentsOf(made)
    /\ \A d \in DocumentsOf(made) \ DocumentsIn(file),
          e \in DocumentsIn(file) : e[1] < d[1]
    /\ stat = "SUCCESS" /\ ~ full => DocumentsIn(file) = DocumentsOf(made)

(* A run that returns FAIL has left the document file of an earlier run as *)
(* it was: all that can be found wrong is found before fopen truncates it. *)
FailLeavesFile ==
  [][/\ stat' = "FAIL" => kept'
     /\ file' # file => ~ kept']_vars
=============================================================================
