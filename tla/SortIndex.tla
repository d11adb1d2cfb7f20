----------------------------- MODULE SortIndex -----------------------------
(***************************************************************************)
(* sa_sort_index (lib/make-index.c): mkary's second half.  The array file  *)
(* is mapped shared and its words turned from big-endian into host order   *)
(* where they stand.  Then it is either sorted and turned back in place,   *)
(* or (-M) sorted block by block and merged through a heap into a second   *)
(* file, which is renamed to the name of the first.  The host has another  *)
(* byte order than the files.                                              *)
(***************************************************************************)
EXTENDS Multikey

CONSTANTS Jobs,       \* the pairs [text, array] to sort, as WriteIndex leaves them
          BlockSizes, \* words per block; 0 and -1 for no blocks, -1 for qsort
          CacheSize   \* STR_CACHE_SIZE

ASSUME JobsAssumption ==
  \A job \in Jobs :
    /\ job \in [text : Seq(Byte), array : Seq(Nat) \ {<<>>}]
    /\ \A n \in 1 .. Len(job.array) : job.array[n] < Len(job.text)
    /\ IsInjective(job.array)

ASSUME SizesAssumption ==
  BlockSizes \subseteq Nat \union {-1} /\ CacheSize \in Nat \ {0}

VARIABLES pc,       \* the function or loop it is in
          host,     \* the words of the mapped file that are in host order
          bl_size,  \* words per block
          k,        \* loop counter
          bl,       \* the heap of blocks, bl[1] on top
          v,        \* the block that upheap or downheap moves
          hole,     \* and the place that is free for it
          merged,   \* the second file
          renamed,  \* the second file has the name of the first
          full,     \* some word of the second file could not be written
          failed,   \* the sorter has met an error
          stat      \* what sa_sort_index has returned; "CRASH" if it died

vars == <<pc, ary, ranges, scan, host, bl_size, k, bl, v, hole, merged, renamed,
          full, failed, stat>>

sorting == <<ranges, scan>>
heap == <<bl, v, hole>>

Size == Len(ary.array)

-----------------------------------------------------------------------------
(* strncpy(strbuf, m_text_ptr + p, STR_CACHE_SIZE).                        *)
Cache(p) ==
  [m \in 0 .. CacheSize - 1 |->
     IF \E n \in 0 .. m : Char(ary, p + n) = 0 THEN 0 ELSE Char(ary, p + m)]

(* strcmp < 0 for the C strings f and g, read up to n bytes.               *)
StrLess(f, g, n) ==
  \E m \in 0 .. n - 1 :
    /\ f[m] < g[m]
    /\ \A q \in 0 .. m - 1 : f[q] = g[q] /\ f[q] # 0

TextFrom(p) == [m \in 0 .. Len(ary.text) |-> Char(ary, p + m)]

(* The index point a block of the array in a has come to.                  *)
Reached(a, b) == AryIdx2TxtIdx(a, b.aryidx)

(* Fault: the second level is left out.                                    *)
OneLevelLess(a, b) == StrLess(a.strbuf, b.strbuf, CacheSize)

(* two_level_compare(a, b) < 0.                                            *)
TwoLevelLess(a, b) ==
  IF a.strbuf = b.strbuf
  THEN StrLess(TextFrom(Reached(ary, a) + CacheSize),
               TextFrom(Reached(ary, b) + CacheSize), Len(ary.text) + 1)
  ELSE StrLess(a.strbuf, b.strbuf, CacheSize)

(* Fault: the second child is not looked at.                               *)
LesserChildFirst(n) == 2 * n

LesserChild(n) ==
  IF 2 * n < Len(bl) /\ ~ TwoLevelLess(bl[2 * n], bl[2 * n + 1])
  THEN 2 * n + 1 ELSE 2 * n

NoBlock == [aryidx |-> 0, max |-> 0, strbuf |-> [m \in 0 .. CacheSize - 1 |-> 0]]

-----------------------------------------------------------------------------
Init ==
  /\ pc = "start"
  /\ ary \in Jobs
  /\ ranges = <<>> /\ scan = NoScan
  /\ host = {}
  /\ bl_size \in BlockSizes
  /\ k = 0
  /\ bl = <<>> /\ v = NoBlock /\ hole = 0
  /\ merged = <<>>
  /\ renamed = FALSE /\ full = FALSE /\ failed = FALSE
  /\ stat = "NONE"

Return(status) == pc' = "end" /\ stat' = status

OpenFails ==
  /\ pc = "start"
  /\ Return("FAIL")
  /\ UNCHANGED <<sorting, ary, host, bl_size, k, heap, merged, renamed, full, failed>>

Open ==
  /\ pc = "start"
  /\ k' = 0
  /\ pc' = "to host"
  /\ UNCHANGED <<sorting, ary, host, bl_size, heap, merged, renamed, full, failed, stat>>

(* Fault: the loop does not move on.                                       *)
ReverseWordAgain ==
  /\ pc \in {"to host", "to big"} /\ k < Size
  /\ host' = IF pc = "to host" THEN host \union {k} ELSE host \ {k}
  /\ UNCHANGED <<sorting, pc, ary, bl_size, k, heap, merged, renamed, full, failed, stat>>

(* sa_reverse_byte_order_all, a word at a time.                            *)
ReverseWord ==
  /\ pc \in {"to host", "to big"} /\ k < Size
  /\ host' = IF pc = "to host" THEN host \union {k} ELSE host \ {k}
  /\ k' = k + 1
  /\ UNCHANGED <<sorting, pc, ary, bl_size, heap, merged, renamed, full, failed, stat>>

ReversedToHost ==
  /\ pc = "to host" /\ k >= Size
  /\ k' = 0
  /\ pc' = CASE bl_size = 0 -> "multikey"
             [] bl_size = -1 -> "qsort"
             [] OTHER -> "blocks"
  /\ IF bl_size = 0 THEN Call(0, Size) ELSE UNCHANGED ranges
  /\ UNCHANGED <<scan, ary, host, bl_size, heap, merged, renamed, full, failed, stat>>

Sort ==
  /\ pc \in {"multikey", "block"}
  /\ SortStep
  /\ UNCHANGED <<pc, host, bl_size, k, heap, merged, renamed, full, failed, stat>>

(* Fault: the words are left in host order.                                *)
SortedNotReversed ==
  /\ pc = "multikey" /\ Returned
  /\ pc' = "close"
  /\ UNCHANGED <<sorting, ary, host, bl_size, k, heap, merged, renamed, full, failed, stat>>

SortedAll ==
  /\ pc = "multikey" /\ Returned
  /\ k' = 0
  /\ pc' = "to big"
  /\ UNCHANGED <<sorting, ary, host, bl_size, heap, merged, renamed, full, failed, stat>>

(* sa_sort_index_system_qsort.                                             *)
SystemQsort ==
  /\ pc = "qsort"
  /\ ary' = [ary EXCEPT !.array = SortRange(0, Size)]
  /\ k' = 0
  /\ pc' = "to big"
  /\ UNCHANGED <<sorting, host, bl_size, heap, merged, renamed, full, failed, stat>>

ReversedToBig ==
  /\ pc = "to big" /\ k >= Size
  /\ pc' = "close"
  /\ UNCHANGED <<sorting, ary, host, bl_size, k, heap, merged, renamed, full, failed, stat>>

BlockEnd == Min({k + bl_size, Size})

(* A turn of sa_sort_each_block, up to the call that sorts the block and   *)
(* behind it.                                                              *)
SortBlock ==
  /\ pc = "blocks" /\ k < Size
  /\ Call(k, BlockEnd - k)
  /\ pc' = "block"
  /\ UNCHANGED <<scan, ary, host, bl_size, k, heap, merged, renamed, full, failed, stat>>

(* insertheap puts the block behind all others; upheap begins.             *)
BlockSorted ==
  /\ pc = "block" /\ Returned
  /\ v' = [aryidx |-> k, max |-> BlockEnd,
            strbuf |-> Cache(AryIdx2TxtIdx(ary, k))]
  /\ bl' = Append(bl, v')
  /\ hole' = Len(bl')
  /\ pc' = "upheap"
  /\ UNCHANGED <<sorting, ary, host, bl_size, k, merged, renamed, full, failed, stat>>

(* Fault: the loop leaves the top of the heap alone.                       *)
RisesBelowTop ==
  hole \div 2 > 1 /\ SuffixLess(ary, Reached(ary, v), Reached(ary, bl[hole \div 2]))

(* The loop of upheap goes on.                                             *)
Rises == hole > 1 /\ SuffixLess(ary, Reached(ary, v), Reached(ary, bl[hole \div 2]))

Upheap ==
  /\ pc = "upheap" /\ Rises
  /\ bl' = [bl EXCEPT ![hole] = bl[hole \div 2]]
  /\ hole' = hole \div 2
  /\ UNCHANGED <<sorting, pc, ary, host, bl_size, k, v, merged, renamed, full, failed, stat>>

UpheapDone ==
  /\ pc = "upheap" /\ ~ Rises
  /\ bl' = [bl EXCEPT ![hole] = v]
  /\ k' = k + bl_size
  /\ pc' = "blocks"
  /\ UNCHANGED <<sorting, ary, host, bl_size, v, hole, merged, renamed, full, failed, stat>>

OpenMerged ==
  /\ pc = "blocks" /\ k >= Size
  /\ merged' = <<>>
  /\ k' = 0
  /\ pc' = "merge"
  /\ UNCHANGED <<sorting, ary, host, bl_size, heap, renamed, full, failed, stat>>

(* The sorter returns FAIL as it is.                                       *)
SorterFails ==
  /\ (pc = "blocks" /\ k >= Size) \/ pc = "rename"
  /\ failed' = TRUE
  /\ pc' = "close"
  /\ UNCHANGED <<sorting, ary, host, bl_size, k, heap, merged, renamed, full, stat>>

(* The heap with its top taken forward by a word, or, at the end of the    *)
(* block, replaced by the last block, as hremove does.                     *)
TopMoved ==
  LET next == bl[1].aryidx + 1 IN
  IF next >= bl[1].max
  THEN IF Len(bl) = 1 THEN <<>> ELSE [Front(bl) EXCEPT ![1] = bl[Len(bl)]]
  ELSE [bl EXCEPT ![1] = [bl[1] EXCEPT !.aryidx = next,
                                       !.strbuf = Cache(AryIdx2TxtIdx(ary, next))]]

(* A turn of sa_merge_blocks, up to its downheap, which does nothing to an *)
(* empty heap.  The result of sa_fwrite is not looked at.                  *)
MergeWord ==
  /\ pc = "merge" /\ k < Size
  /\ \/ merged' = Append(merged, Reached(ary, bl[1])) /\ UNCHANGED full
     \/ full' = TRUE /\ UNCHANGED merged
  /\ bl' = TopMoved
  /\ k' = k + 1
  /\ IF bl' = <<>> THEN UNCHANGED <<pc, v, hole>>
     ELSE pc' = "downheap" /\ v' = bl'[1] /\ hole' = 1
  /\ UNCHANGED <<sorting, ary, host, bl_size, renamed, failed, stat>>

(* The loop of downheap goes on.                                           *)
Falls == hole <= Len(bl) \div 2 /\ TwoLevelLess(bl[LesserChild(hole)], v)

Downheap ==
  /\ pc = "downheap" /\ Falls
  /\ bl' = [bl EXCEPT ![hole] = bl[LesserChild(hole)]]
  /\ hole' = LesserChild(hole)
  /\ UNCHANGED <<sorting, pc, ary, host, bl_size, k, v, merged, renamed, full, failed, stat>>

DownheapDone ==
  /\ pc = "downheap" /\ ~ Falls
  /\ bl' = [bl EXCEPT ![hole] = v]
  /\ pc' = "merge"
  /\ UNCHANGED <<sorting, ary, host, bl_size, k, v, hole, merged, renamed, full, failed, stat>>

CloseMerged ==
  /\ pc = "merge" /\ k >= Size
  /\ pc' = "rename"
  /\ UNCHANGED <<sorting, ary, host, bl_size, k, heap, merged, renamed, full, failed, stat>>

Rename ==
  /\ pc = "rename"
  /\ renamed' = TRUE
  /\ pc' = "close"
  /\ UNCHANGED <<sorting, ary, host, bl_size, k, heap, merged, full, failed, stat>>

(* The status of the sorter is dropped.                                    *)
Close ==
  /\ pc = "close"
  /\ Return("SUCCESS")
  /\ UNCHANGED <<sorting, ary, host, bl_size, k, heap, merged, renamed, full, failed>>

Crash ==
  /\ pc # "end"
  /\ Return("CRASH")
  /\ UNCHANGED <<sorting, ary, host, bl_size, k, heap, merged, renamed, full, failed>>

Ended == pc = "end" /\ UNCHANGED vars

Internal ==
  \/ OpenFails \/ Open \/ ReverseWord \/ ReversedToHost
  \/ Sort \/ SortedAll \/ SystemQsort \/ ReversedToBig
  \/ SortBlock \/ BlockSorted \/ Upheap \/ UpheapDone \/ OpenMerged \/ SorterFails
  \/ MergeWord \/ Downheap \/ DownheapDone \/ CloseMerged \/ Rename
  \/ Close

Next == Internal \/ Crash \/ Ended

(* A sequential program runs on.                                           *)
Spec == Init /\ [][Next]_vars /\ WF_vars(Internal)
-----------------------------------------------------------------------------
(* What is found under the name of the array file, words still in host     *)
(* order marked.                                                           *)
File == IF renamed THEN [words |-> merged, host |-> {}]
        ELSE [words |-> ary.array, host |-> host]

(* The words a block has not given out.                                    *)
Rest(b) == {AryIdx2TxtIdx(ary, n) : n \in b.aryidx .. b.max - 1}

(* Each call of multikey_qsort splits and orders what it holds.            *)
MultikeyInOrder ==
  pc \in {"multikey", "block"} =>
    IF bl_size = 0 THEN RangesApart(0, Size) ELSE RangesApart(k, BlockEnd)

(* Between its moves the heap is ordered by whole suffixes, though its two *)
(* directions compare differently, upheap by sa_strcmp to the end of the   *)
(* text and downheap by strcmp over the caches first; and no cache is      *)
(* behind the word its block has come to.  A NUL in the text would stop    *)
(* strcmp early.                                                           *)
HeapWellFormed ==
  NulFree /\ pc \in {"blocks", "block", "merge"} =>
    \A n \in DOMAIN bl :
      /\ bl[n].strbuf = Cache(Reached(ary, bl[n]))
      /\ n > 1 => ~ SuffixLess(ary, Reached(ary, bl[n]),
                               Reached(ary, bl[n \div 2]))

(* At every moment of the merge each index point is either in the second   *)
(* file or still in exactly one block, whatever the text holds; and        *)
(* without NUL the second file is sorted and stands before all the rest.   *)
MergeInOrder ==
  pc = "merge" =>
    LET rest == UNION {Rest(bl[n]) : n \in DOMAIN bl}
    IN /\ ~ full => /\ ToSet(merged) \union rest = ToSet(ary.array)
                    /\ Len(merged) + Cardinality(rest) = Size
       /\ NulFree => /\ Sorted([ary EXCEPT !.array = merged])
                     /\ \A p \in ToSet(merged), q \in rest : SuffixLess(ary, p, q)

(* sa_sort_index has returned with no error met, or died after the rename. *)
Complete == (stat = "SUCCESS" /\ ~ failed) \/ renamed

(* Then, if every word could be written, the file under the array's name   *)
(* holds all the points there were, in big-endian order, whatever the text *)
(* and the sorter; and it is an index sorted to the end of the text if the *)
(* text holds no NUL or qsort has sorted it.                               *)
SortedAtEnd ==
  Complete /\ ~ full =>
    /\ File.host = {}
    /\ ToSet(File.words) = ToSet(ary.array)
    /\ NulFree \/ bl_size = -1 => IndexOK([ary EXCEPT !.array = File.words])

(* Where a NUL keeps multikey_qsort from sorting further and strcmp from   *)
(* comparing further, no more is lost than the order behind the NUL: with  *)
(* every sorter, and even if words could not be written, the file is in    *)
(* order as far as a search for a key without NUL looks.                   *)
SortedUpToNul ==
  Complete =>
    \A m, n \in DOMAIN File.words :
      m < n => ~ StrLess(TextFrom(File.words[n]), TextFrom(File.words[m]),
                         Len(ary.text) + 1)

(* doc/en/make-index.html:72-73: the byte order of an array file is always *)
(* big endian.                                                             *)
AlwaysBigEndian == stat = "SUCCESS" => File.host = {}

(* Every loop of the sort ends, and the call returns.                      *)
SortReturns == <>(pc = "end")
=============================================================================
