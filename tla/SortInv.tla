------------------------------ MODULE SortInv ------------------------------
(***************************************************************************)
(* The inductive invariant of SortIndex: which words are in host order,    *)
(* what the calls of multikey_qsort have still to sort, and how the blocks *)
(* of the heap and the second file share the words while they are merged.  *)
(***************************************************************************)
EXTENDS SortIndex

(* A text and index points into it, each once.                             *)
PointsOK(a) ==
  /\ a \in [text : Seq(Byte), array : Seq(Nat) \ {<<>>}]
  /\ \A n \in 1 .. Len(a.array) : a.array[n] < Len(a.text)
  /\ IsInjective(a.array)

InPlace == {"multikey", "qsort", "to big"}
Building == {"blocks", "block", "upheap"}
Merging == {"merge", "downheap"}

TypeInv ==
  /\ PointsOK(ary)
  /\ k \in Nat
  /\ bl_size \in Nat \union {-1}
  /\ pc \in {"start", "to host", "rename", "close", "end"}
            \union InPlace \union Building \union Merging
  /\ pc # "end" => stat = "NONE"
  /\ failed \in BOOLEAN /\ renamed \in BOOLEAN /\ full \in BOOLEAN

-----------------------------------------------------------------------------
(* Calls that hold words [from, to), each another part of them.            *)
Within(r, from, to) == from <= r.at /\ r.at + r.n <= to

Apart(r, s) ==
  r.n = 0 \/ s.n = 0 \/ r.at + r.n <= s.at \/ s.at + s.n <= r.at

CallType == [at : Nat, n : Nat, depth : Nat]

ScanType == [at : Nat, n : Nat, depth : Nat, v : Nat,
             a : Nat, b : Nat, c : Int, d : Int]

CallsWithin(from, to) ==
  /\ ranges \in Seq(CallType) /\ scan \in ScanType
  /\ \A x \in DOMAIN ranges : Within(ranges[x], from, to)
  /\ \A x, y \in DOMAIN ranges : x # y => Apart(ranges[x], ranges[y])
  /\ Scanning =>
       /\ Within(scan, from, to)
       /\ \A x \in DOMAIN ranges : Apart(scan, ranges[x])

(* The four pointers of the range being split.                             *)
PointersInv ==
  Scanning => /\ 1 <= scan.a /\ scan.a <= scan.b /\ scan.b <= scan.c + 1
              /\ scan.c <= scan.d /\ scan.d < scan.n

SortingInv(from, to) ==
  CallsWithin(from, to) /\ PointersInv /\ RangesApart(from, to)

MultikeyInv ==
  /\ pc = "multikey" => SortingInv(0, Size)
  /\ pc = "block" => SortingInv(k, BlockEnd)
  /\ pc \notin {"multikey", "block", "end"} => scan \in ScanType /\ ~ Scanning

-----------------------------------------------------------------------------
(* In host order are the words the reversing loops have left so.           *)
HostInv ==
  /\ pc = "start" => host = {}
  /\ pc = "to host" => k <= Size /\ host = 0 .. k - 1
  /\ pc \in {"multikey", "qsort", "rename"} \union Building \union Merging =>
       host = 0 .. Size - 1
  /\ pc = "to big" => k <= Size /\ host = k .. Size - 1

(* A sort without blocks ends in the file it has begun with.               *)
InPlaceInv ==
  /\ pc = "multikey" => bl_size = 0
  /\ pc = "qsort" => bl_size = -1
  /\ bl_size \in {0, -1} =>
       /\ pc \notin Building \union Merging \union {"rename"}
       /\ ~ failed /\ ~ renamed
       /\ pc \in {"to big", "close"} \/ stat = "SUCCESS" =>
            (NulFree \/ bl_size = -1 => Sorted(ary))
       /\ pc = "close" \/ stat = "SUCCESS" => host = {}

(* A sort by blocks has renamed the second file, or failed; and that file  *)
(* is whole.                                                               *)
RenamedInv ==
  /\ bl_size > 0 =>
       /\ pc \notin InPlace
       /\ pc = "close" \/ stat = "SUCCESS" => renamed \/ failed
  /\ pc \notin {"close", "end"} => ~ renamed /\ ~ failed
  /\ renamed \/ pc = "rename" =>
       /\ ToSet(merged) \subseteq ToSet(ary.array) /\ merged \in Seq(Nat)
       /\ ~ full => ToSet(merged) = ToSet(ary.array)
       /\ NulFree => Sorted([ary EXCEPT !.array = merged])

-----------------------------------------------------------------------------
(* The heap, with the block that is being moved in the place free for it.  *)
Heap == IF pc \in {"upheap", "downheap"} THEN [bl EXCEPT ![hole] = v] ELSE bl

(* The places of the array that are left in the blocks of h.               *)
Left(h) == UNION {h[n].aryidx .. h[n].max - 1 : n \in DOMAIN h}

BlockType == [aryidx : Nat, max : Nat, strbuf : [0 .. CacheSize - 1 -> Byte]]

(* Blocks that are not empty, with parts of [0, to), each another.         *)
BlocksWithin(h, to) ==
  /\ \A n \in DOMAIN h : h[n].aryidx < h[n].max /\ h[n].max <= to
  /\ \A m, n \in DOMAIN h :
       m # n => h[m].max <= h[n].aryidx \/ h[n].max <= h[m].aryidx

CachesInv(h) == \A n \in DOMAIN h : h[n].strbuf = Cache(Reached(ary, h[n]))

BlocksSorted(h) ==
  \A n \in DOMAIN h : \A x, y \in h[n].aryidx .. h[n].max - 1 :
    x < y => SuffixLess(ary, AryIdx2TxtIdx(ary, x), AryIdx2TxtIdx(ary, y))

(* Block m does not belong before block n.                                 *)
NotBefore(h, m, n) == ~ SuffixLess(ary, Reached(ary, h[m]), Reached(ary, h[n]))

(* The heap is in order but for the place upheap has come to and the one   *)
(* above it, or but for the place downheap has come to and those below it. *)
(* What is below the place is not before what is above it.                 *)
HeapOrder(h) ==
  LET far(n) == CASE pc = "upheap" -> n # hole
                  [] pc = "downheap" -> n \div 2 # hole
                  [] OTHER -> TRUE
  IN /\ \A n \in 2 .. Len(h) : far(n) => NotBefore(h, n, n \div 2)
     /\ pc \in {"upheap", "downheap"} /\ hole > 1 =>
          \A n \in 2 .. Len(h) : n \div 2 = hole => NotBefore(h, n, hole \div 2)

HeapInv ==
  /\ pc \in {"start", "to host"} => bl = <<>> /\ v = NoBlock
  /\ pc \in Building \union Merging =>
       /\ bl \in Seq(BlockType) /\ v \in BlockType
       /\ pc \in {"upheap", "downheap"} => hole \in DOMAIN bl
       /\ CachesInv(Heap)
       /\ NulFree => BlocksSorted(Heap) /\ HeapOrder(Heap)

(* The blocks sorted so far are in the heap.                               *)
BuildingInv ==
  /\ pc \in {"blocks", "block"} =>
       Left(Heap) = 0 .. Min({k, Size}) - 1 /\ BlocksWithin(Heap, Min({k, Size}))
  /\ pc \in {"block", "upheap"} => k < Size
  /\ pc = "upheap" =>
       Left(Heap) = 0 .. BlockEnd - 1 /\ BlocksWithin(Heap, BlockEnd)

(* Each word is in the second file or left in a block, and the file stands *)
(* before the blocks.                                                      *)
MergingInv ==
  pc \in Merging =>
    /\ BlocksWithin(Heap, Size)
    /\ k <= Size /\ Cardinality(Left(Heap)) = Size - k
    /\ merged \in Seq(Nat) /\ ToSet(merged) \subseteq ToSet(ary.array)
    /\ ~ full => /\ Len(merged) = k
                 /\ \A x \in 0 .. Size - 1 :
                      x \in Left(Heap) \/ AryIdx2TxtIdx(ary, x) \in ToSet(merged)
    /\ NulFree => /\ Sorted([ary EXCEPT !.array = merged])
                  /\ \A p \in ToSet(merged), x \in Left(Heap) :
                       SuffixLess(ary, p, AryIdx2TxtIdx(ary, x))

IInv ==
  /\ TypeInv
  /\ MultikeyInv
  /\ HostInv
  /\ InPlaceInv
  /\ RenamedInv
  /\ HeapInv
  /\ BuildingInv
  /\ MergingInv
=============================================================================
