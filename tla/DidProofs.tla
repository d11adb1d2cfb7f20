------------------------------ MODULE DidProofs -----------------------------
(***************************************************************************)
(* That the document file is one sa_didsearch can read at every moment,    *)
(* whatever the tags hit, and that a run which fails has not touched it:   *)
(* for texts of any size and any number of hits.  First what the sort      *)
(* does, then the inductive invariant, which follows the positions from    *)
(* the hits through the doubling in place to the words of the file.  Then  *)
(* sa_didsearch, right for every such file, and at the end the two of them *)
(* together: what is looked up in the file is found in the text.           *)
(***************************************************************************)
EXTENDS DocumentFile, FiniteSetTheorems, WellFoundedInduction, TLAPS

(* The cells that belong before a cell: one more for each that follows.    *)
LEMMA BeforeRanks ==
  ASSUME NEW n \in Nat, NEW r, \A k \in 0 .. n - 1 : r[k] \in Nat
  PROVE  /\ \A k \in 0 .. n - 1 : Cardinality(Before(r, n, k)) \in 0 .. n - 1
         /\ \A j, k \in 0 .. n - 1 :
              j \in Before(r, n, k) =>
                Cardinality(Before(r, n, j)) < Cardinality(Before(r, n, k))
         /\ \A j, k \in 0 .. n - 1 :
              j # k => j \in Before(r, n, k) \/ k \in Before(r, n, j)
<1>1. IsFiniteSet(0 .. n - 1) /\ Cardinality(0 .. n - 1) = n
  BY FS_Interval
<1>2. \A k \in 0 .. n - 1 : Before(r, n, k) \subseteq (0 .. n - 1) \ {k}
  BY DEF Before
<1>3. \A k \in 0 .. n - 1 : IsFiniteSet(Before(r, n, k))
  BY <1>1, <1>2, FS_Subset
<1>4. ASSUME NEW k \in 0 .. n - 1
      PROVE  Cardinality(Before(r, n, k)) \in 0 .. n - 1
  <2>1. /\ IsFiniteSet((0 .. n - 1) \ {k})
        /\ Cardinality((0 .. n - 1) \ {k}) = n - 1
    BY <1>1, FS_RemoveElement
  <2>2. Cardinality(Before(r, n, k)) <= n - 1
    BY <1>2, <2>1, FS_Subset
  <2>3. Cardinality(Before(r, n, k)) \in Nat
    BY <1>3, FS_CardinalityType
  <2>. QED  BY <2>2, <2>3
<1>5. ASSUME NEW j \in 0 .. n - 1, NEW k \in 0 .. n - 1, j \in Before(r, n, k)
      PROVE  Cardinality(Before(r, n, j)) < Cardinality(Before(r, n, k))
  <2>1. j \notin Before(r, n, j)
    BY DEF Before
  <2>2. Before(r, n, j) \union {j} \subseteq Before(r, n, k)
    BY <1>5 DEF Before
  <2>3. /\ IsFiniteSet(Before(r, n, j) \union {j})
        /\ Cardinality(Before(r, n, j) \union {j}) = Cardinality(Before(r, n, j)) + 1
    BY <1>3, <2>1, FS_AddElement
  <2>4. Cardinality(Before(r, n, j)) + 1 <= Cardinality(Before(r, n, k))
    BY <1>3, <2>2, <2>3, FS_Subset
  <2>. QED  BY <1>4, <2>4
<1>6. \A j, k \in 0 .. n - 1 :
        j # k => j \in Before(r, n, k) \/ k \in Before(r, n, j)
  BY DEF Before
<1>. QED  BY <1>4, <1>5, <1>6

(* So there is a cell for every place.                                     *)
LEMMA EveryRank ==
  ASSUME NEW n \in Nat, NEW r, \A k \in 0 .. n - 1 : r[k] \in Nat
  PROVE  \A k \in 0 .. n - 1 :
           \E c \in 0 .. n - 1 : Cardinality(Before(r, n, c)) = k
<1> DEFINE f == [k \in 0 .. n - 1 |-> Cardinality(Before(r, n, k))]
<1>1. f \in [0 .. n - 1 -> 0 .. n - 1]
  BY BeforeRanks
<1>2. \A j, k \in 0 .. n - 1 : f[j] = f[k] => j = k
  <2> SUFFICES ASSUME NEW j \in 0 .. n - 1, NEW k \in 0 .. n - 1, j # k
               PROVE  f[j] # f[k]
    OBVIOUS
  <2>1. \/ Cardinality(Before(r, n, j)) < Cardinality(Before(r, n, k))
        \/ Cardinality(Before(r, n, k)) < Cardinality(Before(r, n, j))
    BY BeforeRanks
  <2>2. f[j] \in Int /\ f[k] \in Int
    BY <1>1
  <2>. QED  BY <2>1, <2>2
<1> HIDE DEF f
<1>3. f \in Injection(0 .. n - 1, 0 .. n - 1)
  BY <1>1, <1>2 DEF Injection, IsInjective
<1>4. f \in Surjection(0 .. n - 1, 0 .. n - 1)
  BY <1>3, FS_Interval, FS_Injection
<1>. QED  BY <1>4 DEF Surjection, f

LEMMA QsortSorts ==
  ASSUME NEW n \in Nat, NEW r, 0 .. n - 1 \subseteq DOMAIN r, DOMAIN r \subseteq Nat,
         \A k \in 0 .. n - 1 : r[k] \in Nat
  PROVE  /\ DOMAIN Qsort(r, n) = DOMAIN r
         /\ \A k \in 0 .. n - 1 : \E c \in 0 .. n - 1 : Qsort(r, n)[k] = r[c]
         /\ \A j, k \in 0 .. n - 1 : j <= k => Qsort(r, n)[j] <= Qsort(r, n)[k]
<1> DEFINE Rank(c) == Cardinality(Before(r, n, c))
           At(k) == CHOOSE c \in 0 .. n - 1 : Rank(c) = k
<1>1. \A k \in 0 .. n - 1 : At(k) \in 0 .. n - 1 /\ Rank(At(k)) = k
  BY EveryRank
<1>2. \A k \in 0 .. n - 1 : Qsort(r, n)[k] = r[At(k)]
  BY DEF Qsort
<1>3. \A c, d \in 0 .. n - 1 : Rank(c) < Rank(d) => r[c] <= r[d]
  <2> SUFFICES ASSUME NEW c \in 0 .. n - 1, NEW d \in 0 .. n - 1, r[d] < r[c]
               PROVE  ~ Rank(c) < Rank(d)
    OBVIOUS
  <2>1. d \in Before(r, n, c)
    BY DEF Before
  <2>2. Rank(d) < Rank(c) /\ Rank(d) \in Int /\ Rank(c) \in Int
    BY <2>1, BeforeRanks
  <2> HIDE DEF Rank
  <2>. QED  BY <2>2
<1>4. DOMAIN Qsort(r, n) = DOMAIN r
  BY DEF Qsort
<1> HIDE DEF Rank, At
<1>5. \A j, k \in 0 .. n - 1 : j <= k => r[At(j)] <= r[At(k)]
  <2> SUFFICES ASSUME NEW j \in 0 .. n - 1, NEW k \in 0 .. n - 1, j <= k
               PROVE  r[At(j)] <= r[At(k)]
    OBVIOUS
  <2>1. CASE j = k
    BY <1>1, <2>1
  <2>2. CASE j < k
    BY <1>1, <1>3, <2>2
  <2>. QED  BY <2>1, <2>2
<1>. QED  BY <1>1, <1>2, <1>4, <1>5
-----------------------------------------------------------------------------
(* Cells j to k of r are positions in ascending order.                     *)
Ascending(r, j, k) ==
  /\ \A m \in j .. k : r[m] \in Nat
  /\ \A m, n \in j .. k : m <= n => r[m] <= r[n]

AscendingFile(words) ==
  /\ words \in Seq(Nat)
  /\ \A m, n \in 1 .. Len(words) : m <= n => words[m] <= words[n]

Running == {"open", "tag2", "sort", "double", "create", "write"}

(* The tagging and the cells, for the steps that have some.                *)
CellsOK ==
  /\ pc \in Running => tags \in Taggings
  /\ pc \in Running \ {"open"} =>
       /\ num = Len(tags.starts) /\ num \in Nat \ {0}
       /\ DOMAIN rslt = 0 .. 2 * num - 1
  /\ pc \in {"tag2", "sort"} =>
       \A k \in 0 .. num - 1 : rslt[k] \in Nat /\ rslt[k] < tags.size

(* Half-way through the doubling: the starts up to the one that is next to *)
(* be read, and behind i the ends and starts done.                         *)
DoublingOK ==
  pc = "double" =>
    \E h \in 0 .. num - 1 :
      /\ i = 2 * h
      /\ Ascending(rslt, 0, h)
      /\ Ascending(rslt, 2 * h + 1, 2 * num - 1)
      /\ rslt[h] <= rslt[2 * h + 1]

FileOK ==
  /\ AscendingFile(file)
  /\ pc \in {"create", "write"} => Ascending(rslt, 0, 2 * num - 1)
  /\ pc = "write" =>
       /\ i \in 0 .. 2 * num
       /\ \A n \in 1 .. Len(file), k \in i .. 2 * num - 1 : file[n] <= rslt[k]

(* When the file has been touched.                                         *)
KeptOK ==
  /\ pc \in Running => stat = "NONE"
  /\ pc \in Running \ {"write"} => kept
  /\ stat = "FAIL" => kept
  /\ pc = "write" => ~ kept

IInv ==
  /\ pc \in Running \union {"idle"}
  /\ kept \in BOOLEAN
  /\ CellsOK /\ DoublingOK /\ FileOK /\ KeptOK
-----------------------------------------------------------------------------
LEMMA TaggingFacts ==
  ASSUME NEW t \in Taggings
  PROVE  /\ t.size \in Nat /\ t.len_tag2 \in Nat
         /\ Len(t.starts) \in Nat /\ Len(t.ends) \in Nat
         /\ \A k \in 1 .. Len(t.starts) : t.starts[k] \in Nat /\ t.starts[k] < t.size
         /\ \A k \in 1 .. Len(t.ends) : t.ends[k] \in Nat
         /\ t.starts # <<>> => Len(t.starts) > 0
<1>1. TaggingOK(t)
  BY TaggingsAssumption
<1>2. t.starts \in Seq(Nat) /\ t.ends \in Seq(Nat) /\ t.size \in Nat /\ t.len_tag2 \in Nat
  BY <1>1 DEF TaggingOK
<1>3. \A k \in 1 .. Len(t.starts) : t.starts[k] < t.size
  BY <1>1 DEF TaggingOK
<1>. QED  BY <1>2, <1>3

LEMMA InitInv == Init => IInv
BY DEF Init, IInv, CellsOK, DoublingOK, FileOK, KeptOK, AscendingFile, Running

(* The steps that end a run: what they leave is the file alone.            *)
LEMMA ReturnStep ==
  ASSUME IInv, NEW status \in {"FAIL", "SUCCESS", "CRASH"}, Return(status),
         status = "FAIL" => pc \in Running \ {"write"},
         UNCHANGED <<file, full, made, kept>>
  PROVE  IInv'
BY DEF Return, IInv, CellsOK, DoublingOK, FileOK, KeptOK, Running

LEMMA RunStep ==
  ASSUME IInv, NEW t \in Taggings, Run(t)
  PROVE  IInv'
BY DEF Run, IInv, CellsOK, DoublingOK, FileOK, KeptOK, Running

LEMMA FindTag1Step ==
  ASSUME IInv, FindTag1
  PROVE  IInv'
<1>1. /\ pc = "open" /\ tags.starts # <<>>
      /\ num' = Len(tags.starts)
      /\ pc' \in {"tag2", "sort"}
      /\ UNCHANGED <<tags, i, stat, file, full, made, kept>>
  BY DEF FindTag1
<1>2. tags \in Taggings
  BY <1>1 DEF IInv, CellsOK, Running
<1>3. num' \in Nat \ {0}
  BY <1>1, <1>2, TaggingFacts
<1>4. PICK g \in Garbage :
        rslt' = [k \in 0 .. 2 * num' - 1 |-> IF k < num' THEN tags.starts[k + 1] ELSE g]
  BY DEF FindTag1
<1>5. \A k \in 0 .. num' - 1 : rslt'[k] = tags.starts[k + 1] /\ k + 1 \in 1 .. num'
  BY <1>3, <1>4
<1>6. \A k \in 0 .. num' - 1 : rslt'[k] \in Nat /\ rslt'[k] < tags.size
  BY <1>1, <1>2, <1>5, TaggingFacts
<1>7. CellsOK'
  BY <1>1, <1>2, <1>3, <1>4, <1>6 DEF CellsOK, Running
<1>. QED  BY <1>1, <1>7 DEF IInv, DoublingOK, FileOK, KeptOK, Running

LEMMA FindTag2Step ==
  ASSUME IInv, FindTag2
  PROVE  IInv'
<1> DEFINE r == [k \in DOMAIN rslt |->
                   IF k < num THEN rslt[k]
                   ELSE tags.ends[k - num + 1] + tags.len_tag2]
<1>1. /\ pc = "tag2" /\ Len(tags.ends) = num
      /\ rslt' = Qsort(r, 2 * num)
      /\ pc' = "create"
      /\ UNCHANGED <<tags, num, i, stat, file, full, made, kept>>
  BY DEF FindTag2
<1>2. /\ tags \in Taggings /\ num = Len(tags.starts) /\ num \in Nat \ {0}
      /\ DOMAIN rslt = 0 .. 2 * num - 1
      /\ \A k \in 0 .. num - 1 : rslt[k] \in Nat
  BY <1>1 DEF IInv, CellsOK, Running
<1>3. \A k \in 0 .. 2 * num - 1 : r[k] \in Nat
  <2> SUFFICES ASSUME NEW k \in 0 .. 2 * num - 1 PROVE r[k] \in Nat
    OBVIOUS
  <2>1. CASE k < num
    BY <1>2, <2>1
  <2>2. CASE ~ k < num
    <3>1. k - num + 1 \in 1 .. Len(tags.ends)
      BY <1>1, <1>2, <2>2
    <3>2. tags.ends[k - num + 1] \in Nat /\ tags.len_tag2 \in Nat
      BY <1>2, <3>1, TaggingFacts
    <3>3. r[k] = tags.ends[k - num + 1] + tags.len_tag2
      BY <1>2, <2>2
    <3>. QED  BY <3>2, <3>3
  <2>. QED  BY <2>1, <2>2
<1>4. DOMAIN r = 0 .. 2 * num - 1 /\ 2 * num \in Nat
  BY <1>2
<1> HIDE DEF r
<1>5. /\ DOMAIN rslt' = DOMAIN r
      /\ \A k \in 0 .. 2 * num - 1 : \E c \in 0 .. 2 * num - 1 : rslt'[k] = r[c]
      /\ \A j, k \in 0 .. 2 * num - 1 : j <= k => rslt'[j] <= rslt'[k]
  <2>1. PICK n \in Nat : n = 2 * num
    BY <1>4
  <2>2. /\ rslt' = Qsort(r, n)
        /\ 0 .. n - 1 \subseteq DOMAIN r /\ DOMAIN r \subseteq Nat
        /\ \A k \in 0 .. n - 1 : r[k] \in Nat
    BY <1>1, <1>3, <1>4, <2>1
  <2>3. /\ DOMAIN rslt' = DOMAIN r
        /\ \A k \in 0 .. n - 1 : \E c \in 0 .. n - 1 : rslt'[k] = r[c]
        /\ \A j, k \in 0 .. n - 1 : j <= k => rslt'[j] <= rslt'[k]
    BY <2>2, QsortSorts
  <2>. QED  BY <2>1, <2>3
<1>6. Ascending(rslt', 0, 2 * num' - 1)
  BY <1>1, <1>3, <1>5 DEF Ascending
<1>7. CellsOK'
  BY <1>1, <1>2, <1>4, <1>5 DEF CellsOK, Running
<1>. QED  BY <1>1, <1>6, <1>7 DEF IInv, DoublingOK, FileOK, KeptOK, Running

LEMMA SortStartsStep ==
  ASSUME IInv, SortStarts
  PROVE  IInv'
<1> DEFINE q == Qsort(rslt, num)
<1>1. /\ pc = "sort"
      /\ rslt' = [q EXCEPT ![2 * num - 1] = tags.size]
      /\ i' = 2 * num - 2
      /\ pc' = "double"
      /\ UNCHANGED <<tags, num, stat, file, full, made, kept>>
  BY DEF SortStarts
<1>2. /\ tags \in Taggings /\ num = Len(tags.starts) /\ num \in Nat \ {0}
      /\ DOMAIN rslt = 0 .. 2 * num - 1
      /\ \A k \in 0 .. num - 1 : rslt[k] \in Nat /\ rslt[k] < tags.size
  BY <1>1 DEF IInv, CellsOK, Running
<1>3. tags.size \in Nat
  BY <1>2, TaggingFacts
<1>4. /\ DOMAIN q = DOMAIN rslt
      /\ \A k \in 0 .. num - 1 : \E c \in 0 .. num - 1 : q[k] = rslt[c]
      /\ \A j, k \in 0 .. num - 1 : j <= k => q[j] <= q[k]
  <2>1. /\ num \in Nat /\ 0 .. num - 1 \subseteq DOMAIN rslt
        /\ DOMAIN rslt \subseteq Nat
        /\ \A k \in 0 .. num - 1 : rslt[k] \in Nat
    BY <1>2
  <2>. QED  BY <2>1, QsortSorts
<1> HIDE DEF q
<1>5. \A k \in 0 .. num - 1 : q[k] \in Nat /\ q[k] < tags.size
  BY <1>2, <1>4
<1>6. /\ DOMAIN rslt' = 0 .. 2 * num - 1
      /\ rslt'[2 * num - 1] = tags.size
      /\ \A k \in 0 .. 2 * num - 2 : rslt'[k] = q[k]
  BY <1>1, <1>2, <1>4
<1>7. CASE num = 1
  <2>1. i' = 2 * 0 /\ 0 \in 0 .. num' - 1
    BY <1>1, <1>7
  <2>2. rslt'[0] = q[0] /\ rslt'[1] = tags.size
    BY <1>6, <1>7
  <2>3. Ascending(rslt', 0, 0)
    BY <1>5, <1>7, <2>2 DEF Ascending
  <2>4. Ascending(rslt', 2 * 0 + 1, 2 * num' - 1)
    BY <1>1, <1>3, <1>7, <2>2 DEF Ascending
  <2>5. rslt'[0] <= rslt'[2 * 0 + 1]
    BY <1>3, <1>5, <1>7, <2>2
  <2>6. DoublingOK'
    BY <2>1, <2>3, <2>4, <2>5 DEF DoublingOK
  <2>. QED  BY <1>1, <1>2, <1>6, <2>6 DEF IInv, CellsOK, FileOK, KeptOK, Running
<1>8. CASE num # 1
  <2> DEFINE h == num - 1
  <2>1. i' = 2 * h /\ h \in 0 .. num' - 1 /\ 2 * h + 1 = 2 * num' - 1
    BY <1>1, <1>2
  <2>2. \A k \in 0 .. h : rslt'[k] = q[k]
    BY <1>2, <1>6, <1>8
  <2>3. Ascending(rslt', 0, h)
    BY <1>2, <1>4, <1>5, <2>2 DEF Ascending
  <2>4. Ascending(rslt', 2 * h + 1, 2 * num' - 1)
    <3>1. \A m \in 2 * h + 1 .. 2 * num' - 1 : m = 2 * num - 1
      BY <1>1, <1>2
    <3>2. \A m \in 2 * h + 1 .. 2 * num' - 1 : rslt'[m] = tags.size
      BY <1>6, <3>1
    <3>. QED  BY <1>3, <3>2 DEF Ascending
  <2>5. rslt'[h] <= rslt'[2 * h + 1]
    <3>1. h \in 0 .. num - 1 /\ h \in 0 .. h /\ 2 * h + 1 = 2 * num - 1
      BY <1>2
    <3>2. rslt'[h] = q[h] /\ rslt'[2 * h + 1] = tags.size
      BY <1>6, <2>2, <3>1
    <3>3. q[h] \in Nat /\ q[h] < tags.size
      BY <1>5, <3>1
    <3>. QED  BY <1>3, <3>2, <3>3
  <2> HIDE DEF h
  <2>6. DoublingOK'
    BY <2>1, <2>3, <2>4, <2>5 DEF DoublingOK
  <2>. QED  BY <1>1, <1>2, <1>6, <2>6 DEF IInv, CellsOK, FileOK, KeptOK, Running
<1>. QED  BY <1>7, <1>8

(* The start at h = i \div 2 becomes a start and the end of the document   *)
(* before; i - 1 is not below h, so no start still to be read is lost.     *)
LEMMA DoubleStep ==
  ASSUME IInv, Double
  PROVE  IInv'
<1>1. /\ pc = "double" /\ i > 0
      /\ rslt' = [rslt EXCEPT ![i] = rslt[i \div 2], ![i - 1] = rslt[i \div 2]]
      /\ i' = i - 2
      /\ UNCHANGED <<pc, tags, num, stat, file, full, made, kept>>
  BY DEF Double
<1>2. num \in Nat \ {0} /\ DOMAIN rslt = 0 .. 2 * num - 1
  BY <1>1 DEF IInv, CellsOK, Running
<1>3. PICK h \in 0 .. num - 1 :
        /\ i = 2 * h
        /\ Ascending(rslt, 0, h)
        /\ Ascending(rslt, 2 * h + 1, 2 * num - 1)
        /\ rslt[h] <= rslt[2 * h + 1]
  BY <1>1 DEF IInv, DoublingOK
<1>4. h \in 1 .. num - 1 /\ i \div 2 = h
  BY <1>1, <1>3
<1>5. /\ DOMAIN rslt' = 0 .. 2 * num - 1
      /\ rslt'[2 * h] = rslt[h] /\ rslt'[2 * h - 1] = rslt[h]
      /\ \A k \in (0 .. 2 * num - 1) \ {2 * h - 1, 2 * h} : rslt'[k] = rslt[k]
  BY <1>1, <1>2, <1>3, <1>4
<1>6. Ascending(rslt', 0, h - 1)
  <2>1. \A k \in 0 .. h - 1 : rslt'[k] = rslt[k] /\ k \in 0 .. h
    BY <1>2, <1>4, <1>5
  <2>. QED  BY <1>3, <2>1 DEF Ascending
<1>7. rslt[h] \in Nat
  BY <1>3 DEF Ascending
<1>8. \A k \in 2 * h + 1 .. 2 * num - 1 :
        rslt'[k] = rslt[k] /\ rslt[k] \in Nat /\ rslt[h] <= rslt[k]
  <2>1. 2 * h + 1 \in 2 * h + 1 .. 2 * num - 1
    BY <1>2, <1>3
  <2>2. \A k \in 2 * h + 1 .. 2 * num - 1 :
          rslt[k] \in Nat /\ rslt[2 * h + 1] <= rslt[k]
    BY <1>3, <2>1 DEF Ascending
  <2>3. rslt[2 * h + 1] \in Nat
    BY <2>1, <2>2
  <2>. QED  BY <1>2, <1>3, <1>4, <1>5, <1>7, <2>2, <2>3
<1>9. Ascending(rslt', 2 * (h - 1) + 1, 2 * num - 1)
  <2>1. \A k \in 2 * (h - 1) + 1 .. 2 * num - 1 :
          k = 2 * h - 1 \/ k = 2 * h \/ k \in 2 * h + 1 .. 2 * num - 1
    BY <1>2, <1>4
  <2>2. \A m, n \in 2 * h + 1 .. 2 * num - 1 : m <= n => rslt'[m] <= rslt'[n]
    BY <1>3, <1>8 DEF Ascending
  <2>3. \A m \in 2 * (h - 1) + 1 .. 2 * num - 1 : rslt'[m] \in Nat
    BY <1>5, <1>7, <1>8, <2>1
  <2>4. \A m, n \in 2 * (h - 1) + 1 .. 2 * num - 1 : m <= n => rslt'[m] <= rslt'[n]
    BY <1>4, <1>5, <1>7, <1>8, <2>1, <2>2
  <2>. QED  BY <2>3, <2>4 DEF Ascending
<1>10. rslt'[h - 1] <= rslt'[2 * (h - 1) + 1]
  <2>1. rslt'[h - 1] = rslt[h - 1]
    <3>1. h - 1 \in (0 .. 2 * num - 1) \ {2 * h - 1, 2 * h}
      BY <1>2, <1>4
    <3>. QED  BY <1>5, <3>1
  <2>2. rslt[h - 1] <= rslt[h]
    BY <1>3, <1>4 DEF Ascending
  <2>3. 2 * (h - 1) + 1 = 2 * h - 1
    BY <1>4
  <2>. QED  BY <1>5, <2>1, <2>2, <2>3
<1>11. i' = 2 * (h - 1) /\ h - 1 \in 0 .. num' - 1
  BY <1>1, <1>2, <1>3, <1>4
<1>12. DoublingOK'
  BY <1>1, <1>6, <1>9, <1>10, <1>11 DEF DoublingOK
<1>13. CellsOK'
  BY <1>1, <1>5 DEF IInv, CellsOK, Running
<1>. QED  BY <1>1, <1>12, <1>13 DEF IInv, FileOK, KeptOK, Running

LEMMA DoubleEndStep ==
  ASSUME IInv, DoubleEnd
  PROVE  IInv'
<1>1. /\ pc = "double" /\ i <= 0
      /\ pc' = "create"
      /\ UNCHANGED <<tags, num, rslt, i, stat, file, full, made, kept>>
  BY DEF DoubleEnd
<1>2. num \in Nat \ {0}
  BY <1>1 DEF IInv, CellsOK, Running
<1>3. /\ Ascending(rslt, 0, 0) /\ Ascending(rslt, 1, 2 * num - 1)
      /\ rslt[0] <= rslt[1]
  <2>1. PICK h \in 0 .. num - 1 :
          /\ i = 2 * h
          /\ Ascending(rslt, 0, h)
          /\ Ascending(rslt, 2 * h + 1, 2 * num - 1)
          /\ rslt[h] <= rslt[2 * h + 1]
    BY <1>1 DEF IInv, DoublingOK
  <2>2. h = 0
    BY <1>1, <2>1
  <2>. QED  BY <2>1, <2>2
<1>4. Ascending(rslt, 0, 2 * num - 1)
  <2>1. 1 \in 1 .. 2 * num - 1
    BY <1>2
  <2>2. \A k \in 1 .. 2 * num - 1 : rslt[k] \in Nat /\ rslt[1] <= rslt[k]
    BY <1>3, <2>1 DEF Ascending
  <2>3. rslt[0] \in Nat /\ rslt[1] \in Nat
    BY <1>3, <2>1 DEF Ascending
  <2>4. \A k \in 1 .. 2 * num - 1 : rslt[0] <= rslt[k]
    BY <1>3, <2>2, <2>3
  <2>5. \A k \in 0 .. 2 * num - 1 : k = 0 \/ k \in 1 .. 2 * num - 1
    BY <1>2
  <2>. QED  BY <1>2, <1>3, <2>2, <2>3, <2>4, <2>5 DEF Ascending
<1>. QED  BY <1>1, <1>4 DEF IInv, CellsOK, DoublingOK, FileOK, KeptOK, Running

LEMMA CreateStep ==
  ASSUME IInv, Create
  PROVE  IInv'
<1>1. /\ pc = "create" /\ file' = <<>> /\ kept' = FALSE /\ i' = 0 /\ pc' = "write"
      /\ UNCHANGED <<tags, num, rslt, stat>>
  BY DEF Create
<1>2. num \in Nat \ {0}
  BY <1>1 DEF IInv, CellsOK, Running
<1>3. FileOK'
  BY <1>1, <1>2 DEF IInv, FileOK, AscendingFile
<1>. QED  BY <1>1, <1>3 DEF IInv, CellsOK, DoublingOK, KeptOK, Running

LEMMA WriteWordStep ==
  ASSUME IInv, WriteWord
  PROVE  IInv'
<1>1. /\ pc = "write" /\ i < 2 * num
      /\ file' = file \/ file' = Append(file, rslt[i])
      /\ i' = i + 1
      /\ UNCHANGED <<pc, tags, num, rslt, stat, made, kept>>
  BY DEF WriteWord
<1>2. /\ num \in Nat \ {0} /\ i \in 0 .. 2 * num
      /\ Ascending(rslt, 0, 2 * num - 1)
      /\ AscendingFile(file)
      /\ \A n \in 1 .. Len(file), k \in i .. 2 * num - 1 : file[n] <= rslt[k]
  BY <1>1 DEF IInv, CellsOK, FileOK, Running
<1>3. i' \in 0 .. 2 * num /\ i \in 0 .. 2 * num - 1
  BY <1>1, <1>2
<1>4. rslt[i] \in Nat
  BY <1>2, <1>3 DEF Ascending
<1>5. \A k \in i + 1 .. 2 * num - 1 : k \in i .. 2 * num - 1 /\ rslt[i] <= rslt[k]
  BY <1>2, <1>3 DEF Ascending
<1>6. AscendingFile(file') /\
      \A n \in 1 .. Len(file'), k \in i' .. 2 * num - 1 : file'[n] <= rslt[k]
  <2>1. CASE file' = file
    BY <1>1, <1>2, <1>5, <2>1
  <2>2. CASE file' = Append(file, rslt[i])
    <3>1. /\ file' \in Seq(Nat) /\ Len(file') = Len(file) + 1 /\ Len(file) \in Nat
          /\ \A n \in 1 .. Len(file) : file'[n] = file[n]
          /\ file'[Len(file) + 1] = rslt[i]
      BY <1>2, <1>4, <2>2 DEF AscendingFile
    <3>2. \A n \in 1 .. Len(file') : n \in 1 .. Len(file) \/ n = Len(file) + 1
      BY <3>1
    <3>3. \A n \in 1 .. Len(file) : file[n] <= rslt[i]
      BY <1>2, <1>3
    <3>4. \A m, n \in 1 .. Len(file') : m <= n => file'[m] <= file'[n]
      <4> SUFFICES ASSUME NEW m \in 1 .. Len(file'), NEW n \in 1 .. Len(file'), m <= n
                   PROVE  file'[m] <= file'[n]
        OBVIOUS
      <4>1. CASE n \in 1 .. Len(file)
        <5>1. m \in 1 .. Len(file)
          BY <3>1, <4>1
        <5>. QED  BY <1>2, <3>1, <4>1, <5>1 DEF AscendingFile
      <4>2. CASE n = Len(file) + 1 /\ m \in 1 .. Len(file)
        BY <3>1, <3>3, <4>2
      <4>3. CASE n = Len(file) + 1 /\ m = Len(file) + 1
        BY <1>4, <3>1, <4>3
      <4>. QED  BY <3>2, <4>1, <4>2, <4>3
    <3>5. \A n \in 1 .. Len(file'), k \in i' .. 2 * num - 1 : file'[n] <= rslt[k]
      BY <1>1, <1>2, <1>5, <3>1, <3>2
    <3>. QED  BY <3>1, <3>4, <3>5 DEF AscendingFile
  <2>. QED  BY <1>1, <2>1, <2>2
<1>7. FileOK'
  BY <1>1, <1>2, <1>3, <1>6 DEF FileOK
<1>. QED  BY <1>1, <1>7 DEF IInv, CellsOK, DoublingOK, KeptOK, Running
-----------------------------------------------------------------------------
LEMMA NextInv ==
  ASSUME IInv, [Next]_vars
  PROVE  IInv'
<1>1. CASE \E t \in Taggings : Run(t)
  BY <1>1, RunStep
<1>2. CASE OpenFails \/ Tag1NotFound \/ Tag2Fails \/ CreateFails \/ Close \/ Crash
  BY <1>2, ReturnStep DEF OpenFails, Tag1NotFound, Tag2Fails, CreateFails, Close,
                          Crash, Running
<1>3. CASE FindTag1 \/ FindTag2 \/ SortStarts
  BY <1>3, FindTag1Step, FindTag2Step, SortStartsStep
<1>4. CASE Double \/ DoubleEnd
  BY <1>4, DoubleStep, DoubleEndStep
<1>5. CASE Create \/ WriteWord
  BY <1>5, CreateStep, WriteWordStep
<1>6. CASE UNCHANGED vars
  BY <1>6 DEF vars, IInv, CellsOK, DoublingOK, FileOK, KeptOK
<1>. QED  BY <1>1, <1>2, <1>3, <1>4, <1>5, <1>6 DEF Next, Internal

(* What sa_make_did has in memory and on disk stays in order, from the     *)
(* hits to the last word written.                                          *)
THEOREM InductiveInvariant == Spec => []IInv
<1>1. IInv /\ [Next]_vars => IInv'
  BY NextInv
<1>. QED  BY InitInv, <1>1, PTL DEF Spec

LEMMA WordsInOrder == IInv => FileInOrder
<1> SUFFICES ASSUME IInv PROVE FileInOrder
  OBVIOUS
<1>1. /\ file \in Seq(Nat) /\ Len(file) \in Nat
      /\ \A m, n \in 1 .. Len(file) : m <= n => file[m] <= file[n]
  BY DEF IInv, FileOK, AscendingFile
<1>2. \A k \in Did!Documents(file) :
        k \in Nat /\ 2 * k + 1 \in 1 .. Len(file) /\ 2 * k + 2 \in 1 .. Len(file)
  BY <1>1 DEF Did!Documents, Did!DidSize
<1>3. \A k \in Did!Documents(file) : file[2 * k + 1] <= file[2 * k + 2]
  BY <1>1, <1>2
<1>4. \A j, k \in Did!Documents(file) : j < k => file[2 * j + 2] <= file[2 * k + 1]
  <2> SUFFICES ASSUME NEW j \in Did!Documents(file), NEW k \in Did!Documents(file), j < k
               PROVE  file[2 * j + 2] <= file[2 * k + 1]
    OBVIOUS
  <2>1. 2 * j + 2 \in 1 .. Len(file) /\ 2 * k + 1 \in 1 .. Len(file)
    BY <1>2
  <2>2. 2 * j + 2 <= 2 * k + 1
    BY <1>2
  <2>. QED  BY <1>1, <2>1, <2>2
<1>. QED  BY <1>1, <1>3, <1>4 DEF FileInOrder, Did!DidOK, Did!RegionFrom, Did!RegionTo

(* The document file meets the assumption of DidSearch whatever the tags   *)
(* hit, however far the writing came, on a full disk and after a crash.    *)
THEOREM FileAlwaysInOrder == Spec => []FileInOrder
BY InductiveInvariant, WordsInOrder, PTL

(* A run that fails has not touched the file of an earlier one.            *)
THEOREM FailAlwaysLeavesFile == Spec => FailLeavesFile
<1>1. IInv /\ IInv' /\ [Next]_vars =>
        [/\ stat' = "FAIL" => kept'
         /\ file' # file => ~ kept']_vars
  <2> SUFFICES ASSUME IInv, IInv', [Next]_vars
               PROVE  /\ stat' = "FAIL" => kept'
                      /\ file' # file => ~ kept'
    OBVIOUS
  <2>1. stat' = "FAIL" => kept'
    BY DEF IInv, KeptOK
  <2>2. file' # file => Create \/ WriteWord
    BY DEF Next, Internal, vars, Run, OpenFails, FindTag1, Tag1NotFound, Tag2Fails,
           FindTag2, SortStarts, Double, DoubleEnd, CreateFails, Close, Crash
  <2>3. Create \/ WriteWord => ~ kept'
    BY DEF Create, WriteWord, IInv, KeptOK
  <2>. QED  BY <2>1, <2>2, <2>3
<1>. QED  BY InductiveInvariant, <1>1, PTL DEF Spec, FailLeavesFile
-----------------------------------------------------------------------------
(* Which documents the file holds.  What qsort leaves is determined: the   *)
(* cells of another sequence in order, if it has them all, are the same.   *)
LEMMA LeastPosition ==
  ASSUME NEW T, T \subseteq Nat, T # {}
  PROVE  \E x \in T : \A y \in T : x <= y
<1>1. PICK x \in T : \A y \in T : ~ (<<y, x>> \in OpToRel(<, Nat))
  BY NatLessThanWellFounded, WFMin
<1>2. \A y \in T : ~ (y < x)
  BY <1>1 DEF OpToRel
<1>. QED  BY <1>2

LEMMA MinIsLeast ==
  ASSUME NEW T, T \subseteq Nat, T # {}
  PROVE  Min(T) \in T /\ \A y \in T : Min(T) <= y
BY LeastPosition DEF Min

(* The first n cells of q are those of r in some order.                    *)
Permuted(q, r, n) ==
  \E f \in Bijection(0 .. n - 1, 0 .. n - 1) : \A k \in 0 .. n - 1 : q[k] = r[f[k]]

LEMMA QsortPermutes ==
  ASSUME NEW n \in Nat, NEW r, 0 .. n - 1 \subseteq DOMAIN r, DOMAIN r \subseteq Nat,
         \A k \in 0 .. n - 1 : r[k] \in Nat
  PROVE  Permuted(Qsort(r, n), r, n)
<1> DEFINE Rank(c) == Cardinality(Before(r, n, c))
           f == [k \in 0 .. n - 1 |-> CHOOSE c \in 0 .. n - 1 : Rank(c) = k]
<1>1. \A k \in 0 .. n - 1 : f[k] \in 0 .. n - 1 /\ Rank(f[k]) = k
  BY EveryRank
<1>2. \A k \in 0 .. n - 1 : Qsort(r, n)[k] = r[f[k]]
  BY DEF Qsort
<1>3. f \in [0 .. n - 1 -> 0 .. n - 1]
  BY <1>1
<1> HIDE DEF Rank, f
<1>4. f \in Injection(0 .. n - 1, 0 .. n - 1)
  BY <1>1, <1>3 DEF Injection, IsInjective
<1>5. f \in Surjection(0 .. n - 1, 0 .. n - 1)
  BY <1>4, FS_Interval, FS_Injection
<1>6. f \in Bijection(0 .. n - 1, 0 .. n - 1)
  BY <1>4, <1>5 DEF Bijection
<1>. QED  BY <1>2, <1>6 DEF Permuted

Below(p, n, x) == {k \in 0 .. n - 1 : p[k] < x}

(* The cells below x are as many before as after a permutation.            *)
LEMMA SameBelow ==
  ASSUME NEW n \in Nat, NEW r, NEW p, NEW x,
         NEW f \in Bijection(0 .. n - 1, 0 .. n - 1),
         \A k \in 0 .. n - 1 : p[k] = r[f[k]]
  PROVE  Cardinality(Below(p, n, x)) = Cardinality(Below(r, n, x))
<1> DEFINE P == Below(p, n, x)
           R == Below(r, n, x)
           g == [k \in P |-> f[k]]
<1>1. /\ f \in [0 .. n - 1 -> 0 .. n - 1]
      /\ \A j, k \in 0 .. n - 1 : f[j] = f[k] => j = k
      /\ \A c \in 0 .. n - 1 : \E k \in 0 .. n - 1 : f[k] = c
  BY DEF Bijection, Injection, Surjection, IsInjective
<1>2. g \in [P -> R]
  BY <1>1 DEF Below
<1>3. \A j, k \in P : g[j] = g[k] => j = k
  BY <1>1 DEF Below
<1>4. ASSUME NEW c \in R PROVE \E k \in P : g[k] = c
  <2>1. c \in 0 .. n - 1 /\ r[c] < x
    BY DEF Below
  <2>2. PICK k \in 0 .. n - 1 : f[k] = c
    BY <1>1, <2>1
  <2>3. p[k] = r[c]
    BY <2>2
  <2>4. k \in P
    BY <2>1, <2>3 DEF Below
  <2>5. g[k] = c
    BY <2>2, <2>4
  <2>. QED  BY <2>4, <2>5
<1> HIDE DEF g
<1>5. g \in Bijection(P, R)
  BY <1>2, <1>3, <1>4 DEF Bijection, Injection, Surjection, IsInjective
<1>6. IsFiniteSet(P)
  <2>1. P \subseteq 0 .. n - 1
    BY DEF Below
  <2>2. IsFiniteSet(0 .. n - 1)
    BY FS_Interval
  <2> HIDE DEF P
  <2>. QED  BY <2>1, <2>2, FS_Subset
<1>7. Cardinality(P) = Cardinality(R)
  BY <1>5, <1>6, FS_Bijection DEF ExistsBijection
<1>. QED  BY <1>7

LEMMA NotBelow ==
  ASSUME NEW n \in Nat, NEW p, NEW q, NEW k \in 0 .. n - 1,
         \A j \in 0 .. n - 1 : p[j] \in Nat /\ q[j] \in Nat,
         \A y, j \in 0 .. n - 1 : y <= j => p[y] <= p[j] /\ q[y] <= q[j],
         Cardinality(Below(p, n, q[k])) = Cardinality(Below(q, n, q[k]))
  PROVE  ~ p[k] < q[k]
<1> SUFFICES ASSUME p[k] < q[k] PROVE FALSE
  OBVIOUS
<1> DEFINE P == Below(p, n, q[k])
           Q == Below(q, n, q[k])
<1>1. ASSUME NEW j \in Q
      PROVE  j < k
  <2>1. j \in 0 .. n - 1 /\ q[j] < q[k]
    BY DEF Below
  <2>2. k <= j => q[k] <= q[j]
    BY <2>1
  <2>. QED  BY <2>1, <2>2
<1>2. Q \union {k} \subseteq P
  <2> SUFFICES ASSUME NEW j \in Q PROVE j \in P
    BY DEF Below
  <2>1. j \in 0 .. n - 1 /\ j < k
    BY <1>1 DEF Below
  <2>2. p[j] <= p[k] /\ p[j] \in Nat /\ p[k] \in Nat /\ q[k] \in Nat
    BY <2>1
  <2>. QED  BY <2>1, <2>2 DEF Below
<1>3. k \notin Q /\ Q \subseteq 0 .. n - 1 /\ P \subseteq 0 .. n - 1
  BY DEF Below
<1>4. Cardinality(P) = Cardinality(Q)
  OBVIOUS
<1> HIDE DEF P, Q
<1>5. IsFiniteSet(0 .. n - 1)
  BY FS_Interval
<1>6. IsFiniteSet(P) /\ IsFiniteSet(Q)
  BY <1>3, <1>5, FS_Subset
<1>7. IsFiniteSet(Q \union {k}) /\ Cardinality(Q \union {k}) = Cardinality(Q) + 1
  BY <1>3, <1>6, FS_AddElement
<1>8. Cardinality(Q) + 1 <= Cardinality(P)
  BY <1>2, <1>6, <1>7, FS_Subset
<1>9. Cardinality(P) \in Nat
  BY <1>6, FS_CardinalityType
<1>. QED  BY <1>4, <1>8, <1>9

LEMMA SortedAlike ==
  ASSUME NEW n \in Nat, NEW r, NEW p, NEW q, Permuted(p, r, n), Permuted(q, r, n),
         Ascending(p, 0, n - 1), Ascending(q, 0, n - 1)
  PROVE  \A k \in 0 .. n - 1 : p[k] = q[k]
<1>1. /\ \A k \in 0 .. n - 1 : p[k] \in Nat /\ q[k] \in Nat
      /\ \A j, k \in 0 .. n - 1 : j <= k => p[j] <= p[k] /\ q[j] <= q[k]
  BY DEF Ascending
<1>2. PICK f \in Bijection(0 .. n - 1, 0 .. n - 1) : \A k \in 0 .. n - 1 : p[k] = r[f[k]]
  BY DEF Permuted
<1>3. PICK g \in Bijection(0 .. n - 1, 0 .. n - 1) : \A k \in 0 .. n - 1 : q[k] = r[g[k]]
  BY DEF Permuted
<1>4. ASSUME NEW x
      PROVE  Cardinality(Below(p, n, x)) = Cardinality(Below(q, n, x))
  <2>1. Cardinality(Below(p, n, x)) = Cardinality(Below(r, n, x))
    BY <1>2, SameBelow
  <2>2. Cardinality(Below(q, n, x)) = Cardinality(Below(r, n, x))
    BY <1>3, SameBelow
  <2>. QED  BY <2>1, <2>2
<1>5. \A k \in 0 .. n - 1 : ~ p[k] < q[k]
  BY <1>1, <1>4, NotBelow
<1>6. \A k \in 0 .. n - 1 : ~ q[k] < p[k]
  BY <1>1, <1>4, NotBelow
<1>. QED  BY <1>1, <1>5, <1>6
-----------------------------------------------------------------------------
(* The starts of the tagging t in the order of the text.                   *)
StartsInOrder(t, s) ==
  /\ s \in [0 .. Len(t.starts) - 1 -> Nat]
  /\ \A j, k \in DOMAIN s : j < k => s[j] < s[k]
  /\ Starts(t) = {s[k] : k \in DOMAIN s}

EndOf(t, x) == Min(NextEnds(t, x))

LEMMA StartsSorted ==
  ASSUME NEW t \in Taggings, NEW r, NEW n \in Nat, n = Len(t.starts),
         0 .. n - 1 \subseteq DOMAIN r, DOMAIN r \subseteq Nat,
         \A k \in 0 .. n - 1 : r[k] = t.starts[k + 1]
  PROVE  StartsInOrder(t, [k \in 0 .. n - 1 |-> Qsort(r, n)[k]])
<1> DEFINE q == Qsort(r, n)
           s == [k \in 0 .. n - 1 |-> q[k]]
<1>1. /\ t.starts \in Seq(Nat) /\ IsInjective(t.starts)
  BY TaggingsAssumption DEF TaggingOK
<1>2. \A j, k \in 1 .. n : t.starts[j] = t.starts[k] => j = k
  BY <1>1 DEF IsInjective
<1>3. \A k \in 0 .. n - 1 : r[k] \in Nat /\ k + 1 \in 1 .. n
  BY <1>1
<1>4. \A j, k \in 0 .. n - 1 : r[j] = r[k] => j = k
  <2> SUFFICES ASSUME NEW j \in 0 .. n - 1, NEW k \in 0 .. n - 1, r[j] = r[k]
               PROVE  j = k
    OBVIOUS
  <2>1. t.starts[j + 1] = t.starts[k + 1] /\ j + 1 \in 1 .. n /\ k + 1 \in 1 .. n
    BY <1>3
  <2>2. j + 1 = k + 1
    BY <1>2, <2>1
  <2>. QED  BY <2>2
<1>5. PICK f \in Bijection(0 .. n - 1, 0 .. n - 1) : \A k \in 0 .. n - 1 : q[k] = r[f[k]]
  <2>1. \A k \in 0 .. n - 1 : r[k] \in Nat
    BY <1>3
  <2>2. Permuted(q, r, n)
    BY <2>1, QsortPermutes
  <2>. QED  BY <2>2 DEF Permuted
<1>6. /\ f \in [0 .. n - 1 -> 0 .. n - 1]
      /\ \A j, k \in 0 .. n - 1 : f[j] = f[k] => j = k
      /\ \A c \in 0 .. n - 1 : \E k \in 0 .. n - 1 : f[k] = c
  BY <1>5 DEF Bijection, Injection, Surjection, IsInjective
<1>7. \A j, k \in 0 .. n - 1 : j <= k => q[j] <= q[k]
  BY <1>3, QsortSorts
<1> HIDE DEF q
<1>8. \A k \in 0 .. n - 1 : q[k] \in Nat
  <2>1. \A k \in 0 .. n - 1 : r[k] \in Nat
    BY <1>3
  <2>2. \A k \in 0 .. n - 1 : f[k] \in 0 .. n - 1
    BY <1>6
  <2>. QED  BY <1>5, <2>1, <2>2
<1>9. \A j, k \in 0 .. n - 1 : j < k => q[j] < q[k]
  <2> SUFFICES ASSUME NEW j \in 0 .. n - 1, NEW k \in 0 .. n - 1, j < k
               PROVE  q[j] < q[k]
    OBVIOUS
  <2>1. q[j] # q[k]
    <3>1. f[j] # f[k] /\ f[j] \in 0 .. n - 1 /\ f[k] \in 0 .. n - 1
      <4>1. j # k
        OBVIOUS
      <4>2. f[j] # f[k]
        BY <1>6, <4>1
      <4>. QED  BY <1>6, <4>2
    <3>2. r[f[j]] # r[f[k]]
      BY <1>4, <3>1
    <3>3. q[j] = r[f[j]] /\ q[k] = r[f[k]]
      BY <1>5
    <3>. QED  BY <3>2, <3>3
  <2>2. q[j] <= q[k]
    BY <1>7
  <2>. QED  BY <1>8, <2>1, <2>2
<1>10. Starts(t) = {q[k] : k \in 0 .. n - 1}
  <2>1. Starts(t) = {t.starts[k] : k \in 1 .. n}
    BY <1>1 DEF Starts, ToSet
  <2>2. ASSUME NEW k \in 1 .. n
        PROVE  \E m \in 0 .. n - 1 : q[m] = t.starts[k]
    <3>1. PICK m \in 0 .. n - 1 : f[m] = k - 1
      BY <1>6
    <3>2. q[m] = r[k - 1] /\ k - 1 \in 0 .. n - 1
      BY <1>5, <3>1
    <3>3. r[k - 1] = t.starts[k]
      BY <3>2
    <3>. QED  BY <3>2, <3>3
  <2>3. ASSUME NEW m \in 0 .. n - 1
        PROVE  \E k \in 1 .. n : q[m] = t.starts[k]
    <3>1. f[m] \in 0 .. n - 1 /\ q[m] = r[f[m]]
      BY <1>5, <1>6
    <3>2. f[m] + 1 \in 1 .. n /\ q[m] = t.starts[f[m] + 1]
      BY <3>1
    <3>. QED  BY <3>2
  <2>4. Starts(t) \subseteq {q[k] : k \in 0 .. n - 1}
    <3> SUFFICES ASSUME NEW k \in 1 .. n
                 PROVE  t.starts[k] \in {q[m] : m \in 0 .. n - 1}
      BY <2>1
    <3>1. PICK m \in 0 .. n - 1 : q[m] = t.starts[k]
      BY <2>2
    <3>. QED  BY <3>1
  <2>5. {q[k] : k \in 0 .. n - 1} \subseteq Starts(t)
    BY <2>1, <2>3
  <2>. QED  BY <2>4, <2>5
<1>11. s \in [0 .. n - 1 -> Nat] /\ \A k \in 0 .. n - 1 : s[k] = q[k]
  BY <1>8
<1>12. Starts(t) = {s[k] : k \in 0 .. n - 1}
  BY <1>10, <1>11
<1>13. StartsInOrder(t, s)
  <2> HIDE DEF s
  <2>. QED  BY <1>9, <1>11, <1>12 DEF StartsInOrder
<1>. QED  BY <1>13 DEF q

(* Without an end tag a document ends where the next one starts, the last  *)
(* with the text.                                                          *)
LEMMA EndWithoutTag ==
  ASSUME NEW t \in Taggings, ~ t.tag2, NEW s, StartsInOrder(t, s),
         NEW n \in Nat, n = Len(t.starts), NEW k \in 0 .. n - 1
  PROVE  EndOf(t, s[k]) = IF k + 1 < n THEN s[k + 1] ELSE t.size
<1>1. /\ \A j \in 0 .. n - 1 : s[j] \in Nat
      /\ \A j, m \in 0 .. n - 1 : j < m => s[j] < s[m]
      /\ Starts(t) = {s[j] : j \in 0 .. n - 1}
  BY DEF StartsInOrder
<1>2. t.size \in Nat /\ \A x \in Starts(t) : x < t.size
  <2>1. t.starts \in Seq(Nat) /\ t.size \in Nat /\ \A j \in 1 .. n : t.starts[j] < t.size
    BY TaggingsAssumption DEF TaggingOK
  <2>2. Starts(t) = {t.starts[j] : j \in 1 .. n}
    BY <2>1 DEF Starts, ToSet
  <2>. QED  BY <2>1, <2>2
<1> DEFINE e == IF k + 1 < n THEN s[k + 1] ELSE t.size
           E == NextEnds(t, s[k])
<1>3. E = {x \in Starts(t) \union {t.size} : s[k] < x}
  BY DEF NextEnds, Ends
<1>4. E \subseteq Nat
  BY <1>1, <1>2, <1>3
<1>5. e \in E
  <2>1. CASE k + 1 < n
    <3>1. k + 1 \in 0 .. n - 1 /\ s[k] < s[k + 1] /\ s[k + 1] \in Starts(t)
      BY <1>1, <2>1
    <3>. QED  BY <1>3, <2>1, <3>1
  <2>2. CASE ~ k + 1 < n
    BY <1>1, <1>2, <1>3, <2>2
  <2>. QED  BY <2>1, <2>2
<1>6. ASSUME NEW x \in E PROVE e <= x
  <2>1. CASE x = t.size
    <3>1. CASE k + 1 < n
      <4>1. k + 1 \in 0 .. n - 1 /\ s[k + 1] \in Starts(t)
        BY <1>1, <3>1
      <4>2. e = s[k + 1] /\ s[k + 1] < t.size /\ s[k + 1] \in Nat
        BY <1>1, <1>2, <3>1, <4>1
      <4>. QED  BY <1>2, <2>1, <4>2
    <3>2. CASE ~ k + 1 < n
      BY <1>2, <2>1, <3>2
    <3>. QED  BY <3>1, <3>2
  <2>2. CASE x # t.size
    <3>1. PICK j \in 0 .. n - 1 : x = s[j]
      BY <1>1, <1>3, <2>2
    <3>2. s[k] < s[j] /\ s[k] \in Nat /\ s[j] \in Nat
      BY <1>1, <1>3, <3>1
    <3>3. ~ j < k /\ j # k
      BY <1>1, <3>2
    <3>4. k + 1 < n /\ k + 1 \in 0 .. n - 1 /\ (j = k + 1 \/ k + 1 < j)
      BY <3>3
    <3>5. s[k + 1] = s[j] \/ s[k + 1] < s[j]
      BY <1>1, <3>4
    <3>6. s[k + 1] \in Nat
      BY <1>1, <3>4
    <3>. QED  BY <3>1, <3>2, <3>4, <3>5, <3>6
  <2>. QED  BY <2>1, <2>2
<1> HIDE DEF e, E
<1>7. Min(E) \in E /\ \A x \in E : Min(E) <= x
  BY <1>4, <1>5, MinIsLeast
<1>8. Min(E) = e
  <2>1. Min(E) <= e /\ e <= Min(E) /\ e \in Nat /\ Min(E) \in Nat
    BY <1>4, <1>5, <1>6, <1>7
  <2>. QED  BY <2>1
<1>. QED  BY <1>8 DEF EndOf, e, E
(* Documents end behind their starts and before the starts that follow.    *)
LEMMA EndsFollow ==
  ASSUME NEW t \in Taggings, WellTagged(t), NEW s, StartsInOrder(t, s),
         NEW n \in Nat, n = Len(t.starts)
  PROVE  /\ \A k \in 0 .. n - 1 : /\ s[k] \in Nat /\ EndOf(t, s[k]) \in Nat
                                  /\ EndOf(t, s[k]) \in Ends(t)
                                  /\ s[k] < EndOf(t, s[k])
         /\ \A j, k \in 0 .. n - 1 : j < k => EndOf(t, s[j]) <= s[k]
<1>1. /\ \A j \in 0 .. n - 1 : s[j] \in Nat /\ s[j] \in Starts(t)
      /\ \A j, k \in 0 .. n - 1 : j < k => s[j] < s[k]
  BY DEF StartsInOrder
<1>2. Ends(t) \subseteq Nat
  <2>1. /\ t.starts \in Seq(Nat) /\ t.ends \in Seq(Nat) /\ t.size \in Nat
        /\ t.len_tag2 \in Nat
    BY TaggingsAssumption DEF TaggingOK
  <2>2. ToSet(t.starts) \subseteq Nat /\ ToSet(t.ends) \subseteq Nat
    BY <2>1 DEF ToSet
  <2>. QED  BY <2>1, <2>2 DEF Ends, Starts
<1>3. ASSUME NEW k \in 0 .. n - 1
      PROVE  /\ EndOf(t, s[k]) \in Nat
             /\ EndOf(t, s[k]) \in Ends(t)
             /\ s[k] < EndOf(t, s[k])
  <2> DEFINE E == NextEnds(t, s[k])
  <2>1. E # {}
    BY <1>1 DEF WellTagged
  <2>2. E \subseteq Nat
    BY <1>2 DEF NextEnds
  <2> HIDE DEF E
  <2>3. Min(E) \in E
    BY <2>1, <2>2, MinIsLeast
  <2>4. EndOf(t, s[k]) \in NextEnds(t, s[k])
    BY <2>3 DEF EndOf, E
  <2>. QED  BY <1>2, <2>4 DEF NextEnds
<1>4. ASSUME NEW j \in 0 .. n - 1, NEW k \in 0 .. n - 1, j < k
      PROVE  EndOf(t, s[j]) <= s[k]
  <2>1. s[j] < s[k] /\ s[j] \in Starts(t) /\ s[k] \in Starts(t)
    BY <1>1, <1>4
  <2>. QED  BY <2>1 DEF WellTagged, EndOf
<1>. QED  BY <1>1, <1>3, <1>4

(* The starts and ends of documents taken in turns are in order.           *)
InTurns(p, n, s, e) ==
  \A k \in 0 .. n - 1 : p[2 * k] = s[k] /\ p[2 * k + 1] = e[k]

LEMMA TurnsAscend ==
  ASSUME NEW n \in Nat, NEW p, NEW s, NEW e, InTurns(p, n, s, e),
         \A k \in 0 .. n - 1 : s[k] \in Nat /\ e[k] \in Nat /\ s[k] < e[k],
         \A j, k \in 0 .. n - 1 : j < k => e[j] <= s[k]
  PROVE  /\ \A y \in 0 .. 2 * n - 1 : p[y] \in Nat
         /\ \A y, j \in 0 .. 2 * n - 1 : y <= j => p[y] <= p[j]
<1>1. \A y \in 0 .. 2 * n - 1 : \E k \in 0 .. n - 1 : y = 2 * k \/ y = 2 * k + 1
  <2> SUFFICES ASSUME NEW y \in 0 .. 2 * n - 1
               PROVE  \E k \in 0 .. n - 1 : y = 2 * k \/ y = 2 * k + 1
    OBVIOUS
  <2>1. y \div 2 \in 0 .. n - 1 /\ (y = 2 * (y \div 2) \/ y = 2 * (y \div 2) + 1)
    OBVIOUS
  <2>. QED  BY <2>1
<1>2. \A k \in 0 .. n - 1 : p[2 * k] = s[k] /\ p[2 * k + 1] = e[k]
  BY DEF InTurns
<1>3. ASSUME NEW y \in 0 .. 2 * n - 1 PROVE p[y] \in Nat
  BY <1>1, <1>2
<1>4. ASSUME NEW y \in 0 .. 2 * n - 1, NEW j \in 0 .. 2 * n - 1, y <= j
      PROVE  p[y] <= p[j]
  <2>1. PICK k \in 0 .. n - 1 : y = 2 * k \/ y = 2 * k + 1
    BY <1>1
  <2>2. PICK m \in 0 .. n - 1 : j = 2 * m \/ j = 2 * m + 1
    BY <1>1
  <2>3. k <= m /\ (k = m => (y = j \/ (y = 2 * k /\ j = 2 * m + 1)))
    BY <1>4, <2>1, <2>2
  <2>4. p[y] \in {s[k], e[k]} /\ p[j] \in {s[m], e[m]}
    BY <1>2, <2>1, <2>2
  <2>5. CASE k < m
    <3>1. s[k] < e[k] /\ e[k] <= s[m] /\ s[m] < e[m]
      BY <2>5
    <3>2. s[k] \in Nat /\ e[k] \in Nat /\ s[m] \in Nat /\ e[m] \in Nat
      OBVIOUS
    <3>. QED  BY <2>4, <3>1, <3>2
  <2>6. CASE k = m /\ y = j
    BY <1>3, <2>6
  <2>7. CASE k = m /\ y = 2 * k /\ j = 2 * m + 1
    <3>1. p[y] = s[k] /\ p[j] = e[k]
      BY <1>2, <2>7
    <3>. QED  BY <3>1
  <2>. QED  BY <2>3, <2>5, <2>6, <2>7
<1>. QED  BY <1>3, <1>4

(* A cell for each: the s[k] among the first n cells of r, the e[k] among  *)
(* the others.                                                             *)
LEMMA TurnsPermuted ==
  ASSUME NEW n \in Nat, NEW N \in Nat, N = 2 * n, NEW p, NEW r, NEW s, NEW e,
         InTurns(p, n, s, e),
         \A j, k \in 0 .. n - 1 : j # k => s[j] # s[k] /\ e[j] # e[k],
         \A k \in 0 .. n - 1 : \E c \in 0 .. n - 1 : r[c] = s[k],
         \A k \in 0 .. n - 1 : \E c \in n .. N - 1 : r[c] = e[k]
  PROVE  Permuted(p, r, N)
<1> DEFINE Half(y) == IF y = 2 * (y \div 2) THEN 0 .. n - 1 ELSE n .. N - 1
           g == [y \in 0 .. N - 1 |-> CHOOSE c \in Half(y) : r[c] = p[y]]
<1>1. \A k \in 0 .. n - 1 : p[2 * k] = s[k] /\ p[2 * k + 1] = e[k]
  BY DEF InTurns
<1>2. ASSUME NEW y \in 0 .. N - 1
      PROVE  \E k \in 0 .. n - 1 :
               \/ y = 2 * k /\ p[y] = s[k] /\ Half(y) = 0 .. n - 1
               \/ y = 2 * k + 1 /\ p[y] = e[k] /\ Half(y) = n .. N - 1
  <2>1. PICK k \in Int : k = y \div 2
    OBVIOUS
  <2> y \in Nat /\ y < 2 * n
    OBVIOUS
  <2>2. k \in 0 .. n - 1 /\ (y = 2 * k \/ y = 2 * k + 1)
    <3> HIDE DEF Half, g
    <3>. QED  BY <2>1
  <2>3. CASE y = 2 * k
    BY <1>1, <2>1, <2>2, <2>3
  <2>4. CASE y = 2 * k + 1
    <3>1. y # 2 * k
      BY <2>2, <2>4
    <3>2. Half(y) = n .. N - 1
      BY <2>1, <3>1
    <3>. QED  BY <1>1, <2>2, <2>4, <3>2
  <2> HIDE DEF Half
  <2>. QED  BY <2>2, <2>3, <2>4
<1> HIDE DEF Half
<1>3. ASSUME NEW y \in 0 .. N - 1
      PROVE  g[y] \in Half(y) /\ r[g[y]] = p[y] /\ Half(y) \subseteq 0 .. N - 1
  <2>1. PICK k \in 0 .. n - 1 :
          \/ y = 2 * k /\ p[y] = s[k] /\ Half(y) = 0 .. n - 1
          \/ y = 2 * k + 1 /\ p[y] = e[k] /\ Half(y) = n .. N - 1
    BY <1>2
  <2>2. Half(y) \subseteq 0 .. N - 1
    <3>1. Half(y) = 0 .. n - 1 \/ Half(y) = n .. N - 1
      BY <2>1
    <3>2. 0 .. n - 1 \subseteq 0 .. N - 1 /\ n .. N - 1 \subseteq 0 .. N - 1
      OBVIOUS
    <3>. QED  BY <3>1, <3>2
  <2>3. \E c \in Half(y) : r[c] = p[y]
    BY <2>1
  <2>. QED  BY <2>2, <2>3
<1>4. g \in [0 .. N - 1 -> 0 .. N - 1]
  BY <1>3
<1> HIDE DEF g
<1>5. ASSUME NEW y \in 0 .. N - 1, NEW j \in 0 .. N - 1, g[y] = g[j]
      PROVE  y = j
  <2>1. PICK k \in 0 .. n - 1 :
          \/ y = 2 * k /\ p[y] = s[k] /\ Half(y) = 0 .. n - 1
          \/ y = 2 * k + 1 /\ p[y] = e[k] /\ Half(y) = n .. N - 1
    BY <1>2
  <2>2. PICK m \in 0 .. n - 1 :
          \/ j = 2 * m /\ p[j] = s[m] /\ Half(j) = 0 .. n - 1
          \/ j = 2 * m + 1 /\ p[j] = e[m] /\ Half(j) = n .. N - 1
    BY <1>2
  <2>3. p[y] = p[j] /\ g[y] \in Half(y) /\ g[y] \in Half(j)
    BY <1>3, <1>5
  <2>4. CASE y = 2 * k /\ j = 2 * m
    <3>1. s[k] = s[m]
      BY <2>1, <2>2, <2>3, <2>4
    <3>2. k = m
      BY <3>1
    <3>. QED  BY <2>4, <3>2
  <2>5. CASE y = 2 * k + 1 /\ j = 2 * m + 1
    <3>1. e[k] = e[m]
      BY <2>1, <2>2, <2>3, <2>5
    <3>2. k = m
      BY <3>1
    <3>. QED  BY <2>5, <3>2
  <2>6. CASE Half(y) = 0 .. n - 1 /\ Half(j) = n .. N - 1
    BY <2>3, <2>6
  <2>7. CASE Half(j) = 0 .. n - 1 /\ Half(y) = n .. N - 1
    BY <2>3, <2>7
  <2>. QED  BY <2>1, <2>2, <2>4, <2>5, <2>6, <2>7
<1>6. g \in Injection(0 .. N - 1, 0 .. N - 1)
  BY <1>4, <1>5 DEF Injection, IsInjective
<1>7. g \in Surjection(0 .. N - 1, 0 .. N - 1)
  BY <1>6, FS_Interval, FS_Injection
<1>8. g \in Bijection(0 .. N - 1, 0 .. N - 1)
  BY <1>6, <1>7 DEF Bijection
<1>. QED  BY <1>3, <1>8 DEF Permuted
Cells(r, n) ==
  /\ 0 .. n - 1 \subseteq DOMAIN r /\ DOMAIN r \subseteq Nat
  /\ \A k \in 0 .. n - 1 : r[k] \in Nat

LEMMA QsortIs ==
  ASSUME NEW n \in Nat, NEW r, Cells(r, n), NEW p, Permuted(p, r, n),
         Ascending(p, 0, n - 1)
  PROVE  \A y \in 0 .. n - 1 : Qsort(r, n)[y] = p[y]
<1> DEFINE q == Qsort(r, n)
<1>1. /\ 0 .. n - 1 \subseteq DOMAIN r /\ DOMAIN r \subseteq Nat
      /\ \A k \in 0 .. n - 1 : r[k] \in Nat
  BY DEF Cells
<1>2. Permuted(q, r, n)
  BY <1>1, QsortPermutes
<1>3. \A j, k \in 0 .. n - 1 : j <= k => q[j] <= q[k]
  BY <1>1, QsortSorts
<1> HIDE DEF q
<1>4. Ascending(q, 0, n - 1)
  <2>1. PICK g \in Bijection(0 .. n - 1, 0 .. n - 1) : \A y \in 0 .. n - 1 : q[y] = r[g[y]]
    BY <1>2 DEF Permuted
  <2>2. g \in [0 .. n - 1 -> 0 .. n - 1]
    BY DEF Bijection, Injection
  <2>3. \A y \in 0 .. n - 1 : q[y] \in Nat
    BY <1>1, <2>1, <2>2
  <2>. QED  BY <1>3, <2>3 DEF Ascending
<1>5. \A y \in 0 .. n - 1 : p[y] = q[y]
  BY <1>2, <1>4, SortedAlike
<1>. QED  BY <1>5 DEF q

(* The cells of r are the documents of t, in order.                        *)
DocumentCells(r, t) ==
  \E s : /\ StartsInOrder(t, s)
         /\ \A k \in 0 .. Len(t.starts) - 1 :
              r[2 * k] = s[k] /\ r[2 * k + 1] = EndOf(t, s[k])

LEMMA DocumentsSorted ==
  ASSUME NEW t \in Taggings, t.tag2, WellTagged(t), NEW n \in Nat, n = Len(t.starts),
         NEW N \in Nat, N = 2 * n, NEW s, StartsInOrder(t, s),
         NEW r, DOMAIN r = 0 .. N - 1,
         \A k \in 0 .. n - 1 : r[k] = t.starts[k + 1],
         \A k \in n .. N - 1 : r[k] = t.ends[k - n + 1] + t.len_tag2
  PROVE  DocumentCells(Qsort(r, N), t)
<1> DEFINE e == [k \in 0 .. n - 1 |-> EndOf(t, s[k])]
           p == [y \in 0 .. N - 1 |-> IF y = 2 * (y \div 2) THEN s[y \div 2] ELSE e[y \div 2]]
           q == Qsort(r, N)
<1>1. /\ \A k \in 0 .. n - 1 : /\ s[k] \in Nat /\ e[k] \in Nat /\ e[k] \in Ends(t)
                               /\ s[k] < e[k]
      /\ \A j, k \in 0 .. n - 1 : j < k => e[j] <= s[k]
  <2>1. \A k \in 0 .. n - 1 : e[k] = EndOf(t, s[k])
    OBVIOUS
  <2> HIDE DEF e
  <2>. QED  BY <2>1, EndsFollow
<1>2. InTurns(p, n, s, e)
  <2> HIDE DEF e, p
  <2> SUFFICES ASSUME NEW k \in 0 .. n - 1
               PROVE  p[2 * k] = s[k] /\ p[2 * k + 1] = e[k]
    BY DEF InTurns
  <2>1. 2 * k \in 0 .. N - 1 /\ 2 * k + 1 \in 0 .. N - 1 /\ 2 * k + 1 # 2 * k
    OBVIOUS
  <2>2. (2 * k) \div 2 = k /\ (2 * k + 1) \div 2 = k
    <3>1. PICK m \in Int : m = k
      OBVIOUS
    <3>2. (2 * m) \div 2 = m /\ (2 * m + 1) \div 2 = m
      OBVIOUS
    <3>. QED  BY <3>1, <3>2
  <2>. QED  BY <2>1, <2>2 DEF p
<1>3. \A k \in 0 .. n - 1 : e[k] = EndOf(t, s[k])
  OBVIOUS
<1> HIDE DEF e, p
<1>4. /\ \A y \in 0 .. N - 1 : p[y] \in Nat
      /\ \A x, y \in 0 .. N - 1 : x <= y => p[x] <= p[y]
  BY <1>1, <1>2, TurnsAscend
<1>5. /\ t.starts \in Seq(Nat) /\ t.ends \in Seq(Nat) /\ t.len_tag2 \in Nat
      /\ DOMAIN t.starts = 1 .. n /\ DOMAIN t.ends = 1 .. n
      /\ \A m \in 1 .. n : t.starts[m] \in Nat /\ t.ends[m] \in Nat
  <2>1. /\ t.starts \in Seq(Nat) /\ t.ends \in Seq(Nat) /\ t.len_tag2 \in Nat
        /\ Len(t.ends) = n
    BY TaggingsAssumption DEF TaggingOK, WellTagged
  <2>2. PICK a \in Seq(Nat), b \in Seq(Nat) : a = t.starts /\ b = t.ends
    BY <2>1
  <2>3. Len(a) = n /\ Len(b) = n
    BY <2>1, <2>2
  <2>4. /\ DOMAIN a = 1 .. n /\ DOMAIN b = 1 .. n
        /\ \A m \in 1 .. n : a[m] \in Nat /\ b[m] \in Nat
    BY <2>3
  <2>. QED  BY <2>1, <2>2, <2>4
<1>6. \A y \in 0 .. N - 1 : r[y] \in Nat
  <2> SUFFICES ASSUME NEW y \in 0 .. N - 1 PROVE r[y] \in Nat
    OBVIOUS
  <2>1. CASE y < n
    <3>1. y + 1 \in 1 .. n /\ y \in 0 .. n - 1
      BY <2>1
    <3>. QED  BY <1>5, <3>1
  <2>2. CASE ~ y < n
    <3>1. y - n + 1 \in 1 .. n /\ y \in n .. N - 1
      BY <2>2
    <3>2. t.ends[y - n + 1] \in Nat
      BY <1>5, <3>1
    <3>3. r[y] = t.ends[y - n + 1] + t.len_tag2
      BY <3>1
    <3>4. t.len_tag2 \in Nat
      BY <1>5
    <3>5. PICK a \in Nat, b \in Nat : a = t.ends[y - n + 1] /\ b = t.len_tag2
      BY <3>2, <3>4
    <3>6. r[y] = a + b
      BY <3>3, <3>5
    <3>. QED  BY <3>6
  <2>. QED  BY <2>1, <2>2
<1>7. \A k \in 0 .. n - 1 : \E c \in 0 .. n - 1 : r[c] = s[k]
  <2> SUFFICES ASSUME NEW k \in 0 .. n - 1 PROVE \E c \in 0 .. n - 1 : r[c] = s[k]
    OBVIOUS
  <2>1. s[k] \in ToSet(t.starts)
    BY DEF StartsInOrder, Starts
  <2>2. PICK c \in 1 .. n : t.starts[c] = s[k]
    BY <1>5, <2>1 DEF ToSet
  <2>3. c - 1 \in 0 .. n - 1 /\ r[c - 1] = t.starts[(c - 1) + 1] /\ (c - 1) + 1 = c
    BY <2>2
  <2>. QED  BY <2>2, <2>3
<1>8. \A k \in 0 .. n - 1 : \E c \in n .. N - 1 : r[c] = e[k]
  <2> SUFFICES ASSUME NEW k \in 0 .. n - 1 PROVE \E c \in n .. N - 1 : r[c] = e[k]
    OBVIOUS
  <2>1. PICK x \in ToSet(t.ends) : e[k] = x + t.len_tag2
    BY <1>1 DEF Ends
  <2>2. PICK c \in 1 .. n : t.ends[c] = x
    BY <1>5, <2>1 DEF ToSet
  <2>3. n + c - 1 \in n .. N - 1 /\ (n + c - 1) - n + 1 = c
    OBVIOUS
  <2>4. r[n + c - 1] = e[k]
    BY <2>1, <2>2, <2>3
  <2>. QED  BY <2>3, <2>4
<1>9. \A j, k \in 0 .. n - 1 : j # k => s[j] # s[k] /\ e[j] # e[k]
  <2>1. ASSUME NEW j \in 0 .. n - 1, NEW k \in 0 .. n - 1, j < k
        PROVE  s[j] # s[k] /\ e[j] # e[k]
    <3>1. s[j] < e[j] /\ e[j] <= s[k] /\ s[k] < e[k]
      BY <1>1, <2>1
    <3>2. s[j] \in Nat /\ e[j] \in Nat /\ s[k] \in Nat /\ e[k] \in Nat
      BY <1>1
    <3>. QED  BY <3>1, <3>2
  <2> SUFFICES ASSUME NEW j \in 0 .. n - 1, NEW k \in 0 .. n - 1, j # k
               PROVE  s[j] # s[k] /\ e[j] # e[k]
    OBVIOUS
  <2>2. CASE j < k
    BY <2>1, <2>2
  <2>3. CASE k < j
    BY <2>1, <2>3
  <2>. QED  BY <2>2, <2>3
<1>10. Permuted(p, r, N)
  BY <1>2, <1>7, <1>8, <1>9, TurnsPermuted, ZenonT(60)
<1>11. Cells(r, N)
  <2>1. 0 .. N - 1 \subseteq DOMAIN r
    OBVIOUS
  <2>2. DOMAIN r \subseteq Nat
    OBVIOUS
  <2>. QED  BY <1>6, <2>1, <2>2 DEF Cells
<1>12. Ascending(p, 0, N - 1)
  BY <1>4 DEF Ascending
<1> HIDE DEF q
<1>14. \A y \in 0 .. N - 1 : q[y] = p[y]
  BY <1>10, <1>11, <1>12, QsortIs DEF q
<1>15. \A k \in 0 .. n - 1 : q[2 * k] = s[k] /\ q[2 * k + 1] = EndOf(t, s[k])
  <2> SUFFICES ASSUME NEW k \in 0 .. n - 1
               PROVE  q[2 * k] = s[k] /\ q[2 * k + 1] = EndOf(t, s[k])
    OBVIOUS
  <2>1. 2 * k \in 0 .. N - 1 /\ 2 * k + 1 \in 0 .. N - 1
    OBVIOUS
  <2>2. p[2 * k] = s[k] /\ p[2 * k + 1] = e[k]
    BY <1>2 DEF InTurns
  <2>. QED  BY <1>3, <1>14, <2>1, <2>2
<1>16. DocumentCells(q, t)
  BY <1>15 DEF DocumentCells
<1>. QED  BY <1>16 DEF q

(* A file that has the first of these cells has the first documents.       *)
LEMMA PrefixHolds ==
  ASSUME NEW t \in Taggings, NEW n \in Nat, n = Len(t.starts), NEW r,
         DocumentCells(r, t), NEW f \in Seq(Nat), Len(f) <= 2 * n,
         \A m \in 1 .. Len(f) : f[m] = r[m - 1]
  PROVE  /\ DocumentsIn(f) \subseteq DocumentsOf(t)
         /\ \A d \in DocumentsOf(t) \ DocumentsIn(f), e \in DocumentsIn(f) : e[1] < d[1]
         /\ Len(f) = 2 * n => DocumentsIn(f) = DocumentsOf(t)
<1>1. PICK s : /\ StartsInOrder(t, s)
               /\ \A k \in 0 .. n - 1 : r[2 * k] = s[k] /\ r[2 * k + 1] = EndOf(t, s[k])
  BY DEF DocumentCells
<1>2. PICK L \in Nat : L = Len(f) \div 2 /\ 2 * L <= Len(f) /\ L <= n
                       /\ (Len(f) = 2 * n => L = n)
  <2>1. Len(f) \in Nat
    OBVIOUS
  <2>2. Len(f) \div 2 \in Nat /\ 2 * (Len(f) \div 2) <= Len(f)
    BY <2>1
  <2>. QED  BY <2>1, <2>2
<1> DEFINE Doc(k) == <<s[k], EndOf(t, s[k])>>
<1>3. DocumentsOf(t) = {Doc(k) : k \in 0 .. n - 1}
  <2>1. Starts(t) = {s[k] : k \in 0 .. n - 1}
    BY <1>1 DEF StartsInOrder
  <2>2. DocumentsOf(t) = {<<x, EndOf(t, x)>> : x \in Starts(t)}
    BY DEF DocumentsOf, EndOf
  <2>3. ASSUME NEW k \in 0 .. n - 1 PROVE Doc(k) \in DocumentsOf(t)
    <3>1. s[k] \in Starts(t)
      BY <2>1
    <3>. QED  BY <2>2, <3>1
  <2>4. ASSUME NEW d \in DocumentsOf(t) PROVE d \in {Doc(k) : k \in 0 .. n - 1}
    <3>1. PICK x \in Starts(t) : d = <<x, EndOf(t, x)>>
      BY <2>2
    <3>2. PICK k \in 0 .. n - 1 : x = s[k]
      BY <2>1, <3>1
    <3>3. d = Doc(k)
      BY <3>1, <3>2
    <3>. QED  BY <3>2, <3>3
  <2>. QED  BY <2>3, <2>4
<1>4. DocumentsIn(f) = {Doc(k) : k \in 0 .. L - 1}
  <2>1. DocumentsIn(f) = {<<f[2 * k + 1], f[2 * k + 2]>> : k \in 0 .. L - 1}
    BY <1>2 DEF DocumentsIn, Did!RegionFrom, Did!RegionTo, Did!Documents, Did!DidSize
  <2>2. ASSUME NEW k \in 0 .. L - 1
        PROVE  f[2 * k + 1] = s[k] /\ f[2 * k + 2] = EndOf(t, s[k])
    <3>0. PICK l \in Nat : l = Len(f) /\ 2 * L <= l
      BY <1>2
    <3>1. /\ 2 * k + 1 \in 1 .. l /\ 2 * k + 2 \in 1 .. l
          /\ (2 * k + 1) - 1 = 2 * k /\ (2 * k + 2) - 1 = 2 * k + 1
      BY <3>0
    <3>2. k \in 0 .. n - 1
      BY <1>2
    <3>3. /\ 2 * k + 1 \in 1 .. Len(f) /\ 2 * k + 2 \in 1 .. Len(f)
      BY <3>0, <3>1
    <3>4. f[2 * k + 1] = r[2 * k] /\ f[2 * k + 2] = r[2 * k + 1]
      BY <3>1, <3>3
    <3>. QED  BY <1>1, <3>2, <3>4
  <2>. QED  BY <2>1, <2>2
<1>5. \A j, k \in 0 .. n - 1 : j < k => s[j] < s[k]
  BY <1>1 DEF StartsInOrder
<1>6. \A k : Doc(k)[1] = s[k]
  OBVIOUS
<1> HIDE DEF Doc
<1>7. DocumentsIn(f) \subseteq DocumentsOf(t)
  BY <1>2, <1>3, <1>4
<1>8. ASSUME NEW d \in DocumentsOf(t) \ DocumentsIn(f), NEW e \in DocumentsIn(f)
      PROVE  e[1] < d[1]
  <2>1. PICK k \in 0 .. n - 1 : d = Doc(k)
    BY <1>3
  <2>2. PICK j \in 0 .. L - 1 : e = Doc(j)
    BY <1>4
  <2>3. k \notin 0 .. L - 1
    BY <1>4, <2>1
  <2>4. j < k /\ j \in 0 .. n - 1
    BY <1>2, <2>3
  <2>. QED  BY <1>5, <1>6, <2>1, <2>2, <2>4
<1>9. Len(f) = 2 * n => DocumentsIn(f) = DocumentsOf(t)
  BY <1>2, <1>3, <1>4
<1>. QED  BY <1>7, <1>8, <1>9
-----------------------------------------------------------------------------
(* What the cells are, from the hits to the documents in turns: while the  *)
(* starts are doubled, single ones up to i \div 2 and each twice behind i. *)
LayoutOK ==
  /\ pc \in {"tag2", "sort"} => \A k \in 0 .. num - 1 : rslt[k] = tags.starts[k + 1]
  /\ pc = "tag2" => tags.tag2
  /\ pc \in {"sort", "double"} => ~ tags.tag2
  /\ pc = "double" =>
       \E s, h :
         /\ StartsInOrder(tags, s) /\ h \in 0 .. num - 1 /\ i = 2 * h
         /\ \A k \in 0 .. h : rslt[k] = s[k]
         /\ \A k \in h + 1 .. num - 1 : rslt[2 * k] = s[k] /\ rslt[2 * k - 1] = s[k]
         /\ rslt[2 * num - 1] = tags.size
  /\ pc \in {"create", "write"} => (WellTagged(tags) => DocumentCells(rslt, tags))

(* The file has the first cells, and all of them if the disk had room.     *)
WrittenOK ==
  /\ pc = "write" =>
       /\ made = tags /\ Len(file) <= i /\ (~ full => Len(file) = i)
       /\ \A m \in 1 .. Len(file) : file[m] = rslt[m - 1]
  /\ pc # "write" => FileHoldsDocuments

DocumentsInv == IInv /\ LayoutOK /\ WrittenOK

LEMMA InitDocuments == Init => LayoutOK /\ WrittenOK
<1> SUFFICES ASSUME Init PROVE LayoutOK /\ WrittenOK
  OBVIOUS
<1>1. pc = "idle" /\ file = <<>> /\ made = NoTagging
  BY DEF Init
<1>2. DocumentsIn(file) = {}
  BY <1>1 DEF DocumentsIn, Did!Documents, Did!DidSize
<1>3. DocumentsOf(made) = {}
  BY <1>1 DEF DocumentsOf, NoTagging, Starts, ToSet
<1>. QED  BY <1>1, <1>2, <1>3 DEF LayoutOK, WrittenOK, FileHoldsDocuments

(* While the file is being written it holds the first documents.           *)
LEMMA WritingHolds ==
  ASSUME DocumentsInv, pc = "write", WellTagged(made)
  PROVE  /\ DocumentsIn(file) \subseteq DocumentsOf(made)
         /\ \A d \in DocumentsOf(made) \ DocumentsIn(file), e \in DocumentsIn(file) :
              e[1] < d[1]
         /\ ~ full /\ i >= 2 * num => DocumentsIn(file) = DocumentsOf(made)
<1>1. /\ tags \in Taggings /\ num = Len(tags.starts) /\ num \in Nat
      /\ i \in 0 .. 2 * num /\ file \in Seq(Nat)
  BY DEF DocumentsInv, IInv, CellsOK, FileOK, AscendingFile, Running
<1>2. /\ made = tags /\ Len(file) <= i /\ (~ full => Len(file) = i)
      /\ \A m \in 1 .. Len(file) : file[m] = rslt[m - 1]
      /\ DocumentCells(rslt, tags)
  BY DEF DocumentsInv, LayoutOK, WrittenOK
<1>3. Len(file) \in Nat /\ Len(file) <= 2 * num
  BY <1>1, <1>2
<1>4. /\ DocumentsIn(file) \subseteq DocumentsOf(tags)
      /\ \A d \in DocumentsOf(tags) \ DocumentsIn(file), e \in DocumentsIn(file) :
           e[1] < d[1]
      /\ Len(file) = 2 * num => DocumentsIn(file) = DocumentsOf(tags)
  BY <1>1, <1>2, <1>3, PrefixHolds
<1>5. ~ full /\ i >= 2 * num => Len(file) = 2 * num
  <2> SUFFICES ASSUME ~ full, i >= 2 * num PROVE Len(file) = 2 * num
    OBVIOUS
  <2>1. i = 2 * num
    BY <1>1
  <2>. QED  BY <1>2, <2>1
<1>. QED  BY <1>2, <1>4, <1>5

LEMMA WritingHoldsDocuments ==
  ASSUME DocumentsInv, pc = "write"
  PROVE  FileHoldsDocuments
<1>1. stat # "SUCCESS"
  BY DEF DocumentsInv, IInv, KeptOK, Running
<1>. QED  BY <1>1, WritingHolds DEF FileHoldsDocuments

LEMMA ReturnDocuments ==
  ASSUME DocumentsInv, NEW status, Return(status), UNCHANGED <<file, full, made, kept>>,
         status = "SUCCESS" => pc = "write" /\ i >= 2 * num,
         status \in {"FAIL", "SUCCESS", "CRASH"}
  PROVE  LayoutOK' /\ WrittenOK'
<1>1. pc' = "idle" /\ stat' = status /\ file' = file /\ full' = full /\ made' = made
  BY DEF Return
<1>2. DocumentsIn(file') = DocumentsIn(file) /\ DocumentsOf(made') = DocumentsOf(made)
      /\ (WellTagged(made') <=> WellTagged(made))
  BY <1>1
<1>3. FileHoldsDocuments
  <2>1. CASE pc = "write"
    BY <2>1, WritingHoldsDocuments
  <2>2. CASE pc # "write"
    BY <2>2 DEF DocumentsInv, WrittenOK
  <2>. QED  BY <2>1, <2>2
<1>4. FileHoldsDocuments'
  <2> SUFFICES ASSUME WellTagged(made)
               PROVE  /\ DocumentsIn(file) \subseteq DocumentsOf(made)
                      /\ \A d \in DocumentsOf(made) \ DocumentsIn(file),
                            e \in DocumentsIn(file) : e[1] < d[1]
                      /\ status = "SUCCESS" /\ ~ full =>
                           DocumentsIn(file) = DocumentsOf(made)
    BY <1>1, <1>2 DEF FileHoldsDocuments
  <2>1. /\ DocumentsIn(file) \subseteq DocumentsOf(made)
        /\ \A d \in DocumentsOf(made) \ DocumentsIn(file),
              e \in DocumentsIn(file) : e[1] < d[1]
    BY <1>3 DEF FileHoldsDocuments
  <2>2. status = "SUCCESS" /\ ~ full => DocumentsIn(file) = DocumentsOf(made)
    BY WritingHolds
  <2>. QED  BY <2>1, <2>2
<1>. QED  BY <1>1, <1>4 DEF LayoutOK, WrittenOK

(* The steps that neither write nor return leave what the file holds.      *)
LEMMA SameDocuments ==
  ASSUME FileHoldsDocuments, UNCHANGED <<file, made, full>>,
         stat' = stat \/ stat' # "SUCCESS"
  PROVE  FileHoldsDocuments'
BY DEF FileHoldsDocuments

LEMMA RunDocuments ==
  ASSUME DocumentsInv, NEW t \in Taggings, Run(t)
  PROVE  LayoutOK' /\ WrittenOK'
<1>1. pc = "idle" /\ pc' = "open" /\ stat' = "NONE" /\ file' = file /\ made' = made
  BY DEF Run
<1>2. FileHoldsDocuments
  BY <1>1 DEF DocumentsInv, WrittenOK
<1>3. FileHoldsDocuments'
  BY <1>1, <1>2 DEF FileHoldsDocuments
<1>. QED  BY <1>1, <1>3 DEF LayoutOK, WrittenOK

LEMMA FindTag1Documents ==
  ASSUME DocumentsInv, FindTag1
  PROVE  LayoutOK' /\ WrittenOK'
<1>1. /\ pc = "open" /\ num' = Len(tags.starts)
      /\ pc' = IF tags.tag2 THEN "tag2" ELSE "sort"
      /\ UNCHANGED <<tags, i, stat, file, full, made, kept>>
  BY DEF FindTag1
<1>2. PICK g \in Garbage :
        rslt' = [k \in 0 .. 2 * num' - 1 |-> IF k < num' THEN tags.starts[k + 1] ELSE g]
  BY DEF FindTag1
<1>3. tags \in Taggings /\ num' \in Nat
  BY <1>1, TaggingFacts DEF DocumentsInv, IInv, CellsOK, Running
<1>4. \A k \in 0 .. num' - 1 : rslt'[k] = tags.starts[k + 1]
  BY <1>2, <1>3
<1>5. FileHoldsDocuments'
  BY <1>1, SameDocuments DEF DocumentsInv, WrittenOK
<1>6. tags.tag2 \in BOOLEAN
  BY <1>3, TaggingsAssumption DEF TaggingOK
<1>. QED  BY <1>1, <1>4, <1>5, <1>6 DEF LayoutOK, WrittenOK

LEMMA FindTag2Documents ==
  ASSUME DocumentsInv, FindTag2
  PROVE  LayoutOK' /\ WrittenOK'
<1>1. PICK n \in Nat, N \in Nat : n = num /\ N = 2 * num
  BY DEF FindTag2, DocumentsInv, IInv, CellsOK, Running
<1> DEFINE r == [k \in DOMAIN rslt |->
                   IF k < num THEN rslt[k]
                   ELSE tags.ends[k - num + 1] + tags.len_tag2]
<1>2. /\ pc = "tag2" /\ rslt' = Qsort(r, N) /\ pc' = "create"
      /\ UNCHANGED <<tags, num, i, stat, file, full, made, kept>>
  BY <1>1 DEF FindTag2
<1>3. /\ tags \in Taggings /\ n = Len(tags.starts) /\ N = 2 * n /\ tags.tag2
      /\ DOMAIN rslt = 0 .. N - 1
      /\ \A k \in 0 .. n - 1 : rslt[k] = tags.starts[k + 1]
  BY <1>1, <1>2 DEF DocumentsInv, IInv, CellsOK, LayoutOK, Running
<1>4. /\ DOMAIN r = 0 .. N - 1
      /\ \A k \in 0 .. n - 1 : r[k] = tags.starts[k + 1]
      /\ \A k \in n .. N - 1 : r[k] = tags.ends[k - n + 1] + tags.len_tag2
  <2>1. DOMAIN r = 0 .. N - 1
    BY <1>3
  <2>2. ASSUME NEW k \in 0 .. n - 1 PROVE r[k] = tags.starts[k + 1]
    <3>1. k \in DOMAIN rslt /\ k < num
      BY <1>1, <1>3
    <3>. QED  BY <1>3, <3>1
  <2>3. ASSUME NEW k \in n .. N - 1
        PROVE  r[k] = tags.ends[k - n + 1] + tags.len_tag2
    <3>1. k \in DOMAIN rslt /\ ~ (k < num) /\ num = n
      BY <1>1, <1>3
    <3>. QED  BY <3>1
  <2>. QED  BY <2>1, <2>2, <2>3
<1> HIDE DEF r
<1>5. FileHoldsDocuments'
  BY <1>2, SameDocuments DEF DocumentsInv, WrittenOK
<1>6. ASSUME WellTagged(tags)
      PROVE  DocumentCells(rslt', tags)
  <2>1. \E s : StartsInOrder(tags, s)
    <3>1. 0 .. n - 1 \subseteq DOMAIN rslt /\ DOMAIN rslt \subseteq Nat
      BY <1>3
    <3>. QED  BY <1>3, <3>1, StartsSorted
  <2>. QED  BY <1>2, <1>3, <1>4, <1>6, <2>1, DocumentsSorted
<1>. QED  BY <1>2, <1>5, <1>6 DEF LayoutOK, WrittenOK

LEMMA SortStartsDocuments ==
  ASSUME DocumentsInv, SortStarts
  PROVE  LayoutOK' /\ WrittenOK'
<1>1. PICK n \in Nat \ {0} : n = num
  BY DEF SortStarts, DocumentsInv, IInv, CellsOK, Running
<1> DEFINE q == Qsort(rslt, n)
           s == [k \in 0 .. n - 1 |-> q[k]]
<1>2. /\ pc = "sort" /\ pc' = "double" /\ i' = 2 * n - 2
      /\ rslt' = [q EXCEPT ![2 * n - 1] = tags.size]
      /\ UNCHANGED <<tags, num, stat, file, full, made, kept>>
  BY <1>1 DEF SortStarts
<1>3. /\ tags \in Taggings /\ n = Len(tags.starts) /\ ~ tags.tag2
      /\ DOMAIN rslt = 0 .. 2 * n - 1
      /\ \A k \in 0 .. n - 1 : rslt[k] = tags.starts[k + 1]
  BY <1>1, <1>2 DEF DocumentsInv, IInv, CellsOK, LayoutOK, Running
<1>4. StartsInOrder(tags, s)
  <2>1. n \in Nat /\ 0 .. n - 1 \subseteq DOMAIN rslt /\ DOMAIN rslt \subseteq Nat
    BY <1>3
  <2>. QED  BY <1>3, <2>1, StartsSorted
<1>5. DOMAIN q = 0 .. 2 * n - 1
  BY <1>3 DEF Qsort
<1>6. \A k \in 0 .. n - 1 : s[k] = q[k]
  OBVIOUS
<1> HIDE DEF q, s
<1>7. /\ rslt'[2 * n - 1] = tags.size
      /\ \A k \in 0 .. 2 * n - 2 : rslt'[k] = q[k]
  BY <1>2, <1>5
<1>8. CASE n = 1
  <2>1. rslt'[1] = tags.size /\ rslt'[0] = s[0]
    BY <1>6, <1>7, <1>8
  <2>2. /\ StartsInOrder(tags', s) /\ 0 \in 0 .. num' - 1 /\ i' = 2 * 0
        /\ \A k \in 0 .. 0 : rslt'[k] = s[k]
        /\ \A k \in 0 + 1 .. num' - 1 : rslt'[2 * k] = s[k] /\ rslt'[2 * k - 1] = s[k]
        /\ rslt'[2 * num' - 1] = tags'.size
    BY <1>1, <1>2, <1>4, <1>8, <2>1
  <2>3. FileHoldsDocuments'
    BY <1>2, SameDocuments DEF DocumentsInv, WrittenOK
  <2>. QED  BY <1>2, <1>3, <2>2, <2>3 DEF LayoutOK, WrittenOK
<1>9. CASE n # 1
  <2>1. PICK h \in 0 .. n - 1 : h = n - 1
    OBVIOUS
  <2>2. \A k \in 0 .. h : rslt'[k] = s[k]
    <3>1. \A k \in 0 .. h : k \in 0 .. n - 1 /\ k \in 0 .. 2 * n - 2
      BY <2>1
    <3>. QED  BY <1>6, <1>7, <3>1
  <2>3. \A k \in h + 1 .. n - 1 : FALSE
    BY <2>1
  <2>4. i' = 2 * h
    BY <1>2, <2>1
  <2>5. /\ StartsInOrder(tags', s) /\ h \in 0 .. num' - 1 /\ i' = 2 * h
        /\ \A k \in 0 .. h : rslt'[k] = s[k]
        /\ \A k \in h + 1 .. num' - 1 : rslt'[2 * k] = s[k] /\ rslt'[2 * k - 1] = s[k]
        /\ rslt'[2 * num' - 1] = tags'.size
    BY <1>1, <1>2, <1>4, <1>7, <2>2, <2>3, <2>4
  <2>6. FileHoldsDocuments'
    BY <1>2, SameDocuments DEF DocumentsInv, WrittenOK
  <2>. QED  BY <1>2, <1>3, <2>5, <2>6 DEF LayoutOK, WrittenOK
<1>. QED  BY <1>8, <1>9
LEMMA DoubleDocuments ==
  ASSUME DocumentsInv, Double
  PROVE  LayoutOK' /\ WrittenOK'
<1>1. PICK n \in Nat \ {0} : n = num
  BY DEF Double, DocumentsInv, IInv, CellsOK, Running
<1>2. /\ pc = "double" /\ i > 0 /\ i' = i - 2
      /\ rslt' = [rslt EXCEPT ![i] = rslt[i \div 2], ![i - 1] = rslt[i \div 2]]
      /\ UNCHANGED <<pc, tags, num, stat, file, full, made, kept>>
  BY DEF Double
<1>3. DOMAIN rslt = 0 .. 2 * n - 1 /\ ~ tags.tag2
  BY <1>1, <1>2 DEF DocumentsInv, IInv, CellsOK, LayoutOK, Running
<1>4. PICK s, h :
         /\ StartsInOrder(tags, s) /\ h \in 0 .. n - 1 /\ i = 2 * h
         /\ \A k \in 0 .. h : rslt[k] = s[k]
         /\ \A k \in h + 1 .. n - 1 : rslt[2 * k] = s[k] /\ rslt[2 * k - 1] = s[k]
         /\ rslt[2 * n - 1] = tags.size
  BY <1>1, <1>2 DEF DocumentsInv, LayoutOK
<1>5. h \in 1 .. n - 1 /\ i \div 2 = h
  <2>1. h \in 1 .. n - 1
    BY <1>2, <1>4
  <2>2. PICK m \in Int : m = h
    BY <2>1
  <2>3. (2 * m) \div 2 = m
    OBVIOUS
  <2>. QED  BY <1>4, <2>1, <2>2, <2>3
<1>6. /\ rslt'[2 * h] = s[h] /\ rslt'[2 * h - 1] = s[h]
      /\ \A k \in (0 .. 2 * n - 1) \ {2 * h - 1, 2 * h} : rslt'[k] = rslt[k]
  <2>1. rslt[h] = s[h]
    BY <1>4, <1>5
  <2>2. 2 * h \in 0 .. 2 * n - 1 /\ 2 * h - 1 \in 0 .. 2 * n - 1 /\ 2 * h # 2 * h - 1
    BY <1>5
  <2>3. rslt' = [rslt EXCEPT ![2 * h] = rslt[h], ![2 * h - 1] = rslt[h]]
    BY <1>2, <1>4, <1>5
  <2>. QED  BY <1>3, <2>1, <2>2, <2>3
<1>7. PICK g \in 0 .. n - 1 : g = h - 1 /\ i' = 2 * g
  BY <1>2, <1>4, <1>5
<1>8. ASSUME NEW k \in 0 .. g PROVE rslt'[k] = s[k]
  <2>1. k \in 0 .. h /\ k \in (0 .. 2 * n - 1) \ {2 * h - 1, 2 * h}
    BY <1>5, <1>7
  <2>. QED  BY <1>4, <1>6, <2>1
<1>9. ASSUME NEW k \in g + 1 .. n - 1
      PROVE  rslt'[2 * k] = s[k] /\ rslt'[2 * k - 1] = s[k]
  <2>1. CASE k = h
    BY <1>6, <2>1
  <2>2. CASE k # h
    <3>1. /\ k \in h + 1 .. n - 1
          /\ 2 * k \in (0 .. 2 * n - 1) \ {2 * h - 1, 2 * h}
          /\ 2 * k - 1 \in (0 .. 2 * n - 1) \ {2 * h - 1, 2 * h}
      BY <1>5, <1>7, <2>2
    <3>. QED  BY <1>4, <1>6, <3>1
  <2>. QED  BY <2>1, <2>2
<1>10. rslt'[2 * n - 1] = tags.size
  <2>1. 2 * n - 1 \in (0 .. 2 * n - 1) \ {2 * h - 1, 2 * h}
    BY <1>5
  <2>. QED  BY <1>4, <1>6, <2>1
<1>11. /\ StartsInOrder(tags', s) /\ g \in 0 .. num' - 1 /\ i' = 2 * g
       /\ \A k \in 0 .. g : rslt'[k] = s[k]
       /\ \A k \in g + 1 .. num' - 1 : rslt'[2 * k] = s[k] /\ rslt'[2 * k - 1] = s[k]
       /\ rslt'[2 * num' - 1] = tags'.size
  BY <1>1, <1>2, <1>4, <1>7, <1>8, <1>9, <1>10
<1>12. FileHoldsDocuments'
  BY <1>2, SameDocuments DEF DocumentsInv, WrittenOK
<1>. QED  BY <1>2, <1>3, <1>11, <1>12 DEF LayoutOK, WrittenOK

LEMMA DoubleEndDocuments ==
  ASSUME DocumentsInv, DoubleEnd
  PROVE  LayoutOK' /\ WrittenOK'
<1>1. PICK n \in Nat \ {0} : n = num
  BY DEF DoubleEnd, DocumentsInv, IInv, CellsOK, Running
<1>2. /\ pc = "double" /\ i <= 0 /\ pc' = "create"
      /\ UNCHANGED <<tags, num, rslt, i, stat, file, full, made, kept>>
  BY DEF DoubleEnd
<1>3. tags \in Taggings /\ n = Len(tags.starts) /\ ~ tags.tag2
  BY <1>1, <1>2 DEF DocumentsInv, IInv, CellsOK, LayoutOK, Running
<1>4. PICK s, h :
         /\ StartsInOrder(tags, s) /\ h \in 0 .. n - 1 /\ i = 2 * h
         /\ \A k \in 0 .. h : rslt[k] = s[k]
         /\ \A k \in h + 1 .. n - 1 : rslt[2 * k] = s[k] /\ rslt[2 * k - 1] = s[k]
         /\ rslt[2 * n - 1] = tags.size
  BY <1>1, <1>2 DEF DocumentsInv, LayoutOK
<1>5. h = 0
  BY <1>2, <1>4
<1>6. ASSUME NEW k \in 0 .. n - 1
      PROVE  rslt[2 * k] = s[k] /\ rslt[2 * k + 1] = EndOf(tags, s[k])
  <2>1. rslt[2 * k] = s[k]
    <3>1. CASE k = 0
      BY <1>4, <1>5, <3>1
    <3>2. CASE k # 0
      <4>1. k \in h + 1 .. n - 1
        BY <1>5, <3>2
      <4>. QED  BY <1>4, <4>1
    <3>. QED  BY <3>1, <3>2
  <2>2. EndOf(tags, s[k]) = IF k + 1 < n THEN s[k + 1] ELSE tags.size
    BY <1>3, <1>4, EndWithoutTag
  <2>3. CASE k + 1 < n
    <3>1. k + 1 \in h + 1 .. n - 1 /\ 2 * (k + 1) - 1 = 2 * k + 1
      BY <1>5, <2>3
    <3>2. rslt[2 * (k + 1) - 1] = s[k + 1]
      BY <1>4, <3>1
    <3>. QED  BY <2>1, <2>2, <2>3, <3>1, <3>2
  <2>4. CASE ~ k + 1 < n
    <3>1. 2 * n - 1 = 2 * k + 1
      BY <2>4
    <3>. QED  BY <1>4, <2>1, <2>2, <2>4, <3>1
  <2>. QED  BY <2>3, <2>4
<1>7. DocumentCells(rslt', tags')
  BY <1>2, <1>3, <1>4, <1>6 DEF DocumentCells
<1>8. FileHoldsDocuments'
  BY <1>2, SameDocuments DEF DocumentsInv, WrittenOK
<1>. QED  BY <1>2, <1>7, <1>8 DEF LayoutOK, WrittenOK

LEMMA CreateDocuments ==
  ASSUME DocumentsInv, Create
  PROVE  LayoutOK' /\ WrittenOK'
<1>1. /\ pc = "create" /\ pc' = "write" /\ file' = <<>> /\ made' = tags /\ i' = 0
      /\ UNCHANGED <<tags, num, rslt, stat, full>>
  BY DEF Create
<1>2. WellTagged(tags) => DocumentCells(rslt, tags)
  BY <1>1 DEF DocumentsInv, LayoutOK
<1>. QED  BY <1>1, <1>2 DEF LayoutOK, WrittenOK

LEMMA WriteWordDocuments ==
  ASSUME DocumentsInv, WriteWord
  PROVE  LayoutOK' /\ WrittenOK'
<1>1. /\ pc = "write" /\ i < 2 * num /\ i' = i + 1
      /\ full' \in {full, TRUE}
      /\ file' = IF full' THEN file ELSE Append(file, rslt[i])
      /\ UNCHANGED <<pc, tags, num, rslt, stat, made, kept>>
  BY DEF WriteWord
<1>2. /\ made = tags /\ Len(file) <= i /\ (~ full => Len(file) = i)
      /\ \A m \in 1 .. Len(file) : file[m] = rslt[m - 1]
      /\ (WellTagged(tags) => DocumentCells(rslt, tags))
  BY <1>1 DEF DocumentsInv, LayoutOK, WrittenOK
<1>3. i \in Nat /\ file \in Seq(Nat) /\ Len(file) \in Nat
  <2>1. file \in Seq(Nat) /\ num \in Nat /\ i \in 0 .. 2 * num
    BY <1>1 DEF DocumentsInv, IInv, CellsOK, FileOK, AscendingFile, Running
  <2>. QED  BY <2>1
<1>4. /\ Len(file') <= i' /\ (~ full' => Len(file') = i')
      /\ \A m \in 1 .. Len(file') : file'[m] = rslt[m - 1]
  <2>1. CASE full'
    BY <1>1, <1>2, <1>3, <2>1
  <2>2. CASE ~ full'
    <3>1. ~ full /\ file' = Append(file, rslt[i]) /\ Len(file) = i
      <4>1. full' = full \/ full' = TRUE
        BY <1>1
      <4>2. ~ full
        BY <2>2, <4>1, Zenon
      <4>3. file' = Append(file, rslt[i])
        BY <1>1, <2>2
      <4>4. Len(file) = i
        BY <1>2, <4>2, Zenon
      <4>. QED  BY <4>2, <4>3, <4>4
    <3>2. Len(file') = i + 1 /\ file'[i + 1] = rslt[i]
          /\ \A m \in 1 .. i : file'[m] = file[m]
      BY <1>3, <3>1
    <3>3. \A m \in 1 .. i + 1 : file'[m] = rslt[m - 1]
      <4> SUFFICES ASSUME NEW m \in 1 .. i + 1 PROVE file'[m] = rslt[m - 1]
        OBVIOUS
      <4>1. CASE m = i + 1
        <5>1. m - 1 = i
          BY <1>3, <4>1
        <5>. QED  BY <3>2, <4>1, <5>1
      <4>2. CASE m # i + 1
        <5>1. m \in 1 .. i
          BY <1>3, <4>2
        <5>. QED  BY <1>2, <3>1, <3>2, <5>1
      <4>. QED  BY <4>1, <4>2
    <3>4. Len(file') = i'
      BY <1>1, <3>2
    <3>5. Len(file') <= i'
      BY <1>3, <3>2, <3>4
    <3>6. \A m \in 1 .. Len(file') : file'[m] = rslt[m - 1]
      BY <3>2, <3>3
    <3>. QED  BY <3>4, <3>5, <3>6
  <2>. QED  BY <2>1, <2>2
<1>. QED  BY <1>1, <1>2, <1>4 DEF LayoutOK, WrittenOK

LEMMA NextDocuments ==
  ASSUME DocumentsInv, [Next]_vars
  PROVE  LayoutOK' /\ WrittenOK'
<1>1. CASE \E t \in Taggings : Run(t)
  BY <1>1, RunDocuments
<1>2. CASE OpenFails \/ Tag1NotFound \/ Tag2Fails \/ CreateFails \/ Close \/ Crash
  BY <1>2, ReturnDocuments DEF OpenFails, Tag1NotFound, Tag2Fails, CreateFails, Close,
                               Crash
<1>3. CASE FindTag1 \/ FindTag2 \/ SortStarts
  BY <1>3, FindTag1Documents, FindTag2Documents, SortStartsDocuments
<1>4. CASE Double \/ DoubleEnd
  BY <1>4, DoubleDocuments, DoubleEndDocuments
<1>5. CASE Create \/ WriteWord
  BY <1>5, CreateDocuments, WriteWordDocuments
<1>6. CASE UNCHANGED vars
  <2>1. FileHoldsDocuments' <=> FileHoldsDocuments
    BY <1>6 DEF vars, FileHoldsDocuments
  <2>. QED  BY <1>6, <2>1 DEF vars, DocumentsInv, LayoutOK, WrittenOK
<1>. QED  BY <1>1, <1>2, <1>3, <1>4, <1>5, <1>6 DEF Next, Internal

LEMMA MakerStep == ASSUME DocumentsInv, [Next]_vars PROVE DocumentsInv'
<1>1. IInv'
  BY NextInv DEF DocumentsInv
<1>2. LayoutOK' /\ WrittenOK'
  BY NextDocuments
<1>. QED  BY <1>1, <1>2 DEF DocumentsInv

LEMMA DocumentsHeld == DocumentsInv => FileHoldsDocuments
BY WritingHoldsDocuments DEF DocumentsInv, WrittenOK

(* Where the tags take turns, the file holds documents of the text, the    *)
(* first ones if the writing was cut short, and all of them when           *)
(* sa_make_did returns SUCCESS and the disk had room.                      *)
THEOREM FileAlwaysHoldsDocuments == Spec => []FileHoldsDocuments
<1>1. Init => DocumentsInv
  BY InitInv, InitDocuments DEF DocumentsInv
<1>2. DocumentsInv /\ [Next]_vars => DocumentsInv'
  BY MakerStep
<1>3. DocumentsInv => FileHoldsDocuments
  BY DocumentsHeld
<1>. QED  BY <1>1, <1>2, <1>3, PTL DEF Spec
-----------------------------------------------------------------------------
(* sa_didsearch on such files: right for every file in order, whatever its *)
(* size and whatever cur holds when the search begins.                     *)
(* What lies left of the window ends before the target, what lies right of *)
(* it starts behind.                                                       *)
LeftBefore == \A k \in Documents(did) : k < li => RegionTo(did, k) <= target
RightBehind == \A k \in Documents(did) : ri <= k => target < RegionFrom(did, k)

RegionHit == region_from <= target /\ target < region_to

(* The last probe went left, or cur is the document in front of the        *)
(* window; before the first probe the window is the whole file.            *)
LastProbe ==
  \/ target < region_from /\ target < region_to
  \/ cur + 1 = li /\ ~ (target < region_from)
  \/ li = 0 /\ ri = DidSize(did)

Searching == LeftBefore /\ RightBehind /\ ~ RegionHit /\ LastProbe

HitIsCur ==
  /\ cur \in Documents(did)
  /\ region_from = RegionFrom(did, cur)
  /\ region_to = RegionTo(did, cur)

Decided ==
  \/ RegionHit /\ HitIsCur
  \/ Searching /\ ri <= li

DrOK ==
  /\ lookup # "idle" => dr = NoResult
  /\ AnswerCorrect
  /\ FailNumberIsNext

LookupInv ==
  /\ DidOK(did) /\ TypeOK
  /\ lookup = "loop" => Searching
  /\ lookup = "return" => Decided
  /\ DrOK
-----------------------------------------------------------------------------
(* A document file has a natural number of documents, at natural positions *)
(* that do not go back.                                                    *)
LEMMA FileType ==
  ASSUME DidOK(did)
  PROVE  /\ DidSize(did) \in Nat
         /\ \A k \in Documents(did) : /\ k \in Nat /\ k < DidSize(did)
                                      /\ RegionFrom(did, k) \in Nat
                                      /\ RegionTo(did, k) \in Nat
                                      /\ RegionFrom(did, k) <= RegionTo(did, k)
         /\ \A j, k \in Documents(did) :
              j < k => RegionTo(did, j) <= RegionFrom(did, k)
<1>2. did \in Seq(Nat) /\ Len(did) \in Nat
  BY DEF DidOK
<1>3. DidSize(did) \in Nat /\ 2 * DidSize(did) <= Len(did)
  BY <1>2 DEF DidSize
<1>4. ASSUME NEW k \in Documents(did)
      PROVE  /\ k \in Nat /\ k < DidSize(did)
             /\ RegionFrom(did, k) \in Nat
             /\ RegionTo(did, k) \in Nat
  <2>1. k \in Nat /\ k < DidSize(did)
    BY <1>3 DEF Documents
  <2>2. 2 * k + 1 \in 1 .. Len(did) /\ 2 * k + 2 \in 1 .. Len(did)
    BY <1>2, <1>3, <2>1
  <2>. QED BY <1>2, <2>1, <2>2 DEF RegionFrom, RegionTo
<1>. QED BY <1>3, <1>4 DEF DidOK

(* The probe lies in the window, and left of its right end.                *)
LEMMA MidBounds ==
  ASSUME NEW l \in Nat, NEW r \in Nat, l < r
  PROVE  Mid(l, r) \in Nat /\ l <= Mid(l, r) /\ Mid(l, r) < r
BY SMTT(30) DEF Mid

(* An empty window holds no document.                                      *)
LEMMA NothingHolds ==
  ASSUME DidOK(did), TypeOK, LeftBefore, RightBehind, ri <= li
  PROVE  \A k \in Documents(did) : ~ Holds(did, k, target)
<1>. SUFFICES ASSUME NEW k \in Documents(did), Holds(did, k, target)
              PROVE  FALSE
  OBVIOUS
<1>1. /\ k \in Nat /\ RegionFrom(did, k) \in Nat /\ RegionTo(did, k) \in Nat
      /\ target \in Nat /\ li \in Nat /\ ri \in Int
  BY FileType DEF TypeOK
<1>2. k < li \/ ri <= k
  BY <1>1
<1>. QED BY <1>1, <1>2 DEF LeftBefore, RightBehind, Holds

(* What the probe reads.                                                   *)
LEMMA ProbeReads ==
  ASSUME LookupInv, ReadRegion
  PROVE  /\ cur' \in Documents(did) /\ cur' \in Nat
         /\ li <= cur' /\ cur' < ri
         /\ region_from' = RegionFrom(did, cur') /\ region_from' \in Nat
         /\ region_to' = RegionTo(did, cur') /\ region_to' \in Nat
<1>1. DidSize(did) \in Nat /\ li \in Nat /\ ri \in 0 .. DidSize(did)
  BY FileType DEF LookupInv, TypeOK
<1>2. li < ri /\ cur' = Mid(li, ri)
  BY DEF ReadRegion
<1>3. ri \in Nat /\ ri <= DidSize(did)
  BY <1>1
<1>4. cur' \in Nat /\ li <= cur' /\ cur' < ri
  BY <1>1, <1>2, <1>3, MidBounds
<1>5. cur' \in Documents(did)
  BY <1>1, <1>3, <1>4 DEF Documents
<1>. QED BY <1>4, <1>5, FileType DEF ReadRegion, LookupInv

LEMMA LookupInitStep == ASSUME LookupInit PROVE LookupInv
<1>1. did \in DidFiles /\ DidOK(did) /\ did \in Seq(Nat)
  BY DidFilesAssumption DEF LookupInit, DidOK
<1>2. Len(did) \in Nat
  BY <1>1
<1>3. DidSize(did) \in Nat
  BY <1>2 DEF DidSize
<1>4. 0 \in 0 .. DidSize(did)
  BY <1>3
<1>. QED BY <1>1, <1>4
     DEF LookupInit, LookupInv, TypeOK, DrType, DrOK, AnswerCorrect,
         FailNumberIsNext, NoResult

LEMMA SearchStep ==
  ASSUME LookupInv, NEW t \in Targets, Search(t) PROVE LookupInv'
<1>1. DidSize(did) \in Nat /\ did' = did /\ lookup' = "loop"
  BY FileType DEF Search, LookupInv
<1>2. TypeOK'
  <2>1. t \in Nat /\ cur' \in Int
    BY TargetsAssumption, GarbageAssumption DEF Search
  <2>2. ri' \in 0 .. DidSize(did)
    BY <1>1 DEF Search
  <2>. QED BY <1>1, <2>1, <2>2
           DEF LookupInv, TypeOK, DrType, Search, NoResult
<1>3. Searching'
  <2>1. \A k \in Documents(did) : ~ (k < 0) /\ ~ (DidSize(did) <= k)
    BY <1>1, FileType DEF LookupInv
  <2>2. LeftBefore' /\ RightBehind'
    BY <1>1, <2>1 DEF LeftBefore, RightBehind, Search, DidSize, Documents
  <2>3. ~ RegionHit'
    BY <1>2 DEF RegionHit, Search, TypeOK
  <2>4. LastProbe'
    BY <1>1 DEF LastProbe, Search
  <2>. QED BY <2>2, <2>3, <2>4 DEF Searching
<1>4. DrOK'
  BY <1>1 DEF DrOK, AnswerCorrect, FailNumberIsNext, Search, NoResult
<1>. QED BY <1>1, <1>2, <1>3, <1>4 DEF LookupInv

LEMMA GoRightStep == ASSUME LookupInv, GoRight PROVE LookupInv'
<1>1. /\ cur' \in Documents(did) /\ cur' \in Nat
      /\ li <= cur' /\ cur' < ri
      /\ region_from' = RegionFrom(did, cur') /\ region_from' \in Nat
      /\ region_to' = RegionTo(did, cur') /\ region_to' \in Nat
  BY ProbeReads DEF GoRight
<1>2. /\ lookup' = "loop" /\ lookup = "loop" /\ did' = did /\ target' = target
      /\ ri' = ri /\ li' = cur' + 1 /\ dr' = dr
      /\ RegionTo(did, cur') <= target
  BY <1>1 DEF GoRight, ReadRegion
<1>3. TypeOK'
  <2>1. DidSize(did) \in Nat /\ ri \in 0 .. DidSize(did)
    BY FileType DEF LookupInv, TypeOK
  <2>2. ASSUME NEW c \in Nat, NEW r \in Nat, NEW n \in Nat, c < r, r <= n
        PROVE  c + 1 \in 0 .. n
    BY <2>2
  <2>3. cur' \in Nat /\ cur' < ri /\ ri \in Nat /\ ri <= DidSize(did)
    BY <1>1, <2>1
  <2>4. cur' + 1 \in 0 .. DidSize(did)
    BY <2>1, <2>2, <2>3
  <2>5. li' \in 0 .. DidSize(did') /\ ri' \in 0 .. DidSize(did')
    BY <1>2, <2>1, <2>4
  <2>6. cur' \in Int
    BY <1>1
  <2>7. did' \in Seq(Nat) /\ target' \in Nat /\ dr' \in DrType
    BY <1>2 DEF LookupInv, TypeOK
  <2>8. lookup' \in {"idle", "loop", "return"}
    BY <1>2
  <2>9. region_from' \in Nat /\ region_to' \in Nat
    BY <1>1
  <2>. QED BY <2>5, <2>6, <2>7, <2>8, <2>9 DEF TypeOK
<1>4. LeftBefore'
  <2>. SUFFICES ASSUME NEW k \in Documents(did), k < cur' + 1
                PROVE  RegionTo(did, k) <= target
    BY <1>2 DEF LeftBefore
  <2>1. k \in Nat /\ RegionTo(did, k) \in Nat /\ target \in Nat
    BY FileType DEF LookupInv, TypeOK
  <2>2. CASE k = cur'
    BY <1>2, <2>2
  <2>3. CASE k < cur'
    <3>1. RegionTo(did, k) <= RegionFrom(did, cur')
      BY <1>1, <2>3, FileType DEF LookupInv
    <3>2. RegionFrom(did, cur') <= RegionTo(did, cur')
      BY <1>1, FileType DEF LookupInv
    <3>3. /\ RegionFrom(did, cur') \in Nat /\ RegionTo(did, cur') \in Nat
          /\ RegionTo(did, cur') <= target
      BY <1>1, <1>2
    <3>. QED BY <2>1, <3>1, <3>2, <3>3
  <2>4. ASSUME NEW c \in Nat, NEW d \in Nat, d < c + 1
        PROVE  d = c \/ d < c
    BY <2>4
  <2>5. k = cur' \/ k < cur'
    BY <1>1, <2>1, <2>4
  <2>. QED BY <2>2, <2>3, <2>5
<1>5. RightBehind'
  BY <1>2 DEF LookupInv, Searching, RightBehind
<1>6. ~ RegionHit'
  BY <1>1, <1>2, <1>3 DEF RegionHit, TypeOK
<1>7. LastProbe'
  <2>1. RegionFrom(did, cur') <= RegionTo(did, cur') /\ target \in Nat
    BY <1>1, FileType DEF LookupInv, TypeOK
  <2>2. ~ (target < region_from')
    BY <1>1, <1>2, <2>1
  <2>. QED BY <1>2, <2>2 DEF LastProbe
<1>8. DrOK'
  BY <1>2 DEF LookupInv, DrOK, AnswerCorrect, FailNumberIsNext, NoResult
<1>. QED BY <1>2, <1>3, <1>4, <1>5, <1>6, <1>7, <1>8 DEF LookupInv, Searching

LEMMA GoLeftStep == ASSUME LookupInv, GoLeft PROVE LookupInv'
<1>1. /\ cur' \in Documents(did) /\ cur' \in Nat
      /\ li <= cur' /\ cur' < ri
      /\ region_from' = RegionFrom(did, cur') /\ region_from' \in Nat
      /\ region_to' = RegionTo(did, cur') /\ region_to' \in Nat
  BY ProbeReads DEF GoLeft
<1>2. /\ lookup' = "loop" /\ lookup = "loop" /\ did' = did /\ target' = target
      /\ ri' = cur' /\ li' = li /\ dr' = dr
      /\ target < RegionFrom(did, cur')
  BY <1>1 DEF GoLeft, ReadRegion
<1>3. TypeOK'
  <2>1. DidSize(did) \in Nat /\ cur' < DidSize(did)
    BY <1>1, FileType DEF LookupInv
  <2>2. cur' \in 0 .. DidSize(did)
    BY <1>1, <2>1
  <2>. QED BY <1>1, <1>2, <2>2 DEF LookupInv, TypeOK
<1>4. RightBehind'
  <2>. SUFFICES ASSUME NEW k \in Documents(did), cur' <= k
                PROVE  target < RegionFrom(did, k)
    BY <1>2 DEF RightBehind
  <2>1. k \in Nat /\ RegionFrom(did, k) \in Nat /\ target \in Nat
    BY FileType DEF LookupInv, TypeOK
  <2>2. CASE k = cur'
    BY <1>2, <2>2
  <2>3. CASE cur' < k
    <3>1. RegionTo(did, cur') <= RegionFrom(did, k)
      BY <1>1, <2>3, FileType DEF LookupInv
    <3>2. RegionFrom(did, cur') <= RegionTo(did, cur')
      BY <1>1, FileType DEF LookupInv
    <3>3. /\ RegionFrom(did, cur') \in Nat /\ RegionTo(did, cur') \in Nat
          /\ target < RegionFrom(did, cur')
      BY <1>1, <1>2
    <3>. QED BY <2>1, <3>1, <3>2, <3>3
  <2>. QED BY <1>1, <2>1, <2>2, <2>3
<1>5. LeftBefore'
  BY <1>2 DEF LookupInv, Searching, LeftBefore
<1>6. target < region_from'
  BY <1>1, <1>2
<1>7. ~ RegionHit' /\ LastProbe'
  <2>1. target \in Nat /\ target' = target /\ region_from' \in Nat
    BY <1>1, <1>2 DEF LookupInv, TypeOK
  <2>2. ~ (region_from' <= target)
    BY <1>6, <2>1
  <2>3. region_to' \in Nat /\ target < region_to'
    BY <1>1, <1>2 DEF GoLeft
  <2>. QED BY <1>6, <2>1, <2>2, <2>3 DEF RegionHit, LastProbe
<1>8. DrOK'
  BY <1>2 DEF LookupInv, DrOK, AnswerCorrect, FailNumberIsNext, NoResult
<1>. QED BY <1>2, <1>3, <1>4, <1>5, <1>7, <1>8 DEF LookupInv, Searching

LEMMA HitStep == ASSUME LookupInv, Hit PROVE LookupInv'
<1>1. /\ cur' \in Documents(did) /\ cur' \in Nat
      /\ region_from' = RegionFrom(did, cur') /\ region_from' \in Nat
      /\ region_to' = RegionTo(did, cur') /\ region_to' \in Nat
  BY ProbeReads DEF Hit
<1>2. /\ lookup' = "return" /\ lookup = "loop" /\ did' = did /\ target' = target
      /\ ri' = ri /\ li' = li /\ dr' = dr
      /\ region_from' <= target /\ target < region_to'
  BY DEF Hit, ReadRegion
<1>3. TypeOK'
  BY <1>1, <1>2 DEF LookupInv, TypeOK
<1>4. RegionHit' /\ HitIsCur'
  BY <1>1, <1>2 DEF RegionHit, HitIsCur
<1>5. DrOK'
  BY <1>2 DEF LookupInv, DrOK, AnswerCorrect, FailNumberIsNext, NoResult
<1>. QED BY <1>2, <1>3, <1>4, <1>5 DEF LookupInv, Decided

LEMMA LoopEndStep == ASSUME LookupInv, LoopEnd PROVE LookupInv'
<1>1. /\ lookup' = "return" /\ lookup = "loop" /\ li >= ri
      /\ UNCHANGED <<did, target, li, ri, cur, region_from, region_to, dr>>
  BY DEF LoopEnd
<1>2. TypeOK'
  BY <1>1 DEF LookupInv, TypeOK
<1>3. Searching'
  BY <1>1 DEF LookupInv, Searching, LeftBefore, RightBehind, RegionHit, LastProbe
<1>4. (ri <= li)'
  BY <1>1, FileType DEF LookupInv, TypeOK
<1>5. DrOK'
  BY <1>1 DEF LookupInv, DrOK, AnswerCorrect, FailNumberIsNext, NoResult
<1>. QED BY <1>1, <1>2, <1>3, <1>4, <1>5 DEF LookupInv, Decided

LEMMA ReturnFoundStep == ASSUME LookupInv, ReturnFound PROVE LookupInv'
<1>1. /\ lookup = "return" /\ lookup' = "idle"
      /\ UNCHANGED <<did, target, li, ri, cur, region_from, region_to>>
      /\ dr' = [stat |-> "SUCCESS", no |-> cur, start |-> region_from,
                size |-> region_to - region_from]
  BY DEF ReturnFound
<1>2. RegionHit /\ HitIsCur
  BY DEF ReturnFound, LookupInv, Decided, Searching, RegionHit
<1>3. /\ region_from \in Nat /\ region_to \in Nat /\ target \in Nat
      /\ region_from <= target /\ target < region_to
  BY <1>2 DEF LookupInv, TypeOK, RegionHit
<1>4. region_to - region_from \in Nat
  BY <1>3
<1>5. TypeOK'
  BY <1>1, <1>3, <1>4 DEF LookupInv, TypeOK, DrType
<1>6. region_from + (region_to - region_from) = region_to
  BY <1>3
<1>7. DrOK'
  BY <1>1, <1>2, <1>3, <1>6
  DEF DrOK, AnswerCorrect, FailNumberIsNext, HitIsCur, Holds
<1>. QED BY <1>1, <1>5, <1>7 DEF LookupInv

LEMMA ReturnFailStep == ASSUME LookupInv, ReturnFail PROVE LookupInv'
<1>1. /\ lookup = "return" /\ lookup' = "idle"
      /\ UNCHANGED <<did, target, li, ri, cur, region_from, region_to>>
      /\ dr' = [stat |-> "FAIL", no |-> FailNumber, start |-> 0, size |-> 0]
  BY DEF ReturnFail
<1>2. Searching /\ ri <= li
  BY DEF ReturnFail, LookupInv, Decided, RegionHit
<1>3. \A k \in Documents(did) : ~ Holds(did, k, target)
  BY <1>2, NothingHolds DEF LookupInv, Searching
<1>4. /\ DidSize(did) \in Nat /\ target \in Nat /\ region_from \in Nat
      /\ li \in Nat /\ ri \in Nat /\ ri <= DidSize(did) /\ cur \in Int
  BY FileType DEF LookupInv, TypeOK
<1>5. FailNumber \in Int
  BY <1>4 DEF FailNumber
<1>6. TypeOK'
  BY <1>1, <1>5 DEF LookupInv, TypeOK, DrType
<1>7. ASSUME DidSize(did) > 0, region_to <= target
      PROVE  NextDocument(FailNumber)
  <2>1. region_to \in Nat
    BY DEF LookupInv, TypeOK
  <2>2. cur + 1 = li /\ ~ (target < region_from)
    BY <1>2, <1>4, <1>7, <2>1 DEF Searching, LastProbe
  <2>3. FailNumber = li
    BY <2>2 DEF FailNumber
  <2>4. \A k \in Documents(did) : k < li <=> RegionTo(did, k) <= target
    <3>. SUFFICES ASSUME NEW k \in Documents(did), ~ (k < li)
                  PROVE  ~ (RegionTo(did, k) <= target)
      BY <1>2 DEF Searching, LeftBefore
    <3>1. /\ k \in Nat /\ RegionFrom(did, k) \in Nat
          /\ RegionTo(did, k) \in Nat
          /\ RegionFrom(did, k) <= RegionTo(did, k)
      BY FileType DEF LookupInv
    <3>2. ri <= k
      BY <1>2, <1>4, <3>1
    <3>3. target < RegionFrom(did, k)
      BY <1>2, <3>2 DEF Searching, RightBehind
    <3>. QED BY <1>4, <3>1, <3>3
  <2>5. li \in 0 .. DidSize(did)
    BY DEF LookupInv, TypeOK
  <2>. QED BY <1>4, <2>3, <2>4, <2>5 DEF NextDocument
<1>8. DrOK'
  BY <1>1, <1>3, <1>7
  DEF DrOK, AnswerCorrect, FailNumberIsNext, NextDocument, Holds
<1>. QED BY <1>1, <1>6, <1>8 DEF LookupInv

LEMMA LookupNextStep ==
  ASSUME LookupInv, [LookupNext]_lookup_vars PROVE LookupInv'
<1>1. CASE \E t \in Targets : Search(t)
  BY <1>1, SearchStep
<1>2. CASE GoRight
  BY <1>2, GoRightStep
<1>3. CASE GoLeft
  BY <1>3, GoLeftStep
<1>4. CASE Hit
  BY <1>4, HitStep
<1>5. CASE LoopEnd
  BY <1>5, LoopEndStep
<1>6. CASE ReturnFound
  BY <1>6, ReturnFoundStep
<1>7. CASE ReturnFail
  BY <1>7, ReturnFailStep
<1>8. CASE UNCHANGED lookup_vars
  BY <1>8
  DEF lookup_vars, LookupInv, TypeOK, Searching, LeftBefore, RightBehind, RegionHit,
      LastProbe, HitIsCur, Decided, DrOK, AnswerCorrect,
      FailNumberIsNext, NextDocument
<1>. QED BY <1>1, <1>2, <1>3, <1>4, <1>5, <1>6, <1>7, <1>8 DEF LookupNext, LookupStep

(* LookupInv is inductive.                                                 *)
THEOREM LookupInvariant == LookupSpec => []LookupInv
<1>1. LookupInit => LookupInv
  BY LookupInitStep
<1>2. LookupInv /\ [LookupNext]_lookup_vars => LookupInv'
  BY LookupNextStep
<1>. QED BY <1>1, <1>2, PTL DEF LookupSpec

(* Every variable keeps its type, and the probe stays in the file.         *)
THEOREM LookupTypeCorrect == LookupSpec => []TypeOK
<1>1. LookupInv => TypeOK
  BY DEF LookupInv
<1>. QED BY <1>1, LookupInvariant, PTL

(* The binary search never drops the document that holds the target.       *)
THEOREM WindowCorrect == LookupSpec => []WindowKeepsDocument
<1>1. LookupInv => WindowKeepsDocument
  <2>. SUFFICES ASSUME LookupInv, lookup = "loop", NEW k \in Documents(did),
                       Holds(did, k, target)
                PROVE  li <= k /\ k < ri
    BY DEF WindowKeepsDocument
  <2>1. /\ k \in Nat /\ RegionFrom(did, k) \in Nat /\ RegionTo(did, k) \in Nat
        /\ target \in Nat /\ li \in Int /\ ri \in Int
    BY FileType DEF LookupInv, TypeOK
  <2>2. ~ (k < li)
    BY <2>1 DEF LookupInv, Searching, LeftBefore, Holds
  <2>3. ~ (ri <= k)
    BY <2>1 DEF LookupInv, Searching, RightBehind, Holds
  <2>. QED BY <2>1, <2>2, <2>3
<1>. QED BY <1>1, LookupInvariant, PTL

(* sa_didsearch answers rightly, for every document file in order.         *)
THEOREM DidSearchCorrect == LookupSpec => []AnswerCorrect
<1>1. LookupInv => AnswerCorrect
  BY DEF LookupInv, DrOK
<1>. QED BY <1>1, LookupInvariant, PTL

(* What no is worth after a failed search.                                 *)
THEOREM FailNumberCorrect == LookupSpec => []FailNumberIsNext
<1>1. LookupInv => FailNumberIsNext
  BY DEF LookupInv, DrOK
<1>. QED BY <1>1, LookupInvariant, PTL
-----------------------------------------------------------------------------
(* Both together.  A file that is opened is in order as that on the disk   *)
(* is, and where none is open no search is under way.                      *)
NoSearch ==
  /\ lookup = "idle"
  /\ target = 0 /\ li = 0 /\ ri = 0 /\ cur = 0
  /\ region_from = 0 /\ region_to = 0
  /\ dr = NoResult

SystemInv ==
  /\ DocumentsInv
  /\ LookupInv
  /\ Closed => NoSearch

(* Any file in order may be opened where no search has begun.              *)
LEMMA NoSearchHolds == ASSUME NoSearch', DidOK(did') PROVE LookupInv'
<1>1. did' \in Seq(Nat) /\ Len(did') \in Nat
  BY DEF DidOK
<1>2. DidSize(did') \in Nat
  BY <1>1 DEF DidSize
<1>3. 0 \in 0 .. DidSize(did')
  BY <1>2
<1>. QED BY <1>1, <1>3
     DEF NoSearch, LookupInv, TypeOK, DrType, DrOK, AnswerCorrect,
         FailNumberIsNext, NoResult

LEMMA OpenStep == ASSUME SystemInv, OpenDid PROVE SystemInv'
<1>1. NoSearch' /\ did' = file /\ UNCHANGED vars
  BY DEF OpenDid, SystemInv, NoSearch
<1>2. DidOK(did')
  BY <1>1, WordsInOrder
  DEF SystemInv, DocumentsInv, FileInOrder, DidOK, Did!DidOK, Documents, Did!Documents,
      DidSize, Did!DidSize, RegionFrom, Did!RegionFrom, RegionTo, Did!RegionTo
<1>3. LookupInv'
  BY <1>1, <1>2, NoSearchHolds
<1>4. DocumentsInv'
  BY <1>1, MakerStep DEF SystemInv
<1>. QED BY <1>1, <1>3, <1>4 DEF SystemInv

LEMMA CloseStep == ASSUME SystemInv, CloseDid PROVE SystemInv'
<1>1. NoSearch' /\ did' = <<>> /\ UNCHANGED vars
  BY DEF CloseDid, NoSearch
<1>2. DidOK(did')
  BY <1>1 DEF DidOK, Documents, DidSize
<1>3. LookupInv'
  BY <1>1, <1>2, NoSearchHolds
<1>4. DocumentsInv'
  BY <1>1, MakerStep DEF SystemInv
<1>. QED BY <1>1, <1>3, <1>4 DEF SystemInv

LEMMA SystemInvariant == SystemSpec => []SystemInv
<1>1. SystemInit => SystemInv
  BY InitInv, InitDocuments, LookupInitStep
  DEF SystemInit, SystemInv, DocumentsInv, LookupInit, NoSearch
<1>2. SystemInv /\ [SystemNext]_system_vars => SystemInv'
  <2> SUFFICES ASSUME SystemInv, [SystemNext]_system_vars PROVE SystemInv'
    OBVIOUS
  <2>1. CASE OpenDid
    BY <2>1, OpenStep
  <2>2. CASE CloseDid
    BY <2>2, CloseStep
  <2>3. CASE Make
    <3>1. DocumentsInv' /\ LookupInv'
      BY <2>3, MakerStep, LookupNextStep DEF Make, SystemInv
    <3>2. (Closed => NoSearch)'
      BY <2>3 DEF Make, SystemInv, Closed, NoSearch, lookup_vars
    <3>. QED BY <3>1, <3>2 DEF SystemInv
  <2>4. CASE LookUp
    <3>1. DocumentsInv' /\ LookupInv'
      BY <2>4, MakerStep, LookupNextStep DEF LookUp, SystemInv
    <3>2. did' = did
      BY <2>4 DEF LookUp, LookupNext, LookupStep, Search, GoRight, GoLeft, Hit,
                  ReadRegion, LoopEnd, ReturnFound, ReturnFail
    <3>. QED BY <2>4, <3>1, <3>2 DEF SystemInv, LookUp, Closed
  <2>5. CASE UNCHANGED system_vars
    <3>1. DocumentsInv' /\ LookupInv'
      BY <2>5, MakerStep, LookupNextStep DEF system_vars, SystemInv
    <3>. QED BY <2>5, <3>1 DEF SystemInv, Closed, NoSearch, system_vars, lookup_vars
  <2>. QED BY <2>1, <2>2, <2>3, <2>4, <2>5 DEF SystemNext
<1>. QED BY <1>1, <1>2, PTL DEF SystemSpec

(* What is looked up in the file mkdid has left is found in the text mkdid *)
(* was given, for texts of any size and however the writing went.          *)
THEOREM LookupFindsInText == SystemSpec => []FoundInText
<1>1. SystemInv => FoundInText
  <2> SUFFICES ASSUME SystemInv, did = file, WellTagged(made) PROVE
        /\ dr.stat = "SUCCESS" =>
             /\ <<dr.start, dr.start + dr.size>> \in DocumentsOf(made)
             /\ dr.start <= target /\ target < dr.start + dr.size
        /\ dr.stat = "FAIL" /\ stat = "SUCCESS" /\ ~ full =>
             \A d \in DocumentsOf(made) : target < d[1] \/ d[2] <= target
    BY DEF FoundInText
  <2>1. /\ AnswerCorrect /\ FileHoldsDocuments /\ target \in Nat
        /\ \A k \in Documents(did) :
             RegionFrom(did, k) \in Nat /\ RegionTo(did, k) \in Nat
    BY DocumentsHeld, FileType DEF SystemInv, LookupInv, DrOK, TypeOK
  <2>2. DocumentsIn(file) = {<<RegionFrom(did, k), RegionTo(did, k)>> :
                               k \in Documents(did)}
    BY DEF DocumentsIn, Documents, Did!Documents, DidSize, Did!DidSize,
           RegionFrom, Did!RegionFrom, RegionTo, Did!RegionTo
  <2>3. ASSUME dr.stat = "SUCCESS"
        PROVE  /\ <<dr.start, dr.start + dr.size>> \in DocumentsOf(made)
               /\ dr.start <= target /\ target < dr.start + dr.size
    <3>1. /\ dr.no \in Documents(did)
          /\ Holds(did, dr.no, target)
          /\ dr.start = RegionFrom(did, dr.no)
          /\ dr.start + dr.size = RegionTo(did, dr.no)
      BY <2>1, <2>3 DEF AnswerCorrect
    <3>2. <<dr.start, dr.start + dr.size>> \in DocumentsIn(file)
      BY <2>2, <3>1
    <3>. QED BY <2>1, <3>1, <3>2 DEF FileHoldsDocuments, Holds
  <2>4. ASSUME dr.stat = "FAIL", stat = "SUCCESS", ~ full,
               NEW d \in DocumentsOf(made)
        PROVE  target < d[1] \/ d[2] <= target
    <3>1. d \in DocumentsIn(file)
      BY <2>1, <2>4 DEF FileHoldsDocuments
    <3>2. PICK k \in Documents(did) : d = <<RegionFrom(did, k), RegionTo(did, k)>>
      BY <2>2, <3>1
    <3>3. ~ Holds(did, k, target)
      BY <2>1, <2>4 DEF AnswerCorrect
    <3>. QED BY <2>1, <3>2, <3>3 DEF Holds
  <2>. QED BY <2>3, <2>4
<1>. QED BY <1>1, SystemInvariant, PTL
=============================================================================
