-------------------------------- MODULE Sass --------------------------------
(***************************************************************************)
(* src/sass.c: one run of the searcher over its arguments and, with -s,    *)
(* over the lines of its standard input.  Opening is sa_open, searching    *)
(* sa_find or the list of sa_regex and sa_ignore_case, both taken by their *)
(* promises; what is printed is kept as a sequence of regions.             *)
(***************************************************************************)
EXTENDS Region, SequencesExt

CONSTANTS Disks,      \* [texts, arrays], each a function from file names
          Arguments   \* [options, fnames, lines], the pattern in lines if no -s

(* mkary writes an index point once.                                       *)
DiskOK(d) ==
  /\ \A f \in DOMAIN d.texts : d.texts[f] \in Seq(Byte)
  /\ \A f \in DOMAIN d.arrays :
       d.arrays[f] \in Seq(Nat) /\ IsInjective(d.arrays[f])

(* ck_atoi refuses what is not a natural number; an argument of -t has one *)
(* comma at most.                                                          *)
OptionOK(t) ==
  /\ t.ch \in {"A", "B", "C", "digit"} => t.arg \in Nat
  /\ t.ch = "t" => t.arg \in Seq(Seq(Byte)) /\ Len(t.arg) \in {1, 2}

(* Without -s there is one pattern; a line that fgets has read has a byte. *)
ArgumentsOK(a) ==
  /\ a.options \in Seq(Range(a.options)) /\ a.lines \in Seq(Seq(Byte))
  /\ \A t \in Range(a.options) : OptionOK(t)
  /\ IF \E t \in Range(a.options) : t.ch = "s"
     THEN <<>> \notin Range(a.lines)
     ELSE Len(a.lines) = 1

ASSUME DisksAssumption == \A d \in Disks : DiskOK(d)
ASSUME ArgumentsAssumption == \A a \in Arguments : ArgumentsOK(a)

VARIABLES disk,
          args,
          opts,       \* the global variables parse_options sets
          lines,      \* the lines or the pattern still to be read
          pc,         \* where the run is
          ary,        \* the SUFARY, when one is open
          key,        \* the pattern being searched
          i,          \* the loop counter of parse_options, print_sorted_result
          rgnary,     \* the positions collected for -S
          rgnary_at,  \* "NULL", "live" or, once freed, "freed"
          blocks,     \* what is allocated: "ary" and "rgnary", on the list of
                      \* sa_malloc, and "results", by malloc itself
          out         \* what was printed for the present pattern

vars == <<disk, args, opts, lines, pc, ary, key, i, rgnary, rgnary_at, blocks,
          out>>

session == <<disk, args, opts>>

memory == <<rgnary, rgnary_at, blocks>>

-----------------------------------------------------------------------------
(* parse_options: one option after the other sets the global variables.    *)

NoOptions ==
  [regex |-> FALSE, stdin |-> FALSE, ignore_case |-> FALSE, emphasis |-> FALSE,
   uniq |-> FALSE, sort |-> FALSE, count |-> FALSE, tag |-> FALSE,
   tags |-> <<<<>>, <<>>>>, before |-> 0, after |-> 0, digits |-> 0,
   array_file |-> "", exit |-> FALSE]

(* "<a>,</a>" to its two tags; without a comma the second stays as it is.  *)
ParseTags(tags, arg) == IF Len(arg) = 2 THEN arg ELSE <<arg[1], tags[2]>>

SetOption(o, t) ==
  CASE t.ch = "i" -> [o EXCEPT !.ignore_case = TRUE]
    [] t.ch = "r" -> [o EXCEPT !.regex = TRUE]
    [] t.ch = "s" -> [o EXCEPT !.stdin = TRUE]
    [] t.ch = "A" -> [o EXCEPT !.after = t.arg]
    [] t.ch = "B" -> [o EXCEPT !.before = t.arg]
    [] t.ch = "C" -> [o EXCEPT !.before = t.arg, !.after = t.arg]
    [] t.ch = "digit" -> LET val == 10 * o.digits + t.arg IN
         [o EXCEPT !.digits = val, !.before = val, !.after = val]
    [] t.ch = "t" -> [o EXCEPT !.tag = TRUE, !.tags = ParseTags(@, t.arg)]
    [] t.ch = "a" -> [o EXCEPT !.array_file = t.arg]
    [] t.ch = "k" -> [o EXCEPT !.emphasis = TRUE]
    [] t.ch = "u" -> [o EXCEPT !.uniq = TRUE, !.sort = TRUE]
    [] t.ch = "S" -> [o EXCEPT !.sort = TRUE]
    [] t.ch = "c" -> [o EXCEPT !.count = TRUE]
    [] t.ch = "d" -> o  \* only the library's debug mode is set
    [] OTHER -> [o EXCEPT !.exit = TRUE]

-----------------------------------------------------------------------------
NoAry == [text |-> <<>>, array |-> <<>>]

(* The index points a search for the pattern yields, in the array's order;  *)
(* the bytes of a pattern stand for themselves, with -i but for case.      *)
Fold(o, byte) == IF o.ignore_case /\ byte \in 97 .. 122 THEN byte - 32 ELSE byte

IsMatch(a, k, p) ==
  /\ p + Len(k) <= Len(a.text)
  /\ \A m \in 1 .. Len(k) : Fold(opts, a.text[p + m]) = Fold(opts, k[m])

Hits(a, k) == {c \in DOMAIN a.array : IsMatch(a, k, a.array[c])}

Nth(S, n) == CHOOSE c \in S : Cardinality({b \in S : b <= c}) = n

Matches(a, k) ==
  [n \in 1 .. Cardinality(Hits(a, k)) |-> a.array[Nth(Hits(a, k), n)]]

GetOneRegion(a, pos) ==
  IF opts.tag THEN SeekContextRegion(a, pos, opts.tags[1], opts.tags[2])
  ELSE LET sstr == SeekContextLines(a, pos, opts.before, opts.after) IN
       IF Char(a, sstr.ptr + sstr.len - 1) = NL
       THEN [sstr EXCEPT !.len = @ - 1] ELSE sstr

(* printf with a negative precision prints up to the first NUL behind the  *)
(* text: without one in it, everything that is left of the text.           *)
PrintedTo(a, from, len) == IF len < 0 THEN Len(a.text) ELSE from + len

(* A region printed: up to shown_to, its keyword [pos, pos + key_len)      *)
(* emphasized.                                                             *)
PrintOneRegion(a, sstr, pos, key_len) ==
  [pos |-> pos, ptr |-> sstr.ptr, end |-> sstr.ptr + sstr.len,
   key_len |-> IF opts.emphasis THEN key_len ELSE 0,
   shown_to |-> IF opts.emphasis
                THEN PrintedTo(a, pos + key_len, sstr.len - (pos - sstr.ptr + key_len))
                ELSE sstr.ptr + sstr.len]

(* Fault: one byte too many is taken for the keyword.                      *)
RegionsLongKey(a, list, key_len) ==
  [n \in DOMAIN list |->
     PrintOneRegion(a, GetOneRegion(a, list[n]), list[n], key_len + 1)]

Regions(a, list, key_len) ==
  [n \in DOMAIN list |->
     PrintOneRegion(a, GetOneRegion(a, list[n]), list[n], key_len)]

(* Fault: the positions are left in the array's order.                     *)
QsortNot(list) == list

(* qsort with index_cmp.                                                   *)
Qsort(list) ==
  LET UpTo(c) == {b \in DOMAIN list :
                    list[b] < list[c] \/ (list[b] = list[c] /\ b <= c)}
  IN [n \in DOMAIN list |->
        list[CHOOSE c \in DOMAIN list : Cardinality(UpTo(c)) = n]]

-----------------------------------------------------------------------------
Init ==
  /\ disk \in Disks
  /\ args \in Arguments
  /\ opts = NoOptions
  /\ lines = <<>>
  /\ pc = "start"
  /\ ary = NoAry
  /\ key = <<>>
  /\ i = 0
  /\ rgnary = <<>>
  /\ rgnary_at = "NULL"
  /\ blocks = {}
  /\ out = <<>>

ParseOption ==
  /\ pc = "start" /\ i < Len(args.options)
  /\ opts' = SetOption(opts, args.options[i + 1])
  /\ i' = i + 1
  /\ pc' = IF opts'.exit THEN "failed" ELSE pc
  /\ UNCHANGED <<disk, args, lines, ary, key, memory, out>>

Start ==
  /\ pc = "start" /\ i = Len(args.options)
  /\ lines' = args.lines
  /\ pc' = IF args.fnames = <<>> THEN "failed" ELSE "key"
  /\ UNCHANGED <<session, ary, key, i, memory, out>>

(* The last byte of a line read is cut off as its newline.                 *)
ReadKey ==
  /\ pc = "key" /\ lines # <<>>
  /\ key' = IF opts.stdin THEN Front(lines[1]) ELSE lines[1]
  /\ lines' = Tail(lines)
  /\ out' = <<>>
  /\ pc' = "open"
  /\ UNCHANGED <<session, ary, i, memory>>

ArrayName == IF opts.array_file = "" THEN args.fnames[1] ELSE opts.array_file

OnDisk == args.fnames[1] \in DOMAIN disk.texts /\ ArrayName \in DOMAIN disk.arrays

(* array_file_name is an array and never null, so that the loop over the   *)
(* files behind the test for it is never reached.                          *)
Open ==
  /\ pc = "open" /\ OnDisk
  /\ ary' = [text |-> disk.texts[args.fnames[1]], array |-> disk.arrays[ArrayName]]
  /\ blocks' = blocks \union {"ary"}
  /\ pc' = "search"
  /\ UNCHANGED <<session, lines, key, i, rgnary, rgnary_at, out>>

OpenFails ==
  /\ pc = "open" /\ ~ OnDisk
  /\ pc' = "failed"
  /\ UNCHANGED <<session, lines, ary, key, i, memory, out>>

ListMode == opts.regex \/ opts.ignore_case

Searching == pc = "search" /\ key # <<>>

EmptyKey ==
  /\ pc = "search" /\ key = <<>>
  /\ pc' = "close"
  /\ UNCHANGED <<session, lines, ary, key, i, memory, out>>

(* The list of sa_regex or sa_ignore_case is counted and not freed.        *)
CountMatches ==
  /\ Searching /\ opts.count
  /\ out' = <<[count |-> Len(Matches(ary, key))]>>
  /\ blocks' = blocks \union (IF ListMode /\ Matches(ary, key) # <<>>
                              THEN {"results"} ELSE {})
  /\ pc' = "close"
  /\ UNCHANGED <<session, lines, ary, key, i, rgnary, rgnary_at>>

PrintMatches ==
  /\ Searching /\ ~ opts.count /\ ~ opts.sort
  /\ out' = Regions(ary, Matches(ary, key), Len(key))
  /\ pc' = "close"
  /\ UNCHANGED <<session, lines, ary, key, i, memory>>

(* The empty list of a regular expression is collected, too; the list is   *)
(* freed when its positions are copied.                                    *)
CollectForSort ==
  /\ Searching /\ ~ opts.count /\ opts.sort
  /\ ListMode \/ Matches(ary, key) # <<>>
  /\ rgnary' = Matches(ary, key)
  /\ rgnary_at' = "live"
  /\ blocks' = blocks \union {"rgnary"}
  /\ pc' = "print"
  /\ UNCHANGED <<session, lines, ary, key, i, out>>

FindFails ==
  /\ Searching /\ ~ opts.count /\ opts.sort
  /\ ~ ListMode /\ Matches(ary, key) = <<>>
  /\ pc' = "print"
  /\ UNCHANGED <<session, lines, ary, key, i, memory, out>>

PrintSorted ==
  /\ pc = "print" /\ rgnary_at = "live"
  /\ rgnary' = Qsort(rgnary)
  /\ i' = 0
  /\ pc' = "printing"
  /\ UNCHANGED <<session, lines, ary, key, rgnary_at, blocks, out>>

(* pre_region_tail is the end of the region printed last, or the text.     *)
Skipped(pos) == opts.uniq /\ out # <<>> /\ pos < Last(out).end

(* The length given for the keyword is always 2.                           *)
PrintNext ==
  /\ pc = "printing" /\ i < Len(rgnary)
  /\ LET pos == rgnary[i + 1] IN
       out' = IF Skipped(pos) THEN out
              ELSE Append(out, PrintOneRegion(ary, GetOneRegion(ary, pos), pos, 2))
  /\ i' = i + 1
  /\ UNCHANGED <<session, lines, pc, ary, key, memory>>

(* Fault: the positions are not freed.                                     *)
FreeResultLeak ==
  /\ pc = "printing" /\ i = Len(rgnary)
  /\ rgnary_at' = "NULL"
  /\ pc' = "close"
  /\ UNCHANGED <<session, lines, ary, key, i, rgnary, blocks, out>>

(* rgnary keeps its address when it is freed.                              *)
FreeResult ==
  /\ pc = "printing" /\ i = Len(rgnary)
  /\ rgnary_at' = "freed"
  /\ blocks' = blocks \ {"rgnary"}
  /\ pc' = "close"
  /\ UNCHANGED <<session, lines, ary, key, i, rgnary, out>>

PrintNothing ==
  /\ pc = "print" /\ rgnary_at = "NULL"
  /\ pc' = "close"
  /\ UNCHANGED <<session, lines, ary, key, i, memory, out>>

(* Sorting, printing and freeing what is freed already: from here on the   *)
(* run may do anything.                                                    *)
PrintFreed ==
  /\ pc = "print" /\ rgnary_at = "freed"
  /\ pc' = "undefined"
  /\ UNCHANGED <<session, lines, ary, key, i, memory, out>>

Close ==
  /\ pc = "close"
  /\ ary' = NoAry
  /\ blocks' = blocks \ {"ary"}
  /\ pc' = "key"
  /\ UNCHANGED <<session, lines, key, i, rgnary, rgnary_at, out>>

Finish ==
  /\ pc = "key" /\ lines = <<>>
  /\ pc' = "done"
  /\ UNCHANGED <<session, lines, ary, key, i, memory, out>>

Next ==
  \/ ParseOption \/ Start \/ ReadKey \/ Open \/ OpenFails \/ EmptyKey
  \/ CountMatches \/ PrintMatches \/ CollectForSort \/ FindFails
  \/ PrintSorted \/ PrintNext \/ FreeResult \/ PrintNothing \/ PrintFreed
  \/ Close \/ Finish

Spec == Init /\ [][Next]_vars

-----------------------------------------------------------------------------
Answered == pc = "close" /\ key # <<>>

Printed == IF opts.count THEN {} ELSE DOMAIN out

Ascends(list) == \A m, n \in DOMAIN list : m < n => list[m].pos < list[n].pos

(* Without -c, each match is printed, in the array's order or, with -S, in *)
(* the order of the text; with -u, a match is left out only if it lies in  *)
(* a region printed for an earlier one, and regions without leading        *)
(* context never show a line twice.                                        *)
EveryMatchPrinted ==
  Answered /\ ~ opts.count =>
    LET found == Matches(ary, key)
        printed == {out[n].pos : n \in DOMAIN out}
    IN /\ opts.sort => Ascends(out)
       /\ ~ opts.sort => Len(out) = Len(found)
       /\ ~ opts.uniq => printed = ToSet(found)
       /\ opts.uniq =>
            \A p \in ToSet(found) : \E n \in DOMAIN out :
              p = out[n].pos \/ p \in out[n].ptr .. out[n].end - 1
       /\ opts.uniq /\ opts.before = 0 /\ ~ opts.tag /\ key[1] # NL =>
            \A m, n \in DOMAIN out : m < n => out[m].end < out[n].ptr

LineOf(p) == Cardinality({q \in 0 .. p - 1 : Char(ary, q) = NL})

EmptyLine(l) == \E p \in 0 .. Eof(ary) - 1 :
  LineOf(p) = l /\ Char(ary, p) = NL /\ (p = 0 \/ Char(ary, p - 1) = NL)

(* A region of lines begins with the line the given number of lines before *)
(* the match and holds all lines up to the given number behind it; it      *)
(* holds no further line unless an empty one follows the match, which      *)
(* sa_seek_context_lines steps over.                                       *)
RegionsHoldTheirLines ==
  Answered /\ ~ opts.tag =>
    \A n \in Printed :
      LET at == LineOf(out[n].pos)
          wanted == {p \in 0 .. Eof(ary) - 1 :
                       at - opts.before <= LineOf(p) /\ LineOf(p) <= at + opts.after}
          shown == out[n].ptr .. out[n].end - 1
          newline == IF Char(ary, out[n].end) = NL THEN {out[n].end} ELSE {}
          empty == \E l \in at + 1 .. at + opts.after : EmptyLine(l)
      IN /\ wanted \subseteq shown \union newline
         /\ ~ empty => shown \subseteq wanted
         /\ \A p \in shown : at - opts.before <= LineOf(p)

(* A region of tags holds its match, from the nearest begin tag before it  *)
(* or the top of the text to the nearest end tag behind or the end.        *)
RegionsRunFromTagToTag ==
  Answered /\ opts.tag =>
    \A n \in Printed :
      LET r == out[n]
          begin == opts.tags[1]
          stop == r.end - Len(opts.tags[2])
      IN /\ r.ptr <= r.pos /\ r.pos <= r.end
         /\ r.ptr > 0 => PatternAt(ary, r.ptr, begin)
         /\ \A p \in r.ptr + 1 .. r.pos : ~ PatternAt(ary, p, begin)
         /\ \A p \in r.pos .. stop - 1 : ~ PatternAt(ary, p, opts.tags[2])
         /\ r.end < Eof(ary) => stop >= r.pos /\ PatternAt(ary, stop, opts.tags[2])

(* Emphasis shows the region and nothing else, where the keyword lies in   *)
(* one line and is not shorter than the two bytes -S takes it to have.     *)
EmphasisShowsTheRegion ==
  Answered /\ ~ opts.tag /\ (\A m \in DOMAIN key : key[m] # NL)
           /\ (opts.sort => Len(key) >= 2) =>
    \A n \in Printed : out[n].shown_to = out[n].end

(* At the end of a run the assertion of main on sa_malloc's list holds:    *)
(* each SUFARY and each array of positions was freed; what is left is a    *)
(* list of results counted with -c, which is not on that list.             *)
OnlyCountedListsLeft ==
  pc = "done" => /\ blocks \subseteq {"results"}
                 /\ "results" \in blocks => opts.count /\ ListMode

(* What the usage says of -s and -S: a pattern is read from the standard   *)
(* input and its results are sorted, not what another pattern has left.    *)
OwnResultsSorted ==
  pc = "print" /\ rgnary_at # "NULL" => rgnary = Matches(ary, key)
=============================================================================
