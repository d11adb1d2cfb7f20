# SUFARY in TLA+

SUFARY is a full-text search system built on suffix arrays.  An indexer
(`mkary`) writes, beside a text, a file of *index points* (offsets into the
text) sorted by the suffix that starts at each; a search is then a binary
search over that file.  A second file, made by `mkdid`, holds the *documents*
of the text as regions; it turns a position into the document that holds it.
This directory specifies the system in TLA+, checks it with TLC on small
instances and proves a good part of it with TLAPS.

## 1. Inventory

| part | code | state it keeps | operations | hard behaviour | what makes it correct |
|---|---|---|---|---|---|
| key search | `lib/search.c` | none but the static `keyary` | `sa_find` = three runs of `sa_bsearch` | bytes skipped unread, windows reused for another key, stale key buffer, reads at the end of the text | the answer is exactly the range of index points where the key stands |
| document lookup | `lib/did.c` | the mapped `.did` file | `sa_didsearch`, accessors, open, close | gaps between regions, result built from the last probe, cut-off file | the document that holds the position, or FAIL |
| document file maker | `lib/make-did.c`, `src/mkdid.c` | `.did` file | `sa_make_did` | in-place doubling, non-atomic write, unchecked writes, unbalanced tags | the file holds the documents and is always searchable |
| index points | `lib/index-point.c`, first half of `mkary` | delimiter and ignore lists (static) | `sa_get_next_ip_*`, `sa_write_index` | multi-byte characters, first and last position, comment lines | the points are in order, inside the text, those the options ask for |
| index sorting | `lib/make-index.c`, `src/mkary.c` | the `.ary` file mapped shared, blocks, the static heap | `sa_sort_index` (three sorters), `sa_is_sorted` | in-place byte swap, merge to a second file and rename, dropped status, NUL bytes | the file ends up a sorted permutation in big-endian order |
| handles | `lib/file.c`, `lib/mmp.c`, `lib/my-malloc.c`, the objects of `ruby/sufary.c` | SUFARY, DID, SA_MMAP blocks, the list of `sa_malloc`; the Ruby objects around them | open, close, garbage collection | failure half-way, collection in any order, a pointer the collector does not know of | each block has one owner and is freed once |
| regions | `lib/region.c` | none | `sa_seek_*`, `sa_pattern_*` | pointer walks at both ends of the text | the lines, or the tags, around the hit |
| regular expressions | `lib/regex.c` | bit vectors, result list | `sa_regex`, `sa_ignore_case` | recursion that narrows ranges with `base_txt_skip`, optional items that go back to an older range | each match once for each way to match it |
| `sass` | `src/sass.c` | result buffer, options | one key, or one per line of stdin | a buffer kept from key to key, options that override each other | each match printed, with its region |
| `af` | `src/af.c` | check bits per document | AND/NOT query | bits per key, marking of printed documents | the documents that satisfy the query |
| rest | `sang`, `getopt`, `perl/`, the methods of `ruby/`, `kwicview/`, docs | | | | not modelled, see 7 |

How they interact: everything is called on one thread and everything is
shared through files.  `mkary` writes the `.ary` file, `mkdid` opens text and
`.ary` and searches the tags with `sa_find`, `sass`, `af`, the bindings and
`sa_regex` call `sa_find`; `af` looks the hits up with `sa_didsearch`.  Files
are mapped shared and written in place, so a reader that is already running,
or starts while an indexer runs or after one has died, sees what is there.

What each part must get right, and where it is said:

- *search*: exactly the occurrences, no read behind the byte after the text,
  soundness of the bytes skipped, independence of the static buffer
  (`ResultCorrect`, `ReadsStopAtEndOfText`, `SkippedBytesAgree`);
- *documents*: the document of every position, also next to gaps and in a file
  cut off (`AnswerCorrect`); a file that can be searched whatever happened to
  its maker (`FileInOrder`, `FileHoldsDocuments`, `FailLeavesFile`); and both
  together, a position found in the document of the text (`FoundInText`);
- *index*: the points asked for, in order (`PointsInOrder`,
  `PointsAreThoseAskedFor`), and a sorted array in the byte order of the format
  (`MultikeyInOrder`, `HeapWellFormed`, `MergeInOrder`, `SortedAtEnd`), with NUL in
  the text sorted as far as it (`SortedUpToNul`);
- *af*: the documents that satisfy the query, each once, from query to query
  (`AnswerIsQuery`, `FoundOnce`, `NotKeysRefuse`);
- *expressions*: each search stays within what `sa_find` promises
  (`PendingCallsAreSound`), each match once for each way to match it
  (`ResultsAreMatches`, `IgnoreCaseExact`), an end (`CallsShortenTheKey`);
- *sass* and *regions*: no match lost (`EveryMatchPrinted`), the lines or tags
  around it (`RegionsHoldTheirLines`, `RegionsRunFromTagToTag`,
  `EmphasisShowsTheRegion`), nothing on `sa_malloc`'s list left at the end
  (`OnlyCountedListsLeft`);
- *handles*: one owner for each block (`BlocksHaveOneOwner`) and nothing freed twice
  in the default mode (`DebugModeIsSafe`).

Where the code does otherwise than a doc says, four of the docs' statements are
properties of their own, which runs show violated; the rest are listed in section 8.

The hazards, each with its line and the properties that would notice it, are
listed in `PROJECT.json`.

## 2. Plan

The search comes first because every other part calls it or feeds it; then
documents, then the programs that make the files, then those that use both.

| # | module | composes | abstract specification or reference | state |
|---|---|---|---|---|
| 1 | `Suffix`, `FindSpec`, `Search` | `Search` refines `FindSpec` | `FindSpec`: one step answers | checked, proved |
| 2 | `DidSearch` | | the one document that holds a position | checked, proved |
| 3 | `MakeDid`, `DocumentFile` | `DocumentFile`: 3 writes what 2 reads (`DidOK`) | documents said of sets of tags | checked, proved |
| 4 | `IndexPoint`, `WriteIndex` | | the points asked for, said of single positions | checked, proved |
| 5 | `Multikey`, `SortIndex` | writes what `Search` assumes (`IndexOK`) | `Sorted` of `Suffix` | checked, proved |
| 6 | `Af` | uses the promises of 1 and 2 | the query as a formula | checked, proved |
| 7 | `Region`, `Sass` | `Sass` uses 1 and the regions | the lines and tags of the text; the matches | checked, proved |
| 8 | `Handles` | the library under the Ruby objects | a partition of the heap | checked, proved |
| 9 | `Regex` | uses `FindSpec` of 1 | the ways in which items make up a piece of text | checked; calls, end and `sa_ignore_case` proved |

All safety properties that passing runs check are proved but `ResultsAreMatches` of
`Regex` and `SortedUpToNul` of `SortIndex`, for which section 6 has the reasons.

Runs keep to texts of up to six symbols: what these algorithms tell apart is the
order of a few suffixes and the place of a few ends, and every hazard listed
shows within that size (each property has a seeded fault that it finds there).

## 3. Modules and code

All code is sequential; what makes it hard is data left over from the step
or the call before, and files that others see half-made.  So an action is one
turn of a loop or one piece of straight-line code that calls nothing else of
interest; `pc` names the function or loop, `Return` is the return statement.
Where a program touches a file, `Crash` may take the place of any action.
Definitions commented `Fault:` are not part of the model: each is a plausible
slip in the definition behind it, used to see that a property notices it.

**Suffix** (the struct `SUFARY`, `sa_strcmp`, `sa_is_sorted`) has the data all
share: a text and its array of index points, the order of suffixes, and
`IndexOK`, what a sorted index is.  A byte behind the text reads as 0, as the
rest of the last mapped page does.

**FindSpec** says what `sa_find` promises, with one step from question to
answer.  **Search** is `sa_find` with its three runs of `sa_bsearch`.  `sbr` is
the `SA_BSEARCH_RESULT` under work, `sbr_1` and `sbr_r` the results of the
first two steps, `keyary` the static buffer with the sentinels 256 and -1 put
behind the key.  `ProbeLess`, `ProbeGreater`, `ProbeMatch` are the three ways
one turn of `sa_bsearch` ends; the comparison starts `TxtSkip` bytes in.
`SaIndexMax` bounds `SA_INDEX`; sums that leave it wrap.  `SearchInv` has the
inductive invariant; `SearchProofs` the proofs.

**DidSearch** is `sa_didsearch`: `cur`, `region_from`, `region_to` keep what
the last probe left, and `ReturnFound`, `ReturnFail` decide from these, as in
the code.  `cur` starts as garbage.  `lookup` says where the search stands; the
specification is `LookupSpec`.  **MakeDid** is `sa_make_did` under
`mkdid`: the two searches for tags give hits in suffix order (`Taggings`), a
run sorts them, doubles the starts in place from the top, creates the file
and writes it word by word; a word may be lost on a full disk.  `Qsort` gives
each cell the place that as many cells come before as are smaller, or equal and
to its left: what the library's `qsort` does, without a recursion.  `made` and
`kept` are ghosts that remember which tagging the file came from and whether
the last run has touched it.  **DocumentFile** puts the two together: `OpenDid` maps
what runs of `mkdid` have left, `LookUp` is any step of `sa_didsearch` on it, and
`mkdid` runs again behind `CloseDid`.  `FoundInText` then speaks of the text that
`mkdid` was given, and no longer of words in a file.

**IndexPoint** has the functions of `index-point.c` as operators over classes of
bytes: newline, space (for all delimiters of `-w`), `#`, `<`, other ASCII, a byte
with its high bit set, NUL.  **WriteIndex** is the loop of `sa_write_index`
around them, with `file` as the array file, possibly left by an earlier run.
`WriteIndexProofs` has the inductive invariant and the proofs.

**SortIndex** is `sa_sort_index`.  `ary.array` and `host` are the mapped file:
its words, and which of them are in host order at the moment; `ReverseWord`
swaps one.  A block size of 0 is the default, multikey quicksort over the whole
array; -1 is `qsort`, in the one step `SystemQsort`; any other the blocks of
`-M`, each sorted by multikey quicksort (`SortBlock`, `BlockSorted`), put on the
heap by `insertheap` and merged by `MergeWord`, one word a turn of
`sa_merge_blocks`.  `merged` is the second file, `renamed` says whether it has
replaced the first; `strbuf` is a block's cache of `CacheSize` (`STR_CACHE_SIZE`)
bytes.  `Upheap` and `Downheap` are one turn of the loops of those names: `v` is the
block that is moved, `hole` the place in the heap left free for it, and `UpheapDone`,
`DownheapDone` put it there.  `upheap` compares by `sa_strcmp`, `downheap` by `strcmp`
over the caches, both as written.  `SortInv` has the inductive invariant;
`SortIndexProofs` the proofs, first about suffixes, `qsort` and the sort in place,
then about the heap, the merge and the whole.

**Multikey** is `multikey_qsort`, with the recursion as a stack: `ranges` are the
calls outstanding, `scan` the range being split, with the indices `a`, `b`, `c`, `d`
of the code.  `PassSmaller` and `PassGreater` are turns of the inner loops,
`Exchange` the swap between them, `Split` the two `swap_vector`s and the three calls
behind them; the pivot is any word, for `rand()`.  Ranges of up to `CutOff` words
(1000 in the code) go to the library's `qsort` in one step.  Behind a NUL the
code does not go on sorting the words that share it.  The property of the splits
therefore speaks of texts without NUL.  `SortedAtEnd` promises big-endian order and
all the points for any text, but a sorted index only for texts without NUL or where
`qsort` has sorted; for the rest `SortedUpToNul` says that the file is sorted as far
as the first NUL of each suffix, and so for any key that has none.

**Af** is `af`: `ParseTerm` is a turn of `parse_keys`, from `line` to `keys` and
`nkeys`; the loops of `do_kensaku` follow, one hit a step.  `did_check` has a byte
for each document, as the set of its bits; `checker` doubles within `CharBit` bits.  `sa_find` is a sequence of hits and
`sa_didsearch` the document of each, as proved of `Search` and `DidSearch`.  Any
such sequences for two keys that are no prefixes of each other belong to some
text, so none of the placings is out of reach.  `AfInv` has the inductive
invariant, `AfProofs` the proofs.

**Region** has the functions of `region.c`, pointers as offsets, loops as the
maximum or minimum they stop at.  **Sass** is a run of `sass`: `ParseOption` is one turn of `parse_options`, so
that a later option overrides an earlier one as it does there, and each key goes
from `ReadKey` over `Open` and a search to `Close`.  The search is `CountMatches`,
`PrintMatches` or, with `-S`, `CollectForSort` and `print_sorted_result`:
`PrintSorted` sorts, `PrintNext` is one turn of its loop, which prints the region
of a position or skips it (`Skipped`), and `FreeResult` frees the positions.
`rgnary` and `rgnary_at` are the positions and what has become of their block:
`PrintFreed` is the second reading of a freed block, behind which anything may
happen, so that the run ends there.  `blocks` is what is allocated: the `SUFARY` and
the positions, which stand on the list of `sa_malloc` that `main` asserts to be empty
at the end, and `"results"`, the list of `sa_regex`, which does not: it comes from
`malloc` itself, and with `-c` it is counted and not freed.  What is printed is the sequence `out` of
regions, up to the byte `printf` really shows.  `Matches` takes the bytes of a
pattern for themselves, with `-i` but for case: what special characters stand for
under `-r` is the matter of `Regex`.  `SassProofs` has the inductive invariant and
the proofs, first about the functions of `Region`.

**Regex** is `sa_regex`.  `todo` is the stack of calls of `sa_regex_sub` still to be
made, each with its range, its bytes already matched and what is left of the
expression; one action is one call with one kind of item at its head, and puts
its own calls on top.  `ScanClass` is the loop over a character class, a turn at a
time, and the bits are set byte by byte as `bit_multi_set` does; the second bytes of
a first byte are kept by its low seven bits, and negation takes the first bytes in
groups of eight, both as in the code.  `sa_find` is
`FindSpec`'s promise, whose precondition `PendingCallsAreSound` checks.  That promise
holds of keys without NUL, so an expression may neither hold one nor spell one as an
escape (`NulFree`, part of `RequestsAssumption`).
`KeySearched` is the rewriting of `sa_ignore_case`.  `RegexProofs` has the
inductive invariant and the proofs.

**Handles** is the heap under the library.  Each step of `sa_open`, `sa_open_did`,
`sa_close` and `sa_close_did` that allocates or frees is an action, and the objects
of the Ruby binding call them: `Release` drops a reference, `Sweep` is the garbage
collector, in any order, between calls or while `Data_Wrap_Struct` makes an object.
`SufaryDidNew` takes any data object for the index, as `GET_SUFARY` does, and `rary`
is the bare pointer it keeps of it.  In mode 1, the default, `sa_free` frees only what
its list holds; in mode 0 it frees anything, and `corrupt` remembers a block freed
twice, as `sa_open` does after a failure (`CloseFailed`, `FreeAgain`); of what such a
program does next nothing is known, and the model ends with the call (`Ready`).
`HandlesProofs` has the proofs.

## 4. Runs

| run | instance | shows |
|---|---|---|
| `search` | all texts of 1 to 3 bytes over {0,1} with every sparse index; all texts of 4 bytes over {1,2} with all positions; keys of 0 to 3 bytes, `base_txt_skip` 0 and 1, any sequence of calls | answer, window, skipped bytes, reads, assertions, the invariant of the proof; each call returns; `Search` implements `FindSpec` |
| `did_file` | every tagging of a text of 3 bytes with up to 3 hits of each tag, runs of `mkdid` one after another, lookups in what they leave; and lookups in every file of up to 3 documents, empty ones too, over a text of 5 bytes, cut off after any word | the file is searchable and right at every step; a run that fails leaves it; answers, window, number of a failed search; a position is found in the document of the text; termination |
| `write_index` | every text of 1 to 4 bytes of six classes, every combination of options | the points asked for, in order; termination |
| `sort_index` | texts of 1 to 4 bytes over {0,1,2} with every set of points; texts of 6 bytes over {1,2} with all of them; multikey with every pivot, `qsort`, blocks of 1 and 3 words | splits, heap, merge, result with and without NUL, termination |
| `sort_byte_order` | texts of 1 and 2 bytes, blocks of 1 word | finding 1 |
| `af` | 2 documents, up to 2 hits for each of 2 keys and the empty key; all queries of up to 3 terms, and of 8 to 10 terms with one unlike the rest; one query after another | the answers; termination |
| `af_many_keys` | queries of 8 and 9 keys | finding 2 |
| `regex` | texts of 1 and 2 characters out of nine of one or two bytes, and of 3 out of four; expressions of 1 and 2 items of every kind, optional or not; keywords; unclosed expressions | each search is one `sa_find` promises to answer; the list is the matches; the calls get shorter |
| `sass` | all texts of 1 to 4 bytes of {newline, a, b}; fifteen lists of options; one pattern, or two lines of standard input | matches, regions, emphasis, what is freed |
| `sass_results` | texts of 2 bytes, the same lists of options | finding 3 |
| `handles` | 3 objects, 6 heap blocks, both modes | owners, freeing |
| `handles_index` | the same | finding 4 |

Why these bounds: a text of three bytes has suffixes that are prefixes of each
other, ties that only the end of the text breaks, and NUL bytes; four bytes over
two values have repeats as deep as the key is long, so both prefix lengths
matter.  Three documents give a probe that goes left and then right around a gap.
Six words split with a `CutOff` of 2 have ranges on both sides of it, at two depths;
six blocks make a heap of three levels with a node that has one child.
`CacheSize` is 2 where the code has 20: with six equal bytes to compare, both the
cache and what lies behind it decide.  The range of eight to ten keys stands on
both sides of the last bit of a byte, whose width is the real one.  Two items,
each alone or optional, reach every pair of branches that `sa_regex_sub` nests; a
third would only nest them again.  Four bytes of text have an empty line, a line
before and a line behind a match.  Two lines of input are a key and the key behind
it, between which the result buffer lives.  Three objects are a `SufaryDid`, its
index, and one more whose blocks can take the place of freed ones; six blocks are
all that an index and a `SufaryDid` hold, and one more.  The state of `handles` is
symmetric in blocks and in objects, and the run has no liveness property, so
both symmetries are sound.  State spaces are finite without further bounds: nothing
counts that is not bounded by the text or, in `handles`, by the objects, which are
made once.

`SaIndexMax` is 5 in the run: the sums of window ends would pass it, the halves of
`sa_bsearch` do not.  `KeywordMaxLength` is 4: the keys just leave room for the
sentinel.

Deadlock is switched off where the system really stops: when an expression has been
searched, when a run of `sass` is over, and when all objects of `handles` are used
up or its heap is full.

## 5. Fairness

The specifications with liveness properties (`Search`, `DocumentFile`, `WriteIndex`,
`SortIndex`, `Af`) have weak fairness on the actions of the function under way
(`Internal`, `MakeStep`, `LookUpStep`, `Kensaku`), and on nothing else: once entered,
a C function on its own thread runs on.  Nothing forces a caller to call, a line of stdin
to come, a disk to be full or a process to die.  The liveness properties
(`FindReturns`, `CallsReturn`, `WriteIndexReturns`, `SortReturns`,
`QueryAnswered`) say that the loops end.  A crash ends `WriteIndex` and
`SortIndex`; a died run of `MakeDid` counts as ended.  `Regex` states that its calls
get shorter, from which its end follows without fairness; `Sass` and `Handles`
make no promise of progress, and have none.

## 6. Proofs

For every index, key, range, document file and target the assumptions allow:

- `Search` (`SearchProofs`): `InductiveInvariant`,
  `TypeCorrect`, `SearchCorrect` (`ResultCorrect`), `WindowCorrect`,
  `SkipsAreSound`, `ReadsBounded`, `AssertionsHold`, and
  `SearchImplementsFindSpec`: every behaviour of `Init /\ [][Next]_vars` is one of
  `FindSpec` without its fairness.
- `DidSearch` (`DidProofs`, which extends `DocumentFile`): `LookupInvariant`,
  `LookupTypeCorrect`, `WindowCorrect`, `DidSearchCorrect` (`AnswerCorrect`),
  `FailNumberCorrect` (`FailNumberIsNext`).
- `MakeDid` (`DidProofs`): `InductiveInvariant`, `FileAlwaysInOrder`
  (`FileInOrder`), `FailAlwaysLeavesFile` (`FailLeavesFile`),
  `FileAlwaysHoldsDocuments` (`FileHoldsDocuments`), for texts of any size
  and any number of hits, through full disks and crashes.
- `DocumentFile` (`DidProofs`): `LookupFindsInText` (`FoundInText`), for the same.
- `WriteIndex` (`WriteIndexProofs`): `InductiveInvariant`, `PointsAlwaysInOrder`
  (`PointsInOrder`), `PointsAlwaysAskedFor` (`PointsAreThoseAskedFor`), for texts of
  any size, all options and all four functions.
- `SortIndex` and `Multikey` (`SortIndexProofs`):
  `InductiveInvariant`, `MultikeyKeepsOrder` (`MultikeyInOrder`), `HeapKeepsOrder`
  (`HeapWellFormed`), `MergeKeepsOrder` (`MergeInOrder`), `SortEndsSorted`
  (`SortedAtEnd`, with its conditions for texts with NUL), `WordsAreKept`, for any text, array, cut-off, block size and
  size of the caches, and any pivots.
- `Af` (`AfProofs`): `InductiveInvariant`, `TypeCorrect`, `AnswersTheQuery`
  (`AnswerIsQuery`), `DocumentsFoundOnce`, `NotKeysAlwaysRefuse`, for any number
  of documents, keys and hits and any width of a byte.
- `Regex` (`RegexProofs`): `InductiveInvariant`, `CallsAlwaysSound`
  (`PendingCallsAreSound`), `RecursionEnds` (`CallsShortenTheKey`), for any index
  and any expression that spells no NUL, and `IgnoreCaseCorrect`
  (`IgnoreCaseExact`), for any index and any keyword without NUL.
- `Sass` and `Region` (`SassProofs`): `InductiveInvariant`, `EveryMatchIsPrinted`
  (`EveryMatchPrinted`), `LinesAreHeld` (`RegionsHoldTheirLines`),
  `TagsEncloseTheMatch` (`RegionsRunFromTagToTag`), `EmphasisIsTheRegion`
  (`EmphasisShowsTheRegion`), `FreedAtTheEnd` (`OnlyCountedListsLeft`), for any text,
  index, list of options and number of keys.
- `Handles` (`HandlesProofs`): `InductiveInvariant`, `TypeCorrect`,
  `BlocksOwnedOnce` (`BlocksHaveOneOwner`), `DebugModeSafe`, for any number of
  blocks and objects.

Assumptions on constants: the index is `IndexOK` (sorted, points inside the
text) and no longer than the largest `SA_INDEX`; keys hold no NUL and leave room
for the sentinel in `keyary`; document files are in order (`DidOK`), which is what
`FileAlwaysInOrder` proves of `MakeDid`.  Of `MakeDid` the assumptions are that the
hits lie inside the text, each once; of `af` only that there is a document and
that a query has a term; of `Handles` that NULL is no block and no object; of
`WriteIndex` that texts are not empty; of `Sass` that
an index has no point twice (`DiskOK`; it need not be sorted, nor its points lie in
the text), that numbers given as options are numbers, as `ck_atoi` sees to, that
the argument of `-t` has one comma at most and that a line read has a byte
(`ArgumentsOK`); of `Regex` that the index is `IndexOK`, not
empty (`sa_open` fails on an empty file), that keys are bytes without NUL, and that
an expression spells no NUL either, has two hexadecimal digits behind each `\x` and does
not end in half an escape (`RequestsAssumption`); of `SortIndex` that index points lie inside
the text, each once, which is what `PointsAlwaysInOrder` proves of `WriteIndex`.

*The argument for the search.*  `ResultCorrect` is not inductive: a step that
returns is right only if the window and the sentinel searches were.
`WindowKeepsAnswers` is not either, since steps 2 and 3 start from the window
and the prefix lengths of step 1, which were found with another key.  `IInv`
therefore speaks of the bare key.  `WindowOK` says what is left and right of the
window in terms of *below*, *above* and *starts with the key*, with one
definition per side and step; since whatever is below the key is also below
the key with 256 behind it, step 1's window is good for step 2.  `PrefixesOK`
backs each prefix length by *some* entry at or beyond its end of the window; with
the order of suffixes, an entry between two that share n bytes with the key
shares them too (`SkipsAreSound` rests on that).  `MatchedOK` is what step 1
hands over.  The step lemmas show each action keeps these; the answer then
follows from the three windows having shrunk to nothing.

*The argument for documents.*  The invariant adds to the window that everything
left of `li` ends at or before the target and everything right of `ri` starts
behind it, and that after a probe `cur`, `region_from`, `region_to` belong to a
document next to the window.  At the end the window is empty, and the
last probe alone shows whether the target was hit, and which document comes next
when it went right.  `SystemInv` of `DocumentFile` is this invariant and that of the
maker, and that no search is under way where no file is open; what links them is
`DidOK`, which the one proves of the file it writes and the other needs of the file
it maps.  `FoundInText` follows from `AnswerCorrect` and `FileHoldsDocuments`.

*The argument for af.*  The answer rests on what the bits of a document mean,
which changes from loop to loop: `IInv` says it for each place.  Bit 0 is on if
a NOT key that has been worked on stands in the document, or a hit of the
present one that has been passed; bit b if the b-th key does, for b up to `i`.
`FewKeys` (no more keys than bits) makes `checker` the bit of the key at hand,
so that the bits 1 to `i` are what `check_last_keyword` compares with.  It then
takes a document exactly if it is asked for (`RightBits`), and the mark on it
keeps it from being taken again.  Bit 0 is never among those compared, so
`FoundOnce` and `NotKeysRefuse` need no `FewKeys`.

*The argument for the maker of document files.*  `FileInOrder` depends on cells
that were written long before the file: hits become starts, starts become pairs
where they stand.  `CellsOK` says of each loop what the cells hold: sorted positions
inside the text before the doubling; while the starts are doubled from the top,
pairs above the counter and single starts below, no pair having overwritten a
start that is still needed (`DoublingOK`); pairs in order afterwards.  `FileOK` says
that the words in the file ascend and that none is greater than a cell still to
be written, so that a file cut off at any word, or with words lost, is in order
too, and `KeptOK` that a run has either not yet touched the file or
is past the point where it may fail.  Under it lies the sort: the rank of a cell,
the number of cells that belong before it, is different for each cell and below
their number, so by counting there is a cell for every place (`EveryRank`), and
ranks grow with the values (`QsortSorts`).

`FileHoldsDocuments` asks more: that the pairs in the file are documents of the
text.  Two orderings of the same cells agree, which again is shown by counting the
cells below a value (`SortedAlike`); starts and ends taken in turns are in order
(`TurnsAscend`); so that is what `qsort` makes of hits in suffix order.
`LayoutOK` follows a single tag's starts through the doubling, and `WrittenOK` says
that the file is a prefix of the cells, as long as no word was lost.

*The argument for the index points.*  The functions for lines, words and bytes
return the least position of a set (`LeastIsNext`).  The one for characters is a
loop over characters of one or two bytes, and a recursive function in the model;
that there is such a function is proved by counting down from the end of the
text (`LoopExists`), as is that it goes forward (`CharBounds`) and passes over
nothing asked for (`CharAsked`).  Where a character starts is said by the parity of
the EUC bytes before a position (`EucBefore`), and `SkipToStart` shows that one
step of `sa_skip_one_char` leads from one such place to the next if characters
are whole.  `WalkInv` adds to the two properties that nothing in the file is
behind `i`, that `i` is a start of a character, and that only `-t` begins
the walk at 0.

*The argument for the sort.*  `MultikeyInv` treats `multikey_qsort` by its
outstanding calls: they hold parts of the array that do not meet, and the words
of a call agree on the `depth` bytes it does not compare, so that whatever one call
does leaves the order between the parts alone (`RangesApart`).  `PointersInv` has
the four pointers of the split.  `qsort` is again a rank for each word.
For the merge, `HeapOrder` states the order of the heap *but for* the place free
for the block that is moved: `upheap` may have a word there that belongs before
the one above, `downheap` one that belongs behind those below, and in both cases
what is below the place is in order with what is above it.  `CachesInv` says that
each cache holds the bytes of the word its block has come to; over texts without
NUL the comparison of caches, with that of suffixes behind equal ones, is the
order of suffixes, which is why `upheap` and `downheap` agree though they compare
differently.  With that the top is the least of all words left (`BlocksSorted`),
and `MergingInv` counts: what is left and what has been merged make up the array,
and every word merged comes before every word left.  `RenamedInv` carries this over
to the file `sa_find` will read.

*The argument for the handles.*  `OneOwner`, which `BlocksHaveOneOwner` asserts until
a block is freed twice and the invariant at every step, says that the blocks in use are
exactly those reachable from the roots (what objects wrap, what is being opened,
what is lost), each from one root.  `HandlesOK` adds that a handle refers only
to mappings and a mapping to nothing, so that freeing the blocks of one root
takes nothing from another; `ObjectsOK` that a wrapped handle is complete; `FrameOK`
how far the call in progress has come.  The proof treats the heap as four
functions and a set of roots (`HeapOK`), with one lemma for each way it changes: a
new handle, a mapping hung on it, the blocks of a root freed.  In mode 1 the list
is the set of blocks in use, which is why the second `sa_free` of a failed `sa_open`
frees nothing: between the two no other call has had the chance to be given the
block.

*The argument for expressions.*  `RegexInv` says that every call outstanding is in
`SoundCalls`: a range of the array, its suffixes alike in the `txt_skip` bytes that
are not compared again.  `sa_find` narrows a range to the places where a string
stands behind these bytes; the places found are a range because a suffix between
two that agree on some bytes agrees with both (`Between`), so the new call is sound
with its longer `txt_skip` (`FindSound`).  An item that may be left out goes on with
the older range, and that is sound as the older range went with the older
`txt_skip`: nothing is carried over from the branch that took the item.  The
sets of bytes a class or `.` stands for are searched in ascending order; that
`Ascending` lists all of a set is shown by counting ranks.  That calls get shorter
rests on every kind of item taking at least one byte of the key (`GoOnShorter`).

*The argument for sa_ignore_case.*  `CaseInv` says of each call outstanding that it
is at some byte k of the keyword (`CaseCalls`): k bytes of the text are passed,
all its places match the first k bytes but for case (`Matched`), and what is left of
its expression is the expression made of the rest of the keyword (`Rest`).  No two
calls hold the same place, none holds a place already reported (`Once`), and every
place that matches the keyword is in a call or in a result (`Complete`); these
are needed together, since a place in two calls would be reported twice and a place
in none not at all.  `Piece` is what one byte becomes, and `RestIs` takes it
off the front of `FlattenSeq`, which is defined from its end.  By the three kinds of
piece, `ScanOfLetter` reads the class of a letter turn by turn, `RestOfSpecial` the
escape, and `RestOfOther` leaves the byte as it is; no piece is followed by a `?`,
as one in the keyword is escaped (`RestFirst`).  Two bytes above 127 are taken as one
character whether or not they are one, which changes nothing (`TwoBytesExact`).
`FindExact` and `BitVectorExact` say that the calls made hold exactly the places
of the range that go on so, each in one of them (`Cover`).  At the end of the
keyword `StoreKeeps` turns places into results, different ones since a sorted
index has no point twice (`PlacesDiffer`).

*The argument for sass.*  A region is shown in one step, and what that step
computes are the loops of `region.c`; so the first half of the proof is about them.
`LinesShown` says what `sa_seek_context_lines` returns for a match in terms of the
number of newlines before a position (`Lines`): turn n of the loop back has come to
the head of the line n before the match, or to the top (`HeadIs`); turn n of the
loop on to the end of the n-th line behind it *if none of them is empty*, and
never to less (`TailIs`).  The loops are recursive functions; that there are such
is proved turn by turn (`HeadLoopExists`, `TailLoopExists`).  `TagsShown` says the
same of tags.  That with `-k` the region is shown to its end (`EmphasisRegion`)
rests on the keyword's having no newline: a region ends at a newline or with the
text, so the keyword ends before it does.

The invariant follows the positions.  When they are collected they are the matches,
each once (`MatchesAre`, as an index has no point twice); sorted they ascend and are
still the matches (`QsortIs`, again by ranks).  `PrintedSoFar` says of each turn of the
loop that the regions printed belong to positions passed, in order, and that each
position passed is printed or, with `-u`, lies in a region that is.  The last part
depends on `PrintNext` comparing with the region printed *last* only: the
match of that region lies before the position and its end behind it, hence the
position is in it.  Where regions have no leading lines, one that begins
behind the end of the last begins behind its newline too (`RegionsApart`), unless
the match is itself a newline.  `MemoryOK` ties the block of positions to the
phases of the run: it is live from `CollectForSort` to `FreeResult`, and freed only
if that has been passed, for which a second key and so `-s` is needed; and a list of
results is there only behind `CountMatches`, with `-c`.

*Model-checked only:* liveness and the fairness half of the refinement, which
are beyond the prover; `ResultsAreMatches` of `Regex`, which counts, by a recursion
over the items the run made an expression from, the ways they make up a text: a
function defined by recursion over data, of which the prover can show nothing
for every input; and `SortedUpToNul` of `SortIndex`, since with NUL in the text the heap is kept
by two orders that disagree behind it, and neither `HeapOrder` nor the invariant of the
splits, on which the proof of the sort rests, then holds as it is stated.

## 7. Not modelled

- `sa_get_next_ip_utf8_char`: no program chooses it.
- Sizes of buffers for keys, lines and file names, which the code does not
  test (`af`'s 80 bytes for a key, `src/af.c:213`); the models assume shorter ones.
  `af` also takes the last byte of a line for its newline (`src/af.c:97`); the lines
  of the model have one.
- The static size of the heap (`lib/make-index.c:36`), which outlives a failed
  merge: `mkary` sorts once.
- Expressions that spell NUL, for which the search meets the zero fill behind the
  text; expressions that end within an item; behind a final backslash, `lib/regex.c:511`
  goes on past the end of the string.
- The loop of `sass` over several files, which cannot be reached (`src/sass.c:135`).
- `sa_memory_leak_check`, which only reports; its condition is part of
  `DebugModeIsSafe`.  The branches of `mmp.c` for Windows, and the record that a
  `SufaryDid` wraps, which the binding never frees.
- A crash in the middle of `qsort`, which may leave words twice in the mapped
  array; a call of it is one step.  What is left then is no index either way.
- Readers at work while an indexer rewrites their mapped file.  The states such
  a reader could see are states of the models, but the reads are not; in
  `DocumentFile` a reader has closed the file when `mkdid` runs.
- `mkary -so` over a file that is not in big-endian order, `-C`, `-D`.
- `sang`, which counts n-grams in one loop over `sa_find`; `getopt`, vendored;
  the Perl glue and the Ruby methods, which call the library once each;
  `kwicview`, a window around `sass`; `src/test.c`, the library's test driver.
- Wording, progress meters, debug output, the printing of documents.

## 8. Findings

1. `sort_byte_order`: array files are documented as always big-endian; when
   `mkary -M` cannot open or rename its second file, the array is left in host
   order and the status is dropped (`lib/make-index.c:169-180`, `230`).
2. `af_many_keys`: `&` is documented as an AND of the keywords; of nine or more
   keys those from the eighth on, but the last, are not asked for (`src/af.c:144`).
3. `sass_results`: `-s` with `-S` is documented to sort the results of a pattern
   read; for one without matches the freed results of the one before are sorted,
   printed and freed again (`src/sass.c:326`).
4. `handles_index`: a `SufaryDid` is documented to take out text areas
   (`ruby/Reference.rd.ja:63`); it keeps a bare pointer to the index, which is
   closed as soon as the collector finds the index's own object unused
   (`ruby/sufary.c:227`).

What else was met, without a run of its own; the models follow the code and the
properties leave these cases out.  Against a doc:

- `sass` is documented to take several files (`src/sass.c:363`, `383`); the test before
  the loop over them is of an array's address and always true, so that only the
  first is searched (`src/sass.c:135`);
- after a failed `sa_didsearch`, `no` is meant to be the number of the next
  document (`TODO:26-27`); it is 0 where the last probe went left (`lib/did.c:92`;
  the condition of `FailNumberIsNext`).  `get_doc_number` is documented to return a
  negative value where there is no document (`ruby/Reference.rd.ja:60`), and
  `get_doc_region` tests for one (`ruby/sufary.c:264`); it is never negative;
- `-#` with `-l` is documented to ignore lines that begin with `#`
  (`doc/en/make-index.html:241-244`); the first position of a file is taken unasked
  (`lib/index-point.c:85`; `FirstSkipped` in `PointsAreThoseAskedFor`);
- `-A` is documented to print NUM trailing lines (`src/sass.c:368`); an empty line
  behind the match is stepped over and one more is shown (`lib/region.c:72`; the
  condition of `RegionsHoldTheirLines`);
- `-k` is documented to emphasize the keyword (`src/sass.c:367`); with `-S` or `-u` it is
  taken to be two bytes long (`src/sass.c:234`; the condition of
  `EmphasisShowsTheRegion`);
- `-C` is documented to give way to `-A` and `-B` (`src/sass.c:370-371`); whichever
  comes last counts, as it does in the options of the model.

And where no doc says otherwise:

- `-u` prints a line twice for a key that begins with a newline (the condition of
  `EveryMatchPrinted`);
- `-c` with `-r` or `-i` never frees the list of results (`src/sass.c:268`); the
  assertion at the end of `main` holds all the same, since the list is not
  `sa_malloc`'s (`OnlyCountedListsLeft`);
- behind a NUL in the text the sorters but `qsort` leave words unsorted
  (`lib/make-index.c:566`; `SortedUpToNul`).
