----------------------------- MODULE WriteIndex -----------------------------
(***************************************************************************)
(* sa_write_index (lib/make-index.c): mkary's first half walks the text    *)
(* from index point to index point and writes each to the array file, not  *)
(* yet sorted.  The array file is emptied before anything else; a write    *)
(* may fail unnoticed, and the process may die at any point.               *)
(***************************************************************************)
EXTENDS IndexPoint

CONSTANTS Texts, Options

ASSUME TextsAssumption == Texts \subseteq Seq(ByteClass) \ {<<>>}
ASSUME OptionsAssumption == Options \subseteq OptionType

VARIABLES pc,    \* "start", "truncated", "walk", or "end"
          text,  \* the text mapped
          opts,  \* the options
          i,     \* the index point reached
          file,  \* the array file
          full,  \* some word could not be written
          stat   \* what sa_write_index has returned; "CRASH" if it died

vars == <<pc, text, opts, i, file, full, stat>>

Init ==
  /\ pc = "start"
  /\ text \in Texts
  /\ opts \in Options
  /\ i = -1
  /\ file \in {<<>>, <<0>>}  \* <<0>> is left by an earlier run
  /\ full = FALSE
  /\ stat = "NONE"

Return(status) == pc' = "end" /\ stat' = status

OpenArrayFails ==
  /\ pc = "start"
  /\ Return("FAIL")
  /\ UNCHANGED <<text, opts, i, file, full>>

(* Fault: the array file is opened to append.                              *)
TruncateArrayNot ==
  /\ pc = "start"
  /\ pc' = "truncated"
  /\ UNCHANGED <<text, opts, i, file, full, stat>>

TruncateArray ==
  /\ pc = "start"
  /\ file' = <<>>
  /\ pc' = "truncated"
  /\ UNCHANGED <<text, opts, i, full, stat>>

OpenTextFails ==
  /\ pc = "truncated"
  /\ Return("FAIL")
  /\ UNCHANGED <<text, opts, i, file, full>>

OpenText ==
  /\ pc = "truncated"
  /\ i' = IF opts.cut_top THEN 0 ELSE -1
  /\ pc' = "walk"
  /\ UNCHANGED <<text, opts, file, full, stat>>

(* The result of sa_fwrite is not looked at.                               *)
WritePoint ==
  /\ pc = "walk" /\ i < Len(text)
  /\ i' = NextIp(text, opts, i)
  /\ i' < Len(text)
  /\ \/ file' = Append(file, i') /\ UNCHANGED full
     \/ full' = TRUE /\ UNCHANGED file
  /\ UNCHANGED <<pc, text, opts, stat>>

LastPoint ==
  /\ pc = "walk" /\ i < Len(text)
  /\ i' = NextIp(text, opts, i)
  /\ i' >= Len(text)
  /\ UNCHANGED <<pc, text, opts, file, full, stat>>

(* Fault: the walk does not stop at the end but only behind it.            *)
ClosePastEnd ==
  /\ pc = "walk" /\ i > Len(text)
  /\ Return("SUCCESS")
  /\ UNCHANGED <<text, opts, i, file, full>>

Close ==
  /\ pc = "walk" /\ i >= Len(text)
  /\ Return("SUCCESS")
  /\ UNCHANGED <<text, opts, i, file, full>>

Crash ==
  /\ pc # "end"
  /\ Return("CRASH")
  /\ UNCHANGED <<text, opts, i, file, full>>

Ended == pc = "end" /\ UNCHANGED vars

Internal ==
  \/ OpenArrayFails \/ TruncateArray \/ OpenTextFails \/ OpenText
  \/ WritePoint \/ LastPoint \/ Close

Next == Internal \/ Crash \/ Ended

(* A sequential program runs on.                                           *)
Spec == Init /\ [][Next]_vars /\ WF_vars(Internal)
-----------------------------------------------------------------------------
(* Index points are written in the order of the text, each once, whatever  *)
(* is lost between them: sa_strcmp asserts that it never meets the same    *)
(* position twice.                                                         *)
PointsInOrder == \A m, n \in 1 .. Len(file) : m < n => file[m] < file[n]

(* Nothing the options ask for is passed over and nothing else is taken,   *)
(* at any moment of the walk and with every function: up to i the file     *)
(* holds the points asked for.  -t leaves the first position out; -l and   *)
(* -w take it as the start of a line or a word whatever stands there.      *)
(* Where the options skip the character there (-#, -J), nothing is said of *)
(* it: the code takes it all the same.                                     *)
First == IF opts.cut_top THEN {0} ELSE {}

Delimited == opts.next_ip \in {"line", "word"}
Unasked == IF Delimited /\ ~ opts.cut_top THEN {0} ELSE {}
FirstSkipped == IF Delimited /\ IsSkip(text, opts, 0) THEN {0} ELSE {}

Due == (PointsAskedFor(text, opts) \ First) \union Unasked
Points == {file[n] : n \in 1 .. Len(file)}

PointsAreThoseAskedFor ==
  WholeCharacters(text) /\ pc = "walk" /\ ~ full =>
    Points \ FirstSkipped = {p \in Due \ FirstSkipped : p <= i}

(* The walk reaches the end of every text, and the call returns.           *)
WriteIndexReturns == <>(pc = "end")
=============================================================================
