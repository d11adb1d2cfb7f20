------------------------------- MODULE MCSass -------------------------------
(***************************************************************************)
(* Texts of a few bytes, a newline among them, one with all positions      *)
(* indexed and a fixed second file; sessions of one pattern or up to two   *)
(* lines of standard input, with the options that meet in the code.        *)
(***************************************************************************)
EXTENDS Sass

CONSTANTS TextBytes, TextLengths, SessionLengths

Texts == UNION {[1 .. n -> TextBytes] : n \in TextLengths}

AllPoints(text) ==
  SetToSortSeq(0 .. Len(text) - 1,
               LAMBDA p, q : SuffixLess([text |-> text], p, q))

MCDisks ==
  {[texts |-> [f \in {"f", "g"} |-> IF f = "f" THEN text ELSE <<97>>],
    arrays |-> [f \in {"f", "g"} |-> IF f = "f" THEN AllPoints(text) ELSE <<0>>]] :
     text \in Texts}

Opt(ch) == [ch |-> ch, arg |-> 0]
Arg(ch, arg) == [ch |-> ch, arg |-> arg]

(* -s is added where a session has lines.                                  *)
OptionLists ==
  {<<>>, <<Opt("r"), Opt("c")>>, <<Opt("d"), Opt("S")>>, <<Opt("u")>>,
   <<Opt("i"), Opt("S")>>, <<Opt("k"), Arg("A", 1)>>, <<Opt("k"), Opt("S")>>,
   <<Arg("C", 1), Arg("B", 0), Opt("u")>>, <<Arg("digit", 1)>>,
   <<Arg("t", <<<<98>>, <<98>>>>), Opt("i")>>,
   <<Arg("t", <<<<98>>>>), Opt("u")>>,
   <<Arg("t", <<<<98>>, <<98>>>>), Arg("t", <<<<97>>>>)>>,
   <<Arg("a", "f"), Opt("c")>>, <<Arg("a", "missing")>>, <<Opt("h")>>}

Patterns == {<<97>>, <<98>>, <<97, 98>>, <<65>>, <<10, 97>>, <<>>}

InputLines == {<<97, 10>>, <<98, 10>>, <<98, 97>>, <<10>>}

MCArguments ==
  {[options |-> options, fnames |-> <<"f">>, lines |-> <<pattern>>] :
     options \in OptionLists, pattern \in Patterns}
  \union
  {[options |-> <<Opt("s")>> \o options, fnames |-> <<"f">>, lines |-> input] :
     options \in OptionLists,
     input \in UNION {[1 .. n -> InputLines] : n \in SessionLengths}}
  \union
  {[options |-> <<>>, fnames |-> fnames, lines |-> <<<<97>>>>] :
     fnames \in {<<>>, <<"f", "g">>, <<"missing">>}}
=============================================================================
