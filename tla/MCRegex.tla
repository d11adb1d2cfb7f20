------------------------------ MODULE MCRegex -------------------------------
(***************************************************************************)
(* Texts made of a few characters, indexed at each of them, as mkary does  *)
(* by default, and expressions made of a few items.  An item is written    *)
(* beside the strings over these characters it stands for, so that what    *)
(* the code makes of its bytes is checked against what was meant.          *)
(***************************************************************************)
EXTENDS Regex

CONSTANTS TextLengths, LongTextLengths, ItemCounts

Ascii == {<<10>>, <<65>>, <<97>>, <<98>>, <<63>>}

Wide == {<<161, 162>>, <<161, 200>>, <<162, 161>>, <<163, 161>>}

Points(chars) ==
  {Len(FlattenSeq(SubSeq(chars, 1, n))) : n \in 0 .. Len(chars) - 1}

MCIndex(chars) ==
  LET a == [text |-> FlattenSeq(chars), array |-> <<>>]
  IN [a EXCEPT !.array = SetToSortSeq(Points(chars),
                           LAMBDA p, q : SuffixLess(a, p, q))]

Characters == Ascii \union Wide

(* Longer texts of fewer characters.                                       *)
FewCharacters == {<<10>>, <<65>>, <<97>>, <<161, 162>>}

MCIndexes ==
  {MCIndex(chars) :
     chars \in UNION {[1 .. n -> Characters] : n \in TextLengths}
               \union UNION {[1 .. n -> FewCharacters] : n \in LongTextLengths}}

Item(text, lang) == [text |-> text, lang |-> lang, opt |-> FALSE]

PlainItems ==
  {Item(<<97>>, {<<97>>}),                                    \* a
   Item(<<161, 162>>, {<<161, 162>>}),
   Item(<<92, 110>>, {<<10>>}),                               \* \n
   Item(<<92, 63>>, {<<63>>}),                                \* \?
   Item(<<92, 120, 54, 50>>, {<<98>>}),                       \* \x62
   Item(<<46>>, Characters \ {<<10>>}),                       \* .
   Item(<<91, 97, 65, 93>>, {<<97>>, <<65>>}),                \* [aA]
   Item(<<91, 65, 45, 97, 93>>, {<<65>>, <<97>>}),            \* [A-a]
   Item(<<91, 94, 97, 93>>, Characters \ {<<10>>, <<97>>}),   \* [^a]
   Item(<<91, 98, 161, 162, 93>>, {<<98>>, <<161, 162>>}),
   Item(<<91, 161, 200, 45, 163, 161, 93>>,
        {<<161, 200>>, <<162, 161>>, <<163, 161>>}),
   Item(<<91, 94, 161, 162, 45, 161, 200, 93>>,
        {<<162, 161>>, <<163, 161>>} \union (Ascii \ {<<10>>})),
   Item(<<40, 97, 124, 97, 98, 41>>, {<<97>>, <<97, 98>>}),   \* (a|ab)
   Item(<<40, 46, 124, 161, 162, 41>>, {<<46>>, <<161, 162>>})}

Items == PlainItems \union
  {[item EXCEPT !.text = @ \o <<QUESTION>>, !.opt = TRUE] : item \in PlainItems}

Expressions ==
  {[mode |-> "regex", items |-> items,
    key |-> FlattenSeq([n \in DOMAIN items |-> items[n].text])] :
     items \in UNION {[1 .. n -> Items] : n \in ItemCounts}}

Keywords ==
  {[mode |-> "ignore_case", key |-> key] :
     key \in {<<97>>, <<65, 98>>, <<63>>, <<97, 63>>, <<161, 162, 98>>,
              <<10, 98>>, <<92>>, <<91, 97, 93>>, <<40>>, <<98, 65, 97>>}}

Unclosed ==
  {[mode |-> "unclosed", key |-> key] : key \in {<<97, 91, 98>>, <<40, 97>>}}

MCRequests == Expressions \union Keywords \union Unclosed
=============================================================================
