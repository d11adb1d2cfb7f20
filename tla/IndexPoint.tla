----------------------------- MODULE IndexPoint -----------------------------
(***************************************************************************)
(* The index-point functions of lib/index-point.c: where the next index    *)
(* point behind a position is.  A text is a sequence of byte classes, a    *)
(* position counts from 0.  The options are those mkary sets: next_ip is   *)
(* the function chosen, ignored the list of -#, my_chars the list of -J,   *)
(* ip the range of bytes to index, cut_top mkary's -t.                     *)
(***************************************************************************)
EXTENDS Integers, Sequences, FiniteSetsExt

(* Newline; space, for all other delimiters of words; any other ASCII; a   *)
(* byte with its high bit set, half of an EUC character.                   *)
ByteClass == {"nl", "sp", "#", "<", "a", "k", "nul"}

OptionType == [next_ip : {"line", "word", "char", "byte"},
               ignored : BOOLEAN, my_chars : BOOLEAN,
               ip : {"all", "00_7F", "80_FF"}, cut_top : BOOLEAN]

At(text, p) == text[p + 1]

MsbOn(byte) == byte = "k"

(* strchr finds the NUL that ends its list, too.                           *)
InList(list, byte) == byte \in list \union {"nul"}

Delimiters(opts) == IF opts.next_ip = "line" THEN {"nl"} ELSE {"nl", "sp"}

IsDelimiter(text, opts, p) == InList(Delimiters(opts), At(text, p))

IsSkip(text, opts, p) ==
  \/ opts.ignored /\ InList({"#"}, At(text, p))
  \/ opts.ip = "00_7F" /\ MsbOn(At(text, p))
  \/ opts.ip = "80_FF" /\ ~ MsbOn(At(text, p))

IsAcceptable(text, opts, p) == opts.my_chars /\ InList({"<"}, At(text, p))

Wanted(text, opts, p) ==
  IsAcceptable(text, opts, p) \/ ~ IsSkip(text, opts, p)

(* The least position of a set, the end of the text if there is none.      *)
Least(text, S) == IF S = {} THEN Len(text) ELSE Min(S)

(* The end of a run of delimiters, if it is not to be skipped; the first   *)
(* position of the file in any case.                                       *)
NextAfterDelimiter(text, opts, ip) ==
  IF ip = -1 THEN 0
  ELSE Least(text, {p \in ip + 1 .. Len(text) - 1 :
                      /\ IsDelimiter(text, opts, p - 1)
                      /\ ~ IsDelimiter(text, opts, p)
                      /\ ~ IsSkip(text, opts, p)})

(* Fault: every character is one byte long.                                *)
SkipOneCharByte(text, ip) == ip + 1

SkipOneChar(text, ip) == IF MsbOn(At(text, ip)) THEN ip + 2 ELSE ip + 1

NextChar(text, opts, ip) ==
  LET from[p \in Nat] ==
        IF p >= Len(text) THEN Len(text)
        ELSE IF Wanted(text, opts, p) THEN p
        ELSE from[SkipOneChar(text, p)]
  IN from[IF ip = -1 THEN 0 ELSE SkipOneChar(text, ip)]

NextByte(text, opts, ip) ==
  Least(text, {p \in ip + 1 .. Len(text) - 1 : Wanted(text, opts, p)})

NextIp(text, opts, ip) ==
  CASE opts.next_ip \in {"line", "word"} -> NextAfterDelimiter(text, opts, ip)
    [] opts.next_ip = "char" -> NextChar(text, opts, ip)
    [] opts.next_ip = "byte" -> NextByte(text, opts, ip)
-----------------------------------------------------------------------------
(* What the options ask for, said of single positions, for texts whose EUC *)
(* characters are whole.                                                   *)

(* How many bytes of EUC characters stand directly before p.               *)
EucBefore(text, p) ==
  Cardinality({q \in 0 .. p - 1 : \A r \in q .. p - 1 : MsbOn(At(text, r))})

WholeCharacters(text) ==
  \A p \in 1 .. Len(text) :
    p = Len(text) \/ ~ MsbOn(At(text, p)) => EucBefore(text, p) % 2 = 0

StartsUnit(text, opts, p) ==
  CASE opts.next_ip \in {"line", "word"} ->
         /\ p > 0 => IsDelimiter(text, opts, p - 1)
         /\ ~ IsDelimiter(text, opts, p)
    [] opts.next_ip = "char" -> EucBefore(text, p) % 2 = 0
    [] opts.next_ip = "byte" -> TRUE

AskedFor(text, opts, p) ==
  /\ StartsUnit(text, opts, p)
  /\ IF opts.next_ip \in {"line", "word"} THEN ~ IsSkip(text, opts, p)
     ELSE Wanted(text, opts, p)

PointsAskedFor(text, opts) ==
  {p \in 0 .. Len(text) - 1 : AskedFor(text, opts, p)}
=============================================================================
