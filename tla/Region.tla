------------------------------- MODULE Region -------------------------------
(***************************************************************************)
(* lib/region.c: the part of a text to show around a position.  Pointers   *)
(* into the mapped text are offsets from its first byte, so that bof is 0  *)
(* and eof the size of the text; a region is an SA_STRING [ptr, len].      *)
(***************************************************************************)
EXTENDS Suffix, FiniteSetsExt

NL == 10

Eof(a) == Len(a.text)

SeekBol(a, pos) == Max({0} \union {p + 1 : p \in {q \in 0 .. pos - 1 : Char(a, q) = NL}})

(* The end of a line is behind its newline.                                *)
SeekEol(a, pos) ==
  Min({Eof(a)} \union {p + 1 : p \in {q \in pos .. Eof(a) - 1 : Char(a, q) = NL}})

(* Fault: the newline before the head is not stepped over.                 *)
SeekContextLinesStuck(a, pos, bkwrd, frwrd) ==
  LET head == SeekBol(a, pos)
      tail[n \in 0 .. frwrd] ==
        IF n = 0 THEN SeekEol(a, head)
        ELSE IF tail[n - 1] < Eof(a) THEN SeekEol(a, tail[n - 1] + 1) ELSE Eof(a)
  IN [ptr |-> head, len |-> tail[frwrd] - head]

SeekContextLines(a, pos, bkwrd, frwrd) ==
  LET head[n \in 0 .. bkwrd] ==
        IF n = 0 THEN SeekBol(a, pos)
        ELSE IF head[n - 1] > 0 THEN SeekBol(a, head[n - 1] - 1) ELSE 0
      tail[n \in 0 .. frwrd] ==
        IF n = 0 THEN SeekEol(a, head[0])
        ELSE IF tail[n - 1] < Eof(a) THEN SeekEol(a, tail[n - 1] + 1) ELSE Eof(a)
  IN [ptr |-> head[bkwrd], len |-> tail[frwrd] - head[bkwrd]]

(* memcmp, which may look behind the end of the text.                      *)
PatternAt(a, pos, pattern) ==
  \A k \in 1 .. Len(pattern) : Char(a, pos + k - 1) = pattern[k]

(* The first byte of the text is never compared.                           *)
SeekPatternBackward(a, pos, pattern) ==
  Max({0} \union {p \in 1 .. pos : PatternAt(a, p, pattern)})

(* Fault: the pattern found is left out.                                   *)
SeekPatternForwardToTag(a, pos, pattern) ==
  Min({Eof(a)} \union
        {q \in pos .. Eof(a) - Len(pattern) : PatternAt(a, q, pattern)})

SeekPatternForward(a, pos, pattern) ==
  Min({Eof(a)} \union {p + Len(pattern) : p \in
        {q \in pos .. Eof(a) - Len(pattern) : PatternAt(a, q, pattern)}})

SeekContextRegion(a, pos, begin_tag, end_tag) ==
  LET head == SeekPatternBackward(a, pos, begin_tag)
      tail == SeekPatternForward(a, pos, end_tag)
  IN [ptr |-> head, len |-> tail - head]
=============================================================================
