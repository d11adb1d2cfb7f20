-------------------------------- MODULE MCAf --------------------------------
(* Two keys and the empty one, which every index point matches; all queries *)
(* of up to MaxTerms terms, and longer ones around the bits of a byte with  *)
(* one term unlike the others.                                              *)
EXTENDS AfInv, TLC

CONSTANTS MaxHits, MaxTerms, LongLines

SeqUpTo(S, n) == UNION {[1 .. m -> S] : m \in 0 .. n}

MCOccurrences ==
  {("a" :> s) @@ ("b" :> t) @@ ("" :> s \o t) :
     s \in SeqUpTo(Hit, MaxHits), t \in SeqUpTo(Hit, MaxHits)}

A == [not |-> FALSE, key |-> "a"]

MCLines ==
  (SeqUpTo(Term, MaxTerms) \ {<<>>}) \union
    UNION {{[m \in 1 .. n |-> IF m = p THEN [not |-> b, key |-> "b"] ELSE A] :
              p \in 1 .. n, b \in BOOLEAN} : n \in LongLines}
=============================================================================
