---------------------------- MODULE MCWriteIndex ----------------------------
(* Every text of up to MaxLength bytes of the classes given, with every     *)
(* combination of options mkary can be given.                               *)
EXTENDS WriteIndex

CONSTANTS Classes, MaxLength

MCTexts == UNION {[1 .. n -> Classes] : n \in 1 .. MaxLength}

(* -J sets my_chars and ip; a -c behind it takes my_chars back.             *)
Ranges == {[my_chars |-> FALSE, ip |-> "all"], [my_chars |-> TRUE, ip |-> "80_FF"],
           [my_chars |-> FALSE, ip |-> "80_FF"]}

MCOptions ==
  {[next_ip |-> f, ignored |-> c, my_chars |-> r.my_chars, ip |-> r.ip,
    cut_top |-> t] :
     f \in {"line", "word", "char", "byte"}, c \in BOOLEAN, r \in Ranges,
     t \in BOOLEAN}
=============================================================================
