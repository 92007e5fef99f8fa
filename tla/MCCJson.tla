------------------------------ MODULE MCCJson ------------------------------
(***************************************************************************)
(* Every document of up to DocLen tokens, and longer objects with two      *)
(* members or one inside another; each of them cut short anywhere or with  *)
(* one token replaced; and every text of up to four tokens.                *)
(***************************************************************************)
EXTENDS CJson

CONSTANTS DocLen

Whole ==
  {d \in Documents : Len(d) <= DocLen} \cup
  {<<"{", "a", ":", "false", ",", "b", ":", "a", "}">>,
   <<"{", "a", ":", "{", "b", ":", "a", "}", "}">>,
   <<"{", "a", ":", "[", "b", "]", ",", "b", ":", "a", "}">>,
   <<"[", "[", "a", ",", "b", "]", ",", "b", "]">>}
Cut == UNION {{SubSeq(d, 1, k) : k \in 0 .. Len(d) - 1} : d \in Whole}
Broken == {Append(c, t) : c \in {d \in Cut : Len(d) < MaxLen}, t \in {"open", "torn", "]", "}", ","}}
Replaced == UNION {{[d EXCEPT ![k] = t] : k \in 1 .. Len(d), t \in Tokens} : d \in Whole}
Short == UNION {[1 .. n -> Tokens] : n \in 0 .. 4}

MCTexts == Whole \cup Cut \cup Broken \cup Replaced \cup Short
=============================================================================
