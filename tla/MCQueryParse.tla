---------------------------- MODULE MCQueryParse ----------------------------
(***************************************************************************)
(* Requests of up to MaxParams parameters with values of the lengths in    *)
(* ValueLens, each parameter joined to the next by '&' or by nothing (a    *)
(* key inside another parameter's value).  A value length above 7 makes a  *)
(* stale `local' point past the end of a later, shorter queryStr.          *)
(***************************************************************************)
EXTENDS ParseVersions

CONSTANTS MaxParams, ValueLens, Joints

Blank(n) == [i \in 1 .. n |-> "_"]

Parameters ==
  {Blank(n) : n \in ValueLens} \cup
  {<<key>> \o Blank(KeyLen(key) - 1 + n) : key \in Keys, n \in ValueLens}

MCJoints == {<<"&">>, <<>>}
AmpOnly == {<<"&">>}

MCRequests ==
  LET AtMost[k \in 1 .. MaxParams] ==
        IF k = 1 THEN Parameters
        ELSE AtMost[k - 1] \cup
             {p \o j \o q : p \in Parameters, j \in Joints, q \in AtMost[k - 1]}
  IN AtMost[MaxParams]

\* The values an uninitialised int may hold, as far as the loop tells them
\* apart: substr past the end, no advance, and the usual 0, a short skip.
Garbage == {-2, -1, 0}
Zero == {0}
=============================================================================
