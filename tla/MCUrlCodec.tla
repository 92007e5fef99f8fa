----------------------------- MODULE MCUrlCodec -----------------------------
(***************************************************************************)
(* Every single byte and all pairs of one byte of each class are encoded   *)
(* and decoded again; arguments of up to four characters hold escapes that *)
(* are whole, cut off, nested or not hexadecimal.                          *)
(***************************************************************************)
EXTENDS UrlCodec

Classes == {32, 37, 43, 48, 65, 126, 228, 15}
MCTexts == [1 .. 1 -> Char] \cup UNION {[1 .. n -> Classes] : n \in {0, 2}}
MCArgs == UNION {[1 .. n -> {37, 43, 52, 65, 97, 103}] : n \in 0 .. 4}
=============================================================================
