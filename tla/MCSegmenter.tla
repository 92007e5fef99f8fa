---------------------------- MODULE MCSegmenter ----------------------------
(***************************************************************************)
(* All byte strings up to MaxBytes: well-formed text, text of two- and     *)
(* four-byte characters, and characters cut off by the end of the request. *)
(* With 7 bytes two three-byte characters are followed by one more byte.   *)
(***************************************************************************)
EXTENDS Segmenter

CONSTANT MaxBytes

AnyText == UNION {[1 .. n -> Bytes] : n \in 0 .. MaxBytes}

\* Well-formed UTF-8: a lead byte has one to three continuation bytes, and
\* no continuation byte stands elsewhere.
WellFormed(s) ==
  /\ s # <<>> => s[1] # "cont"
  /\ \A k \in 1 .. Len(s) : s[k] = "lead" => k < Len(s) /\ s[k + 1] = "cont"
  /\ \A k \in 1 .. Len(s) - 1 : s[k] \in {"digit", "ascii"} => s[k + 1] # "cont"
  /\ \A k \in 1 .. Len(s) - 3 : \E j \in k .. k + 3 : s[j] # "cont"
Utf8Text == {s \in AnyText : WellFormed(s)}
=============================================================================
