----------------------------- MODULE MCTranslate -----------------------------
(***************************************************************************)
(* All texts of up to four bytes over letters, continuation bytes and the  *)
(* leading bytes of two, three and four bytes, characters at the edges of  *)
(* the three blocks, one of another plane (U+58000), and longer, damaged   *)
(* or too long ones.                                                       *)
(***************************************************************************)
EXTENDS Translate, SequencesExt

Alphabet == {65, 128, 160, 184, 195, 228, 240, 254}
Edges == {<<227, 144, 128>>, <<228, 182, 181>>, <<228, 182, 182>>, <<228, 184, 128>>,
          <<233, 191, 139>>, <<233, 191, 140>>, <<240, 160, 128, 128>>,
          <<240, 170, 155, 150>>, <<240, 170, 155, 151>>, <<241, 152, 128, 128>>}
Longer == {<<248, 128, 128, 128, 128>>, <<252, 128, 128, 128, 128, 128>>,
           <<248, 128, 128, 128, 65>>, <<252, 128, 128, 128, 128>>,
           <<228, 184, 160, 65, 228, 184>>, <<65, 228, 184, 128, 228, 184, 160>>,
           <<65, 65, 65, 65, 65, 65, 65, 65>>}
MCTexts == BoundedSeq(Alphabet, 4) \cup Edges \cup Longer

\* U+4E00 and U+4E20 have entries; one of them grows to four bytes.
MCDict == <<228, 184, 128>> :> <<228, 184, 184>> @@ <<228, 184, 160>> :> <<240, 160, 128, 128>>
=============================================================================
