----------------------------- MODULE LookupSpec -----------------------------
(***************************************************************************)
(* What getBuyerID promises its caller, without transfers, texts, trees or *)
(* heap: one outcome, which is every id that the user service holds for    *)
(* the buyer, in order, or none of them, or an exception.  Nothing is      *)
(* promised when an empty answer was left without a NUL.                   *)
(***************************************************************************)
EXTENDS Sequences

VARIABLES
  related,   \* the ids the service holds for the buyer
  legible,   \* the service's answer, if there is one, has an end
  outcome    \* <<>> while the call runs, then one of Outcomes

Returned(ids) == <<"returned", ids>>
Threw == <<"threw">>

Outcomes == {Returned(<<>>), Returned(related), Threw}

Init == outcome = <<>>
Finish ==
  /\ outcome = <<>>
  /\ legible => outcome' \in Outcomes
  /\ UNCHANGED related

Spec == Init /\ [][Finish]_<<related, outcome>>
=============================================================================
