--------------------------- MODULE MCBuyerLookup ---------------------------
(***************************************************************************)
(* Every answer with up to two members, in either order, in which each of  *)
(* the three ids may be missing, no string, empty or an id of its own.     *)
(***************************************************************************)
EXTENDS BuyerLookup

MCIds == {"b", "w", "q"}
Own == [buyer_id |-> "b", wx_id |-> "w", qq_id |-> "q"]
None == [f \in Fields |-> "absent"]

MCIdRecords ==
  {ids \in [Fields -> {"absent", "nonstring", "empty"} \cup MCIds] :
     \A f \in Fields : ids[f] \in MCIds => ids[f] = Own[f]}
StatusMembers == {[status_code |-> c, ids |-> None] : c \in StatusCodes}
ResultMembers == {[status_code |-> "absent", ids |-> r] : r \in MCIdRecords}

MCAnswers ==
  {NoAnswer, NotJson, Json(<<>>)} \cup
  {Json(<<s>>) : s \in StatusMembers} \cup
  {Json(<<s, r>>) : s \in StatusMembers, r \in ResultMembers} \cup
  {Json(<<r, s>>) : s \in StatusMembers, r \in ResultMembers}
=============================================================================
