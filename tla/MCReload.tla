------------------------------ MODULE MCReload ------------------------------
(***************************************************************************)
(* Configurations of up to two locations, side by side or nested, with and *)
(* without a conf_file of their own or inherited; three cycles are enough  *)
(* for a pointer to be left dangling by one cycle or by a rejected one and *)
(* to be used by a later one, with requests in flight in two of them.      *)
(***************************************************************************)
EXTENDS Reload

Loc(parent, conf_file) == [parent |-> parent, conf_file |-> conf_file]
MCFiles == {"dict/test.conf"}
File == "dict/test.conf"
MCConfigs ==
  {<<>>, <<Loc(0, "unset")>>, <<Loc(0, File)>>, <<Loc(0, "unset"), Loc(1, File)>>,
   <<Loc(0, File), Loc(0, File)>>, <<Loc(0, File), Loc(0, "unset")>>,
   <<Loc(0, File), Loc(1, "unset")>>, <<Loc(0, File), Loc(1, "")>>}
=============================================================================
