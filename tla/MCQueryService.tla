--------------------------- MODULE MCQueryService ---------------------------
(***************************************************************************)
(* Requests of the kinds that take different paths.                        *)
(* The lengths stand on both sides of the two limits: a query of 1023 and  *)
(* one of 1024 bytes, and a res that the query and its NUL just fill.      *)
(***************************************************************************)
EXTENDS QueryService

Plain == [method |-> "GET", data |-> TRUE, nomem |-> FALSE, throws |-> FALSE,
          buyer |-> "no", args |-> 35, query |-> 80]
MCKinds ==
  {Plain,
   [Plain EXCEPT !.method = "HEAD"],
   [Plain EXCEPT !.method = "PUT", !.data = FALSE],
   [Plain EXCEPT !.data = FALSE],
   [Plain EXCEPT !.nomem = TRUE],
   [Plain EXCEPT !.throws = TRUE],
   [Plain EXCEPT !.buyer = "answers"],
   [Plain EXCEPT !.buyer = "fails"],
   [Plain EXCEPT !.query = ResSize(Plain) - 1],
   [Plain EXCEPT !.query = ResSize(Plain)],
   [Plain EXCEPT !.query = 1024, !.args = 2000]}
=============================================================================
