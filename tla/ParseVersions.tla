--------------------------- MODULE ParseVersions ---------------------------
(***************************************************************************)
(* The two older parameter loops of the repository, beside the one that    *)
(* QueryParse models: MultiThreadTest/queryAnalyse.cpp, which looks for a  *)
(* key anywhere in a piece, and QueryAnalyseNew/queryAnalyse.cpp, which    *)
(* wants it in front.  Both cut the request at every '&' and never break.  *)
(*                                                                         *)
(* Each loop is a function from the offset of a piece to the fields before *)
(* that piece is handled.  The abstraction is that of QueryParse; a name   *)
(* that is not followed by '=' is not a key.                               *)
(***************************************************************************)
EXTENDS QueryParse

NoFields == [shopid |-> NoText, buyerid |-> NoText, encode |-> NoText,
             keyword |-> NoText, isBuyer |-> FALSE]

\* Mutant: the '&' is left at the end of a piece.
PieceEndWithAmp(from) == IF Find("&", from, N) = NPos THEN N ELSE Find("&", from, N) + 1
\* Where the piece that starts at `from' ends, and where the one starts that
\* ends at `to'.
PieceEnd(from) == IF Find("&", from, N) = NPos THEN N ELSE Find("&", from, N)
PieceStart(to) == Max({0} \cup {k + 1 : k \in Hits("&", 0, to)})

\* MultiThreadTest: one iteration.
TakeAnywhere(old, from) ==
  LET to == PieceEnd(from)
      has(key) == Find(key, from, to) # NPos
      value(key) == <<Find(key, from, to) + KeyLen(key), to>>
      hasValue(key) == has(key) /\ value(key)[1] < to
  IN  CASE hasValue("shopid=") -> [old EXCEPT !.shopid = value("shopid=")]
        [] ~hasValue("shopid=") /\ has("buyerid=") ->
             [old EXCEPT !.isBuyer = TRUE,
                         !.buyerid = IF hasValue("buyerid=") THEN value("buyerid=") ELSE @]
        [] ~hasValue("shopid=") /\ ~has("buyerid=") /\ hasValue("encode=") ->
             [old EXCEPT !.encode = value("encode=")]
        [] ~hasValue("shopid=") /\ ~has("buyerid=") /\ ~hasValue("encode=") /\ hasValue("keyword=") ->
             [old EXCEPT !.keyword = value("keyword=")]
        [] OTHER -> old

\* QueryAnalyseNew: one iteration.  A value may be empty.
TakeInFront(old, from) ==
  LET key == IF from < N THEN query[from + 1] ELSE "_"
      value == <<from + KeyLen(key), PieceEnd(from)>>
  IN  CASE key = "shopid=" -> [old EXCEPT !.shopid = value]
        [] key = "buyerid=" -> [old EXCEPT !.buyerid = value, !.isBuyer = TRUE]
        [] key = "encode=" -> [old EXCEPT !.encode = value]
        [] key = "keyword=" -> [old EXCEPT !.keyword = value]
        [] OTHER -> old

Take(version, old, from) ==
  IF version = "anywhere" THEN TakeAnywhere(old, from) ELSE TakeInFront(old, from)

\* The fields when the loop has come to its end.
LoopResult(version) ==
  LET before[from \in 0 .. N] ==
        IF from = 0 THEN NoFields
        ELSE LET last == PieceStart(from - 1) IN Take(version, before[last], last)
  IN  Take(version, before[PieceStart(N)], PieceStart(N))

-----------------------------------------------------------------------------
SameText(s, t) == s = t \/ (s[1] = s[2] /\ t[1] = t[2])
SameFields(f) ==
  /\ SameText(f.shopid, shopid) /\ SameText(f.buyerid, buyerid)
  /\ SameText(f.encode, encode) /\ SameText(f.keyword, keyword)
  /\ f.isBuyer = isBuyer

\* For a documented request whose keyword holds no '&' the three versions of
\* the loop find the same parameters (QueryAnalyseNew, for which an empty
\* value hides an earlier one, if no key comes twice).
VersionsAgree ==
  /\ pc = "done"
  /\ Documented(query)
  /\ \A k \in Hits("keyword=", 0, N) : Find("&", k, N) = NPos
  => /\ SameFields(LoopResult("anywhere"))
     /\ (\A key \in Keys : Cardinality(Hits(key, 0, N)) <= 1) =>
          SameFields(LoopResult("in front"))
=============================================================================
