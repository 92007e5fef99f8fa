----------------------------- MODULE QueryParse -----------------------------
(***************************************************************************)
(* The loop of queryAnalyse::getQuery that cuts a request such as          *)
(*    shopid=1234&encode=6789&keyword=...                                  *)
(* into its parameters (QueryAnalyseNginx/test/test.cpp; the copy in       *)
(* QueryAnalyseLib/queryAnalyse.cpp differs only in the initial value of   *)
(* `local', which it leaves uninitialised: see InitialLocals).             *)
(*                                                                         *)
(* Abstraction.  A request is a sequence of labelled bytes.  The byte at   *)
(* which one of the four searched-for keys starts carries the key as its   *)
(* label, '&' carries "&", and every other byte, the remaining letters of  *)
(* a key included, carries "_".  std::string::find is then a search for a  *)
(* label, and cutting a string inside a key loses the key, as it does in   *)
(* the code.  The strings the code copies are all slices of the request,   *)
(* so a string is the pair <<from, to>> of the 0-based offsets it spans.   *)
(***************************************************************************)
EXTENDS Integers, Sequences, FiniteSetsExt

CONSTANTS
  Requests,       \* the requests getQuery may be called with
  InitialLocals   \* what `local' may hold before it is first assigned

Keys == {"shopid=", "buyerid=", "encode=", "keyword="}
Labels == Keys \cup {"&", "_"}

KeyLen(key) == IF key \in {"shopid=", "encode="} THEN 7 ELSE 8

\* q labels a real string: a key is there with all its letters, and no two
\* keys overlap (each ends in '=', which is nowhere else in any of them).
WellLabelled(q) ==
  \A i \in 1 .. Len(q) : q[i] \in Keys =>
     /\ i + KeyLen(q[i]) - 1 <= Len(q)
     /\ \A j \in i + 1 .. i + KeyLen(q[i]) - 1 : q[j] = "_"

ASSUME RequestsAssumption ==
  \A q \in Requests : q \in Seq(Labels) /\ WellLabelled(q)
ASSUME LocalsAssumption == InitialLocals \subseteq Int /\ InitialLocals # {}

VARIABLES
  query,      \* the request (char *queryList)
  pos,        \* queryStr is the slice <<pos, Len(query)>>
  local,      \* offset of the last '&' found, relative to pos at that time
  shopid, buyerid, encode, keyword,   \* slices of the request
  isBuyer,
  pc          \* "loop", "done" or "threw" (std::out_of_range)

fields == <<shopid, buyerid, encode, keyword, isBuyer>>
vars == <<query, pos, local, fields, pc>>

-----------------------------------------------------------------------------
NPos == -1
NoText == <<0, 0>>
N == Len(query)

\* Offsets in from..to-1 at which `label' occurs, and std::string::find.
Hits(label, from, to) == {i \in from .. to - 1 : query[i + 1] = label}
Find(label, from, to) ==
  IF Hits(label, from, to) = {} THEN NPos ELSE Min(Hits(label, from, to))

Amp == Find("&", pos, N)
KeywordFirst == pos < N /\ query[pos + 1] = "keyword="

\* Mutant: no special case for keyword=, as in MultiThreadTest/queryAnalyse.cpp.
TempEndAtAmp == IF Amp = NPos THEN N ELSE Amp
\* tempStr is the slice <<pos, TempEnd>>: the rest of the request when it
\* holds no '&' or starts with keyword=, else the text up to the first '&'.
TempEnd == IF Amp = NPos \/ KeywordFirst THEN N ELSE Amp
\* Mutant: the '&' found is kept as an offset into the whole request.
NextLocalAbsolute == IF Amp = NPos \/ KeywordFirst THEN local ELSE Amp
\* Mutant: the '&' itself is left at the front of the next queryStr.
NextLocalAtAmp == IF Amp = NPos \/ KeywordFirst THEN local ELSE Amp - pos - 1
NextLocal == IF Amp = NPos \/ KeywordFirst THEN local ELSE Amp - pos

Has(key) == Find(key, pos, TempEnd) # NPos
ValueFrom(key) == Find(key, pos, TempEnd) + KeyLen(key)
HasValue(key) == Has(key) /\ ValueFrom(key) < TempEnd
Value(key) == <<ValueFrom(key), TempEnd>>

-----------------------------------------------------------------------------
Init ==
  /\ query \in Requests
  /\ pos = 0
  /\ local \in InitialLocals
  /\ shopid = NoText /\ buyerid = NoText /\ encode = NoText /\ keyword = NoText
  /\ isBuyer = FALSE
  /\ pc = "loop"

\* The end of an iteration that did not break: leave the loop when queryStr
\* has no '&', else queryStr = queryStr.substr(local+1), which throws when
\* the offset lies past the end (a negative int becomes a huge size_t).
EndIteration ==
  /\ local' = NextLocal
  /\ \/ /\ Amp = NPos
        /\ pc' = "done"
        /\ UNCHANGED pos
     \/ /\ Amp # NPos
        /\ NextLocal + 1 \in 0 .. N - pos
        /\ pos' = pos + NextLocal + 1
        /\ UNCHANGED pc
     \/ /\ Amp # NPos
        /\ NextLocal + 1 \notin 0 .. N - pos
        /\ pc' = "threw"
        /\ UNCHANGED pos

TakeShopid ==
  /\ pc = "loop"
  /\ HasValue("shopid=")
  /\ shopid' = Value("shopid=")
  /\ EndIteration
  /\ UNCHANGED <<query, buyerid, encode, keyword, isBuyer>>

TakeBuyerid ==
  /\ pc = "loop"
  /\ ~HasValue("shopid=")
  /\ Has("buyerid=")
  /\ isBuyer' = TRUE
  /\ buyerid' = IF HasValue("buyerid=") THEN Value("buyerid=") ELSE buyerid
  /\ EndIteration
  /\ UNCHANGED <<query, shopid, encode, keyword>>

TakeEncode ==
  /\ pc = "loop"
  /\ ~HasValue("shopid=") /\ ~Has("buyerid=")
  /\ HasValue("encode=")
  /\ encode' = Value("encode=")
  /\ EndIteration
  /\ UNCHANGED <<query, shopid, buyerid, keyword, isBuyer>>

\* The only branch that leaves the loop with break.
TakeKeyword ==
  /\ pc = "loop"
  /\ ~HasValue("shopid=") /\ ~Has("buyerid=") /\ ~HasValue("encode=")
  /\ HasValue("keyword=")
  /\ keyword' = Value("keyword=")
  /\ local' = NextLocal
  /\ pc' = "done"
  /\ UNCHANGED <<query, pos, shopid, buyerid, encode, isBuyer>>

SkipPiece ==
  /\ pc = "loop"
  /\ ~HasValue("shopid=") /\ ~Has("buyerid=")
  /\ ~HasValue("encode=") /\ ~HasValue("keyword=")
  /\ EndIteration
  /\ UNCHANGED <<query, fields>>

\* getQuery has left the loop; nothing of the loop's state changes any more.
Left == pc # "loop" /\ UNCHANGED vars

Next == TakeShopid \/ TakeBuyerid \/ TakeEncode \/ TakeKeyword \/ SkipPiece \/ Left

Spec == Init /\ [][Next]_vars /\ WF_vars(Next)

-----------------------------------------------------------------------------
(* What getQuery promises.                                                 *)

Slices == {s \in (0 .. N) \X (0 .. N) : s[1] <= s[2]}

\* Every string the loop holds is a slice of the request it was given.
TypeOK ==
  /\ query \in Seq(Labels) /\ WellLabelled(query)
  /\ pos \in 0 .. N
  /\ local \in Int
  /\ {shopid, buyerid, encode, keyword} \subseteq Slices
  /\ isBuyer \in BOOLEAN
  /\ pc \in {"loop", "done", "threw"}

\* keyword= is the last parameter, as in both forms of request that READ.md
\* documents: no key follows it, not even inside the keyword's text.
KeywordLast(q) ==
  \A i \in 1 .. Len(q) :
     q[i] = "keyword=" => \A j \in i + 1 .. Len(q) : q[j] \notin Keys

\* Besides, keys stand only at the start of a parameter.
Documented(q) ==
  /\ KeywordLast(q)
  /\ \A i \in 2 .. Len(q) : q[i] \in Keys => q[i - 1] = "&"

\* A request whose keyword comes last never makes substr(local+1) throw
\* std::out_of_range, whatever `local' held before the loop: the stale value
\* is used only when a keyword= at the front is followed by another key.
NeverThrows == KeywordLast(query) => pc # "threw"

\* Each iteration that is followed by another one shortens queryStr: the
\* offset local+1 that it cuts at, a stale one included, is 0 only if `local'
\* was negative, which an int local = 0 (test.cpp) never becomes.
Progress == [][pc = "loop" /\ pc' = "loop" /\ local >= 0 => pos' > pos]_vars

\* while (1) is left, by break or by an exception: for every request with
\* `local' initialised (test.cpp), and for every one whose keyword comes last
\* with any value in it (QueryAnalyseLib, where other requests may spin).
Terminates == local >= 0 \/ KeywordLast(query) => <>(pc # "loop")

\* The reference: the end of the parameter that starts at offset i, and the
\* value of the last parameter named `key' with a non-empty value among
\* those that start before `upto'.
ParamEnd(i) ==
  IF query[i + 1] = "keyword=" \/ Find("&", i, N) = NPos THEN N ELSE Find("&", i, N)
Given(key, upto) ==
  {i \in Hits(key, 0, upto) : i + KeyLen(key) < ParamEnd(i)}
LastGiven(key, upto) ==
  IF Given(key, upto) = {} THEN NoText
  ELSE LET i == Max(Given(key, upto)) IN <<i + KeyLen(key), ParamEnd(i)>>

\* For a documented request the loop has recorded, at every iteration, just
\* the parameters it has passed; once it is done, all of the request's.  The
\* keyword keeps the '&'s that the user typed (main.cpp's third example).
FieldsRecovered ==
  Documented(query) =>
    LET upto == IF pc = "done" THEN N ELSE pos IN
    /\ shopid = LastGiven("shopid=", upto)
    /\ buyerid = LastGiven("buyerid=", upto)
    /\ encode = LastGiven("encode=", upto)
    /\ keyword = LastGiven("keyword=", upto)
    /\ isBuyer = (Hits("buyerid=", 0, upto) # {})

\* What the example requests of main.cpp with keyword= in front ask for: the
\* text behind keyword= is recovered wherever it stands.  The code loses it.
KeywordRecovered ==
  pc = "done" /\ (\E i \in Hits("keyword=", 0, N - KeyLen("keyword=")) :
                     query[i + KeyLen("keyword=") + 1] = "_") =>
    keyword # NoText
=============================================================================
