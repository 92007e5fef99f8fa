------------------------- MODULE BuyerLookup_proofs -------------------------
(***************************************************************************)
(* Proofs about getBuyerID.  First the call in which the transfer is one   *)
(* step: its use of the heap and what it lists, for every set of answers.  *)
(* Then the call with the transfer inside it: the transfer keeps its       *)
(* promises for bodies of every length, to getBuyerID it is that one step, *)
(* and from end to end the call does what LookupSpec promises.             *)
(***************************************************************************)
EXTENDS BuyerLookup, TLAPS

\* The heap in which the objects of `l' are live, those of `f' have been
\* freed and the rest are null.
Shape(l, f) ==
  [o \in Objects |-> IF o \in l THEN "live" ELSE IF o \in f THEN "freed" ELSE "null"]

Early == {"contChar"}
Late == {"contChar", "statusStr", "statusResult"}
AtEnd == {"root", "resultStr", "resultResult"}

\* Where the call is decides what it holds: the inductive invariant.  Only
\* the two labels that several failures lead to leave a choice.
HeapAt ==
  /\ pc \in {"start", "fetch"} => heap = Shape({}, {})
  /\ pc = "parse" => heap = Shape({"contChar"}, {})
  /\ pc = "noRoot" => heap = Shape({}, Early)
  /\ pc \in {"printStatus", "noStatusStr"} => heap = Shape({"root"}, Early)
  /\ pc = "parseStatus" => heap = Shape({"root", "statusStr"}, Early)
  /\ pc = "checkStatus" => heap = Shape({"root", "statusStr", "statusResult"}, Early)
  /\ pc = "statusFailed" =>
       \/ heap = Shape({"root", "statusStr"}, Early)
       \/ heap = Shape({"root", "statusStr", "statusResult"}, Early)
  /\ pc = "printResult" => heap = Shape({"root"}, Late)
  /\ pc = "parseResult" => heap = Shape({"root", "resultStr"}, Late)
  /\ pc = "resultFailed" =>
       \/ heap = Shape({"root"}, Late)
       \/ heap = Shape({"root", "resultStr"}, Late)
  /\ pc \in {"readIds", "listIds"} => heap = Shape(AtEnd, Late)

\* What the call knows of the answer by then.
AnswerAt ==
  /\ pc \in {"printResult", "parseResult", "readIds", "listIds"} => StatusOk
  /\ pc \in {"parseResult", "readIds", "listIds"} => Len(answer.members) > 1

IInv == NoMisuse /\ HeapAt /\ AnswerAt /\ LeakOnlyWithoutIds

\* A call starts with no object, no misuse and no answer.
LEMMA IInvInit == Init => IInv
BY DEF Init, IInv, NoMisuse, HeapAt, AnswerAt, LeakOnlyWithoutIds, Shape

\* Every call of getBuyerID leaves the objects the next one expects, and
\* every return frees each of them at most once.
LEMMA IInvStep == IInv /\ [Next]_vars => IInv'
<1> SUFFICES ASSUME IInv, [Next]_vars PROVE IInv'
  OBVIOUS
<1> USE DEF IInv, NoMisuse, HeapAt, AnswerAt, LeakOnlyWithoutIds, Live, Early,
            Late, AtEnd
<1>1. CASE EmptyBuyerid \/ Ask
  BY <1>1 DEF EmptyBuyerid, Ask, Shape
<1>2. CASE Fetched
  BY <1>2 DEF Fetched, Bind, Shape, Objects
<1>3. CASE ParseRoot
  <2>1. PICK ok \in BOOLEAN :
          /\ heap' = [Free({"contChar"}) EXCEPT !["root"] = IF ok THEN "live" ELSE "null"]
          /\ pc' = IF ok THEN "printStatus" ELSE "noRoot"
    BY <1>3 DEF ParseRoot, Goto
  <2>2. heap' = Shape(IF ok THEN {"root"} ELSE {}, Early)
    BY <1>3, <2>1 DEF ParseRoot, Free, Shape, Objects
  <2>3. misuse' = FALSE
    BY <1>3 DEF ParseRoot, UseAndFree, Shape, Objects
  <2>4. QED
    BY <2>1, <2>2, <2>3
<1>4. CASE NoRoot
  BY <1>4 DEF NoRoot, GiveUp, FreeOnly, Free, Shape, Objects
<1>5. CASE PrintStatus
  BY <1>5 DEF PrintStatus, Use, Bind, Goto, Shape, Objects
<1>6. CASE NoStatusStr
  BY <1>6 DEF NoStatusStr, GiveUp, FreeOnly, Free, Shape, Objects
<1>7. CASE ParseStatus
  <2>1. PICK ok \in BOOLEAN :
          /\ heap' = Bind("statusResult", ok)
          /\ pc' = IF ok THEN "checkStatus" ELSE "statusFailed"
    BY <1>7 DEF ParseStatus, Goto
  <2>2. heap' = Shape(IF ok THEN {"root", "statusStr", "statusResult"}
                            ELSE {"root", "statusStr"}, Early)
    BY <1>7, <2>1 DEF ParseStatus, Bind, Shape, Objects
  <2>3. misuse' = FALSE
    BY <1>7 DEF ParseStatus, Use, Shape, Objects
  <2>4. QED
    BY <2>1, <2>2, <2>3
<1>8. CASE StatusFailed
  BY <1>8 DEF StatusFailed, GiveUp, FreeOnly, Free, Shape, Objects
<1>9. CASE CheckStatus
  <2>1. misuse' = FALSE
    BY <1>9 DEF CheckStatus, UseAndFree, Shape, Objects
  <2>2. CASE StatusOk
    <3>1. /\ heap' = Free({"statusResult", "statusStr"})
          /\ pc' = "printResult" /\ StatusOk'
      BY <1>9, <2>2 DEF CheckStatus, Goto, StatusOk
    <3>2. heap' = Shape({"root"}, Late)
      BY <1>9, <3>1 DEF CheckStatus, Free, Shape, Objects
    <3>3. QED
      BY <2>1, <3>1, <3>2
  <2>3. CASE ~StatusOk
    BY <1>9, <2>1, <2>3 DEF CheckStatus, Goto
  <2>4. QED
    BY <2>2, <2>3
<1>10. CASE PrintResult
  <2>1. PICK ok \in {Len(answer.members) > 1, FALSE} :
          /\ heap' = Bind("resultStr", ok)
          /\ pc' = IF ok THEN "parseResult" ELSE "resultFailed"
    BY <1>10 DEF PrintResult, Goto
  <2>2. heap' = Shape(IF ok THEN {"root", "resultStr"} ELSE {"root"}, Late)
    BY <1>10, <2>1 DEF PrintResult, Bind, Shape, Objects
  <2>3. misuse' = FALSE /\ answer' = answer /\ StatusOk
    BY <1>10 DEF PrintResult, Use, Goto, Shape, Objects
  <2>4. CASE ok
    BY <2>1, <2>2, <2>3, <2>4 DEF StatusOk
  <2>5. CASE ~ok
    BY <2>1, <2>2, <2>3, <2>5
  <2>6. QED
    BY <2>4, <2>5
<1>11. CASE ParseResult
  <2>1. PICK ok \in BOOLEAN :
          /\ heap' = Bind("resultResult", ok)
          /\ pc' = IF ok THEN "readIds" ELSE "resultFailed"
    BY <1>11 DEF ParseResult, Goto
  <2>2. heap' = Shape(IF ok THEN AtEnd ELSE {"root", "resultStr"}, Late)
    BY <1>11, <2>1 DEF ParseResult, Bind, Shape, Objects
  <2>3. /\ misuse' = FALSE /\ answer' = answer /\ StatusOk
        /\ Len(answer.members) > 1
    BY <1>11 DEF ParseResult, Use, Goto, Shape, Objects
  <2>4. QED
    BY <2>1, <2>2, <2>3 DEF StatusOk
<1>12. CASE ResultFailed
  BY <1>12 DEF ResultFailed, GiveUp, FreeOnly, Free, Shape, Objects
<1>13. CASE ReadIds
  BY <1>13 DEF ReadIds, Use, Goto, StatusOk, Shape, Objects
<1>14. CASE ListNoId
  BY <1>14 DEF ListNoId, StatusOk, Count, Id, Slot, Shape, Objects
<1>15. CASE ListIds
  BY <1>15 DEF ListIds, FreeOnly, FreeAtEnd, Free, Shape, Objects
<1>16. CASE UNCHANGED vars
  BY <1>16 DEF vars, StatusOk, Count, Id, Slot
<1>17. QED
  BY <1>1, <1>2, <1>3, <1>4, <1>5, <1>6, <1>7, <1>8, <1>9, <1>10, <1>11, <1>12,
     <1>13, <1>14, <1>15, <1>16 DEF Next, Step, Left

\* getBuyerID never reads through a null or dangling pointer and never frees
\* an object twice, whatever the service answers and whichever call fails.
THEOREM HeapSafe == Spec => []NoMisuse
BY IInvInit, IInvStep, PTL DEF Spec, IInv

\* What it leaves allocated is nothing, or exactly the three objects of an
\* answer without ids (or with one that is no string).
THEOREM LeaksOnlyWithoutIds == Spec => []LeakOnlyWithoutIds
BY IInvInit, IInvStep, PTL DEF Spec, IInv

-----------------------------------------------------------------------------
(* What the call lists.                                                    *)

\* Only a JSON answer gets as far as its members, and no id is listed before
\* the call returns.
ListingInv ==
  /\ pc \in {"printStatus", "parseStatus", "checkStatus", "printResult", "parseResult",
             "readIds", "listIds"} => answer.kind = "json"
  /\ pc # "returned" => result = NoIds

\* It holds before the call asks.
LEMMA ListingInit == Init => ListingInv
BY DEF Init, ListingInv

\* ParseRoot goes on only with JSON; the steps after it keep the answer.
LEMMA ListingStep == ListingInv /\ [Next]_vars => ListingInv'
<1> SUFFICES ASSUME ListingInv, [Next]_vars PROVE ListingInv'
  OBVIOUS
<1> USE DEF ListingInv
<1>1. CASE EmptyBuyerid \/ Ask \/ Fetched
  BY <1>1 DEF EmptyBuyerid, Ask, Fetched
<1>2. CASE ParseRoot
  BY <1>2 DEF ParseRoot, Goto
<1>3. CASE NoRoot \/ NoStatusStr \/ StatusFailed \/ ResultFailed
  BY <1>3 DEF NoRoot, NoStatusStr, StatusFailed, ResultFailed, GiveUp
<1>4. CASE PrintStatus \/ ParseStatus \/ CheckStatus
  BY <1>4 DEF PrintStatus, ParseStatus, CheckStatus, Goto
<1>5. CASE PrintResult \/ ParseResult \/ ReadIds
  BY <1>5 DEF PrintResult, ParseResult, ReadIds, Goto
<1>6. CASE ListNoId \/ ListIds
  BY <1>6 DEF ListNoId, ListIds
<1>7. CASE UNCHANGED vars
  BY <1>7 DEF vars
<1>8. QED
  BY <1>1, <1>2, <1>3, <1>4, <1>5, <1>6, <1>7 DEF Next, Step, Left

\* The three ways to list the ids (none, the only one, all of them joined)
\* come to the same: the ids of the answer in their order.
LEMMA ListsRelated ==
  ASSUME IInv, ListingInv, pc = "listIds", ListNoId \/ ListIds
  PROVE  result' = RelatedIn(answer)
<1> DEFINE b == Id("buyer_id")
           w == Id("wx_id")
           q == Id("qq_id")
<1>1. RelatedIn(answer) = b \o w \o q
  BY DEF IInv, AnswerAt, ListingInv, StatusOk, RelatedIn, Id, Slot
<1>2. ASSUME NEW f PROVE Id(f) = <<>> \/ \E x : Id(f) = <<x>>
  BY DEF Id
<1>3. /\ b = <<>> \/ \E x : b = <<x>>
      /\ w = <<>> \/ \E x : w = <<x>>
      /\ q = <<>> \/ \E x : q = <<x>>
  BY <1>2
<1>4. Count = Len(b) + Len(w) + Len(q)
  BY DEF Count
<1>5. OnlyId = IF b # <<>> THEN b ELSE IF w # <<>> THEN w ELSE q
  BY DEF OnlyId
<1>6. CASE ListNoId
  <2>1. result' = <<>> /\ Count = 0
    BY <1>6 DEF ListNoId, ListingInv, NoIds
  <2> HIDE DEF b, w, q
  <2>2. b = <<>> /\ w = <<>> /\ q = <<>>
    BY <1>3, <1>4, <2>1
  <2>3. QED
    BY <1>1, <2>1, <2>2
<1>7. CASE ListIds
  <2>1. result' = IF Count = 1 THEN OnlyId ELSE b \o w \o q
    BY <1>7 DEF ListIds
  <2> HIDE DEF b, w, q
  <2>2. ASSUME Count = 1 PROVE OnlyId = b \o w \o q
    BY <1>3, <1>4, <1>5, <2>2
  <2>3. QED
    BY <1>1, <2>1, <2>2
<1>8. QED
  BY <1>6, <1>7

-----------------------------------------------------------------------------
(* The transfer, and the call with the transfer inside it.                 *)

\* The inductive invariant of the transfer: as long as it has not failed,
\* chunk.size counts what libcurl has handed over.
TransferInv ==
  /\ body \in Nat /\ sent \in Nat /\ size \in Nat
  /\ TransferInBounds
  /\ TransferWhole
  /\ fetchPc = "start" => sent = 0
  /\ fetchPc \in {"start", "transfer", "ok"} => size = sent
  /\ fetchPc \in {"transfer", "ok"} /\ mem = "live" /\ sent > 0 => terminated
  /\ fetchPc = "ok" => sent = body

\* It holds before the handle is made.
LEMMA TransferInit == LInit => TransferInv
BY BoundsAssumption
   DEF LInit, F!Init, TransferInv, TransferInBounds, TransferWhole,
       F!NoOverrun, F!WholeBodyOrNull

\* Every step of get_url_contents, its callback and libcurl keeps it.
LEMMA TransferStep == TransferInv /\ [LNext]_lookupVars => TransferInv'
<1> SUFFICES ASSUME TransferInv, [LNext]_lookupVars PROVE TransferInv'
  OBVIOUS
<1> USE DEF TransferInv, TransferInBounds, TransferWhole, F!NoOverrun, F!WholeBodyOrNull
<1>1. CASE UNCHANGED fetchVars
  BY <1>1 DEF fetchVars
<1>2. CASE F!Start
  BY <1>2 DEF F!Start
<1>3. CASE F!WriteMemoryCallBack
  <2>1. PICK realsize \in 0 .. body - sent :
          /\ cap' = size + realsize + 1
          /\ size' = size + realsize
          /\ sent' = sent + realsize
          /\ overrun' = (overrun \/ size' >= cap')
    BY <1>3 DEF F!WriteMemoryCallBack, F!NewCap, F!NewSize
  <2>2. realsize \in Nat /\ ~(size' >= cap')
    BY <2>1
  <2>3. ~overrun'
    BY <2>1, <2>2
  <2>4. QED
    BY <1>3, <2>1, <2>2, <2>3 DEF F!WriteMemoryCallBack
<1>4. CASE F!WriteMemoryFails
  BY <1>4 DEF F!WriteMemoryFails
<1>5. CASE F!TransferEnds \/ F!TransferFails
  BY <1>5 DEF F!TransferEnds, F!TransferFails
<1>6. CASE F!ReturnNull
  BY <1>6 DEF F!ReturnNull
<1>7. CASE F!ReturnContents
  BY <1>7 DEF F!ReturnContents
<1>8. CASE F!Returned
  BY <1>8 DEF F!Returned, F!vars
<1>9. QED
  BY <1>1, <1>2, <1>3, <1>4, <1>5, <1>6, <1>7, <1>8
     DEF LNext, FetchStep, FetchReturns, F!Next, lookupVars, fetchVars

\* WriteMemoryCallBack never writes behind the block it has reallocated, for
\* bodies of every length and every division into chunks.
THEOREM TransferBounded == LSpec => []TransferInBounds
<1>1. TransferInv => TransferInBounds
  BY DEF TransferInv
<1>2. QED
  BY <1>1, TransferInit, TransferStep, PTL DEF LSpec

\* get_url_contents hands getBuyerID the whole body or NULL, and a body that
\* is not empty as a C string.
THEOREM TransferComplete == LSpec => []TransferWhole
<1>1. TransferInv => TransferWhole
  BY DEF TransferInv
<1>2. QED
  BY <1>1, TransferInit, TransferStep, PTL DEF LSpec

-----------------------------------------------------------------------------
(* The transfer as one step.                                               *)

ResponseKnown == response \in Answers

\* What the service sends does not change.
LEMMA ResponseInit == LInit => ResponseKnown
BY DEF LInit, ResponseKnown

\* No step of the transfer or of getBuyerID writes to it.
LEMMA ResponseStep == ResponseKnown /\ [LNext]_lookupVars => ResponseKnown'
BY DEF ResponseKnown, LNext, FetchStep, FetchReturns, lookupVars

\* Every text that string cont = contChar may be given is an answer.
LEMMA TextsAreAnswers == ResponseKnown => Texts \subseteq Answers
BY AnyTextAssumption DEF ResponseKnown, Texts

\* A step of the composition is a step of BuyerID or leaves its state alone.
LEMMA OneStep == ResponseKnown /\ [LNext]_lookupVars => [Next]_vars
<1> SUFFICES ASSUME ResponseKnown, [LNext]_lookupVars PROVE [Next]_vars
  OBVIOUS
<1>1. CASE FetchReturns
  BY <1>1, TextsAreAnswers DEF FetchReturns, Next, Fetched
<1>2. CASE FetchStep
  BY <1>2 DEF FetchStep
<1>3. CASE Step \/ Left
  BY <1>3 DEF Next
<1>4. CASE UNCHANGED lookupVars
  BY <1>4 DEF lookupVars
<1>5. QED
  BY <1>1, <1>2, <1>3, <1>4 DEF LNext

\* getBuyerID with the real transfer is a behaviour of BuyerID, in which the
\* transfer is one step with any answer: the safety part of
\* TransferIsOneStep.
THEOREM TransferRefines == LSpec => Init /\ [][Next]_vars
<1>1. LInit => Init
  BY DEF LInit
<1>2. QED
  BY <1>1, ResponseInit, ResponseStep, OneStep, PTL DEF LSpec

\* So the heap is used well with the real transfer too: no null, dangling or
\* twice freed pointer, whatever comes over the wire and whichever call fails.
THEOREM LookupHeapSafe == LSpec => []NoMisuse
<1>1. IInv => NoMisuse
  BY DEF IInv
<1>2. QED
  BY <1>1, TransferRefines, IInvInit, IInvStep, PTL

\* And the only objects left allocated are those of an answer without ids.
THEOREM LookupLeaks == LSpec => []LeakOnlyWithoutIds
<1>1. IInv => LeakOnlyWithoutIds
  BY DEF IInv
<1>2. QED
  BY <1>1, TransferRefines, IInvInit, IInvStep, PTL
-----------------------------------------------------------------------------
(* From end to end.                                                        *)

\* A call that got as far as the list returns every id of the answer, in
\* order, with the real transfer too.
THEOREM ListsInFull == LSpec => ListedInFull
<1>1. IInv /\ ListingInv /\ [Next]_vars
        => [pc = "listIds" /\ pc' = "returned" => result' = RelatedIn(answer)]_vars
  <2> SUFFICES ASSUME IInv, ListingInv, [Next]_vars, pc = "listIds", pc' = "returned"
               PROVE  result' = RelatedIn(answer)
    OBVIOUS
  <2>1. ListNoId \/ ListIds
    BY DEF Next, Step, EmptyBuyerid, Ask, Fetched, ParseRoot, NoRoot, PrintStatus, NoStatusStr,
           ParseStatus, StatusFailed, CheckStatus, PrintResult, ParseResult, ResultFailed,
           ReadIds, Left, vars
  <2>2. QED
    BY <2>1, ListsRelated
<1>2. QED
  BY <1>1, TransferRefines, IInvInit, IInvStep, ListingInit, ListingStep, PTL DEF ListedInFull

\* What getBuyerID works on once the transfer is over: what the service sent,
\* no JSON or, if the text had no end, anything.
AnswerInv ==
  /\ pc \in {"start", "fetch"} => answer.kind # "json"
  /\ Unterminated \/ answer = response \/ answer.kind # "json"

\* It holds before the call asks.
LEMMA AnswerInit == LInit => AnswerInv
BY DEF LInit, Init, AnswerInv, NoAnswer

\* A step of getBuyerID that is not the transfer keeps the answer.
LEMMA StepKeepsAnswer == Step => answer' = answer
BY DEF Step, EmptyBuyerid, Ask, ParseRoot, NoRoot, PrintStatus, NoStatusStr, ParseStatus,
       StatusFailed, CheckStatus, PrintResult, ParseResult, ResultFailed, ReadIds, ListNoId,
       ListIds, GiveUp, Goto

\* FetchReturns establishes it, and after that neither the answer nor the
\* state of the transfer changes.
LEMMA AnswerStep == AnswerInv /\ [LNext]_lookupVars => AnswerInv'
<1> SUFFICES ASSUME AnswerInv, [LNext]_lookupVars PROVE AnswerInv'
  OBVIOUS
<1>1. CASE FetchReturns
  <2>1. NoAnswer.kind # "json" /\ NotJson.kind # "json"
    BY DEF NoAnswer, NotJson
  <2>2. Unterminated' = Unterminated /\ response' = response
    BY <1>1 DEF FetchReturns, Unterminated, fetchVars
  <2>3. Unterminated \/ answer' = response \/ answer'.kind # "json"
    BY <1>1, <2>1 DEF FetchReturns, Texts, Unterminated
  <2>4. pc' \in {"threw", "parse"}
    BY <1>1 DEF FetchReturns
  <2>5. QED
    BY <2>2, <2>3, <2>4 DEF AnswerInv
<1>2. CASE FetchStep
  BY <1>2 DEF FetchStep, vars, AnswerInv
<1>3. CASE Step /\ UNCHANGED <<response, fetchVars>>
  <2>1. answer' = answer /\ response' = response /\ Unterminated' = Unterminated
    BY <1>3, StepKeepsAnswer DEF Unterminated, fetchVars
  <2>2. pc' \in {"start", "fetch"} => pc = "start"
    BY <1>3 DEF Step, EmptyBuyerid, Ask, ParseRoot, NoRoot, PrintStatus, NoStatusStr,
                ParseStatus, StatusFailed, CheckStatus, PrintResult, ParseResult, ResultFailed,
                ReadIds, ListNoId, ListIds, GiveUp, Goto
  <2>3. QED
    BY <2>1, <2>2 DEF AnswerInv
<1>4. CASE UNCHANGED lookupVars
  BY <1>4 DEF lookupVars, vars, fetchVars, AnswerInv, Unterminated
<1>5. QED
  BY <1>1, <1>2, <1>3, <1>4 DEF LNext, Left, lookupVars

\* Every step of the composition leaves the outcome open or gives the one
\* outcome that LookupSpec allows.
LEMMA StepFinishes ==
  IInv /\ ListingInv /\ AnswerInv /\ [LNext]_lookupVars
    => [L!Finish]_<<RelatedIn(response), Outcome>>
<1> SUFFICES ASSUME IInv, ListingInv, AnswerInv, [LNext]_lookupVars
             PROVE  [L!Finish]_<<RelatedIn(response), Outcome>>
  OBVIOUS
<1>1. RelatedIn(response)' = RelatedIn(response)
  BY DEF LNext, FetchStep, FetchReturns, lookupVars, RelatedIn
<1>2. ASSUME pc \notin {"returned", "threw"}, pc' = "threw" PROVE L!Finish
  BY <1>1, <1>2 DEF L!Finish, L!Outcomes, L!Threw, Outcome
<1>3. ASSUME pc \notin {"returned", "threw"}, pc' = "returned", Step PROVE L!Finish
  <2>1. CASE ListNoId \/ ListIds
    <3>1. pc = "listIds"
      BY <2>1 DEF ListNoId, ListIds
    <3>2. result' = RelatedIn(answer) /\ answer.kind = "json"
      BY <2>1, <3>1, ListsRelated DEF ListingInv
    <3>3. ~Unterminated => result' = RelatedIn(response)
      BY <3>2 DEF AnswerInv
    <3>4. QED
      BY <1>1, <1>3, <3>3 DEF L!Finish, L!Outcomes, L!Returned, Outcome
  <2>2. CASE ~(ListNoId \/ ListIds)
    <3>1. result' = <<>>
      BY <1>3, <2>2 DEF Step, EmptyBuyerid, Ask, ParseRoot, NoRoot, PrintStatus, NoStatusStr,
         ParseStatus, StatusFailed, CheckStatus, PrintResult, ParseResult, ResultFailed,
         ReadIds, GiveUp, Goto, ListingInv, NoIds
    <3>2. QED
      BY <1>1, <1>3, <3>1 DEF L!Finish, L!Outcomes, L!Returned, Outcome
  <2>3. QED
    BY <2>1, <2>2
<1>4. ASSUME pc \in {"returned", "threw"} PROVE UNCHANGED <<pc, result>>
  BY <1>4 DEF LNext, Step, EmptyBuyerid, Ask, ParseRoot, NoRoot, PrintStatus, NoStatusStr,
     ParseStatus, StatusFailed, CheckStatus, PrintResult, ParseResult, ResultFailed, ReadIds,
     ListNoId, ListIds, FetchStep, FetchReturns, Left, lookupVars, vars
<1>5. ASSUME pc' = "returned" PROVE Step \/ pc = "returned"
  BY <1>5 DEF LNext, FetchStep, FetchReturns, Left, lookupVars, vars
<1>6. CASE pc \in {"returned", "threw"}
  BY <1>1, <1>4, <1>6 DEF Outcome
<1>7. CASE pc \notin {"returned", "threw"} /\ pc' \notin {"returned", "threw"}
  BY <1>1, <1>7 DEF Outcome
<1>8. QED
  BY <1>2, <1>3, <1>5, <1>6, <1>7

\* getBuyerID with the real transfer implements what it promises its caller:
\* one outcome, which is every id the service sent, none, or an exception.
THEOREM LookupRefines == LSpec => LookupImplements
<1>1. LInit => L!Init
  BY DEF LInit, Init, L!Init, Outcome
<1>2. QED
  BY <1>1, StepFinishes, TransferRefines, IInvInit, IInvStep, ListingInit, ListingStep,
     AnswerInit, AnswerStep, PTL DEF LSpec, LookupImplements, L!Spec
=============================================================================
