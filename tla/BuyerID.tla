------------------------------ MODULE BuyerID ------------------------------
(***************************************************************************)
(* One call of queryAnalyse::getBuyerID (test.cpp 167-324): ask the user   *)
(* service which ids belong to a buyer, take the JSON answer apart in two  *)
(* steps (status, then result) and list the ids.  The module follows what  *)
(* the call allocates: every cJSON_Parse and cJSON_Print returns a heap    *)
(* object, any of them may fail, and each early return frees by hand.      *)
(*                                                                         *)
(* Abstraction.  An answer is NULL (the transfer failed), a text that is   *)
(* not JSON, or the sequence of the members of its root, each of which is  *)
(* a record of what the code looks up in it.  Printing a member and        *)
(* parsing the text again yields the member, or fails for lack of memory.  *)
(* Ids are opaque values; how they are joined is layout and left out.      *)
(***************************************************************************)
EXTENDS Naturals, Sequences

CONSTANTS
  Answers,  \* what get_url_contents may return
  Ids       \* the ids the user service knows

Fields == {"buyer_id", "wx_id", "qq_id"}

\* What cJSON_GetObjectItem finds under a name: nothing, a value that is no
\* string (its valuestring is NULL), "", or an id.  A status_code counts as
\* zero when its valueint is 0, as it is for "0", null and false.
Slots == {"absent", "nonstring", "empty"} \cup Ids
StatusCodes == {"absent", "zero", "nonzero"}
Members == [status_code : StatusCodes, ids : [Fields -> Slots]]

NoAnswer == [kind |-> "null", members |-> <<>>]
NotJson == [kind |-> "text", members |-> <<>>]
Json(members) == [kind |-> "json", members |-> members]

ASSUME AnswersAssumption ==
  Answers \subseteq [kind : {"null", "text", "json"}, members : Seq(Members)]
ASSUME IdsAssumption == Ids \cap {"absent", "nonstring", "empty"} = {}

Objects == {"contChar", "root", "statusStr", "statusResult", "resultStr", "resultResult"}

VARIABLES
  answer,   \* the service's answer, once it has come
  heap,     \* each pointer of the call: "null", "live" or "freed"
  misuse,   \* a null or freed object was used, or one was freed twice
  result,   \* the ids of buyeridResult; <<>> is "buyerid:"
  pc        \* the next call the code makes, or "returned" or "threw"

vars == <<answer, heap, misuse, result, pc>>

-----------------------------------------------------------------------------
NoIds == <<>>
Live == {o \in Objects : heap[o] = "live"}

\* heap with `objs' passed to free or cJSON_Delete (both ignore NULL), and
\* with `obj' set to what a call that may fail has returned.
Free(objs) ==
  [o \in Objects |-> IF o \in objs /\ heap[o] = "live" THEN "freed" ELSE heap[o]]
Bind(obj, ok) == [heap EXCEPT ![obj] = IF ok THEN "live" ELSE "null"]

\* A step that reads through one pointer and frees others does wrong if the
\* first is not live or one of the others has been freed before.
Use(obj) == misuse' = (misuse \/ heap[obj] # "live")
UseAndFree(obj, objs) ==
  misuse' = (misuse \/ heap[obj] # "live" \/ \E o \in objs : heap[o] = "freed")
FreeOnly(objs) == misuse' = (misuse \/ \E o \in objs : heap[o] = "freed")

Goto(label) == pc' = label /\ UNCHANGED <<answer, result>>

\* return "buyerid:" after freeing `objs'.
GiveUp(objs) ==
  /\ FreeOnly(objs)
  /\ heap' = Free(objs)
  /\ pc' = "returned"
  /\ UNCHANGED <<answer, result>>

Init ==
  /\ answer = NoAnswer
  /\ heap = [o \in Objects |-> "null"]
  /\ misuse = FALSE
  /\ result = NoIds
  /\ pc = "start"

\* No request is made for an empty buyerid.
EmptyBuyerid ==
  /\ pc = "start"
  /\ pc' = "returned"
  /\ UNCHANGED <<answer, heap, misuse, result>>

Ask ==
  /\ pc = "start"
  /\ pc' = "fetch"
  /\ UNCHANGED <<answer, heap, misuse, result>>

\* get_url_contents returns; string cont = contChar throws on NULL.
Fetched ==
  /\ pc = "fetch"
  /\ \E a \in Answers :
       /\ answer' = a
       /\ heap' = Bind("contChar", a # NoAnswer)
       /\ pc' = IF a = NoAnswer THEN "threw" ELSE "parse"
  /\ UNCHANGED <<misuse, result>>

\* free(contChar), then cJSON_Parse(cont).
ParseRoot ==
  /\ pc = "parse"
  /\ UseAndFree("contChar", {"contChar"})
  /\ \E ok \in {answer.kind = "json", FALSE} :
       /\ heap' = [Free({"contChar"}) EXCEPT !["root"] = IF ok THEN "live" ELSE "null"]
       /\ Goto(IF ok THEN "printStatus" ELSE "noRoot")

NoRoot == pc = "noRoot" /\ GiveUp({"root"})

\* cJSON_Print(root->child), NULL when the root has no member.
PrintStatus ==
  /\ pc = "printStatus"
  /\ Use("root")
  /\ \E ok \in {answer.members # <<>>, FALSE} :
       /\ heap' = Bind("statusStr", ok)
       /\ Goto(IF ok THEN "parseStatus" ELSE "noStatusStr")

NoStatusStr == pc = "noStatusStr" /\ GiveUp({"root", "statusStr"})

ParseStatus ==
  /\ pc = "parseStatus"
  /\ Use("statusStr")
  /\ \E ok \in BOOLEAN :
       /\ heap' = Bind("statusResult", ok)
       /\ Goto(IF ok THEN "checkStatus" ELSE "statusFailed")

\* All three early returns of the status block free the same three objects.
StatusFailed == pc = "statusFailed" /\ GiveUp({"statusStr", "root", "statusResult"})

\* Mutant: statusStr is freed here, and once more on every early return.
CheckStatusFreesEarly ==
  /\ pc = "checkStatus"
  /\ UseAndFree("statusResult", {"statusStr"})
  /\ IF answer.members[1].status_code = "zero"
     THEN heap' = Free({"statusResult", "statusStr"}) /\ Goto("printResult")
     ELSE heap' = Free({"statusStr"}) /\ Goto("statusFailed")
\* Mutant: the answer is looked at again as long as it reports a failure.
CheckStatusRetries ==
  /\ pc = "checkStatus"
  /\ UseAndFree("statusResult", {"statusStr"})
  /\ heap' = Free({"statusResult", "statusStr"})
  /\ Goto(IF answer.members[1].status_code = "zero" THEN "printResult" ELSE "printStatus")
StatusOk == answer.members[1].status_code = "zero"

CheckStatus ==
  /\ pc = "checkStatus"
  /\ UseAndFree("statusResult", IF StatusOk THEN {"statusStr"} ELSE {})
  /\ IF StatusOk
     THEN heap' = Free({"statusResult", "statusStr"}) /\ Goto("printResult")
     ELSE heap' = heap /\ Goto("statusFailed")

\* cJSON_Print(root->child->next), NULL when there is no second member.
PrintResult ==
  /\ pc = "printResult"
  /\ Use("root")
  /\ \E ok \in {Len(answer.members) > 1, FALSE} :
       /\ heap' = Bind("resultStr", ok)
       /\ Goto(IF ok THEN "parseResult" ELSE "resultFailed")

ParseResult ==
  /\ pc = "parseResult"
  /\ Use("resultStr")
  /\ \E ok \in BOOLEAN :
       /\ heap' = Bind("resultResult", ok)
       /\ Goto(IF ok THEN "readIds" ELSE "resultFailed")

ResultFailed == pc = "resultFailed" /\ GiveUp({"resultStr", "resultResult", "root"})

\* The three ids as strings; a valuestring of NULL makes string = throw.
Slot(field) == answer.members[2].ids[field]
\* Mutant: an empty string counts as an id.
IdOrEmpty(field) == IF Slot(field) # "absent" THEN <<Slot(field)>> ELSE <<>>
Id(field) == IF Slot(field) \in Ids THEN <<Slot(field)>> ELSE <<>>
Count == Len(Id("buyer_id")) + Len(Id("wx_id")) + Len(Id("qq_id"))

ReadIds ==
  /\ pc = "readIds"
  /\ Use("resultResult")
  /\ UNCHANGED heap
  /\ Goto(IF \E f \in Fields : Slot(f) = "nonstring" THEN "threw" ELSE "listIds")

\* count == 0 returns at once, before the block that frees.
ListNoId ==
  /\ pc = "listIds"
  /\ Count = 0
  /\ pc' = "returned"
  /\ UNCHANGED <<answer, heap, misuse, result>>

\* Mutant: the last else-if of the single-id case is missing.
OnlyIdButQQ == IF Id("buyer_id") # <<>> THEN Id("buyer_id") ELSE Id("wx_id")
\* count == 1: the first of the three that is not empty.
OnlyId ==
  IF Id("buyer_id") # <<>> THEN Id("buyer_id")
  ELSE IF Id("wx_id") # <<>> THEN Id("wx_id")
  ELSE Id("qq_id")

\* Mutant: resultResult is a part of root and not freed by itself.
FreeAtEndPartly == {"resultStr", "root"}
\* What the block marked "free" releases.
FreeAtEnd == {"resultStr", "root", "resultResult"}

ListIds ==
  /\ pc = "listIds"
  /\ Count > 0
  /\ result' = IF Count = 1 THEN OnlyId
               ELSE Id("buyer_id") \o Id("wx_id") \o Id("qq_id")
  /\ FreeOnly(FreeAtEnd)
  /\ heap' = Free(FreeAtEnd)
  /\ pc' = "returned"
  /\ UNCHANGED answer

Left == pc \in {"returned", "threw"} /\ UNCHANGED vars

Step ==
  \/ EmptyBuyerid \/ Ask
  \/ ParseRoot \/ NoRoot
  \/ PrintStatus \/ NoStatusStr \/ ParseStatus \/ StatusFailed \/ CheckStatus
  \/ PrintResult \/ ParseResult \/ ResultFailed
  \/ ReadIds \/ ListNoId \/ ListIds

Next == Step \/ Fetched \/ Left

\* The transfer has no timeout, so nothing makes Fetched happen.
Spec == Init /\ [][Next]_vars /\ WF_vars(Step)

-----------------------------------------------------------------------------
(* What the call promises.                                                 *)

\* On no path, whichever allocation fails, is a pointer used that is NULL or
\* dangling, or an object freed twice.
NoMisuse == ~misuse

\* What is left allocated when the call is over: nothing, unless the answer
\* was good and named no id (or one that is no string); then the three
\* objects that the skipped "free" block would have released.
LeakOnlyWithoutIds ==
  /\ pc = "returned" /\ Live # {} =>
       /\ Live = {"root", "resultStr", "resultResult"}
       /\ StatusOk /\ Len(answer.members) > 1 /\ Count = 0
  /\ pc = "threw" /\ Live # {} =>
       Live = {"root", "resultStr", "resultResult"}

\* Reference: the ids of a good answer, in the order buyer, wx, qq.
RelatedIn(a) ==
  LET given(f) == IF a.members[2].ids[f] \in Ids THEN <<a.members[2].ids[f]>> ELSE <<>>
  IN  IF a.kind = "json" /\ Len(a.members) > 1 /\ a.members[1].status_code = "zero"
      THEN given("buyer_id") \o given("wx_id") \o given("qq_id")
      ELSE <<>>

\* Ids are dropped only when something went wrong: a call that got as far as
\* the list returns all of them.
ListedInFull == [][pc = "listIds" /\ pc' = "returned" => result' = RelatedIn(answer)]_vars

\* Once the service has answered, the call comes to an end.
AnsweredEnds == (pc = "parse") ~> (pc \in {"returned", "threw"})
=============================================================================
