---------------------------- MODULE BuyerLookup ----------------------------
(***************************************************************************)
(* getBuyerID with the transfer inside it: BuyerID, in which the one step  *)
(* Fetched is replaced by the steps of get_url_contents and libcurl        *)
(* (Fetch), for an answer that the user service has ready.                 *)
(*                                                                         *)
(* A block without a NUL, which only an empty body leaves, is copied to    *)
(* wherever a NUL comes: any text may be read.                             *)
(***************************************************************************)
EXTENDS BuyerID

CONSTANTS MaxBody, MaxCalls   \* as in Fetch

VARIABLES
  response,   \* what the user service sends, if it is asked
  body, sent, calls, mem, cap, size, terminated, overrun, lost,
  fetchPc     \* of get_url_contents

fetchVars == <<body, sent, calls, mem, cap, size, terminated, overrun, lost, fetchPc>>
lookupVars == <<vars, response, fetchVars>>

F == INSTANCE Fetch WITH pc <- fetchPc

ASSUME BoundsAssumption == MaxBody \in Nat /\ MaxCalls \in Nat
ASSUME AnyTextAssumption == {NoAnswer, NotJson} \subseteq Answers

-----------------------------------------------------------------------------
LInit ==
  /\ Init
  /\ response \in Answers \ {NoAnswer}
  /\ F!Init
  /\ body = 0 => response = NotJson

\* A step of the transfer, while getBuyerID waits for it.
FetchStep ==
  /\ pc = "fetch" /\ fetchPc # "returned"
  /\ F!Next
  /\ UNCHANGED <<vars, response>>

\* The texts that string cont = contChar may be given: none, the answer, a
\* part of it (which no longer is a JSON document) or, without a NUL, any.
Texts ==
  IF mem # "live" THEN {NoAnswer}
  ELSE IF ~terminated THEN Answers \ {NoAnswer}
  ELSE IF size = body THEN {response}
  ELSE {NotJson}

\* Mutant: a NULL is taken for an empty text.
FetchReturnsEmpty ==
  /\ pc = "fetch" /\ fetchPc = "returned"
  /\ \E a \in Texts :
       /\ answer' = a
       /\ heap' = Bind("contChar", a # NoAnswer)
       /\ pc' = "parse"
  /\ UNCHANGED <<misuse, result, response, fetchVars>>
\* string cont = contChar, with what get_url_contents returns.
FetchReturns ==
  /\ pc = "fetch" /\ fetchPc = "returned"
  /\ \E a \in Texts :
       /\ answer' = a
       /\ heap' = Bind("contChar", a # NoAnswer)
       /\ pc' = IF a = NoAnswer THEN "threw" ELSE "parse"
  /\ UNCHANGED <<misuse, result, response, fetchVars>>

LNext ==
  \/ Step /\ UNCHANGED <<response, fetchVars>>
  \/ FetchStep
  \/ FetchReturns
  \/ Left /\ UNCHANGED <<response, fetchVars>>

\* The call goes on by itself; only the transfer may take for ever.
LSpec ==
  /\ LInit /\ [][LNext]_lookupVars
  /\ WF_lookupVars((Step /\ UNCHANGED <<response, fetchVars>>) \/ FetchReturns)

-----------------------------------------------------------------------------
(* What the parts promise each other.                                      *)

\* While get_url_contents collects the body, whatever the sizes of its
\* chunks, memcpy and the NUL stay within the block.
TransferInBounds == F!NoOverrun

\* What getBuyerID is given is the whole body or NULL, never what an aborted
\* transfer has left.
TransferWhole == F!WholeBodyOrNull

\* To getBuyerID the transfer is one step that yields some answer: all that
\* BuyerID promises holds with the real transfer too.
TransferIsOneStep == Spec

\* Does an answer that is there have no end?  And how the call has ended.
Unterminated == fetchPc = "returned" /\ mem = "live" /\ ~terminated
Outcome ==
  IF pc = "returned" THEN <<"returned", result>> ELSE IF pc = "threw" THEN <<"threw">> ELSE <<>>

L == INSTANCE LookupSpec WITH
  related <- RelatedIn(response), legible <- ~Unterminated, outcome <- Outcome

\* From end to end, over broken transfers, failed allocations and answers of
\* every shape: the call has one outcome, and it is all the ids that the
\* service sent, none, or an exception.
LookupImplements == L!Spec
=============================================================================
