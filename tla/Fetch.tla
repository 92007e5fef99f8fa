------------------------------- MODULE Fetch -------------------------------
(***************************************************************************)
(* get_url_contents and its callback (ic_url.c): collect the body of an    *)
(* HTTP answer in a block that is grown for every chunk.  libcurl is not   *)
(* part of the repository and is modelled by what its documentation lets   *)
(* the callback rely on: chunks arrive in order, an empty body may come as *)
(* one chunk of no bytes or as no chunk at all, a callback that does not   *)
(* return the chunk's size aborts the transfer, and a transfer may fail at *)
(* any moment.                                                             *)
(*                                                                         *)
(* Abstraction.  The bytes of the body are numbered; the block's contents  *)
(* are the range of bytes copied so far, its length and whether the byte   *)
(* after them is a NUL.                                                    *)
(***************************************************************************)
EXTENDS Naturals

CONSTANTS
  MaxBody,   \* bound on the length of a body
  MaxCalls   \* bound on the calls of the callback

VARIABLES
  body,        \* the length of the body the service sends
  sent,        \* how much of it libcurl has handed over
  calls,       \* how often the callback has been called
  mem,         \* chunk.mem: "null", "live" or "freed"
  cap,         \* bytes allocated for it
  size,        \* chunk.size
  terminated,  \* mem[size] is a NUL
  overrun,     \* something was written at or behind mem[cap]
  lost,        \* blocks no pointer leads to any more
  pc           \* "start", "transfer", "ok", "error", then "returned"

vars == <<body, sent, calls, mem, cap, size, terminated, overrun, lost, pc>>

-----------------------------------------------------------------------------
Init ==
  /\ body \in 0 .. MaxBody
  /\ sent = 0 /\ calls = 0
  /\ mem = "null" /\ cap = 0 /\ size = 0
  /\ terminated = FALSE
  /\ overrun = FALSE
  /\ lost = 0
  /\ pc = "start"

\* chunk.mem = malloc(1), unchecked, and what it holds is not set.
Start ==
  /\ pc = "start"
  /\ \/ mem' = "live" /\ cap' = 1
     \/ mem' = "null" /\ cap' = 0
  /\ terminated' \in (IF mem' = "live" THEN BOOLEAN ELSE {FALSE})
  /\ pc' = "transfer"
  /\ UNCHANGED <<body, sent, calls, size, overrun, lost>>

\* Mutant: no room is asked for the NUL.
NewCapNoNul(realsize) == size + realsize
NewCap(realsize) == size + realsize + 1

NewSize(realsize) == size + realsize

\* WriteMemoryCallBack, when realloc succeeds (on NULL it allocates).
WriteMemoryCallBack ==
  /\ pc = "transfer"
  /\ calls < MaxCalls
  /\ \E realsize \in 0 .. body - sent :
       /\ realsize = 0 => body = 0 /\ calls = 0
       /\ mem' = "live"
       /\ cap' = NewCap(realsize)
       /\ size' = NewSize(realsize)
       /\ sent' = sent + realsize
       /\ overrun' = (overrun \/ size' >= cap')
  /\ terminated' = TRUE
  /\ calls' = calls + 1
  /\ UNCHANGED <<body, lost, pc>>

\* The same when realloc fails: chunk.mem is overwritten with NULL and the
\* block it led to is lost.  Returning 0 aborts the transfer, except for a
\* chunk of no bytes, for which 0 is what libcurl expects.
WriteMemoryFails ==
  /\ pc = "transfer"
  /\ calls < MaxCalls
  /\ \E realsize \in 0 .. body - sent :
       /\ realsize = 0 => body = 0 /\ calls = 0
       /\ pc' = IF realsize = 0 THEN "transfer" ELSE "error"
  /\ mem' = "null" /\ cap' = 0
  /\ terminated' = FALSE
  /\ lost' = IF mem = "live" THEN lost + 1 ELSE lost
  /\ calls' = calls + 1
  /\ UNCHANGED <<body, sent, size, overrun>>

\* curl_easy_perform returns CURLE_OK once the whole body has been taken.
TransferEnds ==
  /\ pc = "transfer"
  /\ sent = body
  /\ pc' = "ok"
  /\ UNCHANGED <<body, sent, calls, mem, cap, size, terminated, overrun, lost>>

TransferFails ==
  /\ pc = "transfer"
  /\ pc' = "error"
  /\ UNCHANGED <<body, sent, calls, mem, cap, size, terminated, overrun, lost>>

\* Mutant: the result of the transfer is not looked at.
ReturnNullUnchecked ==
  /\ pc = "error"
  /\ pc' = "returned"
  /\ UNCHANGED <<body, sent, calls, mem, cap, size, terminated, overrun, lost>>
\* res != CURLE_OK: free what there is, return 0.
ReturnNull ==
  /\ pc = "error"
  /\ mem' = IF mem = "live" THEN "freed" ELSE mem
  /\ cap' = 0 /\ terminated' = FALSE
  /\ pc' = "returned"
  /\ UNCHANGED <<body, sent, calls, size, overrun, lost>>

ReturnContents ==
  /\ pc = "ok"
  /\ pc' = "returned"
  /\ UNCHANGED <<body, sent, calls, mem, cap, size, terminated, overrun, lost>>

Returned == pc = "returned" /\ UNCHANGED vars

Next ==
  \/ Start \/ WriteMemoryCallBack \/ WriteMemoryFails
  \/ TransferEnds \/ TransferFails
  \/ ReturnNull \/ ReturnContents \/ Returned

\* libcurl is asked for no timeout, so nothing makes a transfer end and no
\* fairness is claimed.
Spec == Init /\ [][Next]_vars

-----------------------------------------------------------------------------
(* What the callers rely on.                                               *)

\* memcpy and the NUL stay within the block that was reallocated.
NoOverrun == ~overrun

\* A pointer that is returned leads to the whole body, never to a part of it
\* that an aborted transfer left, and for a body that is not empty it is a
\* C string.
WholeBodyOrNull ==
  pc = "returned" /\ mem = "live" =>
    /\ size = body
    /\ body > 0 => terminated
=============================================================================
