---------------------------- MODULE QueryService ----------------------------
(***************************************************************************)
(* The request path of the nginx module: ngx_http_test_handler and         *)
(* test_work (ngx_http_test_module.c, test.cpp), run by single-threaded    *)
(* worker processes that die on an uncaught exception, a NULL pointer or a *)
(* damaged heap and that the master starts again.                          *)
(*                                                                         *)
(* Abstraction.  A request is a record of what decides its path: its       *)
(* method, whether its location has a test_data (TestModule), whether      *)
(* memory runs out for it, whether getQuery throws (QueryParse), whether   *)
(* it asks the user service and that answers (BuyerID, Fetch), and the     *)
(* lengths of its arguments and of the query that getQuery returns.  The   *)
(* connection handling of nginx is external.                               *)
(***************************************************************************)
EXTENDS ServiceSpec, FiniteSets

CONSTANTS Workers   \* worker process slots

KindRecords ==
  [method : {"GET", "HEAD", "POST", "PUT"}, data : BOOLEAN, nomem : BOOLEAN,
   throws : BOOLEAN, buyer : {"no", "answers", "fails"}, args : Nat, query : Nat]

ASSUME KindsAssumption == Kinds \subseteq KindRecords
ASSUME DataLenAssumption == DataLen \in Nat
ASSUME NamesAssumption == "none" \notin Workers \cup Requests

VARIABLES
  owner,     \* the worker that has accepted a request, or "none"
  life,      \* and which life of that worker it was
  pc,        \* of each worker: "loop", a step of the handler, or "dead"
  serving,   \* the request its handler runs for, or "none"
  heap,      \* the blocks of the running handler: args and res
  argsStrs,  \* the decoded copies that test_work never frees
  corrupt,   \* something was written behind a block
  spawned    \* how often the worker has been started again

vars == <<kind, reply, owner, life, pc, serving, heap, argsStrs, corrupt, spawned>>

-----------------------------------------------------------------------------
SInit ==
  /\ Init
  /\ owner = [r \in Requests |-> "none"]
  /\ life = [r \in Requests |-> 0]
  /\ pc = [w \in Workers |-> "loop"]
  /\ serving = [w \in Workers |-> "none"]
  /\ heap = [w \in Workers |-> {}]
  /\ argsStrs = [w \in Workers |-> 0]
  /\ corrupt = [w \in Workers |-> FALSE]
  /\ spawned = [w \in Workers |-> 0]

Goto(w, label) == pc' = [pc EXCEPT ![w] = label]
KindOf(w) == kind[serving[w]]

\* A worker takes a connection; several may wait in one event loop.
Accept(w, r) ==
  /\ pc[w] = "loop"
  /\ owner[r] = "none"
  /\ owner' = [owner EXCEPT ![r] = w]
  /\ life' = [life EXCEPT ![r] = spawned[w]]
  /\ UNCHANGED <<kind, reply, pc, serving, heap, argsStrs, corrupt, spawned>>

\* The handler starts: the method is checked ...
HandlerRefuses(w, r) ==
  /\ pc[w] = "loop"
  /\ owner[r] = w /\ reply[r] = NoReply
  /\ Refused(kind[r])
  /\ reply' = [reply EXCEPT ![r] = Sent(405, 0)]
  /\ UNCHANGED <<kind, owner, life, pc, serving, heap, argsStrs, corrupt, spawned>>

\* ... and the arguments are copied.
HandlerStarts(w, r) ==
  /\ pc[w] = "loop"
  /\ owner[r] = w /\ reply[r] = NoReply
  /\ ~Refused(kind[r])
  /\ heap' = [heap EXCEPT ![w] = @ \cup {"args"}]
  /\ serving' = [serving EXCEPT ![w] = r]
  /\ Goto(w, "work")
  /\ UNCHANGED <<kind, reply, owner, life, argsStrs, corrupt, spawned>>

\* test_work allocates res and decodes the arguments.
TestWork(w) ==
  /\ pc[w] = "work"
  /\ KindOf(w).data /\ ~KindOf(w).nomem
  /\ heap' = [heap EXCEPT ![w] = @ \cup {"res"}]
  /\ argsStrs' = [argsStrs EXCEPT ![w] = @ + 1]
  /\ Goto(w, "query")
  /\ UNCHANGED <<kind, reply, owner, life, serving, corrupt, spawned>>

\* getQuery gets through to its result, or on to getBuyerID's transfer,
\* during which the worker does nothing else.
\* Mutant: the parameter loop does not come to its end.
GetQueryRetries(w) ==
  /\ pc[w] = "query"
  /\ ~KindOf(w).throws
  /\ Goto(w, IF KindOf(w).buyer = "no" THEN "query" ELSE "fetch")
  /\ UNCHANGED <<kind, reply, owner, life, serving, heap, argsStrs, corrupt, spawned>>
GetQuery(w) ==
  /\ pc[w] = "query"
  /\ ~KindOf(w).throws
  /\ Goto(w, IF KindOf(w).buyer = "no" THEN "print" ELSE "fetch")
  /\ UNCHANGED <<kind, reply, owner, life, serving, heap, argsStrs, corrupt, spawned>>

FetchReturns(w) ==
  /\ pc[w] = "fetch"
  /\ KindOf(w).buyer = "answers"
  /\ Goto(w, "print")
  /\ UNCHANGED <<kind, reply, owner, life, serving, heap, argsStrs, corrupt, spawned>>

\* Mutant: sprintf(res, "%s\\n", ql.query), one byte more than res was made for.
SprintfResNewline(w) ==
  /\ pc[w] = "print"
  /\ corrupt' = [corrupt EXCEPT ![w] = @ \/ Truncated(KindOf(w).query) + 2 > ResSize(KindOf(w))]
  /\ Goto(w, "send")
  /\ UNCHANGED <<kind, reply, owner, life, serving, heap, argsStrs, spawned>>
\* sprintf(res, "%s", ql.query).
SprintfRes(w) ==
  /\ pc[w] = "print"
  /\ corrupt' = [corrupt EXCEPT ![w] = @ \/ Overruns(KindOf(w))]
  /\ Goto(w, "send")
  /\ UNCHANGED <<kind, reply, owner, life, serving, heap, argsStrs, spawned>>

\* Mutant: res is kept when there is no buffer for the answer.
HandlerFreesPartly(w) == heap' = [heap EXCEPT ![w] = @ \ {"args"}]
\* free(args) after test_work, and free(res) on both ways out.
HandlerFrees(w) == heap' = [heap EXCEPT ![w] = @ \ {"args", "res"}]

\* The rest of the handler: res is copied into a buffer of the request, then
\* header and text are sent.  What is read back from a damaged heap may have
\* any length: none, the longest and the right one stand for it.
HandlerSends(w) ==
  /\ pc[w] = "send"
  /\ \E t \in {TextFor(KindOf(w))} \cup (IF corrupt[w] THEN {0, QueryMax} ELSE {}) :
       reply' = [reply EXCEPT ![serving[w]] = Sent(200, t)]
  /\ HandlerFrees(w)
  /\ serving' = [serving EXCEPT ![w] = "none"]
  /\ Goto(w, "loop")
  /\ UNCHANGED <<kind, owner, life, argsStrs, corrupt, spawned>>

\* ngx_create_temp_buf fails.
\* Mutant: no return after free(res).
HandlerFailsGoesOn(w) ==
  /\ pc[w] = "send"
  /\ reply' = [reply EXCEPT ![serving[w]] = Sent(500, 0)]
  /\ HandlerFrees(w)
  /\ UNCHANGED <<kind, owner, life, pc, serving, argsStrs, corrupt, spawned>>
HandlerFails(w) ==
  /\ pc[w] = "send"
  /\ reply' = [reply EXCEPT ![serving[w]] = Sent(500, 0)]
  /\ HandlerFrees(w)
  /\ serving' = [serving EXCEPT ![w] = "none"]
  /\ Goto(w, "loop")
  /\ UNCHANGED <<kind, owner, life, argsStrs, corrupt, spawned>>

\* The process ends; every connection it holds is lost.
Dies(w) ==
  /\ reply' = [r \in Requests |->
                 IF owner[r] = w /\ reply[r] = NoReply THEN Lost ELSE reply[r]]
  /\ serving' = [serving EXCEPT ![w] = "none"]
  /\ heap' = [heap EXCEPT ![w] = {}]
  /\ argsStrs' = [argsStrs EXCEPT ![w] = 0]
  /\ corrupt' = [corrupt EXCEPT ![w] = FALSE]
  /\ Goto(w, "dead")
  /\ UNCHANGED <<kind, owner, life, spawned>>

\* strlen(test_data->data) with test_data NULL; exit(0) without memory.
TestWorkDies(w) ==
  /\ pc[w] = "work"
  /\ ~KindOf(w).data \/ KindOf(w).nomem
  /\ Dies(w)

\* std::out_of_range from getQuery: nothing catches it.
GetQueryThrows(w) == pc[w] = "query" /\ KindOf(w).throws /\ Dies(w)

\* std::logic_error from string(NULL) when the transfer has failed.
FetchFails(w) == pc[w] = "fetch" /\ KindOf(w).buyer = "fails" /\ Dies(w)

\* A later malloc or free notices what was overwritten, or follows it.
HeapAbort(w) == pc[w] # "dead" /\ corrupt[w] /\ Dies(w)

\* ngx_reap_children starts a worker in the place of the dead one.
Respawn(w) ==
  /\ pc[w] = "dead"
  /\ spawned' = [spawned EXCEPT ![w] = @ + 1]
  /\ Goto(w, "loop")
  /\ UNCHANGED <<kind, reply, owner, life, serving, heap, argsStrs, corrupt>>

Handler(w) ==
  \/ \E r \in Requests : HandlerRefuses(w, r) \/ HandlerStarts(w, r)
  \/ TestWork(w) \/ GetQuery(w) \/ SprintfRes(w)
  \/ HandlerSends(w) \/ HandlerFails(w)
  \/ TestWorkDies(w) \/ GetQueryThrows(w)

Finished ==
  /\ \A r \in Requests : reply[r] # NoReply
  /\ \A w \in Workers : pc[w] = "loop"
  /\ UNCHANGED vars

SNext ==
  \/ \E w \in Workers :
       \/ \E r \in Requests : Accept(w, r)
       \/ Handler(w)
       \/ FetchReturns(w) \/ FetchFails(w)
       \/ HeapAbort(w) \/ Respawn(w)
  \/ Finished

\* A worker runs its handler to the end and the master restarts the dead;
\* nothing makes a transfer end (no timeout) or a client connect.
SSpec ==
  /\ SInit /\ [][SNext]_vars
  /\ \A w \in Workers : WF_vars(Handler(w)) /\ WF_vars(Respawn(w))

-----------------------------------------------------------------------------
(* What the service promises.                                              *)

\* The abstract service: one answer, the right one, unless a harmful request
\* is about; the detailed specification implements it.
Implements == Spec

\* A connection is lost only if the same life of the same worker was given a
\* harmful request: no request can cost those of another worker, or of a
\* worker that has been started afresh.
LossHasCause ==
  \A r \in Requests : reply[r] = Lost =>
    \E q \in Requests :
      owner[q] = owner[r] /\ life[q] = life[r] /\ ~Harmless(kind[q])

\* Between two requests a worker holds none of the handler's blocks, but one
\* decoded copy of the arguments for every request it has served in this
\* life (test_work never frees argsStr).
OnlyArgsStrLeaks ==
  \A w \in Workers : pc[w] = "loop" =>
    /\ heap[w] = {}
    /\ argsStrs[w] = Cardinality({r \in Requests :
         owner[r] = w /\ life[r] = spawned[w] /\ reply[r].status \in {200, 500}})

\* An accepted request is settled in the end, unless its worker is waiting
\* for the user service.
OnlyFetchBlocks ==
  \A r \in Requests :
    owner[r] # "none" ~>
      (reply[r] # NoReply \/ \E w \in Workers : owner[r] = w /\ pc[w] = "fetch")
=============================================================================
