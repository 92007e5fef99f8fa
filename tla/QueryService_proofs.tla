------------------------ MODULE QueryService_proofs ------------------------
(***************************************************************************)
(* Proofs about the request path: for any number of workers and requests,  *)
(* of any kinds, the service implements ServiceSpec, and a connection is   *)
(* lost only to a harmful request in the same life of the same worker, and *)
(* a worker keeps nothing of a request but argsStr.                        *)
(***************************************************************************)
EXTENDS QueryService, FiniteSetTheorems, TLAPS

Replies == [status : Nat, text : Nat]
Labels == {"loop", "work", "query", "fetch", "print", "send", "dead"}

TypeInv ==
  /\ kind \in [Requests -> Kinds]
  /\ reply \in [Requests -> Replies]
  /\ owner \in [Requests -> Workers \cup {"none"}]
  /\ life \in [Requests -> Nat]
  /\ pc \in [Workers -> Labels]
  /\ serving \in [Workers -> Requests \cup {"none"}]
  /\ corrupt \in [Workers -> BOOLEAN]
  /\ spawned \in [Workers -> Nat]

\* How far a request may have come, by what it is like.
CameTo(label, k) ==
  /\ ~Refused(k)
  /\ label \in {"query", "fetch", "print", "send"} => k.data /\ ~k.nomem
  /\ label \in {"fetch", "print", "send"} => ~k.throws
  /\ label \in {"print", "send"} => k.buyer # "fails"

\* A handler runs for a request that its worker has accepted in this life
\* and that has no answer yet.
ServingInv ==
  \A w \in Workers : pc[w] \notin {"loop", "dead"} =>
    /\ serving[w] \in Requests
    /\ owner[serving[w]] = w
    /\ reply[serving[w]] = NoReply
    /\ CameTo(pc[w], kind[serving[w]])

\* A request without an answer is held by the life that has accepted it.
HeldInv ==
  \A r \in Requests :
    /\ reply[r] # NoReply => owner[r] # "none"
    /\ owner[r] # "none" /\ reply[r] = NoReply =>
         life[r] = spawned[owner[r]] /\ pc[owner[r]] # "dead"

\* A damaged heap goes back to a request of this life, and ends with it.
CorruptInv ==
  \A w \in Workers : corrupt[w] =>
    /\ pc[w] # "dead"
    /\ \E q \in Requests : owner[q] = w /\ life[q] = spawned[w] /\ Damaging(kind[q])

IInv == TypeInv /\ ServingInv /\ HeldInv /\ CorruptInv /\ LossHasCause

-----------------------------------------------------------------------------
\* What is sent for a request fits QUERYLIST.query.
LEMMA TextFits ==
  ASSUME NEW k \in Kinds
  PROVE  TextFor(k) \in 0 .. QueryMax
<1>1. k.query \in Nat
  BY KindsAssumption DEF KindRecords
<1>2. QED
  BY <1>1 DEF TextFor, Truncated, QueryMax

\* The replies differ from each other.
LEMMA RepliesDiffer ==
  /\ NoReply \in Replies /\ Lost \in Replies /\ Lost # NoReply
  /\ \A status \in {200, 405, 500}, text \in Nat :
       Sent(status, text) \in Replies \ {NoReply, Lost}
<1>1. NoReply.status = 0 /\ Lost.status = 1
  BY DEF NoReply, Lost
<1>2. \A status, text : Sent(status, text).status = status
  BY DEF Sent
<1>3. QED
  BY <1>1, <1>2 DEF NoReply, Lost, Sent, Replies

\* The states in which a worker may end: it holds a request that is harmful.
Doomed(w) ==
  \E q \in Requests : owner[q] = w /\ life[q] = spawned[w] /\ ~Harmless(kind[q])

\* The invariant holds before the first connection.
LEMMA IInvInit == SInit => IInv
<1> SUFFICES ASSUME SInit PROVE IInv
  OBVIOUS
<1>1. TypeInv
  BY RepliesDiffer DEF SInit, Init, TypeInv, Labels
<1>2. ServingInv /\ HeldInv /\ CorruptInv
  BY NamesAssumption DEF SInit, Init, ServingInv, HeldInv, CorruptInv
<1>3. LossHasCause
  BY RepliesDiffer DEF SInit, Init, LossHasCause
<1>4. QED
  BY <1>1, <1>2, <1>3 DEF IInv

\* A request that ends the handler it has come to is harmful.
LEMMA DeathHasCause ==
  ASSUME IInv, NEW w \in Workers,
         TestWorkDies(w) \/ GetQueryThrows(w) \/ FetchFails(w) \/ HeapAbort(w)
  PROVE  Doomed(w) /\ Dies(w) /\ pc[w] # "dead"
<1>1. CASE TestWorkDies(w) \/ GetQueryThrows(w) \/ FetchFails(w)
  <2>1. pc[w] \in {"work", "query", "fetch"} /\ Dies(w)
    BY <1>1 DEF TestWorkDies, GetQueryThrows, FetchFails
  <2>2. /\ serving[w] \in Requests /\ owner[serving[w]] = w
        /\ reply[serving[w]] = NoReply /\ ~Refused(kind[serving[w]])
    BY <2>1 DEF IInv, ServingInv, CameTo
  <2>3. life[serving[w]] = spawned[w]
    BY <2>2, NamesAssumption DEF IInv, HeldInv
  <2>4. Deadly(kind[serving[w]])
    BY <1>1, <2>2 DEF TestWorkDies, GetQueryThrows, FetchFails, KindOf, Deadly
  <2>5. QED
    BY <2>1, <2>2, <2>3, <2>4 DEF Doomed, Harmless
<1>2. CASE HeapAbort(w)
  BY <1>2 DEF HeapAbort, IInv, CorruptInv, Doomed, Harmless
<1>3. QED
  BY <1>1, <1>2

\* Only a request that neither is refused nor ends its worker is printed.
LEMMA PrintedIsAlive ==
  ASSUME IInv, NEW w \in Workers, pc[w] \in {"print", "send"}
  PROVE  /\ serving[w] \in Requests /\ owner[serving[w]] = w
         /\ reply[serving[w]] = NoReply /\ life[serving[w]] = spawned[w]
         /\ ~Refused(KindOf(w)) /\ ~Deadly(KindOf(w))
<1>1. /\ serving[w] \in Requests /\ owner[serving[w]] = w
      /\ reply[serving[w]] = NoReply /\ CameTo(pc[w], kind[serving[w]])
  BY DEF IInv, ServingInv
<1>2. life[serving[w]] = spawned[w]
  BY <1>1, NamesAssumption DEF IInv, HeldInv
<1>3. QED
  BY <1>1, <1>2 DEF CameTo, Deadly, KindOf

\* Every step of a worker, its handler, the master and the heap keeps the
\* invariant.
LEMMA IInvStep == IInv /\ [SNext]_vars => IInv'
<1> SUFFICES ASSUME IInv, [SNext]_vars PROVE IInv'
  OBVIOUS
<1> USE NamesAssumption
<1>1. ASSUME NEW w \in Workers, NEW r \in Requests, Accept(w, r) PROVE IInv'
  <2>1. TypeInv'
    BY <1>1 DEF Accept, IInv, TypeInv
  <2>2. ServingInv'
    BY <1>1 DEF Accept, IInv, TypeInv, ServingInv
  <2>3. HeldInv'
    BY <1>1 DEF Accept, IInv, TypeInv, HeldInv
  <2>4. CorruptInv'
    BY <1>1 DEF Accept, IInv, TypeInv, CorruptInv
  <2>5. LossHasCause'
    BY <1>1, RepliesDiffer DEF Accept, IInv, TypeInv, HeldInv, LossHasCause
  <2>6. QED
    BY <2>1, <2>2, <2>3, <2>4, <2>5 DEF IInv
<1>2. ASSUME NEW w \in Workers, NEW r \in Requests, HandlerRefuses(w, r) PROVE IInv'
  <2> DEFINE a == Sent(405, 0)
  <2>0. a \in Replies /\ a # NoReply /\ a # Lost
    BY RepliesDiffer
  <2> HIDE DEF a
  <2>1. TypeInv'
    BY <1>2, <2>0 DEF HandlerRefuses, IInv, TypeInv, a
  <2>2. ServingInv'
    BY <1>2 DEF HandlerRefuses, IInv, TypeInv, ServingInv, CameTo
  <2>3. HeldInv'
    BY <1>2, <2>0 DEF HandlerRefuses, IInv, TypeInv, HeldInv, a
  <2>4. CorruptInv'
    BY <1>2 DEF HandlerRefuses, IInv, TypeInv, CorruptInv
  <2>5. LossHasCause'
    BY <1>2, <2>0 DEF HandlerRefuses, IInv, TypeInv, LossHasCause, a
  <2>6. QED
    BY <2>1, <2>2, <2>3, <2>4, <2>5 DEF IInv
<1>3. ASSUME NEW w \in Workers, NEW r \in Requests, HandlerStarts(w, r) PROVE IInv'
  <2>1. TypeInv'
    BY <1>3 DEF HandlerStarts, Goto, IInv, TypeInv, Labels
  <2>2. ServingInv'
    BY <1>3 DEF HandlerStarts, Goto, IInv, TypeInv, ServingInv, CameTo
  <2>3. HeldInv'
    BY <1>3 DEF HandlerStarts, Goto, IInv, TypeInv, HeldInv
  <2>4. CorruptInv'
    BY <1>3 DEF HandlerStarts, Goto, IInv, TypeInv, CorruptInv
  <2>5. LossHasCause'
    BY <1>3 DEF HandlerStarts, IInv, LossHasCause
  <2>6. QED
    BY <2>1, <2>2, <2>3, <2>4, <2>5 DEF IInv
<1>4. ASSUME NEW w \in Workers, TestWork(w) \/ GetQuery(w) \/ FetchReturns(w) PROVE IInv'
  <2>1. PICK label \in {"query", "fetch", "print"} :
          /\ pc' = [pc EXCEPT ![w] = label]
          /\ pc[w] \in {"work", "query", "fetch"}
          /\ CameTo(pc[w], kind[serving[w]]) => CameTo(label, kind[serving[w]])
    BY <1>4 DEF TestWork, GetQuery, FetchReturns, Goto, CameTo, KindOf
  <2>2. UNCHANGED <<kind, reply, owner, life, serving, corrupt, spawned>>
    BY <1>4 DEF TestWork, GetQuery, FetchReturns
  <2>3. TypeInv'
    BY <2>1, <2>2 DEF IInv, TypeInv, Labels
  <2>4. ServingInv'
    BY <2>1, <2>2 DEF IInv, TypeInv, ServingInv, CameTo
  <2>5. HeldInv' /\ CorruptInv'
    BY <2>1, <2>2 DEF IInv, TypeInv, HeldInv, CorruptInv
  <2>6. LossHasCause'
    BY <2>2 DEF IInv, LossHasCause
  <2>7. QED
    BY <2>3, <2>4, <2>5, <2>6 DEF IInv
<1>5. ASSUME NEW w \in Workers, SprintfRes(w) PROVE IInv'
  <2>1. /\ serving[w] \in Requests /\ owner[serving[w]] = w
        /\ life[serving[w]] = spawned[w]
        /\ Overruns(KindOf(w)) => Damaging(kind[serving[w]])
    BY <1>5, PrintedIsAlive DEF SprintfRes, Damaging, KindOf
  <2>2. TypeInv'
    BY <1>5 DEF SprintfRes, Goto, IInv, TypeInv, Labels, Overruns
  <2>3. ServingInv'
    BY <1>5 DEF SprintfRes, Goto, IInv, TypeInv, ServingInv, CameTo
  <2>4. HeldInv'
    BY <1>5 DEF SprintfRes, Goto, IInv, TypeInv, HeldInv
  <2>5. CorruptInv'
    BY <1>5, <2>1 DEF SprintfRes, Goto, IInv, TypeInv, CorruptInv
  <2>6. LossHasCause'
    BY <1>5 DEF SprintfRes, IInv, LossHasCause
  <2>7. QED
    BY <2>2, <2>3, <2>4, <2>5, <2>6 DEF IInv
<1>6. ASSUME NEW w \in Workers, HandlerSends(w) \/ HandlerFails(w) PROVE IInv'
  <2>1. pc[w] = "send"
    BY <1>6 DEF HandlerSends, HandlerFails
  <2>2. serving[w] \in Requests /\ owner[serving[w]] = w
    BY <2>1, PrintedIsAlive
  <2>3. TextFor(KindOf(w)) \in Nat
    <3>1. kind[serving[w]] \in Kinds
      BY <2>2 DEF IInv, TypeInv
    <3>2. TextFor(kind[serving[w]]) \in 0 .. QueryMax
      BY <3>1, TextFits
    <3>3. QED
      BY <3>2 DEF KindOf, QueryMax
  <2>4. PICK a \in Replies \ {NoReply, Lost} : reply' = [reply EXCEPT ![serving[w]] = a]
    BY <1>6, <2>3, RepliesDiffer DEF HandlerSends, HandlerFails, QueryMax
  <2>5. /\ pc' = [pc EXCEPT ![w] = "loop"]
        /\ serving' = [serving EXCEPT ![w] = "none"]
        /\ UNCHANGED <<kind, owner, life, corrupt, spawned>>
    BY <1>6 DEF HandlerSends, HandlerFails, Goto
  <2>6. TypeInv'
    BY <2>4, <2>5 DEF IInv, TypeInv, Labels
  <2>7. ServingInv'
    BY <2>2, <2>4, <2>5 DEF IInv, TypeInv, ServingInv
  <2>8. HeldInv'
    BY <2>2, <2>4, <2>5 DEF IInv, TypeInv, HeldInv
  <2>9. CorruptInv'
    BY <2>5 DEF IInv, TypeInv, CorruptInv
  <2>10. LossHasCause'
    BY <2>4, <2>5 DEF IInv, TypeInv, LossHasCause
  <2>11. QED
    BY <2>6, <2>7, <2>8, <2>9, <2>10 DEF IInv
<1>7. ASSUME NEW w \in Workers,
             TestWorkDies(w) \/ GetQueryThrows(w) \/ FetchFails(w) \/ HeapAbort(w)
      PROVE  IInv'
  <2>1. Doomed(w) /\ Dies(w) /\ pc[w] # "dead"
    BY <1>7, DeathHasCause
  <2>2. TypeInv'
    BY <2>1, RepliesDiffer DEF Dies, Goto, IInv, TypeInv, Labels
  <2>3. ServingInv'
    BY <2>1 DEF Dies, Goto, IInv, TypeInv, ServingInv
  <2>4. HeldInv'
    BY <2>1, RepliesDiffer DEF Dies, Goto, IInv, TypeInv, HeldInv
  <2>5. CorruptInv'
    BY <2>1 DEF Dies, Goto, IInv, TypeInv, CorruptInv
  <2>6. LossHasCause'
    BY <2>1 DEF Dies, Doomed, IInv, TypeInv, HeldInv, LossHasCause
  <2>7. QED
    BY <2>2, <2>3, <2>4, <2>5, <2>6 DEF IInv
<1>8. ASSUME NEW w \in Workers, Respawn(w) PROVE IInv'
  <2>1. TypeInv'
    BY <1>8 DEF Respawn, Goto, IInv, TypeInv, Labels
  <2>2. ServingInv'
    BY <1>8 DEF Respawn, Goto, IInv, TypeInv, ServingInv
  <2>3. HeldInv'
    BY <1>8 DEF Respawn, Goto, IInv, TypeInv, HeldInv
  <2>4. CorruptInv'
    BY <1>8 DEF Respawn, Goto, IInv, TypeInv, CorruptInv
  <2>5. LossHasCause'
    BY <1>8 DEF Respawn, IInv, LossHasCause
  <2>6. QED
    BY <2>1, <2>2, <2>3, <2>4, <2>5 DEF IInv
<1>9. CASE UNCHANGED vars
  BY <1>9 DEF vars, IInv, TypeInv, ServingInv, HeldInv, CorruptInv, LossHasCause
<1>10. QED
  BY <1>1, <1>2, <1>3, <1>4, <1>5, <1>6, <1>7, <1>8, <1>9
     DEF SNext, Handler, Finished

\* A connection is lost only if its worker was given, in the same life, a
\* request that ends or damages it: whatever the number of workers, requests
\* and restarts.
THEOREM LossIsCaused == SSpec => []LossHasCause
<1>1. IInv => LossHasCause
  BY DEF IInv
<1>2. QED
  BY <1>1, IInvInit, IInvStep, PTL DEF SSpec

-----------------------------------------------------------------------------
\* Every step answers one request as ServiceSpec allows, loses connections
\* because of a harmful request, or changes no reply.
LEMMA StepImplements == IInv /\ [SNext]_vars => [Next]_<<kind, reply>>
<1> SUFFICES ASSUME IInv, [SNext]_vars PROVE [Next]_<<kind, reply>>
  OBVIOUS
<1>1. ASSUME NEW w \in Workers, NEW r \in Requests, HandlerRefuses(w, r)
      PROVE  Answer(r)
  <2>1. /\ reply[r] = NoReply /\ UNCHANGED kind /\ Refused(kind[r])
        /\ reply' = [reply EXCEPT ![r] = Sent(405, 0)]
    BY <1>1 DEF HandlerRefuses
  <2>2. reply'[r] = Sent(405, 0)
    BY <2>1 DEF IInv, TypeInv
  <2>3. MayAnswer(kind[r], Sent(405, 0))
    <3>1. ~Deadly(kind[r])
      BY <2>1 DEF Deadly
    <3>2. Sent(405, 0) \in RightAnswers(kind[r])
      BY <2>1 DEF RightAnswers
    <3>3. QED
      BY <3>1, <3>2 DEF MayAnswer
  <2>4. QED
    BY <2>1, <2>2, <2>3 DEF Answer
<1>2. ASSUME NEW w \in Workers, HandlerSends(w) \/ HandlerFails(w)
      PROVE  Answer(serving[w])
  <2>1. pc[w] = "send"
    BY <1>2 DEF HandlerSends, HandlerFails
  <2>2. /\ serving[w] \in Requests /\ reply[serving[w]] = NoReply
        /\ ~Refused(kind[serving[w]]) /\ ~Deadly(kind[serving[w]])
    BY <2>1, PrintedIsAlive DEF KindOf
  <2>3. PICK a : /\ reply' = [reply EXCEPT ![serving[w]] = a]
                 /\ \/ a = Sent(500, 0)
                    \/ a = Sent(200, TextFor(kind[serving[w]]))
                    \/ corrupt[w] /\ a \in {Sent(200, 0), Sent(200, QueryMax)}
    BY <1>2 DEF HandlerSends, HandlerFails, KindOf
  <2>4. reply'[serving[w]] = a /\ UNCHANGED kind
    BY <1>2, <2>2, <2>3 DEF IInv, TypeInv, HandlerSends, HandlerFails
  <2>5. corrupt[w] => \E q \in Requests : Damaging(kind[q])
    BY DEF IInv, CorruptInv
  <2>6. Sent(200, 0).status = 200 /\ Sent(200, 0).text \in 0 .. QueryMax
    BY DEF Sent, QueryMax
  <2>7. Sent(200, QueryMax).status = 200 /\ Sent(200, QueryMax).text \in 0 .. QueryMax
    BY DEF Sent, QueryMax
  <2>8. MayAnswer(kind[serving[w]], a)
    BY <2>2, <2>3, <2>5, <2>6, <2>7 DEF MayAnswer, RightAnswers
  <2>9. QED
    BY <2>2, <2>3, <2>4, <2>8 DEF Answer
<1>3. ASSUME NEW w \in Workers,
             TestWorkDies(w) \/ GetQueryThrows(w) \/ FetchFails(w) \/ HeapAbort(w)
      PROVE  \E S \in SUBSET Requests : Lose(S)
  <2>1. Doomed(w) /\ Dies(w)
    BY <1>3, DeathHasCause
  <2> DEFINE S == {r \in Requests : owner[r] = w /\ reply[r] = NoReply}
  <2>2. Lose(S)
    BY <2>1 DEF Dies, Doomed, Lose
  <2>3. QED
    BY <2>2
<1>4. ASSUME NEW w \in Workers,
             \/ TestWork(w) \/ GetQuery(w) \/ FetchReturns(w) \/ SprintfRes(w) \/ Respawn(w)
             \/ \E r \in Requests : Accept(w, r) \/ HandlerStarts(w, r)
      PROVE  UNCHANGED <<kind, reply>>
  BY <1>4 DEF TestWork, GetQuery, FetchReturns, SprintfRes, Respawn, Accept, HandlerStarts
<1>5. CASE UNCHANGED vars
  BY <1>5 DEF vars
<1>6. ASSUME NEW w \in Workers, HandlerSends(w) \/ HandlerFails(w)
      PROVE  \E r \in Requests : Answer(r)
  <2>1. serving[w] \in Requests
    BY <1>6, PrintedIsAlive DEF HandlerSends, HandlerFails
  <2>2. QED
    BY <1>2, <1>6, <2>1
<1>7. QED
  BY <1>1, <1>3, <1>4, <1>5, <1>6 DEF SNext, Handler, Finished, Next

\* The nginx module with its workers, handlers, crashes and restarts is an
\* implementation of the abstract service, for all constants.
THEOREM ServiceImplements == SSpec => Implements
<1>1. SInit => Init
  BY DEF SInit
<1>2. QED
  BY <1>1, IInvInit, IInvStep, StepImplements, PTL DEF SSpec, Implements, Spec

-----------------------------------------------------------------------------
(* What a worker holds.                                                    *)

\* The requests a worker has answered in its present life, the refused ones
\* not among them: for each it has decoded the arguments.
Served(w) ==
  {r \in Requests : owner[r] = w /\ life[r] = spawned[w] /\ reply[r].status \in {200, 500}}

\* The blocks a worker holds, and the copies that are left of its requests,
\* by how far its handler has come.
Account(w) ==
  /\ IsFiniteSet(Served(w))
  /\ pc[w] = "loop" => heap[w] = {} /\ argsStrs[w] = Cardinality(Served(w))
  /\ pc[w] = "work" => heap[w] = {"args"} /\ argsStrs[w] = Cardinality(Served(w))
  /\ pc[w] \in {"query", "fetch", "print", "send"} =>
       heap[w] = {"args", "res"} /\ argsStrs[w] = Cardinality(Served(w)) + 1
  /\ pc[w] = "dead" => heap[w] = {} /\ argsStrs[w] = 0

AccountInv ==
  /\ heap \in [Workers -> SUBSET {"args", "res"}]
  /\ argsStrs \in [Workers -> Nat]
  /\ \A r \in Requests : owner[r] # "none" => life[r] <= spawned[owner[r]]
  /\ \A w \in Workers : Account(w)

\* No request has been served before the first.
LEMMA AccountInit == SInit => AccountInv
<1> SUFFICES ASSUME SInit PROVE AccountInv
  OBVIOUS
<1>1. \A w \in Workers : Served(w) = {}
  BY NamesAssumption DEF SInit, Served
<1>2. QED
  BY <1>1, FS_EmptySet DEF SInit, AccountInv, Account

\* A step that changes neither who was served nor what a worker holds keeps
\* its account.
LEMMA AccountKept ==
  ASSUME NEW w \in Workers, Account(w), Served(w)' = Served(w),
         pc'[w] = pc[w], heap'[w] = heap[w], argsStrs'[w] = argsStrs[w]
  PROVE  Account(w)'
BY DEF Account

\* Every step keeps the account of every worker: a copy is made for the
\* request being served, which counts as served when it is answered; a death
\* clears the account and a restart opens a new one.
LEMMA AccountStep == IInv /\ AccountInv /\ [SNext]_vars => AccountInv'
<1> SUFFICES ASSUME IInv, AccountInv, [SNext]_vars PROVE AccountInv'
  OBVIOUS
<1> USE NamesAssumption
<1>1. ASSUME NEW w \in Workers, NEW r \in Requests, Accept(w, r) PROVE AccountInv'
  <2>1. reply[r].status \notin {200, 500}
    BY <1>1 DEF Accept, IInv, HeldInv, NoReply
  <2>2. \A v \in Workers : Served(v)' = Served(v)
    BY <1>1, <2>1 DEF Accept, Served, IInv, TypeInv
  <2>3. \A q \in Requests : owner'[q] # "none" => life'[q] <= spawned'[owner'[q]]
    BY <1>1 DEF Accept, AccountInv, IInv, TypeInv
  <2>4. QED
    BY <1>1, <2>2, <2>3, AccountKept DEF Accept, AccountInv
<1>2. ASSUME NEW w \in Workers, NEW r \in Requests, HandlerRefuses(w, r) PROVE AccountInv'
  <2>1. reply[r].status \notin {200, 500} /\ Sent(405, 0).status \notin {200, 500}
    BY <1>2 DEF HandlerRefuses, NoReply, Sent
  <2>2. \A v \in Workers : Served(v)' = Served(v)
    BY <1>2, <2>1 DEF HandlerRefuses, Served, IInv, TypeInv
  <2>3. QED
    BY <1>2, <2>2, AccountKept DEF HandlerRefuses, AccountInv
<1>3. ASSUME NEW w \in Workers,
             (\E r \in Requests : HandlerStarts(w, r)) \/ TestWork(w) \/ GetQuery(w)
               \/ FetchReturns(w) \/ SprintfRes(w)
      PROVE  AccountInv'
  <2>1. UNCHANGED <<reply, owner, life, spawned>>
    BY <1>3 DEF HandlerStarts, TestWork, GetQuery, FetchReturns, SprintfRes
  <2>2. \A v \in Workers : Served(v)' = Served(v)
    BY <2>1 DEF Served
  <2>3. /\ heap' \in [Workers -> SUBSET {"args", "res"}]
        /\ argsStrs' \in [Workers -> Nat]
        /\ \A v \in Workers \ {w} :
             pc'[v] = pc[v] /\ heap'[v] = heap[v] /\ argsStrs'[v] = argsStrs[v]
    BY <1>3 DEF HandlerStarts, TestWork, GetQuery, FetchReturns, SprintfRes, Goto, AccountInv,
                IInv, TypeInv
  <2>4. Account(w)'
    <3>1. Account(w) /\ Served(w)' = Served(w)
      BY <2>2 DEF AccountInv
    <3>2. ASSUME NEW r \in Requests, HandlerStarts(w, r) PROVE Account(w)'
      <4>1. /\ pc[w] = "loop" /\ pc'[w] = "work"
            /\ heap'[w] = heap[w] \cup {"args"} /\ argsStrs'[w] = argsStrs[w]
        BY <3>2 DEF HandlerStarts, Goto, AccountInv, IInv, TypeInv
      <4>2. QED
        BY <3>1, <4>1 DEF Account
    <3>3. CASE TestWork(w)
      <4>1. /\ pc[w] = "work" /\ pc'[w] = "query"
            /\ heap'[w] = heap[w] \cup {"res"} /\ argsStrs'[w] = argsStrs[w] + 1
        BY <3>3 DEF TestWork, Goto, AccountInv, IInv, TypeInv
      <4>2. QED
        BY <3>1, <4>1 DEF Account
    <3>4. CASE GetQuery(w) \/ FetchReturns(w) \/ SprintfRes(w)
      <4>1. /\ pc[w] \in {"query", "fetch", "print"} /\ pc'[w] \in {"fetch", "print", "send"}
            /\ heap'[w] = heap[w] /\ argsStrs'[w] = argsStrs[w]
        BY <3>4 DEF GetQuery, FetchReturns, SprintfRes, Goto, AccountInv, IInv, TypeInv
      <4>2. QED
        BY <3>1, <4>1 DEF Account
    <3>5. QED
      BY <1>3, <3>2, <3>3, <3>4
  <2>5. QED
    BY <2>1, <2>2, <2>3, <2>4, AccountKept DEF AccountInv
<1>4. ASSUME NEW w \in Workers, HandlerSends(w) \/ HandlerFails(w) PROVE AccountInv'
  <2>1. pc[w] = "send"
    BY <1>4 DEF HandlerSends, HandlerFails
  <2>2. /\ serving[w] \in Requests /\ owner[serving[w]] = w
        /\ life[serving[w]] = spawned[w] /\ reply[serving[w]] = NoReply
    BY <2>1, PrintedIsAlive
  <2>3. \E n \in {200, 500} : \E t : reply' = [reply EXCEPT ![serving[w]] = Sent(n, t)]
    BY <1>4 DEF HandlerSends, HandlerFails
  <2>4. /\ UNCHANGED <<owner, life, spawned, argsStrs>>
        /\ heap' = [heap EXCEPT ![w] = @ \ {"args", "res"}]
        /\ pc' = [pc EXCEPT ![w] = "loop"]
    BY <1>4 DEF HandlerSends, HandlerFails, HandlerFrees, Goto
  <2>5. Served(w)' = Served(w) \cup {serving[w]} /\ serving[w] \notin Served(w)
    BY <2>2, <2>3, <2>4 DEF Served, NoReply, Sent, IInv, TypeInv
  <2>6. \A v \in Workers \ {w} : Served(v)' = Served(v)
    BY <2>2, <2>3, <2>4 DEF Served, IInv, TypeInv
  <2>7. Account(w)'
    <3>1. /\ IsFiniteSet(Served(w)) /\ heap[w] = {"args", "res"}
          /\ argsStrs[w] = Cardinality(Served(w)) + 1
      BY <2>1 DEF AccountInv, Account
    <3>2. IsFiniteSet(Served(w)') /\ Cardinality(Served(w)') = Cardinality(Served(w)) + 1
      BY <2>5, <3>1, FS_AddElement
    <3>3. heap'[w] = {} /\ pc'[w] = "loop" /\ argsStrs'[w] = argsStrs[w]
      BY <2>4, <3>1 DEF AccountInv, IInv, TypeInv
    <3>4. QED
      BY <3>1, <3>2, <3>3 DEF Account
  <2>8. \A v \in Workers \ {w} : pc'[v] = pc[v] /\ heap'[v] = heap[v]
    BY <2>4 DEF AccountInv, IInv, TypeInv
  <2>9. heap' \in [Workers -> SUBSET {"args", "res"}]
    BY <2>4 DEF AccountInv
  <2>10. QED
    BY <2>4, <2>6, <2>7, <2>8, <2>9, AccountKept DEF AccountInv
<1>5. ASSUME NEW w \in Workers,
             TestWorkDies(w) \/ GetQueryThrows(w) \/ FetchFails(w) \/ HeapAbort(w)
      PROVE  AccountInv'
  <2>1. Dies(w)
    BY <1>5, DeathHasCause
  <2>2. \A v \in Workers : Served(v)' = Served(v)
    BY <2>1 DEF Dies, Served, Lost, NoReply, IInv, TypeInv
  <2>3. Account(w)'
    BY <2>1, <2>2 DEF Dies, Goto, Account, AccountInv, IInv, TypeInv
  <2>4. \A v \in Workers \ {w} :
          pc'[v] = pc[v] /\ heap'[v] = heap[v] /\ argsStrs'[v] = argsStrs[v]
    BY <2>1 DEF Dies, Goto, AccountInv, IInv, TypeInv
  <2>5. heap' \in [Workers -> SUBSET {"args", "res"}] /\ argsStrs' \in [Workers -> Nat]
    BY <2>1 DEF Dies, AccountInv
  <2>6. QED
    BY <2>1, <2>2, <2>3, <2>4, <2>5, AccountKept DEF Dies, AccountInv
<1>6. ASSUME NEW w \in Workers, Respawn(w) PROVE AccountInv'
  <2>1. /\ pc[w] = "dead" /\ UNCHANGED <<reply, owner, life, heap, argsStrs>>
        /\ spawned' = [spawned EXCEPT ![w] = @ + 1]
        /\ pc' = [pc EXCEPT ![w] = "loop"]
    BY <1>6 DEF Respawn, Goto
  <2>2. Served(w)' = {}
    BY <2>1 DEF Served, AccountInv, IInv, TypeInv
  <2>3. \A v \in Workers \ {w} : Served(v)' = Served(v)
    BY <2>1 DEF Served, IInv, TypeInv
  <2>4. Account(w)'
    BY <2>1, <2>2, FS_EmptySet DEF Account, AccountInv, IInv, TypeInv
  <2>5. \A r \in Requests : owner[r] # "none" => life[r] <= spawned'[owner[r]]
    BY <2>1 DEF AccountInv, IInv, TypeInv
  <2>6. \A v \in Workers \ {w} : pc'[v] = pc[v]
    BY <2>1 DEF IInv, TypeInv
  <2>7. QED
    BY <2>1, <2>3, <2>4, <2>5, <2>6, AccountKept DEF AccountInv
<1>7. CASE UNCHANGED vars
  BY <1>7 DEF vars, AccountInv, Account, Served
<1>8. QED
  BY <1>1, <1>2, <1>3, <1>4, <1>5, <1>6, <1>7 DEF SNext, Handler, Finished

\* Between two requests a worker holds nothing of the handler's, except one
\* decoded copy of the arguments for each request answered in this life.
THEOREM OnlyArgsStrIsLeft == SSpec => []OnlyArgsStrLeaks
<1>1. AccountInv => OnlyArgsStrLeaks
  BY DEF AccountInv, Account, Served, OnlyArgsStrLeaks
<1>2. QED
  BY <1>1, IInvInit, IInvStep, AccountInit, AccountStep, PTL DEF SSpec
=============================================================================
