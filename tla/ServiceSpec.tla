---------------------------- MODULE ServiceSpec ----------------------------
(***************************************************************************)
(* What the query service promises its clients, without processes, heap or *)
(* steps: each request gets at most one answer, and the one its arguments  *)
(* call for, as long as no request harms the process that serves it.       *)
(* QueryService implements this specification.                             *)
(***************************************************************************)
EXTENDS Naturals

CONSTANTS
  Requests,   \* identities of requests
  Kinds,      \* what a request may be like
  DataLen     \* strlen(test_data->data), the name of the dictionary file

VARIABLES
  kind,    \* of each request
  reply    \* to each request

NoReply == [status |-> 0, text |-> 0]
Lost == [status |-> 1, text |-> 0]
Sent(status, text) == [status |-> status, text |-> text]

QueryMax == 1023   \* QUERYLIST.query, less its NUL

\* getQueryList: what fits into QUERYLIST.query.
Truncated(len) == IF len > QueryMax THEN QueryMax ELSE len

\* test_work: malloc(strlen(data) + strlen(args) + 64), to which sprintf then
\* writes the query and a NUL.
ResSize(k) == DataLen + k.args + 64

Overruns(k) == Truncated(k.query) + 1 > ResSize(k)

Refused(k) == k.method = "PUT"

\* A HEAD request gets the header only.
TextFor(k) == IF k.method = "HEAD" THEN 0 ELSE Truncated(k.query)

\* Requests that end the process that serves them, and requests that may
\* damage its heap.
Deadly(k) ==
  /\ ~Refused(k)
  /\ ~k.data \/ k.nomem \/ k.throws \/ k.buyer = "fails"
Damaging(k) == ~Refused(k) /\ ~Deadly(k) /\ Overruns(k)
Harmless(k) == ~Deadly(k) /\ ~Damaging(k)

RightAnswers(k) ==
  IF Refused(k) THEN {Sent(405, 0)} ELSE {Sent(200, TextFor(k)), Sent(500, 0)}

Init ==
  /\ kind \in [Requests -> Kinds]
  /\ reply = [r \in Requests |-> NoReply]

\* A wrong text may be sent only when some request has damaged a heap.
MayAnswer(k, a) ==
  /\ ~Deadly(k)
  /\ \/ a \in RightAnswers(k)
     \/ /\ \E q \in Requests : Damaging(kind[q])
        /\ a.status = 200 /\ a.text \in 0 .. QueryMax

Answer(r) ==
  /\ reply[r] = NoReply
  /\ MayAnswer(kind[r], reply'[r])
  /\ reply' = [reply EXCEPT ![r] = reply'[r]]
  /\ UNCHANGED kind

\* Connections are lost together, and only if there is a harmful request.
Lose(S) ==
  /\ \A r \in S : reply[r] = NoReply
  /\ \E q \in Requests : ~Harmless(kind[q])
  /\ reply' = [r \in Requests |-> IF r \in S THEN Lost ELSE reply[r]]
  /\ UNCHANGED kind

Next == (\E r \in Requests : Answer(r)) \/ (\E S \in SUBSET Requests : Lose(S))

Spec == Init /\ [][Next]_<<kind, reply>>
=============================================================================
