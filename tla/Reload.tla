------------------------------- MODULE Reload -------------------------------
(***************************************************************************)
(* TestModule together with the processes that use its configurations:     *)
(* the master forks a worker with every cycle that it accepts, tells the   *)
(* one before to shut down, and replaces one that dies; requests for the   *)
(* module's locations are accepted by some worker and handled with the     *)
(* configuration that this worker was forked with.                         *)
(*                                                                         *)
(* Abstraction.  One worker per cycle.  Of the handler only the use of     *)
(* test_data is kept (QueryService has the rest).  nginx is external.      *)
(***************************************************************************)
EXTENDS TestModule

CONSTANTS Requests

VARIABLES
  worker,   \* of each cycle: "none", "running", "quitting", "dead" or "gone"
  forked,   \* the test_data that were in memory when it was forked
  request   \* of each request: its state, its worker and its location

deployVars == <<worker, forked, request>>
reloadVars == <<vars, deployVars>>

Cycles == 1 .. MaxCycles
Waiting == [state |-> "waiting", cycle |-> 0, loc |-> 0]

-----------------------------------------------------------------------------
RInit ==
  /\ Init
  /\ worker = [n \in Cycles |-> "none"]
  /\ forked = [n \in Cycles |-> {}]
  /\ request = [r \in Requests |-> Waiting]

\* A reload begins when the workers of older cycles have been told to go.
Reconfigure ==
  /\ \A n \in Cycles : worker[n] = "running" => n = current
  /\ Configure
  /\ UNCHANGED deployVars

LoadCycle ==
  /\ MergeLocConf \/ CycleAccepted \/ CycleRejected \/ InitModule
  /\ UNCHANGED deployVars

\* The new cycle's worker is forked; for a while the old one accepts too.
StartWorker ==
  /\ NewCycleRuns
  /\ worker' = [worker EXCEPT ![Newest] = "running"]
  /\ forked' = [forked EXCEPT ![Newest] = test_data']
  /\ UNCHANGED request

\* SIGQUIT: it accepts no more, and finishes what it has.
ShutDown(n) ==
  /\ worker[n] = "running" /\ n # current
  /\ phase = "idle"
  /\ worker' = [worker EXCEPT ![n] = "quitting"]
  /\ UNCHANGED <<vars, forked, request>>

Accept(n, r) ==
  /\ worker[n] = "running"
  /\ request[r] = Waiting
  /\ \E k \in 1 .. Len(config[n]) :
       request' = [request EXCEPT ![r] = [state |-> "accepted", cycle |-> n, loc |-> k]]
  /\ UNCHANGED <<vars, worker, forked>>

Holds(n, r) == request[r].state = "accepted" /\ request[r].cycle = n
HasData(r) == <<request[r].cycle, request[r].loc>> \in forked[request[r].cycle]

\* Mutant: a worker that is told to go handles nothing any more.
HandleUntilTold(n, r) ==
  /\ worker[n] = "running"
  /\ Holds(n, r) /\ HasData(r)
  /\ request' = [request EXCEPT ![r].state = "answered"]
  /\ UNCHANGED <<vars, worker, forked>>
\* test_work with the test_data of the request's location ...
Handle(n, r) ==
  /\ worker[n] \in {"running", "quitting"}
  /\ Holds(n, r) /\ HasData(r)
  /\ request' = [request EXCEPT ![r].state = "answered"]
  /\ UNCHANGED <<vars, worker, forked>>

\* ... or with NULL, which ends the worker and all it holds.
HandleDies(n, r) ==
  /\ worker[n] \in {"running", "quitting"}
  /\ Holds(n, r) /\ ~HasData(r)
  /\ request' = [q \in Requests |->
                   IF Holds(n, q) THEN [request[q] EXCEPT !.state = "lost"] ELSE request[q]]
  /\ worker' = [worker EXCEPT ![n] = IF @ = "running" /\ n = current THEN "dead" ELSE "gone"]
  /\ UNCHANGED <<vars, forked>>

\* ngx_reap_children, as long as there is a master and it is not reloading:
\* the new worker is a copy of the master as it is now.  (After a reload it
\* would be one more worker of the new cycle.)
Respawn(n) ==
  /\ worker[n] = "dead"
  /\ phase = "idle"
  /\ worker' = [worker EXCEPT ![n] = IF n = current THEN "running" ELSE "gone"]
  /\ forked' = [forked EXCEPT ![n] = test_data]
  /\ UNCHANGED <<vars, request>>

\* ngx_exiting: it leaves when it has no connection any more.
Leave(n) ==
  /\ worker[n] = "quitting"
  /\ \A r \in Requests : ~Holds(n, r)
  /\ worker' = [worker EXCEPT ![n] = "gone"]
  /\ UNCHANGED <<vars, forked, request>>

Work(n) == (\E r \in Requests : Handle(n, r) \/ HandleDies(n, r)) \/ Leave(n)
Quiet == Stopped /\ UNCHANGED deployVars

RNext ==
  \/ Reconfigure \/ LoadCycle \/ StartWorker
  \/ \E n \in Cycles :
       \/ ShutDown(n) \/ Respawn(n) \/ Work(n)
       \/ \E r \in Requests : Accept(n, r)
  \/ Quiet

\* Workers handle what they have accepted; the master tells old ones to go.
RSpec ==
  /\ RInit /\ [][RNext]_reloadVars
  /\ \A n \in Cycles : WF_reloadVars(Work(n))

-----------------------------------------------------------------------------
(* What a reload promises to the requests in flight.                       *)

\* The location of a configuration that gets its test_data, if there is one.
Served(c) == IF WithFile(c) = {} THEN 0 ELSE Max(WithFile(c))

\* Reloads, rejected or accepted, cost no request: one is lost only if its
\* worker was given a request for a location that its configuration does not
\* serve (none, or not the last, with a conf_file in force).
ReloadLosesNothing ==
  \A r \in Requests : request[r].state = "lost" =>
    \E q \in Requests :
      /\ request[q].cycle = request[r].cycle
      /\ request[q].loc # Served(config[request[q].cycle])

\* Every request that was accepted is settled, by its own cycle's worker,
\* also if a reload has come in between or the master is gone.
AcceptedIsSettled ==
  \A r \in Requests :
    request[r].state = "accepted" ~> request[r].state \in {"answered", "lost"}
=============================================================================
