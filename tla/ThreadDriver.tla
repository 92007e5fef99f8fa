---------------------------- MODULE ThreadDriver ----------------------------
(***************************************************************************)
(* MultiThreadTest/main.cpp: main writes one request per thread into the   *)
(* rows of queryChar, starts the threads and joins them; each analyses its *)
(* row and prints the result under work_mutex.                             *)
(*                                                                         *)
(* Abstraction.  A row is its index and the kind of its keyword; what      *)
(* getQueryList makes of it is the row itself (QueryParse, Segmenter: it   *)
(* neither throws nor asks for a buyer, since keyword= comes last and no   *)
(* row has a buyerid=).  The << of one line write Pieces parts.            *)
(***************************************************************************)
EXTENDS Naturals, Sequences, FiniteSets

CONSTANTS
  Rows,        \* rows of queryChar; 1024 in the code
  MaxThreads,  \* bound on the number of threads asked for
  Pieces       \* parts that a line is written in

ASSUME BoundsAssumption == Rows \in Nat /\ MaxThreads \in Nat /\ Pieces \in Nat \ {0}

Threads == 0 .. MaxThreads - 1

VARIABLES
  thread_num,  \* atoi(argv[1])
  i,           \* main's loop counter
  queryChar,   \* the rows filled so far, from row 0 on
  failed,      \* threads that pthread_create could not start
  mutex,       \* "none", "free", "destroyed", or "locked"
  holder,      \* the thread that has it locked
  ql,          \* what each thread has made of its row
  written,     \* how much of its line each thread has written
  out,         \* what cout has got: <<ql, piece>>
  tpc,         \* of each thread
  pc           \* of main

vars == <<thread_num, i, queryChar, failed, mutex, holder, ql, written, out, tpc, pc>>
threadVars == <<failed, ql, written, out, tpc>>

Nothing == <<>>
Running == pc \notin {"returned", "exited", "crashed", "corrupt"}

-----------------------------------------------------------------------------
Init ==
  /\ thread_num \in 0 .. MaxThreads
  /\ i = 0 /\ queryChar = <<>> /\ failed = {}
  /\ mutex = "none" /\ holder = MaxThreads
  /\ ql = [t \in Threads |-> Nothing]
  /\ written = [t \in Threads |-> 0]
  /\ out = <<>>
  /\ tpc = [t \in Threads |-> "none"]
  /\ pc = "malloc"

\* malloc fails also for a negative number, which becomes a huge size_t.
MallocPidList ==
  /\ pc = "malloc"
  /\ pc' \in {"fill", "exited"}
  /\ UNCHANGED <<thread_num, i, queryChar, mutex, holder, threadVars>>

\* Digits, Latin and Chinese keywords, a third of the rows each.
KeywordKind(row) ==
  IF row < thread_num \div 3 THEN "digits"
  ELSE IF row < (thread_num * 2) \div 3 THEN "latin"
  ELSE "chinese"

\* Mutant: queryChar has one row less than threads are allowed for.
FillsBelow == i + 1 < Rows
Fills == i < Rows

FillRow ==
  /\ pc = "fill" /\ i < thread_num
  /\ Fills
  /\ queryChar' = Append(queryChar, <<i, KeywordKind(i)>>)
  /\ i' = i + 1
  /\ UNCHANGED <<thread_num, mutex, holder, threadVars, pc>>

\* No check of thread_num: memset and strncpy go on behind the array.
FillBehindRows ==
  /\ pc = "fill" /\ i < thread_num
  /\ ~Fills
  /\ pc' = "corrupt"
  /\ UNCHANGED <<thread_num, i, queryChar, mutex, holder, threadVars>>

InitMutex ==
  /\ pc = "fill" /\ i = thread_num
  /\ mutex' = "free" /\ i' = 0 /\ pc' = "create"
  /\ UNCHANGED <<thread_num, queryChar, holder, threadVars>>

\* pthread_create; its result is not looked at.
Create ==
  /\ pc = "create" /\ i < thread_num
  /\ \/ tpc' = [tpc EXCEPT ![i] = "analyse"] /\ UNCHANGED failed
     \/ failed' = failed \cup {i} /\ UNCHANGED tpc
  /\ i' = i + 1
  /\ UNCHANGED <<thread_num, queryChar, mutex, holder, ql, written, out, pc>>

AllCreated ==
  /\ pc = "create" /\ i = thread_num
  /\ i' = 0 /\ pc' = "join"
  /\ UNCHANGED <<thread_num, queryChar, mutex, holder, threadVars>>

\* Mutant: the loop does not wait for a thread.
JoinDetached ==
  /\ pc = "join" /\ i < thread_num
  /\ i' = i + 1
  /\ UNCHANGED <<thread_num, queryChar, mutex, holder, threadVars, pc>>
Join ==
  /\ pc = "join" /\ i < thread_num
  /\ i \in failed \/ tpc[i] = "ended"
  /\ i' = i + 1
  /\ UNCHANGED <<thread_num, queryChar, mutex, holder, threadVars, pc>>

\* The pid of a thread that was not created is whatever malloc left there:
\* pthread_join returns an error (Join) or follows it.
JoinCrashes ==
  /\ pc = "join" /\ i < thread_num
  /\ i \in failed
  /\ pc' = "crashed"
  /\ UNCHANGED <<thread_num, i, queryChar, mutex, holder, threadVars>>

DestroyMutex ==
  /\ pc = "join" /\ i = thread_num
  /\ mutex' = "destroyed" /\ pc' = "return"
  /\ UNCHANGED <<thread_num, i, queryChar, holder, threadVars>>

\* queryChar goes and the process ends, with every thread there may be.
Return ==
  /\ pc = "return"
  /\ pc' = "returned"
  /\ UNCHANGED <<thread_num, i, queryChar, mutex, holder, threadVars>>

-----------------------------------------------------------------------------
Goto(t, label) == tpc' = [tpc EXCEPT ![t] = label]

RowOf(t) == queryChar[t + 1]

\* qa.getQueryList(dat).
Analyse(t) ==
  /\ Running /\ tpc[t] = "analyse"
  /\ ql' = [ql EXCEPT ![t] = RowOf(t)]
  /\ Goto(t, "lock")
  /\ UNCHANGED <<thread_num, i, queryChar, failed, mutex, holder, written, out, pc>>

\* Mutant: the call of pthread_mutex_lock is missing.
MayLockAlways == TRUE
MayLock == mutex = "free"

Lock(t) ==
  /\ Running /\ tpc[t] = "lock"
  /\ MayLock
  /\ mutex' = "locked" /\ holder' = t
  /\ Goto(t, "print")
  /\ UNCHANGED <<thread_num, i, queryChar, failed, ql, written, out, pc>>

\* The next part of the line goes to cout.
Write(t) ==
  /\ Running /\ tpc[t] = "print" /\ written[t] < Pieces
  /\ out' = Append(out, <<ql[t], written[t] + 1>>)
  /\ written' = [written EXCEPT ![t] = @ + 1]
  /\ UNCHANGED <<thread_num, i, queryChar, failed, mutex, holder, ql, tpc, pc>>

Unlock(t) ==
  /\ Running /\ tpc[t] = "print" /\ written[t] = Pieces
  /\ mutex' = "free" /\ holder' = MaxThreads
  /\ Goto(t, "ended")
  /\ UNCHANGED <<thread_num, i, queryChar, failed, ql, written, out, pc>>

Main ==
  \/ MallocPidList \/ FillRow \/ FillBehindRows \/ InitMutex \/ Create \/ AllCreated
  \/ Join \/ JoinCrashes \/ DestroyMutex \/ Return
Thread(t) == Analyse(t) \/ Lock(t) \/ Write(t) \/ Unlock(t)
Ended == ~Running /\ UNCHANGED vars

Next == Main \/ (\E t \in Threads : Thread(t)) \/ Ended

\* The scheduler lets main and every thread that can run do so.
Spec == Init /\ [][Next]_vars /\ WF_vars(Main) /\ \A t \in Threads : WF_vars(Thread(t))

-----------------------------------------------------------------------------
(* What the driver promises.                                               *)

\* Lines are never mixed: each line on cout is written from its first part
\* to its last before another begins, is one thread's result for the row
\* that main made for it, and no row is reported twice.
LinesWhole ==
  \A k \in 1 .. Len(out) :
    LET first == k - ((k - 1) % Pieces)   \* where the line of part k begins
        line == out[k][1]
    IN  /\ out[k] = <<out[first][1], k - first + 1>>
        /\ line = queryChar[line[1] + 1]
        /\ \A m \in 1 .. first - 1 : out[m][1] # line

\* Neither main's rows nor the mutex go away while a thread may use them,
\* also when some of the threads could not be created and main does not know.
OutlivesThreads ==
  \A t \in Threads :
    /\ tpc[t] \in {"analyse", "lock", "print"} => pc \in {"create", "join", "crashed"}
    /\ tpc[t] = "print" => mutex = "locked" /\ holder = t

\* Up to as many threads as queryChar has rows, and if each was created, the
\* program ends and every thread's line has been printed.
AllReported ==
  thread_num <= Rows =>
    <>(\/ pc = "exited" \/ failed # {}
       \/ pc = "returned" /\ Len(out) = thread_num * Pieces)
=============================================================================
