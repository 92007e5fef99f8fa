------------------------ MODULE ThreadDriver_proofs ------------------------
(***************************************************************************)
(* Proofs about the multi-threaded driver: for any number of threads and   *)
(* rows, and whichever threads could not be created, main's rows and mutex *)
(* outlive the threads that use them, and every line is printed whole.     *)
(***************************************************************************)
EXTENDS ThreadDriver, Integers, TLAPS

Alive == {"analyse", "lock", "print"}

TypeInv ==
  /\ thread_num \in 0 .. MaxThreads
  /\ i \in 0 .. thread_num
  /\ tpc \in [Threads -> Alive \cup {"none", "ended"}]

\* Threads are there only from their creation on: none before the loop of
\* pthread_create, those below i in it, none from thread_num on.
CreatedInv ==
  /\ pc \in {"malloc", "fill", "exited", "corrupt"} => \A t \in Threads : tpc[t] = "none"
  /\ pc = "create" => \A t \in Threads : t >= i => tpc[t] = "none"
  /\ \A t \in Threads : t >= thread_num => tpc[t] = "none"

\* A thread that could not be created never runs.
FailedInv ==
  /\ pc \in {"malloc", "fill"} => failed = {}
  /\ \A t \in Threads : t \in failed => tpc[t] = "none" /\ (pc = "create" => t < i)

\* What main has joined has ended, and it goes on only with all of them.
JoinedInv ==
  /\ pc = "join" => \A t \in Threads : t < i => tpc[t] \notin Alive
  /\ pc \in {"return", "returned"} => \A t \in Threads : tpc[t] \notin Alive

\* Whoever prints holds the mutex.
HolderInv == \A t \in Threads : tpc[t] = "print" => mutex = "locked" /\ holder = t

PcInv ==
  pc \in {"malloc", "fill", "create", "join", "return", "returned", "exited", "crashed", "corrupt"}

IInv == PcInv /\ TypeInv /\ CreatedInv /\ FailedInv /\ JoinedInv /\ HolderInv

-----------------------------------------------------------------------------
\* The invariant holds before main has done anything.
LEMMA IInvInit == Init => IInv
  BY BoundsAssumption
  DEF Init, IInv, PcInv, TypeInv, CreatedInv, FailedInv, JoinedInv, HolderInv, Threads

\* Main's steps.  Only Create changes a thread; Join and DestroyMutex wait.
LEMMA MainStep == IInv /\ Main => IInv'
<1> SUFFICES ASSUME IInv, Main PROVE IInv'
  OBVIOUS
<1> USE BoundsAssumption
    DEF IInv, PcInv, TypeInv, CreatedInv, FailedInv, JoinedInv, HolderInv, Threads, threadVars
<1>1. CASE MallocPidList
  BY <1>1 DEF MallocPidList
<1>2. CASE FillRow
  BY <1>2 DEF FillRow
<1>3. CASE FillBehindRows
  BY <1>3 DEF FillBehindRows
<1>4. CASE InitMutex
  BY <1>4 DEF InitMutex
<1>5. CASE Create
  <2>1. i \in Threads /\ tpc[i] = "none" /\ i \notin failed
    BY <1>5 DEF Create
  <2>2. CASE tpc' = [tpc EXCEPT ![i] = "analyse"] /\ UNCHANGED failed
    BY <1>5, <2>1, <2>2 DEF Create, Alive
  <2>3. CASE failed' = failed \cup {i} /\ UNCHANGED tpc
    BY <1>5, <2>1, <2>3 DEF Create
  <2>4. QED
    BY <1>5, <2>2, <2>3 DEF Create
<1>6. CASE AllCreated
  BY <1>6 DEF AllCreated
<1>7. CASE Join
  <2>1. i \in Threads /\ tpc[i] \notin Alive
    BY <1>7 DEF Join, Alive
  <2>2. QED
    BY <1>7, <2>1 DEF Join
<1>8. CASE JoinCrashes
  BY <1>8 DEF JoinCrashes
<1>9. CASE DestroyMutex
  <2>1. \A t \in Threads : tpc[t] \notin Alive
    BY <1>9 DEF DestroyMutex, Alive
  <2>2. QED
    BY <1>9, <2>1 DEF DestroyMutex, Alive
<1>10. CASE Return
  BY <1>10 DEF Return
<1>11. QED
  BY <1>1, <1>2, <1>3, <1>4, <1>5, <1>6, <1>7, <1>8, <1>9, <1>10 DEF Main

\* A thread's steps.  Only one that is alive takes any.
LEMMA ThreadStep == ASSUME IInv, NEW t \in Threads, Thread(t) PROVE IInv'
<1> USE BoundsAssumption
    DEF IInv, PcInv, TypeInv, CreatedInv, FailedInv, JoinedInv, HolderInv, Threads, Goto, Alive
<1>1. tpc[t] \in Alive
  BY DEF Thread, Analyse, Lock, Write, Unlock
<1>2. CASE Analyse(t)
  BY <1>1, <1>2 DEF Analyse
<1>3. CASE Lock(t)
  BY <1>1, <1>3 DEF Lock, MayLock
<1>4. CASE Write(t)
  BY <1>4 DEF Write
<1>5. CASE Unlock(t)
  BY <1>1, <1>5 DEF Unlock
<1>6. QED
  BY <1>2, <1>3, <1>4, <1>5 DEF Thread

\* Every step of main, of a thread and of the ended process keeps it.
LEMMA IInvStep == IInv /\ [Next]_vars => IInv'
<1>1. IInv /\ UNCHANGED vars => IInv'
  BY DEF vars, IInv, PcInv, TypeInv, CreatedInv, FailedInv, JoinedInv, HolderInv
<1>2. QED
  BY <1>1, MainStep, ThreadStep DEF Next, Ended

\* Main destroys the mutex and leaves queryChar only when no thread can use
\* them any more, even if pthread_create had failed for some and main joined
\* pids that nobody had written.
THEOREM RowsOutliveThreads == Spec => []OutlivesThreads
<1>1. IInv => OutlivesThreads
  BY DEF IInv, PcInv, CreatedInv, JoinedInv, HolderInv, OutlivesThreads, Alive
<1>2. QED
  BY <1>1, IInvInit, IInvStep, PTL DEF Spec
-----------------------------------------------------------------------------
(* Whole lines.                                                            *)

KeywordKinds == {"digits", "latin", "chinese"}
RowSet == Nat \X KeywordKinds

\* Row j of queryChar is the one that main made for thread j, and main has
\* written as many as its loop has counted.
RowsInv ==
  /\ queryChar \in Seq(RowSet)
  /\ \A j \in 1 .. Len(queryChar) : queryChar[j][1] = j - 1
  /\ pc = "malloc" => i = 0 /\ Len(queryChar) = 0
  /\ pc = "fill" => Len(queryChar) = i
  /\ pc \in {"create", "join", "return", "returned", "crashed"} =>
       Len(queryChar) = thread_num

\* A thread beyond its analysis has its own row as result, and has written
\* nothing before it locks.
ResultInv ==
  /\ ql \in [Threads -> RowSet \cup {Nothing}]
  /\ written \in [Threads -> 0 .. Pieces]
  /\ \A t \in Threads :
       /\ tpc[t] \in {"lock", "print", "ended"} => ql[t] = queryChar[t + 1]
       /\ tpc[t] = "lock" \/ tpc[t] = "analyse" \/ tpc[t] = "none" => written[t] = 0

\* What is on cout comes from threads that print or have printed.
OutInv ==
  /\ out \in Seq(RowSet \X Nat)
  /\ \A k \in 1 .. Len(out) :
       /\ out[k][1][1] \in Threads
       /\ tpc[out[k][1][1]] \in {"print", "ended"}
       /\ out[k][1] = queryChar[out[k][1][1] + 1]

\* The thread that prints has begun on a fresh line and what follows there is
\* its own; when none prints, every line is complete.
LineInv ==
  /\ \A t \in Threads : tpc[t] = "print" =>
       /\ Len(out) - written[t] \in Nat
       /\ (Len(out) - written[t]) % Pieces = 0
       /\ \A k \in 1 .. Len(out) - written[t] : out[k][1][1] # t
       /\ \A k \in 1 .. Len(out) : k > Len(out) - written[t] =>
            out[k] = <<ql[t], k - (Len(out) - written[t])>>
  /\ (\A t \in Threads : tpc[t] # "print") => Len(out) % Pieces = 0

LinesInv == RowsInv /\ ResultInv /\ OutInv /\ LineInv /\ LinesWhole

\* The offset within a line: lines begin at multiples of Pieces.
LEMMA LineOffset ==
  ASSUME NEW p \in Nat \ {0}, NEW b \in Nat, b % p = 0, NEW w \in 0 .. p
  PROVE  /\ w < p => (b + w) % p = w
         /\ w = p => (b + w) % p = 0
<1>1. PICK q \in Int : b = p * q
  OBVIOUS
<1>2. ASSUME NEW r \in 0 .. p - 1, NEW c \in Int PROVE (p * c + r) % p = r
  <2> DEFINE x == p * c + r
             d == x \div p
             m == x % p
  <2>1. x \in Int /\ d \in Int /\ m \in 0 .. p - 1 /\ x = p * d + m
    OBVIOUS
  <2>2. p * (c - d) = m - r
    BY <2>1
  <2>3. c - d < 1
    BY <2>1, <2>2
  <2>4. c - d > 0 - 1
    BY <2>1, <2>2
  <2>5. c = d
    BY <2>1, <2>3, <2>4
  <2>6. QED
    BY <2>1, <2>5
<1>3. ASSUME w < p PROVE (b + w) % p = w
  <2>1. w \in 0 .. p - 1
    BY <1>3
  <2>2. (p * q + w) % p = w
    BY <1>2, <2>1
  <2>3. QED
    BY <1>1, <2>2
<1>4. ASSUME w = p PROVE (b + w) % p = 0
  <2>1. 0 \in 0 .. p - 1 /\ q + 1 \in Int
    OBVIOUS
  <2>2. (p * (q + 1) + 0) % p = 0
    BY <1>2, <2>1
  <2>3. b + w = p * (q + 1) + 0
    BY <1>1, <1>4
  <2>4. QED
    BY <2>2, <2>3
<1>5. QED
  BY <1>3, <1>4

\* Where the line of part k begins is a place up to k.
LEMMA FirstOfLine ==
  ASSUME NEW p \in Nat \ {0}, NEW k \in Nat \ {0}
  PROVE  k - ((k - 1) % p) \in 1 .. k
<1>1. PICK j \in Nat : j = k - 1
  OBVIOUS
<1>2. j % p \in 0 .. p - 1 /\ j \div p \in Int /\ j = p * (j \div p) + (j % p)
  OBVIOUS
<1>3. j \div p >= 0
  BY <1>2
<1>4. p * (j \div p) >= 0
  BY <1>2, <1>3
<1>5. j % p <= j
  BY <1>2, <1>4
<1>6. QED
  BY <1>1, <1>2, <1>5

\* A step that leaves rows, results and cout alone, and no thread's standing
\* with the lines, keeps the account of the lines.
LEMMA LinesKept ==
  ASSUME LinesInv, UNCHANGED <<queryChar, ql, written, out>>,
         tpc' \in [Threads -> Alive \cup {"none", "ended"}],
         \A t \in Threads : tpc'[t] = tpc[t] \/ (tpc[t] = "none" /\ tpc'[t] = "analyse")
  PROVE  (ResultInv /\ OutInv /\ LineInv /\ LinesWhole)'
<1> USE DEF LinesInv
<1>1. ResultInv'
  BY DEF ResultInv
<1>2. OutInv'
  BY DEF OutInv
<1>3. LineInv'
  BY DEF LineInv
<1>4. LinesWhole'
  BY DEF LinesWhole
<1>5. QED
  BY <1>1, <1>2, <1>3, <1>4

\* Nothing has been written at the start.
LEMMA LinesInit == Init => LinesInv
<1> SUFFICES ASSUME Init PROVE LinesInv
  OBVIOUS
<1>1. out = <<>> /\ queryChar = <<>>
  BY DEF Init
<1>2. 0 % Pieces = 0
  BY BoundsAssumption, LineOffset, SMT
<1>3. RowsInv /\ ResultInv
  BY <1>1, BoundsAssumption DEF Init, RowsInv, ResultInv
<1>4. OutInv /\ LineInv /\ LinesWhole
  BY <1>1, <1>2 DEF Init, OutInv, LineInv, LinesWhole
<1>5. QED
  BY <1>3, <1>4 DEF LinesInv

\* Main writes a row only before there is a thread, and touches no line.
LEMMA MainKeepsLines == IInv /\ LinesInv /\ Main => LinesInv'
<1> SUFFICES ASSUME IInv, LinesInv, Main PROVE LinesInv'
  OBVIOUS
<1> USE BoundsAssumption
<1>1. CASE FillRow
  <2>1. /\ \A t \in Threads : tpc[t] = "none"
        /\ queryChar' = Append(queryChar, <<i, KeywordKind(i)>>)
        /\ i' = i + 1 /\ pc = "fill" /\ pc' = "fill"
        /\ UNCHANGED <<tpc, ql, written, out, thread_num>>
    BY <1>1 DEF FillRow, IInv, CreatedInv, threadVars
  <2>2. <<i, KeywordKind(i)>> \in RowSet
    BY DEF IInv, TypeInv, KeywordKind, RowSet, KeywordKinds
  <2>3. RowsInv'
    BY <2>1, <2>2 DEF LinesInv, RowsInv, IInv, TypeInv
  <2>4. Len(out) = 0
    BY <2>1 DEF LinesInv, OutInv
  <2>5. ResultInv' /\ OutInv' /\ LineInv' /\ LinesWhole'
    BY <2>1, <2>4 DEF LinesInv, ResultInv, OutInv, LineInv, LinesWhole
  <2>6. QED
    BY <2>3, <2>5 DEF LinesInv
<1>2. CASE ~FillRow
  <2>1. UNCHANGED <<queryChar, ql, written, out, thread_num>>
    BY <1>2 DEF Main, MallocPidList, FillBehindRows, InitMutex, Create, AllCreated, Join,
                JoinCrashes, DestroyMutex, Return, threadVars
  <2>2. tpc' \in [Threads -> Alive \cup {"none", "ended"}]
    BY MainStep DEF IInv, TypeInv
  <2>3. \A t \in Threads : tpc'[t] = tpc[t] \/ (tpc[t] = "none" /\ tpc'[t] = "analyse")
    <3>1. CASE Create
      BY <3>1 DEF Create, IInv, TypeInv, CreatedInv, Threads
    <3>2. CASE ~Create
      BY <1>2, <3>2 DEF Main, MallocPidList, FillBehindRows, InitMutex, AllCreated, Join,
                JoinCrashes, DestroyMutex, Return, threadVars
    <3>3. QED
      BY <3>1, <3>2
  <2>4. RowsInv'
    BY <1>2, <2>1 DEF Main, MallocPidList, FillBehindRows, InitMutex, Create, AllCreated, Join,
                JoinCrashes, DestroyMutex, Return, LinesInv, RowsInv, IInv, TypeInv
  <2>5. QED
    BY <2>1, <2>2, <2>3, <2>4, LinesKept DEF LinesInv
<1>3. QED
  BY <1>1, <1>2

\* A thread's steps.  It begins on a fresh line, since nobody else prints,
\* and with a row that no line has shown; it goes on where it left off, and
\* leaves a complete line.
LEMMA ThreadKeepsLines ==
  ASSUME IInv, LinesInv, NEW t \in Threads, Thread(t)
  PROVE  LinesInv'
<1> USE BoundsAssumption
<1>1. UNCHANGED <<thread_num, i, pc, queryChar>>
  BY DEF Thread, Analyse, Lock, Write, Unlock
<1>2. RowsInv'
  BY <1>1 DEF LinesInv, RowsInv
<1>3. tpc[t] \in Alive /\ t + 1 \in 1 .. Len(queryChar) /\ pc \in {"create", "join"}
  BY DEF Thread, Analyse, Lock, Write, Unlock, Alive, Running, IInv, PcInv, TypeInv, CreatedInv,
         JoinedInv, LinesInv, RowsInv, Threads
<1>4. RowOf(t) \in RowSet /\ RowOf(t)[1] = t
  BY <1>3 DEF LinesInv, RowsInv, RowOf, Threads
<1>5. CASE Analyse(t)
  <2>1. /\ tpc[t] = "analyse" /\ tpc' = [tpc EXCEPT ![t] = "lock"]
        /\ ql' = [ql EXCEPT ![t] = RowOf(t)] /\ UNCHANGED <<written, out>>
    BY <1>5 DEF Analyse, Goto
  <2>2. ResultInv'
    BY <1>1, <1>4, <2>1 DEF LinesInv, ResultInv, IInv, TypeInv, RowOf
  <2>3. OutInv' /\ LineInv'
    BY <1>1, <2>1 DEF LinesInv, ResultInv, OutInv, LineInv, IInv, TypeInv
  <2>4. LinesWhole'
    BY <1>1, <2>1 DEF LinesInv, LinesWhole
  <2>5. QED
    BY <1>2, <2>2, <2>3, <2>4 DEF LinesInv
<1>6. CASE Lock(t)
  <2>1. /\ tpc[t] = "lock" /\ mutex = "free" /\ tpc' = [tpc EXCEPT ![t] = "print"]
        /\ UNCHANGED <<ql, written, out>>
    BY <1>6 DEF Lock, MayLock, Goto
  <2>2. \A u \in Threads : tpc[u] # "print"
    BY <2>1 DEF IInv, HolderInv
  <2>3. ResultInv'
    BY <1>1, <2>1 DEF LinesInv, ResultInv, IInv, TypeInv
  <2>4. OutInv'
    BY <1>1, <2>1 DEF LinesInv, OutInv, IInv, TypeInv
  <2>5. LineInv'
    <3>1. Len(out) \in Nat /\ Len(out) % Pieces = 0 /\ written[t] = 0
      BY <2>1, <2>2 DEF LinesInv, LineInv, ResultInv, OutInv
    <3>2. \A k \in 1 .. Len(out) : out[k][1][1] # t
      BY <2>1 DEF LinesInv, OutInv
    <3>3. \A u \in Threads : tpc'[u] = "print" => u = t
      BY <2>1, <2>2 DEF IInv, TypeInv
    <3>4. tpc'[t] = "print"
      BY <2>1 DEF IInv, TypeInv
    <3>5. QED
      BY <2>1, <3>1, <3>2, <3>3, <3>4 DEF LineInv
  <2>6. LinesWhole'
    BY <1>1, <2>1 DEF LinesInv, LinesWhole
  <2>7. QED
    BY <1>2, <2>3, <2>4, <2>5, <2>6 DEF LinesInv
<1>7. CASE Write(t)
  <2> DEFINE b == Len(out) - written[t]
  <2>1. /\ tpc[t] = "print" /\ written[t] < Pieces
        /\ out' = Append(out, <<ql[t], written[t] + 1>>)
        /\ written' = [written EXCEPT ![t] = @ + 1]
        /\ UNCHANGED <<ql, tpc>>
    BY <1>7 DEF Write
  <2>2. ql[t] = RowOf(t) /\ written[t] \in 0 .. Pieces /\ Len(out) \in Nat
    BY <2>1 DEF LinesInv, ResultInv, OutInv, RowOf
  <2>3. b % Pieces = 0
    BY <2>1 DEF LinesInv, LineInv
  <2>4. /\ b \in Nat
        /\ \A k \in 1 .. b : out[k][1][1] # t
        /\ \A k \in 1 .. Len(out) : k > b => out[k] = <<ql[t], k - b>>
    BY <2>1 DEF LinesInv, LineInv
  <2>5. Len(out) = b + written[t]
    BY <2>2, <2>4
  <2>6. out \in Seq(RowSet \X Nat)
    BY DEF LinesInv, OutInv
  <2>7. out' \in Seq(RowSet \X Nat)
    BY <1>4, <2>1, <2>2, <2>6
  <2>8. /\ Len(out') = Len(out) + 1
        /\ \A k \in 1 .. Len(out) : out'[k] = out[k]
        /\ out'[Len(out) + 1] = <<ql[t], written[t] + 1>>
    BY <1>4, <2>1, <2>2, <2>6
  <2>9. Len(out') - written'[t] = b
    BY <2>1, <2>2, <2>8 DEF LinesInv, ResultInv
  <2> HIDE DEF b
  <2>10. ResultInv'
    BY <1>1, <2>1, <2>2 DEF LinesInv, ResultInv
  <2>11. OutInv'
    BY <1>1, <1>4, <2>1, <2>2, <2>7, <2>8 DEF LinesInv, OutInv, RowOf
  <2>12. LineInv'
    <3>1. \A u \in Threads : tpc'[u] = "print" => u = t
      BY <2>1 DEF IInv, HolderInv
    <3>2. ASSUME NEW k \in 1 .. b PROVE out'[k][1][1] # t
      <4>1. out[k][1][1] # t
        BY <2>4
      <4>2. k \in 1 .. Len(out)
        BY <2>2, <2>4, <2>5
      <4>3. QED
        BY <2>8, <4>1, <4>2
    <3>3. ASSUME NEW k \in 1 .. Len(out'), k > b PROVE out'[k] = <<ql[t], k - b>>
      <4>1. CASE k \in 1 .. Len(out)
        BY <2>4, <2>8, <3>3, <4>1
      <4>2. CASE k = Len(out) + 1
        <5>1. k - b = written[t] + 1
          BY <2>2, <2>4, <2>5, <4>2
        <5>2. QED
          BY <2>8, <4>2, <5>1
      <4>3. QED
        BY <2>2, <2>8, <4>1, <4>2
    <3>4. QED
      BY <2>1, <2>3, <2>4, <2>9, <3>1, <3>2, <3>3 DEF LineInv
  <2>13. LinesWhole'
    <3> SUFFICES ASSUME NEW k \in 1 .. Len(out')
                 PROVE  LET first == k - ((k - 1) % Pieces)
                            line == out'[k][1]
                        IN  /\ out'[k] = <<out'[first][1], k - first + 1>>
                            /\ line = queryChar[line[1] + 1]
                            /\ \A m \in 1 .. first - 1 : out'[m][1] # line
      BY <1>1 DEF LinesWhole
    <3> DEFINE first == k - ((k - 1) % Pieces)
    <3>1. k \in Nat \ {0} /\ first \in 1 .. k
      BY <2>2, <2>8, FirstOfLine
    <3>2. CASE k <= Len(out)
      <4>1. /\ out[k] = <<out[first][1], k - first + 1>>
            /\ out[k][1] = queryChar[out[k][1][1] + 1]
            /\ \A m \in 1 .. first - 1 : out[m][1] # out[k][1]
        BY <2>2, <3>1, <3>2 DEF LinesInv, LinesWhole
      <4> HIDE DEF first
      <4>2. /\ out'[k] = out[k] /\ out'[first] = out[first]
            /\ \A m \in 1 .. first - 1 : out'[m] = out[m]
        BY <2>2, <2>8, <3>1, <3>2
      <4>3. /\ out'[k] = <<out'[first][1], k - first + 1>>
            /\ out'[k][1] = queryChar[out'[k][1][1] + 1]
            /\ \A m \in 1 .. first - 1 : out'[m][1] # out'[k][1]
        BY <4>1, <4>2
      <4>4. QED
        BY <4>3 DEF first
    <3>3. CASE k = Len(out) + 1
      <4>1. (b + written[t]) % Pieces = written[t]
        BY <2>1, <2>2, <2>3, <2>4, LineOffset
      <4>2. k - 1 = b + written[t]
        BY <2>2, <2>4, <2>5, <3>3
      <4>3. first = k - written[t]
        BY <4>1, <4>2
      <4> HIDE DEF first
      <4>4. first = b + 1
        BY <2>2, <2>4, <4>2, <4>3, <3>1
      <4>5. out'[k] = <<ql[t], written[t] + 1>>
        BY <2>8, <3>3
      <4>6. out'[first][1] = ql[t]
        BY <2>2, <2>4, <2>5, <2>8, <3>3, <4>4
      <4>7. ASSUME NEW m \in 1 .. b PROVE out'[m][1][1] # ql[t][1]
        <5>1. out[m][1][1] # t
          BY <2>4
        <5>2. m \in 1 .. Len(out)
          BY <2>2, <2>4, <2>5
        <5>3. QED
          BY <1>4, <2>2, <2>8, <5>1, <5>2
      <4>8. ql[t] = queryChar[ql[t][1] + 1]
        BY <1>4, <2>2 DEF RowOf
      <4>9. k - first + 1 = written[t] + 1 /\ first - 1 = b
        BY <2>2, <2>4, <3>1, <4>2, <4>4
      <4>10. /\ out'[k] = <<out'[first][1], k - first + 1>>
             /\ out'[k][1] = queryChar[out'[k][1][1] + 1]
             /\ \A m \in 1 .. first - 1 : out'[m][1] # out'[k][1]
        BY <4>5, <4>6, <4>7, <4>8, <4>9
      <4>11. QED
        BY <4>10 DEF first
    <3>4. QED
      BY <2>2, <2>8, <3>2, <3>3
  <2>14. QED
    BY <1>2, <2>10, <2>11, <2>12, <2>13 DEF LinesInv
<1>8. CASE Unlock(t)
  <2>1. /\ tpc[t] = "print" /\ written[t] = Pieces /\ tpc' = [tpc EXCEPT ![t] = "ended"]
        /\ UNCHANGED <<ql, written, out>>
    BY <1>8 DEF Unlock, Goto
  <2>2. ResultInv' /\ OutInv'
    BY <1>1, <2>1 DEF LinesInv, ResultInv, OutInv, IInv, TypeInv
  <2>3. Len(out) % Pieces = 0
    <3>1. /\ Len(out) - written[t] \in Nat /\ (Len(out) - written[t]) % Pieces = 0
          /\ Len(out) \in Nat
      BY <2>1 DEF LinesInv, LineInv, OutInv
    <3>2. Pieces \in 0 .. Pieces
      OBVIOUS
    <3>3. ((Len(out) - written[t]) + Pieces) % Pieces = 0
      BY <3>1, <3>2, LineOffset
    <3>4. (Len(out) - written[t]) + Pieces = Len(out)
      BY <2>1, <3>1
    <3>5. QED
      BY <3>3, <3>4
  <2>4. \A u \in Threads : tpc'[u] # "print"
    BY <2>1 DEF IInv, HolderInv, TypeInv
  <2>5. LineInv'
    BY <2>1, <2>3, <2>4 DEF LineInv
  <2>6. LinesWhole'
    BY <1>1, <2>1 DEF LinesInv, LinesWhole
  <2>7. QED
    BY <1>2, <2>2, <2>5, <2>6 DEF LinesInv
<1>9. QED
  BY <1>5, <1>6, <1>7, <1>8 DEF Thread

\* Lines stay whole for any number of threads, rows and parts of a line: the
\* mutex keeps each from its first part to its last, every line shows the row
\* that main made for its thread, and none is shown twice.
THEOREM PrintsWholeLines == Spec => []LinesWhole
<1>1. IInv /\ LinesInv /\ [Next]_vars => LinesInv'
  <2>1. LinesInv /\ UNCHANGED vars => LinesInv'
    BY DEF vars, LinesInv, RowsInv, ResultInv, OutInv, LineInv, LinesWhole
  <2>2. QED
    BY <2>1, MainKeepsLines, ThreadKeepsLines DEF Next, Ended
<1>2. LinesInv => LinesWhole
  BY DEF LinesInv
<1>3. QED
  BY <1>1, <1>2, IInvInit, IInvStep, LinesInit, PTL DEF Spec
=============================================================================
