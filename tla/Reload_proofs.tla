--------------------------- MODULE Reload_proofs ---------------------------
(***************************************************************************)
(* Proofs about the configuration of the nginx module across reloads, for  *)
(* any configurations, nested to any depth, and any number of cycles and   *)
(* requests.                                                               *)
(***************************************************************************)
EXTENDS Reload, Integers, FiniteSetsExt, SequenceTheorems, WellFoundedInduction, TLAPS

-----------------------------------------------------------------------------
(* Induction, by the least counterexample, and the largest element.        *)

\* Every non-empty set of naturals has a least element, which Min chooses.
LEMMA MinOfNats ==
  ASSUME NEW S \in SUBSET Nat, S # {}
  PROVE  Min(S) \in S /\ \A y \in S : Min(S) <= y
<1> DEFINE Less == {p \in Nat \X Nat : p[1] < p[2]}
<1>1. IsWellFoundedOn(Less, Nat)
  BY NatLessThanWellFounded DEF OpToRel
<1>2. PICK x \in S : \A y \in S : <<y, x>> \notin Less
  BY <1>1, WFMin
<1>3. ASSUME NEW y \in S PROVE x <= y
  <2>1. <<y, x>> \in Nat \X Nat /\ <<y, x>>[1] = y /\ <<y, x>>[2] = x
    OBVIOUS
  <2>2. ~(y < x)
    BY <1>2, <2>1
  <2>3. QED
    BY <2>2
<1>4. QED
  BY <1>3 DEF Min

\* A set of naturals with 0 in it and with every successor is all of Nat.
LEMMA Induction ==
  ASSUME NEW S, 0 \in S, \A n \in Nat : n \in S => n + 1 \in S
  PROVE  Nat \subseteq S
<1> DEFINE bad == {n \in Nat : n \notin S}
<1> SUFFICES ASSUME bad # {} PROVE FALSE
  OBVIOUS
<1>1. Min(bad) \in bad /\ \A y \in bad : Min(bad) <= y
  BY MinOfNats
<1>2. Min(bad) \in Nat \ {0}
  BY <1>1
<1>3. Min(bad) - 1 \in Nat /\ Min(bad) - 1 \notin bad
  BY <1>1, <1>2
<1>4. (Min(bad) - 1) + 1 \in S
  BY <1>3
<1>5. QED
  BY <1>1, <1>2, <1>4

\* A bounded, non-empty set of naturals has a largest element, which Max
\* chooses.
LEMMA MaxOfNats ==
  ASSUME NEW S \in SUBSET Nat, S # {}, NEW n \in Nat, \A x \in S : x <= n
  PROVE  /\ Max(S) \in S
         /\ \A y \in S : y <= Max(S)
<1> DEFINE D == {n - x : x \in S}
<1>1. D \in SUBSET Nat /\ D # {}
  <2>1. \A x \in S : n - x \in Nat
    OBVIOUS
  <2>2. PICK x \in S : TRUE
    OBVIOUS
  <2>3. n - x \in D
    OBVIOUS
  <2>4. QED
    BY <2>1, <2>3
<1>2. Min(D) \in D /\ \A y \in D : Min(D) <= y
  BY <1>1, MinOfNats
<1>3. PICK m \in S : Min(D) = n - m
  BY <1>2
<1>4. ASSUME NEW y \in S PROVE m >= y
  <2>1. n - y \in D
    OBVIOUS
  <2>2. n - m <= n - y
    BY <1>2, <1>3, <2>1
  <2>3. QED
    BY <2>2
<1>5. Max(S) \in S /\ \A y \in S : Max(S) >= y
  BY <1>4 DEF Max
<1>6. QED
  BY <1>5

\* There is one largest element.
LEMMA MaxIs ==
  ASSUME NEW S \in SUBSET Nat, NEW m \in S, \A x \in S : x <= m
  PROVE  Max(S) = m
<1>1. m \in Nat /\ S # {}
  OBVIOUS
<1>2. Max(S) \in S /\ m <= Max(S)
  BY <1>1, MaxOfNats
<1>3. Max(S) \in Nat /\ Max(S) <= m
  BY <1>2
<1>4. QED
  BY <1>1, <1>2, <1>3

-----------------------------------------------------------------------------
(* The reference: which file applies to a location.                        *)

\* What the function that Around is defined by does: up from location j to
\* the one around it.
Climbs(c, k, f) ==
  /\ f = [j \in 0 .. k |-> f[j]]
  /\ \A j \in 0 .. k : f[j] = IF j = 0 THEN {} ELSE {j} \cup f[c[j].parent]

\* Locations and what they say.
LEMMA LocationType ==
  ASSUME NEW c \in Configs
  PROVE  /\ c \in Seq(Locations) /\ Len(c) \in Nat
         /\ \A k \in 1 .. Len(c) : c[k].parent \in 0 .. k - 1 /\ c[k].conf_file \in Values
<1>1. c \in Seq(Locations)
  BY ConfigsAssumption
<1>2. ASSUME NEW k \in 1 .. Len(c)
      PROVE  c[k].parent \in 0 .. k - 1 /\ c[k].conf_file \in Values
  <2>1. c[k] \in Locations /\ k \in Nat
    BY <1>1, ElementOfSeq, LenProperties
  <2>2. c[k].parent < k
    BY ConfigsAssumption
  <2>3. c[k].parent \in Nat /\ c[k].conf_file \in Values
    BY <2>1 DEF Locations
  <2>4. QED
    BY <2>1, <2>2, <2>3
<1>3. QED
  BY <1>1, <1>2

\* The function exists, since every location comes after the one around it.
LEMMA ClimbExists ==
  ASSUME NEW c \in Configs, NEW k \in 0 .. Len(c)
  PROVE  \E f : Climbs(c, k, f)
<1> DEFINE S == {n \in Nat : n <= Len(c) => \E f : Climbs(c, n, f)}
<1>1. 0 \in S
  <2>1. Climbs(c, 0, [j \in 0 .. 0 |-> {}])
    BY DEF Climbs
  <2>2. QED
    BY <2>1
<1>2. ASSUME NEW n \in Nat, n \in S PROVE n + 1 \in S
  <2> SUFFICES ASSUME n + 1 <= Len(c) PROVE \E f : Climbs(c, n + 1, f)
    OBVIOUS
  <2>1. PICK f : Climbs(c, n, f)
    BY <1>2, LocationType
  <2> DEFINE g == [j \in 0 .. n + 1 |-> IF j = 0 THEN {} ELSE {j} \cup f[c[j].parent]]
  <2>2. ASSUME NEW j \in 0 .. n PROVE g[j] = f[j]
    <3>1. g[j] = IF j = 0 THEN {} ELSE {j} \cup f[c[j].parent]
      OBVIOUS
    <3>2. QED
      BY <2>1, <3>1 DEF Climbs
  <2>3. ASSUME NEW j \in 1 .. n + 1 PROVE c[j].parent \in 0 .. n
    <3>1. j \in 1 .. Len(c)
      BY LocationType
    <3>2. c[j].parent \in 0 .. j - 1
      BY <3>1, LocationType
    <3>3. QED
      BY <3>2
  <2>4. \A j \in 0 .. n + 1 : g[j] = IF j = 0 THEN {} ELSE {j} \cup f[c[j].parent]
    OBVIOUS
  <2>5. g = [j \in 0 .. n + 1 |-> g[j]]
    OBVIOUS
  <2> HIDE DEF g
  <2>6. \A j \in 1 .. n + 1 : f[c[j].parent] = g[c[j].parent]
    BY <2>2, <2>3
  <2>7. \A j \in 0 .. n + 1 : g[j] = IF j = 0 THEN {} ELSE {j} \cup g[c[j].parent]
    <3> TAKE j \in 0 .. n + 1
    <3>1. CASE j = 0
      BY <2>4, <3>1
    <3>2. CASE j # 0
      <4>1. j \in 1 .. n + 1
        BY <3>2
      <4>2. QED
        BY <2>4, <2>6, <3>2, <4>1
    <3>3. QED
      BY <3>1, <3>2
  <2>8. Climbs(c, n + 1, g)
    BY <2>5, <2>7 DEF Climbs
  <2>9. QED
    BY <2>8
<1> HIDE DEF S
<1>3. Nat \subseteq S
  BY <1>1, <1>2, Induction
<1>4. k \in Nat /\ k <= Len(c)
  BY LocationType
<1>5. QED
  BY <1>3, <1>4 DEF S

\* It is the same function however far it is defined.
LEMMA ClimbUnique ==
  ASSUME NEW c \in Configs, NEW k \in 0 .. Len(c), NEW m \in 0 .. k, NEW f, NEW g,
         Climbs(c, k, f), Climbs(c, m, g)
  PROVE  f[m] = g[m]
<1> DEFINE bad == {j \in 0 .. m : f[j] # g[j]}
<1>1. k \in Nat /\ m \in Nat /\ m <= k /\ k <= Len(c) /\ Len(c) \in Nat
  BY LocationType
<1> SUFFICES ASSUME bad # {} PROVE FALSE
  BY <1>1
<1>2. bad \in SUBSET Nat
  OBVIOUS
<1>3. PICK j \in bad : \A y \in bad : j <= y
  BY <1>2, MinOfNats
<1>4. j \in 0 .. m /\ j \in 0 .. k
  BY <1>1, <1>3
<1>5. /\ f[j] = IF j = 0 THEN {} ELSE {j} \cup f[c[j].parent]
      /\ g[j] = IF j = 0 THEN {} ELSE {j} \cup g[c[j].parent]
  BY <1>4 DEF Climbs
<1>6. j # 0
  BY <1>3, <1>5
<1>7. c[j].parent \in 0 .. j - 1
  <2>1. j \in 1 .. Len(c)
    BY <1>1, <1>4, <1>6
  <2>2. QED
    BY <2>1, LocationType
<1>8. c[j].parent \in 0 .. m /\ ~(j <= c[j].parent)
  BY <1>1, <1>4, <1>7
<1>9. f[c[j].parent] = g[c[j].parent]
  BY <1>3, <1>8
<1>10. QED
  BY <1>3, <1>5, <1>9

\* Around is what that function gives.
LEMMA AroundClimbs ==
  ASSUME NEW c \in Configs, NEW k \in 0 .. Len(c)
  PROVE  \E f : Climbs(c, k, f) /\ Around(c, k) = f[k]
<1> DEFINE Def(f) == [j \in 0 .. k |-> IF j = 0 THEN {} ELSE {j} \cup f[c[j].parent]]
           up == CHOOSE f : f = Def(f)
<1>1. PICK f : Climbs(c, k, f)
  BY ClimbExists
<1>2. f = Def(f)
  BY <1>1 DEF Climbs
<1>3. up = Def(up)
  BY <1>2
<1>4. Around(c, k) = up[k]
  BY DEF Around
<1> HIDE DEF up
<1>5. up = [j \in 0 .. k |-> up[j]]
  BY <1>3
<1>6. \A j \in 0 .. k : up[j] = IF j = 0 THEN {} ELSE {j} \cup up[c[j].parent]
  BY <1>3
<1>7. Climbs(c, k, up)
  BY <1>5, <1>6 DEF Climbs
<1>8. QED
  BY <1>4, <1>7

\* Around a location are itself and what is around its parent; around 0,
\* nothing.
LEMMA AroundStep ==
  ASSUME NEW c \in Configs
  PROVE  /\ Around(c, 0) = {}
         /\ \A k \in 1 .. Len(c) : Around(c, k) = {k} \cup Around(c, c[k].parent)
<1>1. Around(c, 0) = {}
  <2>1. 0 \in 0 .. Len(c)
    BY LocationType
  <2>2. PICK f : Climbs(c, 0, f) /\ Around(c, 0) = f[0]
    BY <2>1, AroundClimbs
  <2>3. QED
    BY <2>2 DEF Climbs
<1>2. ASSUME NEW k \in 1 .. Len(c) PROVE Around(c, k) = {k} \cup Around(c, c[k].parent)
  <2>1. /\ k \in 0 .. Len(c) /\ k # 0 /\ c[k].parent \in 0 .. k
        /\ c[k].parent \in 0 .. Len(c) /\ k \in 0 .. k
    BY LocationType
  <2>2. PICK f : Climbs(c, k, f) /\ Around(c, k) = f[k]
    BY <2>1, AroundClimbs
  <2>3. PICK g : Climbs(c, c[k].parent, g) /\ Around(c, c[k].parent) = g[c[k].parent]
    BY <2>1, AroundClimbs
  <2>4. f[c[k].parent] = g[c[k].parent]
    BY <2>1, <2>2, <2>3, ClimbUnique
  <2>5. f[k] = {k} \cup f[c[k].parent]
    BY <2>1, <2>2 DEF Climbs
  <2>6. QED
    BY <2>2, <2>3, <2>4, <2>5
<1>3. QED
  BY <1>1, <1>2

\* What is around a location comes before it.
LEMMA AroundBelow ==
  ASSUME NEW c \in Configs, NEW k \in 0 .. Len(c)
  PROVE  Around(c, k) \subseteq 1 .. k
<1> DEFINE bad == {j \in 0 .. Len(c) : ~(Around(c, j) \subseteq 1 .. j)}
<1>1. Len(c) \in Nat
  BY LocationType
<1> SUFFICES ASSUME bad # {} PROVE FALSE
  OBVIOUS
<1>2. bad \in SUBSET Nat
  OBVIOUS
<1>3. PICK j \in bad : \A y \in bad : j <= y
  BY <1>2, MinOfNats
<1>4. j # 0
  BY <1>3, AroundStep
<1>5. j \in 1 .. Len(c)
  BY <1>1, <1>3, <1>4
<1>6. c[j].parent \in 0 .. j - 1
  BY <1>5, LocationType
<1>7. c[j].parent \in 0 .. Len(c) /\ ~(j <= c[j].parent)
  BY <1>1, <1>5, <1>6
<1>8. Around(c, c[j].parent) \subseteq 1 .. c[j].parent
  BY <1>3, <1>7
<1>9. Around(c, j) = {j} \cup Around(c, c[j].parent)
  BY <1>5, AroundStep
<1>10. 1 .. c[j].parent \subseteq 1 .. j /\ j \in 1 .. j
  BY <1>5, <1>6
<1>11. QED
  BY <1>3, <1>8, <1>9, <1>10

\* The reference says what ngx_conf_merge_str_value computes: a location's
\* own directive, or else what applies to the location around it, or "".
LEMMA FileOfStep ==
  ASSUME NEW c \in Configs, NEW k \in 1 .. Len(c)
  PROVE  FileOf(c, k) = IF c[k].conf_file # "unset" THEN c[k].conf_file
                        ELSE IF c[k].parent = 0 THEN "" ELSE FileOf(c, c[k].parent)
<1> DEFINE set(n) == {j \in Around(c, n) : c[j].conf_file # "unset"}
<1>1. /\ k \in 0 .. Len(c) /\ k \in Nat /\ c[k].parent \in 0 .. k - 1
      /\ c[k].parent \in 0 .. Len(c)
  BY LocationType
<1>2. /\ Around(c, k) = {k} \cup Around(c, c[k].parent)
      /\ Around(c, k) \subseteq 1 .. k /\ Around(c, 0) = {}
  BY <1>1, AroundStep, AroundBelow
<1>3. \A n : FileOf(c, n) = IF set(n) = {} THEN "" ELSE c[Max(set(n))].conf_file
  BY DEF FileOf
<1>4. CASE c[k].conf_file # "unset"
  <2>1. k \in set(k) /\ set(k) \in SUBSET Nat /\ \A x \in set(k) : x <= k
    BY <1>1, <1>2, <1>4
  <2>2. Max(set(k)) = k
    BY <2>1, MaxIs
  <2>3. QED
    BY <1>3, <1>4, <2>1, <2>2
<1>5. CASE c[k].conf_file = "unset"
  <2>1. set(k) = set(c[k].parent)
    BY <1>2, <1>5
  <2>2. FileOf(c, k) = FileOf(c, c[k].parent)
    BY <1>3, <2>1
  <2>3. c[k].parent = 0 => FileOf(c, k) = ""
    BY <1>2, <1>3, <2>1
  <2>4. QED
    BY <1>5, <2>2, <2>3
<1>6. QED
  BY <1>4, <1>5

-----------------------------------------------------------------------------
(* The master's side.                                                      *)

Loading == {"merge", "init", "cleanup", "undefined"}

TypeInv ==
  /\ config \in Seq(Configs)
  /\ current \in 0 .. Newest
  /\ merged \in Seq(Values)
  /\ TEST_LOC_CONF \in Nat \X Nat
  /\ test_data \subseteq Nat \X Nat
  /\ phase \in Loading \cup {"idle", "exited"}

\* A cycle that is being loaded is a new one, with its pool.
NewInv == phase \in Loading => Newest > current /\ Newest \in pools

\* What has been merged is what the reference says, location by location.
MergedInv ==
  phase \in Loading =>
    /\ IF phase = "merge" THEN Len(merged) <= Len(config[Newest])
                          ELSE Len(merged) = Len(config[Newest])
    /\ \A j \in 1 .. Len(merged) : merged[j] = FileOf(config[Newest], j)

\* TEST_LOC_CONF leads to the last location merged with a file, or if none
\* was, to where an older cycle has left it.
Pointed ==
  \/ /\ TEST_LOC_CONF[1] = Newest
     /\ TEST_LOC_CONF[2] \in 1 .. Len(merged) /\ merged[TEST_LOC_CONF[2]] # ""
     /\ \A j \in 1 .. Len(merged) : merged[j] # "" => j <= TEST_LOC_CONF[2]
  \/ /\ TEST_LOC_CONF[1] < Newest
     /\ \A j \in 1 .. Len(merged) : merged[j] = ""
PointerInv ==
  /\ phase = "idle" => TEST_LOC_CONF[1] <= Newest
  /\ phase \in Loading => Pointed

\* The locations of a cycle that hold a test_data, and the one that should.
DataOf(n) == {d[2] : d \in {e \in test_data : e[1] = n}}
LastOf(c) == IF WithFile(c) = {} THEN {} ELSE {Max(WithFile(c))}

\* No test_data precedes its cycle, and each cycle's is the right one from
\* init_module until the next cycle replaces it.
DataInv ==
  /\ phase \in {"idle", "cleanup"} => \A d \in test_data : d[1] <= Newest
  /\ phase \in {"merge", "init"} => \A d \in test_data : d[1] < Newest
  /\ phase = "cleanup" => DataOf(Newest) = LastOf(config[Newest])
  /\ phase \in {"idle", "merge", "init"} /\ current # 0 =>
       DataOf(current) = LastOf(config[current])

ConfInv == TypeInv /\ NewInv /\ MergedInv /\ PointerInv /\ DataInv /\ DanglingOnlyWithoutFile

\* Before the first configuration.
LEMMA ConfInit == Init => ConfInv
<1> SUFFICES ASSUME Init PROVE ConfInv
  OBVIOUS
<1>1. config \in Seq(Configs) /\ merged \in Seq(Values) /\ Len(config) = 0
  BY DEF Init
<1>2. QED
  BY <1>1 DEF Init, ConfInv, TypeInv, NewInv, MergedInv, PointerInv, DataInv,
      DanglingOnlyWithoutFile, Loading, NoConf, Newest

\* When everything is merged, TEST_LOC_CONF leads to the last location that a
\* file applies to, or none does.
LEMMA PointsAtLast ==
  ASSUME TypeInv, NewInv, MergedInv, Pointed, phase \in Loading \ {"merge"}
  PROVE  /\ TEST_LOC_CONF[1] = Newest =>
              LastOf(config[Newest]) = {TEST_LOC_CONF[2]} /\ WithFile(config[Newest]) # {}
         /\ TEST_LOC_CONF[1] # Newest => WithFile(config[Newest]) = {}
<1> DEFINE c == config[Newest]
<1>1. Newest \in Nat /\ Newest > 0 /\ TEST_LOC_CONF[1] \in Nat /\ TEST_LOC_CONF[2] \in Nat
  BY DEF TypeInv, NewInv, Newest
<1>2. c \in Configs
  BY <1>1, ElementOfSeq DEF TypeInv, Newest
<1>3. /\ Len(merged) = Len(c) /\ Len(c) \in Nat
      /\ \A j \in 1 .. Len(c) : merged[j] = FileOf(c, j)
  BY <1>2, LocationType DEF MergedInv
<1> HIDE DEF c
<1>4. WithFile(c) = {j \in 1 .. Len(c) : merged[j] # ""}
  BY <1>3 DEF WithFile
<1>5. ASSUME TEST_LOC_CONF[1] = Newest PROVE LastOf(c) = {TEST_LOC_CONF[2]} /\ WithFile(c) # {}
  <2>1. /\ TEST_LOC_CONF[2] \in WithFile(c)
        /\ \A j \in WithFile(c) : j <= TEST_LOC_CONF[2]
    <3>1. ~(TEST_LOC_CONF[1] < Newest)
      BY <1>1, <1>5
    <3>2. /\ TEST_LOC_CONF[2] \in 1 .. Len(c) /\ merged[TEST_LOC_CONF[2]] # ""
          /\ \A j \in 1 .. Len(c) : merged[j] # "" => j <= TEST_LOC_CONF[2]
      BY <1>3, <3>1 DEF Pointed
    <3>3. QED
      BY <1>4, <3>2
  <2>2. WithFile(c) \in SUBSET Nat
    <3>1. WithFile(c) \subseteq 1 .. Len(c)
      BY <1>4
    <3>2. 1 .. Len(c) \subseteq Nat
      BY <1>3
    <3>3. QED
      BY <3>1, <3>2
  <2>3. Max(WithFile(c)) = TEST_LOC_CONF[2]
    BY <2>1, <2>2, MaxIs
  <2>4. QED
    BY <2>1, <2>3 DEF LastOf
<1>6. ASSUME TEST_LOC_CONF[1] # Newest PROVE WithFile(c) = {}
  BY <1>1, <1>3, <1>4, <1>6 DEF Pointed
<1>7. QED
  BY <1>5, <1>6 DEF c

\* TEST_LOC_CONF never leads to a cycle that has not begun.
LEMMA PointerBound ==
  ASSUME TypeInv, Pointed
  PROVE  TEST_LOC_CONF[1] \in Nat /\ Newest \in Nat /\ TEST_LOC_CONF[1] <= Newest
<1>1. TEST_LOC_CONF[1] \in Nat /\ Newest \in Nat
  BY DEF TypeInv, Newest
<1>2. TEST_LOC_CONF[1] = Newest \/ TEST_LOC_CONF[1] < Newest
  BY Zenon DEF Pointed
<1>3. QED
  BY <1>1, <1>2

\* ngx_init_cycle begins: nothing of the new cycle is merged yet.
LEMMA ConfigureKeeps == ConfInv /\ Configure => ConfInv'
<1> SUFFICES ASSUME ConfInv, Configure PROVE ConfInv'
  OBVIOUS
<1>1. PICK c \in Configs : config' = Append(config, c)
  BY DEF Configure
<1>2. /\ phase = "idle" /\ phase' = "merge" /\ merged' = <<>>
      /\ pools' = pools \cup {Newest + 1}
      /\ UNCHANGED <<current, TEST_LOC_CONF, test_data>>
  BY DEF Configure
<1>3. /\ config \in Seq(Configs) /\ Newest \in Nat /\ current \in 0 .. Newest
      /\ TEST_LOC_CONF \in Nat \X Nat /\ test_data \subseteq Nat \X Nat
  BY DEF ConfInv, TypeInv, Newest
<1>4. /\ config' \in Seq(Configs) /\ Newest' = Newest + 1 /\ config'[Newest + 1] = c
      /\ \A n \in 1 .. Newest : config'[n] = config[n]
  BY <1>1, <1>3 DEF Newest
<1>5. merged' \in Seq(Values) /\ Len(merged') = 0
  BY <1>2
<1>6. TypeInv'
  BY <1>2, <1>3, <1>4, <1>5 DEF TypeInv, Loading
<1>7. NewInv'
  BY <1>2, <1>3, <1>4 DEF NewInv
<1>8. MergedInv'
  <2>1. Len(c) \in Nat
    BY LocationType
  <2>2. QED
    BY <1>2, <1>4, <1>5, <2>1 DEF MergedInv
<1>9. PointerInv'
  <2>1. TEST_LOC_CONF[1] \in Nat /\ TEST_LOC_CONF[1] <= Newest
    BY <1>2, <1>3 DEF ConfInv, PointerInv
  <2>2. TEST_LOC_CONF'[1] < Newest'
    BY <1>2, <1>3, <1>4, <2>1
  <2>3. \A j \in 1 .. Len(merged') : merged'[j] = ""
    <3>1. 1 .. Len(merged') = {}
      BY <1>5
    <3>2. QED
      BY <3>1
  <2>4. Pointed'
    BY <2>2, <2>3 DEF Pointed
  <2>5. QED
    BY <1>2, <2>4 DEF PointerInv
<1>10. DataInv'
  <2>1. \A d \in test_data : d[1] \in Nat /\ d[1] < Newest + 1
    BY <1>2, <1>3 DEF ConfInv, DataInv
  <2>2. current # 0 => config'[current] = config[current] /\ DataOf(current) = LastOf(config[current])
    BY <1>2, <1>3, <1>4 DEF ConfInv, DataInv
  <2>3. DataOf(current)' = DataOf(current)
    BY <1>2 DEF DataOf
  <2>4. QED
    BY <1>2, <1>4, <2>1, <2>2, <2>3 DEF DataInv
<1>11. DanglingOnlyWithoutFile'
  BY <1>2 DEF DanglingOnlyWithoutFile
<1>12. QED
  BY <1>6, <1>7, <1>8, <1>9, <1>10, <1>11 DEF ConfInv

\* ngx_http_test_merge_loc_conf computes the file that applies to the next
\* location, and TEST_LOC_CONF follows it if there is one.
LEMMA MergeKeeps == ConfInv /\ MergeLocConf => ConfInv'
<1> SUFFICES ASSUME ConfInv, MergeLocConf PROVE ConfInv'
  OBVIOUS
<1> DEFINE c == config[Newest]
           k == Len(merged) + 1
           value == Inherited(c[k])
<1>1. /\ phase = "merge" /\ Len(merged) < Len(c)
      /\ TEST_LOC_CONF' = PointsAt(value) /\ merged' = Append(merged, value)
      /\ UNCHANGED <<config, pools, current, test_data, phase>>
  BY DEF MergeLocConf
<1>2. /\ config \in Seq(Configs) /\ Newest \in Nat /\ Newest > current /\ current \in Nat
      /\ merged \in Seq(Values) /\ Len(merged) \in Nat /\ TEST_LOC_CONF \in Nat \X Nat
  BY <1>1 DEF ConfInv, TypeInv, NewInv, Newest, Loading
<1>3. c \in Configs /\ Len(c) \in Nat
  <2>1. Newest \in 1 .. Len(config)
    BY <1>2 DEF Newest
  <2>2. c \in Configs
    BY <1>2, <2>1, ElementOfSeq
  <2>3. QED
    BY <2>2, LocationType
<1>4. \A j \in 1 .. Len(merged) : merged[j] = FileOf(c, j)
  BY <1>1 DEF ConfInv, MergedInv, Loading
<1> HIDE DEF c
<1>5. k \in 1 .. Len(c) /\ c[k].parent \in 0 .. Len(merged) /\ c[k].conf_file \in Values
  <2>1. k \in 1 .. Len(c)
    BY <1>1, <1>2, <1>3
  <2>2. c[k].parent \in 0 .. k - 1 /\ c[k].conf_file \in Values
    BY <1>3, <2>1, LocationType
  <2>3. QED
    BY <1>2, <2>1, <2>2
<1>6. value = FileOf(c, k)
  <2>1. c[k].parent # 0 => merged[c[k].parent] = FileOf(c, c[k].parent)
    BY <1>2, <1>4, <1>5
  <2>2. FileOf(c, k) = IF c[k].conf_file # "unset" THEN c[k].conf_file
                       ELSE IF c[k].parent = 0 THEN "" ELSE FileOf(c, c[k].parent)
    BY <1>3, <1>5, FileOfStep
  <2>3. QED
    BY <2>1, <2>2 DEF Inherited
<1>7. value \in Values
  <2>1. c[k].parent # 0 => merged[c[k].parent] \in Values
    BY <1>2, <1>5, ElementOfSeq
  <2>2. QED
    BY <1>5, <2>1 DEF Inherited, Values
<1> HIDE DEF value
<1>8. /\ merged' \in Seq(Values) /\ Len(merged') = k /\ merged'[k] = value
      /\ \A j \in 1 .. Len(merged) : merged'[j] = merged[j]
  BY <1>1, <1>2, <1>7
<1>9. /\ TEST_LOC_CONF' = IF value # "" THEN <<Newest, k>> ELSE TEST_LOC_CONF
      /\ TEST_LOC_CONF' \in Nat \X Nat
  <2>1. TEST_LOC_CONF' = IF value # "" THEN <<Newest, k>> ELSE TEST_LOC_CONF
    BY <1>1 DEF PointsAt
  <2>2. <<Newest, k>> \in Nat \X Nat
    BY <1>2
  <2>3. QED
    BY <1>2, <2>1, <2>2
<1>10. TypeInv' /\ NewInv'
  BY <1>1, <1>8, <1>9 DEF ConfInv, TypeInv, NewInv, Newest
<1>11. MergedInv'
  <2>1. \A j \in 1 .. k : merged'[j] = FileOf(c, j)
    BY <1>2, <1>4, <1>6, <1>8
  <2>2. Len(merged') <= Len(c) /\ config'[Newest'] = c
    BY <1>1, <1>2, <1>3, <1>8 DEF c, Newest
  <2>3. QED
    BY <1>1, <1>8, <2>1, <2>2 DEF MergedInv
<1>12. PointerInv'
  <2>1. Pointed
    BY <1>1 DEF ConfInv, PointerInv, Loading
  <2>2. Pointed'
    <3>1. Newest' = Newest
      BY <1>1 DEF Newest
    <3>2. CASE value # ""
      <4>1. TEST_LOC_CONF'[1] = Newest /\ TEST_LOC_CONF'[2] = k
        BY <1>9, <3>2
      <4>2. k \in 1 .. k /\ \A j \in 1 .. k : j <= k
        BY <1>2
      <4>3. QED
        BY <1>8, <3>1, <3>2, <4>1, <4>2 DEF Pointed
    <3>3. CASE value = ""
      <4>1. TEST_LOC_CONF' = TEST_LOC_CONF
        BY <1>9, <3>3
      <4>2. \A j \in 1 .. k : j \in 1 .. Len(merged) \/ j = k
        BY <1>2
      <4>3. \A j \in 1 .. k : merged'[j] # "" => j \in 1 .. Len(merged) /\ merged'[j] = merged[j]
        BY <1>8, <3>3, <4>2
      <4>4. 1 .. Len(merged) \subseteq 1 .. k
        BY <1>2
      <4> HIDE DEF k
      <4>5. QED
        BY <1>8, <2>1, <3>1, <4>1, <4>3, <4>4 DEF Pointed
    <3>4. QED
      BY <3>2, <3>3
  <2>3. QED
    BY <1>1, <2>2 DEF PointerInv
<1>13. DataInv' /\ DanglingOnlyWithoutFile'
  BY <1>1 DEF ConfInv, DataInv, DataOf, DanglingOnlyWithoutFile, Newest
<1>14. QED
  BY <1>10, <1>11, <1>12, <1>13 DEF ConfInv

\* The cycle is accepted, or given up with its pool.
LEMMA VerdictKeeps == ConfInv /\ (CycleAccepted \/ CycleRejected) => ConfInv'
<1> SUFFICES ASSUME ConfInv, CycleAccepted \/ CycleRejected PROVE ConfInv'
  OBVIOUS
<1>1. CASE CycleAccepted
  <2>1. /\ phase = "merge" /\ phase' = "init" /\ Len(merged) = Len(config[Newest])
        /\ UNCHANGED <<config, pools, current, merged, TEST_LOC_CONF, test_data>>
    BY <1>1 DEF CycleAccepted
  <2>2. TypeInv' /\ NewInv'
    BY <2>1 DEF ConfInv, TypeInv, NewInv, Newest, Loading
  <2>3. MergedInv'
    BY <2>1 DEF ConfInv, MergedInv, Newest, Loading
  <2>4. PointerInv'
    BY <2>1 DEF ConfInv, PointerInv, Pointed, Newest, Loading
  <2>5. DataInv' /\ DanglingOnlyWithoutFile'
    BY <2>1 DEF ConfInv, DataInv, DataOf, DanglingOnlyWithoutFile, Newest
  <2>6. QED
    BY <2>2, <2>3, <2>4, <2>5 DEF ConfInv
<1>2. CASE CycleRejected
  <2>1. /\ phase = "merge" /\ phase' \in {"exited", "idle"}
        /\ test_data' = {d \in test_data : d[1] # Newest}
        /\ UNCHANGED <<config, current, merged, TEST_LOC_CONF>>
    BY <1>2 DEF CycleRejected
  <2>2. Newest \in Nat /\ current \in Nat /\ Newest # current /\ TEST_LOC_CONF[1] \in Nat
    BY <2>1 DEF ConfInv, TypeInv, NewInv, Newest, Loading
  <2>3. test_data' = test_data
    <3>1. \A d \in test_data : d[1] \in Nat /\ d[1] < Newest
      BY <2>1 DEF ConfInv, DataInv, TypeInv
    <3>2. \A d \in test_data : d[1] # Newest
      BY <2>2, <3>1
    <3>3. QED
      BY <2>1, <3>2
  <2>4. TypeInv'
    BY <2>1, <2>3 DEF ConfInv, TypeInv, Newest, Loading
  <2>5. NewInv' /\ MergedInv' /\ DanglingOnlyWithoutFile'
    BY <2>1 DEF NewInv, MergedInv, DanglingOnlyWithoutFile, Loading
  <2>6. PointerInv'
    <3>1. TEST_LOC_CONF[1] <= Newest
      BY <2>1, PointerBound DEF ConfInv, PointerInv, Loading
    <3>2. QED
      BY <2>1, <3>1 DEF PointerInv, Newest, Loading
  <2>7. DataInv'
    <3>1. \A d \in test_data : d[1] <= Newest
      BY <2>1, <2>2 DEF ConfInv, DataInv, TypeInv
    <3>2. QED
      BY <2>1, <2>3, <3>1 DEF ConfInv, DataInv, DataOf, Newest
  <2>8. QED
    BY <2>4, <2>5, <2>6, <2>7 DEF ConfInv
<1>3. QED
  BY <1>1, <1>2

\* init_module gives its test_data to the last location with a file; if there
\* is none, what it does to an older cycle's goes with that cycle.
LEMMA InitModuleKeeps == ConfInv /\ InitModule => ConfInv'
<1> SUFFICES ASSUME ConfInv, InitModule PROVE ConfInv'
  OBVIOUS
<1>1. /\ phase = "init" /\ phase' \in {"cleanup", "undefined"}
      /\ UNCHANGED <<config, pools, current, merged, TEST_LOC_CONF>>
  BY DEF InitModule
<1>2. /\ Newest \in Nat /\ current \in Nat /\ Newest > current /\ Newest \in pools
      /\ TEST_LOC_CONF \in Nat \X Nat /\ test_data \subseteq Nat \X Nat /\ Newest' = Newest
  BY <1>1 DEF ConfInv, TypeInv, NewInv, Newest, Loading
<1>3. Pointed
  BY <1>1 DEF ConfInv, PointerInv, Loading
<1>4. TEST_LOC_CONF[1] \in Nat /\ TEST_LOC_CONF[1] <= Newest
  BY <1>3, PointerBound DEF ConfInv
<1>5. /\ TEST_LOC_CONF[1] = Newest => LastOf(config[Newest]) = {TEST_LOC_CONF[2]}
      /\ TEST_LOC_CONF[1] # Newest => WithFile(config[Newest]) = {}
  BY <1>1, <1>3, PointsAtLast DEF ConfInv, Loading
<1>6. test_data' = test_data \/ test_data' = test_data \cup {TEST_LOC_CONF}
  BY DEF InitModule
<1>7. TypeInv' /\ NewInv' /\ MergedInv'
  BY <1>1, <1>2, <1>6 DEF ConfInv, TypeInv, NewInv, MergedInv, Newest, Loading
<1>8. PointerInv'
  BY <1>1, <1>2, <1>3 DEF PointerInv, Pointed
<1>9. DanglingOnlyWithoutFile'
  <2>1. phase' = "undefined" => TEST_LOC_CONF[1] \notin pools
    BY DEF InitModule
  <2>2. QED
    BY <1>1, <1>2, <1>5, <2>1 DEF DanglingOnlyWithoutFile
<1>10. DataInv'
  <2>1. \A d \in test_data : d[1] \in Nat /\ d[1] < Newest /\ d[1] # Newest
    BY <1>1, <1>2 DEF ConfInv, DataInv
  <2>2. \A d \in test_data' : d[1] <= Newest'
    BY <1>2, <1>4, <1>6, <2>1
  <2>3. ASSUME phase' = "cleanup" PROVE DataOf(Newest)' = LastOf(config[Newest])
    <3>1. CASE TEST_LOC_CONF[1] = Newest
      <4>1. test_data' = test_data \cup {TEST_LOC_CONF}
        BY <1>2, <2>3, <3>1 DEF InitModule, NoConf
      <4>2. {e \in test_data' : e[1] = Newest} = {TEST_LOC_CONF}
        BY <2>1, <3>1, <4>1
      <4>3. QED
        BY <1>2, <1>5, <3>1, <4>2 DEF DataOf
    <3>2. CASE TEST_LOC_CONF[1] # Newest
      <4>1. {e \in test_data' : e[1] = Newest} = {}
        BY <1>6, <2>1, <3>2
      <4>2. QED
        BY <1>2, <1>5, <3>2, <4>1 DEF DataOf, LastOf
    <3>3. QED
      BY <3>1, <3>2
  <2>4. QED
    BY <1>1, <1>2, <2>2, <2>3 DEF DataInv
<1>11. QED
  BY <1>7, <1>8, <1>9, <1>10 DEF ConfInv

\* The old cycle goes, with all that was kept for it.
LEMMA NewCycleKeeps == ConfInv /\ NewCycleRuns => ConfInv'
<1> SUFFICES ASSUME ConfInv, NewCycleRuns PROVE ConfInv'
  OBVIOUS
<1>1. /\ phase = "cleanup" /\ phase' = "idle" /\ current' = Newest
      /\ test_data' = {d \in test_data : d[1] # current}
      /\ UNCHANGED <<config, merged, TEST_LOC_CONF>>
  BY DEF NewCycleRuns
<1>2. /\ Newest \in Nat /\ current \in Nat /\ Newest > current /\ Newest' = Newest
      /\ TEST_LOC_CONF[1] \in Nat
  BY <1>1 DEF ConfInv, TypeInv, NewInv, Newest, Loading
<1>3. TypeInv'
  BY <1>1, <1>2 DEF ConfInv, TypeInv, Loading
<1>4. NewInv' /\ MergedInv' /\ DanglingOnlyWithoutFile'
  BY <1>1 DEF NewInv, MergedInv, DanglingOnlyWithoutFile, Loading
<1>5. PointerInv'
  <2>1. TEST_LOC_CONF[1] <= Newest
    BY <1>1, PointerBound DEF ConfInv, PointerInv, Loading
  <2>2. QED
    BY <1>1, <1>2, <2>1 DEF PointerInv, Loading
<1>6. DataInv'
  <2>1. {e \in test_data' : e[1] = Newest} = {e \in test_data : e[1] = Newest}
    BY <1>1, <1>2
  <2>2. DataOf(current)' = DataOf(Newest)
    BY <1>1, <1>2, <2>1 DEF DataOf
  <2>3. QED
    BY <1>1, <1>2, <2>2 DEF ConfInv, DataInv
<1>7. QED
  BY <1>3, <1>4, <1>5, <1>6 DEF ConfInv

\* Every step of the master keeps the invariant.
LEMMA ConfStep == ConfInv /\ [Next]_vars => ConfInv'
<1>1. ConfInv /\ UNCHANGED vars => ConfInv'
  BY DEF vars, ConfInv, TypeInv, NewInv, MergedInv, PointerInv, Pointed, DataInv, DataOf,
         DanglingOnlyWithoutFile, Newest
<1>2. QED
  BY <1>1, ConfigureKeeps, MergeKeeps, VerdictKeeps, InitModuleKeeps, NewCycleKeeps
     DEF Next, Stopped

-----------------------------------------------------------------------------
(* The workers' side.                                                      *)

\* A worker that handles requests has a copy of the test_data of the location
\* that its configuration serves.
WorkerInv ==
  \A n \in Cycles : worker[n] \in {"running", "quitting"} =>
    n <= Newest /\ (Served(config[n]) # 0 => <<n, Served(config[n])>> \in forked[n])

\* A request that was accepted names a location of its worker's cycle.
RequestInv ==
  \A r \in Requests :
    IF request[r].state = "waiting" THEN request[r].cycle = 0
    ELSE request[r].cycle \in 1 .. Newest /\ request[r].loc \in Nat \ {0}

States == {"waiting", "accepted", "answered", "lost"}
DeployTypes ==
  /\ worker \in [Cycles -> {"none", "running", "quitting", "dead", "gone"}]
  /\ forked \in [Cycles -> SUBSET (Nat \X Nat)]
  /\ request \in [Requests -> [state : States, cycle : Nat, loc : Nat]]

DeployInv == DeployTypes /\ WorkerInv /\ RequestInv /\ ReloadLosesNothing

\* No worker and no accepted request at the start.
LEMMA DeployInit == RInit => DeployInv
<1> SUFFICES ASSUME RInit PROVE DeployInv
  OBVIOUS
<1>1. DeployTypes
  BY DEF RInit, DeployTypes, States, Waiting
<1>2. WorkerInv /\ RequestInv /\ ReloadLosesNothing
  BY DEF RInit, WorkerInv, RequestInv, ReloadLosesNothing, Waiting
<1>3. QED
  BY <1>1, <1>2 DEF DeployInv

\* The steps of the processes are, for the master's side, the master's steps
\* or none.
LEMMA StepsAreMasters == [RNext]_reloadVars => [Next]_vars
BY DEF RNext, reloadVars, Reconfigure, LoadCycle, StartWorker, ShutDown, Respawn, Work, Handle,
       HandleDies, Leave, Accept, Quiet, Next

\* No cycle's configuration changes once it has begun.
LEMMA ConfigKept ==
  ASSUME ConfInv, [Next]_vars
  PROVE  Newest \in Nat /\ Newest' \in Nat /\ Newest' >= Newest
         /\ \A n \in 1 .. Newest : config'[n] = config[n]
<1>1. config \in Seq(Configs) /\ Newest \in Nat
  BY DEF ConfInv, TypeInv, Newest
<1>2. CASE Configure
  BY <1>1, <1>2 DEF Configure, Newest
<1>3. CASE config' = config
  BY <1>1, <1>3 DEF Newest
<1>4. QED
  BY <1>2, <1>3 DEF Next, vars, MergeLocConf, CycleAccepted, CycleRejected, InitModule,
     NewCycleRuns, Stopped

\* The location that has its test_data is the one that is served.
LEMMA DataIsServed ==
  ASSUME NEW T \in SUBSET (Nat \X Nat), NEW n \in Nat, NEW c \in Configs,
         {d[2] : d \in {e \in T : e[1] = n}} = LastOf(c), Served(c) # 0
  PROVE  <<n, Served(c)>> \in T
<1>1. Served(c) \in LastOf(c)
  BY DEF Served, LastOf
<1>2. PICK d \in T : d[1] = n /\ d[2] = Served(c)
  BY <1>1
<1>3. d = <<n, Served(c)>>
  BY <1>2
<1>4. QED
  BY <1>3

\* What the workers do not touch stays right when the master goes on.
LEMMA DeployKept ==
  ASSUME ConfInv, DeployInv, [Next]_vars, UNCHANGED deployVars
  PROVE  DeployInv'
<1>1. /\ Newest \in Nat /\ Newest' \in Nat /\ Newest' >= Newest
      /\ \A n \in 1 .. Newest : config'[n] = config[n]
  BY ConfigKept
<1>2. UNCHANGED <<worker, forked, request>>
  BY DEF deployVars
<1>3. DeployTypes'
  BY <1>2 DEF DeployInv, DeployTypes
<1>4. WorkerInv'
  <2> SUFFICES ASSUME NEW n \in Cycles, worker[n] \in {"running", "quitting"}
               PROVE  /\ n <= Newest'
                      /\ Served(config'[n]) # 0 => <<n, Served(config'[n])>> \in forked[n]
    BY <1>2 DEF WorkerInv, Served, WithFile
  <2>1. n <= Newest /\ (Served(config[n]) # 0 => <<n, Served(config[n])>> \in forked[n])
    BY DEF DeployInv, WorkerInv
  <2>2. n \in 1 .. Newest /\ n <= Newest'
    BY <1>1, <2>1, MaxCyclesAssumption DEF Cycles
  <2>3. QED
    BY <1>1, <2>1, <2>2
<1>5. RequestInv'
  BY <1>1, <1>2 DEF DeployInv, RequestInv
<1>6. ReloadLosesNothing'
  <2> SUFFICES ASSUME NEW r \in Requests, request[r].state = "lost"
               PROVE  \E q \in Requests :
                        /\ request[q].cycle = request[r].cycle
                        /\ request[q].loc # Served(config'[request[q].cycle])
    BY <1>2 DEF ReloadLosesNothing, Served, WithFile
  <2>1. PICK q \in Requests : /\ request[q].cycle = request[r].cycle
                              /\ request[q].loc # Served(config[request[q].cycle])
    BY DEF DeployInv, ReloadLosesNothing
  <2>2. request[r].cycle \in 1 .. Newest
    BY DEF DeployInv, RequestInv
  <2>3. QED
    BY <1>1, <2>1, <2>2
<1>7. QED
  BY <1>3, <1>4, <1>5, <1>6 DEF DeployInv

\* A worker is forked with a cycle: the test_data of the location to be
\* served is among those in memory, and the old cycle's are not needed.
LEMMA StartKeeps == ConfInv /\ DeployInv /\ StartWorker => DeployInv'
<1> SUFFICES ASSUME ConfInv, DeployInv, StartWorker PROVE DeployInv'
  OBVIOUS
<1>1. /\ phase = "cleanup" /\ phase' = "idle" /\ current' = Newest /\ config' = config
      /\ worker' = [worker EXCEPT ![Newest] = "running"]
      /\ forked' = [forked EXCEPT ![Newest] = test_data']
      /\ request' = request
  BY DEF StartWorker, NewCycleRuns
<1>2. ConfInv'
  BY NewCycleKeeps DEF StartWorker
<1>3. /\ Newest \in Nat /\ Newest # 0 /\ Newest' = Newest /\ config[Newest] \in Configs
      /\ test_data' \in SUBSET (Nat \X Nat)
  <2>1. config \in Seq(Configs) /\ Newest \in 1 .. Len(config)
    BY <1>1 DEF ConfInv, TypeInv, NewInv, Newest, Loading
  <2>2. config[Newest] \in Configs
    BY <2>1, ElementOfSeq
  <2>3. QED
    BY <1>1, <1>2, <2>1, <2>2 DEF ConfInv, TypeInv, Newest
<1>4. Served(config[Newest]) # 0 => <<Newest, Served(config[Newest])>> \in test_data'
  <2>1. DataOf(Newest)' = LastOf(config[Newest])
    BY <1>1, <1>2, <1>3 DEF ConfInv, DataInv, DataOf
  <2>2. {d[2] : d \in {e \in test_data' : e[1] = Newest}} = LastOf(config[Newest])
    BY <1>3, <2>1 DEF DataOf
  <2>3. QED
    BY <1>3, <2>2, DataIsServed
<1>5. DeployTypes'
  BY <1>1, <1>3 DEF DeployInv, DeployTypes
<1>6. WorkerInv'
  <2> SUFFICES ASSUME NEW n \in Cycles, worker'[n] \in {"running", "quitting"}
               PROVE  /\ n <= Newest
                      /\ Served(config[n]) # 0 => <<n, Served(config[n])>> \in forked'[n]
    BY <1>1, <1>3 DEF WorkerInv
  <2>1. CASE n = Newest
    BY <1>1, <1>3, <1>4, <2>1 DEF DeployInv, DeployTypes
  <2>2. CASE n # Newest
    BY <1>1, <2>2 DEF DeployInv, DeployTypes, WorkerInv
  <2>3. QED
    BY <2>1, <2>2
<1>7. RequestInv' /\ ReloadLosesNothing'
  BY <1>1, <1>3 DEF DeployInv, RequestInv, ReloadLosesNothing
<1>8. QED
  BY <1>5, <1>6, <1>7 DEF DeployInv

\* The master tells a worker to go or replaces one that died, as a copy of
\* itself with the current cycle; or a worker leaves.
LEMMA ProcessKeeps ==
  ASSUME ConfInv, DeployInv, NEW n \in Cycles, ShutDown(n) \/ Respawn(n) \/ Leave(n)
  PROVE  DeployInv'
<1>1. /\ UNCHANGED <<config, request>> /\ Newest' = Newest
      /\ \A m \in Cycles \ {n} : worker'[m] = worker[m] /\ forked'[m] = forked[m]
  BY DEF ShutDown, Respawn, Leave, vars, Newest, DeployInv, DeployTypes
<1>2. Newest \in Nat /\ test_data \in SUBSET (Nat \X Nat) /\ config \in Seq(Configs)
  BY DEF ConfInv, TypeInv, Newest
<1>3. DeployTypes'
  BY <1>2 DEF ShutDown, Respawn, Leave, vars, DeployInv, DeployTypes
<1>4. ASSUME worker'[n] \in {"running", "quitting"}
      PROVE  /\ n <= Newest
             /\ Served(config[n]) # 0 => <<n, Served(config[n])>> \in forked'[n]
  <2>1. CASE ShutDown(n)
    BY <2>1 DEF ShutDown, DeployInv, DeployTypes, WorkerInv
  <2>2. CASE Respawn(n)
    <3>1. phase = "idle" /\ n = current /\ forked'[n] = test_data
      BY <1>4, <2>2 DEF Respawn, DeployInv, DeployTypes
    <3>2. n \in Nat /\ n # 0 /\ n \in 1 .. Len(config) /\ n <= Newest
      BY <3>1, MaxCyclesAssumption DEF Cycles, ConfInv, TypeInv, Newest
    <3>3. config[n] \in Configs
      BY <1>2, <3>2, ElementOfSeq
    <3>4. {d[2] : d \in {e \in test_data : e[1] = n}} = LastOf(config[n])
      BY <3>1, <3>2 DEF ConfInv, DataInv, DataOf
    <3>5. QED
      BY <1>2, <3>1, <3>2, <3>3, <3>4, DataIsServed
  <2>3. CASE Leave(n)
    BY <1>4, <2>3 DEF Leave, DeployInv, DeployTypes
  <2>4. QED
    BY <2>1, <2>2, <2>3
<1>5. WorkerInv'
  <2> SUFFICES ASSUME NEW m \in Cycles, worker'[m] \in {"running", "quitting"}
               PROVE  /\ m <= Newest
                      /\ Served(config[m]) # 0 => <<m, Served(config[m])>> \in forked'[m]
    BY <1>1 DEF WorkerInv
  <2>1. CASE m = n
    BY <1>4, <2>1
  <2>2. CASE m # n
    BY <1>1, <2>2 DEF DeployInv, WorkerInv
  <2>3. QED
    BY <2>1, <2>2
<1>6. RequestInv' /\ ReloadLosesNothing'
  BY <1>1 DEF DeployInv, RequestInv, ReloadLosesNothing
<1>7. QED
  BY <1>3, <1>5, <1>6 DEF DeployInv

\* A request is accepted or answered: nothing is lost by it.
LEMMA ServiceKeeps ==
  ASSUME ConfInv, DeployInv, NEW n \in Cycles, NEW r \in Requests, Accept(n, r) \/ Handle(n, r)
  PROVE  DeployInv'
<1>1. UNCHANGED <<config, worker, forked>> /\ Newest' = Newest
  BY DEF Accept, Handle, vars, Newest
<1>2. Newest \in Nat /\ config \in Seq(Configs) /\ n \in Nat \ {0}
  BY MaxCyclesAssumption DEF ConfInv, TypeInv, Newest, Cycles
<1>3. /\ \A q \in Requests \ {r} : request'[q] = request[q]
      /\ request'[r] \in [state : States, cycle : Nat, loc : Nat]
      /\ request' = [q \in Requests |-> request'[q]]
      /\ request'[r].state \in {"accepted", "answered"} /\ request[r].state # "lost"
      /\ request'[r].cycle \in 1 .. Newest /\ request'[r].loc \in Nat \ {0}
      /\ request[r].state = "waiting" \/ (request'[r].cycle = request[r].cycle
                                          /\ request'[r].loc = request[r].loc)
  <2>1. CASE Accept(n, r)
    <3>1. n <= Newest /\ request[r] = Waiting
      BY <2>1 DEF Accept, DeployInv, WorkerInv
    <3>2. PICK k \in 1 .. Len(config[n]) :
            request' = [request EXCEPT ![r] = [state |-> "accepted", cycle |-> n, loc |-> k]]
      BY <2>1 DEF Accept
    <3>3. k \in Nat \ {0}
      <4>1. config[n] \in Configs
        BY <1>2, <3>1, ElementOfSeq DEF Newest
      <4>2. QED
        BY <4>1, LocationType
    <3>4. /\ \A q \in Requests \ {r} : request'[q] = request[q]
          /\ request'[r] = [state |-> "accepted", cycle |-> n, loc |-> k]
          /\ request' = [q \in Requests |-> request'[q]]
      BY <3>2 DEF DeployInv, DeployTypes
    <3>5. request[r].state = "waiting" /\ n \in 1 .. Newest
      BY <1>2, <3>1 DEF Waiting
    <3>6. request'[r] \in [state : States, cycle : Nat, loc : Nat]
      BY <1>2, <3>3, <3>4 DEF States
    <3>7. QED
      BY <3>3, <3>4, <3>5, <3>6
  <2>2. CASE Handle(n, r)
    BY <2>2 DEF Handle, Holds, DeployInv, DeployTypes, RequestInv, States
  <2>3. QED
    BY <2>1, <2>2
<1>4. DeployTypes'
  BY <1>1, <1>3 DEF DeployInv, DeployTypes
<1>5. WorkerInv'
  BY <1>1 DEF DeployInv, WorkerInv
<1>6. RequestInv'
  BY <1>1, <1>3 DEF DeployInv, RequestInv
<1>7. ReloadLosesNothing'
  <2> SUFFICES ASSUME NEW p \in Requests, request'[p].state = "lost"
               PROVE  \E q \in Requests :
                        /\ request'[q].cycle = request'[p].cycle
                        /\ request'[q].loc # Served(config[request'[q].cycle])
    BY <1>1 DEF ReloadLosesNothing
  <2>1. p # r /\ request'[p] = request[p]
    BY <1>3
  <2>2. PICK q \in Requests : /\ request[q].cycle = request[p].cycle
                              /\ request[q].loc # Served(config[request[q].cycle])
    BY <2>1 DEF DeployInv, ReloadLosesNothing
  <2>3. request[q].state # "waiting"
    <3>1. request[p].cycle \in 1 .. Newest
      BY <2>1 DEF DeployInv, RequestInv
    <3>2. request[q].cycle # 0
      BY <1>2, <2>2, <3>1
    <3>3. QED
      BY <3>2 DEF DeployInv, RequestInv
  <2>4. QED
    BY <1>3, <2>1, <2>2, <2>3
<1>8. QED
  BY <1>4, <1>5, <1>6, <1>7 DEF DeployInv

\* A worker dies of a request: for a location without test_data, which its
\* configuration does not serve.  The others it holds are lost with it.
LEMMA DeathKeeps ==
  ASSUME ConfInv, DeployInv, NEW n \in Cycles, NEW r \in Requests, HandleDies(n, r)
  PROVE  DeployInv'
<1>1. /\ UNCHANGED <<config, forked>> /\ Newest' = Newest
      /\ worker[n] \in {"running", "quitting"} /\ Holds(n, r) /\ ~HasData(r)
      /\ request' = [q \in Requests |->
                       IF Holds(n, q) THEN [request[q] EXCEPT !.state = "lost"] ELSE request[q]]
      /\ worker' = [worker EXCEPT ![n] =
                      IF @ = "running" /\ n = current THEN "dead" ELSE "gone"]
  BY DEF HandleDies, vars, Newest
<1>2. ASSUME NEW q \in Requests
      PROVE  /\ request'[q] \in [state : States, cycle : Nat, loc : Nat]
             /\ request'[q].cycle = request[q].cycle /\ request'[q].loc = request[q].loc
             /\ request'[q].state = IF Holds(n, q) THEN "lost" ELSE request[q].state
  BY <1>1 DEF DeployInv, DeployTypes, States
<1>3. DeployTypes'
  <2>1. request' \in [Requests -> [state : States, cycle : Nat, loc : Nat]]
    BY <1>1, <1>2
  <2>2. QED
    BY <1>1, <2>1 DEF DeployInv, DeployTypes
<1>4. WorkerInv'
  BY <1>1 DEF DeployInv, DeployTypes, WorkerInv
<1>5. RequestInv'
  BY <1>1, <1>2 DEF DeployInv, RequestInv, Holds
<1>6. request[r].cycle = n /\ request[r].loc # Served(config[n])
  <2>1. request[r].cycle = n /\ request[r].loc \in Nat \ {0} /\ <<n, request[r].loc>> \notin forked[n]
    BY <1>1 DEF Holds, HasData, DeployInv, RequestInv
  <2>2. Served(config[n]) # 0 => <<n, Served(config[n])>> \in forked[n]
    BY <1>1 DEF DeployInv, WorkerInv
  <2>3. QED
    BY <2>1, <2>2
<1>7. ReloadLosesNothing'
  <2> SUFFICES ASSUME NEW p \in Requests, request'[p].state = "lost"
               PROVE  \E q \in Requests :
                        /\ request'[q].cycle = request'[p].cycle
                        /\ request'[q].loc # Served(config[request'[q].cycle])
    BY <1>1 DEF ReloadLosesNothing
  <2>1. CASE Holds(n, p)
    BY <1>2, <1>6, <2>1 DEF Holds
  <2>2. CASE ~Holds(n, p)
    <3>1. PICK q \in Requests : /\ request[q].cycle = request[p].cycle
                                /\ request[q].loc # Served(config[request[q].cycle])
      BY <1>2, <2>2 DEF DeployInv, ReloadLosesNothing
    <3>2. QED
      BY <1>2, <3>1
  <2>3. QED
    BY <2>1, <2>2
<1>8. QED
  BY <1>3, <1>4, <1>5, <1>7 DEF DeployInv

\* Every step of master and workers keeps both invariants.
LEMMA ReloadStep == ConfInv /\ DeployInv /\ [RNext]_reloadVars => (ConfInv /\ DeployInv)'
<1> SUFFICES ASSUME ConfInv, DeployInv, [RNext]_reloadVars PROVE (ConfInv /\ DeployInv)'
  OBVIOUS
<1>1. [Next]_vars
  BY StepsAreMasters
<1>2. ConfInv'
  BY <1>1, ConfStep
<1>3. CASE Reconfigure \/ LoadCycle \/ Quiet \/ UNCHANGED reloadVars
  <2>1. UNCHANGED deployVars
    BY <1>3 DEF Reconfigure, LoadCycle, Quiet, reloadVars
  <2>2. QED
    BY <1>1, <1>2, <2>1, DeployKept
<1>4. CASE StartWorker
  BY <1>2, <1>4, StartKeeps
<1>5. ASSUME NEW n \in Cycles, ShutDown(n) \/ Respawn(n) \/ Work(n) PROVE DeployInv'
  <2>1. CASE ShutDown(n) \/ Respawn(n) \/ Leave(n)
    BY <2>1, ProcessKeeps
  <2>2. ASSUME NEW r \in Requests, Handle(n, r) PROVE DeployInv'
    BY <2>2, ServiceKeeps
  <2>3. ASSUME NEW r \in Requests, HandleDies(n, r) PROVE DeployInv'
    BY <2>3, DeathKeeps
  <2>4. QED
    BY <1>5, <2>1, <2>2, <2>3 DEF Work
<1>6. ASSUME NEW n \in Cycles, NEW r \in Requests, Accept(n, r) PROVE DeployInv'
  BY <1>6, ServiceKeeps
<1>7. QED
  BY <1>2, <1>3, <1>4, <1>5, <1>6 DEF RNext

\* Both invariants hold throughout.
LEMMA ReloadInvariant == RSpec => [](ConfInv /\ DeployInv)
<1>1. RInit => ConfInv /\ DeployInv
  BY ConfInit, DeployInit DEF RInit
<1>2. QED
  BY <1>1, ReloadStep, PTL DEF RSpec

\* Whatever configurations were installed, rejected or replaced before,
\* init_module reads a dangling TEST_LOC_CONF only if the new configuration
\* has no conf_file in force anywhere.
THEOREM FileResetsPointer == RSpec => []DanglingOnlyWithoutFile
<1>1. ConfInv => DanglingOnlyWithoutFile
  BY DEF ConfInv
<1>2. QED
  BY <1>1, ReloadInvariant, PTL

\* After every start and reload, accepted or rejected, the last location that
\* a conf_file is in force for, inherited through any nesting, is the one
\* location of the running cycle with a test_data.
THEOREM LastLocationHasData == RSpec => []LastLocationServed
<1>1. ConfInv => LastLocationServed
  BY DEF ConfInv, DataInv, DataOf, LastOf, LastLocationServed
<1>2. QED
  BY <1>1, ReloadInvariant, PTL

\* A request is lost only with a worker that was sent a request for a
\* location its configuration does not serve: never because of a reload that
\* came while it was waiting, nor of a worker forked anew after one.
THEOREM ReloadsAreHarmless == RSpec => []ReloadLosesNothing
<1>1. DeployInv => ReloadLosesNothing
  BY DEF DeployInv
<1>2. QED
  BY <1>1, ReloadInvariant, PTL
=============================================================================
