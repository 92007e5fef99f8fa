------------------------- MODULE QueryParse_proofs -------------------------
(***************************************************************************)
(* Proofs about the parameter loop of getQuery, for every set of requests: *)
(* it stays within the request, ends, and records what the request says.   *)
(***************************************************************************)
EXTENDS ParseVersions, Integers, FiniteSetsExt, FiniteSetTheorems, WellFoundedInduction, TLAPS

\* Every non-empty set of naturals has a least element, which Min chooses: the
\* first occurrence that std::string::find returns.
LEMMA MinOfNats ==
  ASSUME NEW S \in SUBSET Nat, S # {}
  PROVE  Min(S) \in S /\ \A y \in S : Min(S) <= y
<1> DEFINE Less == {p \in Nat \X Nat : p[1] < p[2]}
<1>1. IsWellFoundedOn(Less, Nat)
  BY NatLessThanWellFounded DEF OpToRel
<1>2. PICK x \in S : \A y \in S : <<y, x>> \notin Less
  BY <1>1, WFMin
<1>3. ASSUME NEW y \in S PROVE x <= y
  <2>1. <<y, x>> \in Nat \X Nat /\ <<y, x>>[1] = y /\ <<y, x>>[2] = x
    OBVIOUS
  <2>2. ~(y < x)
    BY <1>2, <2>1
  <2>3. QED
    BY <2>2
<1>4. QED
  BY <1>3 DEF Min

\* std::string::find: npos exactly when the label does not occur in the
\* slice, else the offset of its first occurrence.
LEMMA FindIsFirst ==
  ASSUME NEW label, NEW from \in Nat, NEW to \in Nat
  PROVE  \/ /\ Hits(label, from, to) = {}
            /\ Find(label, from, to) = NPos
         \/ /\ Find(label, from, to) \in Hits(label, from, to)
            /\ Find(label, from, to) \in from .. to - 1
            /\ \A i \in Hits(label, from, to) : Find(label, from, to) <= i
<1>1. CASE Hits(label, from, to) = {}
  BY <1>1 DEF Find
<1>2. CASE Hits(label, from, to) # {}
  <2>1. Hits(label, from, to) \in SUBSET Nat
    BY DEF Hits
  <2>2. Find(label, from, to) = Min(Hits(label, from, to))
    BY <1>2 DEF Find
  <2>3. Hits(label, from, to) \subseteq from .. to - 1
    BY DEF Hits
  <2>4. QED
    BY <1>2, <2>1, <2>2, <2>3, MinOfNats
<1>3. QED
  BY <1>1, <1>2

\* The strings an iteration works on lie within the request.
LEMMA PieceInRequest ==
  ASSUME TypeOK
  PROVE  /\ N \in Nat
         /\ pos \in 0 .. N
         /\ Amp = NPos \/ (Amp \in Nat /\ Amp >= pos /\ Amp < N)
         /\ TempEnd \in pos .. N
         /\ NextLocal \in Int
<1>1. N \in Nat /\ pos \in Nat /\ pos <= N
  BY DEF TypeOK, N
<1>2. Amp = NPos \/ (Amp \in Nat /\ Amp >= pos /\ Amp < N)
  BY <1>1, FindIsFirst DEF Amp
<1>3. QED
  BY <1>1, <1>2 DEF TempEnd, NextLocal, TypeOK, NPos

\* What substr(find(key) + KeyLen) returns is a slice of the request.
LEMMA ValueIsSlice ==
  ASSUME TypeOK, NEW key \in Keys, HasValue(key)
  PROVE  Value(key) \in Slices
<1>1. pos \in Nat /\ TempEnd \in Nat /\ TempEnd <= N /\ N \in Nat
  BY PieceInRequest
<1>2. Find(key, pos, TempEnd) \in Nat
  BY <1>1, FindIsFirst DEF HasValue, Has
<1>3. KeyLen(key) \in {7, 8}
  BY DEF KeyLen
<1>4. ValueFrom(key) \in Nat /\ ValueFrom(key) < TempEnd
  BY <1>2, <1>3 DEF ValueFrom, HasValue
<1>5. QED
  BY <1>1, <1>4 DEF Value, Slices

\* queryStr.substr(local+1) stays within the request or throws.
LEMMA EndIterationType ==
  ASSUME TypeOK, EndIteration, query' = query
  PROVE  /\ N' = N
         /\ Slices' = Slices
         /\ pos' \in 0 .. N
         /\ local' \in Int
         /\ pc' \in {"loop", "done", "threw"}
<1>1. N' = N /\ Slices' = Slices
  BY DEF N, Slices
<1>2. pos' \in 0 .. N /\ local' \in Int
  BY PieceInRequest DEF EndIteration
<1>3. pc' \in {"loop", "done", "threw"}
  BY DEF EndIteration, TypeOK
<1>4. QED
  BY <1>1, <1>2, <1>3

\* Whatever request arrives and whatever `local' held, all strings of the
\* loop stay slices of the request.
THEOREM TypeCorrect == Spec => []TypeOK
<1>1. Init => TypeOK
  <2> SUFFICES ASSUME Init PROVE TypeOK
    OBVIOUS
  <2>1. query \in Seq(Labels) /\ WellLabelled(query)
    BY RequestsAssumption DEF Init
  <2>2. N \in Nat
    BY <2>1 DEF N
  <2>3. NoText \in Slices
    BY <2>2 DEF NoText, Slices
  <2>4. {shopid, buyerid, encode, keyword} \subseteq Slices
    BY <2>3 DEF Init
  <2>5. local \in Int /\ pos \in 0 .. N
    BY <2>2, LocalsAssumption DEF Init
  <2>6. isBuyer \in BOOLEAN /\ pc \in {"loop", "done", "threw"}
    BY DEF Init
  <2>7. QED
    BY <2>1, <2>4, <2>5, <2>6 DEF TypeOK
<1>2. TypeOK /\ [Next]_vars => TypeOK'
  <2> SUFFICES ASSUME TypeOK, [Next]_vars PROVE TypeOK'
    OBVIOUS
  <2> USE DEF Keys
  <2>1. CASE TakeShopid
    BY <2>1, ValueIsSlice, EndIterationType DEF TakeShopid, TypeOK
  <2>2. CASE TakeBuyerid
    BY <2>2, ValueIsSlice, EndIterationType DEF TakeBuyerid, TypeOK
  <2>3. CASE TakeEncode
    BY <2>3, ValueIsSlice, EndIterationType DEF TakeEncode, TypeOK
  <2>4. CASE TakeKeyword
    <3>1. N' = N /\ Slices' = Slices /\ local' \in Int
      BY <2>4, PieceInRequest DEF TakeKeyword, N, Slices
    <3>2. QED
      BY <2>4, <3>1, ValueIsSlice DEF TakeKeyword, TypeOK
  <2>5. CASE SkipPiece
    BY <2>5, EndIterationType DEF SkipPiece, fields, TypeOK
  <2>6. CASE UNCHANGED vars
    BY <2>6 DEF vars, fields, TypeOK, N, Slices
  <2>7. QED
    BY <2>1, <2>2, <2>3, <2>4, <2>5, <2>6 DEF Next, Left
<1>3. QED
  BY <1>1, <1>2, PTL DEF Spec

\* When no key follows it, a keyword= at the front of queryStr is taken.
LEMMA KeywordIsTaken ==
  ASSUME TypeOK, KeywordLast(query), KeywordFirst, Amp # NPos
  PROVE  /\ HasValue("keyword=")
         /\ ~Has("shopid=") /\ ~Has("buyerid=") /\ ~Has("encode=")
<1>1. /\ N \in Nat /\ pos \in Nat /\ pos < N
      /\ query[pos + 1] = "keyword="
      /\ TempEnd = N
  BY PieceInRequest DEF KeywordFirst, TempEnd
<1>2. ASSUME NEW key \in {"shopid=", "buyerid=", "encode="}
      PROVE  ~Has(key)
  <2>1. ASSUME NEW i \in pos .. N - 1 PROVE query[i + 1] # key
    <3>1. CASE i = pos
      BY <1>1, <3>1
    <3>2. CASE i > pos
      <4>1. pos + 1 \in 1 .. Len(query) /\ i + 1 \in (pos + 1) + 1 .. Len(query)
        BY <1>1, <3>2 DEF N
      <4>2. query[i + 1] \notin Keys
        BY <1>1, <4>1 DEF KeywordLast
      <4>3. QED
        BY <4>2 DEF Keys
    <3>3. QED
      BY <1>1, <3>1, <3>2
  <2>2. Hits(key, pos, N) = {}
    BY <2>1 DEF Hits
  <2>3. QED
    BY <1>1, <2>2 DEF Has, Find
<1>3. Find("keyword=", pos, TempEnd) = pos
  <2>1. pos \in Hits("keyword=", pos, N)
    BY <1>1 DEF Hits
  <2>2. QED
    BY <1>1, <2>1, FindIsFirst
<1>4. pos + 8 < N
  <2>1. /\ pos + 8 <= N
        /\ \A j \in pos + 2 .. pos + 8 : query[j] = "_"
    <3>1. query[pos + 1] \in Keys /\ KeyLen(query[pos + 1]) = 8
      BY <1>1 DEF Keys, KeyLen
    <3>2. pos + 1 \in 1 .. Len(query)
      BY <1>1 DEF N
    <3>3. /\ (pos + 1) + 8 - 1 <= Len(query)
          /\ \A j \in (pos + 1) + 1 .. (pos + 1) + 8 - 1 : query[j] = "_"
      BY <3>1, <3>2 DEF TypeOK, WellLabelled
    <3>4. (pos + 1) + 1 = pos + 2 /\ (pos + 1) + 8 - 1 = pos + 8
      BY <1>1
    <3>5. QED
      BY <3>3, <3>4 DEF N
  <2>2. Amp \in Nat /\ Amp >= pos /\ Amp < N /\ query[Amp + 1] = "&"
    <3>1. Amp \in Hits("&", pos, N)
      BY <1>1, FindIsFirst DEF Amp
    <3>2. QED
      BY <1>1, <3>1 DEF Hits
  <2>3. Amp # pos
    BY <1>1, <2>2
  <2>4. ~(Amp + 1 \in pos + 2 .. pos + 8)
    BY <2>1, <2>2
  <2>5. QED
    BY <1>1, <2>2, <2>3, <2>4
<1>5. HasValue("keyword=")
  BY <1>1, <1>3, <1>4 DEF HasValue, Has, ValueFrom, KeyLen, NPos
<1>6. QED
  BY <1>2, <1>5

\* An iteration that goes on then cuts just after the '&' it has found.
LEMMA CutsAtAmp ==
  ASSUME TypeOK, pc = "loop", ~KeywordFirst \/ Amp = NPos, EndIteration
  PROVE  pc' # "threw"
<1>1. CASE Amp = NPos
  BY <1>1 DEF EndIteration
<1>2. CASE Amp # NPos
  <2>1. NextLocal = Amp - pos
    BY <1>2 DEF NextLocal
  <2>2. NextLocal + 1 \in 0 .. N - pos
    BY <1>2, <2>1, PieceInRequest
  <2>3. QED
    BY <1>2, <2>2 DEF EndIteration
<1>3. QED
  BY <1>1, <1>2

\* No request whose keyword comes last makes getQuery throw
\* std::out_of_range from substr(local+1), even with `local' uninitialised.
THEOREM NoThrow == Spec => []NeverThrows
<1>1. Init => NeverThrows
  BY DEF Init, NeverThrows
<1>2. TypeOK /\ NeverThrows /\ [Next]_vars => NeverThrows'
  <2> SUFFICES ASSUME TypeOK, NeverThrows, [Next]_vars, KeywordLast(query)'
               PROVE  pc' # "threw"
    BY DEF NeverThrows
  <2>1. query' = query
    BY DEF Next, TakeShopid, TakeBuyerid, TakeEncode, TakeKeyword, SkipPiece,
           Left, vars
  <2>2. KeywordLast(query)
    BY <2>1
  <2>3. CASE TakeShopid
    BY <2>2, <2>3, KeywordIsTaken, CutsAtAmp DEF TakeShopid, HasValue
  <2>4. CASE TakeBuyerid
    BY <2>2, <2>4, KeywordIsTaken, CutsAtAmp DEF TakeBuyerid
  <2>5. CASE TakeEncode
    BY <2>2, <2>5, KeywordIsTaken, CutsAtAmp DEF TakeEncode, HasValue
  <2>6. CASE TakeKeyword
    BY <2>6 DEF TakeKeyword
  <2>7. CASE SkipPiece
    BY <2>2, <2>7, KeywordIsTaken, CutsAtAmp DEF SkipPiece
  <2>8. CASE UNCHANGED vars
    BY <2>2, <2>8 DEF vars, NeverThrows
  <2>9. QED
    BY <2>3, <2>4, <2>5, <2>6, <2>7, <2>8 DEF Next, Left
<1>3. QED
  BY <1>1, <1>2, TypeCorrect, PTL DEF Spec

-----------------------------------------------------------------------------
\* With `local' initialised (test.cpp:335), it is never negative.
LocalNat == local \in Nat

\* An int local = 0, as test.cpp declares it, only ever holds offsets.
LEMMA LocalStaysNat ==
  ASSUME InitialLocals \subseteq Nat
  PROVE  Spec => []LocalNat
<1>1. Init => LocalNat
  BY DEF Init, LocalNat
<1>2. TypeOK /\ LocalNat /\ [Next]_vars => LocalNat'
  <2> SUFFICES ASSUME TypeOK, LocalNat, [Next]_vars PROVE LocalNat'
    OBVIOUS
  <2>1. NextLocal \in Nat
    BY PieceInRequest DEF NextLocal, LocalNat, NPos
  <2>2. local' \in {local, NextLocal}
    BY DEF Next, TakeShopid, TakeBuyerid, TakeEncode, TakeKeyword, SkipPiece,
           EndIteration, Left, vars
  <2>3. QED
    BY <2>1, <2>2 DEF LocalNat
<1>3. QED
  BY <1>1, <1>2, TypeCorrect, PTL DEF Spec

\* Every iteration that is followed by another one shortens queryStr, unless
\* it starts with a negative `local': the variant that makes while (1) end.
THEOREM LoopProgress == Spec => Progress
<1>1. TypeOK /\ [Next]_vars
      => [pc = "loop" /\ pc' = "loop" /\ local >= 0 => pos' > pos]_vars
  <2> SUFFICES ASSUME TypeOK, Next, pc = "loop", pc' = "loop", local >= 0
               PROVE  pos' > pos
    OBVIOUS
  <2>1. EndIteration
    BY DEF Next, TakeShopid, TakeBuyerid, TakeEncode, TakeKeyword, SkipPiece, Left
  <2>2. pos' = pos + NextLocal + 1
    BY <2>1 DEF EndIteration
  <2>3. NextLocal \in Nat /\ pos \in Nat
    BY PieceInRequest DEF NextLocal, NPos, TypeOK
  <2>4. QED
    BY <2>2, <2>3
<1>2. QED
  BY <1>1, TypeCorrect, PTL DEF Spec, Progress

\* With `local' initialised every iteration shortens queryStr.
THEOREM InitialisedProgress ==
  ASSUME InitialLocals \subseteq Nat
  PROVE  Spec => [][pc = "loop" /\ pc' = "loop" => pos' > pos]_vars
<1>1. LocalNat => local >= 0
  BY DEF LocalNat
<1>2. QED
  BY <1>1, LoopProgress, LocalStaysNat, PTL DEF Progress
-----------------------------------------------------------------------------
(* What the loop records of a documented request.                          *)

\* A piece of a documented request holds a key only at its start.
LEMMA KeyInFront ==
  ASSUME TypeOK, Documented(query), NEW key \in Keys
  PROVE  Hits(key, pos, TempEnd) = IF pos < N /\ query[pos + 1] = key THEN {pos} ELSE {}
<1>1. /\ N \in Nat /\ pos \in Nat /\ pos <= N /\ TempEnd \in Nat /\ TempEnd <= N
      /\ TempEnd >= pos
  BY PieceInRequest
<1>2. key # "&"
  BY DEF Keys
<1>3. ASSUME NEW i \in pos .. TempEnd - 1, query[i + 1] = key, i # pos PROVE FALSE
  <2>1. i \in Nat /\ i > pos /\ i < N /\ i + 1 \in 2 .. Len(query) /\ i <= TempEnd - 1
    BY <1>1, <1>3 DEF N
  <2>2. CASE KeywordFirst
    <3>1. pos + 1 \in 1 .. Len(query) /\ query[pos + 1] = "keyword="
          /\ i + 1 \in (pos + 1) + 1 .. Len(query)
      BY <1>1, <2>1, <2>2 DEF KeywordFirst, N
    <3>2. QED
      BY <1>3, <3>1 DEF Documented, KeywordLast
  <2>3. CASE ~KeywordFirst
    <3>1. query[i] = "&"
      <4>1. query[(i + 1) - 1] = "&"
        BY <1>3, <2>1 DEF Documented
      <4>2. (i + 1) - 1 = i
        BY <2>1
      <4>3. QED
        BY <4>1, <4>2
    <3>2. i - 1 \in Hits("&", pos, N)
      BY <1>1, <2>1, <3>1 DEF Hits
    <3>3. Amp # NPos /\ Amp <= i - 1
      <4>1. Hits("&", pos, N) # {}
        BY <3>2
      <4>2. Amp \in Nat /\ \A k \in Hits("&", pos, N) : Amp <= k
        BY <1>1, <4>1, FindIsFirst DEF Amp
      <4>3. QED
        BY <3>2, <4>2 DEF NPos
    <3>4. TempEnd = Amp
      BY <2>3, <3>3 DEF TempEnd
    <3>5. QED
      BY <1>1, <2>1, <3>3, <3>4
  <2>4. QED
    BY <2>2, <2>3
<1>4. pos < N /\ query[pos + 1] = key => pos < TempEnd
  <2> SUFFICES ASSUME pos < N, query[pos + 1] = key, TempEnd = pos PROVE FALSE
    BY <1>1
  <2>1. TempEnd = Amp /\ Amp # NPos
    BY <1>1 DEF TempEnd
  <2>2. Amp \in Hits("&", pos, N)
    BY <1>1, <2>1, FindIsFirst DEF Amp
  <2>3. QED
    BY <1>2, <2>1, <2>2 DEF Hits
<1>5. \A i \in Hits(key, pos, TempEnd) : i = pos
  BY <1>3 DEF Hits
<1>6. pos \in Hits(key, pos, TempEnd) <=> pos < N /\ query[pos + 1] = key
  BY <1>1, <1>4 DEF Hits
<1>7. QED
  BY <1>5, <1>6

\* In a piece with one key nothing else is found.
LEMMA OneKey ==
  ASSUME TypeOK, Documented(query), NEW key \in Keys
  PROVE  /\ Has(key) <=> pos < N /\ query[pos + 1] = key
         /\ Has(key) => /\ ValueFrom(key) = pos + KeyLen(key)
                        /\ ParamEnd(pos) = TempEnd
                        /\ \A other \in Keys \ {key} : ~Has(other)
<1>1. pos \in Nat /\ TempEnd \in Nat
  BY PieceInRequest
<1>2. ASSUME NEW k \in Keys PROVE Has(k) <=> pos < N /\ query[pos + 1] = k
  <2>1. Has(k) <=> Hits(k, pos, TempEnd) # {}
    BY <1>1, FindIsFirst DEF Has, NPos
  <2>2. QED
    BY <2>1, KeyInFront
<1>3. ASSUME Has(key) PROVE ValueFrom(key) = pos + KeyLen(key)
  <2>1. Hits(key, pos, TempEnd) = {pos}
    BY <1>2, <1>3, KeyInFront
  <2>2. Find(key, pos, TempEnd) = pos
    BY <1>1, <2>1, FindIsFirst
  <2>3. QED
    BY <2>2 DEF ValueFrom
<1>4. ASSUME Has(key) PROVE ParamEnd(pos) = TempEnd
  BY <1>2, <1>4 DEF ParamEnd, TempEnd, KeywordFirst, Amp
<1>5. QED
  BY <1>2, <1>3, <1>4

\* Max chooses the largest element.
LEMMA MaxIs ==
  ASSUME NEW S \in SUBSET Nat, NEW m \in S, \A x \in S : x <= m
  PROVE  Max(S) = m
<1>1. ASSUME NEW y \in S PROVE m >= y
  OBVIOUS
<1>2. Max(S) \in S /\ \A y \in S : Max(S) >= y
  BY <1>1 DEF Max
<1>3. Max(S) \in Nat /\ Max(S) <= m /\ Max(S) >= m
  BY <1>2
<1>4. QED
  BY <1>3

\* The parameters in front of the next piece are those in front of this one
\* and the one that this piece holds.
LEMMA OneMore ==
  ASSUME TypeOK, Documented(query), NEW key \in Keys, NEW u \in Nat,
         u = TempEnd \/ (u = TempEnd + 1 /\ Amp # NPos /\ TempEnd = Amp)
  PROVE  /\ Hits(key, 0, u) = Hits(key, 0, pos) \cup Hits(key, pos, TempEnd)
         /\ LastGiven(key, u) = IF HasValue(key) THEN Value(key) ELSE LastGiven(key, pos)
<1>1. /\ N \in Nat /\ pos \in Nat /\ TempEnd \in Nat /\ TempEnd >= pos
  BY PieceInRequest
<1>2. u = TempEnd + 1 => query[TempEnd + 1] # key
  <2> SUFFICES ASSUME u = TempEnd + 1 PROVE query[TempEnd + 1] # key
    OBVIOUS
  <2>1. Amp # NPos /\ TempEnd = Amp
    BY <1>1
  <2>2. Amp \in Hits("&", pos, N)
    BY <1>1, <2>1, FindIsFirst DEF Amp
  <2>3. query[Amp + 1] = "&"
    BY <2>2 DEF Hits
  <2>4. key # "&"
    BY DEF Keys
  <2>5. QED
    BY <2>1, <2>3, <2>4
<1>3. Hits(key, 0, u) = Hits(key, 0, pos) \cup Hits(key, pos, TempEnd)
  BY <1>1, <1>2 DEF Hits
<1>4. HasValue(key) <=> /\ Has(key)
                        /\ pos + KeyLen(key) < ParamEnd(pos)
  BY OneKey DEF HasValue
<1>5. Hits(key, pos, TempEnd) = IF Has(key) THEN {pos} ELSE {}
  BY KeyInFront, OneKey
<1>6. Given(key, u) = IF HasValue(key) THEN Given(key, pos) \cup {pos} ELSE Given(key, pos)
  BY <1>3, <1>4, <1>5 DEF Given
<1>7. CASE HasValue(key)
  <2>1. \A i \in Given(key, u) : i \in Nat /\ i <= pos
    BY <1>1, <1>6 DEF Given, Hits
  <2>2. pos \in Given(key, u)
    BY <1>6, <1>7
  <2>3. Max(Given(key, u)) = pos
    <3>1. Given(key, u) \in SUBSET Nat
      BY <2>1
    <3>2. QED
      BY <2>1, <2>2, <3>1, MaxIs
  <2>4. LastGiven(key, u) = <<pos + KeyLen(key), ParamEnd(pos)>>
    BY <2>2, <2>3 DEF LastGiven
  <2>5. ParamEnd(pos) = TempEnd /\ ValueFrom(key) = pos + KeyLen(key)
    BY <1>4, <1>7, OneKey
  <2>6. QED
    BY <1>3, <1>7, <2>4, <2>5 DEF Value
<1>8. CASE ~HasValue(key)
  BY <1>3, <1>6, <1>8 DEF LastGiven
<1>9. QED
  BY <1>7, <1>8

\* An iteration of the loop over a documented request stands behind the '&'
\* it has found, or has read the request to its end.
LEMMA StepTo ==
  ASSUME TypeOK, Documented(query), pc = "loop", Next, pc' # "threw"
  PROVE  \E u \in Nat : /\ u = IF pc' = "done" THEN N ELSE pos'
                        /\ u = TempEnd \/ (u = TempEnd + 1 /\ Amp # NPos /\ TempEnd = Amp)
<1>1. /\ N \in Nat /\ pos \in Nat
      /\ Amp = NPos \/ (Amp \in Nat /\ Amp >= pos /\ Amp < N)
  BY PieceInRequest
<1>2. "keyword=" \in Keys /\ "shopid=" \in Keys /\ "buyerid=" \in Keys /\ "encode=" \in Keys
  BY DEF Keys
<1>3. CASE TakeKeyword
  <2>1. Has("keyword=") /\ pc' = "done"
    BY <1>3 DEF TakeKeyword, HasValue
  <2>2. KeywordFirst
    BY <1>2, <2>1, OneKey DEF KeywordFirst
  <2>3. TempEnd = N
    BY <2>2 DEF TempEnd
  <2>4. QED
    BY <1>1, <2>1, <2>3
<1>4. CASE EndIteration /\ ~TakeKeyword
  <2>1. CASE Amp = NPos
    <3>1. pc' = "done" /\ TempEnd = N
      BY <1>4, <2>1 DEF EndIteration, TempEnd
    <3>2. QED
      BY <1>1, <3>1
  <2>2. CASE Amp # NPos
    <3>1. ~KeywordFirst
      <4>1. KeywordLast(query)
        BY DEF Documented
      <4>2. KeywordFirst => FALSE
        BY <1>4, <2>2, <4>1, KeywordIsTaken
           DEF Next, TakeShopid, TakeBuyerid, TakeEncode, SkipPiece, Left, HasValue
      <4>3. QED
        BY <4>2
    <3>2. TempEnd = Amp /\ NextLocal = Amp - pos
      BY <2>2, <3>1 DEF TempEnd, NextLocal
    <3>3. pos' = pos + NextLocal + 1 /\ pc' = pc
      BY <1>4, <2>2 DEF EndIteration
    <3>4. QED
      BY <1>1, <2>2, <3>2, <3>3
  <2>3. QED
    BY <2>1, <2>2
<1>5. QED
  BY <1>3, <1>4 DEF Next, TakeShopid, TakeBuyerid, TakeEncode, SkipPiece, Left

\* How far the loop has come, and what it is to have recorded by then.
Upto == IF pc = "done" THEN N ELSE pos
Recorded(u) ==
  /\ shopid = LastGiven("shopid=", u) /\ buyerid = LastGiven("buyerid=", u)
  /\ encode = LastGiven("encode=", u) /\ keyword = LastGiven("keyword=", u)
  /\ isBuyer = (Hits("buyerid=", 0, u) # {})

\* The parameters of a request only depend on the request.
LEMMA SameRequest ==
  ASSUME query' = query, NEW key, NEW u
  PROVE  LastGiven(key, u)' = LastGiven(key, u) /\ Hits(key, 0, u)' = Hits(key, 0, u)
BY DEF LastGiven, Given, ParamEnd, Find, Hits, N

\* For every documented request the loop has recorded, at every iteration,
\* exactly the parameters it has passed, the last non-empty value of each
\* key, and the keyword with all the '&'s in it.
THEOREM RecoversFields == Spec => []FieldsRecovered
<1>1. Init => FieldsRecovered
  <2> SUFFICES ASSUME Init PROVE Recorded(Upto)
    BY DEF FieldsRecovered, Recorded, Upto
  <2>1. Upto = 0
    BY DEF Init, Upto
  <2>2. \A key : Hits(key, 0, 0) = {}
    BY DEF Hits
  <2>3. \A key : LastGiven(key, 0) = NoText
    BY <2>2 DEF LastGiven, Given
  <2>4. QED
    BY <2>1, <2>2, <2>3 DEF Init, Recorded
<1>2. TypeOK /\ FieldsRecovered /\ NeverThrows /\ NeverThrows' /\ [Next]_vars
      => FieldsRecovered'
  <2> SUFFICES ASSUME TypeOK, FieldsRecovered, NeverThrows, NeverThrows', [Next]_vars,
                      Documented(query)'
               PROVE  \E u : u = Upto' /\ Recorded(u)'
    BY DEF FieldsRecovered, Recorded, Upto
  <2>1. query' = query
    BY DEF Next, TakeShopid, TakeBuyerid, TakeEncode, TakeKeyword, SkipPiece, Left, vars
  <2>2. Documented(query) /\ Recorded(Upto)
    BY <2>1 DEF FieldsRecovered, Recorded, Upto
  <2>3. pc # "threw" /\ pc' # "threw"
    BY <2>1, <2>2 DEF NeverThrows, Documented
  <2>4. CASE UNCHANGED vars
    <3>1. PICK u : u = Upto /\ u = Upto'
      BY <2>4 DEF vars, Upto, N
    <3>2. Recorded(u)
      BY <2>2, <3>1
    <3>3. Recorded(u)'
      BY <2>1, <2>4, <3>2, SameRequest DEF vars, fields, Recorded
    <3>4. QED
      BY <3>1, <3>3
  <2>5. CASE pc = "loop" /\ Next
    <3>1. Upto' = (IF pc' = "done" THEN N ELSE pos') /\ Upto = pos
      BY <2>1, <2>5 DEF N, Upto
    <3>2. PICK u \in Nat : /\ u = Upto'
                           /\ u = TempEnd \/ (u = TempEnd + 1 /\ Amp # NPos /\ TempEnd = Amp)
      BY <2>2, <2>3, <2>5, <3>1, StepTo
    <3>3. ASSUME NEW key
          PROVE  LastGiven(key, u)' = LastGiven(key, u) /\ Hits(key, 0, u)' = Hits(key, 0, u)
      BY <2>1, SameRequest
    <3>4. ASSUME NEW key \in Keys
          PROVE  /\ Hits(key, 0, u) = Hits(key, 0, pos) \cup Hits(key, pos, TempEnd)
                 /\ LastGiven(key, u) = IF HasValue(key) THEN Value(key) ELSE LastGiven(key, pos)
                 /\ Has(key) => \A other \in Keys \ {key} : ~Has(other) /\ ~HasValue(other)
                 /\ Has(key) <=> Hits(key, pos, TempEnd) # {}
      <4>1. pos \in Nat /\ TempEnd \in Nat
        BY PieceInRequest
      <4>2. Has(key) <=> Hits(key, pos, TempEnd) # {}
        BY <4>1, FindIsFirst DEF Has, NPos
      <4>3. QED
        BY <2>2, <3>2, <4>2, OneMore, OneKey DEF HasValue
    <3>5. /\ "keyword=" \in Keys /\ "shopid=" \in Keys /\ "buyerid=" \in Keys /\ "encode=" \in Keys
      BY DEF Keys
    <3>6. /\ shopid = LastGiven("shopid=", pos) /\ buyerid = LastGiven("buyerid=", pos)
          /\ encode = LastGiven("encode=", pos) /\ keyword = LastGiven("keyword=", pos)
          /\ isBuyer = (Hits("buyerid=", 0, pos) # {})
      BY <2>2, <3>1 DEF Recorded
    <3>7. isBuyer' = (isBuyer \/ Has("buyerid="))
      BY <2>5, <3>4, <3>5 DEF Next, TakeShopid, TakeBuyerid, TakeEncode, TakeKeyword,
           SkipPiece, Left, HasValue, TypeOK, fields
    <3>8. isBuyer' = (Hits("buyerid=", 0, u) # {})'
      BY <3>3, <3>4, <3>5, <3>6, <3>7
    <3>9. /\ shopid' = IF HasValue("shopid=") THEN Value("shopid=") ELSE shopid
          /\ buyerid' = IF HasValue("buyerid=") THEN Value("buyerid=") ELSE buyerid
          /\ encode' = IF HasValue("encode=") THEN Value("encode=") ELSE encode
          /\ keyword' = IF HasValue("keyword=") THEN Value("keyword=") ELSE keyword
      BY <2>5, <3>4, <3>5 DEF Next, TakeShopid, TakeBuyerid, TakeEncode, TakeKeyword,
           SkipPiece, Left, HasValue, fields
    <3>10. Recorded(u)'
      BY <3>3, <3>4, <3>5, <3>6, <3>8, <3>9 DEF Recorded
    <3>11. QED
      BY <3>2, <3>10
  <2>6. QED
    BY <2>4, <2>5 DEF Next, TakeShopid, TakeBuyerid, TakeEncode, TakeKeyword, SkipPiece, Left
<1>3. QED
  BY <1>1, <1>2, TypeCorrect, NoThrow, PTL DEF Spec

-----------------------------------------------------------------------------
(* The two older loops record the same.                                    *)

\* A bounded set of naturals that is not empty has a largest element.
LEMMA MaxOf ==
  ASSUME NEW n \in Nat, NEW S \in SUBSET (0 .. n), S # {}
  PROVE  Max(S) \in S /\ \A y \in S : y <= Max(S)
<1> DEFINE T == {n - y : y \in S}
<1>1. T \in SUBSET Nat /\ T # {}
  <2>1. \A y \in S : n - y \in Nat
    OBVIOUS
  <2>2. PICK y \in S : TRUE
    OBVIOUS
  <2>3. n - y \in T
    BY <2>2
  <2>4. QED
    BY <2>1, <2>3
<1>2. Min(T) \in T /\ \A w \in T : Min(T) <= w
  <2> HIDE DEF T
  <2>1. QED
    BY <1>1, MinOfNats
<1>3. PICK m \in S : Min(T) = n - m
  BY <1>2
<1>4. ASSUME NEW y \in S PROVE y <= m
  <2>1. n - m <= n - y
    BY <1>2, <1>3
  <2>2. QED
    BY <2>1
<1>5. Max(S) = m
  BY <1>4, MaxIs
<1>6. QED
  BY <1>4, <1>5

\* The requests that the loops are compared on.
Plain ==
  /\ TypeOK
  /\ Documented(query)
  /\ \A k \in Hits("keyword=", 0, N) : Find("&", k, N) = NPos

\* s..to is a piece: it starts the request or behind an '&', and ends the
\* request or at the next '&'.
IsPiece(s, to) ==
  /\ to \in 0 .. N /\ s \in 0 .. to
  /\ s = 0 \/ query[s] = "&"
  /\ to = N \/ query[to + 1] = "&"
  /\ PieceEnd(s) = to

\* A loop that looks back from the end of a piece finds its start.
LEMMA PieceOf ==
  ASSUME TypeOK, NEW to \in 0 .. N, to = N \/ query[to + 1] = "&"
  PROVE  IsPiece(PieceStart(to), to)
<1> DEFINE S == {0} \cup {k + 1 : k \in Hits("&", 0, to)}
           s == Max(S)
<1>1. N \in Nat /\ to \in Nat
  BY DEF TypeOK, N
<1>2. S \in SUBSET (0 .. to) /\ S # {}
  BY <1>1 DEF Hits
<1>3. s \in S /\ \A y \in S : y <= s
  <2> HIDE DEF S
  <2>1. QED
    BY <1>1, <1>2, MaxOf
<1>4. s = PieceStart(to)
  BY DEF PieceStart
<1>5. s \in 0 .. to /\ (s = 0 \/ query[s] = "&")
  <2>1. ASSUME NEW k \in Hits("&", 0, to) PROVE query[k + 1] = "&"
    BY DEF Hits
  <2>2. QED
    BY <1>2, <1>3, <2>1
<1>6. ASSUME NEW k \in s .. to - 1 PROVE query[k + 1] # "&"
  <2> SUFFICES ASSUME query[k + 1] = "&" PROVE FALSE
    OBVIOUS
  <2>1. s \in Nat /\ k \in Nat /\ k \in 0 .. to - 1
    BY <1>1, <1>5
  <2>2. k \in Hits("&", 0, to)
    BY <2>1 DEF Hits
  <2>3. k + 1 \in S
    BY <2>2
  <2>4. k + 1 <= s
    BY <1>3, <2>3
  <2>5. QED
    BY <2>1, <2>4
<1> HIDE DEF s
<1>7. PieceEnd(s) = to
  <2>1. s \in Nat /\ s <= to
    BY <1>1, <1>5
  <2>2. CASE Hits("&", s, N) = {}
    <3>1. to = N
      <4>1. to < N => to \in Hits("&", s, N)
        BY <1>1, <2>1 DEF Hits
      <4>2. QED
        BY <1>1, <2>2, <4>1
    <3>2. QED
      BY <2>2, <3>1 DEF PieceEnd, Find
  <2>3. CASE Hits("&", s, N) # {}
    <3> DEFINE f == Find("&", s, N)
    <3>1. f \in Hits("&", s, N) /\ f \in s .. N - 1 /\ \A k \in Hits("&", s, N) : f <= k
      BY <1>1, <2>1, <2>3, FindIsFirst
    <3>2. query[f + 1] = "&" /\ f # NPos
      BY <1>1, <2>1, <3>1 DEF Hits, NPos
    <3> HIDE DEF f
    <3>3. f >= to
      BY <1>1, <1>6, <2>1, <3>1, <3>2
    <3>4. to < N
      BY <1>1, <3>1, <3>3
    <3>5. to \in Hits("&", s, N)
      BY <1>1, <2>1, <3>4 DEF Hits
    <3>6. f = to
      BY <1>1, <3>1, <3>3, <3>5
    <3>7. QED
      BY <3>2, <3>6 DEF PieceEnd, f
  <2>4. QED
    BY <2>2, <2>3
<1>8. QED
  BY <1>4, <1>5, <1>7 DEF IsPiece

\* A piece holds a key only at its start, with all its letters, and the
\* parameter there ends with the piece.
LEMMA KeyAtStart ==
  ASSUME Plain, NEW s \in Nat, NEW to \in Nat, IsPiece(s, to), NEW key \in Keys
  PROVE  /\ Hits(key, s, to) = IF s < N /\ query[s + 1] = key THEN {s} ELSE {}
         /\ s < N /\ query[s + 1] = key => ParamEnd(s) = to /\ s + KeyLen(key) <= to
<1>1. TypeOK /\ Documented(query) /\ key # "&" /\ key # "_"
  BY DEF Plain, Keys
<1>2. N \in Nat /\ s \in Nat /\ to \in Nat /\ s <= to /\ to <= N /\ N = Len(query)
  <2>1. N \in Nat /\ N = Len(query)
    BY DEF Plain, TypeOK, N
  <2>2. to \in 0 .. N /\ s \in 0 .. to
    BY DEF IsPiece
  <2>3. QED
    BY <2>1, <2>2
<1>3. \A k \in s .. to - 1 : query[k + 1] # "&"
  <2>1. ASSUME NEW k \in s .. to - 1, query[k + 1] = "&" PROVE FALSE
    <3>1. k \in Hits("&", s, N)
      BY <1>2, <2>1 DEF Hits
    <3>2. Find("&", s, N) # NPos /\ Find("&", s, N) <= k
      BY <1>2, <3>1, FindIsFirst DEF NPos
    <3>3. PieceEnd(s) = Find("&", s, N)
      BY <3>2 DEF PieceEnd
    <3>4. to <= k
      BY <3>2, <3>3 DEF IsPiece
    <3>5. QED
      BY <1>2, <2>1, <3>4
  <2>2. QED
    BY <2>1
<1>4. ASSUME NEW k \in Hits(key, s, to) PROVE k = s
  <2> SUFFICES ASSUME k # s PROVE FALSE
    OBVIOUS
  <2>1. k \in Nat /\ k > s /\ k < to /\ query[k + 1] = key
    BY <1>2, <1>4 DEF Hits
  <2>2. k + 1 \in 2 .. Len(query) /\ (k + 1) - 1 = k /\ (k - 1) + 1 = k /\ k - 1 \in s .. to - 1
    BY <1>2, <2>1
  <2>3. query[k] = "&"
    BY <1>1, <1>4, <2>1, <2>2 DEF Documented
  <2>4. query[k] # "&"
    BY <1>3, <2>2
  <2>5. QED
    BY <2>3, <2>4
<1>5. ASSUME s < N, query[s + 1] = key
      PROVE  s < to /\ ParamEnd(s) = to /\ s + KeyLen(key) <= to
  <2>1. to # s
    <3>1. CASE to = N
      BY <1>2, <1>5, <3>1
    <3>2. CASE query[to + 1] = "&"
      BY <1>1, <1>5, <3>2
    <3>3. QED
      BY <3>1, <3>2 DEF IsPiece
  <2>2. ParamEnd(s) = to
    <3>1. CASE key = "keyword="
      <4>1. s \in Hits("keyword=", 0, N)
        BY <1>2, <1>5, <3>1 DEF Hits
      <4>2. Find("&", s, N) = NPos
        BY <4>1 DEF Plain
      <4>3. QED
        BY <4>2 DEF IsPiece, PieceEnd, ParamEnd
    <3>2. CASE key # "keyword="
      BY <1>5, <3>2 DEF IsPiece, PieceEnd, ParamEnd
    <3>3. QED
      BY <3>1, <3>2
  <2>3. PICK L \in {7, 8} : L = KeyLen(key)
    BY DEF KeyLen
  <2>4. s + 1 \in 1 .. Len(query)
    BY <1>2, <1>5
  <2>5. /\ (s + 1) + L - 1 <= Len(query)
        /\ \A j \in (s + 1) + 1 .. (s + 1) + L - 1 : query[j] = "_"
    <3>1. WellLabelled(query) /\ query[s + 1] \in Keys /\ KeyLen(query[s + 1]) = L
      BY <1>1, <1>5, <2>3 DEF TypeOK
    <3>2. QED
      BY <2>4, <3>1 DEF WellLabelled
  <2>6. s + L <= to
    <3> SUFFICES ASSUME to < s + L PROVE FALSE
      BY <1>2, <2>3
    <3>1. to < N /\ to + 1 \in (s + 1) + 1 .. (s + 1) + L - 1
      <4>1. (s + 1) + L - 1 <= Len(query)
        BY <2>5
      <4>2. QED
        BY <1>2, <2>1, <2>3, <4>1
    <3>2. query[to + 1] = "_"
      BY <2>5, <3>1
    <3>3. query[to + 1] = "&"
      BY <1>2, <3>1 DEF IsPiece
    <3>4. QED
      BY <3>2, <3>3
  <2>7. s < to
    BY <1>2, <2>1
  <2>8. QED
    BY <2>2, <2>3, <2>6, <2>7
<1>6. s \in Hits(key, s, to) <=> s < N /\ query[s + 1] = key
  BY <1>2, <1>5 DEF Hits
<1>7. QED
  BY <1>4, <1>5, <1>6

\* The parameter `key' starts at offset s.
Here(s, key) == s < N /\ query[s + 1] = key
\* The value of the last parameter named `key' that starts before u, an empty
\* one included: what QueryAnalyseNew keeps.
LastIn(key, u) ==
  IF Hits(key, 0, u) = {} THEN NoText
  ELSE <<Max(Hits(key, 0, u)) + KeyLen(key), ParamEnd(Max(Hits(key, 0, u)))>>

\* What find returns in a piece: its start, if the key is there.
LEMMA FindInPiece ==
  ASSUME Plain, NEW s \in Nat, NEW to \in Nat, IsPiece(s, to), NEW key \in Keys
  PROVE  IF Here(s, key) THEN Find(key, s, to) = s ELSE Find(key, s, to) = NPos
<1>1. Hits(key, s, to) = IF Here(s, key) THEN {s} ELSE {}
  BY KeyAtStart DEF Here
<1>2. QED
  BY <1>1, FindIsFirst

\* The parameters in front of the next piece are those in front of this one
\* and the one that this piece holds.
LEMMA OneMorePiece ==
  ASSUME Plain, NEW s \in Nat, NEW to \in Nat, IsPiece(s, to), NEW key \in Keys,
         NEW u \in Nat, u = to \/ (u = to + 1 /\ query[to + 1] = "&")
  PROVE  /\ Hits(key, 0, u) = Hits(key, 0, s) \cup (IF Here(s, key) THEN {s} ELSE {})
         /\ LastGiven(key, u) = IF Here(s, key) /\ s + KeyLen(key) < to
                                THEN <<s + KeyLen(key), to>> ELSE LastGiven(key, s)
         /\ LastIn(key, u) = IF Here(s, key) THEN <<s + KeyLen(key), to>> ELSE LastIn(key, s)
<1>1. s <= to
  BY DEF IsPiece
<1>2. u = to + 1 => query[to + 1] # key
  BY DEF Keys
<1>3. Hits(key, 0, u) = Hits(key, 0, s) \cup Hits(key, s, to)
  BY <1>1, <1>2 DEF Hits
<1>4. Hits(key, s, to) = IF Here(s, key) THEN {s} ELSE {}
  BY KeyAtStart DEF Here
<1>5. Here(s, key) => ParamEnd(s) = to
  BY KeyAtStart DEF Here
<1>6. Hits(key, 0, s) \in SUBSET Nat /\ \A i \in Hits(key, 0, s) : i < s
  BY DEF Hits
<1>7. LastIn(key, u) = IF Here(s, key) THEN <<s + KeyLen(key), to>> ELSE LastIn(key, s)
  <2>1. CASE Here(s, key)
    <3>1. Hits(key, 0, u) = Hits(key, 0, s) \cup {s}
      BY <1>3, <1>4, <2>1
    <3>2. Hits(key, 0, u) \in SUBSET Nat /\ s \in Hits(key, 0, u)
          /\ \A i \in Hits(key, 0, u) : i <= s
      BY <1>6, <3>1
    <3>3. Max(Hits(key, 0, u)) = s
      BY <3>2, MaxIs
    <3>4. Hits(key, 0, u) # {}
      BY <3>2
    <3>5. QED
      BY <1>5, <2>1, <3>3, <3>4 DEF LastIn
  <2>2. CASE ~Here(s, key)
    BY <1>3, <1>4, <2>2 DEF LastIn
  <2>3. QED
    BY <2>1, <2>2
<1>8. LastGiven(key, u) = IF Here(s, key) /\ s + KeyLen(key) < to
                          THEN <<s + KeyLen(key), to>> ELSE LastGiven(key, s)
  <2>1. CASE Here(s, key) /\ s + KeyLen(key) < to
    <3>1. Given(key, u) = Given(key, s) \cup {s}
      BY <1>3, <1>4, <1>5, <2>1 DEF Given
    <3>2. Given(key, s) \subseteq Hits(key, 0, s)
      BY DEF Given
    <3>3. Given(key, u) \in SUBSET Nat /\ s \in Given(key, u)
          /\ \A i \in Given(key, u) : i <= s
      BY <1>6, <3>1, <3>2
    <3>4. Max(Given(key, u)) = s
      BY <3>3, MaxIs
    <3>5. Given(key, u) # {}
      BY <3>3
    <3>6. QED
      BY <1>5, <2>1, <3>4, <3>5 DEF LastGiven
  <2>2. CASE ~(Here(s, key) /\ s + KeyLen(key) < to)
    <3>1. Given(key, u) = Given(key, s)
      BY <1>3, <1>4, <1>5, <2>2 DEF Given
    <3>2. QED
      BY <2>2, <3>1 DEF LastGiven
  <2>3. QED
    BY <2>1, <2>2
<1>9. QED
  BY <1>3, <1>4, <1>7, <1>8

\* The two loops, as ParseVersions names them, and what either is to have
\* recorded of the parameters before u.
Versions == {"anywhere", "in front"}
Passed(version, u) ==
  IF version = "anywhere"
  THEN [shopid |-> LastGiven("shopid=", u), buyerid |-> LastGiven("buyerid=", u),
        encode |-> LastGiven("encode=", u), keyword |-> LastGiven("keyword=", u),
        isBuyer |-> Hits("buyerid=", 0, u) # {}]
  ELSE [shopid |-> LastIn("shopid=", u), buyerid |-> LastIn("buyerid=", u),
        encode |-> LastIn("encode=", u), keyword |-> LastIn("keyword=", u),
        isBuyer |-> Hits("buyerid=", 0, u) # {}]

\* Before the first piece nothing is recorded.
LEMMA PassedNothing ==
  ASSUME NEW version
  PROVE  Passed(version, 0) = NoFields
<1>1. \A key : Hits(key, 0, 0) = {}
  BY DEF Hits
<1>2. \A key : LastGiven(key, 0) = NoText /\ LastIn(key, 0) = NoText
  BY <1>1 DEF LastGiven, Given, LastIn
<1>3. QED
  BY <1>1, <1>2 DEF Passed, NoFields

\* One iteration of MultiThreadTest records the parameter of its piece.
LEMMA TakesAnywhere ==
  ASSUME Plain, NEW s \in Nat, NEW to \in Nat, IsPiece(s, to),
         NEW u \in Nat, u = to \/ (u = to + 1 /\ query[to + 1] = "&")
  PROVE  TakeAnywhere(Passed("anywhere", s), s) = Passed("anywhere", u)
<1> DEFINE has(key) == Find(key, s, to) # NPos
           value(key) == <<Find(key, s, to) + KeyLen(key), to>>
           hasValue(key) == has(key) /\ value(key)[1] < to
           old == Passed("anywhere", s)
<1>1. PieceEnd(s) = to
  BY DEF IsPiece
<1>2. TakeAnywhere(old, s) =
        CASE hasValue("shopid=") -> [old EXCEPT !.shopid = value("shopid=")]
          [] ~hasValue("shopid=") /\ has("buyerid=") ->
               [old EXCEPT !.isBuyer = TRUE,
                           !.buyerid = IF hasValue("buyerid=") THEN value("buyerid=") ELSE @]
          [] ~hasValue("shopid=") /\ ~has("buyerid=") /\ hasValue("encode=") ->
               [old EXCEPT !.encode = value("encode=")]
          [] ~hasValue("shopid=") /\ ~has("buyerid=") /\ ~hasValue("encode=")
             /\ hasValue("keyword=") ->
               [old EXCEPT !.keyword = value("keyword=")]
          [] OTHER -> old
  BY <1>1 DEF TakeAnywhere
<1>3. ASSUME NEW key \in Keys
      PROVE  /\ has(key) <=> Here(s, key)
             /\ Here(s, key) => value(key) = <<s + KeyLen(key), to>>
             /\ hasValue(key) <=> Here(s, key) /\ s + KeyLen(key) < to
  BY FindInPiece DEF NPos
<1> HIDE DEF has, value, hasValue
<1>4. ASSUME NEW key \in Keys
      PROVE  /\ Hits(key, 0, u) = Hits(key, 0, s) \cup (IF Here(s, key) THEN {s} ELSE {})
             /\ LastGiven(key, u) = IF hasValue(key) THEN value(key) ELSE LastGiven(key, s)
  BY <1>3, OneMorePiece
<1>5. ASSUME NEW key \in Keys, NEW other \in Keys, has(key), key # other
      PROVE  ~has(other) /\ ~hasValue(other)
  BY <1>3, <1>5 DEF Here
<1>6. "keyword=" \in Keys /\ "shopid=" \in Keys /\ "buyerid=" \in Keys /\ "encode=" \in Keys
  BY DEF Keys
<1>7. (Hits("buyerid=", 0, u) # {}) = (Hits("buyerid=", 0, s) # {} \/ has("buyerid="))
  BY <1>3, <1>4, <1>6
<1>8. ASSUME NEW key \in Keys PROVE hasValue(key) => has(key)
  BY <1>3
<1>9. old = [shopid |-> LastGiven("shopid=", s), buyerid |-> LastGiven("buyerid=", s),
             encode |-> LastGiven("encode=", s), keyword |-> LastGiven("keyword=", s),
             isBuyer |-> Hits("buyerid=", 0, s) # {}]
  BY DEF Passed
<1>10. Passed("anywhere", u) =
         [shopid |-> LastGiven("shopid=", u), buyerid |-> LastGiven("buyerid=", u),
          encode |-> LastGiven("encode=", u), keyword |-> LastGiven("keyword=", u),
          isBuyer |-> Hits("buyerid=", 0, u) # {}]
  BY DEF Passed
<1> HIDE DEF old
<1>11. CASE hasValue("shopid=")
  <2>1. ~has("buyerid=") /\ ~hasValue("buyerid=") /\ ~hasValue("encode=") /\ ~hasValue("keyword=")
    BY <1>5, <1>6, <1>8, <1>11
  <2>2. TakeAnywhere(old, s) = [old EXCEPT !.shopid = value("shopid=")]
    BY <1>2, <1>11, <2>1
  <2>3. QED
    BY <1>4, <1>6, <1>7, <1>9, <1>10, <1>11, <2>1, <2>2 DEF old
<1>12. CASE has("buyerid=")
  <2>1. ~hasValue("shopid=") /\ ~hasValue("encode=") /\ ~hasValue("keyword=")
    BY <1>5, <1>6, <1>12
  <2>2. TakeAnywhere(old, s) =
          [old EXCEPT !.isBuyer = TRUE,
                      !.buyerid = IF hasValue("buyerid=") THEN value("buyerid=") ELSE @]
    BY <1>2, <1>12, <2>1
  <2>3. TakeAnywhere(old, s) =
          [shopid |-> LastGiven("shopid=", s), buyerid |-> LastGiven("buyerid=", u),
           encode |-> LastGiven("encode=", s), keyword |-> LastGiven("keyword=", s),
           isBuyer |-> TRUE]
    BY <1>4, <1>6, <1>9, <2>2
  <2>4. (Hits("buyerid=", 0, u) # {}) = TRUE
    BY <1>7, <1>12
  <2>5. Passed("anywhere", u) =
         [shopid |-> LastGiven("shopid=", u), buyerid |-> LastGiven("buyerid=", u),
          encode |-> LastGiven("encode=", u), keyword |-> LastGiven("keyword=", u),
          isBuyer |-> TRUE]
    BY <1>10, <2>4
  <2>6. QED
    BY <1>4, <1>6, <2>1, <2>3, <2>5 DEF old
<1>13. CASE hasValue("encode=")
  <2>1. ~has("buyerid=") /\ ~hasValue("buyerid=") /\ ~hasValue("shopid=") /\ ~hasValue("keyword=")
    BY <1>5, <1>6, <1>8, <1>13
  <2>2. TakeAnywhere(old, s) = [old EXCEPT !.encode = value("encode=")]
    BY <1>2, <1>13, <2>1
  <2>3. QED
    BY <1>4, <1>6, <1>7, <1>9, <1>10, <1>13, <2>1, <2>2 DEF old
<1>14. CASE hasValue("keyword=")
  <2>1. ~has("buyerid=") /\ ~hasValue("buyerid=") /\ ~hasValue("shopid=") /\ ~hasValue("encode=")
    BY <1>5, <1>6, <1>8, <1>14
  <2>2. TakeAnywhere(old, s) = [old EXCEPT !.keyword = value("keyword=")]
    BY <1>2, <1>14, <2>1
  <2>3. QED
    BY <1>4, <1>6, <1>7, <1>9, <1>10, <1>14, <2>1, <2>2 DEF old
<1>15. CASE ~hasValue("shopid=") /\ ~has("buyerid=") /\ ~hasValue("encode=") /\ ~hasValue("keyword=")
  <2>1. TakeAnywhere(old, s) = old
    BY <1>2, <1>15
  <2>2. ~hasValue("buyerid=")
    BY <1>6, <1>8, <1>15
  <2>3. QED
    BY <1>4, <1>6, <1>7, <1>9, <1>10, <1>15, <2>1, <2>2 DEF old
<1>16. QED
  BY <1>11, <1>12, <1>13, <1>14, <1>15 DEF old

\* One iteration of QueryAnalyseNew records the parameter of its piece.
LEMMA TakesInFront ==
  ASSUME Plain, NEW s \in Nat, NEW to \in Nat, IsPiece(s, to),
         NEW u \in Nat, u = to \/ (u = to + 1 /\ query[to + 1] = "&")
  PROVE  TakeInFront(Passed("in front", s), s) = Passed("in front", u)
<1> DEFINE key == IF s < N THEN query[s + 1] ELSE "_"
           value == <<s + KeyLen(key), to>>
           old == Passed("in front", s)
<1>1. PieceEnd(s) = to
  BY DEF IsPiece
<1>2. TakeInFront(old, s) =
        CASE key = "shopid=" -> [old EXCEPT !.shopid = value]
          [] key = "buyerid=" -> [old EXCEPT !.buyerid = value, !.isBuyer = TRUE]
          [] key = "encode=" -> [old EXCEPT !.encode = value]
          [] key = "keyword=" -> [old EXCEPT !.keyword = value]
          [] OTHER -> old
  BY <1>1 DEF TakeInFront
<1>3. \A k \in Keys : Here(s, k) <=> k = key
  BY DEF Here, Keys
<1> HIDE DEF key
<1>4. ASSUME NEW k \in Keys
      PROVE  /\ Hits(k, 0, u) = Hits(k, 0, s) \cup (IF k = key THEN {s} ELSE {})
             /\ LastIn(k, u) = IF k = key THEN value ELSE LastIn(k, s)
  BY <1>3, OneMorePiece
<1> HIDE DEF value
<1>5. "keyword=" \in Keys /\ "shopid=" \in Keys /\ "buyerid=" \in Keys /\ "encode=" \in Keys
  BY DEF Keys
<1>6. (Hits("buyerid=", 0, u) # {}) = (Hits("buyerid=", 0, s) # {} \/ key = "buyerid=")
  BY <1>4, <1>5
<1>7. old = [shopid |-> LastIn("shopid=", s), buyerid |-> LastIn("buyerid=", s),
             encode |-> LastIn("encode=", s), keyword |-> LastIn("keyword=", s),
             isBuyer |-> Hits("buyerid=", 0, s) # {}]
  BY DEF Passed
<1>8. Passed("in front", u) =
        [shopid |-> LastIn("shopid=", u), buyerid |-> LastIn("buyerid=", u),
         encode |-> LastIn("encode=", u), keyword |-> LastIn("keyword=", u),
         isBuyer |-> Hits("buyerid=", 0, u) # {}]
  BY DEF Passed
<1> HIDE DEF old
<1>9. CASE key = "shopid="
  <2>1. TakeInFront(old, s) = [old EXCEPT !.shopid = value]
    BY <1>2, <1>9
  <2>2. TakeInFront(old, s) =
          [shopid |-> value, buyerid |-> LastIn("buyerid=", s),
           encode |-> LastIn("encode=", s), keyword |-> LastIn("keyword=", s),
           isBuyer |-> Hits("buyerid=", 0, s) # {}]
    BY <1>7, <2>1
  <2>3. (Hits("buyerid=", 0, u) # {}) = (Hits("buyerid=", 0, s) # {})
    BY <1>6, <1>9
  <2>4. LastIn("shopid=", u) = value /\ LastIn("buyerid=", u) = LastIn("buyerid=", s)
        /\ LastIn("encode=", u) = LastIn("encode=", s)
        /\ LastIn("keyword=", u) = LastIn("keyword=", s)
    BY <1>4, <1>5, <1>9
  <2>5. QED
    BY <1>8, <2>2, <2>3, <2>4 DEF old
<1>10. CASE key = "buyerid="
  <2>1. TakeInFront(old, s) = [old EXCEPT !.buyerid = value, !.isBuyer = TRUE]
    BY <1>2, <1>10
  <2>2. TakeInFront(old, s) =
          [shopid |-> LastIn("shopid=", s), buyerid |-> value,
           encode |-> LastIn("encode=", s), keyword |-> LastIn("keyword=", s),
           isBuyer |-> TRUE]
    BY <1>7, <2>1
  <2>3. (Hits("buyerid=", 0, u) # {}) = TRUE
    BY <1>6, <1>10
  <2>4. LastIn("buyerid=", u) = value /\ LastIn("shopid=", u) = LastIn("shopid=", s)
        /\ LastIn("encode=", u) = LastIn("encode=", s)
        /\ LastIn("keyword=", u) = LastIn("keyword=", s)
    BY <1>4, <1>5, <1>10
  <2>5. QED
    BY <1>8, <2>2, <2>3, <2>4 DEF old
<1>11. CASE key = "encode="
  <2>1. TakeInFront(old, s) = [old EXCEPT !.encode = value]
    BY <1>2, <1>11
  <2>2. TakeInFront(old, s) =
          [shopid |-> LastIn("shopid=", s), buyerid |-> LastIn("buyerid=", s),
           encode |-> value, keyword |-> LastIn("keyword=", s),
           isBuyer |-> Hits("buyerid=", 0, s) # {}]
    BY <1>7, <2>1
  <2>3. (Hits("buyerid=", 0, u) # {}) = (Hits("buyerid=", 0, s) # {})
    BY <1>6, <1>11
  <2>4. LastIn("encode=", u) = value /\ LastIn("shopid=", u) = LastIn("shopid=", s)
        /\ LastIn("buyerid=", u) = LastIn("buyerid=", s)
        /\ LastIn("keyword=", u) = LastIn("keyword=", s)
    BY <1>4, <1>5, <1>11
  <2>5. QED
    BY <1>8, <2>2, <2>3, <2>4 DEF old
<1>12. CASE key = "keyword="
  <2>1. TakeInFront(old, s) = [old EXCEPT !.keyword = value]
    BY <1>2, <1>12
  <2>2. TakeInFront(old, s) =
          [shopid |-> LastIn("shopid=", s), buyerid |-> LastIn("buyerid=", s),
           encode |-> LastIn("encode=", s), keyword |-> value,
           isBuyer |-> Hits("buyerid=", 0, s) # {}]
    BY <1>7, <2>1
  <2>3. (Hits("buyerid=", 0, u) # {}) = (Hits("buyerid=", 0, s) # {})
    BY <1>6, <1>12
  <2>4. LastIn("keyword=", u) = value /\ LastIn("shopid=", u) = LastIn("shopid=", s)
        /\ LastIn("buyerid=", u) = LastIn("buyerid=", s)
        /\ LastIn("encode=", u) = LastIn("encode=", s)
    BY <1>4, <1>5, <1>12
  <2>5. QED
    BY <1>8, <2>2, <2>3, <2>4 DEF old
<1>13. CASE key \notin Keys
  <2>1. key # "shopid=" /\ key # "buyerid=" /\ key # "encode=" /\ key # "keyword="
    BY <1>13 DEF Keys
  <2>2. TakeInFront(old, s) = old
    BY <1>2, <2>1
  <2>3. QED
    BY <1>4, <1>5, <1>6, <1>7, <1>8, <2>1, <2>2 DEF old
<1>14. QED
  BY <1>9, <1>10, <1>11, <1>12, <1>13 DEF old, Keys

\* One iteration of either loop records the parameter of its piece.
LEMMA TakesPiece ==
  ASSUME Plain, NEW version \in Versions,
         NEW s \in Nat, NEW to \in Nat, IsPiece(s, to),
         NEW u \in Nat, u = to \/ (u = to + 1 /\ query[to + 1] = "&")
  PROVE  Take(version, Passed(version, s), s) = Passed(version, u)
<1>1. CASE version = "anywhere"
  BY <1>1, TakesAnywhere DEF Take
<1>2. CASE version = "in front"
  BY <1>2, TakesInFront DEF Take
<1>3. QED
  BY <1>1, <1>2 DEF Versions

\* Any offset of the request looks back to the start of a piece.
LEMMA LooksBack ==
  ASSUME TypeOK, NEW to \in 0 .. N
  PROVE  /\ PieceStart(to) \in 0 .. to
         /\ PieceStart(to) = 0 \/ query[PieceStart(to)] = "&"
<1> DEFINE S == {0} \cup {k + 1 : k \in Hits("&", 0, to)}
<1>1. N \in Nat /\ to \in Nat
  BY DEF TypeOK, N
<1>2. S \in SUBSET (0 .. to) /\ S # {}
  BY <1>1 DEF Hits
<1>3. Max(S) \in S
  <2> HIDE DEF S
  <2>1. QED
    BY <1>1, <1>2, MaxOf
<1>4. Max(S) = PieceStart(to)
  BY DEF PieceStart
<1>5. ASSUME NEW k \in Hits("&", 0, to) PROVE query[k + 1] = "&"
  BY DEF Hits
<1>6. QED
  BY <1>2, <1>3, <1>4, <1>5

\* The start of a piece behind the first is where the piece before it was left.
LEMMA PieceBefore ==
  ASSUME TypeOK, NEW s \in 1 .. N, query[s] = "&"
  PROVE  /\ s - 1 \in 0 .. N /\ query[(s - 1) + 1] = "&"
         /\ IsPiece(PieceStart(s - 1), s - 1)
         /\ PieceStart(s - 1) \in 0 .. s - 1
<1>1. N \in Nat
  BY DEF TypeOK, N
<1>2. s - 1 \in 0 .. N /\ (s - 1) + 1 = s
  BY <1>1
<1>3. IsPiece(PieceStart(s - 1), s - 1)
  BY <1>2, PieceOf
<1>4. QED
  BY <1>2, <1>3, LooksBack

\* The fields before the piece at `from' is handled, as the loop computes them.
FieldsStep(version, f, from) ==
  IF from = 0 THEN NoFields
  ELSE Take(version, f[PieceStart(from - 1)], PieceStart(from - 1))

\* There is a table of the fields before each piece.
LEMMA TableExists ==
  ASSUME Plain, NEW version \in Versions
  PROVE  \E f : f = [from \in 0 .. N |-> FieldsStep(version, f, from)]
<1> DEFINE g == [from \in 0 .. N |->
                   IF from = 0 THEN NoFields
                   ELSE Take(version, Passed(version, PieceStart(from - 1)),
                             PieceStart(from - 1))]
<1>1. TypeOK
  BY DEF Plain
<1>2. N \in Nat
  BY <1>1 DEF TypeOK, N
<1>3. ASSUME NEW s \in 0 .. N, s = 0 \/ query[s] = "&"
      PROVE  g[s] = Passed(version, s)
  <2>1. CASE s = 0
    BY <2>1, PassedNothing
  <2>2. CASE s # 0
    <3>1. s \in 1 .. N
      BY <1>2, <2>2
    <3>2. PICK b \in Nat, e \in Nat : b = PieceStart(s - 1) /\ e = s - 1
      BY <1>1, <1>2, <1>3, <2>2, <3>1, PieceBefore
    <3>3. IsPiece(b, e) /\ query[e + 1] = "&"
      BY <1>1, <1>3, <2>2, <3>1, <3>2, PieceBefore
    <3>4. s \in Nat /\ s = e + 1
      BY <1>2, <3>1, <3>2
    <3>5. Take(version, Passed(version, b), b) = Passed(version, s)
      BY <3>3, <3>4, TakesPiece
    <3>6. g[s] = Take(version, Passed(version, b), b)
      BY <2>2, <3>2
    <3>7. QED
      BY <3>5, <3>6
  <2>3. QED
    BY <2>1, <2>2
<1>4. ASSUME NEW from \in 0 .. N PROVE g[from] = FieldsStep(version, g, from)
  <2>1. CASE from = 0
    BY <2>1 DEF FieldsStep
  <2>2. CASE from # 0
    <3>1. from - 1 \in 0 .. N
      BY <1>2, <2>2
    <3>2. PICK b : b = PieceStart(from - 1)
      OBVIOUS
    <3>3. b \in 0 .. N /\ (b = 0 \/ query[b] = "&")
      BY <1>1, <1>2, <3>1, <3>2, LooksBack
    <3>4. g[b] = Passed(version, b)
      BY <1>3, <3>3
    <3>5. g[from] = Take(version, Passed(version, b), b)
      BY <2>2, <3>2
    <3>6. FieldsStep(version, g, from) = Take(version, g[b], b)
      BY <2>2, <3>2 DEF FieldsStep
    <3>7. QED
      BY <3>4, <3>5, <3>6
  <2>3. QED
    BY <2>1, <2>2
<1>5. g = [from \in 0 .. N |-> g[from]]
  OBVIOUS
<1> HIDE DEF g
<1>6. g = [from \in 0 .. N |-> FieldsStep(version, g, from)]
  BY <1>4, <1>5
<1>7. QED
  BY <1>6

\* At its end either loop has recorded what the request says.
LEMMA LoopRecords ==
  ASSUME Plain, NEW version \in Versions
  PROVE  LoopResult(version) = Passed(version, N)
<1> DEFINE Def(f) == [from \in 0 .. N |->
                        IF from = 0 THEN NoFields
                        ELSE LET last == PieceStart(from - 1) IN Take(version, f[last], last)]
           before == CHOOSE f : f = Def(f)
<1>1. PICK f : f = [from \in 0 .. N |-> FieldsStep(version, f, from)]
  BY TableExists
<1>2. f = Def(f)
  BY <1>1 DEF FieldsStep
<1>3. before = Def(before)
  BY <1>2
<1>4. LoopResult(version) = Take(version, before[PieceStart(N)], PieceStart(N))
  BY DEF LoopResult
<1> HIDE DEF before
<1>5. \A from \in 0 .. N : before[from] = FieldsStep(version, before, from)
  BY <1>3 DEF FieldsStep
<1> HIDE DEF Def
<1>6. TypeOK
  BY DEF Plain
<1>7. N \in Nat
  BY <1>6 DEF TypeOK, N
<1> DEFINE Wrong == {s \in 0 .. N : (s = 0 \/ query[s] = "&") /\ before[s] # Passed(version, s)}
<1>8. Wrong = {}
  <2> SUFFICES ASSUME Wrong # {} PROVE FALSE
    OBVIOUS
  <2>1. Wrong \in SUBSET Nat
    OBVIOUS
  <2>2. PICK s \in Wrong : \A y \in Wrong : s <= y
    <3> HIDE DEF Wrong
    <3>1. QED
      BY <2>1, MinOfNats
  <2>3. s \in 0 .. N /\ (s = 0 \/ query[s] = "&") /\ before[s] # Passed(version, s)
    OBVIOUS
  <2> HIDE DEF Wrong
  <2>4. s # 0
    <3>1. 0 \in 0 .. N
      BY <1>7
    <3>2. before[0] = NoFields
      BY <1>5, <3>1 DEF FieldsStep
    <3>3. QED
      BY <2>3, <3>2, PassedNothing
  <2>5. s \in 1 .. N
    BY <1>7, <2>3, <2>4
  <2>6. PieceStart(s - 1) \in 0 .. s - 1
    BY <1>6, <2>3, <2>4, <2>5, PieceBefore
  <2>7. PICK b \in Nat, e \in Nat : b = PieceStart(s - 1) /\ e = s - 1
    BY <1>7, <2>5, <2>6
  <2>8. s \in Nat /\ s = e + 1 /\ b < s /\ b \in 0 .. N
    BY <1>7, <2>5, <2>7, <2>6
  <2>9. IsPiece(b, e) /\ query[e + 1] = "&"
    BY <1>6, <2>3, <2>4, <2>5, <2>7, PieceBefore
  <2>10. b \in 0 .. N /\ (b = 0 \/ query[b] = "&")
    BY <2>8, <2>9 DEF IsPiece
  <2>11. before[b] = Passed(version, b)
    <3>1. b \notin Wrong
      <4>1. b \in Wrong => s <= b
        BY <2>2
      <4>2. QED
        BY <2>8, <4>1
    <3>2. QED
      BY <2>10, <3>1 DEF Wrong
  <2>12. before[s] = Take(version, before[b], b)
    BY <1>5, <2>3, <2>4, <2>7 DEF FieldsStep
  <2>13. Take(version, Passed(version, b), b) = Passed(version, s)
    BY <2>8, <2>9, TakesPiece
  <2>14. QED
    BY <2>3, <2>11, <2>12, <2>13
<1>9. \A s \in 0 .. N : s = 0 \/ query[s] = "&" => before[s] = Passed(version, s)
  BY <1>8
<1> HIDE DEF Wrong
<1>10. PICK b : b = PieceStart(N)
  OBVIOUS
<1>11. IsPiece(b, N) /\ b \in 0 .. N /\ (b = 0 \/ query[b] = "&")
  <2>1. N \in 0 .. N
    BY <1>7
  <2>2. QED
    BY <1>6, <1>10, <2>1, PieceOf, LooksBack
<1>12. before[b] = Passed(version, b)
  BY <1>11, <1>9
<1>13. Take(version, Passed(version, b), b) = Passed(version, N)
  <2>1. b \in Nat
    BY <1>7, <1>11
  <2>2. QED
    BY <1>7, <1>11, <2>1, TakesPiece
<1>14. QED
  BY <1>4, <1>10, <1>12, <1>13

\* A set that has at most one element has no two.
LEMMA AtMostOne ==
  ASSUME NEW S, IsFiniteSet(S), Cardinality(S) <= 1, NEW x \in S, NEW y \in S
  PROVE  x = y
<1> SUFFICES ASSUME x # y PROVE FALSE
  OBVIOUS
<1>1. IsFiniteSet({x}) /\ Cardinality({x}) = 1
  BY FS_Singleton
<1>2. IsFiniteSet({x} \cup {y}) /\ Cardinality({x} \cup {y}) = 2
  <2>1. y \notin {x}
    OBVIOUS
  <2>2. PICK s : s = {x}
    OBVIOUS
  <2>3. IsFiniteSet(s) /\ Cardinality(s) = 1 /\ y \notin s
    BY <1>1, <2>1, <2>2
  <2>4. IsFiniteSet(s \cup {y}) /\ Cardinality(s \cup {y}) = Cardinality(s) + 1
    BY <2>3, FS_AddElement
  <2>5. QED
    BY <2>2, <2>3, <2>4
<1>3. {x} \cup {y} \subseteq S
  OBVIOUS
<1>4. 2 <= Cardinality(S) /\ Cardinality(S) \in Nat
  BY <1>2, <1>3, FS_Subset, FS_CardinalityType
<1>5. QED
  BY <1>4

\* A key anywhere in the request has all its letters before its parameter ends.
LEMMA KeyFits ==
  ASSUME Plain, NEW key \in Keys, NEW i \in Hits(key, 0, N)
  PROVE  i \in Nat /\ ParamEnd(i) \in Nat /\ i + KeyLen(key) <= ParamEnd(i)
<1>1. TypeOK /\ Documented(query)
  BY DEF Plain
<1>2. N \in Nat /\ N = Len(query)
  BY <1>1 DEF TypeOK, N
<1>3. i \in Nat /\ i < N /\ query[i + 1] = key
  BY <1>2 DEF Hits
<1>4. i = 0 \/ query[i] = "&"
  <2> SUFFICES ASSUME i # 0 PROVE query[i] = "&"
    OBVIOUS
  <2>1. i + 1 \in 2 .. Len(query) /\ (i + 1) - 1 = i
    BY <1>2, <1>3
  <2>2. query[(i + 1) - 1] = "&"
    BY <1>1, <1>3, <2>1 DEF Documented
  <2>3. QED
    BY <2>1, <2>2
<1>5. PICK to \in Nat : /\ to = PieceEnd(i) /\ to <= N /\ i <= to
                        /\ to = N \/ query[to + 1] = "&"
  <2>1. CASE Find("&", i, N) = NPos
    BY <1>2, <1>3, <2>1 DEF PieceEnd
  <2>2. CASE Find("&", i, N) # NPos
    <3>1. Find("&", i, N) \in Hits("&", i, N) /\ Find("&", i, N) \in i .. N - 1
      BY <1>2, <1>3, <2>2, FindIsFirst
    <3>2. query[Find("&", i, N) + 1] = "&"
      BY <3>1 DEF Hits
    <3>3. QED
      BY <1>2, <1>3, <2>2, <3>1, <3>2 DEF PieceEnd
  <2>3. QED
    BY <2>1, <2>2
<1>6. IsPiece(i, to)
  <2>1. to \in 0 .. N /\ i \in 0 .. to
    BY <1>2, <1>3, <1>5
  <2>2. QED
    BY <1>4, <1>5, <2>1 DEF IsPiece
<1>7. ParamEnd(i) = to /\ i + KeyLen(key) <= to
  BY <1>3, <1>6, KeyAtStart
<1>8. QED
  BY <1>3, <1>7

\* If no key comes twice, keeping an empty value instead of none is all that
\* QueryAnalyseNew does differently.
LEMMA OnceIsSame ==
  ASSUME Plain, NEW key \in Keys, Cardinality(Hits(key, 0, N)) <= 1
  PROVE  SameText(LastIn(key, N), LastGiven(key, N))
<1>1. N \in Nat
  BY DEF Plain, TypeOK, N
<1>2. CASE Hits(key, 0, N) = {}
  <2>1. LastIn(key, N) = NoText /\ LastGiven(key, N) = NoText
    BY <1>2 DEF LastIn, LastGiven, Given
  <2>2. QED
    BY <2>1 DEF SameText
<1>3. CASE Hits(key, 0, N) # {}
  <2>1. PICK i : i \in Hits(key, 0, N)
    BY <1>3
  <2>2. IsFiniteSet(Hits(key, 0, N))
    <3>1. IsFiniteSet(0 .. N - 1)
      BY <1>1, FS_Interval
    <3>2. QED
      BY <3>1, FS_Subset DEF Hits
  <2>3. \A j \in Hits(key, 0, N) : j = i
    BY <2>1, <2>2, AtMostOne
  <2>4. i \in Nat /\ ParamEnd(i) \in Nat /\ i + KeyLen(key) <= ParamEnd(i)
    BY <2>1, KeyFits
  <2>5. KeyLen(key) \in Nat
    BY DEF KeyLen
  <2>6. Hits(key, 0, N) = {i}
    BY <2>1, <2>3
  <2>7. Max({i}) = i
    <3>1. {i} \in SUBSET Nat /\ i \in {i} /\ \A x \in {i} : x <= i
      BY <2>4
    <3>2. QED
      BY <3>1, MaxIs
  <2>8. LastIn(key, N) = <<i + KeyLen(key), ParamEnd(i)>>
    BY <2>6, <2>7 DEF LastIn
  <2>9. CASE i + KeyLen(key) < ParamEnd(i)
    <3>1. Given(key, N) = {i}
      BY <2>6, <2>9 DEF Given
    <3>2. LastGiven(key, N) = <<i + KeyLen(key), ParamEnd(i)>>
      BY <2>7, <3>1 DEF LastGiven
    <3>3. QED
      BY <2>8, <3>2 DEF SameText
  <2>10. CASE ~(i + KeyLen(key) < ParamEnd(i))
    <3>1. Given(key, N) = {}
      BY <2>6, <2>10 DEF Given
    <3>2. LastGiven(key, N) = <<0, 0>>
      BY <3>1 DEF LastGiven, NoText
    <3>3. i + KeyLen(key) = ParamEnd(i)
      BY <2>4, <2>5, <2>10
    <3>4. QED
      BY <2>8, <3>2, <3>3 DEF SameText
  <2>11. QED
    BY <2>9, <2>10
<1>4. QED
  BY <1>2, <1>3

\* For every documented request whose keyword holds no '&' the loops of
\* MultiThreadTest and (if no key comes twice) of QueryAnalyseNew end with the
\* same parameters as the loop of test.cpp.
THEOREM VersionsRecordTheSame == Spec => []VersionsAgree
<1>1. TypeOK /\ FieldsRecovered => VersionsAgree
  <2> SUFFICES ASSUME TypeOK, FieldsRecovered, pc = "done", Documented(query),
                      \A k \in Hits("keyword=", 0, N) : Find("&", k, N) = NPos
               PROVE  /\ SameFields(LoopResult("anywhere"))
                      /\ (\A key \in Keys : Cardinality(Hits(key, 0, N)) <= 1) =>
                           SameFields(LoopResult("in front"))
    BY DEF VersionsAgree
  <2>1. Plain
    BY DEF Plain
  <2>2. /\ shopid = LastGiven("shopid=", N) /\ buyerid = LastGiven("buyerid=", N)
        /\ encode = LastGiven("encode=", N) /\ keyword = LastGiven("keyword=", N)
        /\ isBuyer = (Hits("buyerid=", 0, N) # {})
    BY DEF FieldsRecovered
  <2>3. "anywhere" \in Versions /\ "in front" \in Versions
    BY DEF Versions
  <2>4. SameFields(LoopResult("anywhere"))
    <3> DEFINE f == LoopResult("anywhere")
    <3>1. f = [shopid |-> LastGiven("shopid=", N), buyerid |-> LastGiven("buyerid=", N),
               encode |-> LastGiven("encode=", N), keyword |-> LastGiven("keyword=", N),
               isBuyer |-> Hits("buyerid=", 0, N) # {}]
      BY <2>1, <2>3, LoopRecords DEF Passed
    <3> HIDE DEF f
    <3>2. /\ f.shopid = shopid /\ f.buyerid = buyerid /\ f.encode = encode
          /\ f.keyword = keyword
      BY <2>2, <3>1
    <3>3. f.isBuyer = isBuyer
      BY <2>2, <3>1
    <3>4. QED
      BY <3>2, <3>3 DEF SameFields, SameText, f
  <2>5. ASSUME \A key \in Keys : Cardinality(Hits(key, 0, N)) <= 1
        PROVE  SameFields(LoopResult("in front"))
    <3> DEFINE f == LoopResult("in front")
    <3>1. f = [shopid |-> LastIn("shopid=", N), buyerid |-> LastIn("buyerid=", N),
               encode |-> LastIn("encode=", N), keyword |-> LastIn("keyword=", N),
               isBuyer |-> Hits("buyerid=", 0, N) # {}]
      BY <2>1, <2>3, LoopRecords DEF Passed
    <3> HIDE DEF f
    <3>2. /\ f.shopid = LastIn("shopid=", N) /\ f.buyerid = LastIn("buyerid=", N)
          /\ f.encode = LastIn("encode=", N) /\ f.keyword = LastIn("keyword=", N)
      BY <3>1
    <3>3. f.isBuyer = isBuyer
      BY <2>2, <3>1
    <3>4. \A key \in Keys : SameText(LastIn(key, N), LastGiven(key, N))
      BY <2>1, <2>5, OnceIsSame
    <3>5. /\ SameText(f.shopid, shopid) /\ SameText(f.buyerid, buyerid)
          /\ SameText(f.encode, encode) /\ SameText(f.keyword, keyword)
      BY <2>2, <3>2, <3>4 DEF Keys
    <3>6. QED
      BY <3>3, <3>5 DEF SameFields, f
  <2>6. QED
    BY <2>4, <2>5
<1>2. QED
  BY <1>1, TypeCorrect, RecoversFields, PTL
=============================================================================
