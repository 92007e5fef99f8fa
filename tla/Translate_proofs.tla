-------------------------- MODULE Translate_proofs --------------------------
(***************************************************************************)
(* The translation of a keyword in QueryAnalyseNew, for every dictionary,  *)
(* hash function, keyword and number of objects: the hash tables of TSDict *)
(* are the dictionary, and what Translate does with a text, given a        *)
(* function that looks up its characters.                                  *)
(***************************************************************************)
EXTENDS Translate, TSDict, SequenceTheorems, WellFoundedInduction, TLAPS

\* Every non-empty set of naturals has a least element, which Min chooses.
LEMMA MinOfNats ==
  ASSUME NEW S \in SUBSET Nat, S # {}
  PROVE  Min(S) \in S /\ \A y \in S : Min(S) <= y
<1> DEFINE Less == {p \in Nat \X Nat : p[1] < p[2]}
<1>1. IsWellFoundedOn(Less, Nat)
  BY NatLessThanWellFounded DEF OpToRel
<1>2. PICK x \in S : \A y \in S : <<y, x>> \notin Less
  BY <1>1, WFMin
<1>3. ASSUME NEW y \in S PROVE x <= y
  <2>1. <<y, x>> \in Nat \X Nat /\ <<y, x>>[1] = y /\ <<y, x>>[2] = x
    OBVIOUS
  <2>2. ~(y < x)
    BY <1>2, <2>1
  <2>3. QED
    BY <2>2
<1>4. QED
  BY <1>3 DEF Min

\* There is only one.
LEMMA MinIs ==
  ASSUME NEW S \in SUBSET Nat, NEW m \in S, \A x \in S : m <= x
  PROVE  Min(S) = m
<1>1. Min(S) \in S /\ Min(S) <= m
  BY MinOfNats
<1>2. Min(S) \in Nat /\ m \in Nat /\ m <= Min(S)
  BY <1>1
<1>3. QED
  BY <1>1, <1>2

-----------------------------------------------------------------------------
(* The dictionary.                                                         *)

\* As long as no two objects have been alive together, the nodes of all
\* generations are freed, but for those of an object that is alive.
DictInv ==
  /\ generation \in Nat /\ (alive # {} => generation > 0)
  /\ ~overlapped =>
       /\ ~misuse
       /\ \A a, b \in alive : a = b
       /\ freed = 1 .. (IF alive = {} THEN generation ELSE generation - 1)

\* Objects that live one after the other never touch a freed node, and when
\* the last one is destroyed every node of every TSinit has been freed.
THEOREM OneByOneIsSafe == DictSpec => []SafeOneByOne
<1>1. DictInit => DictInv
  BY DEF DictInit, DictInv
<1>2. DictInv /\ [DictNext]_dictVars => DictInv'
  <2> SUFFICES ASSUME DictInv, [DictNext]_dictVars PROVE DictInv'
    OBVIOUS
  <2>1. ASSUME NEW o \in Objects, Construct(o) PROVE DictInv'
    <3>1. CASE overlapped'
      BY <2>1, <3>1 DEF Construct, DictInv, NextGeneration
    <3>2. CASE ~overlapped'
      <4>1. ~overlapped /\ alive = {} /\ freed = 1 .. generation /\ ~misuse /\ generation \in Nat
        BY <2>1, <3>2 DEF Construct, DictInv
      <4>2. alive' = {o} /\ generation' = generation + 1 /\ freed' = freed /\ misuse' = misuse
        BY <2>1, <4>1 DEF Construct, NextGeneration
      <4>3. freed' = 1 .. generation' - 1
        BY <4>1, <4>2
      <4>4. QED
        BY <4>1, <4>2, <4>3 DEF DictInv
    <3>3. QED
      BY <3>1, <3>2
  <2>2. ASSUME NEW o \in Objects, Destroy(o) PROVE DictInv'
    <3>1. CASE overlapped
      BY <2>2, <3>1 DEF Destroy, DictInv
    <3>2. CASE ~overlapped
      <4>1. /\ alive = {o} /\ generation \in Nat /\ generation > 0
            /\ freed = 1 .. generation - 1 /\ ~misuse
        BY <2>2, <3>2 DEF Destroy, DictInv
      <4>2. /\ alive' = {} /\ generation' = generation /\ overlapped' = overlapped
            /\ freed' = freed \cup {generation}
            /\ misuse' = (misuse \/ generation \in freed)
        BY <2>2, <4>1 DEF Destroy, FreedNow
      <4>3. freed' = 1 .. generation /\ ~(generation \in freed)
        BY <4>1, <4>2
      <4>4. QED
        BY <3>2, <4>1, <4>2, <4>3 DEF DictInv
    <3>3. QED
      BY <3>1, <3>2
  <2>3. ASSUME NEW t \in Tables, NEW w \in Words, CheckTS(t, w) PROVE DictInv'
    <3>1. ~overlapped => ~(generation \in freed)
      BY <2>3 DEF CheckTS, DictInv
    <3>2. /\ UNCHANGED <<alive, overlapped, generation, freed>>
          /\ misuse' = (misuse \/ generation \in freed)
      BY <2>3 DEF CheckTS
    <3>3. QED
      BY <3>1, <3>2 DEF DictInv
  <2>4. CASE NoFile \/ ReadLine \/ ReadEnds \/ ReadAgain \/ Ended \/ UNCHANGED dictVars
    BY <2>4 DEF NoFile, ReadLine, ReadEnds, ReadAgain, Ended, dictVars, DictInv
  <2>5. QED
    BY <2>1, <2>2, <2>3, <2>4 DEF DictNext
<1>3. DictInv => SafeOneByOne
  BY DEF DictInv, SafeOneByOne
<1>4. QED
  BY <1>1, <1>2, <1>3, PTL DEF DictSpec

\* The places among the first k pairs of s at which w stands in column f, and
\* what column g says at the first of them, if there is one.
HitsOf(s, k, f, w) == {i \in 1 .. k : s[i][f] = w}
FirstOf(s, k, f, g, w) ==
  IF HitsOf(s, k, f, w) = {} THEN << >> ELSE << s[Min(HitsOf(s, k, f, w))][g] >>

\* The same when one more pair is looked at.
OnePairMore(r, s, k, f, g, w) ==
  FirstOf(r, k + 1, f, g, w) =
    IF FirstOf(s, k, f, g, w) # << >> THEN FirstOf(s, k, f, g, w)
    ELSE IF r[k + 1][f] = w THEN << r[k + 1][g] >> ELSE << >>

\* One more pair counts only if w has not been found before.
LEMMA FirstAdded ==
  ASSUME NEW k, NEW s, NEW r, NEW f, NEW g, NEW w,
         k \in Nat, \A i \in 1 .. k : r[i] = s[i]
  PROVE  OnePairMore(r, s, k, f, g, w)
<1> USE DEF OnePairMore
<1> DEFINE H == HitsOf(s, k, f, w)
           J == HitsOf(r, k + 1, f, w)
<1>1. J = IF r[k + 1][f] = w THEN H \cup {k + 1} ELSE H
  BY DEF HitsOf
<1>2. H \in SUBSET Nat /\ J \in SUBSET Nat /\ \A i \in H : i \in 1 .. k
  BY DEF HitsOf
<1>3. /\ FirstOf(s, k, f, g, w) = IF H = {} THEN << >> ELSE << s[Min(H)][g] >>
      /\ FirstOf(r, k + 1, f, g, w) = IF J = {} THEN << >> ELSE << r[Min(J)][g] >>
  BY DEF FirstOf
<1> HIDE DEF H, J
<1>4. CASE H # {}
  <2>1. Min(H) \in H /\ \A y \in H : Min(H) <= y
    BY <1>2, <1>4, MinOfNats
  <2>2. Min(H) \in 1 .. k /\ Min(H) \in J /\ \A y \in J : Min(H) <= y
    <3>1. Min(H) \in 1 .. k
      BY <1>2, <2>1
    <3>2. \A y \in J : y \in H \/ y = k + 1
      BY <1>1
    <3>3. QED
      BY <1>1, <2>1, <3>1, <3>2
  <2>3. Min(J) = Min(H)
    BY <1>2, <2>2, MinIs
  <2>4. r[Min(J)] = s[Min(H)] /\ J # {}
    BY <2>2, <2>3
  <2>5. QED
    BY <1>3, <1>4, <2>4
<1>5. CASE H = {} /\ r[k + 1][f] = w
  <2>1. J = {k + 1}
    BY <1>1, <1>5
  <2>2. Min(J) = k + 1
    BY <1>2, <2>1, MinIs
  <2>3. QED
    BY <1>3, <1>5, <2>1, <2>2
<1>6. CASE H = {} /\ r[k + 1][f] # w
  BY <1>1, <1>3, <1>6
<1>7. QED
  BY <1>4, <1>5, <1>6

From(t) == IF t = "ts" THEN 1 ELSE 2

\* Each table says of each word what the lines read so far say of it; a
\* constructor that returns has read them all.
TableInv ==
  /\ lines \in 0 .. Len(Dictionary)
  /\ lists \in [Tables -> [Slots -> Seq(Words \X Words)]]
  /\ \A t \in Tables, w \in Words :
       FirstOf(lists[t][Hash[w]], Len(lists[t][Hash[w]]), 1, 2, w)
         = FirstOf(Dictionary, lines, From(t), 3 - From(t), w)
  /\ phase = "idle" /\ alive # {} => lines = Len(Dictionary)
  /\ LookupIsDictionary

\* One line is entered into a table.
LEMMA LineEntered ==
  ASSUME TableInv, NEW t \in Tables, NEW key \in Words, NEW value \in Words,
         lines < Len(Dictionary),
         key = Dictionary[lines + 1][From(t)], value = Dictionary[lines + 1][3 - From(t)],
         NEW list, list = Insert(lists[t], key, value)
  PROVE  /\ list \in [Slots -> Seq(Words \X Words)]
         /\ \A w \in Words : FirstOf(list[Hash[w]], Len(list[Hash[w]]), 1, 2, w)
                               = FirstOf(Dictionary, lines + 1, From(t), 3 - From(t), w)
<1>1. /\ lists[t] \in [Slots -> Seq(Words \X Words)] /\ lines \in Nat
      /\ \A w \in Words : Hash[w] \in Slots
  <2>1. lists[t] \in [Slots -> Seq(Words \X Words)]
    BY DEF TableInv
  <2>2. lines \in Nat
    BY DEF TableInv
  <2>3. \A w \in Words : Hash[w] \in Slots
    BY DEF Slots
  <2>4. QED
    BY <2>1, <2>2, <2>3
<1> DEFINE chain == lists[t][Hash[key]]
           entry == <<key, value>>
<1>2. chain \in Seq(Words \X Words) /\ entry \in Words \X Words /\ Len(chain) \in Nat
  BY <1>1
<1>3. list = [lists[t] EXCEPT ![Hash[key]] = Append(chain, entry)]
  BY DEF Insert
<1> HIDE DEF chain, entry
<1>4. /\ Append(chain, entry) \in Seq(Words \X Words)
      /\ Len(Append(chain, entry)) = Len(chain) + 1
      /\ Append(chain, entry)[Len(chain) + 1] = entry
      /\ \A i \in 1 .. Len(chain) : Append(chain, entry)[i] = chain[i]
  BY <1>2
<1>5. list \in [Slots -> Seq(Words \X Words)]
  BY <1>1, <1>3, <1>4
<1>6. entry[1] = key /\ entry[2] = value
  BY DEF entry
<1>7. ASSUME NEW w \in Words
      PROVE  FirstOf(list[Hash[w]], Len(list[Hash[w]]), 1, 2, w)
               = FirstOf(Dictionary, lines + 1, From(t), 3 - From(t), w)
  <2>1. FirstOf(lists[t][Hash[w]], Len(lists[t][Hash[w]]), 1, 2, w)
          = FirstOf(Dictionary, lines, From(t), 3 - From(t), w)
    BY DEF TableInv
  <2>2. FirstOf(Dictionary, lines + 1, From(t), 3 - From(t), w) =
          IF FirstOf(Dictionary, lines, From(t), 3 - From(t), w) # << >>
          THEN FirstOf(Dictionary, lines, From(t), 3 - From(t), w)
          ELSE IF key = w THEN <<value>> ELSE << >>
    <3>1. \A i \in 1 .. lines : Dictionary[i] = Dictionary[i]
      OBVIOUS
    <3>2. OnePairMore(Dictionary, Dictionary, lines, From(t), 3 - From(t), w)
      BY <1>1, <3>1, FirstAdded, Zenon
    <3>3. QED
      BY <3>2 DEF OnePairMore
  <2>3. CASE Hash[w] = Hash[key]
    <3>1. list[Hash[w]] = Append(chain, entry) /\ lists[t][Hash[w]] = chain
      BY <1>1, <1>3, <2>3 DEF chain
    <3>2. FirstOf(Append(chain, entry), Len(chain) + 1, 1, 2, w) =
            IF FirstOf(chain, Len(chain), 1, 2, w) # << >>
            THEN FirstOf(chain, Len(chain), 1, 2, w)
            ELSE IF key = w THEN <<value>> ELSE << >>
      <4>1. OnePairMore(Append(chain, entry), chain, Len(chain), 1, 2, w)
        BY <1>2, <1>4, FirstAdded, Zenon
      <4>2. QED
        BY <1>4, <1>6, <4>1 DEF OnePairMore
    <3>3. QED
      BY <1>4, <2>1, <2>2, <3>1, <3>2
  <2>4. CASE Hash[w] # Hash[key]
    <3>1. list[Hash[w]] = lists[t][Hash[w]] /\ w # key
      BY <1>1, <1>3, <2>4
    <3>2. QED
      BY <2>1, <2>2, <3>1
  <2>5. QED
    BY <2>3, <2>4
<1>8. QED
  BY <1>5, <1>7

\* What a finished table answers is what the dictionary says.
LEMMA TableIsDictionary ==
  ASSUME TableInv, lines = Len(Dictionary), NEW t \in Tables, NEW w \in Words
  PROVE  Found(t, w) = Translation(t, w)
<1>1. Found(t, w) = LET r == FirstOf(lists[t][Hash[w]], Len(lists[t][Hash[w]]), 1, 2, w)
                    IN  IF r = << >> THEN w ELSE r[1]
  BY DEF Found, FirstOf, HitsOf
<1>2. Translation(t, w) = LET r == FirstOf(Dictionary, lines, From(t), 3 - From(t), w)
                          IN  IF r = << >> THEN w ELSE r[1]
  BY DEF Translation, FirstOf, HitsOf, From
<1>3. QED
  BY <1>1, <1>2 DEF TableInv

\* checkTS gives what the first line with that word says, whatever the hash
\* function, in both directions, in every life of the tables.
THEOREM TablesAreDictionary == DictSpec => []LookupIsDictionary
<1>0. Len(Dictionary) \in Nat
  BY DictionaryAssumption
<1>1. ASSUME NEW t \in Tables, NEW w \in Words
      PROVE  EmptyLists[t][Hash[w]] = << >> /\ FirstOf(<< >>, Len(<< >>), 1, 2, w) = << >>
             /\ FirstOf(Dictionary, 0, From(t), 3 - From(t), w) = << >>
  BY DEF EmptyLists, Slots, FirstOf, HitsOf
<1>2. EmptyLists \in [Tables -> [Slots -> Seq(Words \X Words)]]
  BY DEF EmptyLists
<1>3. DictInit => TableInv
  BY <1>0, <1>1, <1>2 DEF DictInit, TableInv, LookupIsDictionary
<1>4. TableInv /\ [DictNext]_dictVars => TableInv'
  <2> SUFFICES ASSUME TableInv, [DictNext]_dictVars PROVE TableInv'
    OBVIOUS
  <2>1. ASSUME NEW o \in Objects, Construct(o) PROVE TableInv'
    <3>1. lists' = EmptyLists /\ lines' = 0 /\ phase' = "reading" /\ asked' = asked
      BY <2>1 DEF Construct
    <3>2. LookupIsDictionary'
      BY <3>1 DEF TableInv, LookupIsDictionary, Translation
    <3>3. QED
      BY <1>0, <1>1, <1>2, <3>1, <3>2 DEF TableInv
  <2>2. CASE ReadLine
    <3> DEFINE a == Dictionary[lines + 1][1]
               b == Dictionary[lines + 1][2]
    <3>1. /\ phase = "reading" /\ lines \in Nat /\ lines < Len(Dictionary) /\ lines' = lines + 1
          /\ lists' = [ts |-> Insert(lists.ts, a, b), st |-> Insert(lists.st, b, a)]
          /\ UNCHANGED <<asked, phase>>
      BY <2>2 DEF ReadLine, TableInv
    <3>2. a \in Words /\ b \in Words
      BY <3>1, DictionaryAssumption
    <3> HIDE DEF a, b
    <3>3. /\ lists'["ts"] = Insert(lists["ts"], a, b) /\ lists'["st"] = Insert(lists["st"], b, a)
          /\ DOMAIN lists' = {"ts", "st"} /\ lists' = [t \in {"ts", "st"} |-> lists'[t]]
      BY <3>1
    <3>4. ASSUME NEW t \in Tables
          PROVE  /\ lists'[t] \in [Slots -> Seq(Words \X Words)]
                 /\ \A w \in Words : FirstOf(lists'[t][Hash[w]], Len(lists'[t][Hash[w]]), 1, 2, w)
                                = FirstOf(Dictionary, lines + 1, From(t), 3 - From(t), w)
      <4>1. CASE t = "ts"
        <5>1. From(t) = 1 /\ 3 - From(t) = 2
          BY <4>1 DEF From
        <5>2. PICK list : list = lists'[t] /\ list = Insert(lists[t], a, b)
          BY <3>3, <4>1
        <5>3. a = Dictionary[lines + 1][From(t)] /\ b = Dictionary[lines + 1][3 - From(t)]
          BY <5>1 DEF a, b
        <5>4. QED
          BY <3>1, <3>2, <5>2, <5>3, LineEntered
      <4>2. CASE t = "st"
        <5>1. From(t) = 2 /\ 3 - From(t) = 1
          BY <4>2 DEF From
        <5>2. PICK list : list = lists'[t] /\ list = Insert(lists[t], b, a)
          BY <3>3, <4>2
        <5>3. b = Dictionary[lines + 1][From(t)] /\ a = Dictionary[lines + 1][3 - From(t)]
          BY <5>1 DEF a, b
        <5>4. QED
          BY <3>1, <3>2, <5>2, <5>3, LineEntered
      <4>3. QED
        BY <4>1, <4>2 DEF Tables
    <3>5. lists' \in [Tables -> [Slots -> Seq(Words \X Words)]]
      BY <3>3, <3>4 DEF Tables
    <3>6. LookupIsDictionary'
      BY <3>1 DEF TableInv, LookupIsDictionary, Translation
    <3>7. lines' \in 0 .. Len(Dictionary)
      BY <1>0, <3>1
    <3>8. QED
      BY <3>1, <3>4, <3>5, <3>6, <3>7 DEF TableInv
  <2>3. ASSUME NEW t \in Tables, NEW w \in Words, CheckTS(t, w) PROVE TableInv'
    <3>1. Found(t, w) = Translation(t, w)
      BY <2>3, TableIsDictionary DEF CheckTS, TableInv
    <3>2. LookupIsDictionary'
      <4>1. asked' = NothingAsked \/ asked' = <<t, w, Translation(t, w)>>
        BY <2>3, <3>1 DEF CheckTS
      <4>2. CASE asked' = <<t, w, Translation(t, w)>>
        <5>1. asked'[1] = t /\ asked'[2] = w /\ asked'[3] = Translation(t, w)
          BY <4>2
        <5>2. QED
          BY <5>1 DEF LookupIsDictionary, Translation
      <4>3. QED
        BY <4>1, <4>2 DEF LookupIsDictionary
    <3>3. QED
      BY <2>3, <3>2 DEF CheckTS, TableInv
  <2>4. CASE ReadEnds
    BY <2>4 DEF ReadEnds, AtEnd, TableInv, LookupIsDictionary, Translation
  <2>5. CASE NoFile \/ ReadAgain \/ Ended \/ UNCHANGED dictVars
    BY <2>5 DEF NoFile, ReadAgain, Ended, dictVars, TableInv, LookupIsDictionary, Translation
  <2>6. ASSUME NEW o \in Objects, Destroy(o) PROVE TableInv'
    BY <2>6 DEF Destroy, TableInv, LookupIsDictionary, Translation
  <2>7. QED
    BY <2>1, <2>2, <2>3, <2>4, <2>5, <2>6 DEF DictNext
<1>5. TableInv => LookupIsDictionary
  BY DEF TableInv
<1>6. QED
  BY <1>3, <1>4, <1>5, PTL DEF DictSpec

-----------------------------------------------------------------------------
(* Cutting a text into words.                                              *)

\* char_type says one to six bytes and stays within the text; behind the
\* first byte of a character there are only continuation bytes.
LEMMA CharLenIs ==
  ASSUME NEW s, s \in Seq(Bytes), NEW p, p \in Nat, p < Len(s)
  PROVE  /\ CharLen(s, p) \in 1 .. 6 /\ p + CharLen(s, p) <= Len(s)
         /\ \A k \in 1 .. CharLen(s, p) - 1 : Continues(s[p + 1 + k])
<1>1. LeadLen(s[p + 1]) \in 1 .. 6
  BY DEF LeadLen
<1>2. CASE Complete(s, p)
  BY <1>1, <1>2 DEF CharLen, Complete
<1>3. CASE ~Complete(s, p)
  BY <1>3 DEF CharLen
<1>4. QED
  BY <1>2, <1>3

\* The word that translate makes of the character at p.
Word(s, p) ==
  IF IsChinese(s, p) THEN checkTS(Substring(s, p, CharLen(s, p)))
  ELSE Substring(s, p, CharLen(s, p))

\* A word is a text.
LEMMA WordType ==
  ASSUME NEW s, s \in Seq(Bytes), NEW p, p \in Nat, p < Len(s)
  PROVE  Word(s, p) \in Seq(Bytes)
<1> DEFINE l == CharLen(s, p)
<1>1. l \in 1 .. 6 /\ p + l <= Len(s)
  BY CharLenIs
<1>2. Len(s) \in Nat
  OBVIOUS
<1> HIDE DEF l
<1>3. p + 1 \in Int /\ p + l \in Int /\ \A i \in p + 1 .. p + l : i \in 1 .. Len(s)
  BY <1>1, <1>2
<1>4. \A i \in p + 1 .. p + l : s[i] \in Bytes
  BY <1>3
<1>5. Substring(s, p, l) \in Seq(Bytes)
  BY <1>3, <1>4, SubSeqProperties DEF Substring
<1>6. checkTS(Substring(s, p, l)) \in Seq(Bytes)
  BY <1>5, DictAssumption DEF checkTS
<1>7. QED
  BY <1>5, <1>6 DEF Word, l

Entries == [at : Nat, word : Seq(Bytes)]

\* Where word k starts, or will start.
Bound(k) == IF k <= Len(wordlist) THEN wordlist[k].at ELSE n

\* The words follow one another and each is made of its character.
Cut(k) ==
  /\ wordlist[k].at < Len(minWs)
  /\ wordlist[k].word = Word(minWs, wordlist[k].at)
  /\ Bound(k + 1) = wordlist[k].at + CharLen(minWs, wordlist[k].at)

\* What has been cut so far.
ListInv ==
  /\ minWs \in Seq(Bytes) /\ n \in Nat /\ n <= Len(minWs)
  /\ wordlist \in Seq(Entries)
  /\ Bound(1) = 0
  /\ \A k \in 1 .. Len(wordlist) : Cut(k)

\* Behind translate no sound character has been swallowed.
SyncInv == \A p \in Nat : p < n /\ ~Continues(minWs[p + 1]) => p \in Starts

\* One more word.
LEMMA ListStep ==
  ASSUME ListInv, n < Len(minWs), TakeWord(Word(minWs, n))
  PROVE  /\ ListInv'
         /\ minWs' = minWs /\ n' = n + CharLen(minWs, n)
         /\ Len(wordlist') = Len(wordlist) + 1
         /\ wordlist'[Len(wordlist) + 1].at = n
         /\ \A k \in 1 .. Len(wordlist) : wordlist'[k] = wordlist[k]
<1> DEFINE e == [at |-> n, word |-> Word(minWs, n)]
           l == CharLen(minWs, n)
           z == Len(wordlist)
<1>1. /\ minWs \in Seq(Bytes) /\ n \in Nat /\ wordlist \in Seq(Entries) /\ z \in Nat
      /\ Len(minWs) \in Nat
  BY DEF ListInv
<1>2. l \in 1 .. 6 /\ n + l <= Len(minWs)
  BY <1>1, CharLenIs
<1>3. Word(minWs, n) \in Seq(Bytes)
  BY <1>1, WordType
<1>4. e \in Entries /\ e.at = n /\ e.word = Word(minWs, n)
  BY <1>1, <1>3 DEF Entries
<1>5. wordlist' = Append(wordlist, e) /\ n' = n + l /\ minWs' = minWs
  BY DEF TakeWord
<1> HIDE DEF e, l
<1>6. /\ wordlist' \in Seq(Entries) /\ Len(wordlist') = z + 1 /\ wordlist'[z + 1] = e
      /\ \A k \in 1 .. z : wordlist'[k] = wordlist[k]
  BY <1>1, <1>4, <1>5
<1>7. ASSUME NEW k \in 1 .. z + 1 PROVE Bound(k)' = Bound(k)
  <2>1. CASE k \in 1 .. z
    BY <1>1, <1>6, <2>1 DEF Bound
  <2>2. CASE k = z + 1
    BY <1>1, <1>4, <1>6, <2>2 DEF Bound
  <2>3. QED
    BY <1>1, <2>1, <2>2
<1>8. ASSUME NEW k \in 1 .. z + 1 PROVE Cut(k)'
  <2>1. CASE k \in 1 .. z
    <3>1. k + 1 \in 1 .. z + 1 /\ Cut(k)
      BY <1>1, <2>1 DEF ListInv
    <3>2. Bound(k + 1)' = Bound(k + 1)
      BY <1>7, <3>1
    <3>3. QED
      BY <1>5, <1>6, <2>1, <3>1, <3>2 DEF Cut
  <2>2. CASE k = z + 1
    <3>1. Bound(k + 1)' = n + l
      BY <1>1, <1>5, <1>6, <2>2 DEF Bound
    <3>2. wordlist'[k].at = n /\ wordlist'[k].word = Word(minWs, n)
      BY <1>4, <1>6, <2>2
    <3>3. QED
      BY <1>5, <3>1, <3>2 DEF Cut, l
  <2>3. QED
    BY <1>1, <2>1, <2>2
<1>9. Bound(1)' = 0
  BY <1>1, <1>7 DEF ListInv
<1>10. ListInv'
  BY <1>1, <1>2, <1>5, <1>6, <1>8, <1>9 DEF ListInv
<1>11. QED
  BY <1>4, <1>5, <1>6, <1>10 DEF l

\* The new word starts at n, and what it spans continues its character.
LEMMA SyncStep ==
  ASSUME ListInv, SyncInv, n < Len(minWs), TakeWord(Word(minWs, n))
  PROVE  SyncInv' /\ Starts' = Starts \cup {n}
<1>1. /\ n \in Nat /\ minWs \in Seq(Bytes) /\ minWs' = minWs /\ n' = n + CharLen(minWs, n)
      /\ Len(wordlist') = Len(wordlist) + 1 /\ wordlist'[Len(wordlist) + 1].at = n
      /\ \A k \in 1 .. Len(wordlist) : wordlist'[k] = wordlist[k]
  BY ListStep DEF ListInv
<1>2. Starts' = Starts \cup {n}
  <2>1. /\ DOMAIN wordlist = 1 .. Len(wordlist) /\ DOMAIN wordlist' = 1 .. Len(wordlist')
        /\ Len(wordlist) \in Nat
    BY ListStep DEF ListInv
  <2>2. DOMAIN wordlist' = DOMAIN wordlist \cup {Len(wordlist) + 1}
    BY <1>1, <2>1
  <2>3. QED
    BY <1>1, <2>1, <2>2 DEF Starts
<1>3. ASSUME NEW p \in Nat, p < n', ~Continues(minWs[p + 1]) PROVE p \in Starts'
  <2>1. CASE p < n
    BY <1>2, <1>3, <2>1 DEF SyncInv
  <2>2. CASE p = n
    BY <1>2, <2>2
  <2>3. CASE p > n
    <3>1. /\ CharLen(minWs, n) \in 1 .. 6
          /\ \A k \in 1 .. CharLen(minWs, n) - 1 : Continues(minWs[n + 1 + k])
      BY <1>1, CharLenIs
    <3>2. p - n \in 1 .. CharLen(minWs, n) - 1 /\ n + 1 + (p - n) = p + 1
      BY <1>1, <1>3, <2>3, <3>1
    <3>3. Continues(minWs[n + 1 + (p - n)])
      BY <3>1, <3>2
    <3>4. QED
      BY <1>3, <3>2, <3>3
  <2>4. QED
    BY <1>1, <2>1, <2>2, <2>3
<1>4. QED
  BY <1>1, <1>2, <1>3 DEF SyncInv

-----------------------------------------------------------------------------
(* Characters of a UTF-8 text.                                             *)

\* At a byte that starts a character of a UTF-8 text char_type finds all of
\* it, and behind it the next one starts.
LEMMA WholeCharacter ==
  ASSUME NEW s, s \in Seq(Bytes), UTF8(s), NEW p, p \in Nat, p < Len(s), ~Continues(s[p + 1])
  PROVE  /\ Complete(s, p) /\ LeadLen(s[p + 1]) \in 1 .. 4
         /\ NotOverlong(s, p)
         /\ p + LeadLen(s[p + 1]) < Len(s) => ~Continues(s[p + LeadLen(s[p + 1]) + 1])
<1> DEFINE next == {q \in p + 1 .. Len(s) : q = Len(s) \/ ~Continues(s[q + 1])}
           l == LeadLen(s[p + 1])
<1>1. Len(s) \in Nat /\ p \in Offsets(s) /\ s[p + 1] \in Bytes
  BY DEF Offsets
<1>2. s[p + 1] < 248 /\ Min(next) - p = l /\ NotOverlong(s, p)
  BY <1>1 DEF UTF8, WellFormed
<1>3. l \in 1 .. 4
  <2>1. PICK b : b = s[p + 1]
    OBVIOUS
  <2>2. b \in 1 .. 255 /\ b < 248
    BY <1>1, <1>2, <2>1 DEF Bytes
  <2>3. LeadLen(b) \in 1 .. 4
    BY ONLY <2>2, SMT DEF LeadLen
  <2>4. QED
    BY <2>1, <2>3
<1>4. next \in SUBSET Nat /\ Len(s) \in next
  BY <1>1
<1>5. Min(next) \in next /\ \A q \in next : Min(next) <= q
  BY <1>4, MinOfNats
<1>6. Min(next) = p + l /\ p + l <= Len(s) /\ (p + l < Len(s) => ~Continues(s[p + l + 1]))
  BY <1>1, <1>2, <1>3, <1>5
<1>7. ASSUME NEW k \in 1 .. l - 1 PROVE Continues(s[p + 1 + k])
  <2>1. p + k \in p + 1 .. Len(s) /\ p + k < p + l /\ p + k # Len(s) /\ p + k + 1 = p + 1 + k
    BY <1>1, <1>3, <1>6
  <2>2. ~(p + k \in next)
    BY <1>5, <1>6, <2>1
  <2>3. Continues(s[p + k + 1])
    BY <2>1, <2>2
  <2>4. QED
    BY <2>1, <2>3
<1>8. Complete(s, p)
  BY <1>6, <1>7 DEF Complete
<1>9. QED
  BY <1>2, <1>3, <1>6, <1>8

\* Three bytes hold a code point below 65536.
LEMMA ThreeBytes ==
  ASSUME NEW a \in Nat, NEW b \in Nat, NEW c \in Nat,
         NEW u, u = 4096 * (a % 16) + 64 * (b % 64) + (c % 64)
  PROVE  u \in Nat /\ u < 65536
<1>1. PICK x \in 0 .. 15 : x = a % 16
  BY SMT
<1>2. PICK y \in 0 .. 63 : y = b % 64
  BY SMT
<1>3. PICK z \in 0 .. 63 : z = c % 64
  BY SMT
<1>4. u = 4096 * x + 64 * y + z
  BY <1>1, <1>2, <1>3, SMT
<1>5. QED
  BY <1>4, SMT

\* The code point of three bytes.
LEMMA CodeThree ==
  ASSUME NEW s, NEW p, LeadLen(s[p + 1]) = 3,
         s[p + 1] \in Nat, s[p + 2] \in Nat, s[p + 3] \in Nat
  PROVE  /\ CodePoint(s, p) = Unicode3(s, p)
         /\ Unicode3(s, p) \in Nat /\ Unicode3(s, p) < 65536
<1>1. CodePoint(s, p) = Unicode3(s, p)
  BY SMT DEF CodePoint
<1>2. Unicode3(s, p) \in Nat /\ Unicode3(s, p) < 65536
  BY ThreeBytes, SMT DEF Unicode3
<1>3. QED
  BY <1>1, <1>2, SMT

\* The code point of four bytes, and what char_type computes: it shifts the
\* first by 15 instead of 18, which is the same when that byte adds 0.
LEMMA CodeFour ==
  ASSUME NEW s, NEW p, LeadLen(s[p + 1]) = 4, s[p + 1] \in 240 .. 247,
         s[p + 2] \in 128 .. 191, s[p + 3] \in 128 .. 191, s[p + 4] \in 128 .. 191
  PROVE  /\ Unicode4(s, p) \in Int /\ CodePoint(s, p) \in Int
         /\ Unicode4(s, p) = CodePoint(s, p) \/ CodePoint(s, p) >= 262144
<1>1. CodePoint(s, p)
        = 262144 * (s[p + 1] - 240) + 4096 * (s[p + 2] - 128) + 64 * (s[p + 3] - 128) + s[p + 4] - 128
  BY SMT DEF CodePoint
<1>2. Unicode4(s, p)
        = 32768 * (s[p + 1] % 8) + 4096 * (s[p + 2] % 64) + 64 * (s[p + 3] % 64) + (s[p + 4] % 64)
  BY SMT DEF Unicode4
<1>3. PICK a \in 240 .. 247 : a = s[p + 1]
  OBVIOUS
<1>4. PICK b \in 128 .. 191 : b = s[p + 2]
  OBVIOUS
<1>5. PICK c \in 128 .. 191 : c = s[p + 3]
  OBVIOUS
<1>6. PICK d \in 128 .. 191 : d = s[p + 4]
  OBVIOUS
<1>7. PICK u : u = Unicode4(s, p)
  OBVIOUS
<1>8. PICK v : v = CodePoint(s, p)
  BY SMT
<1>9. u = 32768 * (a % 8) + 4096 * (b % 64) + 64 * (c % 64) + (d % 64)
  BY <1>2, <1>3, <1>4, <1>5, <1>6, <1>7, SMT
<1>10. v = 262144 * (a - 240) + 4096 * (b - 128) + 64 * (c - 128) + d - 128
  BY <1>1, <1>3, <1>4, <1>5, <1>6, <1>8, SMT
<1>11. u \in Int /\ v \in Int /\ (u = v \/ v >= 262144)
  <2>1. a % 8 = a - 240
    BY SMT
  <2>2. b % 64 = b - 128
    BY SMT
  <2>3. c % 64 = c - 128
    BY SMT
  <2>4. d % 64 = d - 128
    BY SMT
  <2>5. u = 32768 * (a - 240) + 4096 * (b - 128) + 64 * (c - 128) + (d - 128)
    BY <1>9, <2>1, <2>2, <2>3, <2>4, SMT
  <2>6. QED
    BY <1>10, <2>5, SMT
<1>12. QED
  BY <1>7, <1>8, <1>11, SMT

\* The range tests of char_type, for the two lengths that have ideographs.
LEMMA ChineseThree ==
  ASSUME NEW s, NEW p, Complete(s, p), LeadLen(s[p + 1]) = 3,
         NEW c, c \in Nat, c < 65536, c = Unicode3(s, p)
  PROVE  IsChinese(s, p) <=> Ideograph(c)
<1>1. IsChinese(s, p) <=> Between(c, 13312, 19893) \/ Between(c, 19968, 40907)
  BY SMT DEF IsChinese
<1>2. ~Between(c, 131072, 173782)
  BY SMT DEF Between
<1>3. QED
  BY <1>1, <1>2, SMT DEF Ideograph

\* Of four bytes the test is right where the code point is.
LEMMA ChineseFour ==
  ASSUME NEW s, NEW p, Complete(s, p), LeadLen(s[p + 1]) = 4,
         NEW c, c \in Int, c >= 65536, c = Unicode4(s, p)
  PROVE  IsChinese(s, p) <=> Ideograph(c)
<1>1. IsChinese(s, p) <=> Between(c, 131072, 173782)
  BY SMT DEF IsChinese
<1>2. ~Between(c, 13312, 19893) /\ ~Between(c, 19968, 40907)
  BY SMT DEF Between
<1>3. QED
  BY <1>1, <1>2, SMT DEF Ideograph

\* Beyond plane 3 there are no ideographs.
LEMMA NoneAbove ==
  ASSUME NEW c, c \in Int, c >= 262144
  PROVE  ~Ideograph(c)
BY SMT DEF Ideograph, Between

\* The bytes behind the first of a complete character.
LEMMA Behind ==
  ASSUME NEW s, NEW p, p \in Nat, Complete(s, p)
  PROVE  /\ LeadLen(s[p + 1]) \in {3, 4} => s[p + 2] \in 128 .. 191 /\ s[p + 3] \in 128 .. 191
         /\ LeadLen(s[p + 1]) = 4 => s[p + 4] \in 128 .. 191
<1>1. \A k \in 1 .. LeadLen(s[p + 1]) - 1 : s[p + 1 + k] \in 128 .. 191
  BY DEF Complete, Continues
<1>2. p + 1 + 1 = p + 2 /\ p + 1 + 2 = p + 3 /\ p + 1 + 3 = p + 4
  BY SMT
<1>3. CASE LeadLen(s[p + 1]) = 3
  <2>1. 1 \in 1 .. LeadLen(s[p + 1]) - 1 /\ 2 \in 1 .. LeadLen(s[p + 1]) - 1
    BY <1>3, SMT
  <2>2. s[p + 1 + 1] \in 128 .. 191 /\ s[p + 1 + 2] \in 128 .. 191
    BY <1>1, <2>1, SMT
  <2>3. QED
    BY <1>2, <1>3, <2>2, SMT
<1>4. CASE LeadLen(s[p + 1]) = 4
  <2>1. /\ 1 \in 1 .. LeadLen(s[p + 1]) - 1 /\ 2 \in 1 .. LeadLen(s[p + 1]) - 1
        /\ 3 \in 1 .. LeadLen(s[p + 1]) - 1
    BY <1>4, SMT
  <2>2. s[p + 1 + 1] \in 128 .. 191 /\ s[p + 1 + 2] \in 128 .. 191 /\ s[p + 1 + 3] \in 128 .. 191
    BY <1>1, <2>1, SMT
  <2>3. QED
    BY <1>2, <2>2, SMT
<1>5. QED
  BY <1>3, <1>4, SMT

\* The test is right for three bytes.
LEMMA RightOfThree ==
  ASSUME NEW s, NEW p, p \in Nat, Complete(s, p), s[p + 1] \in Bytes, LeadLen(s[p + 1]) = 3
  PROVE  IsChinese(s, p) <=> Ideograph(CodePoint(s, p))
<1>1. s[p + 2] \in 128 .. 191 /\ s[p + 3] \in 128 .. 191
  BY Behind, SMT
<1>2. s[p + 1] \in Nat /\ s[p + 2] \in Nat /\ s[p + 3] \in Nat
  BY <1>1, SMT DEF Bytes
<1>3. /\ CodePoint(s, p) = Unicode3(s, p)
      /\ Unicode3(s, p) \in Nat /\ Unicode3(s, p) < 65536
  BY <1>2, CodeThree, SMT
<1>4. IsChinese(s, p) <=> Ideograph(Unicode3(s, p))
  BY <1>3, ChineseThree, SMT
<1>5. QED
  BY <1>3, <1>4, SMT

\* For four it may err beyond plane 3 only, where there are no ideographs.
LEMMA RightOfFour ==
  ASSUME NEW s, NEW p, p \in Nat, Complete(s, p), s[p + 1] \in Bytes, LeadLen(s[p + 1]) = 4,
         CodePoint(s, p) >= 65536
  PROVE  (IsChinese(s, p) <=> Ideograph(CodePoint(s, p))) \/ ~Ideograph(CodePoint(s, p))
<1>1. s[p + 2] \in 128 .. 191 /\ s[p + 3] \in 128 .. 191 /\ s[p + 4] \in 128 .. 191
  BY Behind, SMT
<1>2. s[p + 1] \in 240 .. 247
  BY SMT DEF LeadLen, Bytes
<1>3. /\ Unicode4(s, p) \in Int /\ CodePoint(s, p) \in Int
      /\ Unicode4(s, p) = CodePoint(s, p) \/ CodePoint(s, p) >= 262144
  BY <1>1, <1>2, CodeFour, SMT
<1>4. CASE Unicode4(s, p) = CodePoint(s, p)
  <2>1. IsChinese(s, p) <=> Ideograph(Unicode4(s, p))
    BY <1>3, <1>4, ChineseFour, SMT
  <2>2. QED
    BY <1>4, <2>1, SMT
<1>5. CASE CodePoint(s, p) >= 262144
  BY <1>3, <1>5, NoneAbove, SMT
<1>6. QED
  BY <1>3, <1>4, <1>5, SMT

\* Four bytes have the same code point wherever they stand.
LEMMA SameCodePoint ==
  ASSUME NEW s, NEW p, NEW w, w[1] = s[p + 1], w[2] = s[p + 2], w[3] = s[p + 3], w[4] = s[p + 4],
         LeadLen(s[p + 1]) = 4
  PROVE  CodePoint(w, 0) = CodePoint(s, p)
<1>1. CodePoint(s, p)
        = 262144 * (s[p + 1] - 240) + 4096 * (s[p + 2] - 128) + 64 * (s[p + 3] - 128) + s[p + 4] - 128
  BY SMT DEF CodePoint
<1>2. /\ w[0 + 1] = s[p + 1] /\ w[0 + 2] = s[p + 2] /\ w[0 + 3] = s[p + 3] /\ w[0 + 4] = s[p + 4]
      /\ LeadLen(w[0 + 1]) = 4
  BY SMT
<1>3. CodePoint(w, 0)
        = 262144 * (w[0 + 1] - 240) + 4096 * (w[0 + 2] - 128) + 64 * (w[0 + 3] - 128) + w[0 + 4] - 128
  BY <1>2, SMT DEF CodePoint
<1>4. QED
  BY <1>1, <1>2, <1>3, SMT

\* The word for the character at p, as it should be.
Translated(s, p, character) ==
  Word(s, p) = IF Ideograph(CodePoint(s, p)) THEN checkTS(character) ELSE character

\* In UTF-8 text the range tests of char_type select the ideographs; what
\* they take for one besides, beyond plane 3, is not in a dictionary of
\* ideographs.
LEMMA IdeographIs ==
  ASSUME NEW s, s \in Seq(Bytes), UTF8(s), NEW p, p \in Nat, p < Len(s), ~Continues(s[p + 1]),
         \A w \in DOMAIN Dict : Ideograph(CodePoint(w, 0)),
         NEW character, character = SubSeq(s, p + 1, p + LeadLen(s[p + 1]))
  PROVE  Translated(s, p, character)
<1> USE DEF Translated
<1> DEFINE l == LeadLen(s[p + 1])
<1>1. Complete(s, p) /\ l \in 1 .. 4
  BY WholeCharacter, SMT
<1>2. CharLen(s, p) = l
  BY <1>1 DEF CharLen
<1>3. Word(s, p) = IF IsChinese(s, p) THEN checkTS(character) ELSE character
  BY <1>2 DEF Word, Substring
<1>4. s[p + 1] \in Bytes
  OBVIOUS
<1>5. CASE l = 3
  <2>1. IsChinese(s, p) <=> Ideograph(CodePoint(s, p))
    BY <1>1, <1>4, <1>5, RightOfThree, SMT
  <2>2. QED
    BY <1>3, <2>1
<1>6. CASE l = 4
  <2>1. CodePoint(s, p) >= 65536
    BY <1>6, WholeCharacter, SMT DEF NotOverlong
  <2>2. (IsChinese(s, p) <=> Ideograph(CodePoint(s, p))) \/ ~Ideograph(CodePoint(s, p))
    BY <1>1, <1>4, <1>6, <2>1, RightOfFour, SMT
  <2>3. CASE IsChinese(s, p) <=> Ideograph(CodePoint(s, p))
    BY <1>3, <2>3
  <2>4. CASE ~Ideograph(CodePoint(s, p))
    <3>1. Len(s) \in Nat /\ p + 4 <= Len(s)
      BY <1>1, <1>6, SMT DEF Complete
    <3>2. character[1] = s[p + 1] /\ character[2] = s[p + 2] /\ character[3] = s[p + 3]
          /\ character[4] = s[p + 4]
      BY <1>6, <3>1, SMT
    <3>3. CodePoint(character, 0) = CodePoint(s, p)
      BY <1>6, <3>2, SameCodePoint, Zenon
    <3>4. checkTS(character) = character
      BY <2>4, <3>3 DEF checkTS
    <3>5. QED
      BY <1>3, <2>4, <3>4
  <2>5. QED
    BY <2>2, <2>3, <2>4
<1>7. CASE l \in 1 .. 2
  <2>1. CodePoint(s, p) = 0
    BY <1>7, SMT DEF CodePoint
  <2>2. ~Ideograph(0)
    BY SMT DEF Ideograph, Between
  <2>3. ~IsChinese(s, p)
    BY <1>7, SMT DEF IsChinese
  <2>4. QED
    BY <1>3, <2>1, <2>2, <2>3
<1>8. QED
  BY <1>1, <1>5, <1>6, <1>7, SMT

-----------------------------------------------------------------------------
(* The whole translation.                                                  *)

\* What holds in each phase.
PhaseInv ==
  /\ keyword \in Seq(Bytes)
  /\ pc \in {"lower", "copy"} => minWs = << >> /\ n = 0 /\ wordlist = << >> /\ joined = 0
  /\ pc = "translate" => joined = 0 /\ keyword = << >>
  /\ pc \in {"lower", "copy", "translate", "join"} => ListInv /\ SyncInv
  /\ pc = "join" => n = Len(minWs) /\ joined \in 0 .. Len(wordlist)

\* A step that leaves the words alone.
LEMMA SameList ==
  ASSUME ListInv, SyncInv, UNCHANGED <<minWs, n, wordlist>>
  PROVE  ListInv' /\ SyncInv'
<1>1. \A k : Bound(k)' = Bound(k)
  BY DEF Bound
<1>2. \A k : Cut(k)' <=> Cut(k)
  BY <1>1 DEF Cut
<1>3. ListInv'
  BY <1>1, <1>2 DEF ListInv
<1>4. SyncInv'
  BY DEF SyncInv, Starts
<1>5. QED
  BY <1>3, <1>4

\* Before the first word.
LEMMA NoWords ==
  ASSUME NEW m, m \in Seq(Bytes), minWs = m, n = 0, wordlist = << >>
  PROVE  ListInv /\ SyncInv
<1>1. Len(wordlist) = 0 /\ wordlist \in Seq(Entries) /\ Len(m) \in Nat
  BY SMT
<1>2. Bound(1) = 0
  BY <1>1 DEF Bound
<1>3. 1 .. Len(wordlist) = {}
  BY <1>1
<1>4. QED
  BY <1>1, <1>2, <1>3 DEF ListInv, SyncInv

\* The two actions that take a word take the one that Word names.
LEMMA WordTaken ==
  ASSUME ChineseWord \/ OtherWord
  PROVE  pc = "translate" /\ n < Len(minWs) /\ TakeWord(Word(minWs, n))
<1>1. CASE ChineseWord
  BY <1>1 DEF ChineseWord, Word
<1>2. CASE OtherWord
  BY <1>2 DEF OtherWord, Word
<1>3. QED
  BY <1>1, <1>2

\* Lower case is text, too.
LEMMA LoweredText ==
  ASSUME NEW s, s \in Seq(Bytes)
  PROVE  Lowered(s) \in Seq(Bytes)
<1>1. DOMAIN s = 1 .. Len(s) /\ Len(s) \in Nat /\ \A k \in 1 .. Len(s) : s[k] \in Bytes
  OBVIOUS
<1>2. \A b \in Bytes : Lower(b) \in Bytes
  BY DEF Lower, Bytes
<1>3. \A k \in 1 .. Len(s) : Lower(s[k]) \in Bytes
  BY <1>1, <1>2
<1>4. Lowered(s) = [k \in 1 .. Len(s) |-> Lower(s[k])]
  BY <1>1 DEF Lowered
<1>5. Lowered(s) \in [1 .. Len(s) -> Bytes]
  BY <1>3, <1>4, Zenon
<1>6. QED
  BY <1>1, <1>5, SeqDef

\* PhaseInv holds at first.
LEMMA PhaseInit == Init => PhaseInv
<1> SUFFICES ASSUME Init PROVE PhaseInv
  OBVIOUS
<1>1. << >> \in Seq(Bytes)
  OBVIOUS
<1>2. ListInv /\ SyncInv
  BY <1>1, NoWords DEF Init
<1>3. QED
  BY <1>2, TextsAssumption DEF Init, PhaseInv

\* Every step preserves it.
LEMMA PhaseStep == PhaseInv /\ [Next]_vars => PhaseInv'
<1> SUFFICES ASSUME PhaseInv, [Next]_vars PROVE PhaseInv'
  OBVIOUS
<1>1. CASE LowerCase
  <2>1. keyword' \in Seq(Bytes)
    BY <1>1, LoweredText DEF LowerCase, PhaseInv
  <2>2. ListInv' /\ SyncInv'
    BY <1>1, SameList DEF LowerCase, PhaseInv
  <2>3. QED
    BY <1>1, <2>1, <2>2 DEF LowerCase, PhaseInv
<1>2. CASE Copy
  <2>1. keyword' = << >> /\ minWs' = keyword /\ n' = 0 /\ wordlist' = << >> /\ joined' = 0
        /\ pc' = "translate" /\ keyword \in Seq(Bytes)
    BY <1>2 DEF Copy, PhaseInv
  <2>2. ListInv' /\ SyncInv'
    <3>1. Len(wordlist') = 0 /\ wordlist' \in Seq(Entries) /\ Len(keyword) \in Nat
      BY <2>1, SMT
    <3>2. Bound(1)' = 0
      BY <2>1, <3>1 DEF Bound
    <3>3. 1 .. Len(wordlist') = {}
      BY <3>1
    <3>4. QED
      BY <2>1, <3>1, <3>2, <3>3 DEF ListInv, SyncInv
  <2>3. keyword' \in Seq(Bytes)
    BY <2>1
  <2>4. QED
    BY <2>1, <2>2, <2>3 DEF PhaseInv
<1>3. CASE CopyUnterminated
  BY <1>3 DEF CopyUnterminated, PhaseInv
<1>4. CASE ChineseWord \/ OtherWord
  <2>1. pc = "translate" /\ n < Len(minWs) /\ TakeWord(Word(minWs, n))
    BY <1>4, WordTaken
  <2>2. ListInv /\ SyncInv
    BY <2>1 DEF PhaseInv
  <2>3. ListInv' /\ SyncInv'
    BY <2>1, <2>2, ListStep, SyncStep
  <2>4. QED
    BY <2>1, <2>3 DEF TakeWord, PhaseInv
<1>5. CASE TranslateEnds
  <2>1. ListInv' /\ SyncInv'
    BY <1>5, SameList DEF TranslateEnds, PhaseInv
  <2>2. n = Len(minWs) /\ Len(wordlist) \in Nat
    BY <1>5 DEF TranslateEnds, PhaseInv, ListInv
  <2>3. QED
    BY <1>5, <2>1, <2>2 DEF TranslateEnds, PhaseInv
<1>6. CASE JoinWord
  <2>1. ListInv' /\ SyncInv'
    BY <1>6, SameList DEF JoinWord, PhaseInv
  <2>2. joined + 1 \in 1 .. Len(wordlist) /\ wordlist \in Seq(Entries)
    BY <1>6 DEF JoinWord, PhaseInv, ListInv
  <2>3. wordlist[joined + 1].word \in Seq(Bytes)
    <3>1. wordlist[joined + 1] \in Entries
      BY <2>2
    <3>2. QED
      BY <3>1 DEF Entries
  <2>4. keyword' \in Seq(Bytes)
    BY <1>6, <2>3 DEF JoinWord, PhaseInv
  <2>5. QED
    BY <1>6, <2>1, <2>2, <2>4 DEF JoinWord, PhaseInv
<1>7. CASE JoinEnds
  BY <1>7 DEF JoinEnds, PhaseInv
<1>8. CASE Finished \/ UNCHANGED vars
  <2>1. UNCHANGED vars
    BY <1>8 DEF Finished
  <2>2. (ListInv /\ SyncInv) => (ListInv' /\ SyncInv')
    BY <2>1, SameList DEF vars
  <2>3. QED
    BY <2>1, <2>2 DEF vars, PhaseInv
<1>9. QED
  BY <1>1, <1>2, <1>3, <1>4, <1>5, <1>6, <1>7, <1>8 DEF Next, Step

\* Every byte that is no continuation byte starts a word, in sound and in
\* damaged text alike.
THEOREM FindsItsWay == Spec => []Resynchronises
<1>1. PhaseInv => Resynchronises
  BY DEF PhaseInv, Resynchronises, SyncInv, ListInv, Offsets
<1>2. QED
  BY <1>1, PhaseInit, PhaseStep, PTL DEF Spec
\* What has been joined is what stands in front of the next word, when no
\* stretch of the text is in the dictionary.
JoinedInv ==
  /\ pc = "join" /\ ~Mentions(minWs) => keyword = SubSeq(minWs, 1, Bound(joined + 1))
  /\ NothingLost

\* One more word joined.
LEMMA JoinStep ==
  ASSUME PhaseInv, JoinedInv, JoinWord, ~Mentions(minWs)
  PROVE  keyword' = SubSeq(minWs, 1, Bound(joined + 2))
<1> DEFINE k == joined + 1
           a == wordlist[k].at
           l == CharLen(minWs, a)
<1>1. /\ minWs \in Seq(Bytes) /\ joined \in Nat /\ k \in 1 .. Len(wordlist) /\ Len(wordlist) \in Nat
      /\ wordlist \in Seq(Entries)
  BY DEF JoinWord, PhaseInv, ListInv
<1>2. /\ a < Len(minWs) /\ wordlist[k].word = Word(minWs, a) /\ Bound(k + 1) = a + l
  BY <1>1 DEF JoinWord, PhaseInv, ListInv, Cut
<1>3. a \in Nat
  <2>1. wordlist[k] \in Entries
    BY <1>1
  <2>2. QED
    BY <2>1 DEF Entries
<1>4. l \in 1 .. 6 /\ a + l <= Len(minWs) /\ Len(minWs) \in Nat
  BY <1>1, <1>2, <1>3, CharLenIs
<1>5. Bound(k) = a
  BY <1>1 DEF Bound
<1>6. keyword = SubSeq(minWs, 1, a) /\ keyword' = keyword \o wordlist[k].word
  BY <1>5 DEF JoinWord, JoinedInv
<1> HIDE DEF k, a, l
<1>7. wordlist[k].word = SubSeq(minWs, a + 1, a + l)
  <2>1. a + 1 \in 1 .. Len(minWs) /\ a + l \in 1 .. Len(minWs)
    BY <1>3, <1>4
  <2>2. SubSeq(minWs, a + 1, a + l) \notin DOMAIN Dict
    BY <2>1 DEF Mentions
  <2>3. Word(minWs, a) = SubSeq(minWs, a + 1, a + l)
    BY <2>2 DEF Word, Substring, checkTS, l
  <2>4. QED
    BY <1>2, <2>3
<1>8. SubSeq(minWs, 1, a) \o SubSeq(minWs, a + 1, a + l) = SubSeq(minWs, 1, a + l)
  <2>1. 1 \in 1 .. Len(minWs) + 1 /\ a \in 1 - 1 .. Len(minWs) /\ a + l \in a .. Len(minWs)
    BY <1>3, <1>4
  <2>2. QED
    BY <1>1, <2>1, ConcatAdjacentSubSeq, Zenon
<1>9. keyword' = SubSeq(minWs, 1, a + l)
  BY <1>6, <1>7, <1>8
<1>10. joined + 2 = k + 1
  BY <1>1 DEF k
<1>11. QED
  BY <1>2, <1>9, <1>10

\* Text that the dictionary does not mention comes through unchanged.
THEOREM ComesThrough == Spec => []NothingLost
<1>1. Init => JoinedInv
  BY DEF Init, JoinedInv, NothingLost
<1>2. PhaseInv /\ JoinedInv /\ [Next]_vars => JoinedInv'
  <2> SUFFICES ASSUME PhaseInv, JoinedInv, [Next]_vars PROVE JoinedInv'
    OBVIOUS
  <2>1. CASE LowerCase
    BY <2>1 DEF LowerCase, PhaseInv, JoinedInv, NothingLost
  <2>2. CASE Copy \/ CopyUnterminated \/ ChineseWord \/ OtherWord
    BY <2>2 DEF Copy, CopyUnterminated, ChineseWord, OtherWord, TakeWord, JoinedInv, NothingLost
  <2>3. CASE TranslateEnds
    <3>1. joined' = 0 /\ keyword' = << >> /\ minWs' = minWs /\ pc' = "join" /\ minWs \in Seq(Bytes)
          /\ wordlist' = wordlist /\ n' = n /\ Bound(1) = 0
      BY <2>3 DEF TranslateEnds, PhaseInv, ListInv
    <3>2. Bound(joined + 1)' = 0
      BY <3>1 DEF Bound
    <3>3. SubSeq(minWs, 1, 0) = << >>
      BY <3>1
    <3>4. QED
      BY <3>1, <3>2, <3>3 DEF JoinedInv, NothingLost
  <2>4. CASE JoinWord
    <3>1. /\ joined' = joined + 1 /\ minWs' = minWs /\ pc' = "join" /\ wordlist' = wordlist
          /\ n' = n /\ joined \in Nat
      BY <2>4 DEF JoinWord, PhaseInv
    <3>2. Bound(joined + 1)' = Bound(joined + 2)
      BY <3>1 DEF Bound
    <3>3. Mentions(minWs)' <=> Mentions(minWs)
      BY <3>1 DEF Mentions
    <3>4. ~Mentions(minWs) => keyword' = SubSeq(minWs, 1, Bound(joined + 2))
      BY <2>4, JoinStep
    <3>5. QED
      BY <3>1, <3>2, <3>3, <3>4 DEF JoinedInv, NothingLost
  <2>5. CASE JoinEnds
    <3>1. /\ pc = "join" /\ pc' = "done" /\ keyword' = keyword /\ minWs' = minWs
          /\ joined = Len(wordlist) /\ n = Len(minWs) /\ minWs \in Seq(Bytes) /\ wordlist \in Seq(Entries)
      BY <2>5 DEF JoinEnds, PhaseInv, ListInv
    <3>2. Bound(joined + 1) = Len(minWs)
      BY <3>1 DEF Bound
    <3>3. SubSeq(minWs, 1, Len(minWs)) = minWs
      BY <3>1
    <3>4. ~Mentions(minWs) => keyword = minWs
      BY <3>1, <3>2, <3>3 DEF JoinedInv
    <3>5. Mentions(minWs)' <=> Mentions(minWs)
      BY <3>1 DEF Mentions
    <3>6. QED
      BY <3>1, <3>4, <3>5 DEF JoinedInv, NothingLost
  <2>6. CASE Finished \/ UNCHANGED vars
    <3>1. UNCHANGED vars
      BY <2>6 DEF Finished
    <3>2. Bound(joined + 1)' = Bound(joined + 1) /\ (Mentions(minWs)' <=> Mentions(minWs))
      BY <3>1 DEF vars, Bound, Mentions
    <3>3. QED
      BY <3>1, <3>2 DEF vars, JoinedInv, NothingLost
  <2>7. QED
    BY <2>1, <2>2, <2>3, <2>4, <2>5, <2>6 DEF Next, Step
<1>3. JoinedInv => NothingLost
  BY DEF JoinedInv
<1>4. QED
  BY <1>1, <1>2, <1>3, PhaseInit, PhaseStep, PTL DEF Spec
\* In a UTF-8 text every word starts at the first byte of a character, the
\* next one included.
AtCharacters ==
  pc \in {"translate", "join"} /\ UTF8(minWs) =>
    /\ n < Len(minWs) => ~Continues(minWs[n + 1])
    /\ \A p \in Starts : ~Continues(minWs[p + 1])

\* Taking a word leads from a character to the next.
LEMMA NextCharacter ==
  ASSUME PhaseInv, AtCharacters, ChineseWord \/ OtherWord
  PROVE  AtCharacters'
<1>1. pc = "translate" /\ n < Len(minWs) /\ TakeWord(Word(minWs, n))
  BY WordTaken
<1>2. ListInv /\ SyncInv
  BY <1>1 DEF PhaseInv
<1>3. minWs' = minWs /\ n' = n + CharLen(minWs, n) /\ Starts' = Starts \cup {n} /\ pc' = pc
  BY <1>1, <1>2, ListStep, SyncStep DEF TakeWord
<1>4. minWs \in Seq(Bytes) /\ n \in Nat
  BY <1>2 DEF ListInv
<1>5. CASE UTF8(minWs)
  <2>1. ~Continues(minWs[n + 1]) /\ \A p \in Starts : ~Continues(minWs[p + 1])
    BY <1>1, <1>5 DEF AtCharacters
  <2>2. /\ Complete(minWs, n)
        /\ n + LeadLen(minWs[n + 1]) < Len(minWs) => ~Continues(minWs[n + LeadLen(minWs[n + 1]) + 1])
    BY <1>1, <1>4, <1>5, <2>1, WholeCharacter, SMT
  <2>3. n' = n + LeadLen(minWs[n + 1])
    BY <1>3, <2>2 DEF CharLen
  <2>4. n' < Len(minWs) => ~Continues(minWs[n' + 1])
    BY <2>2, <2>3
  <2>5. \A p \in Starts' : ~Continues(minWs[p + 1])
    BY <1>3, <2>1
  <2>6. QED
    BY <1>3, <2>4, <2>5 DEF AtCharacters
<1>6. CASE ~UTF8(minWs)
  <2>1. ~UTF8(minWs')
    BY <1>3, <1>6
  <2>2. UTF8(minWs)' <=> UTF8(minWs')
    BY DEF UTF8
  <2>3. QED
    BY <2>1, <2>2 DEF AtCharacters
<1>7. QED
  BY <1>5, <1>6

\* A UTF-8 text is cut into its characters, and exactly the ideographs among
\* them are looked up.
THEOREM TranslatesIdeographs == Spec => []IdeographsTranslated
<1>1. Init => AtCharacters
  BY DEF Init, AtCharacters
<1>2. PhaseInv /\ AtCharacters /\ [Next]_vars => AtCharacters'
  <2> SUFFICES ASSUME PhaseInv, AtCharacters, [Next]_vars PROVE AtCharacters'
    OBVIOUS
  <2>1. CASE LowerCase \/ CopyUnterminated \/ JoinEnds
    BY <2>1 DEF LowerCase, CopyUnterminated, JoinEnds, AtCharacters
  <2>2. CASE Copy
    <3>1. minWs' = keyword /\ n' = 0 /\ wordlist' = << >> /\ keyword \in Seq(Bytes)
      BY <2>2 DEF Copy, PhaseInv
    <3>2. Starts' = {}
      BY <3>1 DEF Starts
    <3>3. UTF8(minWs)' => (minWs' # << >> => ~Continues(minWs'[1]))
      BY DEF UTF8
    <3>4. 0 < Len(minWs') => minWs' # << >>
      BY <3>1
    <3>5. n' + 1 = 1
      BY <3>1
    <3>6. QED
      BY <3>1, <3>2, <3>3, <3>4, <3>5 DEF AtCharacters
  <2>3. CASE ChineseWord \/ OtherWord
    BY <2>3, NextCharacter
  <2>4. CASE TranslateEnds \/ JoinWord \/ Finished \/ UNCHANGED vars
    <3>1. minWs' = minWs /\ n' = n /\ wordlist' = wordlist
      BY <2>4 DEF TranslateEnds, JoinWord, Finished, vars
    <3>2. pc' \in {"translate", "join"} => pc \in {"translate", "join"}
      BY <2>4 DEF TranslateEnds, JoinWord, Finished, vars
    <3>3. (UTF8(minWs)' <=> UTF8(minWs)) /\ Starts' = Starts
      BY <3>1 DEF UTF8, WellFormed, Offsets, Starts
    <3>4. QED
      BY <3>1, <3>2, <3>3 DEF AtCharacters
  <2>5. QED
    BY <2>1, <2>2, <2>3, <2>4 DEF Next, Step
<1>3. PhaseInv /\ AtCharacters => IdeographsTranslated
  <2> SUFFICES ASSUME PhaseInv, AtCharacters, pc = "join", UTF8(minWs),
                      \A w \in DOMAIN Dict : UTF8(w) /\ Ideograph(CodePoint(w, 0))
               PROVE  /\ Starts = {p \in Offsets(minWs) : ~Continues(minWs[p + 1])}
                      /\ \A k \in DOMAIN wordlist :
                           LET p == wordlist[k].at
                               character == SubSeq(minWs, p + 1, p + LeadLen(minWs[p + 1]))
                           IN  wordlist[k].word
                                 = IF Ideograph(CodePoint(minWs, p)) THEN checkTS(character) ELSE character
    BY DEF IdeographsTranslated
  <2>1. ListInv /\ SyncInv /\ n = Len(minWs)
    BY DEF PhaseInv
  <2>2. /\ minWs \in Seq(Bytes) /\ Len(minWs) \in Nat /\ wordlist \in Seq(Entries)
        /\ DOMAIN wordlist = 1 .. Len(wordlist)
    BY <2>1 DEF ListInv
  <2>3. ASSUME NEW k, k \in DOMAIN wordlist
        PROVE  /\ wordlist[k].at \in Nat /\ wordlist[k].at < Len(minWs)
               /\ ~Continues(minWs[wordlist[k].at + 1])
               /\ wordlist[k].word = Word(minWs, wordlist[k].at)
    <3>1. wordlist[k] \in Entries
      BY <2>2, <2>3
    <3>2. wordlist[k].at \in Nat
      BY <3>1 DEF Entries
    <3>3. Cut(k)
      BY <2>1, <2>2, <2>3 DEF ListInv
    <3>4. wordlist[k].at \in Starts
      BY <2>3 DEF Starts
    <3>5. QED
      BY <3>2, <3>3, <3>4 DEF Cut, AtCharacters
  <2>4. Starts = {p \in Offsets(minWs) : ~Continues(minWs[p + 1])}
    <3>1. ASSUME NEW p, p \in Starts PROVE p \in Offsets(minWs) /\ ~Continues(minWs[p + 1])
      <4>1. PICK k : k \in DOMAIN wordlist /\ p = wordlist[k].at
        BY <3>1 DEF Starts
      <4>2. p \in Nat /\ p < Len(minWs) /\ ~Continues(minWs[p + 1])
        BY <2>3, <4>1
      <4>3. QED
        BY <2>2, <4>2 DEF Offsets
    <3>2. ASSUME NEW p, p \in Offsets(minWs), ~Continues(minWs[p + 1]) PROVE p \in Starts
      BY <2>1, <2>2, <3>2 DEF Offsets, SyncInv
    <3>3. QED
      BY <3>1, <3>2
  <2>5. ASSUME NEW k, k \in DOMAIN wordlist,
               NEW p, p = wordlist[k].at,
               NEW character, character = SubSeq(minWs, p + 1, p + LeadLen(minWs[p + 1]))
        PROVE  wordlist[k].word
                 = IF Ideograph(CodePoint(minWs, p)) THEN checkTS(character) ELSE character
    <3>1. p \in Nat /\ p < Len(minWs) /\ ~Continues(minWs[p + 1]) /\ wordlist[k].word = Word(minWs, p)
      BY <2>3, <2>5
    <3>2. \A w \in DOMAIN Dict : Ideograph(CodePoint(w, 0))
      OBVIOUS
    <3>3. minWs \in Seq(Bytes) /\ UTF8(minWs) /\ character = SubSeq(minWs, p + 1, p + LeadLen(minWs[p + 1]))
      BY <2>2, <2>5
    <3>4. Translated(minWs, p, character)
      BY <3>1, <3>2, <3>3, IdeographIs, Zenon
    <3>5. QED
      BY <3>1, <3>4 DEF Translated
  <2>6. QED
    BY <2>4, <2>5, Zenon
<1>4. QED
  BY <1>1, <1>2, <1>3, PhaseInit, PhaseStep, PTL DEF Spec
=============================================================================
