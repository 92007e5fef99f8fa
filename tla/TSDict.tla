------------------------------- MODULE TSDict -------------------------------
(***************************************************************************)
(* The dictionary of QueryAnalyseNew (ts_chinese_translate.c): two global  *)
(* hash tables, from traditional to simplified characters (ts) and back    *)
(* (st), that the constructor of every queryAnalyse object builds from a   *)
(* file and that every destructor frees (queryAnalyse.cpp 3-15).           *)
(*                                                                         *)
(* Abstraction.  A chain is the sequence of its entries; the empty node at *)
(* its end is left out.  All nodes that one TSinit allocates form a        *)
(* generation.  SDBMHash(w) % TSLEN is a function of the word.  Lines of   *)
(* the file have two words and are shorter than the buffer of fgets, as    *)
(* those of data/ts_convert.txt are.  malloc is taken to succeed.          *)
(***************************************************************************)
EXTENDS Naturals, Sequences, FiniteSetsExt

CONSTANTS
  Objects,      \* queryAnalyse objects of the program
  Words,        \* what is looked up
  Hash,         \* the slot of a word
  Dictionary,   \* the lines of the file: <<traditional, simplified>>
  MaxInits      \* bound on the objects constructed one after the other

ASSUME DictionaryAssumption == Dictionary \in Seq(Words \X Words) /\ Dictionary # << >>
ASSUME HashAssumption == Words \subseteq DOMAIN Hash
ASSUME MaxInitsAssumption == MaxInits \in Nat

VARIABLES
  alive,       \* objects constructed and not destroyed
  overlapped,  \* two objects have been alive at a time
  newline,     \* the file's last line ends in '\n'
  generation,  \* the one tsList and stList lead to
  freed,       \* generations passed to freeTS
  lists,       \* tsList and stList
  lines,       \* lines read by the current readTSHash
  asked,       \* the last look-up: table, word and result
  misuse,      \* freed nodes were read or freed again
  phase        \* "idle", "reading", or how the program has ended

dictVars == <<alive, overlapped, newline, generation, freed, lists, lines, asked, misuse, phase>>

Tables == {"ts", "st"}
Slots == {Hash[w] : w \in Words}
EmptyLists == [t \in Tables |-> [h \in Slots |-> << >>]]
NothingAsked == << >>

-----------------------------------------------------------------------------
DictInit ==
  /\ alive = {} /\ overlapped = FALSE
  /\ newline \in BOOLEAN
  /\ generation = 0 /\ freed = {}
  /\ lists = EmptyLists /\ lines = 0
  /\ asked = NothingAsked /\ misuse = FALSE /\ phase = "idle"

\* TSinit: new heads for all chains of both tables, whatever was there.
\* Mutant: only the first TSinit of the process builds the tables.
NextGenerationOnce == IF generation = 0 THEN 1 ELSE generation
NextGeneration == generation + 1

Construct(o) ==
  /\ phase = "idle" /\ o \notin alive /\ generation < MaxInits
  /\ alive' = alive \cup {o}
  /\ overlapped' = (overlapped \/ alive # {})
  /\ generation' = NextGeneration
  /\ lists' = EmptyLists /\ lines' = 0
  /\ phase' = "reading"
  /\ UNCHANGED <<newline, freed, asked, misuse>>

\* fopen fails.
NoFile ==
  /\ phase = "reading" /\ lines = 0
  /\ phase' = "exited"
  /\ UNCHANGED <<alive, overlapped, newline, generation, freed, lists, lines, asked, misuse>>

\* createTSHash and createSTHash: the entry goes to the end of the chain.
\* Mutant: the entry goes to the front of the chain.
InsertInFront(list, key, value) == [list EXCEPT ![Hash[key]] = <<<<key, value>>>> \o @]
Insert(list, key, value) == [list EXCEPT ![Hash[key]] = Append(@, <<key, value>>)]

ReadLine ==
  /\ phase = "reading" /\ lines < Len(Dictionary)
  /\ LET a == Dictionary[lines + 1][1]
         b == Dictionary[lines + 1][2]
     IN  lists' = [ts |-> Insert(lists.ts, a, b), st |-> Insert(lists.st, b, a)]
  /\ lines' = lines + 1
  /\ UNCHANGED <<alive, overlapped, newline, generation, freed, asked, misuse, phase>>

\* feof(fp): the end has been met, which takes a last line without '\n', such as
\* that of data/ts_convert.txt.
AtEnd == lines = Len(Dictionary) /\ ~newline

ReadEnds ==
  /\ phase = "reading" /\ AtEnd
  /\ phase' = "idle"
  /\ UNCHANGED <<alive, overlapped, newline, generation, freed, lists, lines, asked, misuse>>

\* One more turn: fgets fails and tmp still holds the first word of the last
\* line, so that b is NULL and strlen(value) ends the program.
ReadAgain ==
  /\ phase = "reading" /\ lines = Len(Dictionary) /\ ~AtEnd
  /\ phase' = "crashed"
  /\ UNCHANGED <<alive, overlapped, newline, generation, freed, lists, lines, asked, misuse>>

\* The chain is searched from its head; a word that is not found is itself.
Found(t, w) ==
  LET chain == lists[t][Hash[w]]
      hits == {i \in 1 .. Len(chain) : chain[i][1] = w}
  IN  IF hits = {} THEN w ELSE chain[Min(hits)][2]

\* checkTS, called by the translate of some object.  What is read from freed
\* nodes is unspecified, and only that it was read is kept.
CheckTS(t, w) ==
  /\ phase = "idle" /\ alive # {}
  /\ misuse' = (misuse \/ generation \in freed)
  /\ asked' = IF generation \in freed THEN NothingAsked ELSE <<t, w, Found(t, w)>>
  /\ UNCHANGED <<alive, overlapped, newline, generation, freed, lists, lines, phase>>

\* freeTS frees what the tables lead to now.
FreedNow == freed \cup {generation}

Destroy(o) ==
  /\ phase = "idle" /\ o \in alive
  /\ alive' = alive \ {o}
  /\ misuse' = (misuse \/ generation \in freed)
  /\ freed' = FreedNow
  /\ UNCHANGED <<overlapped, newline, generation, lists, lines, asked, phase>>

Ended ==
  /\ phase \in {"exited", "crashed"} \/ (phase = "idle" /\ alive = {} /\ generation = MaxInits)
  /\ UNCHANGED dictVars

DictNext ==
  \/ \E o \in Objects : Construct(o) \/ Destroy(o)
  \/ NoFile \/ ReadLine \/ ReadEnds \/ ReadAgain
  \/ \E t \in Tables, w \in Words : CheckTS(t, w)
  \/ Ended

DictSpec == DictInit /\ [][DictNext]_dictVars

-----------------------------------------------------------------------------

\* Reference: the dictionary as a list of pairs, read from the top.
Translation(t, w) ==
  LET from == IF t = "ts" THEN 1 ELSE 2
      hits == {i \in 1 .. Len(Dictionary) : Dictionary[i][from] = w}
  IN  IF hits = {} THEN w ELSE Dictionary[Min(hits)][3 - from]

\* A look-up gives what the first line with that word in the file says, in
\* both directions, whichever words share its chain (SDBMHash collides) and
\* however often the tables have been rebuilt.
LookupIsDictionary == asked # NothingAsked => asked[3] = Translation(asked[1], asked[2])

\* Objects that live one after the other are safe: as long as no two have
\* been alive together, which share the tables that each destructor frees,
\* no freed node is read or freed again, and when none is left all nodes of
\* every TSinit have been freed.
SafeOneByOne ==
  ~overlapped => ~misuse /\ (phase = "idle" /\ alive = {} => freed = 1 .. generation)
=============================================================================
