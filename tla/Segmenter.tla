----------------------------- MODULE Segmenter -----------------------------
(***************************************************************************)
(* queryAnalyse::singleParticiple, which cuts the keyword into the terms   *)
(* name:x AND name:y ..., together with isNum and the two functions that   *)
(* build the rest of the name clause from them (test.cpp 96-165, 370-375). *)
(*                                                                         *)
(* Abstraction.  A keyword is a sequence of classified bytes: a digit,     *)
(* another ASCII byte, the first byte of a multi-byte character or one of  *)
(* its continuation bytes.  The code only asks whether a (signed) byte is  *)
(* negative, which both of the last two are; the difference between them   *)
(* is what the properties need to know where a character starts.  A term   *)
(* is the slice <<from, to>> of 0-based offsets it takes from the keyword. *)
(***************************************************************************)
EXTENDS Integers, Sequences

CONSTANT Keywords   \* the keywords getQuery may pass on

Bytes == {"digit", "ascii", "lead", "cont"}
ASSUME KeywordsAssumption == Keywords \subseteq Seq(Bytes)

VARIABLES
  str,     \* the keyword
  i,       \* the loop's index
  terms,   \* partStr: the name: terms so far, joined by AND
  clause,  \* the name clause, once it is built
  pc       \* "first", "loop", "build" or "done"

vars == <<str, i, terms, clause, pc>>

-----------------------------------------------------------------------------
N == Len(str)
NoClause == {}

\* (int)str[at] >= 0, for a signed char.
Ascii(at) == str[at + 1] \in {"digit", "ascii"}

\* Mutant: isNum without its test for the empty string.
IsNumOrEmpty == \A k \in 1 .. N : str[k] = "digit"
\* isNum: a keyword of digits only, and not the empty one.
IsNum == str # <<>> /\ \A k \in 1 .. N : str[k] = "digit"

\* Mutant: three bytes are skipped where the for loop adds one of its own.
WideStepTooFar == i + 4
\* A wide term moves i by 2, and the for loop's i++ by 1 more.
WideStep == i + 3

Init ==
  /\ str \in Keywords
  /\ i = 0
  /\ terms = <<>>
  /\ clause = NoClause
  /\ pc = "first"

\* An empty keyword yields "name:", a term that takes nothing.
FirstEmpty ==
  /\ pc = "first"
  /\ N = 0
  /\ terms' = << <<0, 0>> >>
  /\ pc' = "build"
  /\ UNCHANGED <<str, i, clause>>

FirstAscii ==
  /\ pc = "first"
  /\ N > 0 /\ Ascii(0)
  /\ terms' = << <<0, 1>> >>
  /\ i' = 1
  /\ pc' = "loop"
  /\ UNCHANGED <<str, clause>>

FirstTake == IF N >= 3 THEN 3 ELSE N

\* The first character takes three bytes when there are three; unlike the
\* test inside the loop, this one accepts a keyword of exactly three.
FirstWide ==
  /\ pc = "first"
  /\ N > 0 /\ ~Ascii(0)
  /\ terms' = << <<0, FirstTake>> >>
  /\ i' = FirstTake
  /\ pc' = "loop"
  /\ UNCHANGED <<str, clause>>

\* Mutant: ASCII bytes are skipped by a continue that misses the i++.
LoopAsciiStuck == pc = "loop" /\ i < N /\ Ascii(i) /\ UNCHANGED vars
LoopAscii ==
  /\ pc = "loop"
  /\ i < N /\ Ascii(i)
  /\ terms' = Append(terms, <<i, i + 1>>)
  /\ i' = i + 1
  /\ UNCHANGED <<str, clause, pc>>

\* Mutant: off by one, so a single last byte is glued to the term before it.
MoreThanOneAfterWide == i + 4 < N
\* Is there more of the keyword after a three-byte term at i?
MoreAfterWide == i + 3 < N

LoopWide ==
  /\ pc = "loop"
  /\ i < N /\ ~Ascii(i)
  /\ MoreAfterWide
  /\ terms' = Append(terms, <<i, i + 3>>)
  /\ i' = WideStep
  /\ UNCHANGED <<str, clause, pc>>

\* str.substr(i), then break: all that is left becomes the last term.
LoopRest ==
  /\ pc = "loop"
  /\ i < N /\ ~Ascii(i)
  /\ ~MoreAfterWide
  /\ terms' = Append(terms, <<i, N>>)
  /\ pc' = "build"
  /\ UNCHANGED <<str, i, clause>>

LoopEnd ==
  /\ pc = "loop"
  /\ i >= N
  /\ pc' = "build"
  /\ UNCHANGED <<str, i, terms, clause>>

\* getWholeNumOutput or getOtherOutput: the disjuncts of the name clause.
\* A field is <<name, terms>>; the encoded keyword (tel) is opaque here.
Build ==
  /\ pc = "build"
  /\ clause' = IF IsNum
               THEN {<<"name", terms>>, <<"id", << <<0, N>> >> >>, <<"tel", <<>> >>}
               ELSE {<<"name", terms>>, <<"buyername", << <<0, N>> >> >>}
  /\ pc' = "done"
  /\ UNCHANGED <<str, i, terms>>

Finished == pc = "done" /\ UNCHANGED vars

Next ==
  \/ FirstEmpty \/ FirstAscii \/ FirstWide
  \/ LoopAscii \/ LoopWide \/ LoopRest \/ LoopEnd
  \/ Build \/ Finished

Spec == Init /\ [][Next]_vars /\ WF_vars(Next)

-----------------------------------------------------------------------------
(* What the segmentation promises.                                         *)

\* The index never leaves the keyword and every term singleParticiple takes
\* from it lies inside: no substr starts past the end.
TypeOK ==
  /\ str \in Seq(Bytes)
  /\ i \in 0 .. N
  /\ terms \in Seq((0 .. N) \X (0 .. N))
  /\ pc \in {"first", "loop", "build", "done"}

\* How far the terms reach: the loop's index, or the end after the break.
Reached == IF pc \in {"build", "done"} THEN N ELSE i

\* The terms, in order, tile the part of the keyword that has been read: no
\* byte is lost, repeated or taken out of order, whatever the keyword holds.
TermsTileKeyword ==
  pc # "first" =>
    /\ terms # <<>>
    /\ terms[1][1] = 0
    /\ terms[Len(terms)][2] = Reached
    /\ \A k \in 1 .. Len(terms) - 1 : terms[k][2] = terms[k + 1][1]
    /\ N > 0 => \A k \in 1 .. Len(terms) : terms[k][1] < terms[k][2]

\* Where characters start, and a term that is one whole character.
Boundary(at) == at = N \/ (at < N /\ str[at + 1] # "cont")
OneCharacter(t) ==
  /\ Boundary(t[1]) /\ Boundary(t[2])
  /\ \A at \in t[1] + 1 .. t[2] - 1 : ~Boundary(at)

\* Every multi-byte character has three bytes, as the Chinese characters of
\* READ.md's examples have.
ThreeByteText(s) ==
  /\ s # <<>> => s[1] # "cont"
  /\ \A k \in 1 .. Len(s) :
       /\ s[k] = "lead" => /\ k + 2 <= Len(s)
                           /\ s[k + 1] = "cont" /\ s[k + 2] = "cont"
                           /\ k + 3 <= Len(s) => s[k + 3] # "cont"
       /\ s[k] \in {"digit", "ascii"} /\ k < Len(s) => s[k + 1] # "cont"

\* For ASCII and three-byte characters the segmentation is into single
\* characters (单字分词), the last one included, which the loop treats apart.
SingleCharacters ==
  ThreeByteText(str) /\ N > 0 => \A k \in 1 .. Len(terms) : OneCharacter(terms[k])

\* READ.md's 单字分词 for any well-formed text: the code cuts characters of two
\* or four bytes as if they had three.
SingleCharactersAlways ==
  N > 0 /\ pc = "done" => \A k \in 1 .. Len(terms) : OneCharacter(terms[k])

\* READ.md 2(1) and 2(2): a keyword of digits also searches id and tel, any
\* other one searches buyername with the keyword uncut; name is always there.
ClauseByKind ==
  pc = "done" =>
    /\ <<"name", terms>> \in clause
    /\ ({f[1] : f \in clause} = {"name", "id", "tel"})
         <=> (N > 0 /\ \A k \in 1 .. Len(terms) : str[terms[k][1] + 1] = "digit")
    /\ \A f \in clause : f[1] \in {"id", "buyername"} => f[2] = << <<0, N>> >>

\* The loop is left for every keyword.
Terminates == <>(pc = "done")
=============================================================================
