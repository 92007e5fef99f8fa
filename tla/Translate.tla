------------------------------ MODULE Translate ------------------------------
(***************************************************************************)
(* What getQuery of QueryAnalyseNew does with the keyword before it is cut *)
(* into terms: lower case, a copy of at most MAX_STRING bytes, translate,  *)
(* which walks over the UTF-8 text with char_type and looks up the Chinese *)
(* characters, and the loop that joins the words again (queryAnalyse.cpp   *)
(* 225-241, ts_chinese_translate.c 15-108 and 217-256).                    *)
(*                                                                         *)
(* Abstraction.  A text is the sequence of its bytes, 1 .. 255.  checkTS   *)
(* is the function Dict, and the identity outside its domain (TSDict shows *)
(* that the hash tables are that function).  Of the types of char_type     *)
(* translate only tells CHAR_TYPE_CNC from the others.  A block is freed   *)
(* in the iteration that allocates it, except for the words.               *)
(***************************************************************************)
EXTENDS Naturals, Sequences, FiniteSetsExt

CONSTANTS
  Texts,      \* the keywords of the requests
  Dict,       \* from traditional to simplified characters
  MaxString   \* MAX_STRING: bytes in minWs and words in wordlist

Bytes == 1 .. 255

ASSUME TextsAssumption == Texts \subseteq Seq(Bytes)
ASSUME DictAssumption == \A w \in DOMAIN Dict : w \in Seq(Bytes) /\ Dict[w] \in Seq(Bytes)
ASSUME MaxStringAssumption == MaxString \in Nat \ {0}

VARIABLES
  keyword,    \* the keyword: as it came, then as it has been joined so far
  minWs,      \* the copy that is translated
  n,          \* bytes of minWs behind the loop of translate
  wordlist,   \* the words so far, each with the place it was read from
  joined,     \* words appended to keyword
  pc          \* "lower", "copy", "translate", "join", "done" or "overrun"

vars == <<keyword, minWs, n, wordlist, joined, pc>>

-----------------------------------------------------------------------------
\* tolower in the C locale, which leaves the bytes of wide characters alone.
Lower(b) == IF b \in 65 .. 90 THEN b + 32 ELSE b
Lowered(s) == [k \in DOMAIN s |-> Lower(s[k])]

\* The bytes that the masks of char_type select.
Continues(b) == b \in 128 .. 191
LeadLen(b) ==
  CASE b \in 192 .. 223 -> 2
    [] b \in 224 .. 239 -> 3
    [] b \in 240 .. 247 -> 4
    [] b \in 248 .. 251 -> 5
    [] b \in 252 .. 253 -> 6
    [] OTHER -> 1

\* Are all bytes of the character at offset p of s there and undamaged?
Complete(s, p) ==
  /\ p + LeadLen(s[p + 1]) <= Len(s)
  /\ \A k \in 1 .. LeadLen(s[p + 1]) - 1 : Continues(s[p + 1 + k])

\* Mutant: a damaged character is skipped in full.
CharLenDamaged(s, p) == Min({LeadLen(s[p + 1]), Len(s) - p})
CharLen(s, p) == IF Complete(s, p) THEN LeadLen(s[p + 1]) ELSE 1

\* The code points that char_type computes; the low six bits of a
\* continuation byte are what is left of it modulo 64.
Unicode3(s, p) == 4096 * (s[p + 1] % 16) + 64 * (s[p + 2] % 64) + (s[p + 3] % 64)
Unicode4(s, p) ==
  32768 * (s[p + 1] % 8) + 4096 * (s[p + 2] % 64) + 64 * (s[p + 3] % 64) + (s[p + 4] % 64)

Between(c, first, last) == first <= c /\ c <= last

\* Mutant: the second range starts one character too late.
IsChineseLate(s, p) ==
  LET c3 == Unicode3(s, p) IN
  /\ Complete(s, p)
  /\ \/ LeadLen(s[p + 1]) = 3 /\ (Between(c3, 13312, 19893) \/ Between(c3, 19969, 40907))
     \/ LeadLen(s[p + 1]) = 4 /\ Between(Unicode4(s, p), 131072, 173782)
\* this_type == CHAR_TYPE_CNC
IsChinese(s, p) ==
  LET c3 == Unicode3(s, p) IN
  /\ Complete(s, p)
  /\ \/ LeadLen(s[p + 1]) = 3 /\ (Between(c3, 13312, 19893) \/ Between(c3, 19968, 40907))
     \/ LeadLen(s[p + 1]) = 4 /\ Between(Unicode4(s, p), 131072, 173782)

checkTS(w) == IF w \in DOMAIN Dict THEN Dict[w] ELSE w
Substring(s, p, len) == SubSeq(s, p + 1, p + len)

-----------------------------------------------------------------------------
Init ==
  /\ keyword \in Texts
  /\ minWs = << >> /\ n = 0 /\ wordlist = << >> /\ joined = 0
  /\ pc = "lower"

\* transform(..., tolower); an empty keyword is not translated.
LowerCase ==
  /\ pc = "lower"
  /\ keyword' = Lowered(keyword)
  /\ pc' = IF keyword = << >> THEN "done" ELSE "copy"
  /\ UNCHANGED <<minWs, n, wordlist, joined>>

\* strncpy(minWs, keyword.c_str(), MAX_STRING) and keyword = "".
Copy ==
  /\ pc = "copy" /\ Len(keyword) < MaxString
  /\ minWs' = keyword
  /\ keyword' = << >>
  /\ pc' = "translate"
  /\ UNCHANGED <<n, wordlist, joined>>

\* A copy that fills minWs has no NUL: strlen leaves the block.
CopyUnterminated ==
  /\ pc = "copy" /\ Len(keyword) >= MaxString
  /\ pc' = "overrun"
  /\ UNCHANGED <<keyword, minWs, n, wordlist, joined>>

TakeWord(w) ==
  /\ wordlist' = Append(wordlist, [at |-> n, word |-> w])
  /\ n' = n + CharLen(minWs, n)
  /\ UNCHANGED <<keyword, minWs, joined, pc>>

ChineseWord ==
  /\ pc = "translate" /\ n < Len(minWs)
  /\ IsChinese(minWs, n)
  /\ TakeWord(checkTS(Substring(minWs, n, CharLen(minWs, n))))

\* Mutant: a continue in front of n += char_len.
OtherWordStuck == pc = "translate" /\ n < Len(minWs) /\ ~IsChinese(minWs, n) /\ UNCHANGED vars
OtherWord ==
  /\ pc = "translate" /\ n < Len(minWs)
  /\ ~IsChinese(minWs, n)
  /\ TakeWord(Substring(minWs, n, CharLen(minWs, n)))

TranslateEnds ==
  /\ pc = "translate" /\ n >= Len(minWs)
  /\ pc' = "join"
  /\ UNCHANGED <<keyword, minWs, n, wordlist, joined>>

\* Mutant: the words are joined from the last to the first.
JoinWordBackwards ==
  /\ pc = "join" /\ joined < Len(wordlist)
  /\ keyword' = wordlist[joined + 1].word \o keyword
  /\ joined' = joined + 1
  /\ UNCHANGED <<minWs, n, wordlist, pc>>
JoinWord ==
  /\ pc = "join" /\ joined < Len(wordlist)
  /\ keyword' = keyword \o wordlist[joined + 1].word
  /\ joined' = joined + 1
  /\ UNCHANGED <<minWs, n, wordlist, pc>>

\* All words and minWs are freed; minWs is kept for the properties.
JoinEnds ==
  /\ pc = "join" /\ joined = Len(wordlist)
  /\ wordlist' = << >>
  /\ pc' = "done"
  /\ UNCHANGED <<keyword, minWs, n, joined>>

Finished == pc \in {"done", "overrun"} /\ UNCHANGED vars

Step ==
  \/ LowerCase \/ Copy \/ CopyUnterminated
  \/ ChineseWord \/ OtherWord \/ TranslateEnds
  \/ JoinWord \/ JoinEnds

Next == Step \/ Finished

\* The code is sequential and nothing in it waits.
Spec == Init /\ [][Next]_vars /\ WF_vars(Step)

-----------------------------------------------------------------------------

Starts == {wordlist[k].at : k \in DOMAIN wordlist}
Offsets(s) == 0 .. Len(s) - 1

\* However damaged the text, translate finds its way back: every byte that is
\* not a continuation byte starts a word of its own, so that a broken
\* character never swallows a sound one behind it.
Resynchronises ==
  pc = "join" => \A p \in Offsets(minWs) : ~Continues(minWs[p + 1]) => p \in Starts

\* Reference: the code point of the character at p, and the three blocks of
\* ideographs that the comments of char_type list.
CodePoint(s, p) ==
  CASE LeadLen(s[p + 1]) = 3 -> Unicode3(s, p)
    [] LeadLen(s[p + 1]) = 4 ->
         262144 * (s[p + 1] - 240) + 4096 * (s[p + 2] - 128) + 64 * (s[p + 3] - 128) + s[p + 4] - 128
    [] OTHER -> 0
Ideograph(c) == Between(c, 13312, 19893) \/ Between(c, 19968, 40907) \/ Between(c, 131072, 173782)

\* A character that fits into three bytes does not take four.
NotOverlong(s, p) == LeadLen(s[p + 1]) = 4 => CodePoint(s, p) >= 65536

\* Reference: a UTF-8 text is a sequence of characters of one to four bytes,
\* each a leading byte and exactly the continuation bytes that it announces.
WellFormed(s) ==
  \A p \in Offsets(s) :
     LET next == {q \in p + 1 .. Len(s) : q = Len(s) \/ ~Continues(s[q + 1])}
     IN  ~Continues(s[p + 1]) =>
           /\ s[p + 1] < 248 /\ Min(next) - p = LeadLen(s[p + 1])
           /\ NotOverlong(s, p)
UTF8(s) == WellFormed(s) /\ (s # << >> => ~Continues(s[1]))

\* A UTF-8 text is cut into its characters; the ideographs among them, the
\* first and the last of each block included, are replaced by what a dictionary
\* of ideographs has for them, and everything else is left as it is.
IdeographsTranslated ==
  /\ pc = "join" /\ UTF8(minWs)
  /\ \A w \in DOMAIN Dict : UTF8(w) /\ Ideograph(CodePoint(w, 0))
  => /\ Starts = {p \in Offsets(minWs) : ~Continues(minWs[p + 1])}
     /\ \A k \in DOMAIN wordlist :
          LET p == wordlist[k].at
              character == SubSeq(minWs, p + 1, p + LeadLen(minWs[p + 1]))
          IN  wordlist[k].word = IF Ideograph(CodePoint(minWs, p)) THEN checkTS(character) ELSE character

\* Does any stretch of s stand in the dictionary?
Mentions(s) == \E p, q \in 1 .. Len(s) : SubSeq(s, p, q) \in DOMAIN Dict

\* Text that the dictionary says nothing about comes through byte for byte,
\* in the same order, damaged or not.
NothingLost == pc = "done" /\ minWs # << >> /\ ~Mentions(minWs) => keyword = minWs

\* Every keyword is dealt with in the end: char_type never says 0 bytes.
Terminates == <>(pc \in {"done", "overrun"})
=============================================================================
