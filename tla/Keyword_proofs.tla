--------------------------- MODULE Keyword_proofs ---------------------------
(***************************************************************************)
(* What happens to the bytes of a keyword on their way through test.cpp:   *)
(* urlencode and urldecode stay within their strings and blocks for every  *)
(* text and every query string, decoding undoes encoding, and an escape    *)
(* that is cut off costs nothing but itself; singleParticiple cuts the     *)
(* keyword, of any length and content, into terms that lose no byte.       *)
(***************************************************************************)
EXTENDS UrlCodec, Segmenter, Integers, FiniteSetsExt, SequenceTheorems, WellFoundedInduction, TLAPS

\* Every non-empty set of naturals has a least element, which Min chooses: the
\* first NUL, at which a C string ends.
LEMMA MinOfNats ==
  ASSUME NEW S \in SUBSET Nat, S # {}
  PROVE  Min(S) \in S /\ \A y \in S : Min(S) <= y
<1> DEFINE Less == {p \in Nat \X Nat : p[1] < p[2]}
<1>1. IsWellFoundedOn(Less, Nat)
  BY NatLessThanWellFounded DEF OpToRel
<1>2. PICK x \in S : \A y \in S : <<y, x>> \notin Less
  BY <1>1, WFMin
<1>3. ASSUME NEW y \in S PROVE x <= y
  <2>1. <<y, x>> \in Nat \X Nat /\ <<y, x>>[1] = y /\ <<y, x>>[2] = x
    OBVIOUS
  <2>2. ~(y < x)
    BY <1>2, <2>1
  <2>3. QED
    BY <2>2
<1>4. QED
  BY <1>3 DEF Min

\* Why the sizes suffice: urlencode writes at most three characters for each
\* one it reads, urldecode at most one; neither steps over the NUL.
Pace ==
  /\ src \in Seq(Char) /\ psrc \in 1 .. Len(src) + 1 /\ pbuf \in Nat \ {0}
  /\ \/ /\ stage = "encode"
        /\ len = 3 * Len(src) + 1
        /\ pbuf <= 3 * (psrc - 1) + 1
        /\ buf \in [1 .. len -> Byte]
     \/ stage \in {"decode", "done"} /\ len = Len(src) + 1 /\ pbuf <= psrc

IInv == Pace /\ outside = FALSE

\* An encoded character is one or three bytes.
LEMMA EncodedBytes ==
  ASSUME NEW ch \in Char
  PROVE  Encoded(ch) \in Seq(Byte) /\ Len(Encoded(ch)) \in {1, 3}
<1>1. ASSUME NEW n \in Byte PROVE dec2hex(n) \in Byte
  BY <1>1 DEF dec2hex, Byte
<1>2. ch \div 16 \in Byte /\ ch % 16 \in Byte
  BY DEF Char, Byte
<1>3. ch \in Byte /\ Pct \in Byte /\ Plus \in Byte
  BY DEF Char, Byte, Pct, Plus
<1>4. QED
  BY <1>1, <1>2, <1>3 DEF Encoded

\* What is left in a block of bytes up to its first NUL is a C string.
LEMMA CStringType ==
  ASSUME NEW n \in Nat, NEW b \in [1 .. n -> Byte]
  PROVE  CString(b) \in Seq(Char)
<1> DEFINE ends == {k \in DOMAIN b : b[k] = 0}
           last == IF ends = {} THEN Len(b) ELSE Min(ends) - 1
<1>1. DOMAIN b = 1 .. n /\ Len(b) = n
  OBVIOUS
<1>2. \A k \in 1 .. n : k \notin ends => b[k] \in Char
  BY <1>1 DEF Byte, Char
<1>3. last \in Int /\ \A k \in 1 .. last : k \in 1 .. n /\ k \notin ends
  <2>1. CASE ends = {}
    BY <1>1, <2>1
  <2>2. CASE ends # {}
    <3>1. ends \in SUBSET Nat
      BY <1>1
    <3>2. Min(ends) \in ends /\ \A y \in ends : Min(ends) <= y
      BY <2>2, <3>1, MinOfNats
    <3>3. Min(ends) \in 1 .. n
      BY <1>1, <3>2
    <3> HIDE DEF ends
    <3>4. QED
      BY <2>2, <3>2, <3>3
  <2>3. QED
    BY <2>1, <2>2
<1>4. CString(b) = SubSeq(b, 1, last)
  BY DEF CString
<1> HIDE DEF last, ends
<1>5. \A k \in 1 .. last : b[k] \in Char
  BY <1>2, <1>3
<1>6. SubSeq(b, 1, last) \in Seq(Char)
  BY <1>3, <1>5, SubSeqProperties
<1>7. QED
  BY <1>4, <1>6

\* The pace holds when a function is entered.
LEMMA PaceInit == CodecInit => IInv
<1> SUFFICES ASSUME CodecInit PROVE IInv
  OBVIOUS
<1>1. src \in Seq(Char) /\ Len(src) \in Nat
  BY TextsAssumption, ArgsAssumption DEF CodecInit
<1>2. Pace
  BY <1>1 DEF CodecInit, Pace, EncodeLen, DecodeLen, Zeros, Byte
<1>3. QED
  BY <1>2 DEF CodecInit, IInv

\* A write that starts within the block and fits into it is no misuse.
LEMMA PutInside ==
  ASSUME NEW s, Put(s), outside = FALSE, ~(pbuf + Len(s) - 1 > len)
  PROVE  outside' = FALSE
BY Zenon DEF Put

\* One iteration of either loop, and either return, keeps the pace.
LEMMA PaceStep == IInv /\ [CodecNext]_codecVars => IInv'
<1> SUFFICES ASSUME IInv, [CodecNext]_codecVars PROVE IInv'
  OBVIOUS
<1>0. Pace /\ outside = FALSE
  BY DEF IInv
<1>1. CASE EncodeChar
  <2> DEFINE s == Encoded(src[psrc])
  <2>1. src[psrc] \in Char /\ psrc <= Len(src) /\ stage = "encode"
    BY <1>0, <1>1 DEF Pace, EncodeChar
  <2>2. s \in Seq(Byte) /\ Len(s) \in {1, 3}
    BY <2>1, EncodedBytes
  <2> HIDE DEF s
  <2>3. psrc' = psrc + 1 /\ pbuf' = pbuf + Len(s)
        /\ UNCHANGED <<stage, src, len>> /\ Put(s)
    BY <1>1 DEF EncodeChar, Advance, s
  <2>4. buf' \in [1 .. len -> Byte]
    BY <1>0, <2>1, <2>2, <2>3 DEF Put, Pace
  <2>5. Len(src) \in Nat /\ psrc \in Nat \ {0} /\ pbuf \in Nat \ {0}
        /\ len = 3 * Len(src) + 1 /\ pbuf <= 3 * (psrc - 1) + 1
    BY <1>0, <2>1 DEF Pace
  <2>6. PICK m, n \in Nat : m = Len(src) /\ n = Len(s) /\ n \in {1, 3}
    BY <2>2, <2>5
  <2>7. pbuf + n - 1 <= len /\ pbuf + n <= 3 * psrc + 1 /\ len \in Nat
    <3>1. psrc <= m /\ len = 3 * m + 1 /\ n <= 3
      BY <2>1, <2>5, <2>6
    <3>2. pbuf + n <= 3 * psrc + 1
      BY <2>5, <2>6, <3>1
    <3>3. 3 * psrc + 1 <= 3 * m + 1
      BY <2>5, <2>6, <3>1
    <3>4. QED
      BY <2>5, <2>6, <3>1, <3>2, <3>3
  <2>8. ~(pbuf + Len(s) - 1 > len)
    BY <2>5, <2>6, <2>7
  <2>9. Pace'
    <3>1. psrc' \in 1 .. Len(src) + 1 /\ pbuf' \in Nat \ {0}
      BY <2>1, <2>3, <2>5, <2>6
    <3>2. pbuf' <= 3 * (psrc' - 1) + 1
      BY <2>3, <2>5, <2>6, <2>7
    <3>3. QED
      BY <1>0, <2>1, <2>3, <2>4, <2>5, <3>1, <3>2 DEF Pace
  <2>10. QED
    BY <1>0, <2>3, <2>8, <2>9, PutInside DEF IInv
<1>2. CASE EncodeEnds
  <2>1. stage = "encode" /\ Len(src) \in Nat /\ len = 3 * Len(src) + 1
        /\ pbuf \in Nat /\ pbuf <= len /\ buf \in [1 .. len -> Byte]
    BY <1>0, <1>2 DEF Pace, EncodeEnds
  <2>2. CString(buf) \in Seq(Char)
    BY <2>1, CStringType
  <2>3. Pace'
    BY <1>2, <2>2 DEF Pace, EncodeEnds, DecodeLen
  <2>4. ~(pbuf > len)
    BY <2>1
  <2>5. outside' = FALSE
    BY <1>0, <1>2, <2>4, Zenon DEF EncodeEnds
  <2>6. QED
    BY <2>3, <2>5 DEF IInv
<1>3. ASSUME NEW ch, Decoding(ch)
      PROVE  /\ Len(src) \in Nat /\ psrc \in Nat \ {0} /\ pbuf \in Nat
             /\ psrc <= Len(src) /\ len = Len(src) + 1 /\ pbuf <= psrc
             /\ \A c : ~(pbuf + Len(<<c>>) - 1 > len)
  BY <1>0, <1>3 DEF Decoding, Pace
<1>4. ASSUME NEW ch, Decoding(ch), NEW c, Put(<<c>>) PROVE outside' = FALSE
  BY <1>0, <1>3, <1>4, PutInside
<1>5. CASE DecodeEscape
  <2>1. Pace'
    BY <1>0, <1>3, <1>5 DEF DecodeEscape, TwoMore, Advance, Decoding, Pace
  <2>2. QED
    BY <1>4, <1>5, <2>1, Zenon DEF DecodeEscape, IInv
<1>6. CASE DecodeCutEscape
  <2>1. Pace'
    BY <1>0, <1>3, <1>6 DEF DecodeCutEscape, Advance, Decoding, Pace
  <2>2. QED
    BY <1>0, <1>6, <2>1 DEF DecodeCutEscape, IInv
<1>7. CASE DecodePlus
  <2>1. Pace'
    BY <1>0, <1>3, <1>7 DEF DecodePlus, Advance, Decoding, Pace
  <2>2. QED
    BY <1>4, <1>7, <2>1, Zenon DEF DecodePlus, IInv
<1>8. CASE DecodeOther
  <2>1. PICK ch \in Char : Decoding(ch) /\ Put(<<ch>>)
    BY <1>8 DEF DecodeOther
  <2>2. Pace'
    BY <1>0, <1>3, <1>8, <2>1 DEF DecodeOther, Advance, Decoding, Pace
  <2>3. QED
    BY <1>4, <2>1, <2>2, Zenon DEF IInv
<1>9. CASE DecodeEnds
  <2>1. Pace'
    BY <1>0, <1>9 DEF DecodeEnds, Pace
  <2>2. ~(psrc > Len(src) + 1) /\ ~(pbuf > len)
    BY <1>0, <1>9 DEF DecodeEnds, Pace
  <2>3. QED
    BY <1>0, <1>9, <2>1, <2>2, Zenon DEF DecodeEnds, IInv
<1>10. CASE Done \/ UNCHANGED codecVars
  <2>1. UNCHANGED codecVars
    BY <1>10 DEF Done
  <2>2. QED
    BY <1>0, <2>1 DEF codecVars, Pace, IInv
<1>11. QED
  BY <1>1, <1>2, <1>5, <1>6, <1>7, <1>8, <1>9, <1>10 DEF CodecNext

\* urlencode and urldecode read nothing behind the NUL of their argument and
\* write nothing outside the block they have allocated, whatever the text and
\* whatever the query string of the request.
THEOREM CodecInBounds == CodecSpec => []InBounds
<1>1. IInv => InBounds
  BY DEF IInv, InBounds
<1>2. QED
  BY <1>1, PaceInit, PaceStep, PTL DEF CodecSpec

-----------------------------------------------------------------------------
(* One character: escaping and its inverse.                                *)

\* hex2dec undoes dec2hex.
LEMMA HexDigits ==
  ASSUME NEW a \in 0 .. 15
  PROVE  dec2hex(a) \in Char /\ hex2dec(dec2hex(a)) = a
<1>1. a % 16 = a
  OBVIOUS
<1>2. dec2hex(a) = a + (IF a < 10 THEN 48 ELSE 55)
  BY <1>1 DEF dec2hex
<1>3. CASE a < 10
  BY <1>2, <1>3 DEF hex2dec, Digit, Char
<1>4. CASE a >= 10
  <2>1. dec2hex(a) = a + 55 /\ dec2hex(a) \in Upper /\ dec2hex(a) \notin Digit
    BY <1>2, <1>4 DEF Upper, Digit
  <2>2. hex2dec(dec2hex(a)) = ((a + 55 + 32) - 97 + 10) % 256
    BY <2>1 DEF hex2dec
  <2>3. QED
    BY <2>1, <2>2 DEF Char
<1>5. QED
  BY <1>3, <1>4

\* The | of two bytes that share no bit is their sum.
LEMMA OrOfNibbles ==
  ASSUME NEW a \in 0 .. 15, NEW b \in 0 .. 15
  PROVE  OrBytes(16 * a, b) = 16 * a + b
<1> DEFINE bit(w) == IF ((16 * a) \div w) % 2 = 1 \/ (b \div w) % 2 = 1 THEN w ELSE 0
<1>1. bit(1) + bit(2) + bit(4) + bit(8) = b
  OBVIOUS
<1>2. bit(16) + bit(32) + bit(64) + bit(128) = 16 * a
  OBVIOUS
<1>3. QED
  BY <1>1, <1>2 DEF OrBytes

\* urldecode undoes the escape that urlencode writes for a character.
LEMMA EscapeUndone ==
  ASSUME NEW ch \in Char
  PROVE  /\ dec2hex(ch \div 16) \in Char /\ dec2hex(ch % 16) \in Char
         /\ Unescape(dec2hex(ch \div 16), dec2hex(ch % 16)) = ch
<1>1. PICK a \in 0 .. 15, b \in 0 .. 15 : a = ch \div 16 /\ b = ch % 16 /\ ch = 16 * a + b
  BY DEF Char
<1>2. hex2dec(dec2hex(a)) = a /\ hex2dec(dec2hex(b)) = b
  BY HexDigits
<1>3. (a * 16) % 256 = 16 * a
  OBVIOUS
<1>4. Unescape(dec2hex(a), dec2hex(b)) = OrBytes(16 * a, b)
  BY <1>2, <1>3 DEF Unescape
<1>5. QED
  BY <1>1, <1>4, HexDigits, OrOfNibbles

\* What urlencode writes for a character, and how urldecode tells the three
\* forms apart: by their first byte.
LEMMA EncodedForms ==
  ASSUME NEW ch \in Char
  PROVE  LET s == Encoded(ch) IN
         /\ s \in Seq(Char) /\ Len(s) \in {1, 3}
         /\ \A m \in 1 .. Len(s) : s[m] \in Char
         /\ s[1] = Pct => Len(s) = 3 /\ Unescape(s[2], s[3]) = ch
         /\ s[1] = Plus => Len(s) = 1 /\ ch = Space
         /\ s[1] \notin {Pct, Plus} => Len(s) = 1 /\ s[1] = ch
<1> DEFINE hi == dec2hex(ch \div 16)
           lo == dec2hex(ch % 16)
<1>1. hi \in Char /\ lo \in Char /\ Unescape(hi, lo) = ch
  BY EscapeUndone
<1> HIDE DEF hi, lo
<1>2. Pct \in Char /\ Plus \in Char /\ Pct # Plus
  BY DEF Pct, Plus, Char
<1>3. Pct \notin Unreserved /\ Plus \notin Unreserved
  BY DEF Pct, Plus, Unreserved, Digit, Upper, Lower
<1>4. Encoded(ch) = IF ch \in Unreserved THEN <<ch>>
                    ELSE IF ch = Space THEN <<Plus>> ELSE <<Pct, hi, lo>>
  BY DEF Encoded, hi, lo
<1>5. CASE ch \in Unreserved
  BY <1>3, <1>4, <1>5
<1>6. CASE ch \notin Unreserved /\ ch = Space
  BY <1>2, <1>4, <1>6
<1>7. CASE ch \notin Unreserved /\ ch # Space
  <2>1. Encoded(ch) = <<Pct, hi, lo>>
    BY <1>4, <1>7
  <2>2. <<Pct, hi, lo>> \in Seq(Char) /\ Len(<<Pct, hi, lo>>) = 3
    BY <1>1, <1>2
  <2>3. \A m \in 1 .. 3 : <<Pct, hi, lo>>[m] \in Char
    BY <1>1, <1>2
  <2>4. QED
    BY <1>1, <1>2, <2>1, <2>2, <2>3
<1>8. QED
  BY <1>5, <1>6, <1>7

\* No character is the NUL.
LEMMA NoNul == 0 \notin Char /\ Space # 0
BY DEF Char, Space

\* A C string ends in front of the first NUL of its block.
LEMMA CStringIs ==
  ASSUME NEW b, NEW n \in Nat, DOMAIN b = 1 .. n, NEW p \in 1 .. n, b[p] = 0,
         \A q \in 1 .. p - 1 : b[q] # 0
  PROVE  CString(b) = [q \in 1 .. p - 1 |-> b[q]]
<1> DEFINE ends == {k \in DOMAIN b : b[k] = 0}
<1>1. p \in ends /\ ends \in SUBSET Nat
  OBVIOUS
<1>2. Min(ends) \in ends /\ \A y \in ends : Min(ends) <= y
  BY <1>1, MinOfNats
<1>3. Min(ends) = p
  <2>1. Min(ends) \in 1 .. n /\ b[Min(ends)] = 0 /\ Min(ends) <= p
    BY <1>1, <1>2
  <2>2. ~(Min(ends) \in 1 .. p - 1)
    BY <2>1
  <2> HIDE DEF ends
  <2>3. QED
    BY <2>1, <2>2
<1>4. CString(b) = SubSeq(b, 1, p - 1)
  BY <1>1, <1>3 DEF CString
<1>5. SubSeq(b, 1, p - 1) = [q \in 1 .. p - 1 |-> b[q]]
  OBVIOUS
<1>6. QED
  BY <1>4, <1>5

-----------------------------------------------------------------------------
(* An escape that is cut off.                                              *)

Decoded(ch) == IF ch = Plus THEN Space ELSE ch

\* The first percent sign of src is at p, too close to the end.
CutAt(p) ==
  /\ p \in 1 .. Len(src) /\ src[p] = Pct /\ p + 2 > Len(src)
  /\ \A q \in 1 .. p - 1 : src[q] # Pct

\* Up to there reading and writing go in step; its cell stays a NUL and what
\* follows is written behind it.
CutInv ==
  stage \in {"decode", "done"} =>
    /\ DOMAIN buf = 1 .. len
    /\ \A p \in Nat : CutAt(p) =>
         /\ psrc <= p => pbuf = psrc
         /\ psrc > p => pbuf > p
         /\ \A q \in 1 .. p - 1 : q < psrc => buf[q] = Decoded(src[q])
         /\ buf[p] = 0
    /\ stage = "done" => psrc > Len(src)

\* A character is written into a cell and both pointers move.
LEMMA CutPut ==
  ASSUME IInv, CutInv, NEW ch, Decoding(ch), NEW c, Put(<<c>>), NEW by \in Nat \ {0},
         Advance(by, 1), UNCHANGED <<stage, src, len>>,
         \A p \in Nat : CutAt(p) /\ psrc <= p => psrc < p /\ by = 1 /\ c = Decoded(src[psrc])
  PROVE  CutInv'
<1>1. /\ stage = "decode" /\ psrc \in Nat \ {0} /\ pbuf \in Nat \ {0} /\ Len(src) \in Nat
      /\ len = Len(src) + 1 /\ psrc <= Len(src) /\ pbuf <= psrc
  BY DEF Decoding, IInv, Pace
<1>2. /\ buf' = [k \in 1 .. len |-> IF k = pbuf THEN c ELSE buf[k]]
      /\ psrc' = psrc + by /\ pbuf' = pbuf + 1
  BY <1>1 DEF Put, Advance
<1>3. ASSUME NEW p \in Nat, CutAt(p)
      PROVE  /\ psrc' <= p => pbuf' = psrc'
             /\ psrc' > p => pbuf' > p
             /\ \A q \in 1 .. p - 1 : q < psrc' => buf'[q] = Decoded(src[q])
             /\ buf'[p] = 0
  <2>1. /\ psrc <= p => pbuf = psrc
        /\ psrc > p => pbuf > p
        /\ \A q \in 1 .. p - 1 : q < psrc => buf[q] = Decoded(src[q])
        /\ buf[p] = 0
    BY <1>1, <1>3 DEF CutInv
  <2>2. p \in 1 .. Len(src)
    BY <1>3 DEF CutAt
  <2>3. CASE psrc <= p
    <3>1. psrc < p /\ by = 1 /\ c = Decoded(src[psrc]) /\ pbuf = psrc
      BY <1>3, <2>1, <2>3
    <3>2. \A q \in 1 .. p - 1 : q < psrc' => buf'[q] = Decoded(src[q])
      BY <1>1, <1>2, <2>1, <2>2, <3>1
    <3>3. QED
      BY <1>1, <1>2, <2>1, <2>2, <3>1, <3>2
  <2>4. CASE psrc > p
    BY <1>1, <1>2, <2>1, <2>2, <2>4
  <2>5. QED
    BY <1>1, <2>3, <2>4
<1>4. DOMAIN buf' = 1 .. len'
  BY <1>2
<1>5. \A p : CutAt(p)' = CutAt(p)
  BY DEF CutAt
<1>6. QED
  BY <1>1, <1>3, <1>4, <1>5 DEF CutInv

\* Both functions keep it.
LEMMA CutStep == IInv /\ CutInv /\ [CodecNext]_codecVars => CutInv'
<1> SUFFICES ASSUME IInv, CutInv, [CodecNext]_codecVars PROVE CutInv'
  OBVIOUS
<1>1. CASE EncodeChar
  BY <1>1 DEF EncodeChar, CutInv
<1>2. CASE EncodeEnds
  <2>1. /\ src' \in Seq(Char) /\ len' = Len(src') + 1 /\ buf' = Zeros(len') /\ psrc' = 1
        /\ pbuf' = 1 /\ stage' = "decode"
    BY <1>2, PaceStep DEF EncodeEnds, DecodeLen, IInv, Pace
  <2>2. Len(src') \in Nat
    BY <2>1
  <2>3. \A p \in Nat : CutAt(p)' => p \in 1 .. Len(src')
    BY DEF CutAt
  <2>4. QED
    BY <2>1, <2>2, <2>3 DEF CutInv, Zeros
<1>3. CASE DecodeEscape
  <2>1. /\ Decoding(Pct) /\ psrc + 2 <= Len(src) /\ Advance(3, 1) /\ UNCHANGED <<stage, src, len>>
        /\ src[psrc] = Pct /\ psrc \in Nat \ {0} /\ Len(src) \in Nat
    BY <1>3 DEF DecodeEscape, TwoMore, Decoding, IInv, Pace
  <2>2. PICK c : Put(<<c>>)
    BY <1>3 DEF DecodeEscape
  <2>3. \A p \in Nat : CutAt(p) => ~(psrc <= p)
    BY <2>1 DEF CutAt
  <2>4. QED
    BY <2>1, <2>2, <2>3, CutPut
<1>4. CASE DecodeCutEscape
  <2>1. /\ stage = "decode" /\ src[psrc] = Pct /\ psrc' = psrc + 1 /\ pbuf' = pbuf + 1
        /\ UNCHANGED <<stage, src, len, buf>> /\ psrc \in Nat \ {0} /\ pbuf \in Nat \ {0}
        /\ Len(src) \in Nat
    BY <1>4 DEF DecodeCutEscape, Decoding, Advance, IInv, Pace
  <2>2. ASSUME NEW p \in Nat, CutAt(p)
        PROVE  /\ psrc' <= p => pbuf' = psrc'
               /\ psrc' > p => pbuf' > p
               /\ \A q \in 1 .. p - 1 : q < psrc' => buf'[q] = Decoded(src[q])
               /\ buf'[p] = 0
    <3>1. psrc >= p
      BY <2>1, <2>2 DEF CutAt
    <3>2. QED
      BY <2>1, <2>2, <3>1 DEF CutInv
  <2>3. \A p : CutAt(p)' = CutAt(p)
    BY <2>1 DEF CutAt
  <2>4. QED
    BY <2>1, <2>2, <2>3 DEF CutInv
<1>5. CASE DecodePlus
  <2>1. /\ Decoding(Plus) /\ Put(<<Space>>) /\ Advance(1, 1) /\ UNCHANGED <<stage, src, len>>
        /\ src[psrc] = Plus /\ psrc \in Nat \ {0}
    BY <1>5 DEF DecodePlus, Decoding, IInv, Pace
  <2>2. \A p \in Nat : CutAt(p) /\ psrc <= p => psrc < p /\ Space = Decoded(src[psrc])
    BY <2>1 DEF CutAt, Decoded, Plus, Pct
  <2>3. QED
    BY <2>1, <2>2, CutPut
<1>6. CASE DecodeOther
  <2>1. PICK ch \in Char \ {Pct, Plus} : Decoding(ch) /\ Put(<<ch>>)
    BY <1>6 DEF DecodeOther
  <2>2. /\ Advance(1, 1) /\ UNCHANGED <<stage, src, len>>
        /\ src[psrc] = ch /\ psrc \in Nat \ {0}
    BY <1>6, <2>1 DEF DecodeOther, Decoding, IInv, Pace
  <2>3. \A p \in Nat : CutAt(p) /\ psrc <= p => psrc < p /\ ch = Decoded(src[psrc])
    BY <2>1, <2>2 DEF CutAt, Decoded
  <2>4. QED
    BY <2>1, <2>2, <2>3, CutPut
<1>7. CASE DecodeEnds
  <2>1. /\ stage = "decode" /\ stage' = "done" /\ psrc > Len(src)
        /\ buf' = [k \in 1 .. len |-> IF k = pbuf THEN 0 ELSE buf[k]]
        /\ UNCHANGED <<src, psrc, len, pbuf>>
        /\ psrc \in Nat \ {0} /\ pbuf \in Nat \ {0} /\ Len(src) \in Nat /\ len = Len(src) + 1
    BY <1>7 DEF DecodeEnds, IInv, Pace
  <2>2. ASSUME NEW p \in Nat, CutAt(p)
        PROVE  /\ p < psrc /\ pbuf > p
               /\ \A q \in 1 .. p - 1 : buf'[q] = Decoded(src[q])
               /\ buf'[p] = 0
    <3>1. p \in 1 .. Len(src) /\ p < psrc
      BY <2>1, <2>2 DEF CutAt
    <3>2. /\ pbuf > p /\ buf[p] = 0
          /\ \A q \in 1 .. p - 1 : q < psrc => buf[q] = Decoded(src[q])
      BY <2>1, <2>2, <3>1 DEF CutInv
    <3>3. QED
      BY <2>1, <3>1, <3>2
  <2>3. \A p : CutAt(p)' = CutAt(p)
    BY <2>1 DEF CutAt
  <2>4. QED
    BY <2>1, <2>2, <2>3 DEF CutInv
<1>8. CASE Done \/ UNCHANGED codecVars
  BY <1>8 DEF Done, codecVars, CutInv, CutAt
<1>9. QED
  BY <1>1, <1>2, <1>3, <1>4, <1>5, <1>6, <1>7, <1>8 DEF CodecNext

\* Whatever the query string, an escape that is cut off ends the text that
\* getQuery sees, and everything in front of it comes through.
THEOREM CutEscapeEnds == CodecSpec => []CutEscapeEndsText
<1>1. CodecInit => CutInv
  <2> SUFFICES ASSUME CodecInit PROVE CutInv
    OBVIOUS
  <2>1. src \in Seq(Char) /\ Len(src) \in Nat
    BY PaceInit DEF IInv, Pace
  <2>2. stage \in {"decode", "done"} =>
          stage = "decode" /\ buf = Zeros(len) /\ psrc = 1 /\ pbuf = 1 /\ len = Len(src) + 1
    BY DEF CodecInit, DecodeLen
  <2>3. \A p \in Nat : CutAt(p) => p \in 1 .. Len(src)
    BY DEF CutAt
  <2>4. QED
    BY <2>1, <2>2, <2>3 DEF CutInv, Zeros
<1>2. IInv /\ CutInv => CutEscapeEndsText
  <2> SUFFICES ASSUME IInv, CutInv, stage = "done", NEW p \in 1 .. Len(src), CutAt(p)
               PROVE  CString(buf) = [q \in 1 .. p - 1 |-> IF src[q] = Plus THEN Space ELSE src[q]]
    BY DEF CutEscapeEndsText, CutAt
  <2>1. /\ src \in Seq(Char) /\ Len(src) \in Nat /\ len = Len(src) + 1 /\ psrc \in Nat
        /\ psrc > Len(src) /\ DOMAIN buf = 1 .. len
    BY DEF IInv, Pace, CutInv
  <2>2. p \in Nat /\ p \in 1 .. len
    BY <2>1
  <2>3. buf[p] = 0 /\ \A q \in 1 .. p - 1 : buf[q] = Decoded(src[q])
    BY <2>1, <2>2 DEF CutInv
  <2>4. \A q \in 1 .. p - 1 : buf[q] # 0
    <3> SUFFICES ASSUME NEW q \in 1 .. p - 1 PROVE buf[q] # 0
      OBVIOUS
    <3>1. src[q] \in Char
      BY <2>1
    <3>2. QED
      <4>1. buf[q] = Space \/ buf[q] = src[q]
        BY <2>3 DEF Decoded
      <4>2. QED
        BY <3>1, <4>1, NoNul
  <2>5. CString(buf) = [q \in 1 .. p - 1 |-> buf[q]]
    BY <2>1, <2>2, <2>3, <2>4, CStringIs
  <2>6. QED
    BY <2>3, <2>5 DEF Decoded
<1>3. QED
  BY <1>1, <1>2, PaceInit, PaceStep, CutStep, PTL DEF CodecSpec

-----------------------------------------------------------------------------
(* The round trip.                                                         *)

\* Where in e the encodings of the first k - 1 characters of s stand: that of
\* character j from f[j] up to f[j + 1].
Layout(s, e, k, f) ==
  /\ f \in [1 .. k -> Nat \ {0}]
  /\ f[1] = 1
  /\ \A j \in 1 .. k : f[j] <= f[k]
  /\ \A j \in 1 .. k - 1 :
       /\ f[j + 1] = f[j] + Len(Encoded(s[j]))
       /\ \A m \in 1 .. Len(Encoded(s[j])) : e[f[j] + m - 1] = Encoded(s[j])[m]

\* urlencode has laid out what it has read, without a NUL, and the rest of
\* its block is as memset left it.
EncodeInv ==
  /\ src = text /\ DOMAIN buf = 1 .. len
  /\ \E f : Layout(text, buf, psrc, f) /\ f[psrc] = pbuf
  /\ \A q \in 1 .. len : IF q < pbuf THEN buf[q] # 0 ELSE buf[q] = 0

\* urldecode reads such a layout of the whole text, and has written as many
\* characters of the text as it has read encodings.
DecodeInv ==
  /\ DOMAIN buf = 1 .. len
  /\ pbuf \in 1 .. Len(text) + 1
  /\ \E f : /\ Layout(text, src, Len(text) + 1, f)
            /\ f[Len(text) + 1] = Len(src) + 1
            /\ psrc = f[pbuf]
  /\ \A q \in 1 .. pbuf - 1 : buf[q] = text[q]

TripInv ==
  raw = FALSE =>
    /\ text \in Seq(Char) /\ Len(text) \in Nat
    /\ stage = "encode" => EncodeInv
    /\ stage = "decode" => DecodeInv
    /\ RoundTrip

\* One encoding of a layout: its size, and that it lies in front of the end.
LaidAt(s, e, k, f, j) ==
  /\ s[j] \in Char /\ Len(Encoded(s[j])) \in {1, 3}
  /\ f[j] \in Nat \ {0} /\ f[j + 1] \in Nat \ {0} /\ f[k] \in Nat \ {0}
  /\ f[j + 1] = f[j] + Len(Encoded(s[j])) /\ f[j + 1] <= f[k]
  /\ \A m \in 1 .. Len(Encoded(s[j])) : e[f[j] + m - 1] = Encoded(s[j])[m]

\* Every encoding of a layout is such.
LEMMA Laid ==
  ASSUME NEW s, NEW e, NEW k, NEW f, Layout(s, e, k, f),
         s \in Seq(Char), k \in Nat, k <= Len(s) + 1, NEW j, j \in 1 .. k - 1
  PROVE  LaidAt(s, e, k, f, j)
<1>1. s[j] \in Char
  <2>1. Len(s) \in Nat
    OBVIOUS
  <2>2. j \in 1 .. Len(s)
    BY <2>1
  <2>3. QED
    BY <2>2
<1>2. Len(Encoded(s[j])) \in {1, 3}
  BY <1>1, EncodedForms
<1>3. j \in 1 .. k /\ j + 1 \in 1 .. k /\ k \in 1 .. k
  OBVIOUS
<1>4. f[j] \in Nat \ {0} /\ f[j + 1] \in Nat \ {0} /\ f[k] \in Nat \ {0}
  BY <1>3 DEF Layout
<1>5. QED
  BY <1>1, <1>2, <1>3, <1>4 DEF Layout, LaidAt

\* urlencode adds the encoding of one more character.
LEMMA EncodeTrip ==
  ASSUME IInv, raw = FALSE, text \in Seq(Char), Len(text) \in Nat, EncodeInv, EncodeChar
  PROVE  EncodeInv'
<1> DEFINE s == Encoded(src[psrc])
<1>1. /\ src = text /\ psrc \in 1 .. Len(text) /\ pbuf \in Nat \ {0} /\ src[psrc] \in Char
      /\ len \in Nat
  BY DEF EncodeChar, EncodeInv, IInv, Pace
<1>2. s \in Seq(Char) /\ Len(s) \in {1, 3} /\ \A m \in 1 .. Len(s) : s[m] \in Char
  BY <1>1, EncodedForms
<1>3. s = Encoded(text[psrc])
  BY <1>1
<1> HIDE DEF s
<1>4. /\ buf' = [k \in 1 .. len |->
                   IF k \in pbuf .. pbuf + Len(s) - 1 THEN s[k - pbuf + 1] ELSE buf[k]]
      /\ psrc' = psrc + 1 /\ pbuf' = pbuf + Len(s) /\ UNCHANGED <<text, src, len>>
  BY DEF EncodeChar, Put, Advance, s
<1>5. pbuf + Len(s) - 1 <= len
  <2>1. ~(pbuf + Len(s) - 1 > len)
    BY PaceStep DEF EncodeChar, Put, IInv, CodecNext, s
  <2>2. QED
    BY <1>1, <1>2, <2>1
<1>6. PICK f : Layout(text, buf, psrc, f) /\ f[psrc] = pbuf
  BY DEF EncodeInv
<1> DEFINE g == [j \in 1 .. psrc + 1 |-> IF j = psrc + 1 THEN pbuf + Len(s) ELSE f[j]]
<1>7. /\ g[psrc + 1] = pbuf + Len(s) /\ \A j \in 1 .. psrc : g[j] = f[j]
      /\ g \in [1 .. psrc + 1 -> Nat \ {0}]
  BY <1>1, <1>2, <1>6 DEF Layout
<1> HIDE DEF g
<1>8. \A q \in 1 .. len : q < pbuf => buf'[q] = buf[q]
  BY <1>1, <1>4
<1>9. \A m \in 1 .. Len(s) : buf'[pbuf + m - 1] = s[m]
  BY <1>1, <1>2, <1>4, <1>5
<1>10. ASSUME NEW j \in 1 .. psrc
       PROVE  /\ g[j + 1] = g[j] + Len(Encoded(text[j]))
              /\ \A m \in 1 .. Len(Encoded(text[j])) : buf'[g[j] + m - 1] = Encoded(text[j])[m]
  <2>1. CASE j = psrc
    BY <1>1, <1>3, <1>6, <1>7, <1>9, <2>1
  <2>2. CASE j < psrc
    <3>1. j \in 1 .. psrc - 1 /\ j + 1 \in 1 .. psrc
      BY <1>1, <2>2
    <3>2. /\ f[j + 1] = f[j] + Len(Encoded(text[j])) /\ f[j + 1] <= pbuf
          /\ f[j] \in Nat \ {0} /\ Len(Encoded(text[j])) \in {1, 3}
          /\ \A m \in 1 .. Len(Encoded(text[j])) : buf[f[j] + m - 1] = Encoded(text[j])[m]
      <4>1. psrc \in Nat /\ psrc <= Len(text) + 1 /\ f[psrc] = pbuf
            /\ Layout(text, buf, psrc, f)
        BY <1>1, <1>6
      <4>2. LaidAt(text, buf, psrc, f, j)
        BY <3>1, <4>1, Laid, Zenon
      <4>3. QED
        BY <4>1, <4>2 DEF LaidAt
    <3>3. PICK l \in {1, 3} : l = Len(Encoded(text[j]))
      BY <3>2
    <3>4. \A m \in 1 .. Len(Encoded(text[j])) : f[j] + m - 1 \in 1 .. len /\ f[j] + m - 1 < pbuf
      <4>1. f[j] + l <= pbuf /\ pbuf <= len
        <5>1. f[j] + l <= pbuf
          BY <3>2, <3>3
        <5>2. pbuf <= len
          <6>1. PICK n \in {1, 3} : n = Len(s)
            BY <1>2
          <6>2. QED
            BY ONLY <1>1, <1>5, <6>1
        <5>3. QED
          BY <5>1, <5>2
      <4>2. QED
        BY <1>1, <3>2, <3>3, <4>1
    <3>5. QED
      BY <1>7, <1>8, <3>1, <3>2, <3>4
  <2>3. QED
    BY <1>1, <2>1, <2>2
<1>11. \A j \in 1 .. psrc + 1 : g[j] <= g[psrc + 1]
  <2> SUFFICES ASSUME NEW j \in 1 .. psrc + 1 PROVE g[j] <= g[psrc + 1]
    OBVIOUS
  <2>1. CASE j = psrc + 1
    BY <1>1, <1>2, <1>7, <2>1
  <2>2. CASE j \in 1 .. psrc
    <3>1. f[j] <= pbuf /\ f[j] \in Nat
      BY <1>6, <2>2 DEF Layout
    <3>2. QED
      BY <1>1, <1>2, <1>7, <2>2, <3>1
  <2>3. QED
    BY <1>1, <2>1, <2>2
<1>12. Layout(text, buf', psrc + 1, g)
  BY <1>1, <1>6, <1>7, <1>10, <1>11 DEF Layout
<1>13. \A q \in 1 .. len : IF q < pbuf' THEN buf'[q] # 0 ELSE buf'[q] = 0
  <2> SUFFICES ASSUME NEW q \in 1 .. len
               PROVE  IF q < pbuf' THEN buf'[q] # 0 ELSE buf'[q] = 0
    OBVIOUS
  <2>1. CASE q \in pbuf .. pbuf + Len(s) - 1
    <3>1. q - pbuf + 1 \in 1 .. Len(s) /\ q < pbuf'
      BY <1>1, <1>2, <1>4, <2>1
    <3>2. buf'[q] = s[q - pbuf + 1]
      BY <1>4, <2>1
    <3>3. QED
      BY <1>2, <3>1, <3>2, NoNul
  <2>2. CASE q \notin pbuf .. pbuf + Len(s) - 1
    <3>1. buf'[q] = buf[q] /\ IF q < pbuf THEN buf[q] # 0 ELSE buf[q] = 0
      BY <1>4, <2>2 DEF EncodeInv
    <3>2. q < pbuf' <=> q < pbuf
      BY <1>1, <1>2, <1>4, <2>2
    <3>3. QED
      BY <3>1, <3>2
  <2>3. QED
    BY <2>1, <2>2
<1>14. QED
  <2>1. Layout(text', buf', psrc', g) /\ g[psrc'] = pbuf'
    BY <1>4, <1>7, <1>12
  <2>2. DOMAIN buf' = 1 .. len' /\ src' = text'
    BY <1>1, <1>4
  <2>3. QED
    BY <1>4, <1>13, <2>1, <2>2 DEF EncodeInv, Layout

\* The string that urlencode returns is the layout of the whole text.
LEMMA EncodeReturns ==
  ASSUME IInv, raw = FALSE, text \in Seq(Char), Len(text) \in Nat, EncodeInv, EncodeEnds
  PROVE  DecodeInv'
<1>1. /\ src = text /\ psrc = Len(text) + 1 /\ pbuf \in Nat \ {0} /\ len \in Nat
      /\ DOMAIN buf = 1 .. len
  BY DEF EncodeEnds, EncodeInv, IInv, Pace
<1>2. pbuf <= len
  BY <1>1 DEF EncodeEnds, IInv, Pace
<1>3. /\ src' = CString(buf) /\ len' = Len(src') + 1 /\ buf' = Zeros(len')
      /\ psrc' = 1 /\ pbuf' = 1 /\ text' = text
  BY DEF EncodeEnds, DecodeLen
<1>4. buf[pbuf] = 0 /\ \A q \in 1 .. pbuf - 1 : buf[q] # 0
  <2>1. pbuf \in 1 .. len /\ \A q \in 1 .. pbuf - 1 : q \in 1 .. len /\ q < pbuf
    BY <1>1, <1>2
  <2>2. \A q \in 1 .. len : IF q < pbuf THEN buf[q] # 0 ELSE buf[q] = 0
    BY DEF EncodeInv
  <2>3. ~(pbuf < pbuf)
    BY <1>1
  <2>4. QED
    BY <2>1, <2>2, <2>3
<1>5. src' = [q \in 1 .. pbuf - 1 |-> buf[q]]
  BY <1>1, <1>2, <1>3, <1>4, CStringIs
<1>6. Len(src') = pbuf - 1
  BY <1>1, <1>5
<1>7. PICK f : Layout(text, buf, psrc, f) /\ f[psrc] = pbuf
  BY DEF EncodeInv
<1>8. ASSUME NEW j \in 1 .. Len(text)
      PROVE  \A m \in 1 .. Len(Encoded(text[j])) : src'[f[j] + m - 1] = Encoded(text[j])[m]
  <2>1. psrc \in Nat /\ psrc <= Len(text) + 1 /\ j \in 1 .. psrc - 1
    BY <1>1
  <2>2. LaidAt(text, buf, psrc, f, j)
    BY <1>7, <2>1, Laid, Zenon
  <2>3. PICK l \in {1, 3} : l = Len(Encoded(text[j]))
    BY <2>2 DEF LaidAt
  <2>4. f[j] \in Nat \ {0} /\ f[j] + l <= pbuf
    BY <1>7, <2>2, <2>3 DEF LaidAt
  <2>5. \A m \in 1 .. l : f[j] + m - 1 \in 1 .. pbuf - 1
    BY <1>1, <2>4
  <2>6. QED
    BY <1>5, <2>2, <2>3, <2>5 DEF LaidAt
<1>9. Layout(text, src', Len(text) + 1, f)
  BY <1>1, <1>7, <1>8 DEF Layout
<1>10. f[1] = 1
  BY <1>7 DEF Layout
<1>11. DOMAIN buf' = 1 .. len'
  BY <1>3 DEF Zeros
<1>12. f[Len(text) + 1] = Len(src') + 1
  BY <1>1, <1>6, <1>7
<1>13. QED
  BY <1>3, <1>9, <1>10, <1>11, <1>12 DEF DecodeInv

\* What urldecode is about to read: a whole encoding, of the character that
\* belongs into the cell it is about to write.
LEMMA DecodeReads ==
  ASSUME IInv, text \in Seq(Char), Len(text) \in Nat, DecodeInv, psrc <= Len(src)
  PROVE  /\ pbuf \in 1 .. Len(text) /\ text[pbuf] \in Char
         /\ psrc + Len(Encoded(text[pbuf])) - 1 <= Len(src)
         /\ \A m \in 1 .. Len(Encoded(text[pbuf])) : src[psrc + m - 1] = Encoded(text[pbuf])[m]
<1>1. psrc \in Nat \ {0} /\ Len(src) \in Nat
  BY DEF IInv, Pace
<1> DEFINE k == Len(text) + 1
<1>2. PICK f : Layout(text, src, k, f) /\ f[k] = Len(src) + 1 /\ psrc = f[pbuf]
  BY DEF DecodeInv
<1>3. pbuf \in 1 .. Len(text)
  BY <1>1, <1>2 DEF DecodeInv
<1>4. k \in Nat /\ k <= Len(text) + 1 /\ pbuf \in 1 .. k - 1
  BY <1>3
<1> HIDE DEF k
<1>5. LaidAt(text, src, k, f, pbuf)
  BY <1>2, <1>4, Laid, Zenon
<1>6. PICK l \in {1, 3} : l = Len(Encoded(text[pbuf]))
  BY <1>5 DEF LaidAt
<1>7. psrc + l <= Len(src) + 1
  BY <1>2, <1>5, <1>6 DEF LaidAt
<1>8. psrc + Len(Encoded(text[pbuf])) - 1 <= Len(src)
  BY <1>1, <1>6, <1>7
<1>9. QED
  BY <1>2, <1>3, <1>5, <1>8 DEF LaidAt

\* A step of urldecode that reads one encoding and writes its character.
LEMMA DecodeTrip ==
  ASSUME IInv, text \in Seq(Char), Len(text) \in Nat, DecodeInv, psrc <= Len(src),
         NEW by, by = Len(Encoded(text[pbuf])), NEW c, c = text[pbuf],
         Put(<<c>>), Advance(by, 1), UNCHANGED <<text, src, len>>
  PROVE  DecodeInv'
<1>1. pbuf \in 1 .. Len(text)
  BY DecodeReads
<1>2. /\ buf' = [q \in 1 .. len |-> IF q = pbuf THEN c ELSE buf[q]]
      /\ psrc' = psrc + by /\ pbuf' = pbuf + 1
  BY <1>1 DEF Put, Advance
<1>3. /\ len \in Nat /\ pbuf \in 1 .. len
  BY <1>1 DEF IInv, Pace
<1> DEFINE k == Len(text) + 1
<1>4. PICK f : Layout(text, src, k, f) /\ f[k] = Len(src) + 1 /\ psrc = f[pbuf]
  BY DEF DecodeInv
<1>5. k \in Nat /\ k <= Len(text) + 1 /\ pbuf \in 1 .. k - 1
  BY <1>1
<1>6. LaidAt(text, src, k, f, pbuf)
  <2> HIDE DEF k
  <2>1. QED
    BY <1>4, <1>5, Laid, Zenon
<1>7. psrc' = f[pbuf']
  BY <1>2, <1>4, <1>6 DEF LaidAt
<1>8. \A q \in 1 .. pbuf' - 1 : buf'[q] = text[q]
  <2> SUFFICES ASSUME NEW q \in 1 .. pbuf' - 1 PROVE buf'[q] = text[q]
    OBVIOUS
  <2>1. q = pbuf \/ q \in 1 .. pbuf - 1
    BY <1>1, <1>2
  <2>2. q \in 1 .. len
    BY <1>2, <1>3, <2>1
  <2>3. q \in 1 .. pbuf - 1 => buf[q] = text[q]
    BY DEF DecodeInv
  <2>4. QED
    BY <1>2, <2>1, <2>2, <2>3
<1>9. pbuf' \in 1 .. Len(text) + 1
  BY <1>1, <1>2
<1>10. DOMAIN buf' = 1 .. len
  BY <1>2
<1>11. QED
  BY <1>4, <1>7, <1>8, <1>9, <1>10 DEF DecodeInv

\* urldecode returns when every character has been written.
LEMMA DecodeReturns ==
  ASSUME IInv, text \in Seq(Char), Len(text) \in Nat, DecodeInv, DecodeEnds
  PROVE  CString(buf') = text
<1>1. /\ psrc \in Nat \ {0} /\ pbuf \in Nat \ {0} /\ Len(src) \in Nat /\ len \in Nat
      /\ psrc > Len(src) /\ pbuf <= len
      /\ buf' = [k \in 1 .. len |-> IF k = pbuf THEN 0 ELSE buf[k]]
  BY DEF DecodeEnds, IInv, Pace
<1> DEFINE k == Len(text) + 1
<1>2. PICK f : Layout(text, src, k, f) /\ f[k] = Len(src) + 1 /\ psrc = f[pbuf]
  BY DEF DecodeInv
<1>3. pbuf = k
  <2> SUFFICES ASSUME pbuf # k PROVE FALSE
    OBVIOUS
  <2>1. k \in Nat /\ k <= Len(text) + 1 /\ pbuf \in 1 .. k - 1
    BY DEF DecodeInv
  <2> HIDE DEF k
  <2>2. LaidAt(text, src, k, f, pbuf)
    BY <1>2, <2>1, Laid, Zenon
  <2>3. PICK l \in {1, 3} : l = Len(Encoded(text[pbuf]))
    BY <2>2 DEF LaidAt
  <2>4. psrc + l <= Len(src) + 1
    BY <1>2, <2>2, <2>3 DEF LaidAt
  <2>5. QED
    BY <1>1, <2>4
<1>4. \A q \in 1 .. pbuf - 1 : q \in 1 .. len /\ q # pbuf /\ q \in 1 .. Len(text)
  BY <1>1, <1>3
<1>5. \A q \in 1 .. pbuf - 1 : buf'[q] = text[q]
  BY <1>1, <1>4 DEF DecodeInv
<1>6. \A q \in 1 .. pbuf - 1 : text[q] # 0
  BY <1>4, NoNul
<1>7. buf'[pbuf] = 0 /\ DOMAIN buf' = 1 .. len /\ pbuf \in 1 .. len
  BY <1>1
<1>8. CString(buf') = [q \in 1 .. pbuf - 1 |-> buf'[q]]
  <2>1. \A q \in 1 .. pbuf - 1 : buf'[q] # 0
    BY <1>5, <1>6
  <2>2. PICK b : b = buf'
    OBVIOUS
  <2>3. len \in Nat /\ DOMAIN b = 1 .. len /\ pbuf \in 1 .. len /\ b[pbuf] = 0
        /\ \A q \in 1 .. pbuf - 1 : b[q] # 0
    BY <1>1, <1>7, <2>1, <2>2
  <2>4. CString(b) = [q \in 1 .. pbuf - 1 |-> b[q]]
    BY <2>3, CStringIs
  <2>5. QED
    BY <2>2, <2>4
<1>9. [q \in 1 .. pbuf - 1 |-> buf'[q]] = [q \in 1 .. Len(text) |-> text[q]]
  BY <1>3, <1>5
<1>10. text = [q \in 1 .. Len(text) |-> text[q]]
  OBVIOUS
<1>11. QED
  BY <1>8, <1>9, <1>10

\* Every step of the trip.
LEMMA TripStep == IInv /\ TripInv /\ [CodecNext]_codecVars => TripInv'
<1> SUFFICES ASSUME IInv, TripInv, [CodecNext]_codecVars, raw' = FALSE
             PROVE  /\ (text \in Seq(Char) /\ Len(text) \in Nat)'
                    /\ stage' = "encode" => EncodeInv'
                    /\ stage' = "decode" => DecodeInv'
                    /\ RoundTrip'
  BY DEF TripInv
<1>1. raw = FALSE /\ text' = text
  BY DEF CodecNext, EncodeChar, EncodeEnds, DecodeEscape, DecodeCutEscape, DecodePlus,
         DecodeOther, DecodeEnds, Done, codecVars
<1>2. /\ text \in Seq(Char) /\ Len(text) \in Nat /\ RoundTrip
      /\ stage = "encode" => EncodeInv
      /\ stage = "decode" => DecodeInv
  BY <1>1 DEF TripInv
<1>3. CASE EncodeChar
  <2>1. stage = "encode" /\ stage' = "encode"
    BY <1>3 DEF EncodeChar
  <2>2. EncodeInv'
    BY <1>1, <1>2, <1>3, <2>1, EncodeTrip
  <2>3. QED
    BY <1>1, <1>2, <2>1, <2>2 DEF RoundTrip
<1>4. CASE EncodeEnds
  <2>1. stage = "encode" /\ stage' = "decode"
    BY <1>4 DEF EncodeEnds
  <2>2. DecodeInv'
    BY <1>1, <1>2, <1>4, <2>1, EncodeReturns
  <2>3. QED
    BY <1>1, <1>2, <2>1, <2>2 DEF RoundTrip
<1> DEFINE s == Encoded(text[pbuf])
<1>5. ASSUME NEW ch, Decoding(ch)
      PROVE  /\ stage = "decode" /\ psrc <= Len(src) /\ DecodeInv
             /\ text[pbuf] \in Char /\ s[1] = ch /\ psrc + Len(s) - 1 <= Len(src)
             /\ \A m \in 1 .. Len(s) : src[psrc + m - 1] = s[m]
  <2>1. stage = "decode" /\ psrc <= Len(src) /\ src[psrc] = ch /\ DecodeInv /\ psrc \in Nat
    BY <1>2, <1>5 DEF Decoding, IInv, Pace
  <2>2. /\ text[pbuf] \in Char /\ psrc + Len(s) - 1 <= Len(src)
        /\ \A m \in 1 .. Len(s) : src[psrc + m - 1] = s[m]
    BY <1>2, <2>1, DecodeReads
  <2>3. Len(s) \in {1, 3}
    BY <2>2, EncodedForms
  <2> HIDE DEF s
  <2>4. src[psrc + 1 - 1] = s[1]
    BY <2>2, <2>3
  <2>5. QED
    BY <2>1, <2>2, <2>4
<1>6. ASSUME NEW ch, Decoding(ch), NEW c, Put(<<c>>), c = text[pbuf], Advance(Len(s), 1),
             UNCHANGED <<text, raw, stage, src, len>>
      PROVE  stage' = "decode" /\ DecodeInv'
  BY <1>2, <1>5, <1>6, DecodeTrip
<1>7. ASSUME NEW ch, Decoding(ch)
      PROVE  /\ ch = Pct => Len(s) = 3 /\ Unescape(s[2], s[3]) = text[pbuf]
             /\ ch = Plus => Len(s) = 1 /\ text[pbuf] = Space
             /\ ch \notin {Pct, Plus} => Len(s) = 1 /\ ch = text[pbuf]
  BY <1>5, <1>7, EncodedForms
<1>8. CASE DecodeEscape
  <2>1. Decoding(Pct) /\ TwoMore /\ Advance(3, 1) /\ UNCHANGED <<text, raw, stage, src, len>>
        /\ psrc \in Nat
    BY <1>8 DEF DecodeEscape, IInv, Pace
  <2>2. Len(s) = 3 /\ Unescape(s[2], s[3]) = text[pbuf]
    BY <1>7, <2>1
  <2>3. src[psrc + 1] = s[2] /\ src[psrc + 2] = s[3]
    <3>1. \A m \in 1 .. 3 : src[psrc + m - 1] = s[m]
      BY <1>5, <2>1, <2>2
    <3> HIDE DEF s
    <3>2. src[psrc + 2 - 1] = s[2] /\ src[psrc + 3 - 1] = s[3]
      BY <3>1
    <3>3. QED
      BY <2>1, <3>2
  <2>4. Put(<<Unescape(src[psrc + 1], src[psrc + 2])>>)
    BY <1>8, <2>1 DEF DecodeEscape, TwoMore
  <2>5. Put(<<text[pbuf]>>)
    BY <2>2, <2>3, <2>4
  <2>6. stage' = "decode" /\ DecodeInv'
    BY <1>6, <2>1, <2>2, <2>5
  <2>7. QED
    BY <1>1, <1>2, <2>6 DEF RoundTrip
<1>9. CASE DecodeCutEscape
  <2>1. Decoding(Pct) /\ ~TwoMore /\ psrc \in Nat /\ Len(src) \in Nat
    BY <1>9 DEF DecodeCutEscape, IInv, Pace
  <2>2. Len(s) = 3 /\ psrc + Len(s) - 1 <= Len(src)
    BY <1>5, <1>7, <2>1
  <2> HIDE DEF s
  <2>3. QED
    BY <2>1, <2>2 DEF TwoMore
<1>10. CASE DecodePlus
  <2>1. Decoding(Plus) /\ Put(<<Space>>) /\ Advance(1, 1) /\ UNCHANGED <<text, raw, stage, src, len>>
    BY <1>10 DEF DecodePlus
  <2>2. Len(s) = 1 /\ text[pbuf] = Space
    BY <1>7, <2>1
  <2>3. stage' = "decode" /\ DecodeInv'
    BY <1>6, <2>1, <2>2
  <2>4. QED
    BY <1>1, <1>2, <2>3 DEF RoundTrip
<1>11. CASE DecodeOther
  <2>1. PICK ch \in Char \ {Pct, Plus} : Decoding(ch) /\ Put(<<ch>>)
    BY <1>11 DEF DecodeOther
  <2>2. Advance(1, 1) /\ UNCHANGED <<text, raw, stage, src, len>>
    BY <1>11 DEF DecodeOther
  <2>3. Len(s) = 1 /\ ch = text[pbuf]
    BY <1>7, <2>1
  <2>4. stage' = "decode" /\ DecodeInv'
    BY <1>6, <2>1, <2>2, <2>3
  <2>5. QED
    BY <1>1, <1>2, <2>4 DEF RoundTrip
<1>12. CASE DecodeEnds
  <2>1. stage = "decode" /\ stage' = "done"
    BY <1>12 DEF DecodeEnds
  <2>2. CString(buf') = text
    BY <1>2, <1>12, <2>1, DecodeReturns
  <2>3. QED
    BY <1>1, <1>2, <2>1, <2>2 DEF RoundTrip
<1>13. CASE Done \/ UNCHANGED codecVars
  BY <1>2, <1>13 DEF Done, codecVars, EncodeInv, DecodeInv, RoundTrip
<1>14. QED
  BY <1>3, <1>4, <1>8, <1>9, <1>10, <1>11, <1>12, <1>13 DEF CodecNext

\* Every text that a client encodes with urlencode comes out of urldecode as
\* it was, byte for byte.
THEOREM RoundTrips == CodecSpec => []RoundTrip
<1>1. CodecInit => TripInv
  <2> SUFFICES ASSUME CodecInit, raw = FALSE PROVE TripInv
    BY DEF TripInv
  <2>1. /\ text \in Seq(Char) /\ stage = "encode" /\ src = text /\ len = 3 * Len(src) + 1
        /\ buf = Zeros(len) /\ psrc = 1 /\ pbuf = 1
    BY TextsAssumption DEF CodecInit, EncodeLen
  <2>2. Len(text) \in Nat
    BY <2>1
  <2> DEFINE f == [j \in 1 .. 1 |-> 1]
  <2>3. Layout(text, buf, psrc, f) /\ f[psrc] = pbuf
    BY <2>1 DEF Layout
  <2>4. EncodeInv
    <3>1. DOMAIN buf = 1 .. len /\ \A q \in 1 .. len : buf[q] = 0
      BY <2>1 DEF Zeros
    <3>2. \A q \in 1 .. len : ~(q < pbuf)
      BY <2>1
    <3>3. QED
      BY <2>1, <2>3, <3>1, <3>2 DEF EncodeInv
  <2>5. QED
    BY <2>1, <2>2, <2>4 DEF TripInv, RoundTrip
<1>2. TripInv => RoundTrip
  BY DEF TripInv, RoundTrip
<1>3. QED
  BY <1>1, <1>2, PaceInit, PaceStep, TripStep, PTL DEF CodecSpec

-----------------------------------------------------------------------------
(* The segmentation.                                                       *)

\* The loop's index and the terms' offsets stay within the keyword.
THEOREM TypeCorrect == Spec => []TypeOK
<1>1. Init => TypeOK
  <2> SUFFICES ASSUME Init PROVE TypeOK
    OBVIOUS
  <2>1. str \in Seq(Bytes) /\ N \in Nat
    BY KeywordsAssumption DEF Init, N
  <2>2. QED
    BY <2>1 DEF Init, TypeOK
<1>2. TypeOK /\ [Next]_vars => TypeOK'
  <2> SUFFICES ASSUME TypeOK, [Next]_vars PROVE TypeOK'
    OBVIOUS
  <2> DEFINE Slices == (0 .. N) \X (0 .. N)
  <2>1. N \in Nat /\ i \in Nat /\ i <= N
    BY DEF TypeOK, N
  <2>2. str' = str /\ N' = N
    BY DEF Next, FirstEmpty, FirstAscii, FirstWide, LoopAscii, LoopWide,
           LoopRest, LoopEnd, Build, Finished, vars, N
  <2>3. i' \in 0 .. N
    BY <2>1 DEF Next, FirstEmpty, FirstAscii, FirstWide, FirstTake, LoopAscii,
           LoopWide, MoreAfterWide, WideStep, LoopRest, LoopEnd, Build,
           Finished, vars
  <2>4. terms' \in Seq(Slices)
    <3>1. ASSUME NEW t \in Slices PROVE << t >> \in Seq(Slices)
      OBVIOUS
    <3>2. ASSUME NEW t \in Slices PROVE Append(terms, t) \in Seq(Slices)
      BY DEF TypeOK
    <3>3. /\ <<0, 0>> \in Slices
          /\ N > 0 => <<0, 1>> \in Slices
          /\ <<0, FirstTake>> \in Slices
          /\ i < N => <<i, i + 1>> \in Slices
          /\ MoreAfterWide => <<i, i + 3>> \in Slices
          /\ <<i, N>> \in Slices
      BY <2>1 DEF FirstTake, MoreAfterWide
    <3> HIDE DEF Slices
    <3>4. terms \in Seq(Slices)
      BY DEF TypeOK, Slices
    <3>5. QED
      BY <3>1, <3>2, <3>3, <3>4
      DEF Next, FirstEmpty, FirstAscii, FirstWide, LoopAscii, LoopWide,
          LoopRest, LoopEnd, Build, Finished, vars
  <2>5. pc' \in {"first", "loop", "build", "done"}
    BY DEF Next, FirstEmpty, FirstAscii, FirstWide, LoopAscii, LoopWide,
           LoopRest, LoopEnd, Build, Finished, vars, TypeOK
  <2>6. QED
    BY <2>2, <2>3, <2>4, <2>5 DEF TypeOK
<1>3. QED
  BY <1>1, <1>2, PTL DEF Spec

-----------------------------------------------------------------------------
\* Appending a term that starts where the terms end extends the tiling.
LEMMA TilingGrows ==
  ASSUME TypeOK, TermsTileKeyword, pc = "loop", N > 0,
         NEW e \in 0 .. N, i < e, terms' = Append(terms, <<i, e>>),
         str' = str, pc' # "first", Reached' = e
  PROVE  TermsTileKeyword'
<1> DEFINE L == Len(terms)
<1>1. /\ terms \in Seq((0 .. N) \X (0 .. N)) /\ terms # <<>>
      /\ L \in Nat /\ L > 0
      /\ N' = N
      /\ Len(terms') = L + 1
      /\ \A k \in 1 .. L : terms'[k] = terms[k]
      /\ terms'[L + 1] = <<i, e>>
  BY DEF TypeOK, TermsTileKeyword, N
<1>2. terms[L][2] = i
  BY DEF TermsTileKeyword, Reached
<1>3. terms'[1][1] = 0
  BY <1>1 DEF TermsTileKeyword
<1>4. ASSUME NEW k \in 1 .. L PROVE terms'[k][2] = terms'[k + 1][1]
  <2>1. CASE k = L
    BY <1>1, <1>2, <2>1
  <2>2. CASE k < L
    BY <1>1, <2>2 DEF TermsTileKeyword
  <2>3. QED
    BY <1>1, <2>1, <2>2
<1>5. ASSUME NEW k \in 1 .. L + 1 PROVE terms'[k][1] < terms'[k][2]
  BY <1>1 DEF TermsTileKeyword
<1> HIDE DEF L
<1>6. terms' # <<>> /\ Len(terms') - 1 = L
  BY <1>1
<1>7. terms'[Len(terms')][2] = Reached'
  BY <1>1
<1>8. \A k \in 1 .. Len(terms') - 1 : terms'[k][2] = terms'[k + 1][1]
  BY <1>4, <1>6
<1>9. \A k \in 1 .. Len(terms') : terms'[k][1] < terms'[k][2]
  BY <1>1, <1>5
<1>10. QED
  BY <1>3, <1>6, <1>7, <1>8, <1>9 DEF TermsTileKeyword

\* Once the first term is out, the keyword is known not to be empty, except
\* where FirstEmpty has gone straight to "build".
LoopNonEmpty == pc = "loop" => N > 0

\* At every iteration the terms tile the bytes read so far, and at the end
\* the whole keyword: nothing is lost, repeated or reordered.
THEOREM TermsTile == Spec => []TermsTileKeyword
<1> DEFINE Inv == TermsTileKeyword /\ LoopNonEmpty
<1>1. Init => Inv
  BY DEF Init, TermsTileKeyword, LoopNonEmpty
<1>2. TypeOK /\ Inv /\ [Next]_vars => Inv'
  <2> SUFFICES ASSUME TypeOK, Inv, [Next]_vars PROVE Inv'
    OBVIOUS
  <2>1. N \in Nat /\ i \in Nat /\ i <= N
    BY DEF TypeOK, N
  <2>2. CASE FirstEmpty
    BY <2>1, <2>2 DEF FirstEmpty, TermsTileKeyword, Reached, LoopNonEmpty, N
  <2>3. CASE FirstAscii
    BY <2>1, <2>3 DEF FirstAscii, TermsTileKeyword, Reached, LoopNonEmpty, N
  <2>4. CASE FirstWide
    <3>1. FirstTake \in Nat /\ FirstTake > 0
      BY <2>1, <2>4 DEF FirstWide, FirstTake
    <3>2. QED
      BY <2>1, <2>4, <3>1 DEF FirstWide, TermsTileKeyword, Reached, LoopNonEmpty, N
  <2>5. CASE LoopAscii
    BY <2>1, <2>5, TilingGrows DEF LoopAscii, Reached, LoopNonEmpty, N
  <2>6. CASE LoopWide
    BY <2>1, <2>6, TilingGrows
    DEF LoopWide, MoreAfterWide, WideStep, Reached, LoopNonEmpty, N
  <2>7. CASE LoopRest
    BY <2>1, <2>7, TilingGrows DEF LoopRest, Reached, LoopNonEmpty, N
  <2>8. CASE LoopEnd
    BY <2>1, <2>8 DEF LoopEnd, TermsTileKeyword, Reached, LoopNonEmpty, N
  <2>9. CASE Build
    BY <2>1, <2>9 DEF Build, TermsTileKeyword, Reached, LoopNonEmpty, N
  <2>10. CASE UNCHANGED vars
    BY <2>10 DEF vars, TermsTileKeyword, Reached, LoopNonEmpty, N
  <2>11. QED
    BY <2>2, <2>3, <2>4, <2>5, <2>6, <2>7, <2>8, <2>9, <2>10 DEF Next, Finished
<1>3. QED
  BY <1>1, <1>2, TypeCorrect, PTL DEF Spec

-----------------------------------------------------------------------------
\* The loop's index is always at the start of a character (or at the end).
AtBoundary == ThreeByteText(str) /\ pc \in {"first", "loop"} => Boundary(i)

\* In text of ASCII and three-byte characters, an ASCII byte is a character.
LEMMA AsciiIsOne ==
  ASSUME TypeOK, ThreeByteText(str), NEW at \in Nat, at < N, Ascii(at)
  PROVE  OneCharacter(<<at, at + 1>>)
<1>1. N \in Nat /\ N = Len(str)
  BY DEF TypeOK, N
<1>2. at + 1 \in 1 .. Len(str) /\ str[at + 1] \in {"digit", "ascii"}
  BY <1>1 DEF Ascii
<1>3. Boundary(at)
  BY <1>2 DEF Boundary
<1>4. Boundary(at + 1)
  BY <1>1, <1>2 DEF Boundary, ThreeByteText
<1>5. QED
  BY <1>3, <1>4 DEF OneCharacter

\* A character that starts with a negative byte takes three bytes.
LEMMA WideIsOne ==
  ASSUME TypeOK, ThreeByteText(str), NEW at \in Nat, at < N, ~Ascii(at),
         Boundary(at)
  PROVE  /\ at + 3 <= N
         /\ OneCharacter(<<at, at + 3>>)
<1>1. N \in Nat /\ N = Len(str) /\ str \in Seq(Bytes)
  BY DEF TypeOK, N
<1>2. at + 1 \in 1 .. Len(str) /\ str[at + 1] \in Bytes
  BY <1>1
<1>3. str[at + 1] = "lead"
  BY <1>2 DEF Ascii, Boundary, Bytes
<1>4. /\ (at + 1) + 2 <= Len(str)
      /\ str[(at + 1) + 1] = "cont" /\ str[(at + 1) + 2] = "cont"
      /\ (at + 1) + 3 <= Len(str) => str[(at + 1) + 3] # "cont"
  BY <1>2, <1>3 DEF ThreeByteText
<1>5. at + 3 <= N /\ Boundary(at + 3)
  BY <1>1, <1>4 DEF Boundary
<1>6. ~Boundary(at + 1) /\ ~Boundary(at + 2)
  BY <1>1, <1>4 DEF Boundary
<1>7. \A k \in at + 1 .. at + 3 - 1 : ~Boundary(k)
  BY <1>6
<1>8. QED
  BY <1>5, <1>7 DEF OneCharacter

\* For text of ASCII and three-byte characters every term is one character,
\* through the loop's separate treatment of the first and the last one.
THEOREM SegmentsCharacters == Spec => []SingleCharacters
<1> DEFINE Inv == SingleCharacters /\ AtBoundary
<1>1. Init => Inv
  <2> SUFFICES ASSUME Init PROVE Inv
    OBVIOUS
  <2>1. N \in Nat
    BY KeywordsAssumption DEF Init, N
  <2>2. AtBoundary
    BY <2>1 DEF Init, AtBoundary, Boundary, ThreeByteText, N
  <2>3. QED
    BY <2>2 DEF Init, SingleCharacters
<1>2. TypeOK /\ TermsTileKeyword /\ Inv /\ [Next]_vars => Inv'
  <2> SUFFICES ASSUME TypeOK, TermsTileKeyword, Inv, [Next]_vars PROVE Inv'
    OBVIOUS
  <2>1. N \in Nat /\ i \in Nat /\ i <= N /\ Len(terms) \in Nat
    BY DEF TypeOK, N
  <2>2. str' = str /\ N' = N
    BY DEF Next, FirstEmpty, FirstAscii, FirstWide, LoopAscii, LoopWide,
           LoopRest, LoopEnd, Build, Finished, vars, N
  <2> SUFFICES ASSUME ThreeByteText(str) PROVE Inv'
    BY <2>2 DEF SingleCharacters, AtBoundary
  <2>3. /\ \A at : Boundary(at)' = Boundary(at)
        /\ \A t : OneCharacter(t)' = OneCharacter(t)
    BY <2>2 DEF Boundary, OneCharacter
  <2>4. ASSUME NEW t \in (0 .. N) \X (0 .. N), OneCharacter(t),
               terms' = Append(terms, t), N > 0
        PROVE  SingleCharacters'
    <3>1. ASSUME NEW k \in 1 .. Len(terms') PROVE OneCharacter(terms'[k])
      BY <2>1, <2>4 DEF SingleCharacters, TypeOK
    <3>2. QED
      BY <2>3, <3>1 DEF SingleCharacters
  <2>5. ASSUME NEW t, OneCharacter(t), terms' = << t >>
        PROVE  SingleCharacters'
    <3>1. ASSUME NEW k \in 1 .. Len(terms') PROVE OneCharacter(terms'[k])
      BY <2>5
    <3>2. QED
      BY <2>3, <3>1 DEF SingleCharacters
  <2>6. CASE FirstEmpty
    BY <2>2, <2>6 DEF FirstEmpty, SingleCharacters, AtBoundary
  <2>7. CASE FirstAscii
    <3>1. OneCharacter(<<0, 1>>)
      BY <2>1, <2>7, AsciiIsOne DEF FirstAscii
    <3>2. QED
      BY <2>3, <2>5, <2>7, <3>1 DEF FirstAscii, AtBoundary, OneCharacter
  <2>8. CASE FirstWide
    <3>1. Boundary(0) /\ 0 < N
      BY <2>1, <2>8 DEF FirstWide, Boundary, ThreeByteText, N
    <3>2. OneCharacter(<<0, 3>>) /\ FirstTake = 3
      BY <2>1, <2>8, <3>1, WideIsOne DEF FirstWide, FirstTake
    <3>3. QED
      BY <2>3, <2>5, <2>8, <3>2 DEF FirstWide, AtBoundary, OneCharacter
  <2>9. CASE LoopAscii
    <3>1. OneCharacter(<<i, i + 1>>) /\ <<i, i + 1>> \in (0 .. N) \X (0 .. N)
      BY <2>1, <2>9, AsciiIsOne DEF LoopAscii
    <3>2. SingleCharacters'
      BY <2>1, <2>4, <2>9, <3>1 DEF LoopAscii
    <3>3. AtBoundary'
      BY <2>3, <2>9, <3>1 DEF LoopAscii, AtBoundary, OneCharacter
    <3>4. QED
      BY <3>2, <3>3
  <2>10. ASSUME LoopWide \/ LoopRest
         PROVE  i + 3 <= N /\ OneCharacter(<<i, i + 3>>)
    <3>1. Boundary(i) /\ i < N /\ ~Ascii(i)
      BY <2>10 DEF LoopWide, LoopRest, AtBoundary
    <3>2. QED
      BY <2>1, <3>1, WideIsOne
  <2>11. CASE LoopWide
    <3>1. <<i, i + 3>> \in (0 .. N) \X (0 .. N) /\ N > 0
      BY <2>1, <2>10, <2>11
    <3>2. SingleCharacters'
      BY <2>4, <2>10, <2>11, <3>1 DEF LoopWide
    <3>3. AtBoundary'
      BY <2>3, <2>10, <2>11 DEF LoopWide, WideStep, AtBoundary, OneCharacter
    <3>4. QED
      BY <3>2, <3>3
  <2>12. CASE LoopRest
    <3>1. i + 3 = N
      BY <2>1, <2>10, <2>12 DEF LoopRest, MoreAfterWide
    <3>2. <<i, N>> \in (0 .. N) \X (0 .. N) /\ N > 0 /\ OneCharacter(<<i, N>>)
      BY <2>1, <2>10, <2>12, <3>1
    <3>3. QED
      BY <2>4, <2>12, <3>2 DEF LoopRest, AtBoundary
  <2>13. CASE LoopEnd \/ Build \/ UNCHANGED vars
    BY <2>2, <2>3, <2>13
    DEF LoopEnd, Build, vars, SingleCharacters, AtBoundary
  <2>14. QED
    BY <2>6, <2>7, <2>8, <2>9, <2>11, <2>12, <2>13 DEF Next, Finished
<1>3. QED
  BY <1>1, <1>2, TypeCorrect, TermsTile, PTL DEF Spec

-----------------------------------------------------------------------------
\* The terms read so far start with digits exactly if all bytes read so far
\* are digits: a digit is always a term of its own, and a byte that is none
\* either starts a term or is inside one that does not start with a digit.
DigitsSeen ==
  pc # "first" /\ N > 0 =>
    ((\A k \in 1 .. Len(terms) : str[terms[k][1] + 1] = "digit")
       <=> (\A p \in 1 .. Reached : str[p] = "digit"))

\* The clause that Build makes.
ClauseBuilt ==
  pc = "done" =>
    clause = IF IsNum
             THEN {<<"name", terms>>, <<"id", << <<0, N>> >> >>, <<"tel", <<>> >>}
             ELSE {<<"name", terms>>, <<"buyername", << <<0, N>> >> >>}

\* One more term: either a digit, which reaches one byte further, or one that
\* starts with something else.
LEMMA DigitsGrow ==
  ASSUME TypeOK, DigitsSeen, pc = "loop", i < N,
         NEW e \in 0 .. N, i < e, terms' = Append(terms, <<i, e>>),
         str' = str, Reached' = e, Ascii(i) => e = i + 1
  PROVE  DigitsSeen'
<1>1. /\ N \in Nat /\ i \in Nat /\ N' = N /\ N > 0 /\ N = Len(str)
      /\ Len(terms) \in Nat /\ Len(terms') = Len(terms) + 1
      /\ terms'[Len(terms) + 1] = <<i, e>>
      /\ \A k \in 1 .. Len(terms) : terms'[k] = terms[k]
  BY DEF TypeOK, N
<1>2. (\A k \in 1 .. Len(terms) : str[terms[k][1] + 1] = "digit")
        <=> (\A p \in 1 .. i : str[p] = "digit")
  BY <1>1 DEF DigitsSeen, Reached
<1>3. (\A k \in 1 .. Len(terms') : str[terms'[k][1] + 1] = "digit")
        <=> ((\A k \in 1 .. Len(terms) : str[terms[k][1] + 1] = "digit")
               /\ str[i + 1] = "digit")
  BY <1>1
<1>4. (\A p \in 1 .. e : str[p] = "digit")
        <=> ((\A p \in 1 .. i : str[p] = "digit") /\ str[i + 1] = "digit")
  <2>1. CASE Ascii(i)
    BY <1>1, <2>1
  <2>2. CASE ~Ascii(i)
    <3>1. str[i + 1] # "digit" /\ i + 1 \in 1 .. e
      BY <1>1, <2>2 DEF Ascii
    <3>2. QED
      BY <3>1
  <2>3. QED
    BY <2>1, <2>2
<1>5. QED
  BY <1>2, <1>3, <1>4 DEF DigitsSeen

\* The name clause searches id and tel exactly for keywords of digits only
\* and buyername for all others, with the keyword uncut.
THEOREM ClauseFollowsKind == Spec => []ClauseByKind
<1> DEFINE Inv == DigitsSeen /\ ClauseBuilt
<1>1. Init => Inv
  BY DEF Init, DigitsSeen, ClauseBuilt
<1>2. TypeOK /\ Inv /\ [Next]_vars => Inv'
  <2> SUFFICES ASSUME TypeOK, Inv, [Next]_vars PROVE Inv'
    OBVIOUS
  <2>1. N \in Nat /\ i \in Nat /\ i <= N /\ N = Len(str)
    BY DEF TypeOK, N
  <2>2. CASE FirstEmpty
    BY <2>1, <2>2 DEF FirstEmpty, DigitsSeen, ClauseBuilt, N
  <2>3. CASE FirstAscii
    BY <2>1, <2>3 DEF FirstAscii, DigitsSeen, ClauseBuilt, Reached, N
  <2>4. CASE FirstWide
    <3>1. /\ terms' = << <<0, FirstTake>> >> /\ FirstTake \in Nat /\ FirstTake >= 1
          /\ pc' = "loop" /\ i' = FirstTake /\ str' = str
      BY <2>1, <2>4 DEF FirstWide, FirstTake
    <3>2. str[1] # "digit"
      BY <2>4 DEF FirstWide, Ascii
    <3>3. 1 \in 1 .. Len(terms') /\ terms'[1][1] + 1 = 1
      BY <3>1
    <3>4. 1 \in 1 .. Reached'
      BY <3>1 DEF Reached
    <3>5. DigitsSeen'
      BY <3>1, <3>2, <3>3, <3>4 DEF DigitsSeen
    <3>6. QED
      BY <3>1, <3>5 DEF ClauseBuilt
  <2>5. CASE LoopAscii
    BY <2>1, <2>5, DigitsGrow DEF LoopAscii, Reached, ClauseBuilt, N
  <2>6. CASE LoopWide
    BY <2>1, <2>6, DigitsGrow DEF LoopWide, MoreAfterWide, WideStep, Reached, ClauseBuilt, N
  <2>7. CASE LoopRest
    BY <2>1, <2>7, DigitsGrow DEF LoopRest, Reached, ClauseBuilt, N
  <2>8. CASE LoopEnd
    <3>1. Reached' = Reached /\ UNCHANGED <<str, terms>> /\ pc = "loop" /\ pc' = "build"
      BY <2>1, <2>8 DEF LoopEnd, Reached, N
    <3>2. QED
      BY <3>1 DEF DigitsSeen, ClauseBuilt, N
  <2>9. CASE Build
    BY <2>9 DEF Build, DigitsSeen, ClauseBuilt, Reached, IsNum, N
  <2>10. CASE UNCHANGED vars
    BY <2>10 DEF vars, DigitsSeen, ClauseBuilt, Reached, IsNum, N
  <2>11. QED
    BY <2>2, <2>3, <2>4, <2>5, <2>6, <2>7, <2>8, <2>9, <2>10 DEF Next, Finished
<1>3. TypeOK /\ Inv => ClauseByKind
  <2> SUFFICES ASSUME TypeOK, Inv, pc = "done" PROVE ClauseByKind
    BY DEF ClauseByKind
  <2>1. N = Len(str) /\ N \in Nat /\ (N > 0 <=> str # <<>>)
    BY DEF TypeOK, N
  <2>2. IsNum <=> (N > 0 /\ \A k \in 1 .. Len(terms) : str[terms[k][1] + 1] = "digit")
    BY <2>1 DEF DigitsSeen, Reached, IsNum
  <2>3. CASE IsNum
    <3>1. clause = {<<"name", terms>>, <<"id", << <<0, N>> >> >>, <<"tel", <<>> >>}
      BY <2>3 DEF ClauseBuilt
    <3>2. {f[1] : f \in clause} = {"name", "id", "tel"}
      BY <3>1
    <3>3. QED
      BY <2>2, <2>3, <3>1, <3>2 DEF ClauseByKind
  <2>4. CASE ~IsNum
    <3>1. clause = {<<"name", terms>>, <<"buyername", << <<0, N>> >> >>}
      BY <2>4 DEF ClauseBuilt
    <3>2. {f[1] : f \in clause} # {"name", "id", "tel"}
      BY <3>1
    <3>3. QED
      BY <2>2, <2>4, <3>1, <3>2 DEF ClauseByKind
  <2>5. QED
    BY <2>3, <2>4
<1>4. QED
  BY <1>1, <1>2, <1>3, TypeCorrect, PTL DEF Spec
=============================================================================
