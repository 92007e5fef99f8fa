------------------------------ MODULE UrlCodec ------------------------------
(***************************************************************************)
(* urlencode and urldecode of QueryAnalyseNginx/test/test.cpp: a client    *)
(* encodes a text, test_work decodes the arguments it receives.  Both walk *)
(* psrc over a NUL-terminated string and pbuf over a block whose size was  *)
(* computed beforehand.                                                    *)
(*                                                                         *)
(* Characters are bytes; indices start at 1, so that src[Len(src) + 1] is  *)
(* the terminating NUL.  malloc is taken to succeed.                       *)
(***************************************************************************)
EXTENDS Integers, Sequences, FiniteSetsExt

CONSTANTS
  Texts,   \* what a client encodes
  Args     \* what a request may carry without having been encoded here

Byte == 0 .. 255
Char == 1 .. 255
ASSUME TextsAssumption == Texts \subseteq Seq(Char)
ASSUME ArgsAssumption == Args \subseteq Seq(Char)

VARIABLES
  text,     \* what was encoded, or << >> and
  raw,      \* TRUE when decoding starts from arguments as they are
  stage,       \* "encode", "decode" or "done"
  src,      \* the string that is read
  psrc,     \* position in it
  len,      \* the size of the block that is written
  buf,      \* its contents
  pbuf,     \* position in it
  outside   \* something outside src or buf was accessed

codecVars == <<text, raw, stage, src, psrc, len, buf, pbuf, outside>>

Pct == 37
Plus == 43
Space == 32
Digit == 48 .. 57
Upper == 65 .. 90
Lower == 97 .. 122

\* The | of C for two bytes, bit by bit.
OrBytes(m, n) ==
  LET bit(w) == IF (m \div w) % 2 = 1 \/ (n \div w) % 2 = 1 THEN w ELSE 0
  IN  bit(1) + bit(2) + bit(4) + bit(8) + bit(16) + bit(32) + bit(64) + bit(128)

\* Any character is taken for a digit; the arithmetic is that of char.
hex2dec(ch) ==
  IF ch \in Digit THEN ch - 48
  ELSE ((IF ch \in Upper THEN ch + 32 ELSE ch) - 97 + 10) % 256

dec2hex(n) == (n % 16) + (IF n % 16 < 10 THEN 48 ELSE 55)

\* hex2dec(hi) << 4 | hex2dec(lo), as a char.
Unescape(hi, lo) == OrBytes((hex2dec(hi) * 16) % 256, hex2dec(lo))

Unreserved == Digit \cup Upper \cup Lower \cup {45, 95, 46, 126}

\* What urlencode writes for one character.
\* Mutant: a plus sign is left as it is.
EncodedPlus(ch) ==
  IF ch \in Unreserved \cup {Plus} THEN <<ch>>
  ELSE IF ch = Space THEN <<Plus>>
  ELSE <<Pct, dec2hex(ch \div 16), dec2hex(ch % 16)>>
Encoded(ch) ==
  IF ch \in Unreserved THEN <<ch>>
  ELSE IF ch = Space THEN <<Plus>>
  ELSE <<Pct, dec2hex(ch \div 16), dec2hex(ch % 16)>>

\* malloc and memset, with room for the longest result.
EncodeLen(s) == 3 * Len(s) + 1
DecodeLen(s) == Len(s) + 1
Zeros(n) == [k \in 1 .. n |-> 0]

\* The C string that starts at the beginning of a block.
CString(b) ==
  LET ends == {k \in DOMAIN b : b[k] = 0}
  IN  SubSeq(b, 1, IF ends = {} THEN Len(b) ELSE Min(ends) - 1)

-----------------------------------------------------------------------------
CodecInit ==
  /\ \/ /\ raw = FALSE /\ text \in Texts /\ stage = "encode" /\ src = text
        /\ len = EncodeLen(src)
     \/ /\ raw = TRUE /\ text = << >> /\ stage = "decode" /\ src \in Args
        /\ len = DecodeLen(src)
  /\ buf = Zeros(len) /\ psrc = 1 /\ pbuf = 1 /\ outside = FALSE

\* *pbuf = ..., pbuf[1] = ..., pbuf[2] = ...; a write behind the block is
\* only recorded.
Put(s) ==
  /\ buf' = [k \in 1 .. len |->
               IF k \in pbuf .. pbuf + Len(s) - 1 THEN s[k - pbuf + 1] ELSE buf[k]]
  /\ outside' = (outside \/ pbuf + Len(s) - 1 > len)

\* psrc += by - 1 inside a branch, psrc++ and pbuf++ at the end of the loop.
Advance(by, over) == psrc' = psrc + by /\ pbuf' = pbuf + over

EncodeChar ==
  /\ stage = "encode" /\ psrc <= Len(src)
  /\ Put(Encoded(src[psrc]))
  /\ Advance(1, Len(Encoded(src[psrc])))
  /\ UNCHANGED <<text, raw, stage, src, len>>

\* The NUL is written, and the result is sent and decoded.
EncodeEnds ==
  /\ stage = "encode" /\ psrc = Len(src) + 1
  /\ outside' = (outside \/ pbuf > len)
  /\ src' = CString(buf)
  /\ len' = DecodeLen(src')
  /\ buf' = Zeros(len')
  /\ psrc' = 1 /\ pbuf' = 1 /\ stage' = "decode"
  /\ UNCHANGED <<text, raw>>

Decoding(ch) == stage = "decode" /\ psrc <= Len(src) /\ src[psrc] = ch

\* psrc[1] && psrc[2].
\* Mutant: the character behind the escape is not looked at.
TwoMoreUnchecked == psrc + 1 <= Len(src)
TwoMore == psrc + 2 <= Len(src)

DecodeEscape ==
  /\ Decoding(Pct) /\ TwoMore
  /\ LET lo == IF psrc + 2 <= Len(src) THEN src[psrc + 2] ELSE 0
     IN  Put(<<Unescape(src[psrc + 1], lo)>>)
  /\ Advance(3, 1)
  /\ UNCHANGED <<text, raw, stage, src, len>>

\* The cell of an escape that is cut off keeps the NUL of memset.
\* Mutant: the percent sign is kept as it is.
DecodeCutEscapeKept ==
  /\ Decoding(Pct) /\ ~TwoMore
  /\ Put(<<Pct>>) /\ Advance(1, 1)
  /\ UNCHANGED <<text, raw, stage, src, len>>
DecodeCutEscape ==
  /\ Decoding(Pct) /\ ~TwoMore
  /\ Advance(1, 1)
  /\ UNCHANGED <<text, raw, stage, src, len, buf, outside>>

DecodePlus ==
  /\ Decoding(Plus)
  /\ Put(<<Space>>) /\ Advance(1, 1)
  /\ UNCHANGED <<text, raw, stage, src, len>>

DecodeOther ==
  /\ \E ch \in Char \ {Pct, Plus} : Decoding(ch) /\ Put(<<ch>>)
  /\ Advance(1, 1)
  /\ UNCHANGED <<text, raw, stage, src, len>>

\* *psrc is the NUL; a psrc that has been moved behind it reads on.
DecodeEnds ==
  /\ stage = "decode" /\ psrc > Len(src)
  /\ stage' = "done"
  /\ outside' = (outside \/ psrc > Len(src) + 1 \/ pbuf > len)
  /\ buf' = [k \in 1 .. len |-> IF k = pbuf THEN 0 ELSE buf[k]]
  /\ UNCHANGED <<text, raw, src, psrc, len, pbuf>>

Done == stage = "done" /\ UNCHANGED codecVars

CodecNext ==
  \/ EncodeChar \/ EncodeEnds
  \/ DecodeEscape \/ DecodeCutEscape \/ DecodePlus \/ DecodeOther \/ DecodeEnds
  \/ Done

CodecSpec == CodecInit /\ [][CodecNext]_codecVars

-----------------------------------------------------------------------------

\* Neither function reads behind the NUL of its argument, a cut-off escape at
\* its end included, nor writes outside the block it has allocated.
InBounds == ~outside

\* What a client has encoded with urlencode reaches getQuery unchanged.
RoundTrip == stage = "done" /\ ~raw => CString(buf) = text

\* Everything in front of an escape that is cut off survives decoding; the
\* escape itself ends the string that getQuery sees.
CutEscapeEndsText ==
  stage = "done" /\ raw =>
    \A p \in 1 .. Len(src) :
      (src[p] = Pct /\ p + 2 > Len(src) /\ \A q \in 1 .. p - 1 : src[q] # Pct) =>
        CString(buf) = [q \in 1 .. p - 1 |-> IF src[q] = Plus THEN Space ELSE src[q]]
=============================================================================
