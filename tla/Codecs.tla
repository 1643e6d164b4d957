------------------------------- MODULE Codecs -------------------------------
(***************************************************************************)
(* The encodings of the library: hexadecimal, base 64, UTF-8, salt and the *)
(* Ardell cipher of the connections (llc/gpk_encoding.cpp, gpk_base64.cpp) *)
(* and the RSA exchange built on them (llc/gpk_rsa.cpp).  Bytes are        *)
(* numbers below 256 and the arithmetic on them wraps there: only the low  *)
(* byte of the 32-bit work of ardellEncode is ever written out.  A symbol  *)
(* of base 64 is its number, the pad one more.                             *)
(*                                                                         *)
(* The one variable is the message, which grows; what is random in the     *)
(* code, or left over in memory, is every value of CodecSalts.             *)
(***************************************************************************)
EXTENDS Integers, Sequences, SequencesExt, FiniteSets, Bitwise

CONSTANTS
    CodecBytes,   \* the bytes of the messages
    CodecSalts,   \* the bytes of a salt
    CodecKeys,    \* keys of the Ardell cipher
    CodecPrimes,  \* the two primes of an RSA key
    CodecLimit,   \* how many RSA keys are asked for
    CodecPoints,  \* code points
    CodecLength   \* bound: the bytes of a message

ASSUME CodecAssumption ==
    /\ CodecBytes \cup CodecSalts \subseteq 0..255
    /\ CodecKeys \cup CodecPoints \subseteq Nat
    /\ CodecPrimes \in Seq(Nat) /\ Len(CodecPrimes) = 2 /\ {CodecLimit, CodecLength} \subseteq Nat

VARIABLE codecMessage

CodecInit == codecMessage = <<>>
CodecNext ==
    /\ Len(codecMessage) < CodecLength
    /\ \E b \in CodecBytes : codecMessage' = Append(codecMessage, b)

\* The sequence itself; written so, TLC computes its elements once.
CodecText(s) == s \o <<>>
CodecUp(from, to) == [i \in 1..to - from + 1 |-> from + i - 1]
CodecDown(from, to) == [i \in 1..from - to + 1 |-> from - i + 1]

----------------------------------------------------------------------------
\* Hexadecimal: two digits for a byte; an odd digit at the end is not read.

HexEncode(bytes) == FlattenSeq([i \in DOMAIN bytes |-> <<bytes[i] \div 16, bytes[i] % 16>>])
HexDecode(digits) == [i \in 1..Len(digits) \div 2 |-> 16 * digits[2 * i - 1] + digits[2 * i]]

----------------------------------------------------------------------------
\* Base 64: three bytes make four symbols, missing ones count as 0 and are marked by pads.

Base64Pad == 64
Base64At(s, i) == IF i \in DOMAIN s THEN s[i] ELSE 0
Base64EncodeTriplet(a, b, c) ==
    LET bits == 65536 * a + 256 * b + c
    IN  <<bits \div 262144, (bits \div 4096) % 64, (bits \div 64) % 64, bits % 64>>
Base64Encode(bytes) ==
    LET packs   == (Len(bytes) + 2) \div 3
        symbols == FlattenSeq([k \in 1..packs |->
                       Base64EncodeTriplet(bytes[3 * k - 2], Base64At(bytes, 3 * k - 1), Base64At(bytes, 3 * k))])
        pads    == (3 * packs) - Len(bytes)
    IN  SubSeq(symbols, 1, Len(symbols) - pads) \o SubSeq(<<Base64Pad, Base64Pad>>, 1, pads)

Base64DecodeQuad(q) ==
    LET bits == 262144 * q[1] + 4096 * q[2] + 64 * q[3] + q[4]
    IN  <<bits \div 65536, (bits \div 256) % 256, bits % 256>>
BugBase64Dropped(text) == IF Last(text) = Base64Pad THEN 1 ELSE 0
Base64Dropped(text) ==
    CASE text[Len(text) - 1] = Base64Pad -> 2
      [] text[Len(text) - 1] # Base64Pad /\ Last(text) = Base64Pad -> 1
      [] OTHER -> 0
Base64Decode(text) ==
    LET value(i) == IF text[i] = Base64Pad THEN 0 ELSE text[i]
        bytes    == FlattenSeq([k \in 1..Len(text) \div 4 |->
                        Base64DecodeQuad([i \in 1..4 |-> value(4 * (k - 1) + i)])])
    IN  IF text = <<>> THEN <<>> ELSE SubSeq(bytes, 1, Len(bytes) - Base64Dropped(text))

----------------------------------------------------------------------------
\* UTF-8; a code point past the last one writes nothing.

Utf8FromCodePoint(c) ==
    LET tail(n) == 128 + ((c \div 64^n) % 64)
    IN  CASE c <= 127 -> <<c>>
          [] c \in 128..2047 -> <<192 + ((c \div 64) % 32), tail(0)>>
          [] c \in 2048..65535 -> <<224 + ((c \div 4096) % 16), tail(1), tail(0)>>
          [] c \in 65536..1114111 -> <<240 + ((c \div 262144) % 8), tail(2), tail(1), tail(0)>>
          [] OTHER -> <<>>

----------------------------------------------------------------------------
\* Salt and Ardell

SaltDataSalt(bytes, salt) == FlattenSeq([i \in DOMAIN bytes |-> <<bytes[i], salt>>])
SaltDataUnsalt(bytes) == [i \in 1..Len(bytes) \div 2 |-> bytes[2 * i - 1]]

ArdellKey(key) == <<11 + (key % 233), 7 + (key % 239), 5 + (key % 241), 3 + (key % 251)>>

\* One pass over the work, in this order: each byte mixed with one neighbour and with a multiple of another.
RECURSIVE ArdellPass(_, _, _, _, _)
ArdellPass(work, order, mixed, scaled, k) ==
    IF order = <<>> THEN work
    ELSE LET i     == Head(order)
             byte  == (work[i] ^^ work[i + mixed]) ^^ ((k * work[i + scaled]) % 256)
         IN  ArdellPass([work EXCEPT ![i] = byte], Tail(order), mixed, scaled, k)

\* The last two bytes of a salted work keep what the cache held: their salt is written past them.
ArdellWork(bytes, salt, left) == IF salt = <<>> THEN bytes ELSE salt \o bytes \o left
ArdellEncode(work, key) ==
    LET n     == Len(work)
        k     == ArdellKey(key)
        once  == ArdellPass(work, CodecUp(2, n), -1, -1, k[1])
        twice == ArdellPass(once, CodecDown(n - 1, 1), 1, 1, k[2])
        again == ArdellPass(twice, CodecUp(3, n), -2, -1, k[3])
    IN  ArdellPass(again, CodecDown(n - 2, 1), 2, 1, k[4])

BugArdellDecode(input, key, salted) ==
    LET n     == Len(input)
        k     == ArdellKey(key)
        once  == ArdellPass(input, CodecUp(1, n - 2), 2, 1, k[4])
        twice == ArdellPass(once, CodecUp(3, n), -2, -1, k[3])
        again == ArdellPass(twice, CodecUp(1, n - 1), 1, 1, k[2])
        work  == ArdellPass(again, CodecDown(n, 2), -1, -1, k[1])
    IN  IF salted THEN SubSeq(work, 3, n - 2) ELSE work
ArdellDecode(input, key, salted) ==
    LET n     == Len(input)
        k     == ArdellKey(key)
        once  == ArdellPass(input, CodecUp(1, n - 2), 2, 1, k[4])
        twice == ArdellPass(once, CodecDown(n, 3), -2, -1, k[3])
        again == ArdellPass(twice, CodecUp(1, n - 1), 1, 1, k[2])
        work  == ArdellPass(again, CodecDown(n, 2), -1, -1, k[1])
    IN  IF salted THEN SubSeq(work, 3, n - 2) ELSE work

----------------------------------------------------------------------------
\* RSA: rsaKeys and the exchange of gpcEncode and gpcDecode

RsaIsPrime(number) == number % 2 = 1 /\ \A i \in 3..number - 1 : i * i <= number => number % i # 0

\* The pairs of a public key and the private one that undoes it.
RsaTotient == (CodecPrimes[1] - 1) * (CodecPrimes[2] - 1)
RsaPrivate(public) ==
    CHOOSE d \in 1..RsaTotient : (d * public) % RsaTotient = 1
RsaPublicKeys ==
    LET keys == {i \in 2..RsaTotient - 1 :
                     RsaTotient % i # 0 /\ RsaIsPrime(i) /\ i \notin {CodecPrimes[1], CodecPrimes[2]}}
    IN  {i \in keys : Cardinality({j \in keys : j < i}) < CodecLimit}
RsaModulus == CodecPrimes[1] * CodecPrimes[2]
RECURSIVE RsaPower(_, _)
RsaPower(b, key) ==
    IF key = 0 THEN 1
    ELSE (RsaPower((b * b) % RsaModulus, key \div 2) * (IF key % 2 = 1 THEN b ELSE 1)) % RsaModulus
RsaCode(words, key) == CodecText([i \in DOMAIN words |-> RsaPower(words[i], key)])

\* The filters: a byte less the one so many before it, or after it, and the sums that undo them.
GpcFilterSub(line, bpp) ==
    CodecText([i \in DOMAIN line |-> IF i > bpp THEN (line[i] - line[i - bpp]) % 256 ELSE line[i]])
GpcFilterSub2(line, bpp) ==
    CodecText([i \in DOMAIN line |-> IF i + bpp <= Len(line) THEN (line[i] - line[i + bpp]) % 256 ELSE line[i]])
GpcDefilterSub(line, bpp) ==
    LET sum[i \in DOMAIN line] == IF i > bpp THEN (line[i] + sum[i - bpp]) % 256 ELSE line[i]
    IN  CodecText(sum)
GpcDefilterSub2(line, bpp) ==
    LET sum[i \in DOMAIN line] == IF i + bpp <= Len(line) THEN (line[i] + sum[i + bpp]) % 256 ELSE line[i]
    IN  CodecText(sum)

\* The words of a ciphered message, eight bytes each; n is below 65536 here, so two of them are not 0.
GpcBytes(words) == FlattenSeq([i \in DOMAIN words |-> <<words[i] % 256, words[i] \div 256, 0, 0, 0, 0, 0, 0>>])
GpcWords(bytes) == CodecText([i \in 1..Len(bytes) \div 8 |-> bytes[8 * i - 7] + 256 * bytes[8 * i - 6]])

GpcArdellKey == 1079150697
GpcEncode(work, public) ==
    LET filtered == GpcFilterSub2(GpcFilterSub(ArdellEncode(work, GpcArdellKey), 1), 1)
    IN  GpcFilterSub(GpcFilterSub2(GpcBytes(RsaCode(filtered, public)), 2), 4)
GpcDecode(bytes, private, salted) ==
    LET words    == GpcWords(GpcDefilterSub2(GpcDefilterSub(bytes, 4), 2))
        filtered == RsaCode(words, private)
    IN  ArdellDecode(GpcDefilterSub(GpcDefilterSub2(filtered, 1), 1), GpcArdellKey, salted)

----------------------------------------------------------------------------
\* Properties

CodecTypeOK == codecMessage \in Seq(CodecBytes) /\ Len(codecMessage) <= CodecLength

\* The code point that RFC 3629 gives to a sequence of bytes.
Utf8CodePoint(bytes) ==
    LET lead == CASE Len(bytes) = 1 -> bytes[1]
                  [] Len(bytes) > 1 -> bytes[1] - <<192, 224, 240>>[Len(bytes) - 1]
    IN  FoldLeft(LAMBDA c, b : 64 * c + (b - 128), lead, Tail(bytes))

\* Whatever is encoded is decoded again, salted or not and whatever the salt; what the ciphers
\* write is bytes; and the bytes of a code point are the shortest that stand for it.
EncodingsRoundTrip ==
    /\ HexDecode(HexEncode(codecMessage)) = codecMessage
    /\ Base64Decode(Base64Encode(codecMessage)) = codecMessage
    /\ \A salt, left \in CodecSalts : \A key \in CodecKeys :
           LET salted == SaltDataSalt(codecMessage, salt)
               work   == ArdellWork(salted, <<salt, left>>, <<left, salt>>)
           IN  /\ SaltDataUnsalt(ArdellDecode(ArdellEncode(work, key), key, TRUE)) = codecMessage
               /\ ArdellDecode(ArdellEncode(codecMessage, key), key, FALSE) = codecMessage
               /\ \A i \in DOMAIN work : ArdellEncode(work, key)[i] \in 0..255
    /\ \A public \in RsaPublicKeys : codecMessage # <<>> =>
           GpcDecode(GpcEncode(codecMessage, public), RsaPrivate(public), FALSE) = codecMessage
    /\ \A c \in CodecPoints :
           LET bytes == Utf8FromCodePoint(c)
           IN  c <= 1114111 => /\ Utf8CodePoint(bytes) = c
                               /\ Len(bytes) > 1 => c >= <<128, 2048, 65536>>[Len(bytes) - 1]
=============================================================================
