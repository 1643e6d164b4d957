-------------------------------- MODULE Aes --------------------------------
(***************************************************************************)
(* The AES of the library (llc/gpk_aes.cpp): key expansion, the cipher of  *)
(* one block and its inverse, the modes ECB, CBC and CTR, whose context is *)
(* kept from call to call, and aesEncode and aesDecode, which pad the      *)
(* message and carry the initialisation vector after it.  A state_t is its *)
(* 16 bytes, column after column.                                          *)
(*                                                                         *)
(* The state is an exchange: what one context encrypts, call after call,   *)
(* the other decrypts.                                                     *)
(***************************************************************************)
EXTENDS Integers, Sequences, SequencesExt

CONSTANTS
    AesBuffers, \* what one call may encrypt
    AesKeys,    \* keys, of 32 bytes
    AesIvs,     \* initialisation vectors
    AesCalls    \* bound: the calls of an exchange

ASSUME AesAssumption ==
    /\ \A key \in AesKeys : Len(key) = 32
    /\ \A iv \in AesIvs : Len(iv) = 16
    /\ AesCalls \in Nat

VARIABLES
    aesKey,      \* the key of both
    aesSender,   \* SAESContext: [level, roundKey, iv]
    aesReceiver,
    aesPlain,    \* what has been encrypted, call after call
    aesRead      \* what it was decrypted to

aesVars == <<aesKey, aesSender, aesReceiver, aesPlain, aesRead>>

----------------------------------------------------------------------------
\* Bytes

\* Exclusive or, of two bytes by their halves.
AesBit(n, k) == (n \div 2^k) % 2
AesBytes(s) == s \o <<>> \* the bytes themselves, for TLC: it keeps [i \in S |-> e] as an expression
AesXorTable == \* entry (16 * a) + b + 1 is a xor b
    AesBytes([n \in 1..256 |->
        LET bit(k) == (AesBit(n - 1, k) + AesBit(n - 1, k + 4)) % 2
        IN  (8 * bit(3)) + (4 * bit(2)) + (2 * bit(1)) + bit(0)])
AesXor(a, b) == (16 * AesXorTable[(16 * (a \div 16)) + (b \div 16) + 1]) + AesXorTable[(16 * (a % 16)) + (b % 16) + 1]
AesXorAll(s, t) == AesBytes([i \in DOMAIN s |-> AesXor(s[i], t[i])])

AesXTime(x) == AesXor((2 * x) % 256, 27 * (x \div 128))
AesMultiply(x, y) ==
    LET term(k, power) == IF AesBit(y, k) = 1 THEN power ELSE 0
        x2 == AesXTime(x)
        x4 == AesXTime(x2)
    IN  AesXor(AesXor(term(0, x), term(1, x2)), AesXor(term(2, x4), term(3, AesXTime(x4))))

AesSbox ==
    <<99, 124, 119, 123, 242, 107, 111, 197, 48, 1, 103, 43, 254, 215, 171, 118, 202, 130, 201, 125, 250, 89, 71, 240, 173, 212, 162, 175, 156, 164, 114, 192,
      183, 253, 147, 38, 54, 63, 247, 204, 52, 165, 229, 241, 113, 216, 49, 21, 4, 199, 35, 195, 24, 150, 5, 154, 7, 18, 128, 226, 235, 39, 178, 117,
      9, 131, 44, 26, 27, 110, 90, 160, 82, 59, 214, 179, 41, 227, 47, 132, 83, 209, 0, 237, 32, 252, 177, 91, 106, 203, 190, 57, 74, 76, 88, 207,
      208, 239, 170, 251, 67, 77, 51, 133, 69, 249, 2, 127, 80, 60, 159, 168, 81, 163, 64, 143, 146, 157, 56, 245, 188, 182, 218, 33, 16, 255, 243, 210,
      205, 12, 19, 236, 95, 151, 68, 23, 196, 167, 126, 61, 100, 93, 25, 115, 96, 129, 79, 220, 34, 42, 144, 136, 70, 238, 184, 20, 222, 94, 11, 219,
      224, 50, 58, 10, 73, 6, 36, 92, 194, 211, 172, 98, 145, 149, 228, 121, 231, 200, 55, 109, 141, 213, 78, 169, 108, 86, 244, 234, 101, 122, 174, 8,
      186, 120, 37, 46, 28, 166, 180, 198, 232, 221, 116, 31, 75, 189, 139, 138, 112, 62, 181, 102, 72, 3, 246, 14, 97, 53, 87, 185, 134, 193, 29, 158,
      225, 248, 152, 17, 105, 217, 142, 148, 155, 30, 135, 233, 206, 85, 40, 223, 140, 161, 137, 13, 191, 230, 66, 104, 65, 153, 45, 15, 176, 84, 187, 22>>
AesRsbox ==
    <<82, 9, 106, 213, 48, 54, 165, 56, 191, 64, 163, 158, 129, 243, 215, 251, 124, 227, 57, 130, 155, 47, 255, 135, 52, 142, 67, 68, 196, 222, 233, 203,
      84, 123, 148, 50, 166, 194, 35, 61, 238, 76, 149, 11, 66, 250, 195, 78, 8, 46, 161, 102, 40, 217, 36, 178, 118, 91, 162, 73, 109, 139, 209, 37,
      114, 248, 246, 100, 134, 104, 152, 22, 212, 164, 92, 204, 93, 101, 182, 146, 108, 112, 72, 80, 253, 237, 185, 218, 94, 21, 70, 87, 167, 141, 157, 132,
      144, 216, 171, 0, 140, 188, 211, 10, 247, 228, 88, 5, 184, 179, 69, 6, 208, 44, 30, 143, 202, 63, 15, 2, 193, 175, 189, 3, 1, 19, 138, 107,
      58, 145, 17, 65, 79, 103, 220, 234, 151, 242, 207, 206, 240, 180, 230, 115, 150, 172, 116, 34, 231, 173, 53, 133, 226, 249, 55, 232, 28, 117, 223, 110,
      71, 241, 26, 113, 29, 41, 197, 137, 111, 183, 98, 14, 170, 24, 190, 27, 252, 86, 62, 75, 198, 210, 121, 32, 154, 219, 192, 254, 120, 205, 90, 244,
      31, 221, 168, 51, 136, 7, 199, 49, 177, 18, 16, 89, 39, 128, 236, 95, 96, 81, 127, 169, 25, 181, 74, 13, 45, 229, 122, 159, 147, 201, 156, 239,
      160, 224, 59, 77, 174, 42, 245, 176, 200, 235, 187, 60, 131, 83, 153, 97, 23, 43, 4, 126, 186, 119, 214, 38, 225, 105, 20, 99, 85, 33, 12, 125>>
AesRcon == <<1, 2, 4, 8, 16, 32, 64, 128, 27, 54>>

----------------------------------------------------------------------------
\* Keys

AesLevels == {128, 192, 256}
AesNk(level) == level \div 32
AesNr(level) == AesNk(level) + 6

\* The next word of the key schedule; level 256 substitutes a second one in each group.
AesNextWord(words, level) ==
    LET i == Len(words)
        nk == AesNk(level)
        last == words[i]
        Sub(w) == AesBytes([j \in 1..4 |-> AesSbox[w[j] + 1]])
        rotated == Sub(<<last[2], last[3], last[4], last[1]>>)
        temp == IF i % nk = 0 THEN [rotated EXCEPT ![1] = AesXor(@, AesRcon[i \div nk])]
                ELSE IF level = 256 /\ i % nk = 4 THEN Sub(last)
                ELSE last
    IN  AesXorAll(words[i - nk + 1], temp)
RECURSIVE AesExpanded(_, _)
AesExpanded(words, level) ==
    IF Len(words) = 4 * (AesNr(level) + 1) THEN words
    ELSE AesExpanded(Append(words, AesNextWord(words, level)), level)
AesKeyExpansion(key, level) ==
    LET words == AesExpanded(AesBytes([k \in 1..AesNk(level) |-> SubSeq(key, (4 * k) - 3, 4 * k)]), level)
    IN  AesBytes([i \in 1..(4 * Len(words)) |-> words[((i - 1) \div 4) + 1][((i - 1) % 4) + 1]])

----------------------------------------------------------------------------
\* One block: the byte of column i and row j, from 0, is the (4 * i + j + 1)-th.

AesRowOf(k) == (k - 1) % 4
AesColumnOf(k) == (k - 1) \div 4
AesAddRoundKey(round, state, roundKey) == AesXorAll(state, SubSeq(roundKey, (16 * round) + 1, (16 * round) + 16))
AesSubBytes(state) == AesBytes([k \in DOMAIN state |-> AesSbox[state[k] + 1]])
AesInvSubBytes(state) == AesBytes([k \in DOMAIN state |-> AesRsbox[state[k] + 1]])

\* Row j turns by j columns.
AesShiftRows(state) == AesBytes([k \in DOMAIN state |-> state[(4 * ((AesColumnOf(k) + AesRowOf(k)) % 4)) + AesRowOf(k) + 1]])
BugAesInvShiftRows(state) == AesBytes([k \in DOMAIN state |-> state[(4 * ((AesColumnOf(k) + AesRowOf(k)) % 4)) + AesRowOf(k) + 1]])
AesInvShiftRows(state) == AesBytes([k \in DOMAIN state |-> state[(4 * ((AesColumnOf(k) + 4 - AesRowOf(k)) % 4)) + AesRowOf(k) + 1]])

AesMixColumns(state) ==
    AesBytes([k \in DOMAIN state |->
        LET a(j) == state[(4 * AesColumnOf(k)) + (j % 4) + 1]
            j == AesRowOf(k)
            all == AesXor(AesXor(a(0), a(1)), AesXor(a(2), a(3)))
        IN  AesXor(a(j), AesXor(AesXTime(AesXor(a(j), a(j + 1))), all))])
AesInvMixColumns(state) ==
    AesBytes([k \in DOMAIN state |->
        LET a(j) == state[(4 * AesColumnOf(k)) + (j % 4) + 1]
            j == AesRowOf(k)
        IN  AesXor(AesXor(AesMultiply(a(j), 14), AesMultiply(a(j + 1), 11)),
                   AesXor(AesMultiply(a(j + 2), 13), AesMultiply(a(j + 3), 9)))])

\* The rounds from the given one on; the last one does not mix. (Len has TLC evaluate the state
\* round by round.)
RECURSIVE AesRounds(_, _, _, _)
AesRounds(state, round, roundKey, level) ==
    IF Len(state) = 16 /\ round < AesNr(level)
    THEN AesRounds(AesAddRoundKey(round, AesMixColumns(AesShiftRows(AesSubBytes(state))), roundKey), round + 1, roundKey, level)
    ELSE AesAddRoundKey(round, AesShiftRows(AesSubBytes(state)), roundKey)
AesCipher(block, roundKey, level) == AesRounds(AesAddRoundKey(0, block, roundKey), 1, roundKey, level)

RECURSIVE AesInvRounds(_, _, _)
AesInvRounds(state, round, roundKey) ==
    LET added == AesAddRoundKey(round, AesInvSubBytes(AesInvShiftRows(state)), roundKey)
    IN  IF Len(state) = 16 /\ round > 0 THEN AesInvRounds(AesInvMixColumns(added), round - 1, roundKey) ELSE added
AesInvCipher(block, roundKey, level) ==
    AesInvRounds(AesAddRoundKey(AesNr(level), block, roundKey), AesNr(level) - 1, roundKey)

----------------------------------------------------------------------------
\* Modes: each gives the buffer and the context it leaves.

AesInitCtxIV(key, level, iv) == [level |-> level, roundKey |-> AesKeyExpansion(key, level), iv |-> iv]
AesCtxSetIV(ctx, iv) == [ctx EXCEPT !.iv = iv]

\* ECB takes one block.
AesECBEncrypt(ctx, buf) == [ctx |-> ctx, buf |-> AesCipher(buf, ctx.roundKey, ctx.level)]
AesECBDecrypt(ctx, buf) == [ctx |-> ctx, buf |-> AesInvCipher(buf, ctx.roundKey, ctx.level)]

\* CBC takes whole blocks: each is mixed with the one before it as it was sent, over calls too.
AesBlocks(buf) == [k \in 1..(Len(buf) \div 16) |-> SubSeq(buf, (16 * k) - 15, 16 * k)]
AesCBCEncryptBuffer(ctx, buf) ==
    LET Next(done, block) == Append(done, AesCipher(AesXorAll(block, Last(done)), ctx.roundKey, ctx.level))
        sent == FoldLeft(Next, <<ctx.iv>>, AesBlocks(buf))
    IN  [ctx |-> [ctx EXCEPT !.iv = Last(sent)], buf |-> FlattenSeq(Tail(sent))]
BugAesCBCDecryptBuffer(ctx, buf) ==
    LET blocks == AesBlocks(buf)
        before == <<ctx.iv>> \o blocks
        Block(k) == AesXorAll(AesInvCipher(blocks[k], ctx.roundKey, ctx.level), before[k])
    IN  [ctx |-> ctx, buf |-> FlattenSeq([k \in DOMAIN blocks |-> Block(k)])]
AesCBCDecryptBuffer(ctx, buf) ==
    LET blocks == AesBlocks(buf)
        before == <<ctx.iv>> \o blocks
        Block(k) == AesXorAll(AesInvCipher(blocks[k], ctx.roundKey, ctx.level), before[k])
    IN  [ctx |-> [ctx EXCEPT !.iv = Last(before)], buf |-> FlattenSeq([k \in DOMAIN blocks |-> Block(k)])]

\* CTR takes any length. The vector counts up from its last byte, once for each block begun: the
\* rest of a block is not used by the next call.
AesCounted(iv) ==
    LET carried == {k \in 1..16 : \A j \in (k + 1)..16 : iv[j] = 255}
    IN  AesBytes([k \in 1..16 |-> IF k \in carried THEN (iv[k] + 1) % 256 ELSE iv[k]])
AesCTRXCryptBuffer(ctx, buf) ==
    LET begun == (Len(buf) + 15) \div 16
        Next(ivs, k) == Append(ivs, AesCounted(Last(ivs)))
        ivs == FoldLeft(Next, <<ctx.iv>>, [k \in 1..begun |-> k])
        pads == FlattenSeq([k \in 1..begun |-> AesCipher(ivs[k], ctx.roundKey, ctx.level)])
    IN  [ctx |-> [ctx EXCEPT !.iv = Last(ivs)], buf |-> AesBytes([i \in DOMAIN buf |-> AesXor(buf[i], pads[i])])]

----------------------------------------------------------------------------
\* Messages

AesFailed == "error"

BugAesPadded(message) ==
    LET excedent == Len(message) % 16
        padding == IF excedent = 0 THEN 0 ELSE 16 - excedent
    IN  message \o [k \in 1..padding |-> padding]
\* From 1 to 16 bytes, each of which says how many.
AesPadded(message) ==
    LET padding == 16 - (Len(message) % 16) IN message \o [k \in 1..padding |-> padding]

\* aesEncode: the vector follows the message. Without a message, or with a key of another size, there is none.
AesEncode(message, iv, key, level) ==
    IF message = <<>> \/ Len(key) # 32 THEN AesFailed
    ELSE AesCBCEncryptBuffer(AesInitCtxIV(key, level, iv), AesPadded(message)).buf \o iv

\* aesDecode: a last byte of 0 stands for 16.
AesDecode(encrypted, key, level) ==
    LET size == Len(encrypted) - 16
        ctx == AesInitCtxIV(key, level, SubSeq(encrypted, size + 1, size + 16))
        padded == AesCBCDecryptBuffer(ctx, SubSeq(encrypted, 1, size)).buf
        padding == IF Last(padded) = 0 THEN 16 ELSE Last(padded)
    IN  IF size = 0 \/ size % 16 # 0 \/ Len(key) # 32 THEN AesFailed
        ELSE SubSeq(padded, 1, size - padding)

----------------------------------------------------------------------------
\* The exchange

AesInit ==
    \E key \in AesKeys, level \in AesLevels, iv \in AesIvs :
       /\ aesKey = key
       /\ aesSender = AesInitCtxIV(key, level, iv) /\ aesReceiver = aesSender
       /\ aesPlain = <<>> /\ aesRead = <<>>

AesExchanged(plain, sent, read) ==
    /\ aesSender' = sent.ctx /\ aesReceiver' = read.ctx
    /\ aesPlain' = Append(aesPlain, plain) /\ aesRead' = Append(aesRead, read.buf)
    /\ UNCHANGED aesKey

AesExchangeECB(buf) ==
    /\ Len(buf) = 16
    /\ LET sent == AesECBEncrypt(aesSender, buf) IN AesExchanged(buf, sent, AesECBDecrypt(aesReceiver, sent.buf))
AesExchangeCBC(buf) ==
    /\ Len(buf) % 16 = 0
    /\ LET sent == AesCBCEncryptBuffer(aesSender, buf)
       IN  AesExchanged(buf, sent, AesCBCDecryptBuffer(aesReceiver, sent.buf))
AesExchangeCTR(buf) ==
    LET sent == AesCTRXCryptBuffer(aesSender, buf)
    IN  AesExchanged(buf, sent, AesCTRXCryptBuffer(aesReceiver, sent.buf))
AesSetIV(iv) ==
    /\ aesSender' = AesCtxSetIV(aesSender, iv) /\ aesReceiver' = AesCtxSetIV(aesReceiver, iv)
    /\ UNCHANGED <<aesKey, aesPlain, aesRead>>

AesNext ==
    /\ Len(aesPlain) < AesCalls
    /\ \/ \E buf \in AesBuffers : AesExchangeECB(buf) \/ AesExchangeCBC(buf) \/ AesExchangeCTR(buf)
       \/ \E iv \in AesIvs : AesSetIV(iv)

----------------------------------------------------------------------------
\* Properties

AesTypeOK ==
    /\ aesKey \in AesKeys
    /\ \A ctx \in {aesSender, aesReceiver} :
          /\ ctx.level \in AesLevels /\ Len(ctx.iv) = 16
          /\ Len(ctx.roundKey) = 16 * (AesNr(ctx.level) + 1)
    /\ aesPlain \in Seq(AesBuffers) /\ Len(aesPlain) <= AesCalls

\* Whatever the modes and the lengths of the calls, the receiver reads what the sender wrote, and
\* their contexts are ready for the same next call.
AesStaysInStep == aesRead = aesPlain /\ aesReceiver = aesSender

\* A message of any length and ending, the first of an exchange here, is decoded as it was encoded.
\* A message of whole blocks gets a block of padding.
AesRoundTrips ==
    Len(aesPlain) = 1 =>
       LET message == Head(aesPlain)
       IN  \A iv \in AesIvs :
              LET encoded == AesEncode(message, iv, aesKey, aesSender.level)
              IN  /\ Len(encoded) = (16 * ((Len(message) \div 16) + 1)) + 16
                  /\ AesDecode(encoded, aesKey, aesSender.level) = message

\* The vector that the comment of gpk_aes.cpp cites from SP 800-38A for ECB with AES128.
AesVectorKey == <<43, 126, 21, 22, 40, 174, 210, 166, 171, 247, 21, 136, 9, 207, 79, 60>>
AesVectors ==
    {<<<<107, 193, 190, 226, 46, 64, 159, 150, 233, 61, 126, 17, 115, 147, 23, 42>>,
       <<58, 215, 123, 180, 13, 122, 54, 96, 168, 158, 202, 243, 36, 102, 239, 151>>>>,
     <<<<48, 200, 28, 70, 163, 92, 228, 17, 229, 251, 193, 25, 26, 10, 82, 239>>,
       <<67, 177, 205, 127, 89, 142, 206, 35, 136, 27, 0, 227, 237, 3, 6, 136>>>>}
AesIsAes ==
    aesPlain = <<>> =>
       LET roundKey == AesKeyExpansion(AesVectorKey, 128)
       IN  \A v \in AesVectors : AesCipher(v[1], roundKey, 128) = v[2] /\ AesInvCipher(v[2], roundKey, 128) = v[1]
=============================================================================
