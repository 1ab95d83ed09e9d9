--------------------------------- MODULE Aes --------------------------------
(***************************************************************************)
(* AES (src/aes.c): aes_setkey_enc, aes_setkey_dec and aes_crypt_ecb, for  *)
(* keys of the three sizes.  A round works on words, with tables that hold *)
(* what substitution and mixing make of a byte; decryption has a schedule  *)
(* of its own, so that it can be done with tables too.                     *)
(*                                                                         *)
(* A step is one iteration of a loop.  The properties compare it with AES  *)
(* as FIPS 197 defines it: bytes in a square, and arithmetic in GF(2^8).   *)
(***************************************************************************)
EXTENDS Words

CONSTANTS
    CryptKeys,   \* keys, as sequences of bytes
    CryptBlocks  \* blocks of 16 bytes

ASSUME AesAssumption ==
    /\ \A k \in CryptKeys : k \in Seq(Byte) /\ Len(k) \in {16, 24, 32}
    /\ \A b \in CryptBlocks : b \in Seq(Byte) /\ Len(b) = 16

VARIABLES
    secret,  \* the key
    block,   \* the block to be encrypted
    enc,     \* rk of the context for encryption, as far as it is written
    dec,     \* rk of the one for decryption
    X,       \* the four words of aes_crypt_ecb
    round,   \* iterations and rounds done
    crypting \* what goes on

aesVars == <<secret, block, enc, dec, X, round, crypting>>

-----------------------------------------------------------------------------
(* Tables *)

FSb ==
    [v \in Byte |-> <<99, 124, 119, 123, 242, 107, 111, 197, 48, 1, 103, 43, 254, 215, 171, 118,
       202, 130, 201, 125, 250, 89, 71, 240, 173, 212, 162, 175, 156, 164, 114, 192,
       183, 253, 147, 38, 54, 63, 247, 204, 52, 165, 229, 241, 113, 216, 49, 21,
       4, 199, 35, 195, 24, 150, 5, 154, 7, 18, 128, 226, 235, 39, 178, 117,
       9, 131, 44, 26, 27, 110, 90, 160, 82, 59, 214, 179, 41, 227, 47, 132,
       83, 209, 0, 237, 32, 252, 177, 91, 106, 203, 190, 57, 74, 76, 88, 207,
       208, 239, 170, 251, 67, 77, 51, 133, 69, 249, 2, 127, 80, 60, 159, 168,
       81, 163, 64, 143, 146, 157, 56, 245, 188, 182, 218, 33, 16, 255, 243, 210,
       205, 12, 19, 236, 95, 151, 68, 23, 196, 167, 126, 61, 100, 93, 25, 115,
       96, 129, 79, 220, 34, 42, 144, 136, 70, 238, 184, 20, 222, 94, 11, 219,
       224, 50, 58, 10, 73, 6, 36, 92, 194, 211, 172, 98, 145, 149, 228, 121,
       231, 200, 55, 109, 141, 213, 78, 169, 108, 86, 244, 234, 101, 122, 174, 8,
       186, 120, 37, 46, 28, 166, 180, 198, 232, 221, 116, 31, 75, 189, 139, 138,
       112, 62, 181, 102, 72, 3, 246, 14, 97, 53, 87, 185, 134, 193, 29, 158,
       225, 248, 152, 17, 105, 217, 142, 148, 155, 30, 135, 233, 206, 85, 40, 223,
       140, 161, 137, 13, 191, 230, 66, 104, 65, 153, 45, 15, 176, 84, 187, 22>>[v + 1]]

RSb == [v \in Byte |-> CHOOSE u \in Byte : FSb[u] = v]

RCON == <<1, 2, 4, 8, 16, 32, 64, 128, 27, 54>>

\* Multiplication in GF(2^8).
Twice(v) == IF v < 128 THEN 2 * v ELSE XorBytes[2 * v - 256][27]

Times[a \in Byte, v \in Byte] ==
    IF a = 0 THEN 0
    ELSE LET rest == Times[a \div 2, Twice(v)]
         IN  IF a % 2 = 1 THEN XorBytes[rest][v] ELSE rest

\* FT0 to FT3 and RT0 to RT3 hold the same bytes, turned by one from table to
\* table.
TurnedTables(table) ==
    [b \in 0 .. 3 |-> [v \in Byte |->
        [k \in 1 .. 4 |-> table[v][((k - 1 - b) % 4) + 1]]]]

FT == TurnedTables([v \in Byte |->
          <<Twice(FSb[v]), FSb[v], FSb[v], Times[3, FSb[v]]>>])
RT == TurnedTables([v \in Byte |->
          [k \in 1 .. 4 |-> Times[<<14, 9, 13, 11>>[k], RSb[v]]]])

-----------------------------------------------------------------------------
(* Key schedules *)

AesInit ==
    /\ secret = <<>> /\ block = <<>> /\ enc = <<>> /\ dec = <<>> /\ X = <<>>
    /\ round = 0
    /\ crypting = "none"

GET_ULONG_LE(b, i) == SubSeq(b, i + 1, i + 4)

AsWords(b) == [i \in 1 .. (Len(b) \div 4) |-> GET_ULONG_LE(b, 4 * (i - 1))]

Nk == Len(secret) \div 4

\* Ten, twelve or fourteen rounds.
nr == Nk + 6

SubWord(w) == [k \in 1 .. 4 |-> FSb[w[k]]]

setkey_enc(k, b) ==
    /\ crypting = "none"
    /\ secret' = k
    /\ block' = b
    /\ enc' = AsWords(k)
    /\ crypting' = "expand"
    /\ UNCHANGED <<dec, X, round>>

Iterations == CASE nr = 10 -> 10 [] nr = 12 -> 8 [] nr = 14 -> 7

\* Variant: a key of 256 bits is expanded the way the shorter ones are.
Expanded_OneSub(RK) ==
    LET new[i \in 1 .. Nk] ==
            RK[i] (+) IF i > 1 THEN new[i - 1]
                      ELSE <<RCON[round + 1], 0, 0, 0>>
                           (+) SubWord(Tail(RK[Nk]) \o <<RK[Nk][1]>>)
    IN  [i \in 1 .. Nk |-> new[i]]

\* The words RK[Nk] to RK[2 * Nk - 1] made from those before them.
Expanded(RK) ==
    LET new[i \in 1 .. Nk] ==
            RK[i] (+) IF i = 5 /\ nr = 14 THEN SubWord(new[4])
                      ELSE IF i > 1 THEN new[i - 1]
                      ELSE <<RCON[round + 1], 0, 0, 0>>
                           (+) SubWord(Tail(RK[Nk]) \o <<RK[Nk][1]>>)
    IN  [i \in 1 .. Nk |-> new[i]]

Expand ==
    /\ crypting = "expand"
    /\ IF round < Iterations
         THEN /\ enc' = enc \o Expanded(SubSeq(enc, Len(enc) - Nk + 1, Len(enc)))
              /\ round' = round + 1
              /\ UNCHANGED crypting
         ELSE crypting' = "expanded" /\ UNCHANGED <<enc, round>>
    /\ UNCHANGED <<secret, block, dec, X>>

RoundKey(rk, r) == SubSeq(rk, 4 * r + 1, 4 * r + 4)

\* The round keys in the other order, and all but the first and the last mixed
\* backwards: RT undoes the substitution FSb makes.
Reversed(r) ==
    LET SK == RoundKey(enc, nr - r)
    IN  IF r \in {0, nr} THEN SK
        ELSE [j \in 1 .. 4 |->
                RT[0][FSb[SK[j][1]]] (+) RT[1][FSb[SK[j][2]]]
                (+) RT[2][FSb[SK[j][3]]] (+) RT[3][FSb[SK[j][4]]]]

setkey_dec ==
    /\ crypting = "expanded"
    /\ dec' = [i \in 1 .. (4 * (nr + 1)) |->
                 Reversed((i - 1) \div 4)[((i - 1) % 4) + 1]]
    /\ crypting' = "ready"
    /\ UNCHANGED <<secret, block, enc, X, round>>

-----------------------------------------------------------------------------
(* aes_crypt_ecb *)

\* Byte b that word j of the next round is made from: each is one word further
\* on, or back.
Taken(words, j, b, step) == words[((j - 1 + step * b) % 4) + 1][b + 1]

TableRound(table, words, key, step) ==
    [j \in 1 .. 4 |->
        key[j] (+) table[0][Taken(words, j, 0, step)]
               (+) table[1][Taken(words, j, 1, step)]
               (+) table[2][Taken(words, j, 2, step)]
               (+) table[3][Taken(words, j, 3, step)]]

AES_FROUND(words, key) == TableRound(FT, words, key, 1)
AES_RROUND(words, key) == TableRound(RT, words, key, -1)

\* Without mixing.
LastRound(box, words, key, step) ==
    [j \in 1 .. 4 |->
        key[j] (+) [k \in 1 .. 4 |-> box[Taken(words, j, k - 1, step)]]]

\* The call begins: the first round key.
Whiten(before, mode, words, rk) ==
    /\ crypting = before
    /\ crypting' = mode
    /\ X' = [j \in 1 .. 4 |-> words[j] (+) rk[j]]
    /\ round' = 0
    /\ UNCHANGED <<secret, block, enc, dec>>

crypt_ecb(mode, after, rk, Round(_, _), Last(_, _)) ==
    /\ crypting = mode
    /\ round < nr
    /\ round' = round + 1
    /\ IF round' < nr
         THEN X' = Round(X, RoundKey(rk, round')) /\ UNCHANGED crypting
         ELSE X' = Last(X, RoundKey(rk, nr)) /\ crypting' = after
    /\ UNCHANGED <<secret, block, enc, dec>>

AES_ENCRYPT ==
    \/ Whiten("ready", "encrypt", AsWords(block), enc)
    \/ crypt_ecb("encrypt", "encrypted", enc, AES_FROUND,
                 LAMBDA words, key : LastRound(FSb, words, key, 1))

AES_DECRYPT ==
    \/ Whiten("encrypted", "decrypt", X, dec)
    \/ crypt_ecb("decrypt", "decrypted", dec, AES_RROUND,
                 LAMBDA words, key : LastRound(RSb, words, key, -1))

AesNext ==
    \/ \E k \in CryptKeys, b \in CryptBlocks : setkey_enc(k, b)
    \/ Expand \/ setkey_dec
    \/ AES_ENCRYPT \/ AES_DECRYPT

-----------------------------------------------------------------------------
(* AES as FIPS 197 has it.  X[c][r] is the byte in row r and column c. *)

\* The inverse of a byte, and the affine map.
SBox ==
    LET inverse(v) == IF v = 0 THEN 0 ELSE CHOOSE u \in Byte : Times[v, u] = 1
        turned(v, k) == ((v * 2^k) % 256) + ((v * 2^k) \div 256)
        affine(v) == XorBytes[99][XorBytes[v][XorBytes[turned(v, 1)][XorBytes[
                        turned(v, 2)][XorBytes[turned(v, 3)][turned(v, 4)]]]]]
    IN  [v \in Byte |-> affine(inverse(v))]

Square(F(_, _)) == [c \in 1 .. 4 |-> [r \in 1 .. 4 |-> F(c, r)]]

SubBytes(s)  == Square(LAMBDA c, r : SBox[s[c][r]])
ShiftRows(s) == Square(LAMBDA c, r : s[((c + r - 2) % 4) + 1][r])
MixColumns(s) ==
    Square(LAMBDA c, r :
        LET at(k) == s[c][((r + k - 1) % 4) + 1]
        IN  XorBytes[XorBytes[Twice(at(0))][Times[3, at(1)]]][XorBytes[at(2)][at(3)]])
AddRoundKey(s, r) == [c \in 1 .. 4 |-> s[c] (+) RoundKey(enc, r)[c]]

\* What round r makes of a square.
StandardRound(s, r) ==
    LET shifted == ShiftRows(SubBytes(s))
    IN  AddRoundKey(IF r < nr THEN MixColumns(shifted) ELSE shifted, r)

\* w[i] of the key expansion is w[i - Nk] and a function of w[i - 1].
ExpandedWord(i) ==
    LET before == enc[i]
        sub(w) == [k \in 1 .. 4 |-> SBox[w[k]]]
    IN  enc[i - Nk + 1] (+)
        IF i % Nk = 0
          THEN sub(<<before[2], before[3], before[4], before[1]>>)
               (+) <<RCON[i \div Nk], 0, 0, 0>>
        ELSE IF Nk > 6 /\ i % Nk = 4 THEN sub(before)
        ELSE before

\* The schedule that is written, in room for 68 words, is that of the standard,
\* for each size of key; every round by tables is a round of the standard; and
\* decryption, with its own schedule, gives the block back.  The standard
\* counts: two sides that deviate from it in the same way understand each
\* other, but no other AES does.
StandardStep ==
    /\ Len(enc') <= 68
    /\ crypting' = "expanded" =>
        \A i \in Nk .. (Len(enc) - 1) : enc[i + 1] = ExpandedWord(i)
    /\ crypting = "ready" => X' = AddRoundKey(AsWords(block), 0)
    /\ crypting = "encrypt" => X' = StandardRound(X, round')
    /\ crypting' = "decrypted" => X' = AsWords(block)

AesIsStandard == [][StandardStep]_aesVars
=============================================================================
