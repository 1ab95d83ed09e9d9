--------------------------- MODULE SealingProofs ----------------------------
(***************************************************************************)
(* What is proved of the sealing of a packet.                              *)
(*   The checksum is the remainder of a division of polynomials over       *)
(* GF(2), for packets of every length: a word stands for the set of the    *)
(* exponents of its bits (Polynomial(w, 0)); ^ is then Plus, and all that  *)
(* crc32 does is linear.                                                   *)
(*   And a packet survives encryption and decryption, for every block      *)
(* size, chunk size and length, every function in the place of AES and     *)
(* every exclusive-or.                                                     *)
(***************************************************************************)
EXTENDS CfbStream, Crc32, SequenceTheorems, WellFoundedInduction, TLAPS

-----------------------------------------------------------------------------
(* Bits *)

LEMMA BitSum ==
    ASSUME NEW b \in [0 .. 7 -> {0, 1}], NEW a,
           a = b[0] + 2 * b[1] + 4 * b[2] + 8 * b[3]
               + 16 * b[4] + 32 * b[5] + 64 * b[6] + 128 * b[7]
    PROVE  /\ a \in Byte
           /\ Bit(a, 0) = b[0] /\ Bit(a, 1) = b[1] /\ Bit(a, 2) = b[2]
           /\ Bit(a, 3) = b[3] /\ Bit(a, 4) = b[4] /\ Bit(a, 5) = b[5]
           /\ Bit(a, 6) = b[6] /\ Bit(a, 7) = b[7]
  <1>. DEFINE b0 == b[0]  b1 == b[1]  b2 == b[2]  b3 == b[3]
              b4 == b[4]  b5 == b[5]  b6 == b[6]  b7 == b[7]
  <1>1. /\ b0 \in {0, 1} /\ b1 \in {0, 1} /\ b2 \in {0, 1} /\ b3 \in {0, 1}
        /\ b4 \in {0, 1} /\ b5 \in {0, 1} /\ b6 \in {0, 1} /\ b7 \in {0, 1}
    OBVIOUS
  <1>0. a = b0 + 2 * b1 + 4 * b2 + 8 * b3 + 16 * b4 + 32 * b5 + 64 * b6 + 128 * b7
    OBVIOUS
  <1>. HIDE DEF b0, b1, b2, b3, b4, b5, b6, b7
  <1>2. a \in Byte
    BY ONLY <1>0, <1>1, SMT DEF Byte
  <1>3. /\ a \div 1 = a
        /\ a \div 2 = b1 + 2 * b2 + 4 * b3 + 8 * b4 + 16 * b5 + 32 * b6
                      + 64 * b7
    BY ONLY <1>0, <1>1, SMT
  <1>4. /\ a \div 4 = b2 + 2 * b3 + 4 * b4 + 8 * b5 + 16 * b6 + 32 * b7
        /\ a \div 8 = b3 + 2 * b4 + 4 * b5 + 8 * b6 + 16 * b7
    BY ONLY <1>0, <1>1, SMT
  <1>5. /\ a \div 16 = b4 + 2 * b5 + 4 * b6 + 8 * b7
        /\ a \div 32 = b5 + 2 * b6 + 4 * b7
        /\ a \div 64 = b6 + 2 * b7
        /\ a \div 128 = b7
    BY ONLY <1>0, <1>1, SMT
  <1>6. Bit(a, 0) = b0 /\ Bit(a, 1) = b1
    BY ONLY <1>0, <1>1, <1>3, SMT DEF Bit
  <1>7. Bit(a, 2) = b2 /\ Bit(a, 3) = b3
    BY ONLY <1>1, <1>4, SMT DEF Bit
  <1>8. Bit(a, 4) = b4 /\ Bit(a, 5) = b5 /\ Bit(a, 6) = b6 /\ Bit(a, 7) = b7
    BY ONLY <1>1, <1>5, SMT DEF Bit
  <1>. QED  BY <1>2, <1>6, <1>7, <1>8 DEF b0, b1, b2, b3, b4, b5, b6, b7

LEMMA BitType ==
    ASSUME NEW a \in Byte, NEW i \in 0 .. 7
    PROVE  Bit(a, i) \in {0, 1}
  <1>. DEFINE p(j) == 2^j
  <1>1. /\ p(0) = 1 /\ p(1) = 2 /\ p(2) = 4 /\ p(3) = 8
        /\ p(4) = 16 /\ p(5) = 32 /\ p(6) = 64 /\ p(7) = 128
    BY SMT
  <1>2. Bit(a, i) = (a \div p(i)) % 2
    BY DEF Bit
  <1>. HIDE DEF p
  <1>3. p(i) \in {1, 2, 4, 8, 16, 32, 64, 128}
    BY <1>1, SMT
  <1>4. a \div p(i) \in Nat
    BY <1>3, SMT DEF Byte
  <1>. QED  BY <1>2, <1>4, SMT

LEMMA EachBit ==
    \A i : i \in 0 .. 7 <=> i \in {0, 1, 2, 3, 4, 5, 6, 7}
  BY SMT

\* ^ adds without carry.
LEMMA XorBits ==
    ASSUME NEW a \in Byte, NEW b \in Byte
    PROVE  /\ XorBytes[a][b] \in Byte
           /\ \A i \in 0 .. 7 : Bit(XorBytes[a][b], i) = (Bit(a, i) + Bit(b, i)) % 2
  <1>. DEFINE s(i) == (Bit(a, i) + Bit(b, i)) % 2
  <1>1. \A i \in 0 .. 7 : s(i) \in {0, 1}
    BY BitType, SMT
  <1>2. XorBytes[a][b] = s(0) + 2 * s(1) + 4 * s(2) + 8 * s(3)
                         + 16 * s(4) + 32 * s(5) + 64 * s(6) + 128 * s(7)
    <2>1. XorBytes[a][b] = 2^0 * s(0) + 2^1 * s(1) + 2^2 * s(2) + 2^3 * s(3)
                           + 2^4 * s(4) + 2^5 * s(5) + 2^6 * s(6) + 2^7 * s(7)
      BY DEF XorBytes
    <2>2. /\ s(0) \in Int /\ s(1) \in Int /\ s(2) \in Int /\ s(3) \in Int
          /\ s(4) \in Int /\ s(5) \in Int /\ s(6) \in Int /\ s(7) \in Int
      BY <1>1, EachBit
    <2>. HIDE DEF s
    <2>. QED  BY <2>1, <2>2, SMT
  <1>. DEFINE t == [i \in 0 .. 7 |-> s(i)]
  <1>3. /\ t \in [0 .. 7 -> {0, 1}]
        /\ t[0] = s(0) /\ t[1] = s(1) /\ t[2] = s(2) /\ t[3] = s(3)
        /\ t[4] = s(4) /\ t[5] = s(5) /\ t[6] = s(6) /\ t[7] = s(7)
    BY <1>1
  <1>. HIDE DEF s, t
  <1>4. XorBytes[a][b] = t[0] + 2 * t[1] + 4 * t[2] + 8 * t[3]
                         + 16 * t[4] + 32 * t[5] + 64 * t[6] + 128 * t[7]
    BY ONLY <1>2, <1>3
  <1>5. /\ XorBytes[a][b] \in Byte
        /\ \A i \in {0, 1, 2, 3, 4, 5, 6, 7} : Bit(XorBytes[a][b], i) = t[i]
    BY <1>3, <1>4, BitSum
  <1>. QED  BY <1>3, <1>5, EachBit DEF s

-----------------------------------------------------------------------------
(* Words *)

LEMMA WordSeq ==
    ASSUME NEW w \in Word
    PROVE  w \in Seq(Byte) /\ Len(w) = 4 /\ w[1] \in Byte /\ w[2] \in Byte
           /\ w[3] \in Byte /\ w[4] \in Byte
  <1>1. w \in Seq(Byte)
    BY SeqDef DEF Word
  <1>2. DOMAIN w = 1 .. 4
    BY DEF Word
  <1>3. Len(w) = 4
    BY <1>1, <1>2, LenProperties
  <1>. QED  BY <1>1, <1>3 DEF Word

LEMMA Tuple ==
    ASSUME NEW a \in Byte, NEW b \in Byte, NEW c \in Byte, NEW d \in Byte
    PROVE  <<a, b, c, d>> \in Word
  BY DEF Word

LEMMA AppendByte ==
    ASSUME NEW s \in Seq(Byte), NEW b \in Byte
    PROVE  /\ Append(s, b) \in Seq(Byte) /\ Len(Append(s, b)) = Len(s) + 1
           /\ \A i \in 1 .. Len(s) : Append(s, b)[i] = s[i]
           /\ Append(s, b)[Len(s) + 1] = b
  BY AppendProperties

\* w >> 8
LEMMA Shifted ==
    ASSUME NEW w \in Word
    PROVE  Append(Tail(w), 0) = <<w[2], w[3], w[4], 0>>
  <1>1. w \in Seq(Byte) /\ Len(w) = 4 /\ w # <<>> /\ 0 \in Byte
    BY WordSeq DEF Byte
  <1>. DEFINE u == Tail(w)
  <1>2. u \in Seq(Byte) /\ Len(u) = 3 /\ \A i \in 1 .. 3 : u[i] = w[i + 1]
    BY <1>1, HeadTailProperties
  <1>. HIDE DEF u
  <1>3. /\ Append(u, 0) \in Seq(Byte) /\ Len(Append(u, 0)) = 4
        /\ \A i \in 1 .. 3 : Append(u, 0)[i] = u[i]
        /\ Append(u, 0)[4] = 0
    <2>1. u \in Seq(Byte) /\ 0 \in Byte /\ Len(u) = 3 /\ 3 + 1 = 4
      BY <1>1, <1>2
    <2>2. /\ Append(u, 0) \in Seq(Byte) /\ Len(Append(u, 0)) = Len(u) + 1
          /\ \A i \in 1 .. Len(u) : Append(u, 0)[i] = u[i]
          /\ Append(u, 0)[Len(u) + 1] = 0
      BY ONLY <2>1, AppendByte, Zenon
    <2>. QED  BY <2>1, <2>2, Zenon
  <1>. DEFINE a == Append(u, 0)
              b == <<w[2], w[3], w[4], 0>>
  <1>4. b \in Seq(Byte) /\ Len(b) = 4 /\ \A i \in 1 .. 4 : a[i] = b[i]
    BY <1>2, <1>3, WordSeq
  <1>5. a \in Seq(Byte) /\ Len(a) = 4
    BY <1>3
  <1>. HIDE DEF a, b
  <1>6. a = b
    BY <1>4, <1>5, SeqEqual
  <1>. QED  BY <1>6 DEF a, b, u

LEMMA XorWord ==
    ASSUME NEW v \in Word, NEW w \in Word
    PROVE  /\ v (+) w \in Word
           /\ \A k \in 1 .. 4 : (v (+) w)[k] = XorBytes[v[k]][w[k]]
  BY XorBits DEF Word, (+)

\* The exponents of a word: 31 is that of the least significant bit.
Exponents(w) == Polynomial(w, 0)

At(w, e) == Bit(w[((31 - e) \div 8) + 1], (31 - e) % 8)

LEMMA ExponentsAre ==
    ASSUME NEW w \in Word
    PROVE  /\ Exponents(w) \subseteq 0 .. 31
           /\ \A e \in 0 .. 31 : e \in Exponents(w) <=> At(w, e) = 1
           /\ \A e \in 0 .. 31 : At(w, e) \in {0, 1}
  <1>1. Exponents(w) = {e \in 0 .. 31 : At(w, e) = 1}
    <2>1. Exponents(w) = {e \in 0 .. (0 + 8 * 4 - 1) :
                            LET i == 0 + 8 * 4 - 1 - e
                            IN  Bit(w[(i \div 8) + 1], i % 8) = 1}
      BY WordSeq, Zenon DEF Exponents, Polynomial
    <2>2. 0 + 8 * 4 - 1 = 31 /\ \A e \in Int : 0 + 8 * 4 - 1 - e = 31 - e
      OBVIOUS
    <2>3. \A e : e \in Exponents(w) <=>
                  e \in 0 .. 31 /\ Bit(w[((31 - e) \div 8) + 1], (31 - e) % 8) = 1
      BY ONLY <2>1, <2>2
    <2>. QED  BY <2>3, Zenon DEF At
  <1>2. ASSUME NEW e \in 0 .. 31 PROVE At(w, e) \in {0, 1}
    <2>1. (31 - e) % 8 \in 0 .. 7 /\ ((31 - e) \div 8) + 1 \in 1 .. 4
      BY SMT
    <2>2. w[((31 - e) \div 8) + 1] \in Byte
      BY <2>1 DEF Word
    <2>. QED  BY <2>1, <2>2, BitType DEF At
  <1>. QED  BY <1>1, <1>2

\* ^ is the sum of polynomials over GF(2).
LEMMA XorIsPlus ==
    ASSUME NEW v \in Word, NEW w \in Word
    PROVE  Exponents(v (+) w) = Plus(Exponents(v), Exponents(w))
  <1>1. ASSUME NEW e \in 0 .. 31
        PROVE  At(v (+) w, e) = (At(v, e) + At(w, e)) % 2
    <2>1. (31 - e) % 8 \in 0 .. 7 /\ ((31 - e) \div 8) + 1 \in 1 .. 4
      BY SMT
    <2>2. v[((31 - e) \div 8) + 1] \in Byte /\ w[((31 - e) \div 8) + 1] \in Byte
      BY <2>1 DEF Word
    <2>. QED  BY <2>1, <2>2, XorBits, XorWord DEF At
  <1>2. ASSUME NEW e \in 0 .. 31
        PROVE  e \in Exponents(v (+) w) <=> (e \in Exponents(v) /\ e \notin Exponents(w))
                                     \/ (e \notin Exponents(v) /\ e \in Exponents(w))
    <2>1. /\ e \in Exponents(v (+) w) <=> At(v (+) w, e) = 1
          /\ e \in Exponents(v) <=> At(v, e) = 1
          /\ e \in Exponents(w) <=> At(w, e) = 1
          /\ At(v, e) \in {0, 1} /\ At(w, e) \in {0, 1}
      BY XorWord, ExponentsAre
    <2>. QED  BY <1>1, <2>1, SMT
  <1>3. /\ Exponents(v (+) w) \subseteq 0 .. 31
        /\ Exponents(v) \subseteq 0 .. 31 /\ Exponents(w) \subseteq 0 .. 31
    BY XorWord, ExponentsAre
  <1>. QED  BY ONLY <1>2, <1>3 DEF Plus

-----------------------------------------------------------------------------
(* Multiplication by x, modulo the generator *)

Times(p) ==
    LET up == {e + 1 : e \in p}
    IN  IF 31 \in p THEN Plus(up, Generator) ELSE up

LEMMA PlusIs ==
    ASSUME NEW p, NEW q, NEW e
    PROVE  e \in Plus(p, q) <=> ~(e \in p <=> e \in q)
  BY DEF Plus

LEMMA PlusType ==
    ASSUME NEW S, NEW p \in SUBSET S, NEW q \in SUBSET S
    PROVE  Plus(p, q) \in SUBSET S
  BY DEF Plus

LEMMA PlusNothing == \A p : Plus(p, {}) = p /\ Plus({}, p) = p
  BY DEF Plus

LEMMA PlusSwaps == \A p, q : Plus(p, q) = Plus(q, p)
  BY DEF Plus

LEMMA PlusGroups == \A p, q, r : Plus(Plus(p, q), r) = Plus(p, Plus(q, r))
  BY DEF Plus

\* Words as sets of exponents.
Words32 == SUBSET (0 .. 31)

LEMMA GeneratorIs ==
    /\ Generator \subseteq 0 .. 32
    /\ 32 \in Generator
  BY DEF Generator

LEMMA TimesIs ==
    ASSUME NEW p \in Words32
    PROVE  /\ Times(p) \in Words32
           /\ \A e \in Int : e \in Times(p) <=>
                  ~(e - 1 \in p <=> 31 \in p /\ e \in Generator)
  <1>. DEFINE up == {e + 1 : e \in p}
  <1>1. \A e \in Int : e \in up <=> e - 1 \in p
    BY DEF Words32
  <1>2. \A e \in Int : e \in Times(p) <=>
                  ~(e - 1 \in p <=> 31 \in p /\ e \in Generator)
    BY <1>1 DEF Times, Plus
  <1>3. Times(p) \subseteq Int
    <2>1. up \subseteq Int /\ Generator \subseteq Int
      BY GeneratorIs DEF Words32
    <2>2. Times(p) = Plus(up, Generator) \/ Times(p) = up
      BY DEF Times
    <2>. HIDE DEF up
    <2>. QED  BY ONLY <2>1, <2>2 DEF Plus
  <1>4. ASSUME NEW e \in Times(p) PROVE e \in 0 .. 31
    <2>1. e \in Int /\ ~(e - 1 \in p <=> 31 \in p /\ e \in Generator)
      BY <1>2, <1>3, <1>4
    <2>2. e \in 0 .. 32
      BY <2>1, GeneratorIs DEF Words32
    <2>3. e # 32
      BY <2>1, GeneratorIs
    <2>. QED  BY <2>2, <2>3
  <1>. QED  BY <1>2, <1>4 DEF Words32

LEMMA TimesEquals ==
    ASSUME NEW p \in Words32, NEW q \in Words32,
           \A e \in 0 .. 31 : ~(e - 1 \in p <=> 31 \in p /\ e \in Generator) <=> e \in q
    PROVE  Times(p) = q
  <1>1. Times(p) \in Words32 /\ \A e \in 0 .. 31 : e \in Times(p) <=> e \in q
    BY TimesIs
  <1>2. Times(p) \subseteq 0 .. 31 /\ q \subseteq 0 .. 31
    BY <1>1 DEF Words32
  <1>. QED  BY ONLY <1>1, <1>2

LEMMA TimesLinear ==
    ASSUME NEW p \in Words32, NEW q \in Words32
    PROVE  Times(Plus(p, q)) = Plus(Times(p), Times(q))
  <1>1. Plus(p, q) \in Words32
    BY PlusType DEF Words32
  <1>2. \A e \in Int : e \in Times(Plus(p, q)) <=> e \in Plus(Times(p), Times(q))
    BY <1>1, TimesIs, PlusIs
  <1>3. Times(Plus(p, q)) \subseteq Int /\ Plus(Times(p), Times(q)) \subseteq Int
    BY <1>1, TimesIs, PlusType DEF Words32, Plus
  <1>. QED  BY ONLY <1>2, <1>3

Times8(p) == Times(Times(Times(Times(Times(Times(Times(Times(p))))))))

LEMMA Times8Type ==
    ASSUME NEW p \in Words32
    PROVE  Times8(p) \in Words32
  BY TimesIs DEF Times8

LEMMA Times8Linear ==
    ASSUME NEW p \in Words32, NEW q \in Words32
    PROVE  Times8(Plus(p, q)) = Plus(Times8(p), Times8(q))
  <1>. DEFINE p1 == Times(p)  p2 == Times(p1)  p3 == Times(p2)  p4 == Times(p3)
              p5 == Times(p4)  p6 == Times(p5)  p7 == Times(p6)
              q1 == Times(q)  q2 == Times(q1)  q3 == Times(q2)  q4 == Times(q3)
              q5 == Times(q4)  q6 == Times(q5)  q7 == Times(q6)
  <1>1. /\ p1 \in Words32 /\ p2 \in Words32 /\ p3 \in Words32 /\ p4 \in Words32
        /\ p5 \in Words32 /\ p6 \in Words32 /\ p7 \in Words32
        /\ q1 \in Words32 /\ q2 \in Words32 /\ q3 \in Words32 /\ q4 \in Words32
        /\ q5 \in Words32 /\ q6 \in Words32 /\ q7 \in Words32
    BY TimesIs
  <1>2. /\ Times(Plus(p, q)) = Plus(p1, q1)
        /\ Times(Plus(p1, q1)) = Plus(p2, q2)
        /\ Times(Plus(p2, q2)) = Plus(p3, q3)
        /\ Times(Plus(p3, q3)) = Plus(p4, q4)
        /\ Times(Plus(p4, q4)) = Plus(p5, q5)
        /\ Times(Plus(p5, q5)) = Plus(p6, q6)
        /\ Times(Plus(p6, q6)) = Plus(p7, q7)
        /\ Times(Plus(p7, q7)) = Plus(Times(p7), Times(q7))
    BY <1>1, TimesLinear
  <1>. QED  BY ONLY <1>2 DEF Times8

\* Without the exponent 31 it is a shift.
LEMMA TimesPlain ==
    ASSUME NEW p \in SUBSET (0 .. 23)
    PROVE  Times8(p) = {e + 8 : e \in p}
  <1>1. ASSUME NEW k \in 0 .. 7
        PROVE  Times({e + k : e \in p}) = {e + (k + 1) : e \in p}
    <2>1. 31 \notin {e + k : e \in p}
      BY SMT
    <2>2. {e + 1 : e \in {d + k : d \in p}} = {e + (k + 1) : e \in p}
      <3>. DEFINE once == {d + k : d \in p}
                  more == {e + (k + 1) : e \in p}
      <3>1. \A d \in p : (d + k) + 1 = d + (k + 1)
        OBVIOUS
      <3>2. \A x \in {e + 1 : e \in once} : x \in more
        BY <3>1
      <3>3. \A x \in more : x \in {e + 1 : e \in once}
        BY <3>1
      <3>. HIDE DEF once, more
      <3>4. {e + 1 : e \in once} = more
        BY ONLY <3>2, <3>3, Zenon
      <3>. QED  BY <3>4 DEF once, more
    <2>. QED  BY <2>1, <2>2 DEF Times
  <1>. DEFINE up(k) == {e + k : e \in p}
  <1>2. p = up(0)
    <2>1. \A e \in p : e + 0 = e
      OBVIOUS
    <2>. QED  BY <2>1, Zenon
  <1>3. \A k \in 0 .. 7 : Times(up(k)) = up(k + 1)
    BY <1>1
  <1>. HIDE DEF up
  <1>4. /\ Times(up(0)) = up(1) /\ Times(up(1)) = up(2) /\ Times(up(2)) = up(3)
        /\ Times(up(3)) = up(4) /\ Times(up(4)) = up(5) /\ Times(up(5)) = up(6)
        /\ Times(up(6)) = up(7) /\ Times(up(7)) = up(8)
    BY ONLY <1>3, SMT
  <1>5. Times8(p) = up(8)
    BY ONLY <1>2, <1>4 DEF Times8
  <1>. QED  BY <1>5 DEF up

-----------------------------------------------------------------------------
(* The table *)

LEMMA PowersAre ==
    /\ Powers[1] = <<150, 48, 7, 119>>
    /\ Powers[2] = <<44, 97, 14, 238>>
    /\ Powers[3] = <<25, 196, 109, 7>>
    /\ Powers[4] = <<50, 136, 219, 14>>
    /\ Powers[5] = <<100, 16, 183, 29>>
    /\ Powers[6] = <<200, 32, 110, 59>>
    /\ Powers[7] = <<144, 65, 220, 118>>
    /\ Powers[8] = <<32, 131, 184, 237>>
    /\ \A k \in 1 .. 8 : Powers[k] \in Word
  <1>1. /\ Powers[1] = <<150, 48, 7, 119>>
        /\ Powers[2] = <<44, 97, 14, 238>>
        /\ Powers[3] = <<25, 196, 109, 7>>
        /\ Powers[4] = <<50, 136, 219, 14>>
        /\ Powers[5] = <<100, 16, 183, 29>>
        /\ Powers[6] = <<200, 32, 110, 59>>
        /\ Powers[7] = <<144, 65, 220, 118>>
        /\ Powers[8] = <<32, 131, 184, 237>>
    BY Zenon DEF Powers
  <1>2. \A k \in 1 .. 8 : k \in {1, 2, 3, 4, 5, 6, 7, 8}
    BY SMT
  <1>3. /\ <<150, 48, 7, 119>> \in Word
        /\ <<44, 97, 14, 238>> \in Word
        /\ <<25, 196, 109, 7>> \in Word
        /\ <<50, 136, 219, 14>> \in Word
        /\ <<100, 16, 183, 29>> \in Word
        /\ <<200, 32, 110, 59>> \in Word
        /\ <<144, 65, 220, 118>> \in Word
        /\ <<32, 131, 184, 237>> \in Word
    BY SMT DEF Word, Byte
  <1>. HIDE DEF Word
  <1>. QED  BY <1>1, <1>2, <1>3

LEMMA Exponents8 ==
    Exponents(Powers[8]) = {26, 23, 22, 16, 12, 11, 10, 8, 7, 5, 4, 2, 1, 0}
  <1>. DEFINE w == <<32, 131, 184, 237>>
              b(e) == At(w, e)
              p == {26, 23, 22, 16, 12, 11, 10, 8, 7, 5, 4, 2, 1, 0}
  <1>1. /\ b(0) = 1 /\ b(1) = 1 /\ b(2) = 1 /\ b(3) = 0 /\ b(4) = 1 /\ b(5) = 1
        /\ b(6) = 0 /\ b(7) = 1 /\ b(8) = 1 /\ b(9) = 0 /\ b(10) = 1 /\ b(11) = 1
        /\ b(12) = 1 /\ b(13) = 0 /\ b(14) = 0 /\ b(15) = 0 /\ b(16) = 1 /\ b(17) = 0
        /\ b(18) = 0 /\ b(19) = 0 /\ b(20) = 0 /\ b(21) = 0 /\ b(22) = 1 /\ b(23) = 1
        /\ b(24) = 0 /\ b(25) = 0 /\ b(26) = 1 /\ b(27) = 0 /\ b(28) = 0 /\ b(29) = 0
        /\ b(30) = 0 /\ b(31) = 0
    BY SMT DEF At, Bit
  <1>2. w \in Word /\ Powers[8] = w
    BY PowersAre
  <1>3. /\ Exponents(w) \subseteq 0 .. 31
        /\ \A e \in 0 .. 31 : e \in Exponents(w) <=> b(e) = 1
    BY <1>2, ExponentsAre
  <1>. HIDE DEF b, w
  <1>4. \A e \in 0 .. 31 : b(e) = 1 <=> e \in p
    BY ONLY <1>1, SMT
  <1>5. p \subseteq 0 .. 31
    BY ONLY SMT
  <1>. QED  BY <1>2, <1>3, <1>4, <1>5

LEMMA Exponents7 ==
    Exponents(Powers[7]) = {27, 24, 23, 17, 13, 12, 11, 9, 8, 6, 5, 3, 2, 1}
  <1>. DEFINE w == <<144, 65, 220, 118>>
              b(e) == At(w, e)
              p == {27, 24, 23, 17, 13, 12, 11, 9, 8, 6, 5, 3, 2, 1}
  <1>1. /\ b(0) = 0 /\ b(1) = 1 /\ b(2) = 1 /\ b(3) = 1 /\ b(4) = 0 /\ b(5) = 1
        /\ b(6) = 1 /\ b(7) = 0 /\ b(8) = 1 /\ b(9) = 1 /\ b(10) = 0 /\ b(11) = 1
        /\ b(12) = 1 /\ b(13) = 1 /\ b(14) = 0 /\ b(15) = 0 /\ b(16) = 0 /\ b(17) = 1
        /\ b(18) = 0 /\ b(19) = 0 /\ b(20) = 0 /\ b(21) = 0 /\ b(22) = 0 /\ b(23) = 1
        /\ b(24) = 1 /\ b(25) = 0 /\ b(26) = 0 /\ b(27) = 1 /\ b(28) = 0 /\ b(29) = 0
        /\ b(30) = 0 /\ b(31) = 0
    BY SMT DEF At, Bit
  <1>2. w \in Word /\ Powers[7] = w
    BY PowersAre
  <1>3. /\ Exponents(w) \subseteq 0 .. 31
        /\ \A e \in 0 .. 31 : e \in Exponents(w) <=> b(e) = 1
    BY <1>2, ExponentsAre
  <1>. HIDE DEF b, w
  <1>4. \A e \in 0 .. 31 : b(e) = 1 <=> e \in p
    BY ONLY <1>1, SMT
  <1>5. p \subseteq 0 .. 31
    BY ONLY SMT
  <1>. QED  BY <1>2, <1>3, <1>4, <1>5

LEMMA Exponents6 ==
    Exponents(Powers[6]) = {28, 25, 24, 18, 14, 13, 12, 10, 9, 7, 6, 4, 3, 2}
  <1>. DEFINE w == <<200, 32, 110, 59>>
              b(e) == At(w, e)
              p == {28, 25, 24, 18, 14, 13, 12, 10, 9, 7, 6, 4, 3, 2}
  <1>1. /\ b(0) = 0 /\ b(1) = 0 /\ b(2) = 1 /\ b(3) = 1 /\ b(4) = 1 /\ b(5) = 0
        /\ b(6) = 1 /\ b(7) = 1 /\ b(8) = 0 /\ b(9) = 1 /\ b(10) = 1 /\ b(11) = 0
        /\ b(12) = 1 /\ b(13) = 1 /\ b(14) = 1 /\ b(15) = 0 /\ b(16) = 0 /\ b(17) = 0
        /\ b(18) = 1 /\ b(19) = 0 /\ b(20) = 0 /\ b(21) = 0 /\ b(22) = 0 /\ b(23) = 0
        /\ b(24) = 1 /\ b(25) = 1 /\ b(26) = 0 /\ b(27) = 0 /\ b(28) = 1 /\ b(29) = 0
        /\ b(30) = 0 /\ b(31) = 0
    BY SMT DEF At, Bit
  <1>2. w \in Word /\ Powers[6] = w
    BY PowersAre
  <1>3. /\ Exponents(w) \subseteq 0 .. 31
        /\ \A e \in 0 .. 31 : e \in Exponents(w) <=> b(e) = 1
    BY <1>2, ExponentsAre
  <1>. HIDE DEF b, w
  <1>4. \A e \in 0 .. 31 : b(e) = 1 <=> e \in p
    BY ONLY <1>1, SMT
  <1>5. p \subseteq 0 .. 31
    BY ONLY SMT
  <1>. QED  BY <1>2, <1>3, <1>4, <1>5

LEMMA Exponents5 ==
    Exponents(Powers[5]) = {29, 26, 25, 19, 15, 14, 13, 11, 10, 8, 7, 5, 4, 3}
  <1>. DEFINE w == <<100, 16, 183, 29>>
              b(e) == At(w, e)
              p == {29, 26, 25, 19, 15, 14, 13, 11, 10, 8, 7, 5, 4, 3}
  <1>1. /\ b(0) = 0 /\ b(1) = 0 /\ b(2) = 0 /\ b(3) = 1 /\ b(4) = 1 /\ b(5) = 1
        /\ b(6) = 0 /\ b(7) = 1 /\ b(8) = 1 /\ b(9) = 0 /\ b(10) = 1 /\ b(11) = 1
        /\ b(12) = 0 /\ b(13) = 1 /\ b(14) = 1 /\ b(15) = 1 /\ b(16) = 0 /\ b(17) = 0
        /\ b(18) = 0 /\ b(19) = 1 /\ b(20) = 0 /\ b(21) = 0 /\ b(22) = 0 /\ b(23) = 0
        /\ b(24) = 0 /\ b(25) = 1 /\ b(26) = 1 /\ b(27) = 0 /\ b(28) = 0 /\ b(29) = 1
        /\ b(30) = 0 /\ b(31) = 0
    BY SMT DEF At, Bit
  <1>2. w \in Word /\ Powers[5] = w
    BY PowersAre
  <1>3. /\ Exponents(w) \subseteq 0 .. 31
        /\ \A e \in 0 .. 31 : e \in Exponents(w) <=> b(e) = 1
    BY <1>2, ExponentsAre
  <1>. HIDE DEF b, w
  <1>4. \A e \in 0 .. 31 : b(e) = 1 <=> e \in p
    BY ONLY <1>1, SMT
  <1>5. p \subseteq 0 .. 31
    BY ONLY SMT
  <1>. QED  BY <1>2, <1>3, <1>4, <1>5

LEMMA Exponents4 ==
    Exponents(Powers[4]) = {30, 27, 26, 20, 16, 15, 14, 12, 11, 9, 8, 6, 5, 4}
  <1>. DEFINE w == <<50, 136, 219, 14>>
              b(e) == At(w, e)
              p == {30, 27, 26, 20, 16, 15, 14, 12, 11, 9, 8, 6, 5, 4}
  <1>1. /\ b(0) = 0 /\ b(1) = 0 /\ b(2) = 0 /\ b(3) = 0 /\ b(4) = 1 /\ b(5) = 1
        /\ b(6) = 1 /\ b(7) = 0 /\ b(8) = 1 /\ b(9) = 1 /\ b(10) = 0 /\ b(11) = 1
        /\ b(12) = 1 /\ b(13) = 0 /\ b(14) = 1 /\ b(15) = 1 /\ b(16) = 1 /\ b(17) = 0
        /\ b(18) = 0 /\ b(19) = 0 /\ b(20) = 1 /\ b(21) = 0 /\ b(22) = 0 /\ b(23) = 0
        /\ b(24) = 0 /\ b(25) = 0 /\ b(26) = 1 /\ b(27) = 1 /\ b(28) = 0 /\ b(29) = 0
        /\ b(30) = 1 /\ b(31) = 0
    BY SMT DEF At, Bit
  <1>2. w \in Word /\ Powers[4] = w
    BY PowersAre
  <1>3. /\ Exponents(w) \subseteq 0 .. 31
        /\ \A e \in 0 .. 31 : e \in Exponents(w) <=> b(e) = 1
    BY <1>2, ExponentsAre
  <1>. HIDE DEF b, w
  <1>4. \A e \in 0 .. 31 : b(e) = 1 <=> e \in p
    BY ONLY <1>1, SMT
  <1>5. p \subseteq 0 .. 31
    BY ONLY SMT
  <1>. QED  BY <1>2, <1>3, <1>4, <1>5

LEMMA Exponents3 ==
    Exponents(Powers[3]) = {31, 28, 27, 21, 17, 16, 15, 13, 12, 10, 9, 7, 6, 5}
  <1>. DEFINE w == <<25, 196, 109, 7>>
              b(e) == At(w, e)
              p == {31, 28, 27, 21, 17, 16, 15, 13, 12, 10, 9, 7, 6, 5}
  <1>1. /\ b(0) = 0 /\ b(1) = 0 /\ b(2) = 0 /\ b(3) = 0 /\ b(4) = 0 /\ b(5) = 1
        /\ b(6) = 1 /\ b(7) = 1 /\ b(8) = 0 /\ b(9) = 1 /\ b(10) = 1 /\ b(11) = 0
        /\ b(12) = 1 /\ b(13) = 1 /\ b(14) = 0 /\ b(15) = 1 /\ b(16) = 1 /\ b(17) = 1
        /\ b(18) = 0 /\ b(19) = 0 /\ b(20) = 0 /\ b(21) = 1 /\ b(22) = 0 /\ b(23) = 0
        /\ b(24) = 0 /\ b(25) = 0 /\ b(26) = 0 /\ b(27) = 1 /\ b(28) = 1 /\ b(29) = 0
        /\ b(30) = 0 /\ b(31) = 1
    BY SMT DEF At, Bit
  <1>2. w \in Word /\ Powers[3] = w
    BY PowersAre
  <1>3. /\ Exponents(w) \subseteq 0 .. 31
        /\ \A e \in 0 .. 31 : e \in Exponents(w) <=> b(e) = 1
    BY <1>2, ExponentsAre
  <1>. HIDE DEF b, w
  <1>4. \A e \in 0 .. 31 : b(e) = 1 <=> e \in p
    BY ONLY <1>1, SMT
  <1>5. p \subseteq 0 .. 31
    BY ONLY SMT
  <1>. QED  BY <1>2, <1>3, <1>4, <1>5

LEMMA Exponents2 ==
    Exponents(Powers[2]) = {29, 28, 26, 23, 18, 17, 14, 13, 12, 6, 5, 4, 2, 1, 0}
  <1>. DEFINE w == <<44, 97, 14, 238>>
              b(e) == At(w, e)
              p == {29, 28, 26, 23, 18, 17, 14, 13, 12, 6, 5, 4, 2, 1, 0}
  <1>1. /\ b(0) = 1 /\ b(1) = 1 /\ b(2) = 1 /\ b(3) = 0 /\ b(4) = 1 /\ b(5) = 1
        /\ b(6) = 1 /\ b(7) = 0 /\ b(8) = 0 /\ b(9) = 0 /\ b(10) = 0 /\ b(11) = 0
        /\ b(12) = 1 /\ b(13) = 1 /\ b(14) = 1 /\ b(15) = 0 /\ b(16) = 0 /\ b(17) = 1
        /\ b(18) = 1 /\ b(19) = 0 /\ b(20) = 0 /\ b(21) = 0 /\ b(22) = 0 /\ b(23) = 1
        /\ b(24) = 0 /\ b(25) = 0 /\ b(26) = 1 /\ b(27) = 0 /\ b(28) = 1 /\ b(29) = 1
        /\ b(30) = 0 /\ b(31) = 0
    BY SMT DEF At, Bit
  <1>2. w \in Word /\ Powers[2] = w
    BY PowersAre
  <1>3. /\ Exponents(w) \subseteq 0 .. 31
        /\ \A e \in 0 .. 31 : e \in Exponents(w) <=> b(e) = 1
    BY <1>2, ExponentsAre
  <1>. HIDE DEF b, w
  <1>4. \A e \in 0 .. 31 : b(e) = 1 <=> e \in p
    BY ONLY <1>1, SMT
  <1>5. p \subseteq 0 .. 31
    BY ONLY SMT
  <1>. QED  BY <1>2, <1>3, <1>4, <1>5

LEMMA Exponents1 ==
    Exponents(Powers[1]) = {30, 29, 27, 24, 19, 18, 15, 14, 13, 7, 6, 5, 3, 2, 1}
  <1>. DEFINE w == <<150, 48, 7, 119>>
              b(e) == At(w, e)
              p == {30, 29, 27, 24, 19, 18, 15, 14, 13, 7, 6, 5, 3, 2, 1}
  <1>1. /\ b(0) = 0 /\ b(1) = 1 /\ b(2) = 1 /\ b(3) = 1 /\ b(4) = 0 /\ b(5) = 1
        /\ b(6) = 1 /\ b(7) = 1 /\ b(8) = 0 /\ b(9) = 0 /\ b(10) = 0 /\ b(11) = 0
        /\ b(12) = 0 /\ b(13) = 1 /\ b(14) = 1 /\ b(15) = 1 /\ b(16) = 0 /\ b(17) = 0
        /\ b(18) = 1 /\ b(19) = 1 /\ b(20) = 0 /\ b(21) = 0 /\ b(22) = 0 /\ b(23) = 0
        /\ b(24) = 1 /\ b(25) = 0 /\ b(26) = 0 /\ b(27) = 1 /\ b(28) = 0 /\ b(29) = 1
        /\ b(30) = 1 /\ b(31) = 0
    BY SMT DEF At, Bit
  <1>2. w \in Word /\ Powers[1] = w
    BY PowersAre
  <1>3. /\ Exponents(w) \subseteq 0 .. 31
        /\ \A e \in 0 .. 31 : e \in Exponents(w) <=> b(e) = 1
    BY <1>2, ExponentsAre
  <1>. HIDE DEF b, w
  <1>4. \A e \in 0 .. 31 : b(e) = 1 <=> e \in p
    BY ONLY <1>1, SMT
  <1>5. p \subseteq 0 .. 31
    BY ONLY SMT
  <1>. QED  BY <1>2, <1>3, <1>4, <1>5

\* An entry is x times the next one.
LEMMA Doubled ==
    /\ Times({31}) = Exponents(Powers[8])
    /\ Times(Exponents(Powers[8])) = Exponents(Powers[7])
    /\ Times(Exponents(Powers[7])) = Exponents(Powers[6])
    /\ Times(Exponents(Powers[6])) = Exponents(Powers[5])
    /\ Times(Exponents(Powers[5])) = Exponents(Powers[4])
    /\ Times(Exponents(Powers[4])) = Exponents(Powers[3])
    /\ Times(Exponents(Powers[3])) = Exponents(Powers[2])
    /\ Times(Exponents(Powers[2])) = Exponents(Powers[1])
  <1>1. Times({31}) = Exponents(Powers[8])
    <2>. DEFINE p == {31}
                q == {26, 23, 22, 16, 12, 11, 10, 8, 7, 5, 4, 2, 1, 0}
    <2>1. p \in Words32 /\ q \in Words32
      BY SMT DEF Words32
    <2>2. \A e \in 0 .. 31 : ~(e - 1 \in p <=> 31 \in p /\ e \in Generator) <=> e \in q
      BY SMT DEF Generator
    <2>. HIDE DEF p, q
    <2>3. Times(p) = q
      BY ONLY <2>1, <2>2, TimesEquals
    <2>. QED  BY <2>3, Exponents8 DEF p, q
  <1>2. Times(Exponents(Powers[8])) = Exponents(Powers[7])
    <2>. DEFINE p == {26, 23, 22, 16, 12, 11, 10, 8, 7, 5, 4, 2, 1, 0}
                q == {27, 24, 23, 17, 13, 12, 11, 9, 8, 6, 5, 3, 2, 1}
    <2>1. p \in Words32 /\ q \in Words32
      BY SMT DEF Words32
    <2>2. \A e \in 0 .. 31 : ~(e - 1 \in p <=> 31 \in p /\ e \in Generator) <=> e \in q
      BY SMT DEF Generator
    <2>. HIDE DEF p, q
    <2>3. Times(p) = q
      BY ONLY <2>1, <2>2, TimesEquals
    <2>. QED  BY <2>3, Exponents8, Exponents7 DEF p, q
  <1>3. Times(Exponents(Powers[7])) = Exponents(Powers[6])
    <2>. DEFINE p == {27, 24, 23, 17, 13, 12, 11, 9, 8, 6, 5, 3, 2, 1}
                q == {28, 25, 24, 18, 14, 13, 12, 10, 9, 7, 6, 4, 3, 2}
    <2>1. p \in Words32 /\ q \in Words32
      BY SMT DEF Words32
    <2>2. \A e \in 0 .. 31 : ~(e - 1 \in p <=> 31 \in p /\ e \in Generator) <=> e \in q
      BY SMT DEF Generator
    <2>. HIDE DEF p, q
    <2>3. Times(p) = q
      BY ONLY <2>1, <2>2, TimesEquals
    <2>. QED  BY <2>3, Exponents7, Exponents6 DEF p, q
  <1>4. Times(Exponents(Powers[6])) = Exponents(Powers[5])
    <2>. DEFINE p == {28, 25, 24, 18, 14, 13, 12, 10, 9, 7, 6, 4, 3, 2}
                q == {29, 26, 25, 19, 15, 14, 13, 11, 10, 8, 7, 5, 4, 3}
    <2>1. p \in Words32 /\ q \in Words32
      BY SMT DEF Words32
    <2>2. \A e \in 0 .. 31 : ~(e - 1 \in p <=> 31 \in p /\ e \in Generator) <=> e \in q
      BY SMT DEF Generator
    <2>. HIDE DEF p, q
    <2>3. Times(p) = q
      BY ONLY <2>1, <2>2, TimesEquals
    <2>. QED  BY <2>3, Exponents6, Exponents5 DEF p, q
  <1>5. Times(Exponents(Powers[5])) = Exponents(Powers[4])
    <2>. DEFINE p == {29, 26, 25, 19, 15, 14, 13, 11, 10, 8, 7, 5, 4, 3}
                q == {30, 27, 26, 20, 16, 15, 14, 12, 11, 9, 8, 6, 5, 4}
    <2>1. p \in Words32 /\ q \in Words32
      BY SMT DEF Words32
    <2>2. \A e \in 0 .. 31 : ~(e - 1 \in p <=> 31 \in p /\ e \in Generator) <=> e \in q
      BY SMT DEF Generator
    <2>. HIDE DEF p, q
    <2>3. Times(p) = q
      BY ONLY <2>1, <2>2, TimesEquals
    <2>. QED  BY <2>3, Exponents5, Exponents4 DEF p, q
  <1>6. Times(Exponents(Powers[4])) = Exponents(Powers[3])
    <2>. DEFINE p == {30, 27, 26, 20, 16, 15, 14, 12, 11, 9, 8, 6, 5, 4}
                q == {31, 28, 27, 21, 17, 16, 15, 13, 12, 10, 9, 7, 6, 5}
    <2>1. p \in Words32 /\ q \in Words32
      BY SMT DEF Words32
    <2>2. \A e \in 0 .. 31 : ~(e - 1 \in p <=> 31 \in p /\ e \in Generator) <=> e \in q
      BY SMT DEF Generator
    <2>. HIDE DEF p, q
    <2>3. Times(p) = q
      BY ONLY <2>1, <2>2, TimesEquals
    <2>. QED  BY <2>3, Exponents4, Exponents3 DEF p, q
  <1>7. Times(Exponents(Powers[3])) = Exponents(Powers[2])
    <2>. DEFINE p == {31, 28, 27, 21, 17, 16, 15, 13, 12, 10, 9, 7, 6, 5}
                q == {29, 28, 26, 23, 18, 17, 14, 13, 12, 6, 5, 4, 2, 1, 0}
    <2>1. p \in Words32 /\ q \in Words32
      BY SMT DEF Words32
    <2>2. \A e \in 0 .. 31 : ~(e - 1 \in p <=> 31 \in p /\ e \in Generator) <=> e \in q
      BY SMT DEF Generator
    <2>. HIDE DEF p, q
    <2>3. Times(p) = q
      BY ONLY <2>1, <2>2, TimesEquals
    <2>. QED  BY <2>3, Exponents3, Exponents2 DEF p, q
  <1>8. Times(Exponents(Powers[2])) = Exponents(Powers[1])
    <2>. DEFINE p == {29, 28, 26, 23, 18, 17, 14, 13, 12, 6, 5, 4, 2, 1, 0}
                q == {30, 29, 27, 24, 19, 18, 15, 14, 13, 7, 6, 5, 3, 2, 1}
    <2>1. p \in Words32 /\ q \in Words32
      BY SMT DEF Words32
    <2>2. \A e \in 0 .. 31 : ~(e - 1 \in p <=> 31 \in p /\ e \in Generator) <=> e \in q
      BY SMT DEF Generator
    <2>. HIDE DEF p, q
    <2>3. Times(p) = q
      BY ONLY <2>1, <2>2, TimesEquals
    <2>. QED  BY <2>3, Exponents2, Exponents1 DEF p, q
  <1>. QED  BY <1>1, <1>2, <1>3, <1>4, <1>5, <1>6, <1>7, <1>8

LEMMA TimesOne ==
    ASSUME NEW k \in 0 .. 30
    PROVE  Times({k}) = {k + 1}
  BY SMT DEF Times

LEMMA TimesNothing == Times8({}) = {}
  <1>1. Times({}) = {}
    BY DEF Times
  <1>. QED  BY ONLY <1>1 DEF Times8

\* One bit of a byte, taken through.
LEMMA OneBit ==
    \A i \in 0 .. 7 : Times8({31 - i}) = Exponents(Powers[i + 1])
  <1>. DEFINE s(k) == {k}
              x(k) == Exponents(Powers[k])
  <1>1. /\ Times(s(24)) = s(25) /\ Times(s(25)) = s(26) /\ Times(s(26)) = s(27)
        /\ Times(s(27)) = s(28) /\ Times(s(28)) = s(29) /\ Times(s(29)) = s(30)
        /\ Times(s(30)) = s(31)
    BY TimesOne
  <1>2. /\ Times(s(31)) = x(8) /\ Times(x(8)) = x(7) /\ Times(x(7)) = x(6)
        /\ Times(x(6)) = x(5) /\ Times(x(5)) = x(4) /\ Times(x(4)) = x(3)
        /\ Times(x(3)) = x(2) /\ Times(x(2)) = x(1)
    BY Doubled
  <1>. HIDE DEF s, x
  <1>3. /\ Times8(s(24)) = x(8) /\ Times8(s(25)) = x(7) /\ Times8(s(26)) = x(6)
        /\ Times8(s(27)) = x(5)
    BY ONLY <1>1, <1>2 DEF Times8
  <1>4. /\ Times8(s(28)) = x(4) /\ Times8(s(29)) = x(3)
        /\ Times8(s(30)) = x(2) /\ Times8(s(31)) = x(1)
    BY ONLY <1>1, <1>2 DEF Times8
  <1>5. \A i \in 0 .. 7 : Times8(s(31 - i)) = x(i + 1)
    <2>1. \A i \in 0 .. 7 : i \in {0, 1, 2, 3, 4, 5, 6, 7}
      BY SMT
    <2>. QED  BY ONLY <1>3, <1>4, <2>1, SMT
  <1>. QED  BY <1>5 DEF s, x

\* A byte in the place of the highest exponents.
First(v) == {e \in 24 .. 31 : Bit(v, 31 - e) = 1}

LEMMA FirstType == \A v : First(v) \in Words32
  BY DEF First, Words32

LEMMA FirstXor ==
    ASSUME NEW a \in Byte, NEW b \in Byte
    PROVE  First(XorBytes[a][b]) = Plus(First(a), First(b))
  <1>1. ASSUME NEW e \in 24 .. 31
        PROVE  e \in First(XorBytes[a][b]) <=> e \in Plus(First(a), First(b))
    <2>1. 31 - e \in 0 .. 7
      BY SMT
    <2>2. /\ Bit(XorBytes[a][b], 31 - e) = (Bit(a, 31 - e) + Bit(b, 31 - e)) % 2
          /\ Bit(a, 31 - e) \in {0, 1} /\ Bit(b, 31 - e) \in {0, 1}
      BY <2>1, XorBits, BitType
    <2>3. Bit(XorBytes[a][b], 31 - e) = 1 <=> ~(Bit(a, 31 - e) = 1 <=> Bit(b, 31 - e) = 1)
      BY <2>2, SMT
    <2>4. /\ e \in First(XorBytes[a][b]) <=> Bit(XorBytes[a][b], 31 - e) = 1
          /\ e \in First(a) <=> Bit(a, 31 - e) = 1
          /\ e \in First(b) <=> Bit(b, 31 - e) = 1
      BY Zenon DEF First
    <2>. QED  BY ONLY <2>3, <2>4, PlusIs
  <1>2. First(XorBytes[a][b]) \subseteq 24 .. 31
    BY DEF First
  <1>3. Plus(First(a), First(b)) \subseteq 24 .. 31
    BY DEF First, Plus
  <1>. QED  BY ONLY <1>1, <1>2, <1>3

LEMMA NoBits == \A i \in 0 .. 7 : Bit(0, i) = 0
  <1>1. /\ Bit(0, 0) = 0 /\ Bit(0, 1) = 0 /\ Bit(0, 2) = 0 /\ Bit(0, 3) = 0
        /\ Bit(0, 4) = 0 /\ Bit(0, 5) = 0 /\ Bit(0, 6) = 0 /\ Bit(0, 7) = 0
    BY SMT DEF Bit
  <1>. QED  BY ONLY <1>1, EachBit

LEMMA ZeroWord == <<0, 0, 0, 0>> \in Word /\ Exponents(<<0, 0, 0, 0>>) = {}
  <1>. DEFINE zero == <<0, 0, 0, 0>>
  <1>1. zero \in Word
    <2>1. 0 \in Byte
      BY DEF Byte
    <2>. QED  BY ONLY <2>1, Tuple
  <1>3. \A k \in 1 .. 4 : zero[k] = 0
    BY SMT
  <1>4. \A e \in 0 .. 31 : ((31 - e) \div 8) + 1 \in 1 .. 4 /\ (31 - e) % 8 \in 0 .. 7
    BY SMT
  <1>. HIDE DEF zero
  <1>5. \A e \in 0 .. 31 : At(zero, e) = 0
    BY ONLY NoBits, <1>3, <1>4 DEF At
  <1>6. zero \in Word /\ Exponents(zero) = {}
    BY <1>1, <1>5, ExponentsAre
  <1>. QED  BY <1>6 DEF zero

\* The entry of a byte is what is left of it when it is divided.
LEMMA TableIs ==
    ASSUME NEW v \in Byte
    PROVE  /\ crc32_tab[v] \in Word
           /\ Exponents(crc32_tab[v]) = Times8(First(v))
  <1>. DEFINE zero == <<0, 0, 0, 0>>
              x(i) == IF Bit(v, i) = 1 THEN Powers[i + 1] ELSE zero
              y(i) == IF Bit(v, i) = 1 THEN {31 - i} ELSE {}
              Is(w, p) == w \in Word /\ p \in Words32 /\ Exponents(w) = Times8(p)
  <1>1. zero \in Word /\ Exponents(zero) = {}
    BY ZeroWord, Zenon
  <1>2. \A i \in 0 .. 7 : Is(x(i), y(i))
    <2>1. \A i \in 0 .. 7 : {31 - i} \in Words32 /\ {} \in Words32
      BY SMT DEF Words32
    <2>2. \A i \in 0 .. 7 : Powers[i + 1] \in Word
      BY PowersAre
    <2>. HIDE DEF zero
    <2>. QED  BY ONLY <1>1, <2>1, <2>2, OneBit, TimesNothing
  <1>3. ASSUME NEW w1, NEW p1, Is(w1, p1), NEW w2, NEW p2, Is(w2, p2)
        PROVE  Is(w1 (+) w2, Plus(p1, p2))
    <2>1. /\ w1 (+) w2 \in Word
          /\ Exponents(w1 (+) w2) = Plus(Exponents(w1), Exponents(w2))
      BY <1>3, XorWord, XorIsPlus
    <2>2. /\ Plus(p1, p2) \in Words32
          /\ Times8(Plus(p1, p2)) = Plus(Times8(p1), Times8(p2))
      BY <1>3, PlusType, Times8Linear DEF Words32
    <2>. QED  BY <1>3, <2>1, <2>2
  <1>. DEFINE w == x(0) (+) x(1) (+) x(2) (+) x(3) (+) x(4) (+) x(5) (+) x(6) (+) x(7)
              p == Plus(Plus(Plus(Plus(Plus(Plus(Plus(
                       y(0), y(1)), y(2)), y(3)), y(4)), y(5)), y(6)), y(7))
  <1>4. crc32_tab[v] = w
    BY Zenon DEF crc32_tab
  <1>5. p = First(v)
    <2>. DEFINE p1 == Plus(y(0), y(1))
                p2 == Plus(p1, y(2))
                p3 == Plus(p2, y(3))
                p4 == Plus(p3, y(4))
                p5 == Plus(p4, y(5))
                p6 == Plus(p5, y(6))
    <2>1. \A e :
                 /\ e \in p1 <=> ~(e \in y(0) <=> e \in y(1))
                 /\ e \in p2 <=> ~(e \in p1 <=> e \in y(2))
                 /\ e \in p3 <=> ~(e \in p2 <=> e \in y(3))
                 /\ e \in p4 <=> ~(e \in p3 <=> e \in y(4))
                 /\ e \in p5 <=> ~(e \in p4 <=> e \in y(5))
                 /\ e \in p6 <=> ~(e \in p5 <=> e \in y(6))
                 /\ e \in p <=> ~(e \in p6 <=> e \in y(7))
      <3>. HIDE DEF y
      <3>. QED  BY ONLY PlusIs
    <2>2. \A e : \A i \in 0 .. 7 : e \in y(i) <=> e = 31 - i /\ Bit(v, i) = 1
      OBVIOUS
    <2>3. \A i \in 0 .. 7 : 31 - i \in 24 .. 31
      BY SMT
    <2>4. \A e \in 24 .. 31 : 31 - e \in 0 .. 7 /\ 31 - (31 - e) = e
      BY SMT
    <2>5. \A e : e \in p <=> \E i \in 0 .. 7 : e \in y(i)
      <3>1. \A e : \A i, j \in 0 .. 7 : e \in y(i) /\ e \in y(j) => i = j
        BY <2>2, SMT
      <3>. HIDE DEF y, p, p1, p2, p3, p4, p5, p6
      <3>2. \A e : \A i, j \in {0, 1, 2, 3, 4, 5, 6, 7} :
                e \in y(i) /\ e \in y(j) => i = j
        BY ONLY <3>1, EachBit
      <3>3. ASSUME NEW e
            PROVE  e \in p <=> \/ e \in y(0) \/ e \in y(1) \/ e \in y(2) \/ e \in y(3)
                               \/ e \in y(4) \/ e \in y(5) \/ e \in y(6) \/ e \in y(7)
        BY ONLY <2>1, <3>2, SMT
      <3>. QED  BY ONLY <3>3, EachBit
    <2>. HIDE DEF y, p
    <2>6. \A e : e \in p <=> \E i \in 0 .. 7 : e = 31 - i /\ Bit(v, i) = 1
      BY ONLY <2>2, <2>5
    <2>7. \A e : (\E i \in 0 .. 7 : e = 31 - i /\ Bit(v, i) = 1)
                 <=> e \in 24 .. 31 /\ Bit(v, 31 - e) = 1
      BY ONLY <2>3, <2>4, SMT
    <2>. QED  BY ONLY <2>6, <2>7, Zenon DEF First
  <1>6. Is(w, p)
    <2>1. /\ Is(x(0), y(0)) /\ Is(x(1), y(1)) /\ Is(x(2), y(2)) /\ Is(x(3), y(3))
          /\ Is(x(4), y(4)) /\ Is(x(5), y(5)) /\ Is(x(6), y(6)) /\ Is(x(7), y(7))
      BY ONLY <1>2, EachBit
    <2>. HIDE DEF x, y, Is
    <2>. QED  BY ONLY <1>3, <2>1, Zenon
  <1>. HIDE DEF w, p
  <1>. QED  BY <1>4, <1>5, <1>6

\* A step of crc32 is eight steps of the division.
LEMMA NextIs ==
    ASSUME crc \in Word, NEW b \in Byte
    PROVE  /\ NextCrc(b) \in Word
           /\ Exponents(NextCrc(b)) = Times8(Plus(Exponents(crc), First(b)))
  <1>. DEFINE v == XorBytes[crc[1]][b]
              low == {e \in Exponents(crc) : e <= 23}
              moved == Append(Tail(crc), 0)
  <1>1. crc[1] \in Byte /\ v \in Byte /\ 0 \in Byte
    <2>1. 0 \in Byte
      BY DEF Byte
    <2>2. crc[1] \in Byte
      BY WordSeq
    <2>. QED  BY ONLY <2>1, <2>2, XorBits, b \in Byte
  <1>2. moved = <<crc[2], crc[3], crc[4], 0>> /\ moved \in Word
    <2>1. moved = <<crc[2], crc[3], crc[4], 0>>
      BY Shifted, Zenon
    <2>2. crc[2] \in Byte /\ crc[3] \in Byte /\ crc[4] \in Byte
      BY WordSeq
    <2>3. <<crc[2], crc[3], crc[4], 0>> \in Word
      BY ONLY <1>1, <2>2, Tuple
    <2>. QED  BY <2>1, <2>3
  <1>3. /\ low \in SUBSET (0 .. 23) /\ low \in Words32
        /\ Exponents(crc) = Plus(First(crc[1]), low)
    <2>1. /\ Exponents(crc) \subseteq 0 .. 31
          /\ \A e \in 0 .. 31 : e \in Exponents(crc) <=> At(crc, e) = 1
      BY ExponentsAre
    <2>2. ASSUME NEW e \in 24 .. 31 PROVE At(crc, e) = Bit(crc[1], 31 - e)
      <3>1. ((31 - e) \div 8) + 1 = 1 /\ (31 - e) % 8 = 31 - e
        BY SMT
      <3>. QED  BY <3>1 DEF At
    <2>3. \A e \in 24 .. 31 : e \in Exponents(crc) <=> e \in First(crc[1])
      BY <2>1, <2>2 DEF First
    <2>4. First(crc[1]) \subseteq 24 .. 31
      BY DEF First
    <2>5. low \subseteq 0 .. 23
      BY <2>1
    <2>6. \A e \in 0 .. 31 : e \in Exponents(crc) <=> e \in Plus(First(crc[1]), low)
      BY <2>3, <2>4, <2>5 DEF Plus
    <2>7. Plus(First(crc[1]), low) \subseteq 0 .. 31
      BY <2>4, <2>5 DEF Plus
    <2>8. Exponents(crc) = Plus(First(crc[1]), low)
      BY ONLY <2>1, <2>6, <2>7
    <2>. QED  BY <2>5, <2>8 DEF Words32
  <1>4. Exponents(moved) = {e + 8 : e \in low}
    <2>1. /\ Exponents(moved) \subseteq 0 .. 31
          /\ \A e \in 0 .. 31 : e \in Exponents(moved) <=> At(moved, e) = 1
          /\ \A e \in 0 .. 31 : e \in Exponents(crc) <=> At(crc, e) = 1
      BY <1>2, ExponentsAre
    <2>2. ASSUME NEW e \in 8 .. 31 PROVE At(moved, e) = At(crc, e - 8)
      <3>. DEFINE k == (31 - e) \div 8
      <3>1. /\ k \in 0 .. 2 /\ (31 - (e - 8)) \div 8 = k + 1
            /\ (31 - (e - 8)) % 8 = (31 - e) % 8
        BY SMT
      <3>2. moved[k + 1] = crc[k + 2] /\ (k + 1) + 1 = k + 2
        <4>1. k \in {0, 1, 2}
          BY <3>1
        <4>. HIDE DEF k
        <4>. QED  BY ONLY <1>2, <4>1, SMT
      <3>. HIDE DEF moved
      <3>. QED  BY <3>1, <3>2 DEF At
    <2>3. ASSUME NEW e \in 0 .. 7 PROVE At(moved, e) = 0
      <3>1. (31 - e) \div 8 + 1 = 4 /\ (31 - e) % 8 \in 0 .. 7
        BY SMT
      <3>2. moved[4] = 0
        <4>. HIDE DEF moved
        <4>. QED  BY ONLY <1>2, SMT
      <3>. HIDE DEF moved
      <3>. QED  BY <3>1, <3>2, NoBits DEF At
    <2>. HIDE DEF moved
    <2>4. \A e \in 0 .. 31 : e \in Exponents(moved) <=> e - 8 \in low
      <3>1. ASSUME NEW e \in 0 .. 7
            PROVE  e \notin Exponents(moved) /\ e - 8 \notin low
        <4>1. e \in 0 .. 31 /\ At(moved, e) # 1 /\ e - 8 \notin 0 .. 23
          BY <2>3, SMT
        <4>. QED  BY <1>3, <2>1, <4>1
      <3>2. ASSUME NEW e \in 8 .. 31
            PROVE  e \in Exponents(moved) <=> e - 8 \in low
        <4>1. e \in 0 .. 31 /\ e - 8 \in 0 .. 31 /\ e - 8 <= 23
          BY SMT
        <4>. QED  BY <2>1, <2>2, <4>1
      <3>3. \A e \in 0 .. 31 : e \in 0 .. 7 \/ e \in 8 .. 31
        BY SMT
      <3>. QED  BY ONLY <3>1, <3>2, <3>3
    <2>. DEFINE up == {d + 8 : d \in low}
    <2>5. \A e \in 0 .. 31 : e \in up <=> e - 8 \in low
      BY <1>3
    <2>6. up \subseteq 0 .. 31
      BY <1>3
    <2>. HIDE DEF up
    <2>7. Exponents(moved) = up
      BY ONLY <2>1, <2>4, <2>5, <2>6
    <2>. QED  BY <2>7 DEF up
  <1>5. /\ NextCrc(b) = crc32_tab[v] (+) moved
        /\ crc32_tab[v] \in Word
        /\ Exponents(crc32_tab[v]) = Times8(First(v))
    BY <1>1, TableIs DEF NextCrc
  <1>6. /\ NextCrc(b) \in Word
        /\ Exponents(NextCrc(b)) = Plus(Times8(First(v)), Exponents(moved))
    BY <1>2, <1>5, XorWord, XorIsPlus
  <1>7. Times8(low) = Exponents(moved)
    BY <1>3, <1>4, TimesPlain
  <1>8. First(v) = Plus(First(crc[1]), First(b))
    BY <1>1, FirstXor
  <1>. HIDE DEF low, moved, v
  <1>9. Plus(Exponents(crc), First(b)) = Plus(First(v), low)
    BY ONLY <1>3, <1>8 DEF Plus
  <1>10. Times8(Plus(First(v), low)) = Plus(Times8(First(v)), Times8(low))
    BY <1>3, FirstType, Times8Linear
  <1>. QED  BY ONLY <1>6, <1>7, <1>9, <1>10

-----------------------------------------------------------------------------
(* The division *)

\* A set of numbers that is not empty has a least one.
LEMMA Least ==
    ASSUME NEW S \in SUBSET Nat, S # {}
    PROVE  \E x \in S : \A y \in S : x <= y
  <1>. DEFINE R == {ss \in Nat \X Nat : ss[1] < ss[2]}
  <1>1. IsWellFoundedOn(R, Nat)
    BY NatLessThanWellFounded DEF OpToRel
  <1>2. PICK x \in S : \A y \in S : <<y, x>> \notin R
    BY <1>1, WFMin
  <1>3. \A y \in S : y < x => <<y, x>> \in R
    OBVIOUS
  <1>4. \A y \in S : ~(y < x)
    BY <1>2, <1>3
  <1>. HIDE DEF R
  <1>5. x \in S /\ x \in Nat /\ S \subseteq Nat
    BY <1>2
  <1>. QED  BY <1>4, <1>5

\* A step of it, and what it does down to exponent n, counted from the top.
Divided(r, e) == IF e \in r THEN Plus(r, {e - 32 + g : g \in Generator}) ELSE r

Divides(p, top, low, f) ==
    f = [e \in low .. (top + 1) |-> IF e > top THEN p ELSE Divided(f[e + 1], e)]

LEMMA DividesIs ==
    ASSUME NEW p, NEW top \in Nat, NEW low \in Nat, low <= top + 1, NEW f,
           Divides(p, top, low, f)
    PROVE  /\ f[top + 1] = p
           /\ \A e \in low .. top : f[e] = Divided(f[e + 1], e)
  <1>. DEFINE at(e) == IF e > top THEN p ELSE Divided(f[e + 1], e)
  <1>1. f = [e \in low .. (top + 1) |-> at(e)]
    BY Zenon DEF Divides
  <1>. HIDE DEF at
  <1>2. \A e \in low .. (top + 1) : f[e] = at(e)
    BY <1>1, Zenon
  <1>3. top + 1 \in low .. (top + 1) /\ \A e \in low .. top : e \in low .. (top + 1)
    OBVIOUS
  <1>4. f[top + 1] = at(top + 1) /\ \A e \in low .. top : f[e] = at(e)
    BY ONLY <1>2, <1>3
  <1>5. top + 1 > top /\ \A e \in low .. top : ~(e > top)
    OBVIOUS
  <1>. QED  BY ONLY <1>4, <1>5, Zenon DEF at

LEMMA DividesExists ==
    ASSUME NEW p, NEW top \in Nat
    PROVE  \A d \in 0 .. (top + 1) : \E f : Divides(p, top, (top + 1) - d, f)
  <1>. DEFINE S == {d \in Nat : d <= top + 1 /\ ~\E f : Divides(p, top, (top + 1) - d, f)}
  <1>1. SUFFICES ASSUME S # {} PROVE FALSE
    <2>1. ASSUME S = {}
          PROVE  \A d \in 0 .. (top + 1) : \E f : Divides(p, top, (top + 1) - d, f)
      <3>1. \A d \in 0 .. (top + 1) : d \in Nat /\ d <= top + 1
        OBVIOUS
      <3>. QED  BY <2>1, <3>1, Zenon
    <2>. QED  BY <2>1
  <1>2. PICK x \in S : \A y \in S : x <= y
    <2>1. S \in SUBSET Nat
      OBVIOUS
    <2>. HIDE DEF S
    <2>. QED  BY <1>1, <2>1, Least
  <1>3. x \in Nat /\ x <= top + 1 /\ ~\E f : Divides(p, top, (top + 1) - x, f)
    OBVIOUS
  <1>4. CASE x = 0
    <2>. DEFINE f == [e \in (top + 1) .. (top + 1) |-> p]
    <2>1. (top + 1) - x = top + 1 /\ \A e \in (top + 1) .. (top + 1) : e > top
      BY <1>4
    <2>2. f = [e \in (top + 1) .. (top + 1) |->
                  IF e > top THEN p ELSE Divided(f[e + 1], e)]
      BY <2>1
    <2>. HIDE DEF f
    <2>3. Divides(p, top, top + 1, f)
      BY <2>2, Zenon DEF Divides
    <2>. QED  BY <1>3, <2>1, <2>3
  <1>5. CASE x # 0
    <2>. DEFINE m == (top + 1) - x
    <2>1. /\ x - 1 \in Nat /\ x - 1 <= top + 1 /\ x - 1 \notin S
          /\ (top + 1) - (x - 1) = m + 1 /\ m \in Nat /\ m <= top
      BY <1>2, <1>3, <1>5
    <2>2. PICK f : Divides(p, top, m + 1, f)
      BY <2>1
    <2>. DEFINE g == [e \in m .. (top + 1) |->
                         IF e = m THEN Divided(f[m + 1], m) ELSE f[e]]
    <2>3. f[top + 1] = p /\ \A e \in (m + 1) .. top : f[e] = Divided(f[e + 1], e)
      <3>. HIDE DEF S
      <3>1. m + 1 \in Nat /\ m + 1 <= top + 1
        BY <2>1
      <3>. HIDE DEF m
      <3>. QED  BY ONLY <2>2, <3>1, DividesIs, top \in Nat
    <2>. HIDE DEF m
    <2>4. \A e \in (m + 1) .. (top + 1) : g[e] = f[e]
      BY <2>1
    <2>5. g[m] = Divided(f[m + 1], m)
      BY <2>1
    <2>6. g = [e \in m .. (top + 1) |-> g[e]]
      OBVIOUS
    <2>. HIDE DEF g
    <2>7. ASSUME NEW e \in m .. (top + 1)
          PROVE  g[e] = IF e > top THEN p ELSE Divided(g[e + 1], e)
      <3>1. CASE e = m
        <4>1. g[m + 1] = f[m + 1] /\ ~(m > top)
          BY <2>1, <2>4
        <4>. QED  BY ONLY <2>5, <3>1, <4>1
      <3>2. CASE e \in (m + 1) .. top
        <4>1. g[e] = f[e] /\ g[e + 1] = f[e + 1] /\ ~(e > top)
          BY <2>1, <2>4, <3>2
        <4>. QED  BY ONLY <2>3, <3>2, <4>1
      <3>3. CASE e = top + 1
        <4>1. g[e] = f[e] /\ e > top
          BY <2>1, <2>4, <3>3
        <4>. QED  BY ONLY <2>3, <3>3, <4>1
      <3>. QED  BY <2>1, <3>1, <3>2, <3>3
    <2>8. Divides(p, top, m, g)
      BY ONLY <2>6, <2>7, Zenon DEF Divides
    <2>. QED  BY <1>3, <2>8 DEF m
  <1>. QED  BY <1>4, <1>5

LEMMA DivisionIs ==
    ASSUME NEW p, NEW top \in Nat, top >= 31
    PROVE  /\ Division(p, top)[top + 1] = p
           /\ \A e \in 32 .. top :
                Division(p, top)[e] = Divided(Division(p, top)[e + 1], e)
  <1>. DEFINE c == CHOOSE f : Divides(p, top, 32, f)
  <1>1. top - 31 \in 0 .. (top + 1) /\ (top + 1) - (top - 31) = 32
    OBVIOUS
  <1>2. \E f : Divides(p, top, 32, f)
    BY <1>1, DividesExists
  <1>3. Divides(p, top, 32, c)
    BY <1>2
  <1>4. Division(p, top) = c
    BY DEF Division, Divides, Divided
  <1>. HIDE DEF c
  <1>. QED  BY <1>3, <1>4, DividesIs

\* A word shifted up.
Lift(q, k) == {e + k : e \in q}

LEMMA LiftIs ==
    ASSUME NEW q \in Words32, NEW k \in Nat
    PROVE  /\ Lift(q, k) \subseteq k .. (k + 31)
           /\ \A e \in Int : e \in Lift(q, k) <=> e - k \in q
  BY DEF Lift, Words32

LEMMA LiftPlus ==
    ASSUME NEW p \in Words32, NEW q \in Words32, NEW k \in Nat
    PROVE  Lift(Plus(p, q), k) = Plus(Lift(p, k), Lift(q, k))
  <1>1. Plus(p, q) \in Words32
    BY PlusType DEF Words32
  <1>2. \A e \in Int : e \in Lift(Plus(p, q), k) <=> e \in Plus(Lift(p, k), Lift(q, k))
    <2>1. \A e \in Int :
            /\ e \in Lift(Plus(p, q), k) <=> e - k \in Plus(p, q)
            /\ e \in Lift(p, k) <=> e - k \in p
            /\ e \in Lift(q, k) <=> e - k \in q
      BY <1>1, LiftIs
    <2>. QED  BY ONLY <2>1, PlusIs
  <1>3. /\ Lift(Plus(p, q), k) \subseteq Int
        /\ Lift(p, k) \subseteq Int /\ Lift(q, k) \subseteq Int
    BY <1>1, LiftIs
  <1>4. Plus(Lift(p, k), Lift(q, k)) \subseteq Int
    BY <1>3 DEF Plus
  <1>. QED  BY ONLY <1>2, <1>3, <1>4

\* A step of the division is a multiplication of the word at the top.
LEMMA DividedIs ==
    ASSUME NEW q \in Words32, NEW k \in Nat, NEW R \in SUBSET (0 .. (k + 31))
    PROVE  Divided(Plus(Lift(q, k + 1), R), k + 32) = Plus(Lift(Times(q), k), R)
  <1>. DEFINE r == Plus(Lift(q, k + 1), R)
              G == {(k + 32) - 32 + g : g \in Generator}
              new == Plus(Lift(Times(q), k), R)
  <1>1. k + 1 \in Nat /\ k + 32 \in Int /\ Times(q) \in Words32
    BY TimesIs
  <1>2. \A e \in Int : e \in r <=> ~(e - (k + 1) \in q <=> e \in R)
    BY <1>1, LiftIs, PlusIs
  <1>3. k + 32 \in r <=> 31 \in q
    <2>1. k + 32 \notin R /\ (k + 32) - (k + 1) = 31
      OBVIOUS
    <2>. QED  BY <1>1, <1>2, <2>1
  <1>4. \A e \in Int : e \in G <=> e - k \in Generator
    BY GeneratorIs
  <1>5. \A e \in Int : e \in new <=>
            ~(~(e - (k + 1) \in q <=> 31 \in q /\ e - k \in Generator) <=> e \in R)
    <2>1. \A e \in Int : e \in new <=> ~(e - k \in Times(q) <=> e \in R)
      BY <1>1, LiftIs, PlusIs
    <2>2. \A e \in Int : e - k \in Int /\ (e - k) - 1 = e - (k + 1)
      OBVIOUS
    <2>3. \A e \in Int : e - k \in Times(q) <=>
            ~(e - (k + 1) \in q <=> 31 \in q /\ e - k \in Generator)
      BY <2>2, TimesIs
    <2>. HIDE DEF new
    <2>. QED  BY ONLY <2>1, <2>3
  <1>6. G \subseteq Int /\ r \subseteq Int /\ new \subseteq Int
    <2>1. G \subseteq Int
      BY GeneratorIs
    <2>2. Lift(q, k + 1) \subseteq Int /\ Lift(Times(q), k) \subseteq Int
      BY <1>1, LiftIs
    <2>3. R \subseteq Int
      OBVIOUS
    <2>. HIDE DEF G
    <2>. QED  BY ONLY <2>1, <2>2, <2>3 DEF Plus
  <1>7. Divided(r, k + 32) = IF k + 32 \in r THEN Plus(r, G) ELSE r
    BY Zenon DEF Divided
  <1>. HIDE DEF r, G, new
  <1>8. CASE 31 \in q
    <2>1. \A e \in Int : e \in Plus(r, G) <=> e \in new
      BY ONLY <1>2, <1>4, <1>5, <1>8, PlusIs
    <2>2. Plus(r, G) \subseteq Int
      BY <1>6 DEF Plus
    <2>3. Plus(r, G) = new
      BY ONLY <1>6, <2>1, <2>2
    <2>. QED  BY ONLY <1>3, <1>7, <1>8, <2>3 DEF r, new
  <1>9. CASE 31 \notin q
    <2>1. \A e \in Int : e \in r <=> e \in new
      BY ONLY <1>2, <1>5, <1>9
    <2>2. r = new
      BY ONLY <1>6, <2>1
    <2>. QED  BY ONLY <1>3, <1>7, <1>9, <2>2 DEF r, new
  <1>. QED  BY <1>8, <1>9

\* Eight of them.
LEMMA DividedByte ==
    ASSUME NEW D, NEW m \in Nat, NEW C \in Words32, NEW R \in SUBSET (0 .. (m + 31)),
           \A e \in (m + 32) .. (m + 39) : D[e] = Divided(D[e + 1], e),
           D[m + 40] = Plus(Lift(C, m + 8), R)
    PROVE  D[m + 32] = Plus(Lift(Times8(C), m), R)
  <1>. DEFINE is(k, q) == D[k + 32] = Plus(Lift(q, k), R)
  <1>1. ASSUME NEW k \in m .. (m + 7), NEW q \in Words32, is(k + 1, q)
        PROVE  is(k, Times(q)) /\ Times(q) \in Words32
    <2>1. /\ k \in Nat /\ R \in SUBSET (0 .. (k + 31)) /\ (k + 1) + 32 = (k + 32) + 1
          /\ k + 32 \in (m + 32) .. (m + 39)
      OBVIOUS
    <2>2. D[k + 32] = Divided(D[(k + 32) + 1], k + 32)
      BY <2>1
    <2>3. D[(k + 32) + 1] = Plus(Lift(q, k + 1), R)
      BY <1>1, <2>1
    <2>. QED  BY <1>1, <2>1, <2>2, <2>3, DividedIs, TimesIs
  <1>2. is(m + 8, C)
    <2>1. (m + 8) + 32 = m + 40
      OBVIOUS
    <2>. QED  BY <2>1
  <1>. HIDE DEF is
  <1>3. /\ (m + 7) + 1 = m + 8 /\ (m + 6) + 1 = m + 7 /\ (m + 5) + 1 = m + 6
        /\ (m + 4) + 1 = m + 5 /\ (m + 3) + 1 = m + 4 /\ (m + 2) + 1 = m + 3
        /\ (m + 1) + 1 = m + 2
        /\ m + 7 \in m .. (m + 7) /\ m + 6 \in m .. (m + 7) /\ m + 5 \in m .. (m + 7)
        /\ m + 4 \in m .. (m + 7) /\ m + 3 \in m .. (m + 7) /\ m + 2 \in m .. (m + 7)
        /\ m + 1 \in m .. (m + 7) /\ m \in m .. (m + 7)
    OBVIOUS
  <1>. DEFINE c1 == Times(C)  c2 == Times(c1)  c3 == Times(c2)  c4 == Times(c3)
              c5 == Times(c4)  c6 == Times(c5)  c7 == Times(c6)  c8 == Times(c7)
  <1>. HIDE DEF c1, c2, c3, c4, c5, c6, c7, c8
  <1>4. is(m + 7, c1) /\ c1 \in Words32
    BY <1>1, <1>2, <1>3 DEF c1
  <1>5. is(m + 6, c2) /\ c2 \in Words32
    BY <1>1, <1>4, <1>3 DEF c2
  <1>6. is(m + 5, c3) /\ c3 \in Words32
    BY <1>1, <1>5, <1>3 DEF c3
  <1>7. is(m + 4, c4) /\ c4 \in Words32
    BY <1>1, <1>6, <1>3 DEF c4
  <1>8. is(m + 3, c5) /\ c5 \in Words32
    BY <1>1, <1>7, <1>3 DEF c5
  <1>9. is(m + 2, c6) /\ c6 \in Words32
    BY <1>1, <1>8, <1>3 DEF c6
  <1>10. is(m + 1, c7) /\ c7 \in Words32
    BY <1>1, <1>9, <1>3 DEF c7
  <1>11. is(m, c8)
    BY <1>1, <1>10, <1>3 DEF c8
  <1>. QED
    BY <1>11, Zenon DEF is, Times8, c1, c2, c3, c4, c5, c6, c7, c8

\* What of the packet the first k bytes leave.
Rest(s, k) == {e \in Polynomial(s, 32) : e <= 8 * (Len(s) - k) + 31}

LEMMA RestIs ==
    ASSUME NEW s \in Seq(Byte), NEW k \in 0 .. Len(s)
    PROVE  /\ Rest(s, k) \subseteq 32 .. (8 * (Len(s) - k) + 31)
           /\ \A e \in 32 .. (8 * (Len(s) - k) + 31) :
                e \in Rest(s, k) <=>
                  Bit(s[((8 * Len(s) + 31 - e) \div 8) + 1], (8 * Len(s) + 31 - e) % 8) = 1
  <1>. DEFINE len == Len(s)
              b(e) == Bit(s[((8 * len + 31 - e) \div 8) + 1], (8 * len + 31 - e) % 8) = 1
  <1>1. len \in Nat /\ 32 + 8 * len - 1 = 8 * len + 31
    OBVIOUS
  <1>2. Polynomial(s, 32) = {e \in 32 .. (8 * len + 31) : b(e)}
    <2>. DEFINE i(e) == 32 + 8 * len - 1 - e
                bit(e) == Bit(s[(i(e) \div 8) + 1], i(e) % 8) = 1
                last == 32 + 8 * len - 1
    <2>1. Polynomial(s, 32) = {e \in 32 .. last : bit(e)}
      BY Zenon DEF Polynomial
    <2>. HIDE DEF len
    <2>2. \A e \in Int : i(e) = 8 * len + 31 - e
      BY ONLY <1>1, SMT
    <2>3. last = 8 * len + 31
      BY <1>1
    <2>. HIDE DEF i, last
    <2>4. \A e \in Int : bit(e) <=> b(e)
      BY ONLY <2>2, Zenon
    <2>5. \A e \in 32 .. (8 * len + 31) : e \in Int
      BY <1>1
    <2>. HIDE DEF bit, b
    <2>. QED  BY ONLY <2>1, <2>3, <2>4, <2>5
  <1>. HIDE DEF len, b
  <1>3. Rest(s, k) = {e \in Polynomial(s, 32) : e <= 8 * (len - k) + 31}
    BY Zenon DEF Rest, len
  <1>4. k \in 0 .. len
    BY DEF len
  <1>5. /\ Rest(s, k) \subseteq 32 .. (8 * (len - k) + 31)
        /\ \A e \in 32 .. (8 * (len - k) + 31) : e \in Rest(s, k) <=> b(e)
    BY ONLY <1>1, <1>2, <1>3, <1>4
  <1>. QED  BY <1>5 DEF len, b

LEMMA RestStep ==
    ASSUME NEW s \in Seq(Byte), NEW k \in 0 .. (Len(s) - 1)
    PROVE  LET m == 8 * (Len(s) - (k + 1))
           IN  /\ Rest(s, k) = Plus(Lift(First(s[k + 1]), m + 8), Rest(s, k + 1))
               /\ Rest(s, k + 1) \in SUBSET (0 .. (m + 31))
  <1>. DEFINE len == Len(s)
              m == 8 * (len - (k + 1))
              b(e) == Bit(s[((8 * len + 31 - e) \div 8) + 1], (8 * len + 31 - e) % 8) = 1
              top == Lift(First(s[k + 1]), m + 8)
              all == Rest(s, k)
              low == Rest(s, k + 1)
  <1>1. /\ len \in Nat /\ k \in 0 .. len /\ k + 1 \in 0 .. len /\ m \in Nat
        /\ 8 * (len - k) + 31 = m + 39
    OBVIOUS
  <1>2. /\ all \subseteq 32 .. (m + 39)
        /\ \A e \in 32 .. (m + 39) : e \in all <=> b(e)
    BY <1>1, RestIs
  <1>3. /\ low \subseteq 32 .. (m + 31)
        /\ \A e \in 32 .. (m + 31) : e \in low <=> b(e)
    BY <1>1, RestIs
  <1>4. /\ top \subseteq (m + 32) .. (m + 39)
        /\ \A e \in (m + 32) .. (m + 39) : e \in top <=> b(e)
    <2>1. \A e \in Int : e \in top <=> e - (m + 8) \in First(s[k + 1])
      BY <1>1, FirstType, LiftIs
    <2>2. \A e \in First(s[k + 1]) : e \in 24 .. 31
      BY DEF First
    <2>3. ASSUME NEW e \in (m + 32) .. (m + 39)
          PROVE  e \in top <=> b(e)
      <3>. DEFINE d == e - (m + 8)
                  i == 31 - d
      <3>1. d \in 24 .. 31 /\ i \in 0 .. 7 /\ e \in Int
        BY <1>1
      <3>2. 8 * len + 31 - e = 8 * k + i
        BY <1>1
      <3>3. (8 * k + i) \div 8 = k /\ (8 * k + i) % 8 = i
        <4>. HIDE DEF i
        <4>. QED  BY <1>1, <3>1, SMT
      <3>4. d \in First(s[k + 1]) <=> Bit(s[k + 1], i) = 1
        BY <3>1 DEF First
      <3>. HIDE DEF i, m, len
      <3>5. b(e) <=> Bit(s[k + 1], i) = 1
        BY ONLY <3>2, <3>3, Zenon
      <3>. QED  BY <2>1, <3>1, <3>4, <3>5
    <2>. HIDE DEF top, m
    <2>4. top \subseteq Int
      <3>1. m + 8 \in Nat
        BY <1>1
      <3>. QED  BY <3>1, FirstType, LiftIs DEF top
    <2>5. \A e \in top : e \in (m + 32) .. (m + 39)
      <3>1. m \in Nat
        BY <1>1
      <3>2. ASSUME NEW e \in top PROVE e \in (m + 32) .. (m + 39)
        <4>1. e \in Int /\ e - (m + 8) \in 24 .. 31
          BY ONLY <2>1, <2>2, <2>4, <3>2
        <4>. QED  BY ONLY <3>1, <4>1
      <3>. QED  BY <3>2
    <2>. QED  BY ONLY <2>3, <2>5
  <1>. HIDE DEF b, top, all, low, m
  <1>5. \A e \in 32 .. (m + 39) : e \in all <=> e \in Plus(top, low)
    BY ONLY <1>1, <1>2, <1>3, <1>4 DEF Plus
  <1>6. Plus(top, low) \subseteq 32 .. (m + 39)
    BY ONLY <1>1, <1>3, <1>4 DEF Plus
  <1>7. all = Plus(top, low)
    BY ONLY <1>2, <1>5, <1>6
  <1>8. low \in SUBSET (0 .. (m + 31))
    BY ONLY <1>1, <1>3
  <1>. QED  BY <1>7, <1>8 DEF all, top, low, m

-----------------------------------------------------------------------------
(* The invariant *)

\* The exponents of a packet's first 32 bits, and what is divided.
Ones(s)  == (8 * Len(s)) .. (8 * Len(s) + 31)
Dividend(s) == Plus(Polynomial(s, 32), Ones(s))

\* What is left to divide is the word so far, and the bytes to come.
Halfway ==
    LET left == 8 * (Len(summed) - place)
    IN  Division(Dividend(summed), 8 * Len(summed) + 31)[left + 32]
            = Plus(Lift(Exponents(crc), left), Rest(summed, place))

CrcInv ==
    /\ summed \in Seq(Byte)
    /\ crc \in Word
    /\ place \in 0 .. Len(summed)
    /\ summing \in {"no", "yes", "done"}
    /\ summing = "no" => place = 0 /\ crc = <<0, 0, 0, 0>>
    /\ summing = "yes" => Halfway
    /\ CrcIsRemainder

LEMMA AllOnes ==
    ASSUME crc \in Word
    PROVE  /\ Inverted(crc) \in Word
           /\ Exponents(Inverted(crc)) = Plus(0 .. 31, Exponents(crc))
  <1>. DEFINE ones == <<255, 255, 255, 255>>
  <1>1. ones \in Word
    <2>1. 255 \in Byte
      BY DEF Byte
    <2>. QED  BY ONLY <2>1, Tuple
  <1>2. \A i \in 0 .. 7 : Bit(255, i) = 1
    <2>1. /\ Bit(255, 0) = 1 /\ Bit(255, 1) = 1 /\ Bit(255, 2) = 1 /\ Bit(255, 3) = 1
          /\ Bit(255, 4) = 1 /\ Bit(255, 5) = 1 /\ Bit(255, 6) = 1 /\ Bit(255, 7) = 1
      BY SMT DEF Bit
    <2>. QED  BY ONLY <2>1, EachBit
  <1>3. \A k \in 1 .. 4 : ones[k] = 255
    BY SMT
  <1>4. \A e \in 0 .. 31 : ((31 - e) \div 8) + 1 \in 1 .. 4 /\ (31 - e) % 8 \in 0 .. 7
    BY SMT
  <1>5. Inverted(crc) = crc (+) ones
    BY DEF Inverted
  <1>. HIDE DEF ones
  <1>6. \A e \in 0 .. 31 : At(ones, e) = 1
    BY ONLY <1>2, <1>3, <1>4 DEF At
  <1>7. Exponents(ones) = 0 .. 31
    BY <1>1, <1>6, ExponentsAre
  <1>8. crc (+) ones \in Word /\ Exponents(crc (+) ones) = Plus(Exponents(crc), 0 .. 31)
    BY <1>1, <1>7, XorWord, XorIsPlus
  <1>. QED  BY ONLY <1>5, <1>8, PlusSwaps

LEMMA InitCrc == CrcInit => CrcInv
  <1>1. SUFFICES ASSUME CrcInit PROVE CrcInv
    OBVIOUS
  <1>2. /\ summed = <<>> /\ place = 0 /\ crc = <<0, 0, 0, 0>> /\ summing = "no"
    BY <1>1 DEF CrcInit
  <1>3. summed \in Seq(Byte) /\ place \in 0 .. Len(summed)
    BY <1>2
  <1>4. CrcIsRemainder
    BY <1>2 DEF CrcIsRemainder
  <1>. QED  BY <1>2, <1>3, <1>4, ZeroWord DEF CrcInv

\* Nothing is divided before the first byte.
LEMMA HalfwayAtStart ==
    ASSUME NEW s \in Seq(Byte)
    PROVE  Division(Dividend(s), 8 * Len(s) + 31)[8 * Len(s) + 32]
             = Plus(Lift(0 .. 31, 8 * Len(s)), Rest(s, 0))
  <1>. DEFINE len == Len(s)
  <1>1. len \in Nat /\ 8 * len \in Nat /\ 8 * len + 31 \in Nat /\ 8 * len + 31 >= 31
        /\ (8 * len + 31) + 1 = 8 * len + 32
    OBVIOUS
  <1>2. Division(Dividend(s), 8 * len + 31)[8 * len + 32] = Dividend(s)
    BY <1>1, DivisionIs
  <1>3. Lift(0 .. 31, 8 * len) = Ones(s)
    <2>1. 0 .. 31 \in Words32
      BY DEF Words32
    <2>2. /\ Lift(0 .. 31, 8 * len) \subseteq (8 * len) .. (8 * len + 31)
          /\ \A e \in Int : e \in Lift(0 .. 31, 8 * len) <=> e - 8 * len \in 0 .. 31
      BY ONLY <1>1, <2>1, LiftIs
    <2>3. Ones(s) = (8 * len) .. (8 * len + 31)
      BY DEF Ones
    <2>4. \A e \in (8 * len) .. (8 * len + 31) : e \in Int /\ e - 8 * len \in 0 .. 31
      <3>. DEFINE k == 8 * len
      <3>1. k \in Nat
        BY <1>1
      <3>. HIDE DEF k
      <3>2. \A e \in k .. (k + 31) : e \in Int /\ e - k \in 0 .. 31
        BY <3>1
      <3>. QED  BY <3>2 DEF k
    <2>. HIDE DEF len
    <2>. QED  BY ONLY <2>2, <2>3, <2>4
  <1>4. Rest(s, 0) = Polynomial(s, 32)
    <2>1. 8 * (len - 0) + 31 = 8 * len + 31
      BY <1>1
    <2>2. 32 + 8 * len - 1 = 8 * len + 31
      BY <1>1
    <2>3. Polynomial(s, 32) \subseteq 32 .. (32 + 8 * len - 1)
      BY Zenon DEF Polynomial
    <2>4. \A e \in Polynomial(s, 32) : e <= 8 * len + 31
      <3>. HIDE DEF len
      <3>. QED  BY ONLY <1>1, <2>2, <2>3
    <2>5. Rest(s, 0) = {e \in Polynomial(s, 32) : e <= 8 * (len - 0) + 31}
      BY DEF Rest
    <2>. HIDE DEF len
    <2>. QED  BY ONLY <2>1, <2>4, <2>5
  <1>. QED  BY <1>2, <1>3, <1>4, PlusSwaps DEF Dividend

LEMMA CrcStep == CrcInv /\ [CrcNext]_crcVars => CrcInv'
  <1>1. SUFFICES ASSUME CrcInv, [CrcNext]_crcVars PROVE CrcInv'
    OBVIOUS
  <1>2. /\ summed \in Seq(Byte) /\ crc \in Word /\ place \in 0 .. Len(summed)
        /\ summing \in {"no", "yes", "done"}
        /\ summing = "no" => place = 0 /\ crc = <<0, 0, 0, 0>>
        /\ summing = "yes" => Halfway
        /\ CrcIsRemainder
    BY <1>1 DEF CrcInv
  <1>3. ASSUME NEW p \in CrcPackets, crc32(p) PROVE CrcInv'
    <2>1. /\ place = 0 /\ crc = <<0, 0, 0, 0>> /\ p \in Seq(Byte)
          /\ summed' = p /\ crc' = Inverted(crc) /\ summing' = "yes" /\ place' = 0
      BY <1>2, <1>3, CrcAssumption DEF crc32
    <2>2. crc' \in Word /\ Exponents(crc') = 0 .. 31
      BY <1>2, <2>1, AllOnes, ZeroWord, PlusNothing
    <2>3. Halfway'
      <3>1. 8 * (Len(p) - 0) = 8 * Len(p)
        BY <2>1
      <3>2. Division(Dividend(p), 8 * Len(p) + 31)[8 * Len(p) + 32]
              = Plus(Lift(0 .. 31, 8 * Len(p)), Rest(p, 0))
        BY <2>1, HalfwayAtStart
      <3>. QED  BY ONLY <2>1, <2>2, <3>1, <3>2, Zenon DEF Halfway
    <2>4. CrcIsRemainder'
      BY <2>1 DEF CrcIsRemainder
    <2>. QED  BY <2>1, <2>2, <2>3, <2>4 DEF CrcInv
  <1>4. CASE CrcByte
    <2>. DEFINE len == Len(summed)
                left == 8 * (len - place)
                next == 8 * (len - (place + 1))
                b == summed[place + 1]
                D == Division(Dividend(summed), 8 * len + 31)
                C == Plus(Exponents(crc), First(b))
    <2>1. /\ summing = "yes" /\ summing' = "yes" /\ summed' = summed /\ place < len
          /\ crc' = NextCrc(b) /\ place' = place + 1
      BY <1>4 DEF CrcByte
    <2>2. /\ len \in Nat /\ place \in 0 .. (len - 1) /\ place + 1 \in 0 .. len
          /\ b \in Byte
      BY <1>2, <2>1
    <2>3. /\ next \in Nat /\ left = next + 8 /\ left + 32 = next + 40
          /\ next + 39 <= 8 * len + 31 /\ 8 * len + 31 \in Nat /\ 8 * len + 31 >= 31
      BY <2>2
    <2>4. crc' \in Word /\ Exponents(crc') = Times8(C)
      BY <1>2, <2>1, <2>2, NextIs
    <2>5. /\ Rest(summed, place)
              = Plus(Lift(First(b), next + 8), Rest(summed, place + 1))
          /\ Rest(summed, place + 1) \in SUBSET (0 .. (next + 31))
      BY <1>2, <2>2, RestStep
    <2>6. C \in Words32 /\ Exponents(crc) \in Words32 /\ First(b) \in Words32
      <3>1. Exponents(crc) \in Words32
        BY <1>2, ExponentsAre DEF Words32
      <3>2. First(b) \in Words32
        BY FirstType
      <3>. HIDE DEF b
      <3>3. Plus(Exponents(crc), First(b)) \in Words32
        BY ONLY <3>1, <3>2, PlusType DEF Words32
      <3>. QED  BY <3>1, <3>2, <3>3
    <2>7. D[left + 32] = Plus(Lift(Exponents(crc), left), Rest(summed, place))
      BY <1>2, <2>1 DEF Halfway
    <2>8. \A e \in (next + 32) .. (next + 39) : D[e] = Divided(D[e + 1], e)
      <3>1. \A e \in 32 .. (8 * len + 31) : D[e] = Divided(D[e + 1], e)
        BY <2>3, DivisionIs
      <3>. HIDE DEF D, len, next
      <3>2. \A e \in (next + 32) .. (next + 39) : e \in 32 .. (8 * len + 31)
        BY <2>2, <2>3
      <3>. QED  BY ONLY <3>1, <3>2
    <2>. HIDE DEF len, left, next, b, D, C
    <2>9. D[next + 40] = Plus(Lift(C, next + 8), Rest(summed, place + 1))
      <3>1. next + 8 \in Nat
        BY <2>3
      <3>2. Lift(C, next + 8) = Plus(Lift(Exponents(crc), next + 8),
                                     Lift(First(b), next + 8))
        BY <2>6, <3>1, LiftPlus DEF C
      <3>. QED  BY ONLY <2>3, <2>5, <2>7, <3>2, PlusGroups
    <2>10. D[next + 32] = Plus(Lift(Times8(C), next), Rest(summed, place + 1))
      BY ONLY <2>3, <2>5, <2>6, <2>8, <2>9, DividedByte
    <2>11. Halfway'
      BY ONLY <2>1, <2>4, <2>10, Zenon DEF Halfway, next, len, D
    <2>12. CrcIsRemainder'
      BY <2>1 DEF CrcIsRemainder
    <2>. QED  BY <1>2, <2>1, <2>2, <2>4, <2>11, <2>12 DEF CrcInv, len
  <1>5. CASE CrcReturn
    <2>. DEFINE len == Len(summed)
                D == Division(Dividend(summed), 8 * len + 31)
    <2>1. /\ summing = "yes" /\ summing' = "done" /\ summed' = summed /\ place = len
          /\ crc' = Inverted(crc) /\ place' = place /\ len \in Nat
      BY <1>2, <1>5 DEF CrcReturn
    <2>2. D[32] = Exponents(crc)
      <3>1. 8 * (len - place) = 0 /\ 0 + 32 = 32 /\ 0 \in Nat
        BY <2>1
      <3>2. D[32] = Plus(Lift(Exponents(crc), 0), Rest(summed, place))
        BY ONLY <1>2, <2>1, <3>1, Zenon DEF Halfway
      <3>3. Rest(summed, place) = {}
        <4>1. Rest(summed, place) \subseteq 32 .. (8 * (len - place) + 31)
          BY <1>2, RestIs
        <4>2. 8 * (len - place) + 31 = 31
          BY <2>1
        <4>. HIDE DEF len
        <4>. QED  BY ONLY <4>1, <4>2
      <3>4. Lift(Exponents(crc), 0) = Exponents(crc)
        <4>1. Exponents(crc) \subseteq 0 .. 31
          BY <1>2, ExponentsAre
        <4>2. \A e \in Exponents(crc) : e + 0 = e
          BY <4>1
        <4>. QED  BY ONLY <4>2 DEF Lift
      <3>. QED  BY ONLY <3>2, <3>3, <3>4, PlusNothing
    <2>3. crc' \in Word /\ Exponents(crc') = Plus(0 .. 31, Exponents(crc))
      BY <1>2, <2>1, AllOnes
    <2>4. CrcIsRemainder'
      <3>1. (8 * len + 31) - 31 = 8 * len
        BY <2>1
      <3>2. Ones(summed) = ((8 * len + 31) - 31) .. (8 * len + 31)
        BY <3>1 DEF Ones
      <3>3. Polynomial(crc', 0)
              = Plus(0 .. 31, Remainder(Plus(Polynomial(summed, 32),
                         ((8 * len + 31) - 31) .. (8 * len + 31)), 8 * len + 31))
        BY ONLY <2>2, <2>3, <3>2, Zenon DEF Remainder, Dividend, Exponents
      <3>. QED  BY ONLY <2>1, <3>3, Zenon DEF CrcIsRemainder
    <2>. QED  BY <1>2, <2>1, <2>3, <2>4 DEF CrcInv
  <1>6. CASE UNCHANGED crcVars
    BY <1>2, <1>6 DEF CrcInv, crcVars, Halfway, CrcIsRemainder, Exponents
  <1>. QED  BY <1>1, <1>3, <1>4, <1>5, <1>6 DEF CrcNext

-----------------------------------------------------------------------------
(* The theorem *)

\* For packets of every length, what crc32 returns is the remainder of the
\* packet under division by the generator, in the form the standard gives it.
THEOREM CrcOfEveryPacket == CrcSpec => []CrcIsRemainder
  <1>1. CrcInv => CrcIsRemainder
    BY DEF CrcInv
  <1>. QED  BY <1>1, InitCrc, CrcStep, PTL DEF CrcSpec

-----------------------------------------------------------------------------
(* A packet through encryption and decryption *)

\* The ciphertext byte the sender makes of byte i, from its trace.
Wire(i) == Xor(Refreshed(trace[i].iv, trace[i].n)[trace[i].n], msg[i])

\* The register after byte i.
After(i) == [iv |-> [Refreshed(trace[i].iv, trace[i].n)
                        EXCEPT ![trace[i].n] = Wire(i)],
             n  |-> NextPlace(trace[i].n)]

\* Where a side is: between two calls the position is in iv_off.
Position == [iv |-> iv, n |-> IF pc \in {"encrypt", "decrypt"} THEN n ELSE iv_off]

Start == [iv |-> iv0, n |-> 0]

Sending ==
    /\ \A i \in 0 .. (offset - 1) : buf[i] = Wire(i)
    /\ \A i \in offset .. (size - 1) : buf[i] = msg[i]
    /\ trace[0] = Start
    /\ \A i \in 0 .. (offset - 2) : trace[i + 1] = After(i)
    /\ Position = IF offset = 0 THEN Start ELSE After(offset - 1)

Receiving ==
    /\ \A i \in 0 .. (offset - 1) : buf[i] = msg[i]
    /\ \A i \in offset .. (size - 1) : buf[i] = Wire(i)
    /\ \A i \in 0 .. (size - 2) : trace[i + 1] = After(i)
    /\ offset < size => Position = trace[offset]

IInv ==
    /\ TypeOK
    /\ pc \in {"pack", "encrypt"} => Sending
    /\ pc \in {"unpack", "decrypt"} => Receiving
    /\ pc = "done" => buf = msg

-----------------------------------------------------------------------------
LEMMA PlaceInBlock == \A i \in 0 .. (BlockSize - 1) : NextPlace(i) \in 0 .. (BlockSize - 1)
  BY CfbAssumption DEF NextPlace

LEMMA RefreshedInBlock ==
  ASSUME TypeOK, NEW v \in Block, NEW i
  PROVE  Refreshed(v, i) \in Block
  BY CfbAssumption DEF TypeOK, Refreshed, aes_crypt_ecb

LEMMA CfbInit == Init => IInv
  <1>. SUFFICES ASSUME Init PROVE IInv
    OBVIOUS
  <1>1. TypeOK
    BY CfbAssumption DEF Init, aes_setkey_enc, TypeOK, Packet, Register
  <1>2. Sending
    <2>1. size \in Nat /\ size > 0 /\ offset = 0 /\ pc = "pack" /\ buf = msg
      BY CfbAssumption DEF Init
    <2>2. trace[0] = Start
      BY <2>1 DEF Init, Start
    <2>3. Position = Start
      BY DEF Init, Position, Start
    <2>. QED  BY <2>1, <2>2, <2>3 DEF Sending
  <1>. QED  BY <1>1, <1>2 DEF IInv, Init

-----------------------------------------------------------------------------
\* A byte of either side keeps the types, whatever goes out.
LEMMA StepType ==
  ASSUME TypeOK, NEW out \in Bytes, NEW c \in Bytes, Step(out, c),
         offset < size, length > 0,
         trace' \in [0 .. (size - 1) -> Register]
  PROVE  TypeOK'
  <1>1. Refreshed(iv, n) \in Block
    BY RefreshedInBlock DEF TypeOK
  <1>2. iv' \in Block
    BY <1>1 DEF Step, Block, TypeOK
  <1>3. n' \in 0 .. (BlockSize - 1)
    BY PlaceInBlock DEF Step, TypeOK
  <1>4. buf' \in Packet
    BY DEF Step, TypeOK, Packet, Given
  <1>5. /\ offset' \in 0 .. size /\ length' \in 0 .. ChunkSize
        /\ offset' + length' <= size
    BY CfbAssumption DEF Step, TypeOK
  <1>. QED  BY <1>2, <1>3, <1>4, <1>5 DEF Step, TypeOK, Packet, Given, Block

\* The packet and the trace are all Wire and After depend on.
LEMMA SameWire ==
  ASSUME UNCHANGED Given, NEW i, trace'[i] = trace[i]
  PROVE  Wire(i)' = Wire(i) /\ After(i)' = After(i)
  BY DEF Given, Wire, After, Refreshed, aes_crypt_ecb

LEMMA CfbNext == IInv /\ [Next]_vars => IInv'
  <1>. SUFFICES ASSUME IInv, [Next]_vars PROVE IInv'
    OBVIOUS
  <1>t. TypeOK
    BY DEF IInv
  <1>s. size \in Nat /\ size > 0 /\ offset \in Nat /\ length \in Nat /\ offset <= size
    BY <1>t, CfbAssumption DEF TypeOK
  <1>1. ASSUME NEW loop, NEW function, Call(loop, function),
               \/ loop = "pack" /\ function = "encrypt"
               \/ loop = "unpack" /\ function = "decrypt"
        PROVE  IInv'
    <2>0. /\ UNCHANGED <<Given, buf, offset, trace>> /\ pc = loop /\ pc' = function
          /\ length' = Smaller(size - offset, ChunkSize) /\ n' = iv_off /\ iv' = iv
          /\ iv_off' = iv_off /\ offset < size
      BY <1>1 DEF Call
    <2>1. length' \in 0 .. ChunkSize /\ offset + length' <= size
      BY <2>0, <1>s, CfbAssumption DEF Smaller
    <2>2. TypeOK'
      BY <2>0, <2>1, <1>t, <1>1 DEF TypeOK, Given, Packet
    <2>3. Position' = Position
      BY <2>0, <1>1 DEF Position
    <2>4. \A i : Wire(i)' = Wire(i) /\ After(i)' = After(i)
      BY <2>0, SameWire
    <2>5. CASE loop = "pack"
      BY <2>5, <2>0, <2>2, <2>3, <2>4, <1>1 DEF IInv, Sending, Start, Given
    <2>6. CASE loop = "unpack"
      BY <2>6, <2>0, <2>2, <2>3, <2>4, <1>1 DEF IInv, Receiving, Given
    <2>. QED  BY <1>1, <2>5, <2>6
  <1>2. ASSUME NEW function, NEW loop, Finish(function, loop),
               \/ loop = "pack" /\ function = "encrypt"
               \/ loop = "unpack" /\ function = "decrypt"
        PROVE  IInv'
    <2>0. /\ UNCHANGED <<Given, buf, offset, length, trace>>
          /\ pc = function /\ pc' = loop
          /\ n' = n /\ iv' = iv /\ iv_off' = n
      BY <1>2 DEF Finish
    <2>2. TypeOK'
      BY <2>0, <1>t, <1>2 DEF TypeOK, Given, Packet
    <2>3. Position' = Position
      BY <2>0, <1>2 DEF Position
    <2>4. \A i : Wire(i)' = Wire(i) /\ After(i)' = After(i)
      BY <2>0, SameWire
    <2>5. CASE loop = "pack"
      BY <2>5, <2>0, <2>2, <2>3, <2>4, <1>2 DEF IInv, Sending, Start, Given
    <2>6. CASE loop = "unpack"
      BY <2>6, <2>0, <2>2, <2>3, <2>4, <1>2 DEF IInv, Receiving, Given
    <2>. QED  BY <1>2, <2>5, <2>6
  <1>3. CASE EncryptByte
    <2>. DEFINE c == Xor(Refreshed(iv, n)[n], buf[offset])
    <2>0. /\ pc = "encrypt" /\ length > 0 /\ Step(c, c)
          /\ trace' = [trace EXCEPT ![offset] = [iv |-> iv, n |-> n]]
      BY <1>3 DEF EncryptByte
    <2>1. offset < size /\ offset \in 0 .. (size - 1)
      BY <2>0, <1>t, <1>s DEF TypeOK
    <2>2. c \in Bytes
      <3>1. Refreshed(iv, n) \in Block
        BY <1>t, RefreshedInBlock DEF TypeOK
      <3>2. Refreshed(iv, n)[n] \in Bytes
        BY <3>1, <1>t DEF Block, TypeOK
      <3>3. buf[offset] \in Bytes
        BY <2>1, <1>t DEF TypeOK, Packet
      <3>. QED  BY <3>2, <3>3, CfbAssumption
    <2>3. trace' \in [0 .. (size - 1) -> Register]
      BY <2>0, <2>1, <1>t DEF TypeOK, Register
    <2>4. TypeOK'
      BY <2>0, <2>1, <2>2, <2>3, <1>t, StepType
    <2>5. UNCHANGED Given /\ pc' = pc /\ offset' = offset + 1 /\ UNCHANGED size
      BY <2>0 DEF Step, Given
    <2>6. Sending /\ Position = [iv |-> iv, n |-> n]
      BY <2>0 DEF IInv, Position
    <2>7. \A i \in 0 .. (offset - 1) : trace'[i] = trace[i]
      BY <2>0, <2>1, <1>t, <1>s DEF TypeOK
    <2>8. trace'[offset] = [iv |-> iv, n |-> n]
      BY <2>0, <2>1, <1>t DEF TypeOK
    <2>9. \A i \in 0 .. (offset - 1) : Wire(i)' = Wire(i) /\ After(i)' = After(i)
      BY <2>5, <2>7, SameWire
    <2>10. buf[offset] = msg[offset]
      BY <2>6, <2>1 DEF Sending
    \* The trace now holds the register the byte was made with.
    <2>11. PICK k \in 0 .. (size - 1) : k = offset
      BY <2>1
    <2>12. Wire(k)' = c /\ After(k)' = [iv |-> iv', n |-> n']
      <3>1. trace'[k] = [iv |-> iv, n |-> n] /\ trace'[k].iv = iv /\ trace'[k].n = n
        BY <2>8, <2>11
      <3>2. msg'[k] = buf[offset] /\ cipher' = cipher
        BY <2>5, <2>10, <2>11 DEF Given
      <3>3. Wire(k)' = c
        BY <3>1, <3>2 DEF Wire, Refreshed, aes_crypt_ecb
      <3>4. /\ iv' = [Refreshed(iv, n) EXCEPT ![n] = c]
            /\ n' = NextPlace(n)
        BY <2>0 DEF Step
      <3>. QED  BY <3>1, <3>2, <3>3, <3>4 DEF After, Refreshed, aes_crypt_ecb
    <2>13. Sending'
      <3>1. buf' = [buf EXCEPT ![offset] = c]
        BY <2>0 DEF Step
      <3>2. \A i \in 0 .. (offset' - 1) : (buf[i])' = Wire(i)'
        <4>1. \A i \in 0 .. (offset - 1) : buf'[i] = buf[i]
          BY <3>1, <2>1, <1>s, <1>t DEF TypeOK, Packet
        <4>2. buf'[k] = c
          BY <3>1, <2>1, <2>11, <1>t DEF TypeOK, Packet
        <4>. QED  BY <4>1, <4>2, <2>5, <2>6, <2>9, <2>11, <2>12, <1>s DEF Sending
      <3>3. \A i \in offset' .. (size' - 1) : (buf[i])' = msg'[i]
        BY <3>1, <2>5, <2>6, <1>s, <1>t DEF Sending, Given, TypeOK, Packet
      <3>4. trace'[0] = Start'
        <4>1. CASE offset = 0
          BY <4>1, <2>5, <2>6, <2>8 DEF Sending, Start, Given
        <4>2. CASE offset > 0
          BY <4>2, <2>5, <2>6, <2>7, <1>s DEF Sending, Start, Given
        <4>. QED  BY <4>1, <4>2, <1>s
      <3>5. \A i \in 0 .. (offset' - 2) : trace'[i + 1] = After(i)'
        <4>1. \A i \in 0 .. (offset - 2) : trace'[i + 1] = After(i)'
          BY <2>6, <2>7, <2>9, <1>s DEF Sending
        <4>2. offset > 0 => trace'[offset] = After(offset - 1)
          BY <2>6, <2>8 DEF Sending
        <4>3. \A i : i = offset - 1 /\ offset > 0 => trace'[i + 1] = After(i)'
          BY <4>2, <2>9, <1>s
        <4>. QED  BY <4>1, <4>3, <2>5, <1>s
      <3>6. Position' = [iv |-> iv', n |-> n']
        BY <2>0, <2>5 DEF Position
      <3>7. \A i : i = offset' - 1 => After(i)' = Position'
        BY <3>6, <2>5, <2>11, <2>12, <1>s
      <3>8. offset' # 0
        BY <2>5, <1>s
      <3>. QED  BY <3>2, <3>3, <3>4, <3>5, <3>7, <3>8 DEF Sending
    <2>. QED  BY <2>0, <2>4, <2>5, <2>13 DEF IInv
  <1>4. CASE DecryptByte
    <2>. DEFINE c == buf[offset]
                out == Xor(c, Refreshed(iv, n)[n])
    <2>0. pc = "decrypt" /\ length > 0 /\ Step(out, c) /\ UNCHANGED trace
      BY <1>4 DEF DecryptByte
    <2>1. offset < size /\ offset \in 0 .. (size - 1)
      BY <2>0, <1>t, <1>s DEF TypeOK
    <2>2. Refreshed(iv, n) \in Block /\ Refreshed(iv, n)[n] \in Bytes
      <3>1. Refreshed(iv, n) \in Block
        BY <1>t, RefreshedInBlock DEF TypeOK
      <3>. QED  BY <3>1, <1>t DEF Block, TypeOK
    <2>3. c \in Bytes /\ msg[offset] \in Bytes
      BY <2>1, <1>t DEF TypeOK, Packet
    <2>4. out \in Bytes
      BY <2>2, <2>3, CfbAssumption
    <2>5. TypeOK'
      BY <2>0, <2>1, <2>3, <2>4, <1>t, StepType DEF Step, Given, TypeOK
    <2>6. UNCHANGED Given /\ pc' = pc /\ offset' = offset + 1 /\ UNCHANGED size
      BY <2>0 DEF Step, Given
    <2>7. Receiving /\ Position = [iv |-> iv, n |-> n]
      BY <2>0 DEF IInv, Position
    <2>8. trace[offset] = [iv |-> iv, n |-> n]
      BY <2>1, <2>7 DEF Receiving
    <2>9. c = Wire(offset)
      BY <2>1, <2>7 DEF Receiving
    <2>10. out = msg[offset]
      <3>1. c = Xor(Refreshed(iv, n)[n], msg[offset])
        BY <2>8, <2>9 DEF Wire
      <3>. QED  BY <3>1, <2>2, <2>3, CfbAssumption
    <2>11. \A i : Wire(i)' = Wire(i) /\ After(i)' = After(i)
      BY <2>0, <2>6, SameWire
    <2>12. Receiving'
      <3>1. buf' = [buf EXCEPT ![offset] = out]
        BY <2>0 DEF Step
      <3>2. \A i \in 0 .. (offset' - 1) : buf'[i] = msg'[i]
        BY <3>1, <2>1, <2>6, <2>7, <2>10, <1>s, <1>t DEF Receiving, Given, TypeOK, Packet
      <3>3. \A i \in offset' .. (size' - 1) : buf'[i] = Wire(i)'
        BY <3>1, <2>1, <2>6, <2>7, <2>11, <1>s, <1>t DEF Receiving, TypeOK, Packet
      <3>4. \A i \in 0 .. (size' - 2) : trace'[i + 1] = After(i)'
        BY <2>0, <2>6, <2>7, <2>11 DEF Receiving
      <3>5. offset' < size' => Position' = trace'[offset']
        <4>1. Position' = [iv |-> iv', n |-> n']
          BY <2>0, <2>6 DEF Position
        <4>2. [iv |-> iv', n |-> n'] = After(offset)
          BY <2>0, <2>8, <2>9 DEF Step, After
        <4>3. offset + 1 < size => trace[offset + 1] = After(offset)
          BY <2>7, <1>s DEF Receiving
        <4>. QED  BY <4>1, <4>2, <4>3, <2>0, <2>6
      <3>. QED  BY <3>2, <3>3, <3>4, <3>5 DEF Receiving
    <2>. QED  BY <2>0, <2>5, <2>6, <2>12 DEF IInv
  <1>5. CASE Send
    <2>0. /\ pc = "pack" /\ offset = size /\ pc' = "unpack" /\ offset' = 0
          /\ iv' = iv0 /\ n' = 0 /\ iv_off' = 0
          /\ UNCHANGED <<Given, buf, length, trace>>
      BY <1>5 DEF Send
    <2>1. Sending
      BY <2>0 DEF IInv
    <2>2. length <= 0
      BY <2>0, <1>t, <1>s DEF TypeOK
    <2>3. TypeOK'
      BY <2>0, <2>2, <1>t, <1>s, CfbAssumption DEF TypeOK, Given, Packet
    <2>4. \A i : Wire(i)' = Wire(i) /\ After(i)' = After(i)
      BY <2>0, SameWire
    <2>5. Receiving'
      <3>1. \A i \in 0 .. (size' - 2) : trace'[i + 1] = After(i)'
        BY <2>0, <2>1, <2>4 DEF Sending, Given
      <3>2. Position' = trace'[0]
        BY <2>0, <2>1 DEF Sending, Start, Position
      <3>. QED  BY <2>0, <2>1, <2>4, <3>1, <3>2, <1>s DEF Sending, Receiving, Given
    <2>. QED  BY <2>0, <2>3, <2>5 DEF IInv
  <1>6. CASE Accept
    <2>0. /\ pc = "unpack" /\ offset = size /\ pc' = "done"
          /\ UNCHANGED <<Given, buf, offset, length, iv, n, iv_off, trace>>
      BY <1>6 DEF Accept
    <2>1. TypeOK'
      BY <2>0, <1>t DEF TypeOK, Given, Packet
    <2>2. buf = msg
      BY <2>0, <1>t, <1>s DEF IInv, Receiving, TypeOK, Packet
    <2>. QED  BY <2>0, <2>1, <2>2 DEF IInv, Given
  <1>7. CASE UNCHANGED vars
    <2>1. TypeOK'
      BY <1>7, <1>t DEF vars, TypeOK, Packet
    <2>2. Sending => Sending'
      BY <1>7 DEF vars, Sending, Start, Wire, After, Position, Refreshed, aes_crypt_ecb
    <2>3. Receiving => Receiving'
      BY <1>7 DEF vars, Receiving, Wire, After, Position, Refreshed, aes_crypt_ecb
    <2>. QED  BY <1>7, <2>1, <2>2, <2>3 DEF vars, IInv
  <1>. QED  BY <1>1, <1>2, <1>3, <1>4, <1>5, <1>6, <1>7 DEF Next

\* On both sides offset, chunk and place in the block stay in their ranges.
THEOREM PacketTypeCorrect == Spec => []TypeOK
  <1>1. IInv => TypeOK
    BY DEF IInv
  <1>. QED  BY CfbInit, CfbNext, <1>1, PTL DEF Spec

\* What unpack_update_pkg decrypts is what pack_update_pkg encrypted, for every
\* block size, chunk size and length of a packet, and whatever AES computes.
THEOREM PacketsSurvive == Spec => []RoundTrip
  <1>1. IInv => RoundTrip
    BY DEF IInv, RoundTrip
  <1>. QED  BY CfbInit, CfbNext, <1>1, PTL DEF Spec
=============================================================================
