---------------------------- MODULE Md5KeyProofs ----------------------------
(***************************************************************************)
(* Proofs about the derivation of key and iv: for every size of buffer,    *)
(* digest and key and every password, no byte given to md5_update is lost, *)
(* repeated or replaced by one of an earlier digest, the copies into the   *)
(* buffer stay in it, and key and iv are made of the digests of exactly    *)
(* the messages they should be.                                            *)
(***************************************************************************)
EXTENDS Md5Key, SequenceTheorems, WellFoundedInduction, TLAPS

-----------------------------------------------------------------------------
(* Remainders by a divisor that is not known *)

LEMMA DivMod ==
    ASSUME NEW a \in Nat, NEW B \in Nat \ {0}
    PROVE  a \div B \in Int /\ a % B \in 0 .. (B - 1) /\ a = (a \div B) * B + (a % B)
  <1>1. a = (a \div B) * B + (a % B)
    BY SMT
  <1>2. a \div B \in Int
    BY SMT
  <1>3. a % B \in 0 .. (B - 1)
    BY SMT
  <1>. QED  BY <1>1, <1>2, <1>3

LEMMA ModUnique ==
    ASSUME NEW q \in Int, NEW r \in Nat, NEW B \in Nat \ {0}, r < B,
           q * B + r \in Nat
    PROVE  (q * B + r) % B = r
  BY SMT

LEMMA ModShift ==
    ASSUME NEW a \in Nat, NEW b \in Nat, NEW B \in Nat \ {0}, NEW k \in Int,
           a = k * B + b
    PROVE  a % B = b % B
  <1>1. PICK m \in Int : b = m * B + (b % B)
    BY DivMod
  <1>2. b % B \in Nat /\ b % B < B
    BY DivMod, SMT
  <1>. DEFINE r == b % B
  <1>. HIDE DEF r
  <1>3. r \in Nat /\ r < B /\ b = m * B + r
    BY <1>1, <1>2 DEF r
  <1>4. a = (k + m) * B + r
    BY <1>3, SMT
  <1>5. a % B = r
    BY <1>3, <1>4, ModUnique
  <1>. QED  BY <1>5 DEF r

LEMMA ModShifted ==
    \A B \in Nat \ {0}, u, v \in Nat, k \in Int :
        u = k * B + v => u % B = v % B
  BY ModShift

LEMMA ModAdd ==
    ASSUME NEW a \in Nat, NEW b \in Nat, NEW c \in Nat, NEW B \in Nat \ {0},
           a % B = b % B
    PROVE  (a + c) % B = (b + c) % B
  <1>5. \A u, v \in Nat, w \in Int : u = w * B + v => u % B = v % B
    BY ModShifted
  <1>. DEFINE r == a % B
  <1>1. PICK p \in Int : a = p * B + r
    BY DivMod
  <1>2. PICK q \in Int : b = q * B + r
    BY DivMod
  <1>3. r \in Nat
    BY DivMod
  <1>. DEFINE x == a + c
              y == b + c
              k == p - q
  <1>. HIDE DEF r
  <1>4. x \in Nat /\ y \in Nat /\ k \in Int /\ x = k * B + y
    BY <1>1, <1>2, <1>3, SMT
  <1>. HIDE DEF x, y, k
  <1>6. x % B = y % B
    BY <1>4, <1>5, Zenon
  <1>. QED  BY <1>6 DEF x, y

LEMMA ModAdded ==
    \A B \in Nat \ {0}, a, b, c \in Nat :
        a % B = b % B => (a + c) % B = (b + c) % B
  <1>. TAKE B \in Nat \ {0}, a, b, c \in Nat
  <1>. QED  BY ModAdd

LEMMA ModTake ==
    ASSUME NEW a \in Nat, NEW B \in Nat \ {0}, a >= B
    PROVE  a - B \in Nat /\ (a - B) % B = a % B
  <1>. DEFINE b == a - B
  <1>1. b \in Nat /\ a = 1 * B + b /\ 1 \in Int
    BY SMT
  <1>. HIDE DEF b
  <1>2. a % B = b % B
    BY <1>1, ModShift
  <1>. QED  BY <1>1, <1>2 DEF b

LEMMA ModWrap ==
    ASSUME NEW a \in Nat, NEW W \in Nat \ {0}, NEW B \in Nat \ {0}, W % B = 0
    PROVE  (a % W) % B = a % B
  <1>5. \A u, v \in Nat, x \in Int : u = x * B + v => u % B = v % B
    BY ModShifted
  <1>1. PICK w \in Int : W = w * B
    <2>1. W = (W \div B) * B + (W % B) /\ W \div B \in Int
      BY DivMod
    <2>2. W = (W \div B) * B
      BY <2>1
    <2>. QED  BY <2>1, <2>2
  <1>2. PICK k \in Int : a = k * W + (a % W)
    BY DivMod
  <1>. DEFINE r == a % W
  <1>3. r \in Nat /\ a = k * W + r
    BY <1>2, DivMod
  <1>. HIDE DEF r
  <1>. DEFINE m == k * w
  <1>4. a = m * B + r /\ m \in Int
    BY <1>1, <1>3, SMT
  <1>. HIDE DEF m
  <1>6. a % B = r % B
    BY <1>3, <1>4, <1>5, Zenon
  <1>. QED  BY <1>6 DEF r

-----------------------------------------------------------------------------
(* Sequences, whatever they are of *)

IsSeq(s) == \E S : s \in Seq(S)

LEMMA SeqLen ==
    ASSUME NEW s, IsSeq(s)
    PROVE  Len(s) \in Nat /\ DOMAIN s = 1 .. Len(s)
  BY DEF IsSeq

LEMMA ConcatIs ==
    ASSUME NEW s, NEW t, IsSeq(s), IsSeq(t)
    PROVE  IsSeq(s \o t) /\ Len(s \o t) = Len(s) + Len(t)
  <1>1. PICK S : s \in Seq(S)
    BY DEF IsSeq
  <1>2. PICK T : t \in Seq(T)
    BY DEF IsSeq
  <1>3. s \in Seq(S \cup T) /\ t \in Seq(S \cup T)
    BY <1>1, <1>2
  <1>4. s \o t \in Seq(S \cup T) /\ Len(s \o t) = Len(s) + Len(t)
    BY <1>3
  <1>. QED  BY <1>4 DEF IsSeq

LEMMA SeqIs ==
    ASSUME NEW s, IsSeq(s)
    PROVE  s = [i \in 1 .. Len(s) |-> s[i]]
  <1>1. PICK S : s \in Seq(S)
    BY DEF IsSeq
  <1>. QED  BY <1>1

LEMMA ConcatAt ==
    ASSUME NEW s, NEW t, IsSeq(s), IsSeq(t), NEW i \in 1 .. Len(s \o t)
    PROVE  (s \o t)[i] = IF i <= Len(s) THEN s[i] ELSE t[i - Len(s)]
  <1>1. PICK S : s \in Seq(S)
    BY DEF IsSeq
  <1>2. PICK T : t \in Seq(T)
    BY DEF IsSeq
  <1>3. s \in Seq(S \cup T) /\ t \in Seq(S \cup T)
    BY <1>1, <1>2
  <1>. QED  BY <1>3, ConcatProperties

LEMMA ConcatAssoc ==
    ASSUME NEW s, NEW t, NEW u, IsSeq(s), IsSeq(t), IsSeq(u)
    PROVE  (s \o t) \o u = s \o (t \o u)
  <1>1. PICK S : s \in Seq(S)
    BY DEF IsSeq
  <1>2. PICK T : t \in Seq(T)
    BY DEF IsSeq
  <1>3. PICK U : u \in Seq(U)
    BY DEF IsSeq
  <1>. DEFINE All == S \cup T \cup U
  <1>4. s \in Seq(All) /\ t \in Seq(All) /\ u \in Seq(All)
    BY <1>1, <1>2, <1>3
  <1>. HIDE DEF All
  <1>. QED  BY <1>4, ConcatAssociative

LEMMA EmptyIs ==
    /\ IsSeq(<<>>) /\ Len(<<>>) = 0
    /\ \A s : IsSeq(s) => s \o <<>> = s /\ <<>> \o s = s
    /\ \A s : IsSeq(s) /\ Len(s) = 0 => s = <<>>
  <1>1. <<>> \in Seq({}) /\ Len(<<>>) = 0
    OBVIOUS
  <1>2. ASSUME NEW s, IsSeq(s)
        PROVE  /\ s \o <<>> = s /\ <<>> \o s = s
               /\ Len(s) = 0 => s = <<>>
    <2>1. PICK S : s \in Seq(S)
      BY <1>2 DEF IsSeq
    <2>. QED  BY <2>1
  <1>. QED  BY <1>1, <1>2 DEF IsSeq

\* A sequence is its first n elements and the rest.
LEMMA CutIs ==
    ASSUME NEW s, IsSeq(s), NEW n \in 0 .. Len(s)
    PROVE  /\ IsSeq(First(s, n)) /\ Len(First(s, n)) = n
           /\ IsSeq(Rest(s, n)) /\ Len(Rest(s, n)) = Len(s) - n
           /\ First(s, n) \o Rest(s, n) = s
           /\ \A i \in 1 .. n : First(s, n)[i] = s[i]
  <1>1. PICK S : s \in Seq(S)
    BY DEF IsSeq
  <1>. DEFINE f == SubSeq(s, 1, n)
              r == SubSeq(s, n + 1, Len(s))
  <1>2. /\ Len(s) \in Nat /\ n \in Nat /\ n \in Int /\ n + 1 \in Int /\ 1 \in Int
        /\ Len(s) \in Int
        /\ \A i \in 1 .. n : s[i] \in S
        /\ \A i \in (n + 1) .. Len(s) : s[i] \in S
    BY <1>1
  <1>3. /\ f \in Seq(S) /\ Len(f) = IF 1 <= n THEN n - 1 + 1 ELSE 0
        /\ \A i \in 1 .. n - 1 + 1 : f[i] = s[1 + i - 1]
    BY <1>2, SubSeqProperties
  <1>4. /\ r \in Seq(S)
        /\ Len(r) = IF n + 1 <= Len(s) THEN Len(s) - (n + 1) + 1 ELSE 0
        /\ \A i \in 1 .. Len(s) - (n + 1) + 1 : r[i] = s[(n + 1) + i - 1]
    BY <1>2, SubSeqProperties
  <1>5. f = First(s, n) /\ r = Rest(s, n)
    BY DEF First, Rest
  <1>. HIDE DEF f, r
  <1>6. /\ f \in Seq(S) /\ Len(f) = n
        /\ \A i \in 1 .. n : f[i] = s[i]
    BY <1>2, <1>3, SMT
  <1>7. /\ r \in Seq(S) /\ Len(r) = Len(s) - n
        /\ \A i \in 1 .. (Len(s) - n) : r[i] = s[n + i]
    BY <1>2, <1>4, SMT
  <1>8. f \o r = s
    <2>1. /\ f \o r \in Seq(S) /\ Len(f \o r) = Len(s)
          /\ \A i \in 1 .. Len(s) :
               (f \o r)[i] = IF i <= n THEN f[i] ELSE r[i - n]
      BY <1>2, <1>6, <1>7, ConcatProperties
    <2>2. ASSUME NEW i \in 1 .. Len(s) PROVE (f \o r)[i] = s[i]
      <3>1. i <= n => i \in 1 .. n
        BY <1>2
      <3>2. ~(i <= n) => i - n \in 1 .. (Len(s) - n) /\ n + (i - n) = i
        BY <1>2
      <3>. QED  BY <2>1, <3>1, <3>2, <1>6, <1>7
    <2>. QED  BY <1>1, <2>1, <2>2, SeqEqual
  <1>. QED  BY <1>5, <1>6, <1>7, <1>8 DEF IsSeq

\* A sequence written by giving each element.
LEMMA TabulatedIs ==
    ASSUME NEW n \in Nat, NEW s, DOMAIN s = 1 .. n, s = [i \in 1 .. n |-> s[i]]
    PROVE  IsSeq(s) /\ Len(s) = n
  <1>. DEFINE S == {s[i] : i \in 1 .. n}
  <1>1. s \in [1 .. n -> S]
    OBVIOUS
  <1>. HIDE DEF S
  <1>2. s \in Seq(S) /\ Len(s) = n
    BY <1>1
  <1>. QED  BY <1>2 DEF IsSeq

\* What memcpy puts behind the part of the buffer in use.
LEMMA WrittenIs ==
    ASSUME IsSeq(buffer), Len(buffer) = BufferSize, BufferSize \in Nat,
           NEW n \in Nat, NEW s, IsSeq(s), n + Len(s) <= BufferSize
    PROVE  /\ IsSeq(Written(n, s)) /\ Len(Written(n, s)) = BufferSize
           /\ First(Written(n, s), n + Len(s)) = First(buffer, n) \o s
  <1>. DEFINE w == Written(n, s)
              m == n + Len(s)
              f == First(buffer, n)
              g == First(w, m)
  <1>1. IsSeq(w) /\ Len(w) = BufferSize
    <2>1. DOMAIN w = 1 .. BufferSize /\ w = [i \in 1 .. BufferSize |-> w[i]]
      BY DEF Written
    <2>. HIDE DEF w
    <2>. QED  BY <2>1, TabulatedIs
  <1>2. \A i \in 1 .. BufferSize :
          w[i] = IF i \in (n + 1) .. (n + Len(s)) THEN s[i - n] ELSE buffer[i]
    BY DEF Written
  <1>3. Len(s) \in Nat
    BY SeqLen
  <1>4. n \in 0 .. Len(buffer) /\ m \in 0 .. Len(w) /\ m \in Nat
    BY <1>1, <1>3
  <1>5. IsSeq(f) /\ Len(f) = n /\ \A i \in 1 .. n : f[i] = buffer[i]
    BY <1>4, CutIs
  <1>. HIDE DEF w
  <1>6. IsSeq(g) /\ Len(g) = m /\ \A i \in 1 .. m : g[i] = w[i]
    BY <1>1, <1>4, CutIs
  <1>. HIDE DEF f, g
  <1>7. g = f \o s
    <2>1. PICK F : f \in Seq(F)
      BY <1>5 DEF IsSeq
    <2>2. PICK G : g \in Seq(G)
      BY <1>6 DEF IsSeq
    <2>3. PICK S : s \in Seq(S)
      BY DEF IsSeq
    <2>. DEFINE All == F \cup G \cup S
    <2>4. f \in Seq(All) /\ g \in Seq(All) /\ s \in Seq(All)
      BY <2>1, <2>2, <2>3
    <2>. HIDE DEF All
    <2>5. /\ f \o s \in Seq(All) /\ Len(f \o s) = n + Len(s)
          /\ \A i \in 1 .. (n + Len(s)) :
               (f \o s)[i] = IF i <= n THEN f[i] ELSE s[i - n]
      BY <2>4, <1>5, ConcatProperties
    <2>6. ASSUME NEW i \in 1 .. m PROVE g[i] = (f \o s)[i]
      <3>1. i \in 1 .. BufferSize /\ i \in Int
        BY <1>3
      <3>2. CASE i <= n
        <4>1. i \in 1 .. n /\ i \notin (n + 1) .. (n + Len(s))
          BY <3>2, <1>3
        <4>. QED  BY <4>1, <3>1, <3>2, <1>2, <1>5, <1>6, <2>5
      <3>3. CASE ~(i <= n)
        <4>1. i \in (n + 1) .. (n + Len(s))
          BY <3>3, <1>3
        <4>. QED  BY <4>1, <3>1, <3>3, <1>2, <1>6, <2>5
      <3>. QED  BY <3>2, <3>3
    <2>. QED  BY <1>6, <2>4, <2>5, <2>6, SeqEqual
  <1>. QED  BY <1>1, <1>7 DEF w, f, g

-----------------------------------------------------------------------------
(* The inductive invariant *)

\* The part of the buffer in use.
used == IF stage \in {"fill", "blocks"} THEN left ELSE total[1] % BufferSize

Sequences ==
    /\ IsSeq(state) /\ IsSeq(buffer) /\ IsSeq(input) /\ IsSeq(msglen)
    /\ IsSeq(md_buf) /\ IsSeq(key) /\ IsSeq(fed)

\* Between the calls nothing is waiting, and in one of them total, which is
\* of the whole call already, says where in the buffer it will end.
InputAgrees ==
    /\ stage \notin {"fill", "blocks"} => input = <<>>
    /\ stage \in {"fill", "blocks"} =>
           total[1] % BufferSize = (left + Len(input)) % BufferSize
    /\ stage = "blocks" => left = 0 \/ left + Len(input) < BufferSize

KeyInv ==
    /\ KeyTypeOK
    /\ Sequences
    /\ InputAgrees
    /\ NothingSkipped

LEMMA Sizes ==
    /\ BufferSize \in Nat \ {0} /\ WordModulus \in Nat \ {0}
    /\ LengthSize \in Nat /\ LengthSize < BufferSize
    /\ DigestSize \in Nat \ {0} /\ KeyLen \in Nat /\ MaxPass \in Nat
    /\ WordModulus % BufferSize = 0
  BY Md5Assumption

LEMMA Numbers ==
    ASSUME KeyInv
    PROVE  /\ total[1] \in Nat /\ total[1] < WordModulus /\ total[2] \in Nat
           /\ total = <<total[1], total[2]>>
           /\ left \in 0 .. (BufferSize - 1) /\ passLen \in Nat
           /\ Len(input) \in Nat /\ Len(state) \in Nat /\ Len(key) \in Nat
           /\ total[1] % BufferSize \in 0 .. (BufferSize - 1)
  <1>1. /\ total[1] \in Nat /\ total[1] < WordModulus /\ total[2] \in Nat
        /\ total = <<total[1], total[2]>> /\ passLen \in Nat
        /\ left \in 0 .. (BufferSize - 1)
    BY Sizes DEF KeyInv, KeyTypeOK
  <1>2. Len(input) \in Nat /\ Len(state) \in Nat /\ Len(key) \in Nat
    BY SeqLen DEF KeyInv, Sequences
  <1>3. total[1] % BufferSize \in 0 .. (BufferSize - 1)
    BY <1>1, Sizes, DivMod
  <1>. QED  BY <1>1, <1>2, <1>3

LEMMA PassIs == passLen \in Nat => IsSeq(pass) /\ Len(pass) = passLen
  <1>. SUFFICES ASSUME passLen \in Nat PROVE IsSeq(pass) /\ Len(pass) = passLen
    OBVIOUS
  <1>1. DOMAIN pass = 1 .. passLen /\ pass = [i \in 1 .. passLen |-> pass[i]]
    BY DEF pass
  <1>. QED  BY <1>1, TabulatedIs

LEMMA StaleIs == ASSUME NEW n \in Nat PROVE IsSeq(Stale(n)) /\ Len(Stale(n)) = n
  <1>1. DOMAIN Stale(n) = 1 .. n /\ Stale(n) = [i \in 1 .. n |-> Stale(n)[i]]
    BY DEF Stale
  <1>. QED  BY <1>1, TabulatedIs

LEMMA PaddingIs ==
    ASSUME NEW n \in Nat
    PROVE  IsSeq(md5_padding(n)) /\ Len(md5_padding(n)) = n
  <1>. DEFINE p == md5_padding(n)
  <1>1. DOMAIN p = 1 .. n /\ p = [i \in 1 .. n |-> p[i]]
    BY DEF md5_padding
  <1>. HIDE DEF p
  <1>2. IsSeq(p) /\ Len(p) = n
    BY <1>1, TabulatedIs
  <1>. QED  BY <1>2 DEF p

LEMMA LengthIs ==
    ASSUME NEW l, NEW h
    PROVE  IsSeq(Length(l, h)) /\ Len(Length(l, h)) = LengthSize
  <1>. DEFINE p == Length(l, h)
  <1>1. DOMAIN p = 1 .. LengthSize /\ p = [i \in 1 .. LengthSize |-> p[i]]
    BY DEF Length
  <1>. HIDE DEF p
  <1>2. IsSeq(p) /\ Len(p) = LengthSize
    BY <1>1, TabulatedIs, Sizes
  <1>. QED  BY <1>2 DEF p

LEMMA DigestIs ==
    ASSUME NEW s
    PROVE  IsSeq(Digest(s)) /\ Len(Digest(s)) = DigestSize
  <1>. DEFINE p == Digest(s)
  <1>1. DOMAIN p = 1 .. DigestSize /\ p = [i \in 1 .. DigestSize |-> p[i]]
    BY DEF Digest
  <1>. HIDE DEF p
  <1>2. IsSeq(p) /\ Len(p) = DigestSize
    BY <1>1, TabulatedIs, Sizes
  <1>. QED  BY <1>2 DEF p

LEMMA FirstNone == ASSUME NEW s PROVE First(s, 0) = <<>>
  BY SubSeqEmpty DEF First

LEMMA KeyInitInv == KeyInit => KeyInv
  <1>. SUFFICES ASSUME KeyInit PROVE KeyInv
    OBVIOUS
  <1>1. /\ passLen \in 0 .. MaxPass /\ stage = "derive" /\ total = <<0, 0>>
        /\ state = <<>> /\ buffer = Stale(BufferSize) /\ input = <<>>
        /\ left = 0 /\ msglen = Stale(LengthSize) /\ md_buf = Stale(DigestSize)
        /\ key = <<>> /\ fed = <<>>
    BY DEF KeyInit
  <1>2. Sequences /\ Len(buffer) = BufferSize /\ Len(msglen) = LengthSize
        /\ Len(md_buf) = DigestSize /\ Len(state) = 0 /\ Len(key) = 0
    BY <1>1, StaleIs, EmptyIs, Sizes DEF Sequences
  <1>3. 0 % BufferSize = 0
    BY Sizes, SMT
  <1>4. KeyTypeOK
    BY <1>1, <1>2, <1>3, Sizes, SMT DEF KeyTypeOK
  <1>5. InputAgrees
    BY <1>1, SMT DEF InputAgrees
  <1>6. NothingSkipped
    <2>1. (IF stage \in {"fill", "blocks"} THEN left ELSE total[1] % BufferSize) = 0
      BY <1>1, <1>3
    <2>2. First(buffer, 0) = <<>>
      BY FirstNone
    <2>3. state \o <<>> \o input = fed
      BY <1>1, EmptyIs
    <2>. QED  BY <2>1, <2>2, <2>3, Zenon DEF NothingSkipped
  <1>. QED  BY <1>2, <1>4, <1>5, <1>6 DEF KeyInv

-----------------------------------------------------------------------------
(* md5_update *)

LEMMA UsedIs == NothingSkipped <=> state \o First(buffer, used) \o input = fed
  BY DEF NothingSkipped, used

LEMMA UpdateInv ==
    ASSUME KeyInv, stage = "calls", NEW data, IsSeq(data), md5_update(data)
    PROVE  KeyInv'
  <1>. DEFINE n == total[1] % BufferSize
  <1>1. UNCHANGED <<passLen, state, buffer, msglen, md_buf, key>>
        /\ fed' = fed \o data
    BY DEF md5_update
  <1>2. input = <<>> /\ used = n
    BY DEF KeyInv, InputAgrees, used
  <1>3. IsSeq(state) /\ IsSeq(buffer) /\ IsSeq(fed) /\ Len(buffer) = BufferSize
    BY DEF KeyInv, Sequences, KeyTypeOK
  <1>4. n \in 0 .. (BufferSize - 1) /\ n \in 0 .. Len(buffer)
    BY <1>3, Numbers, Sizes
  <1>. HIDE DEF n
  <1>5. IsSeq(First(buffer, n))
    BY <1>3, <1>4, CutIs
  <1>6. state \o First(buffer, n) = fed
    <2>1. IsSeq(state \o First(buffer, n))
      BY <1>3, <1>5, ConcatIs
    <2>2. state \o First(buffer, n) \o <<>> = fed
      BY <1>2, UsedIs DEF KeyInv
    <2>. QED  BY <2>1, <2>2, EmptyIs
  <1>7. CASE data = <<>>
    <2>1. UNCHANGED <<stage, total, input, left, fed>>
      BY <1>1, <1>3, <1>7, EmptyIs DEF md5_update
    <2>. QED
      BY <1>1, <2>1 DEF KeyInv, KeyTypeOK, Sequences, InputAgrees, NothingSkipped
  <1>8. CASE data # <<>>
    <2>1. stage' = "fill" /\ total' = Total(Len(data)) /\ input' = data /\ left' = n
      BY <1>8 DEF md5_update, n
    <2>2. Len(data) \in Nat /\ IsSeq(fed \o data)
      BY <1>3, SeqLen, ConcatIs
    <2>. DEFINE low == (total[1] + Len(data)) % WordModulus
    <2>3. /\ low \in 0 .. (WordModulus - 1)
          /\ low % BufferSize = (total[1] + Len(data)) % BufferSize
      <3>. DEFINE sum == total[1] + Len(data)
      <3>1. sum \in Nat
        BY <2>2, Numbers
      <3>. HIDE DEF sum
      <3>2. sum % WordModulus \in 0 .. (WordModulus - 1)
        BY <3>1, Sizes, DivMod
      <3>3. (sum % WordModulus) % BufferSize = sum % BufferSize
        BY <3>1, Sizes, ModWrap
      <3>. QED  BY <3>2, <3>3 DEF sum
    <2>4. total'[1] = low /\ total'[2] \in Nat /\ total' = <<total'[1], total'[2]>>
      BY <2>1, <2>2, Numbers DEF Total
    <2>5. (total[1] + Len(data)) % BufferSize = (n + Len(data)) % BufferSize
      <3>1. total[1] % BufferSize = n % BufferSize
        <4>1. n < BufferSize /\ n \in Nat
          BY <1>4, Sizes
        <4>2. n % BufferSize = n
          BY <4>1, Sizes, SMT
        <4>. QED  BY <4>2 DEF n
      <3>2. total[1] \in Nat /\ n \in Nat /\ Len(data) \in Nat
            /\ BufferSize \in Nat \ {0}
        BY <2>2, <1>4, Numbers, Sizes
      <3>. QED  BY <3>1, <3>2, ModAdded, Zenon
    <2>. HIDE DEF low
    <2>6. KeyTypeOK'
      BY <1>1, <1>4, <2>1, <2>3, <2>4, SMT DEF KeyInv, KeyTypeOK
    <2>7. Sequences'
      BY <1>1, <2>1, <2>2 DEF KeyInv, Sequences
    <2>8. InputAgrees'
      BY <2>1, <2>3, <2>4, <2>5 DEF InputAgrees, low
    <2>9. NothingSkipped'
      <3>1. NothingSkipped' <=>
              state' \o First(buffer', left') \o input' = fed'
        BY <2>1 DEF NothingSkipped
      <3>. QED  BY <3>1, <1>1, <1>6, <2>1
    <2>. QED  BY <2>6, <2>7, <2>8, <2>9 DEF KeyInv
  <1>. QED  BY <1>7, <1>8

\* What the three steps of md5_update leave alone.
LEMMA Rejoined ==
    ASSUME KeyInv, stage \in {"fill", "blocks"}
    PROVE  state \o First(buffer, left) \o input = fed
  BY DEF KeyInv, NothingSkipped

LEMMA FillInv == ASSUME KeyInv, Fill PROVE KeyInv'
  <1>. DEFINE fill == BufferSize - left
              part == First(input, fill)
              full == Written(left, part)
  <1>1. /\ stage = "fill" /\ stage' = "blocks"
        /\ UNCHANGED <<passLen, calls, total, msglen, md_buf, key, fed>>
        /\ \/ /\ left # 0 /\ Len(input) >= fill /\ buffer' = full
              /\ state' = state \o full /\ input' = Rest(input, fill)
              /\ left' = 0
           \/ /\ ~(left # 0 /\ Len(input) >= fill)
              /\ UNCHANGED <<buffer, state, input, left>>
    BY DEF Fill, md5_process
  <1>2. /\ IsSeq(state) /\ IsSeq(buffer) /\ IsSeq(input)
        /\ Len(buffer) = BufferSize
        /\ total[1] % BufferSize = (left + Len(input)) % BufferSize
    BY <1>1 DEF KeyInv, Sequences, KeyTypeOK, InputAgrees
  <1>3. left \in 0 .. (BufferSize - 1) /\ Len(input) \in Nat /\ fill \in Nat
    BY Numbers, Sizes
  <1>4. CASE left # 0 /\ Len(input) >= fill
    <2>1. /\ buffer' = full /\ state' = state \o full
          /\ input' = Rest(input, fill) /\ left' = 0
      BY <1>1, <1>4
    <2>2. /\ IsSeq(part) /\ Len(part) = fill
          /\ IsSeq(input') /\ Len(input') = Len(input) - fill
          /\ part \o input' = input
      <3>1. fill \in 0 .. Len(input)
        BY <1>3, <1>4
      <3>. HIDE DEF fill
      <3>2. /\ IsSeq(First(input, fill)) /\ Len(First(input, fill)) = fill
            /\ IsSeq(Rest(input, fill)) /\ Len(Rest(input, fill)) = Len(input) - fill
            /\ First(input, fill) \o Rest(input, fill) = input
        BY <1>2, <3>1, CutIs, Zenon
      <3>. QED  BY <2>1, <3>2
    <2>. HIDE DEF part
    <2>3. left + Len(part) = BufferSize /\ left \in Nat
      BY <2>2, <1>3, Sizes
    <2>4. /\ IsSeq(full) /\ Len(full) = BufferSize
          /\ First(full, left + Len(part)) = First(buffer, left) \o part
      BY <1>2, <2>2, <2>3, Sizes, WrittenIs
    <2>. HIDE DEF full
    <2>5. full = First(buffer, left) \o part
      <3>1. First(full, BufferSize) = full
        <4>1. PICK S : full \in Seq(S)
          BY <2>4 DEF IsSeq
        <4>. QED  BY <4>1, <2>4, SubSeqFull DEF First
      <3>. QED  BY <3>1, <2>3, <2>4
    <2>6. IsSeq(First(buffer, left))
      BY <1>2, <1>3, Sizes, CutIs
    <2>7. state' \o input' = fed
      <3>. DEFINE f == First(buffer, left)
      <3>. HIDE DEF f
      <3>1. IsSeq(f) /\ full = f \o part /\ state \o f \o input = fed
        BY <1>1, <2>5, <2>6, Rejoined DEF f
      <3>2. state' \o input' = (state \o (f \o part)) \o input'
        BY <2>1, <3>1
      <3>a. IsSeq(state) /\ IsSeq(f) /\ IsSeq(part)
        BY <1>2, <2>2, <3>1
      <3>3. (state \o f) \o part = state \o (f \o part)
        BY <3>a, ConcatAssoc
      <3>4. IsSeq(state \o f)
        BY <1>2, <3>1, ConcatIs
      <3>5. ((state \o f) \o part) \o input' = (state \o f) \o (part \o input')
        <4>1. IsSeq(state \o f) /\ IsSeq(part) /\ IsSeq(input')
          BY <2>2, <3>4
        <4>. DEFINE x == state \o f
        <4>. HIDE DEF x
        <4>2. (x \o part) \o input' = x \o (part \o input')
          BY <4>1, ConcatAssoc DEF x
        <4>. QED  BY <4>2 DEF x
      <3>. QED  BY <2>2, <3>1, <3>2, <3>3, <3>5
    <2>8. IsSeq(state') /\ Len(state') = Len(state) + BufferSize
      BY <1>2, <2>1, <2>4, ConcatIs
    <2>9. Len(state') % BufferSize = 0
      <3>1. Len(state) \in Nat /\ Len(state) % BufferSize = 0
        BY <1>2, SeqLen DEF KeyInv, KeyTypeOK
      <3>2. (Len(state) + BufferSize) - BufferSize = Len(state)
            /\ Len(state) + BufferSize \in Nat
            /\ Len(state) + BufferSize >= BufferSize
        BY <3>1, Sizes
      <3>. QED  BY <3>1, <3>2, <2>8, Sizes, ModTake
    <2>10. total'[1] % BufferSize = (left' + Len(input')) % BufferSize
      <3>. DEFINE x == left + Len(input)
      <3>1. /\ x \in Nat /\ x >= BufferSize
            /\ x - BufferSize = left' + Len(input')
        BY <1>3, <1>4, <2>1, <2>2, Sizes
      <3>. HIDE DEF x
      <3>2. (x - BufferSize) % BufferSize = x % BufferSize
        BY <3>1, Sizes, ModTake
      <3>. QED  BY <1>1, <1>2, <3>1, <3>2 DEF x
    <2>11. KeyTypeOK'
      BY <1>1, <2>1, <2>4, <2>9, Sizes, SMT DEF KeyInv, KeyTypeOK
    <2>12. Sequences'
      BY <1>1, <2>1, <2>2, <2>4, <2>8 DEF KeyInv, Sequences
    <2>13. InputAgrees'
      BY <1>1, <2>1, <2>10 DEF InputAgrees
    <2>14. NothingSkipped'
      <3>1. First(buffer', 0) = <<>>
        BY FirstNone
      <3>2. state' \o <<>> = state'
        BY <2>8, EmptyIs
      <3>3. NothingSkipped' <=>
              state' \o First(buffer', left') \o input' = fed'
        BY <1>1 DEF NothingSkipped
      <3>. QED  BY <3>1, <3>2, <3>3, <2>1, <2>7, <1>1
    <2>. QED  BY <2>11, <2>12, <2>13, <2>14 DEF KeyInv
  <1>5. CASE ~(left # 0 /\ Len(input) >= fill)
    <2>1. UNCHANGED <<buffer, state, input, left>>
      BY <1>1, <1>5
    <2>2. left = 0 \/ left + Len(input) < BufferSize
      BY <1>3, <1>5, Sizes
    <2>3. InputAgrees'
      BY <1>1, <1>2, <2>1, <2>2 DEF InputAgrees
    <2>4. NothingSkipped'
      BY <1>1, <2>1 DEF KeyInv, NothingSkipped
    <2>. QED
      BY <1>1, <2>1, <2>3, <2>4 DEF KeyInv, KeyTypeOK, Sequences
  <1>. QED  BY <1>4, <1>5

LEMMA ProcessBlockInv == ASSUME KeyInv, ProcessBlock PROVE KeyInv'
  <1>. DEFINE block == First(input, BufferSize)
  <1>1. /\ stage = "blocks" /\ stage' = "blocks" /\ Len(input) >= BufferSize
        /\ UNCHANGED <<passLen, calls, total, buffer, left, msglen, md_buf,
                       key, fed>>
        /\ state' = state \o block /\ input' = Rest(input, BufferSize)
    BY DEF ProcessBlock, md5_process
  <1>2. /\ IsSeq(state) /\ IsSeq(input)
        /\ total[1] % BufferSize = (left + Len(input)) % BufferSize
        /\ left = 0 \/ left + Len(input) < BufferSize
    BY <1>1 DEF KeyInv, Sequences, InputAgrees
  <1>3. left = 0 /\ Len(input) \in Nat
    <2>1. left \in Nat /\ Len(input) \in Nat /\ BufferSize \in Nat
      BY Numbers, Sizes
    <2>. QED  BY <1>1, <1>2, <2>1, SMT
  <1>4. /\ IsSeq(block) /\ Len(block) = BufferSize
        /\ IsSeq(input') /\ Len(input') = Len(input) - BufferSize
        /\ block \o input' = input
    <2>1. BufferSize \in 0 .. Len(input)
      BY <1>1, <1>3, Sizes
    <2>2. /\ IsSeq(First(input, BufferSize))
          /\ Len(First(input, BufferSize)) = BufferSize
          /\ IsSeq(Rest(input, BufferSize))
          /\ Len(Rest(input, BufferSize)) = Len(input) - BufferSize
          /\ First(input, BufferSize) \o Rest(input, BufferSize) = input
      BY <1>2, <2>1, CutIs, Zenon
    <2>. QED  BY <1>1, <2>2
  <1>. HIDE DEF block
  <1>5. IsSeq(state') /\ Len(state') = Len(state) + BufferSize
    BY <1>1, <1>2, <1>4, ConcatIs
  <1>6. Len(state') % BufferSize = 0
    <2>1. Len(state) \in Nat /\ Len(state) % BufferSize = 0
      BY <1>2, SeqLen DEF KeyInv, KeyTypeOK
    <2>2. (Len(state) + BufferSize) - BufferSize = Len(state)
          /\ Len(state) + BufferSize \in Nat
          /\ Len(state) + BufferSize >= BufferSize
      BY <2>1, Sizes
    <2>. QED  BY <2>1, <2>2, <1>5, Sizes, ModTake
  <1>7. total'[1] % BufferSize = (left' + Len(input')) % BufferSize
    <2>1. (Len(input) - BufferSize) % BufferSize = Len(input) % BufferSize
      BY <1>1, <1>3, Sizes, ModTake
    <2>2. left + Len(input) = Len(input) /\ left' + Len(input') = Len(input) - BufferSize
      BY <1>1, <1>3, <1>4, Sizes
    <2>. QED  BY <1>1, <1>2, <2>1, <2>2
  <1>8. KeyTypeOK'
    BY <1>1, <1>6, SMT DEF KeyInv, KeyTypeOK
  <1>9. Sequences'
    BY <1>1, <1>4, <1>5 DEF KeyInv, Sequences
  <1>10. InputAgrees'
    BY <1>1, <1>3, <1>7 DEF InputAgrees
  <1>11. NothingSkipped'
    <2>1. First(buffer, left) = <<>>
      BY <1>3, FirstNone
    <2>2. state \o input = fed
      <3>1. state \o First(buffer, left) \o input = fed
        BY <1>1, Rejoined
      <3>2. state \o <<>> = state
        BY <1>2, EmptyIs
      <3>. QED  BY <2>1, <3>1, <3>2
    <2>3. (state \o block) \o input' = state \o (block \o input')
      <3>1. IsSeq(state) /\ IsSeq(block) /\ IsSeq(input')
        BY <1>2, <1>4
      <3>. QED  BY <3>1, ConcatAssoc
    <2>4. state' \o <<>> = state'
      BY <1>5, EmptyIs
    <2>5. NothingSkipped' <=>
            state' \o First(buffer', left') \o input' = fed'
      BY <1>1 DEF NothingSkipped
    <2>. QED  BY <1>1, <1>4, <2>1, <2>2, <2>3, <2>4, <2>5
  <1>. QED  BY <1>8, <1>9, <1>10, <1>11 DEF KeyInv

LEMMA KeepRestInv == ASSUME KeyInv, KeepRest PROVE KeyInv'
  <1>. DEFINE w == Written(left, input)
              m == left + Len(input)
  <1>1. /\ stage = "blocks" /\ stage' = "calls" /\ Len(input) < BufferSize
        /\ buffer' = w /\ input' = <<>>
        /\ UNCHANGED <<passLen, calls, total, state, left, msglen, md_buf,
                       key, fed>>
    BY DEF KeepRest
  <1>2. /\ IsSeq(state) /\ IsSeq(input) /\ IsSeq(buffer)
        /\ Len(buffer) = BufferSize
        /\ total[1] % BufferSize = m % BufferSize
        /\ left = 0 \/ m < BufferSize
    BY <1>1 DEF KeyInv, Sequences, InputAgrees, KeyTypeOK
  <1>3. m \in Nat /\ m < BufferSize /\ left \in Nat
    <2>1. left \in Nat /\ Len(input) \in Nat /\ BufferSize \in Nat
      BY Numbers, Sizes
    <2>. QED  BY <1>1, <1>2, <2>1, SMT
  <1>4. /\ IsSeq(w) /\ Len(w) = BufferSize
        /\ First(w, m) = First(buffer, left) \o input
    BY <1>2, <1>3, Sizes, WrittenIs
  <1>. HIDE DEF w, m
  <1>5. total[1] % BufferSize = m
    <2>1. m % BufferSize = m
      BY <1>3, Sizes, SMT
    <2>. QED  BY <2>1, <1>2
  <1>6. KeyTypeOK'
    BY <1>1, <1>4, SMT DEF KeyInv, KeyTypeOK
  <1>7. Sequences'
    BY <1>1, <1>4, EmptyIs DEF KeyInv, Sequences
  <1>8. InputAgrees'
    BY <1>1 DEF InputAgrees
  <1>9. NothingSkipped'
    <2>. DEFINE f == First(buffer, left)
    <2>1. IsSeq(f)
      BY <1>2, Numbers, Sizes, CutIs
    <2>2. state \o f \o input = fed
      BY <1>1, Rejoined
    <2>. HIDE DEF f
    <2>3. (state \o f) \o input = state \o (f \o input)
      BY <1>2, <2>1, ConcatAssoc
    <2>4. IsSeq(f \o input)
      BY <1>2, <2>1, ConcatIs
    <2>5. IsSeq(state \o (f \o input))
      BY <1>2, <2>4, ConcatIs
    <2>6. state \o (f \o input) \o <<>> = fed
      BY <2>2, <2>3, <2>5, EmptyIs
    <2>7. NothingSkipped' <=>
            state' \o First(buffer', total'[1] % BufferSize) \o input' = fed'
      BY <1>1 DEF NothingSkipped
    <2>. QED  BY <1>1, <1>4, <1>5, <2>6, <2>7 DEF f
  <1>. QED  BY <1>6, <1>7, <1>8, <1>9 DEF KeyInv

-----------------------------------------------------------------------------
(* The calls *)

LEMMA StartsInv ==
    ASSUME KeyInv, stage = "derive", md5_starts, stage' = "calls",
           UNCHANGED <<passLen, msglen, md_buf, key, initv>>
    PROVE  KeyInv'
  <1>1. /\ total' = <<0, 0>> /\ state' = <<>> /\ fed' = <<>>
        /\ UNCHANGED <<buffer, input, left>> /\ input = <<>>
    BY DEF md5_starts, KeyInv, InputAgrees
  <1>2. 0 % BufferSize = 0 /\ 0 < WordModulus
    BY Sizes, SMT
  <1>3. Len(<<>>) = 0 /\ IsSeq(<<>>)
    BY EmptyIs
  <1>4. KeyTypeOK'
    BY <1>1, <1>2, <1>3, Sizes, SMT DEF KeyInv, KeyTypeOK
  <1>5. Sequences'
    BY <1>1, <1>3 DEF KeyInv, Sequences
  <1>6. InputAgrees'
    BY <1>1 DEF InputAgrees
  <1>7. NothingSkipped'
    <2>1. total'[1] % BufferSize = 0 /\ First(buffer', 0) = <<>>
      BY <1>1, <1>2, FirstNone
    <2>2. <<>> \o <<>> \o <<>> = <<>>
      BY <1>3, EmptyIs
    <2>3. NothingSkipped' <=>
            state' \o First(buffer', total'[1] % BufferSize) \o input' = fed'
      BY DEF NothingSkipped
    <2>. QED  BY <1>1, <2>1, <2>2, <2>3
  <1>. QED  BY <1>4, <1>5, <1>6, <1>7 DEF KeyInv

LEMMA FinishInv == ASSUME KeyInv, md5_finish PROVE KeyInv'
  <1>1. /\ msglen' = Length(Low, High)
        /\ UNCHANGED <<passLen, stage, total, state, buffer, input, left, fed,
                       md_buf, key>>
    BY DEF md5_finish, context
  <1>2. IsSeq(msglen') /\ Len(msglen') = LengthSize
    BY <1>1, LengthIs
  <1>. QED
    BY <1>1, <1>2 DEF KeyInv, KeyTypeOK, Sequences, InputAgrees, NothingSkipped

LEMMA OutputInv == ASSUME KeyInv, stage = "calls", Output PROVE KeyInv'
  <1>. DEFINE digest == Digest(state)
              room == KeyLen - Len(key)
              taken == First(digest, IF room < DigestSize THEN room ELSE DigestSize)
  <1>1. /\ UNCHANGED <<passLen, total, state, buffer, input, left, fed, msglen>>
        /\ md_buf' = digest /\ stage' \in {"derive", "done"}
        /\ \/ room > 0 /\ key' = key \o taken
           \/ UNCHANGED key
    BY DEF Output, context
  <1>2. IsSeq(digest) /\ Len(digest) = DigestSize
    BY DigestIs
  <1>3. IsSeq(key) /\ Len(key) \in 0 .. KeyLen /\ input = <<>>
    BY DEF KeyInv, Sequences, KeyTypeOK, InputAgrees
  <1>. HIDE DEF digest
  <1>4. room > 0 => IsSeq(taken) /\ Len(taken) <= room /\ Len(taken) \in Nat
    BY <1>2, <1>3, Sizes, CutIs
  <1>. HIDE DEF taken
  <1>5. IsSeq(key') /\ Len(key') \in 0 .. KeyLen
    <2>1. CASE room > 0 /\ key' = key \o taken
      <3>1. IsSeq(key') /\ Len(key') = Len(key) + Len(taken)
        BY <1>3, <1>4, <2>1, ConcatIs
      <3>. QED  BY <3>1, <1>3, <1>4, <2>1, Sizes
    <2>2. CASE UNCHANGED key
      BY <1>3, <2>2
    <2>. QED  BY <1>1, <2>1, <2>2
  <1>6. KeyTypeOK'
    BY <1>1, <1>2, <1>5 DEF KeyInv, KeyTypeOK
  <1>7. Sequences'
    BY <1>1, <1>2, <1>5 DEF KeyInv, Sequences
  <1>8. InputAgrees'
    BY <1>1, <1>3 DEF InputAgrees
  <1>9. NothingSkipped'
    BY <1>1 DEF KeyInv, NothingSkipped
  <1>. QED  BY <1>6, <1>7, <1>8, <1>9 DEF KeyInv

LEMMA NextCallInv == ASSUME KeyInv, NextCall PROVE KeyInv'
  <1>1. stage = "calls"
    BY DEF NextCall
  <1>2. CASE md5_update(md_buf) \/ md5_update(msglen)
    BY <1>1, <1>2, UpdateInv DEF KeyInv, Sequences
  <1>3. CASE md5_update(pass)
    BY <1>1, <1>3, UpdateInv, PassIs, Numbers
  <1>4. CASE md5_update(md5_padding(Padn(total[1] % BufferSize)))
    <2>. DEFINE n == Padn(total[1] % BufferSize)
    <2>1. n \in Nat
      <3>. DEFINE last == total[1] % BufferSize
      <3>1. last \in 0 .. (BufferSize - 1)
        BY Numbers
      <3>. HIDE DEF last
      <3>2. Padn(last) \in Nat
        BY <3>1, Sizes, SMT DEF Padn
      <3>. QED  BY <3>2 DEF last
    <2>. HIDE DEF n
    <2>2. IsSeq(md5_padding(n))
      BY <2>1, PaddingIs
    <2>. QED  BY <1>1, <1>4, <2>2, UpdateInv DEF n
  <1>5. CASE md5_finish
    BY <1>5, FinishInv
  <1>6. CASE Output
    BY <1>1, <1>6, OutputInv
  <1>. QED  BY <1>2, <1>3, <1>4, <1>5, <1>6 DEF NextCall

LEMMA KeyStepInv == ASSUME KeyInv, [KeyNext]_keyVars PROVE KeyInv'
  <1>1. CASE DeriveRound \/ DeriveIv
    BY <1>1, StartsInv DEF DeriveRound, DeriveIv
  <1>2. CASE NextCall
    BY <1>2, NextCallInv
  <1>3. CASE Fill \/ ProcessBlock \/ KeepRest
    BY <1>3, FillInv, ProcessBlockInv, KeepRestInv
  <1>4. CASE UNCHANGED keyVars
    BY <1>4 DEF keyVars, KeyInv, KeyTypeOK, Sequences, InputAgrees, NothingSkipped
  <1>. QED  BY <1>1, <1>2, <1>3, <1>4 DEF KeyNext

LEMMA KeyInvariant == KeySpec => []KeyInv
  BY KeyInitInv, KeyStepInv, PTL DEF KeySpec

-----------------------------------------------------------------------------
(* What MD5 pads a message to *)

LEMMA DivUnique ==
    ASSUME NEW q \in Int, NEW r \in Nat, NEW B \in Nat \ {0}, r < B
    PROVE  (q * B + r) \div B = q
  BY SMT

LEMMA DivModIs ==
    \A u \in Nat, q \in Int, r \in Nat, B \in Nat \ {0} :
        u = q * B + r /\ r < B => u \div B = q /\ u % B = r
  BY DivUnique, ModUnique

\* The padding md5_finish chooses is the one that fits, from 1 to a block.
LEMMA RoomIs ==
    ASSUME NEW n \in Nat
    PROVE  /\ Padn(n % BufferSize) \in 1 .. BufferSize
           /\ (n + Padn(n % BufferSize) + LengthSize) % BufferSize = 0
           /\ \A x \in 1 .. BufferSize :
                (n + x + LengthSize) % BufferSize = 0 => x = Padn(n % BufferSize)
  <1>. DEFINE B == BufferSize
              l == n % B
              p == Padn(l)
  <1>1. PICK q \in Int : n = q * B + l
    BY Sizes, DivMod
  <1>2. l \in 0 .. (B - 1) /\ B \in Nat \ {0} /\ LengthSize \in Nat /\ LengthSize < B
    BY Sizes, DivMod
  <1>. HIDE DEF l
  <1>3. /\ p \in 1 .. B
        /\ l + p + LengthSize = B \/ l + p + LengthSize = 2 * B
    BY <1>2, SMT, Sizes DEF Padn
  <1>. HIDE DEF p, B
  <1>4. PICK k \in Int : n + p + LengthSize = k * B
    <2>1. CASE l + p + LengthSize = B
      <3>1. n + p + LengthSize = (q + 1) * B
        BY ONLY <1>1, <1>2, <1>3, <2>1
      <3>. QED  BY <3>1
    <2>2. CASE l + p + LengthSize = 2 * B
      <3>1. n + p + LengthSize = (q + 2) * B
        BY ONLY <1>1, <1>2, <1>3, <2>2
      <3>. QED  BY <3>1
    <2>. QED  BY <1>3, <2>1, <2>2
  <1>5. n + p + LengthSize \in Nat
    BY <1>2, <1>3
  <1>6. (n + p + LengthSize) % B = 0
    <2>. DEFINE y == n + p + LengthSize
    <2>1. y \in Nat /\ y = k * B + 0
      BY <1>2, <1>4, <1>5
    <2>. HIDE DEF y
    <2>2. y % B = 0 % B
      BY <1>2, <2>1, ModShifted
    <2>3. 0 % B = 0
      BY <1>2, SMT
    <2>. QED  BY <2>2, <2>3 DEF y
  <1>7. ASSUME NEW x \in 1 .. B, (n + x + LengthSize) % B = 0
        PROVE  x = p
    <2>. DEFINE y == n + x + LengthSize
    <2>1. y \in Nat
      BY <1>2
    <2>. HIDE DEF y
    <2>2. PICK j \in Int : y = j * B + (y % B)
      BY <1>2, <2>1, DivMod
    <2>3. y = j * B
      BY <1>2, <1>7, <2>2 DEF y
    <2>4. x - p = (j - k) * B
      BY ONLY <1>2, <1>3, <1>4, <2>3 DEF y
    <2>. DEFINE d == j - k
    <2>5. d \in Int /\ x - p = d * B
      BY <2>4
    <2>. HIDE DEF d
    <2>6. d = 0
      BY ONLY <1>2, <1>3, <2>5, SMT
    <2>. QED  BY ONLY <1>2, <1>3, <2>5, <2>6
  <1>. QED  BY <1>3, <1>6, <1>7 DEF p, l, B

Filled(m) == m \o md5_padding(Padn(Len(m) % BufferSize))

Bits(m) == LET bits == 8 * Len(m)
           IN  Length(bits % WordModulus, (bits \div WordModulus) % WordModulus)

LEMMA PaddedIs ==
    ASSUME NEW m, IsSeq(m)
    PROVE  /\ Padded(m) = Filled(m) \o Bits(m)
           /\ IsSeq(Filled(m)) /\ IsSeq(Bits(m)) /\ IsSeq(Padded(m))
           /\ Len(Padded(m)) % BufferSize = 0
  <1>. DEFINE n == Len(m)
              p == Padn(n % BufferSize)
  <1>1. n \in Nat
    BY SeqLen
  <1>2. /\ p \in 1 .. BufferSize /\ (n + p + LengthSize) % BufferSize = 0
        /\ \A x \in 1 .. BufferSize : (n + x + LengthSize) % BufferSize = 0 => x = p
    BY <1>1, RoomIs
  <1>. HIDE DEF p
  <1>3. (CHOOSE x \in 1 .. BufferSize : (n + x + LengthSize) % BufferSize = 0) = p
    BY <1>2
  <1>4. IsSeq(md5_padding(p)) /\ Len(md5_padding(p)) = p
    BY <1>2, PaddingIs
  <1>5. IsSeq(Filled(m)) /\ Len(Filled(m)) = n + p
    BY <1>4, ConcatIs DEF Filled, p
  <1>6. IsSeq(Bits(m)) /\ Len(Bits(m)) = LengthSize
    BY LengthIs DEF Bits
  <1>7. Padded(m) = Filled(m) \o Bits(m)
    BY <1>3 DEF Padded, Filled, Bits, p
  <1>8. IsSeq(Padded(m)) /\ Len(Padded(m)) = n + p + LengthSize
    BY <1>5, <1>6, <1>7, ConcatIs
  <1>. QED  BY <1>2, <1>5, <1>6, <1>7, <1>8

\* The two words of total, three places up, are the length in bits.
LEMMA BitsAre ==
    ASSUME KeyInv, Len(fed) = total[1] + total[2] * WordModulus
    PROVE  Length(Low, High) = Bits(fed)
  <1>. DEFINE W == WordModulus
              w == W \div 8
              t == total[1]
              u == total[2]
  <1>1. W \in Nat \ {0} /\ t \in Nat /\ u \in Nat
    BY Numbers, Sizes
  <1>2. w \in Nat \ {0} /\ W = 8 * w
    BY Md5Assumption, SMT
  <1>. HIDE DEF w, W, t, u
  <1>. DEFINE q == t \div w
              r == t % w
  <1>3. q \in Int /\ r \in 0 .. (w - 1) /\ t = q * w + r
    BY <1>1, <1>2, DivMod
  <1>. HIDE DEF q, r
  <1>. DEFINE b == t * 8
              c == 8 * (t + u * W)
  <1>4. b \in Nat /\ c \in Nat /\ c = (8 * u) * W + b /\ 8 * u \in Int
    BY <1>1
  <1>5. c % W = b % W
    BY <1>1, <1>4, ModShifted
  <1>6. c = (q + u * 8) * W + 8 * r /\ 8 * r \in Nat /\ 8 * r < W
    BY <1>1, <1>2, <1>3
  <1>. HIDE DEF b, c
  <1>7. c \div W = q + u * 8
    <2>. DEFINE e == q + u * 8
                s == 8 * r
    <2>1. e \in Int /\ s \in Nat /\ s < W /\ c = e * W + s
      BY <1>1, <1>3, <1>6
    <2>. HIDE DEF e, s
    <2>2. c \div W = e
      BY <1>1, <2>1, DivUnique
    <2>. QED  BY <2>2 DEF e
  <1>8. Low = b % W /\ High = (q + u * 8) % W
    BY DEF Low, High, b, q, w, W, t, u
  <1>9. Bits(fed) = Length(c % W, (c \div W) % W)
    BY DEF Bits, c, W, t, u
  <1>. QED  BY <1>5, <1>7, <1>8, <1>9

-----------------------------------------------------------------------------
(* The rounds of the derivation *)

\* A set of numbers that is not empty has a least one.
LEMMA Least ==
    ASSUME NEW S \in SUBSET Nat, S # {}
    PROVE  \E x \in S : \A y \in S : x <= y
  <1>. DEFINE R == {ss \in Nat \X Nat : ss[1] < ss[2]}
  <1>1. IsWellFoundedOn(R, Nat)
    BY NatLessThanWellFounded DEF OpToRel
  <1>2. PICK x \in S : \A y \in S : <<y, x>> \notin R
    BY <1>1, WFMin
  <1>3. \A y \in S : y < x => <<y, x>> \in R
    OBVIOUS
  <1>. HIDE DEF R
  <1>4. x \in S /\ x \in Nat /\ S \subseteq Nat /\ \A y \in S : ~(y < x)
    BY <1>2, <1>3
  <1>. QED  BY <1>4

\* The digest of a round, of password p after the digest d before it.
Step(p, r, d) == Digest(Padded(IF r = 0 THEN p ELSE d \o p))

\* f is the rounds up to n, and all of them.
Upto(p, n, f) == f = [r \in 0 .. n |-> Step(p, r, f[r - 1])]
Rounds(p, f)  == f = [r \in Nat |-> Step(p, r, f[r - 1])]

LEMMA UptoIs ==
    ASSUME NEW p, NEW n \in Nat, NEW f, Upto(p, n, f)
    PROVE  \A r \in 0 .. n : f[r] = Step(p, r, f[r - 1])
  BY DEF Upto

LEMMA RoundsAgree ==
    ASSUME NEW p, NEW m \in Nat, NEW n \in Nat, m <= n,
           NEW f, Upto(p, m, f), NEW g, Upto(p, n, g)
    PROVE  f[m] = g[m]
  <1>. DEFINE S == {r \in 0 .. m : f[r] # g[r]}
  <1>1. SUFFICES ASSUME S # {} PROVE FALSE
    OBVIOUS
  <1>2. PICK x \in S : \A y \in S : x <= y
    <2>1. S \in SUBSET Nat
      OBVIOUS
    <2>. HIDE DEF S
    <2>. QED  BY <1>1, <2>1, Least
  <1>3. x \in 0 .. m /\ x \in 0 .. n /\ f[x] # g[x]
    OBVIOUS
  <1>4. f[x] = Step(p, x, f[x - 1]) /\ g[x] = Step(p, x, g[x - 1])
    BY <1>3, UptoIs
  <1>5. CASE x = 0
    BY <1>3, <1>4, <1>5 DEF Step
  <1>6. CASE x # 0
    <2>1. x - 1 \in 0 .. m /\ x - 1 \notin S
      BY <1>2, <1>3, <1>6
    <2>2. f[x - 1] = g[x - 1]
      BY <2>1
    <2>. QED  BY <1>3, <1>4, <2>2
  <1>. QED  BY <1>5, <1>6

LEMMA UptoExists ==
    ASSUME NEW p
    PROVE  \A n \in Nat : \E f : Upto(p, n, f)
  <1>. DEFINE S == {n \in Nat : ~\E f : Upto(p, n, f)}
  <1>1. SUFFICES ASSUME S # {} PROVE FALSE
    OBVIOUS
  <1>2. PICK x \in S : \A y \in S : x <= y
    <2>1. S \in SUBSET Nat
      OBVIOUS
    <2>. HIDE DEF S
    <2>. QED  BY <1>1, <2>1, Least
  <1>3. x \in Nat /\ ~\E f : Upto(p, x, f)
    OBVIOUS
  <1>4. CASE x = 0
    <2>. DEFINE f == [r \in 0 .. 0 |-> Digest(Padded(p))]
    <2>1. \A r \in 0 .. 0 : r = 0
      OBVIOUS
    <2>2. Upto(p, 0, f)
      BY <2>1 DEF Upto, Step
    <2>. HIDE DEF f
    <2>. QED  BY <1>3, <1>4, <2>2
  <1>5. CASE x # 0
    <2>1. x - 1 \in Nat /\ x - 1 \notin S
      BY <1>2, <1>3, <1>5
    <2>2. PICK f : Upto(p, x - 1, f)
      BY <2>1
    <2>. DEFINE g == [r \in 0 .. x |-> IF r = x THEN Step(p, x, f[x - 1]) ELSE f[r]]
    <2>3. \A r \in 0 .. (x - 1) : f[r] = Step(p, r, f[r - 1])
      BY <2>1, <2>2, UptoIs
    <2>4. \A r \in 0 .. x : g[r] = Step(p, r, g[r - 1])
      <3>1. g[x] = Step(p, x, f[x - 1]) /\ g[x - 1] = f[x - 1]
        BY <1>3, <1>5
      <3>2. ASSUME NEW r \in 0 .. (x - 1) PROVE g[r] = Step(p, r, g[r - 1])
        <4>1. g[r] = f[r]
          BY <1>3, <3>2
        <4>2. f[r] = Step(p, r, f[r - 1])
          BY <2>3
        <4>3. r # 0 => g[r - 1] = f[r - 1]
          BY <1>3, <3>2
        <4>4. CASE r = 0
          BY <4>1, <4>2, <4>4 DEF Step
        <4>5. CASE r # 0
          BY <4>1, <4>2, <4>3, <4>5
        <4>. QED  BY <4>4, <4>5
      <3>3. \A r \in 0 .. x : r = x \/ r \in 0 .. (x - 1)
        BY <1>3
      <3>. HIDE DEF g
      <3>. QED  BY <3>1, <3>2, <3>3
    <2>5. g = [r \in 0 .. x |-> g[r]]
      OBVIOUS
    <2>. HIDE DEF g
    <2>6. Upto(p, x, g)
      BY <2>4, <2>5 DEF Upto
    <2>. QED  BY <1>3, <2>6
  <1>. QED  BY <1>4, <1>5

\* The recursion of Round has a solution, which Round is.
LEMMA RoundIs ==
    /\ Round[0] = Digest(Padded(pass))
    /\ \A r \in Nat : Round[r + 1] = Digest(Padded(Round[r] \o pass))
  <1>. DEFINE c(n) == CHOOSE f : Upto(pass, n, f)
              F == [n \in Nat |-> c(n)[n]]
  <1>1. \A n \in Nat : Upto(pass, n, c(n))
    BY UptoExists
  <1>2. ASSUME NEW n \in Nat PROVE F[n] = Step(pass, n, F[n - 1])
    <2>1. F[n] = c(n)[n] /\ c(n)[n] = Step(pass, n, c(n)[n - 1])
      <3>1. Upto(pass, n, c(n)) /\ n \in 0 .. n /\ F[n] = c(n)[n]
        BY <1>1
      <3>. HIDE DEF c, F
      <3>. QED  BY <3>1, UptoIs
    <2>2. CASE n = 0
      <3>. HIDE DEF c, F
      <3>. QED  BY <2>1, <2>2 DEF Step
    <2>3. CASE n # 0
      <3>. DEFINE m == n - 1
      <3>1. m \in Nat /\ m <= n
        BY <2>3
      <3>. HIDE DEF m
      <3>2. Upto(pass, m, c(m)) /\ Upto(pass, n, c(n)) /\ F[m] = c(m)[m]
        BY <1>1, <3>1
      <3>. HIDE DEF c, F
      <3>3. c(m)[m] = c(n)[m]
        BY <3>1, <3>2, RoundsAgree
      <3>. QED  BY <2>1, <3>2, <3>3 DEF m
    <2>. QED  BY <2>2, <2>3
  <1>3. Rounds(pass, F)
    <2>1. F = [n \in Nat |-> F[n]]
      OBVIOUS
    <2>. HIDE DEF F
    <2>. QED  BY <1>2, <2>1 DEF Rounds
  <1>. HIDE DEF F
  <1>4. Round = CHOOSE f : Rounds(pass, f)
    BY DEF Round, Rounds, Step
  <1>5. Rounds(pass, Round)
    BY <1>3, <1>4
  <1>6. \A r \in Nat : Round[r] = Step(pass, r, Round[r - 1])
    BY <1>5 DEF Rounds
  <1>7. Round[0] = Step(pass, 0, Round[0 - 1])
    BY <1>6
  <1>8. ASSUME NEW r \in Nat PROVE Round[r + 1] = Digest(Padded(Round[r] \o pass))
    <2>1. r + 1 \in Nat /\ r + 1 # 0 /\ (r + 1) - 1 = r
      OBVIOUS
    <2>2. Round[r + 1] = Step(pass, r + 1, Round[(r + 1) - 1])
      BY <1>6, <2>1
    <2>. QED  BY <2>1, <2>2 DEF Step
  <1>. QED  BY <1>7, <1>8 DEF Step

LEMMA RoundKept == ASSUME passLen' = passLen PROVE Round' = Round /\ pass' = pass
  BY DEF Round, pass

-----------------------------------------------------------------------------
(* The key is what the rounds give *)

\* The message the digest under way is to be of.
Message == IF key # <<>> /\ Len(key) < KeyLen THEN md_buf \o pass ELSE pass

\* What md5_update has been given, by the calls still to come.
FedSoFar ==
    \/ calls = <<"md_buf", "pass", "finish">> /\ fed = <<>> /\ Message = md_buf \o pass
    \/ calls = <<"pass", "finish">> /\ fed \o pass = Message
    \/ calls = <<"finish">> /\ fed = Message
    \/ calls = <<"padding", "msglen", "output">> /\ fed = Message /\ msglen = Bits(Message)
    \/ calls = <<"msglen", "output">> /\ fed = Filled(Message) /\ msglen = Bits(Message)
    \/ calls = <<"output">> /\ fed = Padded(Message)

KeyByte(i) == Round[(i - 1) \div DigestSize][((i - 1) % DigestSize) + 1]

\* Whole rounds are in the key until it is full, and the latest is in md_buf.
RoundsDone ==
    Len(key) < KeyLen =>
        \E r \in Nat : /\ Len(key) = r * DigestSize
                       /\ r # 0 => md_buf = Round[r - 1]

DerivedInv ==
    /\ Len(fed) = total[1] + total[2] * WordModulus
    /\ key = [i \in 1 .. Len(key) |-> KeyByte(i)]
    /\ RoundsDone
    /\ stage \in {"calls", "fill", "blocks"} => FedSoFar
    /\ stage = "done" => Len(key) = KeyLen /\ initv = Round[0]

LEMMA MessageIs ==
    ASSUME KeyInv
    PROVE  IsSeq(pass) /\ Len(pass) = passLen /\ IsSeq(Message)
  <1>1. IsSeq(pass) /\ Len(pass) = passLen /\ IsSeq(md_buf)
    BY Numbers, PassIs DEF KeyInv, Sequences
  <1>. QED  BY <1>1, ConcatIs DEF Message

LEMMA DerivedInit == KeyInit => DerivedInv
  <1>. SUFFICES ASSUME KeyInit PROVE DerivedInv
    OBVIOUS
  <1>1. stage = "derive" /\ total = <<0, 0>> /\ key = <<>> /\ fed = <<>>
    BY DEF KeyInit
  <1>2. Len(fed) = 0 /\ Len(key) = 0
    BY <1>1, EmptyIs
  <1>3. Len(fed) = total[1] + total[2] * WordModulus
    BY <1>1, <1>2, Sizes
  <1>4. key = [i \in 1 .. 0 |-> KeyByte(i)]
    <2>1. 1 .. 0 = {}
      OBVIOUS
    <2>. QED  BY <1>1, <2>1
  <1>5. RoundsDone
    BY <1>2, Sizes DEF RoundsDone
  <1>. QED  BY <1>1, <1>2, <1>3, <1>4, <1>5 DEF DerivedInv

\* Inside md5_update nothing of it changes.
LEMMA DerivedKept ==
    ASSUME DerivedInv,
           UNCHANGED <<passLen, calls, total, fed, md_buf, msglen, key, initv>>,
           \/ stage' = stage
           \/ stage \in {"fill", "blocks"} /\ stage' \in {"blocks", "calls"}
    PROVE  DerivedInv'
  <1>1. Round' = Round /\ pass' = pass
    BY RoundKept
  <1>2. Message' = Message
    BY <1>1 DEF Message
  <1>3. FedSoFar' <=> FedSoFar
    BY <1>1, <1>2 DEF FedSoFar, Filled, Bits, Padded, Padn
  <1>4. RoundsDone' <=> RoundsDone
    BY <1>1 DEF RoundsDone
  <1>5. (key = [i \in 1 .. Len(key) |-> KeyByte(i)])'
    BY <1>1 DEF DerivedInv, KeyByte
  <1>. QED  BY <1>1, <1>3, <1>4, <1>5 DEF DerivedInv

\* A digest begins.
LEMMA DerivedStarts ==
    ASSUME KeyInv, DerivedInv, DeriveRound \/ DeriveIv
    PROVE  DerivedInv'
  <1>1. /\ UNCHANGED <<passLen, md_buf, key>> /\ stage' = "calls" /\ fed' = <<>>
        /\ total' = <<0, 0>>
    BY DEF DeriveRound, DeriveIv, md5_starts
  <1>2. Round' = Round /\ pass' = pass /\ Message' = Message
    BY <1>1, RoundKept DEF Message
  <1>3. FedSoFar'
    <2>1. <<>> \o pass = pass
      BY MessageIs, EmptyIs
    <2>2. CASE DeriveRound /\ key # <<>>
      <3>1. calls' = <<"md_buf", "pass", "finish">> /\ Message = md_buf \o pass
        BY <2>2 DEF DeriveRound, Message
      <3>. QED  BY <1>1, <1>2, <3>1 DEF FedSoFar
    <2>3. CASE DeriveIv \/ key = <<>>
      <3>1. calls' = <<"pass", "finish">> /\ Message = pass
        BY <2>3, Numbers, Sizes DEF DeriveRound, DeriveIv, Message
      <3>. QED  BY <1>1, <1>2, <2>1, <3>1 DEF FedSoFar
    <2>. QED  BY <2>2, <2>3
  <1>4. (Len(fed) = total[1] + total[2] * WordModulus)'
    BY <1>1, EmptyIs, Sizes
  <1>5. RoundsDone' /\ (key = [i \in 1 .. Len(key) |-> KeyByte(i)])'
    BY <1>1, <1>2 DEF DerivedInv, RoundsDone, KeyByte
  <1>. QED  BY <1>1, <1>3, <1>4, <1>5 DEF DerivedInv

LEMMA DerivedUpdate ==
    ASSUME KeyInv, DerivedInv, stage = "calls",
           NEW data, IsSeq(data), Len(data) <= WordModulus, md5_update(data),
           FedSoFar'
    PROVE  DerivedInv'
  <1>1. /\ UNCHANGED <<passLen, md_buf, key>> /\ stage' \in {"calls", "fill"}
        /\ fed' = fed \o data
    BY DEF md5_update
  <1>2. Round' = Round
    BY <1>1, RoundKept
  <1>3. (Len(fed) = total[1] + total[2] * WordModulus)'
    <2>. DEFINE n == Len(data)
                t == total[1]
                u == total[2]
                W == WordModulus
    <2>1. /\ n \in Nat /\ Len(fed') = t + u * W + n /\ n <= W
          /\ t \in Nat /\ t < W /\ u \in Nat /\ W \in Nat \ {0}
      BY <1>1, SeqLen, ConcatIs, Numbers, Sizes DEF DerivedInv, KeyInv, Sequences
    <2>2. CASE data = <<>>
      BY <1>1, <2>1, <2>2, EmptyIs DEF md5_update
    <2>3. CASE data # <<>>
      <3>. DEFINE low == (t + n) % W
      <3>1. total' = <<low, IF low < n THEN u + 1 ELSE u>>
        BY <2>3 DEF md5_update, Total
      <3>2. n # 0
        BY <2>1, <2>3, EmptyIs
      <3>. HIDE DEF n, t, u, W
      <3>3. CASE t + n < W
        <4>1. low = t + n
          BY <2>1, <3>3, SMT
        <4>. QED  BY <2>1, <3>1, <4>1 DEF W
      <3>4. CASE t + n >= W
        <4>. DEFINE a == t + n - W
        <4>1. a \in Nat /\ a < W /\ t + n = 1 * W + a /\ a < n
          BY <2>1, <3>4
        <4>2. low = a
          <5>. HIDE DEF a
          <5>1. (1 * W + a) % W = a
            BY <2>1, <4>1, ModUnique
          <5>. QED  BY <4>1, <5>1
        <4>3. total' = <<a, u + 1>>
          BY <3>1, <4>1, <4>2
        <4>. QED  BY <2>1, <4>1, <4>3 DEF W
      <3>. QED  BY <2>1, <3>3, <3>4
    <2>. QED  BY <2>2, <2>3
  <1>4. RoundsDone' /\ (key = [i \in 1 .. Len(key) |-> KeyByte(i)])'
    BY <1>1, <1>2 DEF DerivedInv, RoundsDone, KeyByte
  <1>. QED  BY <1>1, <1>3, <1>4 DEF DerivedInv

\* All that was fed is counted, up to whole words of total and so whole blocks.
LEMMA FedModulus ==
    ASSUME KeyInv, DerivedInv
    PROVE  Len(fed) % BufferSize = total[1] % BufferSize
  <1>. DEFINE t == total[1]
  <1>1. /\ t \in Nat /\ total[2] \in Nat /\ WordModulus \in Nat /\ Len(fed) \in Nat
        /\ BufferSize \in Nat \ {0}
    BY Numbers, Sizes, SeqLen DEF KeyInv, Sequences
  <1>2. PICK k \in Int : WordModulus = k * BufferSize
    <2>1. /\ WordModulus = (WordModulus \div BufferSize) * BufferSize
                           + (WordModulus % BufferSize)
          /\ WordModulus \div BufferSize \in Int
      BY Sizes, DivMod
    <2>2. WordModulus = (WordModulus \div BufferSize) * BufferSize
      BY <2>1, Sizes
    <2>. QED  BY <2>1, <2>2
  <1>3. Len(fed) = t + total[2] * WordModulus
    BY DEF DerivedInv
  <1>. HIDE DEF t
  <1>. DEFINE j == total[2] * k
              n == Len(fed)
  <1>4. j \in Int /\ n = j * BufferSize + t /\ n \in Nat
    BY <1>1, <1>2, <1>3
  <1>. HIDE DEF j, n
  <1>5. n % BufferSize = t % BufferSize
    BY <1>1, <1>4, ModShifted
  <1>. QED  BY <1>5 DEF n, t

\* Between the calls all of fed has gone through the buffer, and what is there
\* is its last, incomplete, block.
LEMMA StateIsFed ==
    ASSUME KeyInv, DerivedInv, stage = "calls", Len(fed) % BufferSize = 0
    PROVE  state = fed
  <1>1. total[1] % BufferSize = 0
    BY FedModulus
  <1>2. input = <<>> /\ used = 0 /\ IsSeq(state)
    BY <1>1 DEF KeyInv, InputAgrees, Sequences, used
  <1>3. state \o First(buffer, 0) \o input = fed
    BY <1>2, UsedIs DEF KeyInv
  <1>. QED  BY <1>2, <1>3, FirstNone, EmptyIs

\* A digest is given out: a round of the key, or the iv.
LEMMA DerivedOutput ==
    ASSUME KeyInv, DerivedInv, stage = "calls", Head(calls) = "output", Output
    PROVE  DerivedInv'
  <1>1. UNCHANGED <<passLen, total, fed>> /\ md_buf' = Digest(state)
    BY DEF Output, context
  <1>2. Round' = Round
    BY <1>1, RoundKept
  <1>3. fed = Padded(Message)
    BY DEF DerivedInv, FedSoFar
  <1>4. Len(fed) % BufferSize = 0
    BY <1>3, MessageIs, PaddedIs
  <1>5. md_buf' = Digest(Padded(Message))
    BY <1>1, <1>3, <1>4, StateIsFed
  <1>6. (Len(fed) = total[1] + total[2] * WordModulus)'
    BY <1>1 DEF DerivedInv
  <1>7. IsSeq(key) /\ Len(key) \in 0 .. KeyLen /\ KeyLen \in Nat /\ DigestSize \in Nat \ {0}
    BY Sizes DEF KeyInv, Sequences, KeyTypeOK
  <1>8. key = [i \in 1 .. Len(key) |-> KeyByte(i)]
    BY DEF DerivedInv
  <1>9. CASE Len(key) < KeyLen
    <2>. DEFINE digest == Digest(state)
                room == KeyLen - Len(key)
                n == IF room < DigestSize THEN room ELSE DigestSize
                taken == First(digest, n)
                D == DigestSize
    <2>1. key' = key \o taken /\ stage' = "derive"
      BY <1>7, <1>9 DEF Output
    <2>2. PICK r \in Nat : Len(key) = r * D /\ (r # 0 => md_buf = Round[r - 1])
      BY <1>9 DEF DerivedInv, RoundsDone
    <2>3. digest = Round[r]
      <3>1. CASE r = 0
        <4>1. key = <<>>
          BY <1>7, <2>2, <3>1, EmptyIs
        <4>. QED  BY <1>1, <1>5, <3>1, <4>1, RoundIs DEF Message
      <3>2. CASE r # 0
        <4>1. key # <<>>
          <5>1. Len(key) # 0
            BY <1>7, <2>2, <3>2
          <5>. QED  BY <5>1, EmptyIs
        <4>2. digest = Digest(Padded(Round[r - 1] \o pass))
          BY <1>1, <1>5, <1>9, <2>2, <3>2, <4>1 DEF Message
        <4>3. r - 1 \in Nat /\ (r - 1) + 1 = r
          BY <3>2
        <4>4. Round[(r - 1) + 1] = Digest(Padded(Round[r - 1] \o pass))
          BY <4>3, RoundIs
        <4>. QED  BY <4>2, <4>3, <4>4
      <3>. QED  BY <3>1, <3>2
    <2>4. n \in 1 .. D /\ n = (IF room < D THEN room ELSE D) /\ room \in Nat
      BY <1>7, <1>9
    <2>5. IsSeq(digest) /\ Len(digest) = D
      BY DigestIs
    <2>. HIDE DEF digest, n
    <2>6. /\ IsSeq(taken) /\ Len(taken) = n
          /\ \A i \in 1 .. n : taken[i] = digest[i]
      <3>1. n \in 0 .. Len(digest)
        BY <1>7, <2>4, <2>5
      <3>. QED  BY <2>5, <3>1, CutIs
    <2>. HIDE DEF taken
    <2>7. IsSeq(key') /\ Len(key') = Len(key) + n
      BY <1>7, <2>1, <2>6, ConcatIs
    <2>8. ASSUME NEW i \in 1 .. Len(key') PROVE key'[i] = KeyByte(i)
      <3>1. key'[i] = IF i <= Len(key) THEN key[i] ELSE taken[i - Len(key)]
        BY <1>7, <2>1, <2>6, <2>7, <2>8, ConcatAt
      <3>2. CASE i <= Len(key)
        BY <1>7, <1>8, <3>1, <3>2
      <3>3. CASE ~(i <= Len(key))
        <4>. DEFINE j == i - Len(key)
                    e == j - 1
        <4>1. j \in 1 .. n /\ i - 1 = r * D + e /\ e \in Nat /\ e < D /\ j = e + 1
          BY <1>7, <2>2, <2>4, <2>7, <3>3
        <4>2. key'[i] = Round[r][j]
          BY <2>3, <2>6, <3>1, <3>3, <4>1
        <4>. HIDE DEF j, e
        <4>3. (i - 1) \div D = r /\ (i - 1) % D = e
          <5>. DEFINE u == i - 1
          <5>1. u \in Nat /\ u = r * D + e /\ D \in Nat \ {0} /\ r \in Int
            BY <1>7, <4>1
          <5>. HIDE DEF u
          <5>2. u \div D = r /\ u % D = e
            BY <4>1, <5>1, DivModIs
          <5>. QED  BY <5>2 DEF u
        <4>. QED  BY <4>1, <4>2, <4>3 DEF KeyByte
      <3>. QED  BY <3>2, <3>3
    <2>9. (key = [i \in 1 .. Len(key) |-> KeyByte(i)])'
      <3>1. key' = [i \in 1 .. Len(key') |-> key'[i]]
        BY <2>7, SeqIs
      <3>2. \A i : KeyByte(i)' = KeyByte(i)
        BY <1>2 DEF KeyByte
      <3>. QED  BY <2>8, <3>1, <3>2
    <2>10. RoundsDone'
      <3>1. SUFFICES ASSUME Len(key') < KeyLen
                     PROVE  \E q \in Nat : /\ Len(key') = q * D
                                           /\ q # 0 => md_buf' = Round[q - 1]
        BY <1>2 DEF RoundsDone
      <3>2. n = D
        BY <1>7, <2>4, <2>7, <3>1
      <3>3. r + 1 \in Nat /\ Len(key') = (r + 1) * D /\ (r + 1) - 1 = r
        BY <1>7, <2>2, <2>7, <3>2
      <3>. QED  BY <1>1, <2>3, <3>3 DEF digest
    <2>. QED  BY <1>6, <2>1, <2>9, <2>10 DEF DerivedInv
  <1>10. CASE Len(key) = KeyLen
    <2>1. key' = key /\ stage' = "done" /\ initv' = Digest(state)
      BY <1>7, <1>10 DEF Output
    <2>2. initv' = Round[0]
      <3>1. ~(Len(key) < KeyLen)
        BY <1>7, <1>10
      <3>2. Message = pass
        BY <3>1 DEF Message
      <3>. QED  BY <1>1, <1>5, <2>1, <3>2, RoundIs
    <2>3. (key = [i \in 1 .. Len(key) |-> KeyByte(i)])'
      BY <1>2, <1>8, <2>1 DEF KeyByte
    <2>4. RoundsDone'
      BY <1>7, <1>10, <2>1 DEF RoundsDone
    <2>. QED  BY <1>2, <1>6, <1>10, <2>1, <2>2, <2>3, <2>4 DEF DerivedInv
  <1>. QED  BY <1>7, <1>9, <1>10

\* The calls of a digest, one after the other.
LEMMA CallsAre ==
    /\ Head(<<"md_buf", "pass", "finish">>) = "md_buf"
    /\ Head(<<"pass", "finish">>) = "pass"
    /\ Head(<<"finish">>) = "finish"
    /\ Head(<<"padding", "msglen", "output">>) = "padding"
    /\ Head(<<"msglen", "output">>) = "msglen"
    /\ Head(<<"output">>) = "output"
    /\ Tail(<<"md_buf", "pass", "finish">>) = <<"pass", "finish">>
    /\ Tail(<<"pass", "finish">>) = <<"finish">>
    /\ Tail(<<"padding", "msglen", "output">>) = <<"msglen", "output">>
    /\ Tail(<<"msglen", "output">>) = <<"output">>
  OBVIOUS

LEMMA CallIs ==
    ASSUME DerivedInv, stage = "calls"
    PROVE  /\ Head(calls) = "md_buf" =>
                /\ calls = <<"md_buf", "pass", "finish">> /\ fed = <<>>
                /\ Message = md_buf \o pass
           /\ Head(calls) = "pass" =>
                calls = <<"pass", "finish">> /\ fed \o pass = Message
           /\ Head(calls) = "finish" => calls = <<"finish">> /\ fed = Message
           /\ Head(calls) = "padding" =>
                /\ calls = <<"padding", "msglen", "output">>
                /\ fed = Message /\ msglen = Bits(Message)
           /\ Head(calls) = "msglen" =>
                /\ calls = <<"msglen", "output">>
                /\ fed = Filled(Message) /\ msglen = Bits(Message)
  <1>. DEFINE a == <<"md_buf", "pass", "finish">>
              b == <<"pass", "finish">>
              c == <<"finish">>
              d == <<"padding", "msglen", "output">>
              e == <<"msglen", "output">>
              f == <<"output">>
  <1>1. /\ Head(a) = "md_buf" /\ Head(b) = "pass" /\ Head(c) = "finish"
        /\ Head(d) = "padding" /\ Head(e) = "msglen" /\ Head(f) = "output"
    BY CallsAre
  <1>2. \/ calls = a /\ fed = <<>> /\ Message = md_buf \o pass
        \/ calls = b /\ fed \o pass = Message
        \/ calls = c /\ fed = Message
        \/ calls = d /\ fed = Message /\ msglen = Bits(Message)
        \/ calls = e /\ fed = Filled(Message) /\ msglen = Bits(Message)
        \/ calls = f /\ fed = Padded(Message)
    BY DEF DerivedInv, FedSoFar
  <1>. HIDE DEF a, b, c, d, e, f
  <1>3. /\ Head(calls) = "md_buf" => calls = a /\ fed = <<>> /\ Message = md_buf \o pass
        /\ Head(calls) = "pass" => calls = b /\ fed \o pass = Message
        /\ Head(calls) = "finish" => calls = c /\ fed = Message
        /\ Head(calls) = "padding" => calls = d /\ fed = Message /\ msglen = Bits(Message)
        /\ Head(calls) = "msglen" =>
             calls = e /\ fed = Filled(Message) /\ msglen = Bits(Message)
    BY <1>1, <1>2
  <1>. QED  BY <1>3 DEF a, b, c, d, e

\* Padding of no round is longer than a block, and length and digest are not.
LEMMA SmallEnough ==
    ASSUME KeyInv
    PROVE  /\ BufferSize <= WordModulus
           /\ Len(md_buf) <= WordModulus /\ Len(pass) <= WordModulus
           /\ Len(msglen) <= WordModulus
  <1>1. BufferSize <= WordModulus
    BY Sizes, SMT
  <1>2. Len(md_buf) = DigestSize /\ Len(msglen) = LengthSize /\ passLen \in 0 .. MaxPass
    BY DEF KeyInv, KeyTypeOK
  <1>3. DigestSize <= BufferSize /\ LengthSize < BufferSize /\ MaxPass < WordModulus
    BY Md5Assumption
  <1>. QED  BY <1>1, <1>2, <1>3, MessageIs, Sizes, Md5Assumption

LEMMA DerivedNextCall ==
    ASSUME KeyInv, DerivedInv, NextCall
    PROVE  DerivedInv'
  <1>1. stage = "calls" /\ IsSeq(md_buf) /\ IsSeq(msglen) /\ IsSeq(fed)
    BY DEF NextCall, KeyInv, Sequences
  <1>2. ASSUME NEW data, md5_update(data)
        PROVE  /\ fed' = fed \o data /\ calls' = Tail(calls) /\ pass' = pass
               /\ Message' = Message /\ msglen' = msglen /\ md_buf' = md_buf
    BY <1>2, RoundKept DEF md5_update, Message
  <1>3. CASE Head(calls) = "md_buf" /\ md5_update(md_buf)
    <2>1. calls = <<"md_buf", "pass", "finish">> /\ fed = <<>> /\ Message = md_buf \o pass
      BY <1>1, <1>3, CallIs
    <2>2. calls' = <<"pass", "finish">> /\ fed' = md_buf /\ pass' = pass /\ Message' = Message
      BY <1>1, <1>2, <1>3, <2>1, CallsAre, EmptyIs
    <2>3. FedSoFar'
      BY <2>1, <2>2 DEF FedSoFar
    <2>. QED  BY <1>1, <1>3, <2>3, SmallEnough, DerivedUpdate
  <1>4. CASE Head(calls) = "pass" /\ md5_update(pass)
    <2>1. calls = <<"pass", "finish">> /\ fed \o pass = Message
      BY <1>1, <1>4, CallIs
    <2>2. calls' = <<"finish">> /\ fed' = Message'
      BY <1>2, <1>4, <2>1, CallsAre
    <2>3. FedSoFar'
      BY <2>2 DEF FedSoFar
    <2>. QED  BY <1>1, <1>4, <2>3, MessageIs, SmallEnough, DerivedUpdate
  <1>5. CASE Head(calls) = "finish" /\ md5_finish
    <2>1. fed = Message
      BY <1>1, <1>5, CallIs
    <2>2. /\ calls' = <<"padding", "msglen", "output">> /\ msglen' = Length(Low, High)
          /\ UNCHANGED <<passLen, stage, total, fed, md_buf, key, initv>>
      BY <1>5 DEF md5_finish, context
    <2>3. msglen' = Bits(Message)
      BY <2>1, <2>2, BitsAre DEF DerivedInv
    <2>4. Round' = Round /\ pass' = pass /\ Message' = Message
      BY <2>2, RoundKept DEF Message
    <2>5. FedSoFar'
      <3>1. Bits(Message)' = Bits(Message)
        BY <2>4 DEF Bits
      <3>. QED  BY <2>1, <2>2, <2>3, <2>4, <3>1 DEF FedSoFar
    <2>6. RoundsDone' /\ (key = [i \in 1 .. Len(key) |-> KeyByte(i)])'
      BY <2>2, <2>4 DEF DerivedInv, RoundsDone, KeyByte
    <2>. QED  BY <1>1, <2>2, <2>5, <2>6 DEF DerivedInv
  <1>6. CASE /\ Head(calls) = "padding"
             /\ md5_update(md5_padding(Padn(total[1] % BufferSize)))
    <2>. DEFINE n == Padn(total[1] % BufferSize)
                p == md5_padding(n)
    <2>1. /\ calls = <<"padding", "msglen", "output">> /\ fed = Message
          /\ msglen = Bits(Message)
      BY <1>1, <1>6, CallIs
    <2>2. Len(fed) % BufferSize = total[1] % BufferSize
      BY FedModulus
    <2>3. p = md5_padding(Padn(Len(Message) % BufferSize))
      BY <2>1, <2>2
    <2>4. Padn(Len(Message) % BufferSize) \in 1 .. BufferSize
      BY MessageIs, SeqLen, RoomIs
    <2>5. n \in Nat /\ n <= BufferSize
      BY <2>1, <2>2, <2>4, Sizes
    <2>6. fed' = Filled(Message) /\ calls' = <<"msglen", "output">>
          /\ msglen' = Bits(Message) /\ Message' = Message
      BY <1>2, <1>6, <2>1, <2>3, CallsAre DEF Filled
    <2>7. FedSoFar'
      <3>1. Bits(Message)' = Bits(Message) /\ Filled(Message)' = Filled(Message)
        BY <2>6 DEF Bits, Filled, md5_padding, Padn
      <3>. QED  BY <2>6, <3>1 DEF FedSoFar
    <2>8. IsSeq(p) /\ Len(p) = n
      BY <2>5, PaddingIs
    <2>9. Len(p) <= WordModulus
      BY <2>5, <2>8, SmallEnough, Sizes
    <2>. QED  BY <1>1, <1>6, <2>7, <2>8, <2>9, DerivedUpdate
  <1>7. CASE Head(calls) = "msglen" /\ md5_update(msglen)
    <2>1. /\ calls = <<"msglen", "output">> /\ fed = Filled(Message)
          /\ msglen = Bits(Message)
      BY <1>1, <1>7, CallIs
    <2>2. /\ calls' = <<"output">> /\ fed' = Filled(Message) \o Bits(Message)
          /\ Message' = Message
      BY <1>2, <1>7, <2>1, CallsAre
    <2>3. fed' = Padded(Message)
      BY <2>2, MessageIs, PaddedIs
    <2>4. FedSoFar'
      <3>1. Padded(Message)' = Padded(Message)
        BY <2>2 DEF Padded, md5_padding, Length
      <3>. QED  BY <2>2, <2>3, <3>1 DEF FedSoFar
    <2>. QED  BY <1>1, <1>7, <2>4, SmallEnough, DerivedUpdate
  <1>8. CASE Head(calls) = "output" /\ Output
    BY <1>1, <1>8, DerivedOutput
  <1>. QED  BY <1>3, <1>4, <1>5, <1>6, <1>7, <1>8 DEF NextCall

LEMMA DerivedNext == ASSUME KeyInv, DerivedInv, [KeyNext]_keyVars PROVE DerivedInv'
  <1>1. CASE DeriveRound \/ DeriveIv
    BY <1>1, DerivedStarts
  <1>2. CASE NextCall
    BY <1>2, DerivedNextCall
  <1>3. CASE Fill \/ ProcessBlock \/ KeepRest
    BY <1>3, DerivedKept DEF Fill, ProcessBlock, KeepRest
  <1>4. CASE UNCHANGED keyVars
    BY <1>4, DerivedKept DEF keyVars
  <1>. QED  BY <1>1, <1>2, <1>3, <1>4 DEF KeyNext

-----------------------------------------------------------------------------
(* The theorems *)

\* Type correctness, for all sizes and passwords.
THEOREM KeyTypeCorrect == KeySpec => []KeyTypeOK
  <1>1. KeyInv => KeyTypeOK
    BY DEF KeyInv
  <1>. QED  BY <1>1, KeyInvariant, PTL

\* However the bytes come to md5_update, in calls of whatever length, what was
\* processed, what waits in the buffer and what has still to be taken are
\* those bytes, in order, for all sizes and passwords.
THEOREM KeyNothingSkipped == KeySpec => []NothingSkipped
  <1>1. KeyInv => NothingSkipped
    BY DEF KeyInv
  <1>. QED  BY <1>1, KeyInvariant, PTL

\* The copy into ctx.buffer ends in it, for all sizes and passwords.
THEOREM KeyStaysInBuffer == KeySpec => []StaysInBuffer
  <1>1. ASSUME KeyInv PROVE StaysInBuffer
    <2>1. stage = "blocks" => left = 0 \/ left + Len(input) < BufferSize
      BY <1>1 DEF KeyInv, InputAgrees
    <2>2. left \in Nat /\ Len(input) \in Nat /\ BufferSize \in Nat
      BY <1>1, Numbers, Sizes
    <2>. QED  BY <2>1, <2>2, SMT DEF StaysInBuffer
  <1>. QED  BY <1>1, KeyInvariant, PTL

\* Client and server make the same key and iv from the password: the key is
\* the digests MD5 prescribes, each of the one before and the password, cut to
\* size, and the iv the first of them, for all sizes and passwords, although
\* one context and one buffer serve all digests and are never cleared.
THEOREM KeyDerivation == KeySpec => []KeyIsDerived
  <1>1. KeyInit => DerivedInv
    BY DerivedInit
  <1>2. KeyInv /\ DerivedInv /\ [KeyNext]_keyVars => DerivedInv'
    BY DerivedNext
  <1>3. DerivedInv => KeyIsDerived
    <2>. SUFFICES ASSUME DerivedInv, stage = "done" PROVE KeyIsDerived
      BY DEF KeyIsDerived
    <2>1. key = [i \in 1 .. KeyLen |-> KeyByte(i)] /\ initv = Round[0]
      BY DEF DerivedInv
    <2>. QED  BY <2>1 DEF KeyIsDerived, KeyByte
  <1>. QED  BY <1>1, <1>2, <1>3, KeyInvariant, PTL DEF KeySpec
=============================================================================
