-------------------------- MODULE JsonValueProofs --------------------------
(***************************************************************************)
(* The parser builds the value its text stands for.                        *)
(***************************************************************************)
EXTENDS JsonValue, JsonParseProofs

Typed == text \in Seq(1 .. 255) /\ after \in Bytes

-----------------------------------------------------------------------------
(* Places *)

LEMMA TextIs ==
    ASSUME Typed
    PROVE  /\ Len(text) \in Nat /\ length = Len(text) + 1
           /\ \A p \in Nat : Char(p) \in Bytes
           /\ Char(Len(text)) = Nul
           /\ \A p \in 0 .. Len(text) : Char(p) # Nul => p < Len(text)
           /\ \A p : Accessible(p) <=> p < Len(text) + 1
  <1>1. Len(text) \in Nat /\ length = Len(text) + 1 /\ length - 1 = Len(text)
    BY DEF Typed, length
  <1>2. (\A p \in Nat : Char(p) \in Bytes) /\ Char(Len(text)) = Nul
    BY <1>1, TextChars DEF Typed
  <1>3. \A p \in 0 .. Len(text) : Char(p) # Nul => p < Len(text)
    BY <1>1, <1>2
  <1>. QED  BY <1>1, <1>2, <1>3 DEF Accessible

\* q is the first place from p on that is not white, or that of the 0.
IsSolid(p, q) ==
    /\ q \in p .. Len(text)
    /\ q = Len(text) \/ Char(q) \notin White
    /\ \A r \in p .. (q - 1) : Char(r) \in White

LEMMA OneSolid ==
    ASSUME Typed, NEW p \in Nat, NEW q, IsSolid(p, q), NEW s, IsSolid(p, s)
    PROVE  q = s
  <1>1. Len(text) \in Nat
    BY TextIs
  <1>. QED  BY ONLY <1>1, p \in Nat, IsSolid(p, q), IsSolid(p, s) DEF IsSolid

LEMMA SolidIs ==
    ASSUME Typed, NEW p \in 0 .. Len(text)
    PROVE  IsSolid(p, Solid(p)) /\ Solid(p) \in p .. Len(text)
  <1>. DEFINE S == {q \in p .. Len(text) : q = Len(text) \/ Char(q) \notin White}
  <1>1. Len(text) \in Nat /\ p \in Nat /\ S \in SUBSET Nat /\ Len(text) \in S
    BY TextIs
  <1>2. PICK q \in S : \A s \in S : q <= s
    <2>. HIDE DEF S
    <2>. QED  BY <1>1, Least
  <1>3. q \in p .. Len(text) /\ (q = Len(text) \/ Char(q) \notin White)
    OBVIOUS
  <1>4. ASSUME NEW r \in p .. (q - 1) PROVE Char(r) \in White
    <2>1. r \in p .. Len(text) /\ r < q
      BY <1>1, <1>3
    <2>2. r \notin S
      <3>. HIDE DEF S
      <3>. QED  BY <1>1, <1>2, <1>3, <2>1
    <2>. QED  BY <2>1, <2>2
  <1>5. \E s \in p .. Len(text) : IsSolid(p, s)
    BY <1>3, <1>4 DEF IsSolid
  <1>6. Solid(p) = CHOOSE s \in p .. Len(text) : IsSolid(p, s)
    <2>1. \A s \in p .. Len(text) :
            IsSolid(p, s) <=> /\ s = Len(text) \/ Char(s) \notin White
                              /\ \A r \in p .. (s - 1) : Char(r) \in White
      BY DEF IsSolid
    <2>. QED  BY <2>1 DEF Solid, IsSolid
  <1>. QED  BY <1>5, <1>6 DEF IsSolid

LEMMA SkipIsSolid ==
    ASSUME Typed, NEW p \in 0 .. Len(text)
    PROVE  Skip(p) = Solid(p)
  <1>. DEFINE Next(q) == /\ q \in p .. length
                         /\ q = length \/ Char(q) \notin White
                         /\ \A r \in p .. (q - 1) : Char(r) \in White
              next == CHOOSE q \in p .. length :
                        /\ q = length \/ Char(q) \notin White
                        /\ \A r \in p .. (q - 1) : Char(r) \in White
              s == Solid(p)
  <1>1. Len(text) \in Nat /\ length = Len(text) + 1 /\ p \in Nat
    BY TextIs
  <1>2. IsSolid(p, s)
    BY SolidIs
  <1>3. Char(Len(text)) \in White
    BY TextIs DEF Nul, White
  <1>4. Skip(p) = IF next = length THEN next - 1 ELSE next
    BY <1>1 DEF Skip
  <1>5. s \in p .. Len(text)
    BY <1>2 DEF IsSolid
  <1>8. s = Solid(p)
    OBVIOUS
  <1>. HIDE DEF s
  <1>6. CASE Char(s) \notin White
    <2>1. Next(s)
      BY <1>1, <1>2, <1>5, <1>6 DEF IsSolid
    <2>2. ASSUME NEW q, Next(q) PROVE q = s
      BY <1>1, <1>5, <1>6, <2>1, <2>2, <1>3
    <2>3. Next(next)
      BY <2>1, Zenon
    <2>4. next = s
      <3>. HIDE DEF Next, next
      <3>. QED  BY <2>2, <2>3
    <2>. HIDE DEF next
    <2>. QED  BY <1>1, <1>4, <1>5, <1>8, <2>4
  <1>7. CASE Char(s) \in White
    <2>1. s = Len(text)
      BY <1>2, <1>7 DEF IsSolid
    <2>2. \A r \in p .. Len(text) : Char(r) \in White
      BY <1>1, <1>2, <1>3, <2>1 DEF IsSolid
    <2>3. Next(length)
      BY <1>1, <2>2
    <2>4. ASSUME NEW q, Next(q) PROVE q = length
      BY <1>1, <2>2, <2>4
    <2>5. Next(next)
      BY <2>3, Zenon
    <2>6. next = length
      <3>. HIDE DEF Next, next
      <3>. QED  BY <2>4, <2>5
    <2>. HIDE DEF next
    <2>. QED  BY <1>1, <1>4, <1>8, <2>1, <2>6
  <1>. QED  BY <1>6, <1>7

-----------------------------------------------------------------------------
(* Characters of a string *)

LEMMA OneRecord ==
    ASSUME NEW a, NEW b
    PROVE  [out : {a}, length : {b}] = {[out |-> a, length |-> b]}
  <1>1. ASSUME NEW u \in [out : {a}, length : {b}]
        PROVE  u = [out |-> a, length |-> b]
    BY SMT
  <1>2. [out |-> a, length |-> b] \in [out : {a}, length : {b}]
    BY SMT
  <1>. QED  BY <1>1, <1>2, Zenon

\* What the grammar finds at place p of a string.
LEMMA PlainCharacter ==
    ASSUME NEW p \in Nat, Char(p) \notin {Quote, Backslash}
    PROVE  Characters(p) = {[out |-> <<Char(p)>>, length |-> 1]}
  <1>1. {i \in DOMAIN Escapes : Char(p) = Backslash /\ Char(p + 1) = Escapes[i]} = {}
    OBVIOUS
  <1>2. ~IsLiteral16(p)
    BY DEF IsLiteral16
  <1>3. [out : {<<Char(p)>>}, length : {1}] = {[out |-> <<Char(p)>>, length |-> 1]}
    BY OneRecord
  <1>. QED  BY <1>1, <1>2, <1>3 DEF Characters

LEMMA EscapesDiffer ==
    /\ DOMAIN Escapes = 1 .. 8 /\ DOMAIN Escaped = 1 .. 8
    /\ \A i, j \in 1 .. 8 : Escapes[i] = Escapes[j] => i = j
    /\ \A i \in 1 .. 8 : Escapes[i] # 117 /\ Escaped[i] \in Bytes
  <1>1. DOMAIN Escapes = 1 .. 8 /\ DOMAIN Escaped = 1 .. 8
    BY SMT DEF Escapes, Escaped
  <1>2. /\ Escapes[1] = 98 /\ Escapes[2] = 102 /\ Escapes[3] = 110
        /\ Escapes[4] = 114 /\ Escapes[5] = 116 /\ Escapes[6] = 34
        /\ Escapes[7] = 92 /\ Escapes[8] = 47
    BY SMT DEF Escapes
  <1>3. Escaped \in Seq(Bytes) /\ Len(Escaped) = 8
    BY SMT DEF Escaped, Bytes
  <1>4. \A i \in 1 .. 8 : Escaped[i] \in Bytes
    BY <1>3, Elements
  <1>5. \A i \in 1 .. 8 : i = 1 \/ i = 2 \/ i = 3 \/ i = 4 \/ i = 5 \/ i = 6
                          \/ i = 7 \/ i = 8
    OBVIOUS
  <1>. HIDE DEF Escapes, Escaped
  <1>. QED  BY <1>1, <1>2, <1>4, <1>5

LEMMA EscapedCharacter ==
    ASSUME NEW p \in Nat, Char(p) = Backslash, Char(p + 1) # 117
    PROVE  Characters(p) =
             {[out |-> <<Escaped[i]>>, length |-> 2] :
                i \in {j \in DOMAIN Escapes : Char(p + 1) = Escapes[j]}}
  <1>1. ~IsLiteral16(p)
    BY DEF IsLiteral16
  <1>. QED  BY <1>1 DEF Characters

LEMMA Surrogates == \A c : ~(Surrogate1(c) /\ Surrogate2(c))
  <1>1. SUFFICES ASSUME NEW c, Surrogate1(c), Surrogate2(c) PROVE FALSE
    BY Zenon
  <1>2. c \in Int /\ c <= 56319 /\ 56320 <= c
    BY <1>1 DEF Surrogate1, Surrogate2
  <1>. QED  BY <1>2

LEMMA LiteralCharacter ==
    ASSUME NEW p \in Nat, IsLiteral16(p)
    PROVE  LET first  == Hex(p + 2)
               second == Hex(p + 8)
               pair   == Utf8(Paired(first, second))
           IN  Characters(p) =
                 IF Surrogate1(first)
                   THEN IF IsLiteral16(p + 6) /\ Surrogate2(second)
                          THEN {[out |-> pair, length |-> 12]} ELSE {}
                 ELSE IF Surrogate2(first) THEN {}
                 ELSE {[out |-> Utf8(first), length |-> 6]}
  <1>. DEFINE first  == Hex(p + 2)
              second == Hex(p + 8)
              pair   == Utf8(Paired(first, second))
              A == {u \in [out : {<<Char(p)>>}, length : {1}] :
                      Char(p) \notin {Quote, Backslash}}
              B == {[out |-> <<Escaped[i]>>, length |-> 2] :
                      i \in {j \in DOMAIN Escapes :
                               Char(p) = Backslash /\ Char(p + 1) = Escapes[j]}}
              C == {u \in [out : {Utf8(Hex(p + 2))}, length : {6}] :
                      IsLiteral16(p) /\ ~Surrogate1(Hex(p + 2))
                                     /\ ~Surrogate2(Hex(p + 2))}
              D == {u \in [out : {pair}, length : {12}] :
                      /\ IsLiteral16(p) /\ Surrogate1(Hex(p + 2))
                      /\ IsLiteral16(p + 6) /\ Surrogate2(Hex(p + 8))}
  <1>1. Char(p) = Backslash /\ Char(p + 1) = 117
    BY DEF IsLiteral16
  <1>2. A = {}
    BY <1>1
  <1>3. B = {}
    BY <1>1, EscapesDiffer
  <1>4. Characters(p) = A \cup B \cup C \cup D
    BY Zenon DEF Characters
  <1>5. C = IF ~Surrogate1(first) /\ ~Surrogate2(first)
              THEN {[out |-> Utf8(first), length |-> 6]} ELSE {}
    <2>1. [out : {Utf8(Hex(p + 2))}, length : {6}] = {[out |-> Utf8(first), length |-> 6]}
      BY OneRecord
    <2>. QED  BY <2>1, Zenon
  <1>6. D = IF Surrogate1(first) /\ IsLiteral16(p + 6) /\ Surrogate2(second)
              THEN {[out |-> pair, length |-> 12]} ELSE {}
    <2>1. [out : {pair}, length : {12}] = {[out |-> pair, length |-> 12]}
      BY OneRecord
    <2>. QED  BY <2>1, Zenon
  <1>7. ~(Surrogate1(first) /\ Surrogate2(first))
    BY Surrogates
  <1>. HIDE DEF A, B, C, D, first, second, pair
  <1>8. Characters(p) =
          IF Surrogate1(first)
            THEN IF IsLiteral16(p + 6) /\ Surrogate2(second)
                   THEN {[out |-> pair, length |-> 12]} ELSE {}
          ELSE IF Surrogate2(first) THEN {}
          ELSE {[out |-> Utf8(first), length |-> 6]}
    BY <1>2, <1>3, <1>4, <1>5, <1>6, <1>7, Zenon
  <1>. QED  BY <1>8, Zenon DEF first, second, pair

\* The end of the string is far enough from p for the \u literal there, and
\* for one more behind it.
FarEnough(p, e) ==
    Char(p) = Backslash /\ Char(p + 1) = 117 =>
        /\ e - p >= 6
        /\ Char(p + 6) = Backslash /\ Char(p + 7) = 117 => e - p >= 12

\* A \u literal has its digits, all of them in the text.
LEMMA Literal16Is ==
    ASSUME Typed, ~WrongHex, NEW p \in 0 .. Len(text),
           Char(p) = Backslash, Char(p + 1) = 117
    PROVE  /\ IsLiteral16(p) /\ p + 6 <= Len(text)
           /\ parse_hex4(p + 2) = Hex(p + 2)
           /\ \A i \in 1 .. 5 : Char(p + i) \notin {Quote, Backslash}
  <1>1. /\ Len(text) \in Nat /\ Char(Len(text)) = 0
        /\ \A q \in 0 .. Len(text) : Char(q) # 0 => q < Len(text)
    BY TextIs DEF Nul
  <1>2. p + 2 <= Len(text) /\ IsHex(p + 2)
    BY DEF WrongHex
  <1>3. \A i \in 0 .. 3 : Char(p + 2 + i) \in Digits \cup (65 .. 70) \cup (97 .. 102)
    BY <1>2 DEF IsHex
  <1>4. /\ Char(p + 2) # 0 /\ Char(p + 3) # 0
        /\ Char(p + 4) # 0 /\ Char(p + 5) # 0
        /\ \A i \in 2 .. 5 : Char(p + i) \notin {Quote, Backslash}
    <2>1. \A i \in 2 .. 5 : i - 2 \in 0 .. 3 /\ p + 2 + (i - 2) = p + i
      OBVIOUS
    <2>2. \A i \in 2 .. 5 : Char(p + i) \in Digits \cup (65 .. 70) \cup (97 .. 102)
      BY <1>3, <2>1
    <2>3. \A c \in Digits \cup (65 .. 70) \cup (97 .. 102) :
            c # 0 /\ c # Quote /\ c # Backslash
      BY DEF Digits, Quote, Backslash
    <2>4. 2 \in 2 .. 5 /\ 3 \in 2 .. 5 /\ 4 \in 2 .. 5 /\ 5 \in 2 .. 5
      OBVIOUS
    <2>5. ASSUME NEW i \in 2 .. 5
          PROVE  Char(p + i) # 0 /\ Char(p + i) # Quote /\ Char(p + i) # Backslash
      <3>1. Char(p + i) \in Digits \cup (65 .. 70) \cup (97 .. 102)
        BY <2>2
      <3>. QED  BY <2>3, <3>1
    <2>. QED  BY <2>4, <2>5
  <1>5. p + 2 < Len(text)
    BY <1>1, <1>2, <1>4
  <1>6. p + 3 < Len(text)
    BY <1>1, <1>4, <1>5
  <1>7. p + 4 < Len(text)
    BY <1>1, <1>4, <1>6
  <1>8. p + 5 < Len(text)
    BY <1>1, <1>4, <1>7
  <1>9. parse_hex4(p + 2) = Hex(p + 2)
    BY <1>3 DEF parse_hex4, Hex
  <1>10. \A i \in 1 .. 5 : i = 1 \/ i \in 2 .. 5
    OBVIOUS
  <1>11. Char(p + 1) \notin {Quote, Backslash}
    BY DEF Quote, Backslash
  <1>. QED  BY <1>1, <1>2, <1>4, <1>8, <1>9, <1>10, <1>11 DEF IsLiteral16

LEMMA LiteralUnit ==
    ASSUME NEW p \in Nat, end \in Nat, end - p >= 6,
           NEW first, first = parse_hex4(p + 2),
           NEW second, second = parse_hex4(p + 8)
    PROVE  utf16_literal_to_utf8(p) =
             IF Surrogate2(first) THEN [out |-> <<>>, length |-> 0]
             ELSE IF ~Surrogate1(first) THEN [out |-> Utf8(first), length |-> 6]
             ELSE IF /\ end - p >= 12
                     /\ Char(p + 6) = Backslash /\ Char(p + 7) = 117
                     /\ Surrogate2(second)
               THEN [out |-> Utf8(65536 + (first % 1024) * 1024 + (second % 1024)),
                     length |-> 12]
               ELSE [out |-> <<>>, length |-> 0]
  BY SMT DEF utf16_literal_to_utf8

LEMMA PairedIs ==
    ASSUME NEW first \in Words, NEW second \in Words,
           Surrogate1(first), Surrogate2(second)
    PROVE  65536 + (first % 1024) * 1024 + (second % 1024) = Paired(first, second)
  <1>1. first % 1024 = first - 55296
    BY DEF Surrogate1
  <1>2. second % 1024 = second - 56320
    BY DEF Surrogate2
  <1>. QED  BY <1>1, <1>2 DEF Paired, Words

\* The decoder reads what the grammar finds.
LEMMA UnitIs ==
    ASSUME Typed, ~WrongHex, NEW p \in 0 .. Len(text), Char(p) # Quote,
           end \in Nat, FarEnough(p, end)
    PROVE  Characters(p) = IF Unit(p).length = 0 THEN {} ELSE {Unit(p)}
  <1>. DEFINE nothing == [out |-> <<>>, length |-> 0]
  <1>1. Len(text) \in Nat /\ p \in Nat
    BY TextIs
  <1>2. CASE Char(p) # Backslash
    <2>1. Unit(p) = [out |-> <<Char(p)>>, length |-> 1]
      BY <1>2 DEF Unit
    <2>2. Characters(p) = {Unit(p)}
      BY <1>1, <1>2, <2>1, PlainCharacter
    <2>. QED  BY <2>1, <2>2
  <1>3. CASE Char(p) = Backslash /\ Char(p + 1) # 117
    <2>. DEFINE e == CHOOSE i \in DOMAIN Escapes : Escapes[i] = Char(p + 1)
                S == {j \in DOMAIN Escapes : Char(p + 1) = Escapes[j]}
    <2>1. Characters(p) = {[out |-> <<Escaped[i]>>, length |-> 2] : i \in S}
      BY <1>1, <1>3, EscapedCharacter
    <2>2. CASE Char(p + 1) \in Range(Escapes)
      <3>1. Unit(p) = [out |-> <<Escaped[e]>>, length |-> 2]
        BY <1>3, <2>2, Zenon DEF Unit
      <3>2. e \in S
        BY <2>2 DEF Range
      <3>3. S = {e}
        BY <3>2, EscapesDiffer
      <3>. HIDE DEF e, S
      <3>4. Characters(p) = {Unit(p)}
        BY <2>1, <3>1, <3>3
      <3>. QED  BY <3>1, <3>4
    <2>3. CASE Char(p + 1) \notin Range(Escapes)
      <3>1. Unit(p) = nothing
        BY <1>3, <2>3 DEF Unit
      <3>2. S = {}
        BY <2>3 DEF Range
      <3>. HIDE DEF S
      <3>. QED  BY <2>1, <3>1, <3>2
    <2>. QED  BY <2>2, <2>3
  <1>4. CASE Char(p) = Backslash /\ Char(p + 1) = 117
    <2>1. PICK first, second :
            first = parse_hex4(p + 2) /\ second = parse_hex4(p + 8)
      OBVIOUS
    <2>2. /\ IsLiteral16(p) /\ p + 6 <= Len(text) /\ first = Hex(p + 2)
      BY <1>4, <2>1, Literal16Is
    <2>3. first \in Words /\ second \in Words
      BY <1>1, <2>1, Hex4
    <2>4. end - p >= 6
      BY <1>4 DEF FarEnough
    <2>. DEFINE one  == [out |-> Utf8(first), length |-> 6]
                both == [out |-> Utf8(Paired(first, second)), length |-> 12]
    <2>5. Unit(p) = utf16_literal_to_utf8(p)
      BY <1>4 DEF Unit
    <2>6. PICK number : number = 65536 + (first % 1024) * 1024 + (second % 1024)
      OBVIOUS
    <2>7. Unit(p) =
            IF Surrogate2(first) THEN nothing
            ELSE IF ~Surrogate1(first) THEN one
            ELSE IF /\ end - p >= 12
                    /\ Char(p + 6) = Backslash /\ Char(p + 7) = 117
                    /\ Surrogate2(second)
              THEN [out |-> Utf8(number), length |-> 12]
              ELSE nothing
      BY <1>1, <2>1, <2>4, <2>5, <2>6, LiteralUnit
    <2>8. Characters(p) =
            IF Surrogate1(first)
              THEN IF IsLiteral16(p + 6) /\ Surrogate2(Hex(p + 8))
                     THEN {[out |-> Utf8(Paired(first, Hex(p + 8))), length |-> 12]}
                     ELSE {}
            ELSE IF Surrogate2(first) THEN {} ELSE {one}
      BY <1>1, <2>2, LiteralCharacter
    <2>9. one.length # 0 /\ both.length # 0 /\ nothing.length = 0
      OBVIOUS
    <2>10. CASE ~Surrogate1(first)
      <3>. HIDE DEF one, both, nothing
      <3>. QED  BY <2>7, <2>8, <2>9, <2>10
    <2>11. CASE Surrogate1(first) /\ Char(p + 6) = Backslash /\ Char(p + 7) = 117
      <3>1. p + 6 \in 0 .. Len(text) /\ p + 6 + 1 = p + 7 /\ p + 6 + 2 = p + 8
        BY <1>1, <2>2
      <3>2. IsLiteral16(p + 6) /\ second = Hex(p + 8)
        BY <2>1, <2>11, <3>1, Literal16Is
      <3>3. end - p >= 12
        BY <1>4, <2>11 DEF FarEnough
      <3>4. ~Surrogate2(first)
        BY <2>11, Surrogates
      <3>5. Surrogate2(second) => number = Paired(first, second)
        BY <2>3, <2>6, <2>11, PairedIs
      <3>6. Unit(p) = IF Surrogate2(second) THEN both ELSE nothing
        BY <2>7, <2>11, <3>3, <3>4, <3>5
      <3>7. Characters(p) = IF Surrogate2(second) THEN {both} ELSE {}
        BY <2>8, <2>11, <3>2
      <3>. HIDE DEF one, both, nothing
      <3>. QED  BY <2>9, <3>6, <3>7
    <2>12. CASE Surrogate1(first) /\ ~(Char(p + 6) = Backslash /\ Char(p + 7) = 117)
      <3>1. p + 6 + 1 = p + 7
        BY <1>1
      <3>2. ~IsLiteral16(p + 6)
        BY <2>12, <3>1 DEF IsLiteral16
      <3>3. ~Surrogate2(first)
        BY <2>12, Surrogates
      <3>4. Characters(p) = {} /\ Unit(p) = nothing
        <4>. HIDE DEF one, both, nothing
        <4>. QED  BY <2>7, <2>8, <2>12, <3>2, <3>3
      <3>. QED  BY <2>9, <3>4
    <2>. QED  BY <2>10, <2>11, <2>12
  <1>. QED  BY <1>2, <1>3, <1>4

LEMMA PairedPlace ==
    ASSUME NEW first, NEW second, Surrogate1(first), Surrogate2(second)
    PROVE  Paired(first, second) \in Codepoints
  BY SMT DEF Paired, Surrogate1, Surrogate2, Codepoints

\* A character takes room, and its bytes are bytes.
LEMMA CharacterIs ==
    ASSUME Typed, NEW p \in Nat, NEW u \in Characters(p)
    PROVE  u.length \in Nat \ {0} /\ u.out \in Seq(Bytes)
  <1>1. CASE Char(p) \notin {Quote, Backslash}
    <2>1. u = [out |-> <<Char(p)>>, length |-> 1]
      BY <1>1, PlainCharacter
    <2>2. Char(p) \in Bytes
      BY TextIs
    <2>. QED  BY <2>1, <2>2
  <1>2. CASE Char(p) = Quote
    <2>1. Char(p) # Backslash
      BY <1>2 DEF Quote, Backslash
    <2>2. ~IsLiteral16(p)
      BY <2>1 DEF IsLiteral16
    <2>3. Characters(p) = {}
      BY <1>2, <2>1, <2>2 DEF Characters
    <2>. QED  BY <2>3
  <1>3. CASE Char(p) = Backslash /\ Char(p + 1) # 117
    <2>1. PICK i \in DOMAIN Escapes : u = [out |-> <<Escaped[i]>>, length |-> 2]
      BY <1>3, EscapedCharacter
    <2>2. Escaped[i] \in Bytes
      BY EscapesDiffer
    <2>. QED  BY <2>1, <2>2
  <1>4. CASE Char(p) = Backslash /\ Char(p + 1) = 117 /\ ~IsHex(p + 2)
    <2>1. ~IsLiteral16(p) /\ Char(p) # Quote
      BY <1>4 DEF IsLiteral16, Quote, Backslash
    <2>2. {i \in DOMAIN Escapes : Char(p) = Backslash /\ Char(p + 1) = Escapes[i]} = {}
      BY <1>4, EscapesDiffer
    <2>3. Characters(p) = {}
      BY <1>4, <2>1, <2>2 DEF Characters
    <2>. QED  BY <2>3
  <1>5. CASE Char(p) = Backslash /\ Char(p + 1) = 117 /\ IsHex(p + 2)
    <2>1. IsLiteral16(p)
      BY <1>5 DEF IsLiteral16
    <2>2. \A q \in Nat : IsHex(q) => Hex(q) \in Words
      <3>1. \A q \in Nat : IsHex(q) => Hex(q) = parse_hex4(q)
        BY DEF IsHex, Hex, parse_hex4
      <3>. QED  BY <3>1, Hex4
    <2>3. Hex(p + 2) \in Words
      BY <1>5, <2>2
    <2>4. Hex(p + 2) \in Codepoints
      BY <2>3 DEF Words, Codepoints
    <2>5. \/ u = [out |-> Utf8(Hex(p + 2)), length |-> 6]
          \/ /\ u = [out |-> Utf8(Paired(Hex(p + 2), Hex(p + 8))), length |-> 12]
             /\ Surrogate1(Hex(p + 2)) /\ IsLiteral16(p + 6)
             /\ Surrogate2(Hex(p + 8))
      BY <2>1, LiteralCharacter
    <2>6. ASSUME Surrogate1(Hex(p + 2)), IsLiteral16(p + 6), Surrogate2(Hex(p + 8))
          PROVE  Paired(Hex(p + 2), Hex(p + 8)) \in Codepoints
      BY <2>6, PairedPlace
    <2>. QED  BY <2>4, <2>5, <2>6, Utf8Bytes
  <1>. QED  BY <1>1, <1>2, <1>3, <1>4, <1>5

-----------------------------------------------------------------------------
(* Strings *)

\* StringAt at place p, by what f says of the places behind it.
StringBody(f, p) ==
    IF p >= Len(text) THEN Nothing
    ELSE IF Char(p) = Quote THEN [out |-> <<>>, end |-> p + 1]
    ELSE IF Characters(p) = {} THEN Nothing
    ELSE LET u    == CHOOSE c \in Characters(p) : TRUE
             rest == f[p + u.length]
         IN  IF rest = Nothing THEN Nothing
             ELSE [out |-> u.out \o rest.out, end |-> rest.end]

LEMMA StringBodyEnd ==
    ASSUME NEW p, p >= Len(text), NEW f
    PROVE  StringBody(f, p) = Nothing
  BY Zenon DEF StringBody

LEMMA StringBodyBehind ==
    ASSUME Typed, NEW p \in Nat, NEW f, NEW g, \A q \in Nat : q > p => f[q] = g[q]
    PROVE  StringBody(f, p) = StringBody(g, p)
  <1>1. CASE Characters(p) = {}
    BY <1>1 DEF StringBody
  <1>2. CASE Characters(p) # {}
    <2>. DEFINE u == CHOOSE c \in Characters(p) : TRUE
    <2>1. u \in Characters(p)
      BY <1>2
    <2>2. u.length \in Nat \ {0}
      BY <2>1, CharacterIs
    <2>. HIDE DEF u
    <2>3. f[p + u.length] = g[p + u.length]
      BY <2>2
    <2>. QED  BY <2>3 DEF StringBody, u
  <1>. QED  BY <1>1, <1>2

LEMMA StringAtIs ==
    ASSUME Typed
    PROVE  \A p \in Nat : StringAt[p] = StringBody(StringAt, p)
  <1>. DEFINE Good(f, m) == \A p \in Nat : p + m >= Len(text) => f[p] = StringBody(f, p)
              S == {m \in Nat : ~ \E f : Good(f, m)}
  <1>1. Len(text) \in Nat
    BY TextIs
  <1>2. ASSUME S # {} PROVE FALSE
    <2>1. PICK m \in S : \A k \in S : m <= k
      BY <1>2, Least
    <2>2. CASE m = 0
      <3>. DEFINE none == [p \in Nat |-> Nothing]
      <3>1. ASSUME NEW p \in Nat, p + 0 >= Len(text)
            PROVE  none[p] = StringBody(none, p)
        <4>1. p >= Len(text) /\ none[p] = Nothing
          BY <1>1, <3>1
        <4>. HIDE DEF none
        <4>. QED  BY <4>1, StringBodyEnd
      <3>. QED  BY <2>1, <2>2, <3>1
    <2>3. CASE m # 0
      <3>1. m - 1 \in Nat /\ m - 1 \notin S
        <4>. HIDE DEF S
        <4>1. m \in Nat
          BY DEF S
        <4>. QED  BY <2>1, <2>3, <4>1
      <3>2. PICK f : Good(f, m - 1)
        BY <3>1
      <3>. DEFINE g == [p \in Nat |-> StringBody(f, p)]
      <3>3. ASSUME NEW p \in Nat, p + m >= Len(text)
            PROVE  g[p] = StringBody(g, p)
        <4>1. \A q \in Nat : q > p => f[q] = g[q]
          BY <1>1, <3>2, <3>3
        <4>2. g[p] = StringBody(f, p)
          OBVIOUS
        <4>. HIDE DEF g
        <4>. QED  BY <4>1, <4>2, StringBodyBehind
      <3>. HIDE DEF g
      <3>4. Good(g, m)
        BY <3>3
      <3>. QED  BY <3>4
    <2>. QED  BY <2>2, <2>3
  <1>3. PICK f : Good(f, Len(text))
    BY <1>1, <1>2
  <1>. DEFINE g == [p \in Nat |-> StringBody(f, p)]
  <1>4. \A p \in Nat : f[p] = StringBody(f, p)
    BY <1>1, <1>3
  <1>5. \A p \in Nat : g[p] = StringBody(g, p)
    <2>1. ASSUME NEW p \in Nat PROVE g[p] = StringBody(g, p)
      <3>1. \A q \in Nat : q > p => f[q] = g[q]
        BY <1>4
      <3>2. g[p] = StringBody(f, p)
        OBVIOUS
      <3>. HIDE DEF g
      <3>. QED  BY <3>1, <3>2, StringBodyBehind
    <2>. QED  BY <2>1
  <1>6. g = [p \in Nat |-> g[p]]
    OBVIOUS
  <1>. HIDE DEF g
  <1>7. g = [p \in Nat |-> StringBody(g, p)]
    BY <1>5, <1>6
  <1>8. StringAt = CHOOSE h : h = [p \in Nat |-> StringBody(h, p)]
    BY DEF StringAt, StringBody
  <1>9. StringAt = [p \in Nat |-> StringBody(StringAt, p)]
    BY <1>7, <1>8
  <1>. QED  BY <1>9

LEMMA Joins ==
    ASSUME NEW A, NEW a \in Seq(A), NEW b \in Seq(A), NEW c \in Seq(A)
    PROVE  /\ a \o b \in Seq(A)
           /\ (a \o b) \o c = a \o (b \o c)
           /\ <<>> \o a = a /\ a \o <<>> = a
  <1>1. a \o b \in Seq(A)
    BY ConcatProperties
  <1>2. (a \o b) \o c = a \o (b \o c)
    BY ConcatAssociative
  <1>3. <<>> \o a = a /\ a \o <<>> = a
    BY ConcatEmptySeq
  <1>. QED  BY <1>1, <1>2, <1>3

LEMMA JoinedFields ==
    ASSUME NEW u, NEW r, NEW x, x = [out |-> u.out \o r.out, end |-> r.end]
    PROVE  x.out = u.out \o r.out /\ x.end = r.end
  OBVIOUS

\* A place in the text, behind p, and what is known of the texts it ends.
Ends(r, p) == r.end \in (p + 1) .. Len(text)

LEMMA StringAtEnds ==
    ASSUME Typed, NEW p \in Nat, StringAt[p] # Nothing
    PROVE  Ends(StringAt[p], p) /\ StringAt[p].out \in Seq(Bytes)
  <1>. DEFINE Good(q) == \/ StringAt[q] = Nothing
                         \/ Ends(StringAt[q], q) /\ StringAt[q].out \in Seq(Bytes)
              S == {m \in Nat : \E q \in Nat : q + m >= Len(text) /\ ~Good(q)}
  <1>1. Len(text) \in Nat
    BY TextIs
  <1>2. ASSUME NEW q \in Nat, \A r \in Nat : r > q => Good(r)
        PROVE  Good(q)
    <2>1. StringAt[q] = StringBody(StringAt, q)
      BY StringAtIs
    <2>2. CASE q >= Len(text)
      BY <2>1, <2>2 DEF StringBody
    <2>3. CASE q < Len(text) /\ Char(q) = Quote
      <3>1. StringAt[q] = [out |-> <<>>, end |-> q + 1]
        BY <1>1, <2>1, <2>3 DEF StringBody
      <3>. QED  BY <1>1, <2>3, <3>1 DEF Ends
    <2>4. CASE q < Len(text) /\ Char(q) # Quote /\ Characters(q) = {}
      BY <1>1, <2>1, <2>4 DEF StringBody
    <2>5. CASE q < Len(text) /\ Char(q) # Quote /\ Characters(q) # {}
      <3>. DEFINE u == CHOOSE c \in Characters(q) : TRUE
      <3>1. u \in Characters(q)
        BY <2>5
      <3>2. u.length \in Nat \ {0} /\ u.out \in Seq(Bytes)
        BY <3>1, CharacterIs
      <3>3. StringAt[q] = LET rest == StringAt[q + u.length]
                          IN  IF rest = Nothing THEN Nothing
                              ELSE [out |-> u.out \o rest.out, end |-> rest.end]
        BY <1>1, <2>1, <2>5 DEF StringBody
      <3>. HIDE DEF u
      <3>4. Good(q + u.length) /\ q + u.length > q
        BY <1>2, <3>2
      <3>5. CASE StringAt[q + u.length] = Nothing
        BY <3>3, <3>5
      <3>6. CASE StringAt[q + u.length] # Nothing
        <4>. DEFINE rest == StringAt[q + u.length]
        <4>1. PICK c : c = u
          OBVIOUS
        <4>2. PICK r : r = rest
          OBVIOUS
        <4>3. PICK x : x = StringAt[q]
          OBVIOUS
        <4>4. r.end \in (q + u.length + 1) .. Len(text) /\ r.out \in Seq(Bytes)
          BY <3>4, <3>6, <4>2 DEF Ends
        <4>5. r.end \in (q + 1) .. Len(text)
          BY <1>1, <3>2, <4>4
        <4>6. x.out = c.out \o r.out /\ x.end = r.end
          <5>1. x = [out |-> c.out \o r.out, end |-> r.end]
            BY <3>3, <3>6, <4>1, <4>2, <4>3
          <5>. QED  BY <5>1, JoinedFields
        <4>7. c.out \o r.out \in Seq(Bytes)
          BY <3>2, <4>1, <4>4, Joins
        <4>8. x.end \in (q + 1) .. Len(text) /\ x.out \in Seq(Bytes)
          BY <4>5, <4>6, <4>7
        <4>. QED  BY <4>3, <4>8 DEF Ends
      <3>. QED  BY <3>5, <3>6
    <2>. QED  BY <1>1, <2>2, <2>3, <2>4, <2>5
  <1>3. ASSUME S # {} PROVE FALSE
    <2>1. PICK m \in S : \A k \in S : m <= k
      BY <1>3, Least
    <2>2. PICK q \in Nat : q + m >= Len(text) /\ ~Good(q)
      OBVIOUS
    <2>3. ASSUME NEW r \in Nat, r > q PROVE Good(r)
      <3>1. CASE m = 0
        <4>1. StringAt[r] = Nothing
          BY <1>1, <2>2, <2>3, <3>1, StringAtIs, StringBodyEnd
        <4>. QED  BY <4>1
      <3>2. CASE m # 0
        <4>1. m - 1 \in Nat /\ m - 1 \notin S /\ r + (m - 1) >= Len(text)
          <5>1. m \in Nat
            OBVIOUS
          <5>. HIDE DEF S
          <5>. QED  BY <1>1, <2>1, <2>2, <2>3, <3>2, <5>1
        <4>. QED  BY <4>1
      <3>. QED  BY <3>1, <3>2
    <2>. HIDE DEF Good
    <2>. QED  BY <1>2, <2>2, <2>3
  <1>4. p + Len(text) >= Len(text)
    BY <1>1
  <1>5. Good(p)
    <2>. HIDE DEF Good
    <2>. QED  BY <1>1, <1>3, <1>4
  <1>. QED  BY <1>5

-----------------------------------------------------------------------------
(* The grammar *)

IsSeq(s) == \E A : s \in Seq(A)

LEMMA JoinsAny ==
    ASSUME NEW a, NEW b, NEW c, IsSeq(a), IsSeq(b), IsSeq(c)
    PROVE  /\ IsSeq(a \o b)
           /\ (a \o b) \o c = a \o (b \o c)
           /\ <<>> \o a = a /\ a \o <<>> = a
  <1>1. PICK A : a \in Seq(A)
    BY DEF IsSeq
  <1>2. PICK B : b \in Seq(B)
    BY DEF IsSeq
  <1>3. PICK C : c \in Seq(C)
    BY DEF IsSeq
  <1>4. PICK D : D = A \cup B \cup C
    OBVIOUS
  <1>5. a \in Seq(D) /\ b \in Seq(D) /\ c \in Seq(D)
    BY <1>1, <1>2, <1>3, <1>4
  <1>. QED  BY <1>5, Joins DEF IsSeq

LEMMA OneIsSeq == \A x : IsSeq(<<x>>) /\ IsSeq(<<>>)
  <1>1. ASSUME NEW x PROVE <<x>> \in Seq({x}) /\ <<>> \in Seq({x})
    OBVIOUS
  <1>. QED  BY <1>1 DEF IsSeq

LEMMA BracketsAre ==
    /\ DOMAIN Opening = {"Array", "Object"} /\ DOMAIN Closing = {"Array", "Object"}
    /\ Opening["Array"] = 91 /\ Opening["Object"] = 123
    /\ Closing["Array"] = 93 /\ Closing["Object"] = 125
  BY DEF Opening, Closing

\* The kinds of things the grammar reads.
Kinds == {"value"} \cup DOMAIN Opening

OpenedBy(p) == CHOOSE t \in DOMAIN Opening : Opening[t] = Char(p)

ValueBody(g, p, d) ==
    IF d > 0 /\ Char(p) \in Range(Opening)
      THEN ListAt(OpenedBy(p), p, g[OpenedBy(p)][Solid(p + 1)][d - 1])
      ELSE ScalarAt(p)

MembersBody(g, what, p, d) ==
    LET name  == NameAt(what, p)
        value == g["value"][name.end][d]
        rest  == g[what][Solid(Solid(value.end) + 1)][d]
    IN  IF name = Nothing THEN Nothing
        ELSE IF value = Nothing THEN Nothing
        ELSE MembersAt(what, name, value, rest)

\* What is read at p, by what g says of the places behind it.
GrammarBody(g, what, p, d) ==
    IF what = "value" THEN ValueBody(g, p, d) ELSE MembersBody(g, what, p, d)

LEMMA GrammarChosen ==
    Grammar = CHOOSE g : g = [what \in Kinds |->
                                [p \in 0 .. Len(text) |->
                                    [d \in Nat |-> GrammarBody(g, what, p, d)]]]
  BY DEF Grammar, GrammarBody, ValueBody, MembersBody, Kinds, OpenedBy

\* Every character that counts is in the text.
LEMMA SolidPlace ==
    ASSUME Typed, NEW p \in 0 .. Len(text), NEW c, Char(Solid(p)) = c,
           c \in {Comma, Colon, Quote} \cup Range(Opening) \cup Range(Closing)
    PROVE  /\ Solid(p) \in p .. (Len(text) - 1)
           /\ Solid(Solid(p) + 1) \in (Solid(p) + 1) .. Len(text)
  <1>1. Len(text) \in Nat /\ Char(Len(text)) = 0
    BY TextIs DEF Nul
  <1>2. Solid(p) \in p .. Len(text)
    BY SolidIs
  <1>3. c # 0
    BY BracketsAre DEF Range, Comma, Colon, Quote
  <1>4. Solid(p) \in p .. (Len(text) - 1) /\ Solid(p) + 1 \in 0 .. Len(text)
    BY <1>1, <1>2, <1>3
  <1>. QED  BY <1>4, SolidIs

LEMMA OpenedPlace ==
    ASSUME Typed, NEW p \in 0 .. Len(text), Char(p) \in Range(Opening)
    PROVE  /\ p \in 0 .. (Len(text) - 1)
           /\ Solid(p + 1) \in (p + 1) .. Len(text)
           /\ OpenedBy(p) \in DOMAIN Opening /\ Opening[OpenedBy(p)] = Char(p)
  <1>1. Len(text) \in Nat /\ Char(Len(text)) = 0
    BY TextIs DEF Nul
  <1>2. Char(p) # 0
    BY BracketsAre DEF Range
  <1>3. p \in 0 .. (Len(text) - 1) /\ p + 1 \in 0 .. Len(text)
    BY <1>1, <1>2
  <1>4. OpenedBy(p) \in DOMAIN Opening /\ Opening[OpenedBy(p)] = Char(p)
    BY DEF Range, OpenedBy
  <1>. QED  BY <1>3, <1>4, SolidIs

LEMMA NamePlace ==
    ASSUME Typed, NEW what, NEW p \in 0 .. Len(text), NameAt(what, p) # Nothing
    PROVE  NameAt(what, p).end \in p .. Len(text)
  <1>1. Len(text) \in Nat
    BY TextIs
  <1>2. CASE what = "Array"
    BY <1>1, <1>2 DEF NameAt
  <1>3. CASE what # "Array"
    <2>. DEFINE string == StringAt[p + 1]
                colon  == Solid(string.end)
    <2>1. /\ string # Nothing /\ Char(colon) = Colon
          /\ NameAt(what, p) = [out |-> <<string.out>>, end |-> Solid(colon + 1)]
      BY <1>3 DEF NameAt
    <2>2. string.end \in (p + 2) .. Len(text)
      BY <1>1, <2>1, StringAtEnds DEF Ends
    <2>. HIDE DEF string
    <2>3. string.end \in 0 .. Len(text) /\ string.end > p
      BY <1>1, <2>2
    <2>4. /\ colon \in string.end .. (Len(text) - 1)
          /\ Solid(colon + 1) \in (colon + 1) .. Len(text)
      BY <2>1, <2>3, SolidPlace
    <2>. HIDE DEF colon
    <2>. QED  BY <1>1, <2>1, <2>3, <2>4
  <1>. QED  BY <1>2, <1>3

LEMMA ScalarEnds ==
    ASSUME Typed, NEW p \in 0 .. Len(text), ScalarAt(p) # Nothing
    PROVE  Ends(ScalarAt(p), p)
  <1>. DEFINE words  == {t \in DOMAIN Literals : At(p, Literals[t])}
              string == StringAt[p + 1]
              number == SubSeq(Copied(p), 1, strtod(Copied(p)))
              type   == CHOOSE t \in words : TRUE
  <1>1. Len(text) \in Nat /\ Char(Len(text)) = 0 /\ length = Len(text) + 1
    BY TextIs DEF Nul
  <1>2. CASE words # {}
    <2>1. type \in DOMAIN Literals /\ At(p, Literals[type])
      BY <1>2
    <2>2. ScalarAt(p) = Meaning(type, <<>>, <<>>, p + Len(Literals[type]))
      BY <1>2 DEF ScalarAt
    <2>. HIDE DEF type, words
    <2>3. /\ Len(Literals[type]) \in Nat \ {0}
          /\ Literals[type][Len(Literals[type])] # 0
          /\ Len(Literals[type]) \in DOMAIN Literals[type]
      BY <2>1 DEF Literals
    <2>4. PICK n \in Nat \ {0} : n = Len(Literals[type])
      BY <2>3
    <2>5. p + n <= length /\ Char(p + n - 1) # 0
      BY <2>1, <2>3, <2>4 DEF At
    <2>6. p + n # Len(text) + 1
      BY <1>1, <2>4, <2>5
    <2>. QED  BY <1>1, <2>2, <2>4, <2>5, <2>6 DEF Meaning, Ends
  <1>3. CASE words = {} /\ Char(p) = Quote /\ string # Nothing
    <2>1. ScalarAt(p) = Meaning("String", string.out, <<>>, string.end)
      BY <1>3 DEF ScalarAt
    <2>2. string.end \in (p + 2) .. Len(text)
      BY <1>1, <1>3, StringAtEnds DEF Ends
    <2>. QED  BY <1>1, <2>1, <2>2 DEF Meaning, Ends
  <1>4. CASE /\ words = {} /\ ~(Char(p) = Quote /\ string # Nothing)
             /\ Char(p) \in Digits \cup {45} /\ number # <<>>
    <2>1. ScalarAt(p) = Meaning("Number", number, <<>>, p + Len(number))
      BY <1>4 DEF ScalarAt
    <2>2. Copied(p) \in Seq(Bytes) /\ p + Len(Copied(p)) <= length - 1
      BY <1>1, CopiedInText DEF Typed
    <2>3. strtod(Copied(p)) \in 0 .. Len(Copied(p))
      BY <2>2, strtodTakes
    <2>4. Len(number) \in 1 .. Len(Copied(p))
      BY <1>4, <2>2, <2>3
    <2>. HIDE DEF number
    <2>. QED  BY <1>1, <2>1, <2>2, <2>4 DEF Meaning, Ends
  <1>. QED  BY <1>2, <1>3, <1>4, Zenon DEF ScalarAt

\* What is read is read from the text; members make a list.
Good(what, r, p) ==
    r = Nothing \/ (Ends(r, p) /\ (what = "value" \/ IsSeq(r.out)))

\* How far it is to the end of the text: what is read at a place rests on
\* what is read nearer to the end.
Far(what, p) == 2 * (Len(text) - p) + IF what = "value" THEN 0 ELSE 1

Nearer(w, q, what, p) ==
    w \in Kinds /\ q \in 0 .. Len(text) /\ Far(w, q) < Far(what, p)

GoodBehind(g, what, p) ==
    \A w, q : Nearer(w, q, what, p) => \A d \in Nat : Good(w, g[w][q][d], q)

LEMMA ValueBehind ==
    ASSUME Typed, NEW p \in 0 .. Len(text), NEW d \in Nat, d > 0,
           Char(p) \in Range(Opening)
    PROVE  Nearer(OpenedBy(p), Solid(p + 1), "value", p) /\ d - 1 \in Nat
  <1>1. Len(text) \in Nat /\ "value" \notin DOMAIN Opening
    BY TextIs, BracketsAre
  <1>2. /\ Solid(p + 1) \in (p + 1) .. Len(text) /\ OpenedBy(p) \in DOMAIN Opening
        /\ OpenedBy(p) # "value"
    BY <1>1, OpenedPlace
  <1>3. PICK q : q = Solid(p + 1)
    OBVIOUS
  <1>4. 2 * (Len(text) - q) + 1 < 2 * (Len(text) - p) + 0
    BY <1>1, <1>2, <1>3
  <1>5. Far(OpenedBy(p), Solid(p + 1)) < Far("value", p)
    BY <1>2, <1>3, <1>4 DEF Far
  <1>. QED  BY <1>1, <1>2, <1>5 DEF Nearer, Kinds

LEMMA FirstBehind ==
    ASSUME Typed, NEW what \in DOMAIN Opening, NEW p \in 0 .. Len(text),
           NameAt(what, p) # Nothing
    PROVE  Nearer("value", NameAt(what, p).end, what, p)
  <1>1. Len(text) \in Nat /\ what # "value"
    BY TextIs, BracketsAre
  <1>2. PICK q : q = NameAt(what, p).end
    OBVIOUS
  <1>3. q \in p .. Len(text)
    BY <1>2, NamePlace
  <1>4. 2 * (Len(text) - q) + 0 < 2 * (Len(text) - p) + 1
    BY <1>1, <1>3
  <1>5. Far("value", q) < Far(what, p)
    BY <1>1, <1>4 DEF Far
  <1>. QED  BY <1>1, <1>2, <1>3, <1>5 DEF Nearer, Kinds

LEMMA RestBehind ==
    ASSUME Typed, NEW what \in DOMAIN Opening, NEW p \in 0 .. Len(text),
           NEW e \in (p + 1) .. Len(text), Char(Solid(e)) = Comma
    PROVE  Nearer(what, Solid(Solid(e) + 1), what, p)
  <1>1. Len(text) \in Nat /\ what # "value" /\ e \in 0 .. Len(text)
    BY TextIs, BracketsAre
  <1>2. PICK q : q = Solid(Solid(e) + 1)
    OBVIOUS
  <1>3. Solid(e) \in e .. (Len(text) - 1) /\ q \in (Solid(e) + 1) .. Len(text)
    BY <1>1, <1>2, SolidPlace
  <1>4. q \in 0 .. Len(text) /\ 2 * (Len(text) - q) + 1 < 2 * (Len(text) - p) + 1
    BY <1>1, <1>3
  <1>5. Far(what, q) < Far(what, p)
    BY <1>1, <1>4 DEF Far
  <1>. QED  BY <1>2, <1>4, <1>5 DEF Nearer, Kinds

LEMMA GoodBody ==
    ASSUME Typed, NEW what \in Kinds, NEW p \in 0 .. Len(text), NEW d \in Nat,
           NEW g, GoodBehind(g, what, p)
    PROVE  Good(what, GrammarBody(g, what, p, d), p)
  <1>1. Len(text) \in Nat
    BY TextIs
  <1>2. CASE what = "value" /\ ~(d > 0 /\ Char(p) \in Range(Opening))
    <2>1. GrammarBody(g, what, p, d) = ScalarAt(p)
      BY <1>2 DEF GrammarBody, ValueBody
    <2>. QED  BY <1>2, <2>1, ScalarEnds DEF Good
  <1>3. CASE what = "value" /\ d > 0 /\ Char(p) \in Range(Opening)
    <2>1. PICK type, q, members : /\ type = OpenedBy(p) /\ q = Solid(p + 1)
                                  /\ members = g[type][q][d - 1]
      OBVIOUS
    <2>2. GrammarBody(g, what, p, d) = ListAt(type, p, members)
      BY <1>3, <2>1 DEF GrammarBody, ValueBody
    <2>3. Good(type, members, q)
      BY <1>3, <2>1, ValueBehind DEF GoodBehind
    <2>4. q \in (p + 1) .. Len(text) /\ type \in DOMAIN Opening /\ p \in Nat
      BY <1>3, <2>1, OpenedPlace
    <2>5. CASE Char(q) = Closing[type]
      <3>1. ListAt(type, p, members) = Meaning(type, <<>>, <<>>, q + 1)
        BY <2>1, <2>5 DEF ListAt
      <3>2. Closing[type] \in Range(Closing) /\ p + 1 \in 0 .. Len(text)
        BY <1>1, <2>4, BracketsAre DEF Range
      <3>3. q \in (p + 1) .. (Len(text) - 1)
        BY <2>1, <2>5, <3>2, SolidPlace
      <3>. QED  BY <1>1, <1>3, <2>2, <2>4, <3>1, <3>3 DEF Good, Ends, Meaning
    <2>6. CASE Char(q) # Closing[type] /\ members # Nothing
      <3>1. ListAt(type, p, members) = Meaning(type, <<>>, members.out, members.end)
        BY <2>1, <2>6 DEF ListAt
      <3>2. members.end \in (q + 1) .. Len(text)
        BY <2>3, <2>6 DEF Good, Ends
      <3>. QED  BY <1>1, <1>3, <2>2, <2>4, <3>1, <3>2 DEF Good, Ends, Meaning
    <2>7. CASE Char(q) # Closing[type] /\ members = Nothing
      BY <2>1, <2>2, <2>7 DEF ListAt, Good
    <2>. QED  BY <2>5, <2>6, <2>7
  <1>4. CASE what # "value"
    <2>1. what \in DOMAIN Opening
      BY <1>4 DEF Kinds
    <2>2. PICK name, value, next, rest :
            /\ name = NameAt(what, p) /\ value = g["value"][name.end][d]
            /\ next = Solid(value.end) /\ rest = g[what][Solid(next + 1)][d]
      OBVIOUS
    <2>3. GrammarBody(g, what, p, d) = IF name = Nothing THEN Nothing
                                       ELSE IF value = Nothing THEN Nothing
                                       ELSE MembersAt(what, name, value, rest)
      BY <1>4, <2>2 DEF GrammarBody, MembersBody
    <2>4. CASE name = Nothing \/ value = Nothing
      BY <2>3, <2>4 DEF Good
    <2>5. CASE name # Nothing /\ value # Nothing
      <3>1. Good("value", value, name.end)
        BY <2>1, <2>2, <2>5, FirstBehind DEF GoodBehind
      <3>2. name.end \in p .. Len(text)
        BY <2>2, <2>5, NamePlace
      <3>3. value.end \in (p + 1) .. Len(text) /\ value.end \in 0 .. Len(text)
        BY <1>1, <2>5, <3>1, <3>2 DEF Good, Ends
      <3>4. PICK first : first = [value.out EXCEPT !.name = name.out]
        OBVIOUS
      <3>5. CASE Char(next) = Closing[what]
        <4>1. MembersAt(what, name, value, rest) = [out |-> <<first>>, end |-> next + 1]
          BY <2>2, <3>4, <3>5 DEF MembersAt
        <4>2. Closing[what] \in Range(Closing)
          BY <2>1, BracketsAre DEF Range
        <4>3. next \in value.end .. (Len(text) - 1)
          BY <2>2, <3>3, <3>5, <4>2, SolidPlace
        <4>4. next + 1 \in (p + 1) .. Len(text)
          BY <1>1, <3>3, <4>3
        <4>. QED  BY <2>3, <2>5, <4>1, <4>4, OneIsSeq DEF Good, Ends
      <3>6. CASE Char(next) # Closing[what] /\ Char(next) = Comma /\ rest # Nothing
        <4>1. PICK r : r = [out |-> <<first>> \o rest.out, end |-> rest.end]
          OBVIOUS
        <4>2. MembersAt(what, name, value, rest) = r
          BY <2>2, <3>4, <3>6, <4>1 DEF MembersAt
        <4>3. Good(what, rest, Solid(next + 1))
          BY <2>1, <2>2, <3>3, <3>6, RestBehind DEF GoodBehind
        <4>4. next \in value.end .. (Len(text) - 1)
              /\ Solid(next + 1) \in (next + 1) .. Len(text)
          BY <2>2, <3>3, <3>6, SolidPlace
        <4>5. rest.end \in (p + 1) .. Len(text) /\ IsSeq(rest.out)
          BY <1>1, <1>4, <3>3, <3>6, <4>3, <4>4 DEF Good, Ends
        <4>6. IsSeq(<<first>> \o rest.out)
          BY <4>5, OneIsSeq, JoinsAny
        <4>7. r.end = rest.end /\ r.out = <<first>> \o rest.out
          BY <4>1
        <4>. QED  BY <2>3, <2>5, <4>2, <4>5, <4>6, <4>7 DEF Good, Ends
      <3>7. CASE Char(next) # Closing[what] /\ ~(Char(next) = Comma /\ rest # Nothing)
        <4>1. MembersAt(what, name, value, rest) = Nothing
          BY <2>2, <3>7 DEF MembersAt
        <4>. QED  BY <2>3, <2>5, <4>1 DEF Good
      <3>. QED  BY <3>5, <3>6, <3>7
    <2>. QED  BY <2>4, <2>5
  <1>. QED  BY <1>2, <1>3, <1>4

LEMMA BodyBehind ==
    ASSUME Typed, NEW what \in Kinds, NEW p \in 0 .. Len(text), NEW d \in Nat,
           NEW g, GoodBehind(g, what, p), NEW h,
           \A w, q : Nearer(w, q, what, p) => \A e \in Nat : g[w][q][e] = h[w][q][e]
    PROVE  GrammarBody(g, what, p, d) = GrammarBody(h, what, p, d)
  <1>1. Len(text) \in Nat
    BY TextIs
  <1>2. CASE what = "value" /\ ~(d > 0 /\ Char(p) \in Range(Opening))
    BY <1>2 DEF GrammarBody, ValueBody
  <1>3. CASE what = "value" /\ d > 0 /\ Char(p) \in Range(Opening)
    <2>1. g[OpenedBy(p)][Solid(p + 1)][d - 1] = h[OpenedBy(p)][Solid(p + 1)][d - 1]
      BY <1>3, ValueBehind
    <2>. QED  BY <1>3, <2>1 DEF GrammarBody, ValueBody
  <1>4. CASE what # "value"
    <2>1. what \in DOMAIN Opening
      BY <1>4 DEF Kinds
    <2>2. PICK name, value, next, rest, rest2 :
            /\ name = NameAt(what, p) /\ value = g["value"][name.end][d]
            /\ next = Solid(value.end) /\ rest = g[what][Solid(next + 1)][d]
            /\ rest2 = h[what][Solid(next + 1)][d]
      OBVIOUS
    <2>3. CASE name = Nothing
      BY <1>4, <2>2, <2>3 DEF GrammarBody, MembersBody
    <2>4. CASE name # Nothing
      <3>1. Nearer("value", name.end, what, p)
        BY <2>1, <2>2, <2>4, FirstBehind
      <3>2. value = h["value"][name.end][d] /\ Good("value", value, name.end)
        BY <2>2, <3>1 DEF GoodBehind
      <3>3. GrammarBody(g, what, p, d) =
              IF value = Nothing THEN Nothing ELSE MembersAt(what, name, value, rest)
        BY <1>4, <2>2, <2>4 DEF GrammarBody, MembersBody
      <3>4. GrammarBody(h, what, p, d) =
              IF value = Nothing THEN Nothing ELSE MembersAt(what, name, value, rest2)
        BY <1>4, <2>2, <2>4, <3>2 DEF GrammarBody, MembersBody
      <3>5. CASE value = Nothing
        BY <3>3, <3>4, <3>5
      <3>6. CASE value # Nothing /\ Char(next) = Comma
        <4>1. name.end \in p .. Len(text)
          BY <2>2, <2>4, NamePlace
        <4>2. value.end \in (p + 1) .. Len(text)
          BY <1>1, <3>2, <3>6, <4>1 DEF Good, Ends
        <4>3. Nearer(what, Solid(next + 1), what, p)
          BY <2>1, <2>2, <3>6, <4>2, RestBehind
        <4>4. g[what][Solid(next + 1)][d] = h[what][Solid(next + 1)][d]
          BY <4>3, Zenon
        <4>5. rest = rest2
          BY <2>2, <4>4, Zenon
        <4>. QED  BY <3>3, <3>4, <4>5
      <3>7. CASE value # Nothing /\ Char(next) # Comma
        <4>1. MembersAt(what, name, value, rest) = MembersAt(what, name, value, rest2)
          BY <2>2, <3>7 DEF MembersAt
        <4>. QED  BY <3>3, <3>4, <4>1
      <3>. QED  BY <3>5, <3>6, <3>7
    <2>. QED  BY <2>3, <2>4
  <1>. QED  BY <1>2, <1>3, <1>4

\* g reads by the grammar as far as m from the end of the text.
Reads(g, m) ==
    \A w \in Kinds, q \in 0 .. Len(text), d \in Nat :
        Far(w, q) < m => g[w][q][d] = GrammarBody(g, w, q, d)

LEMMA FarIs ==
    ASSUME Typed
    PROVE  \A w : \A q \in 0 .. Len(text) : Far(w, q) \in Nat /\ Far(w, q) < 2 * Len(text) + 2
  <1>1. Len(text) \in Nat
    BY TextIs
  <1>2. ASSUME NEW w, NEW q \in 0 .. Len(text)
        PROVE  Far(w, q) \in Nat /\ Far(w, q) < 2 * Len(text) + 2
    <2>1. /\ 2 * (Len(text) - q) \in Nat /\ 2 * (Len(text) - q) + 1 < 2 * Len(text) + 2
      BY <1>1
    <2>. QED  BY <2>1, <1>1 DEF Far
  <1>. QED  BY <1>2

LEMMA GoodReads ==
    ASSUME Typed, NEW g, NEW m \in Nat, Reads(g, m),
           NEW w \in Kinds, NEW q \in 0 .. Len(text), NEW d \in Nat, Far(w, q) < m
    PROVE  Good(w, g[w][q][d], q)
  <1>. DEFINE Bad(v, r, e) == ~Good(v, g[v][r][e], r)
              S == {k \in Nat : \E v \in Kinds, r \in 0 .. Len(text), e \in Nat :
                                  Far(v, r) = k /\ k < m /\ Bad(v, r, e)}
  <1>1. ASSUME S # {} PROVE FALSE
    <2>1. PICK k \in S : \A l \in S : k <= l
      BY <1>1, Least
    <2>2. PICK v \in Kinds, r \in 0 .. Len(text), e \in Nat :
            Far(v, r) = k /\ k < m /\ Bad(v, r, e)
      OBVIOUS
    <2>3. ASSUME NEW u, NEW t, Nearer(u, t, v, r), NEW f \in Nat
          PROVE  Good(u, g[u][t][f], t)
      <3>1. u \in Kinds /\ t \in 0 .. Len(text) /\ Far(u, t) < k
        BY <2>2, <2>3 DEF Nearer
      <3>2. Far(u, t) \in Nat /\ k \in Nat
        BY <3>1, FarIs
      <3>3. Far(u, t) \notin S
        <4>. HIDE DEF S
        <4>. QED  BY <2>1, <3>1, <3>2
      <3>. QED  BY <2>2, <3>1, <3>2, <3>3
    <2>4. GoodBehind(g, v, r)
      BY <2>3 DEF GoodBehind
    <2>5. g[v][r][e] = GrammarBody(g, v, r, e)
      BY <2>2 DEF Reads
    <2>. QED  BY <2>2, <2>4, <2>5, GoodBody
  <1>2. Far(w, q) \in Nat
    BY FarIs
  <1>3. ~Bad(w, q, d)
    <2>. HIDE DEF Bad
    <2>. QED  BY <1>1, <1>2
  <1>. QED  BY <1>3

\* One more round.
Read(g) == [what \in Kinds |-> [p \in 0 .. Len(text) |->
                                    [d \in Nat |-> GrammarBody(g, what, p, d)]]]

LEMMA ReadsMore ==
    ASSUME Typed, NEW g, NEW m \in Nat, Reads(g, m)
    PROVE  Reads(Read(g), m + 1)
  <1>1. PICK h : h = Read(g)
    OBVIOUS
  <1>2. \A w \in Kinds, q \in 0 .. Len(text), d \in Nat :
          h[w][q][d] = GrammarBody(g, w, q, d)
    BY <1>1 DEF Read
  <1>3. ASSUME NEW w \in Kinds, NEW q \in 0 .. Len(text), NEW d \in Nat,
               Far(w, q) < m + 1
        PROVE  h[w][q][d] = GrammarBody(h, w, q, d)
    <2>1. \A u, t : Nearer(u, t, w, q) =>
            u \in Kinds /\ t \in 0 .. Len(text) /\ Far(u, t) < m
      BY <1>3, FarIs DEF Nearer
    <2>2. GoodBehind(g, w, q)
      BY <2>1, GoodReads DEF GoodBehind
    <2>3. \A u, t : Nearer(u, t, w, q) => \A e \in Nat : g[u][t][e] = h[u][t][e]
      BY <1>2, <2>1 DEF Reads
    <2>. QED  BY <1>2, <2>2, <2>3, BodyBehind
  <1>. QED  BY <1>1, <1>3 DEF Reads

LEMMA ReadsAll ==
    ASSUME Typed
    PROVE  \A m \in Nat : \E g : Reads(g, m)
  <1>. DEFINE S == {m \in Nat : ~ \E g : Reads(g, m)}
  <1>1. ASSUME S # {} PROVE FALSE
    <2>1. PICK m \in S : \A l \in S : m <= l
      BY <1>1, Least
    <2>2. CASE m = 0
      <3>1. \A w : \A q \in 0 .. Len(text) : ~(Far(w, q) < m)
        BY <2>2, FarIs
      <3>2. Reads(Grammar, m)
        BY <3>1 DEF Reads
      <3>. QED  BY <3>2
    <2>3. CASE m # 0
      <3>1. m \in Nat
        OBVIOUS
      <3>2. m - 1 \in Nat /\ m - 1 \notin S /\ m - 1 + 1 = m
        <4>. HIDE DEF S
        <4>. QED  BY <2>1, <2>3, <3>1
      <3>3. PICK g : Reads(g, m - 1)
        BY <3>2
      <3>4. Reads(Read(g), m)
        BY <3>2, <3>3, ReadsMore
      <3>. QED  BY <3>4
    <2>. QED  BY <2>2, <2>3
  <1>. QED  BY <1>1

\* The grammar is well defined, and what it reads is in the text.
LEMMA GrammarIs ==
    ASSUME Typed, NEW what \in Kinds, NEW p \in 0 .. Len(text), NEW d \in Nat
    PROVE  /\ Grammar[what][p][d] = GrammarBody(Grammar, what, p, d)
           /\ Good(what, Grammar[what][p][d], p)
  <1>1. PICK m \in Nat : m = 2 * Len(text) + 2
    BY TextIs
  <1>2. PICK g : Reads(g, m)
    BY ReadsAll
  <1>3. PICK h : h = Read(g)
    OBVIOUS
  <1>4. \A w \in Kinds, q \in 0 .. Len(text), e \in Nat :
          h[w][q][e] = GrammarBody(g, w, q, e)
    BY <1>3 DEF Read
  <1>5. \A w : \A q \in 0 .. Len(text) : Far(w, q) < m /\ Far(w, q) < m + 1
    BY <1>1, FarIs
  <1>6. Reads(h, m + 1)
    BY <1>2, <1>3, ReadsMore
  <1>7. \A w \in Kinds, q \in 0 .. Len(text), e \in Nat :
          GrammarBody(g, w, q, e) = GrammarBody(h, w, q, e)
    BY <1>4, <1>5, <1>6 DEF Reads
  <1>8. h = Read(h)
    BY <1>3, <1>7 DEF Read
  <1>9. Grammar = CHOOSE f : f = Read(f)
    BY GrammarChosen DEF Read
  <1>10. Grammar = Read(Grammar)
    BY <1>8, <1>9
  <1>11. \A w \in Kinds, q \in 0 .. Len(text), e \in Nat :
           Grammar[w][q][e] = GrammarBody(Grammar, w, q, e)
    <2>1. ASSUME NEW f, f = Read(f),
                 NEW w \in Kinds, NEW q \in 0 .. Len(text), NEW e \in Nat
          PROVE  f[w][q][e] = GrammarBody(f, w, q, e)
      <3>1. Read(f)[w][q][e] = GrammarBody(f, w, q, e)
        BY DEF Read
      <3>. QED  BY <2>1, <3>1
    <2>. QED  BY <1>10, <2>1
  <1>12. Reads(Grammar, m)
    BY <1>11 DEF Reads
  <1>. QED  BY <1>5, <1>11, <1>12, GoodReads

-----------------------------------------------------------------------------
(* Lists of items, and what items say *)

\* c is the list from h on.
ListIn(n, c, h) ==
    /\ c \in Seq(DOMAIN n)
    /\ h = IF c = <<>> THEN NULL ELSE c[1]
    /\ \A a \in 1 .. Len(c) : n[c[a]].next = IF a = Len(c) THEN NULL ELSE c[a + 1]
    /\ \A a, b \in 1 .. Len(c) : c[a] = c[b] => a = b

NameIn(n, t, i) ==
    IF n[i].string = NULL THEN <<>>
    ELSE <<IF n[i].const THEN n[i].string ELSE t[n[i].string]>>

\* The value of item i, if its list is c and w tells the values of the items
\* in it.
Says(n, t, i, c, w) ==
    [type |-> n[i].type,
     name |-> NameIn(n, t, i),
     text |-> IF n[i].type = "Number" THEN n[i].number
              ELSE IF n[i].valuestring = NULL THEN <<>>
              ELSE t[n[i].valuestring],
     members |-> [a \in DOMAIN c |-> w[c[a]]]]

Listed(n, D, C) ==
    \A i \in D : /\ i \in DOMAIN n /\ ListIn(n, C[i], n[i].child)
                 /\ \A a \in 1 .. Len(C[i]) : C[i][a] \in D

\* The items of D have these lists of children and these values, and no
\* others.
Told(n, t, D, C, W) ==
    /\ Listed(n, D, C)
    /\ \A i \in D : W[i] = Says(n, t, i, C[i], W)
    /\ \A V : (\A i \in D : V[i] = Says(n, t, i, C[i], V)) => \A i \in D : V[i] = W[i]

\* Item i says the same in both heaps.
SameSaid(n, t, m, u, i) ==
    /\ m[i].type = n[i].type /\ m[i].number = n[i].number
    /\ m[i].child = n[i].child /\ m[i].const = n[i].const
    /\ m[i].string = n[i].string /\ m[i].valuestring = n[i].valuestring
    /\ n[i].string # NULL => u[n[i].string] = t[n[i].string]
    /\ n[i].valuestring # NULL => u[n[i].valuestring] = t[n[i].valuestring]

LEMMA ListInAs ==
    ASSUME NEW n, NEW m, NEW c, NEW h, ListIn(n, c, h),
           DOMAIN n \subseteq DOMAIN m,
           \A a \in 1 .. Len(c) : m[c[a]].next = n[c[a]].next
    PROVE  ListIn(m, c, h)
  <1>1. c \in Seq(DOMAIN m)
    BY DEF ListIn
  <1>. QED  BY <1>1 DEF ListIn

LEMMA NoList == \A n, h : ListIn(n, <<>>, h) <=> h = NULL
  BY DEF ListIn

LEMMA ToldAs ==
    ASSUME NEW n, NEW t, NEW m, NEW u, NEW D, NEW C, NEW W, Told(n, t, D, C, W),
           DOMAIN n \subseteq DOMAIN m,
           \A i \in D : SameSaid(n, t, m, u, i),
           \A i \in D : \A a \in 1 .. Len(C[i]) : m[C[i][a]].next = n[C[i][a]].next
    PROVE  Told(m, u, D, C, W)
  <1>1. Listed(m, D, C)
    <2>1. ASSUME NEW i \in D
          PROVE  /\ i \in DOMAIN m /\ ListIn(m, C[i], m[i].child)
                 /\ \A a \in 1 .. Len(C[i]) : C[i][a] \in D
      <3>1. /\ i \in DOMAIN n /\ ListIn(n, C[i], n[i].child)
            /\ \A a \in 1 .. Len(C[i]) : C[i][a] \in D
        BY DEF Told, Listed
      <3>2. ListIn(m, C[i], n[i].child)
        BY <3>1, ListInAs
      <3>3. m[i].child = n[i].child
        BY DEF SameSaid
      <3>. QED  BY <3>1, <3>2, <3>3
    <2>. QED  BY <2>1 DEF Listed
  <1>2. ASSUME NEW i \in D, NEW V PROVE Says(m, u, i, C[i], V) = Says(n, t, i, C[i], V)
    <2>1. NameIn(m, u, i) = NameIn(n, t, i)
      BY DEF SameSaid, NameIn
    <2>. QED  BY <2>1 DEF SameSaid, Says
  <1>3. \A i \in D : W[i] = Says(m, u, i, C[i], W)
    BY <1>2 DEF Told
  <1>4. ASSUME NEW V, \A i \in D : V[i] = Says(m, u, i, C[i], V), NEW j \in D
        PROVE  V[j] = W[j]
    <2>1. \A i \in D : V[i] = Says(n, t, i, C[i], V)
      BY <1>2, <1>4
    <2>. QED  BY <2>1 DEF Told
  <1>. QED  BY <1>1, <1>3, <1>4 DEF Told

\* Function f, with y at i.
Put(f, D, i, y) == [x \in D \cup {i} |-> IF x = i THEN y ELSE f[x]]

LEMMA ToldMore ==
    ASSUME NEW n, NEW t, NEW D, NEW C, NEW W, Told(n, t, D, C, W),
           NEW i \in DOMAIN n, i \notin D, NEW c, ListIn(n, c, n[i].child),
           \A a \in 1 .. Len(c) : c[a] \in D
    PROVE  Told(n, t, D \cup {i}, Put(C, D, i, c),
                Put(W, D, i, Says(n, t, i, c, W)))
  <1>1. PICK C2 : C2 = Put(C, D, i, c)
    OBVIOUS
  <1>2. PICK W2 : W2 = Put(W, D, i, Says(n, t, i, c, W))
    OBVIOUS
  <1>3. /\ C2[i] = c /\ W2[i] = Says(n, t, i, c, W)
        /\ \A j \in D : C2[j] = C[j] /\ W2[j] = W[j]
    BY <1>1, <1>2 DEF Put
  <1>4. Listed(n, D, C)
    BY DEF Told
  <1>5. Listed(n, D \cup {i}, C2)
    BY <1>3, <1>4 DEF Listed
  <1>6. c \in Seq(DOMAIN n) /\ DOMAIN c = 1 .. Len(c)
    BY DEF ListIn
  <1>7. ASSUME NEW j \in D
        PROVE  C[j] \in Seq(DOMAIN n) /\ DOMAIN C[j] = 1 .. Len(C[j])
    BY <1>4 DEF Listed, ListIn
  <1>8. ASSUME NEW U, NEW V, \A j \in D : U[j] = V[j]
        PROVE  /\ Says(n, t, i, c, U) = Says(n, t, i, c, V)
               /\ \A j \in D : Says(n, t, j, C[j], U) = Says(n, t, j, C[j], V)
    <2>1. [a \in DOMAIN c |-> U[c[a]]] = [a \in DOMAIN c |-> V[c[a]]]
      BY <1>6, <1>8
    <2>2. ASSUME NEW j \in D
          PROVE  [a \in DOMAIN C[j] |-> U[C[j][a]]] = [a \in DOMAIN C[j] |-> V[C[j][a]]]
      BY <1>4, <1>7, <1>8 DEF Listed
    <2>. QED  BY <2>1, <2>2 DEF Says
  <1>9. \A j \in D \cup {i} : W2[j] = Says(n, t, j, C2[j], W2)
    <2>1. /\ Says(n, t, i, c, W2) = Says(n, t, i, c, W)
          /\ \A j \in D : Says(n, t, j, C[j], W2) = Says(n, t, j, C[j], W)
      BY <1>3, <1>8
    <2>. QED  BY <1>3, <2>1 DEF Told
  <1>10. ASSUME NEW V, \A j \in D \cup {i} : V[j] = Says(n, t, j, C2[j], V)
         PROVE  \A j \in D \cup {i} : V[j] = W2[j]
    <2>1. \A j \in D : V[j] = Says(n, t, j, C[j], V)
      BY <1>3, <1>10
    <2>2. \A j \in D : V[j] = W[j]
      BY <2>1 DEF Told
    <2>3. V[i] = Says(n, t, i, c, W)
      BY <1>3, <1>8, <1>10, <2>2
    <2>. QED  BY <1>3, <2>2, <2>3
  <1>11. Told(n, t, D \cup {i}, C2, W2)
    BY <1>5, <1>9, <1>10 DEF Told
  <1>. QED  BY <1>1, <1>2, <1>11

-----------------------------------------------------------------------------
(* The lists and values of the finished heap *)

\* f begins with x, and goes on by step, as far as n.
Iterates(f, x, step, n) ==
    f[0] = x /\ \A k \in 1 .. n : f[k] = step[f[k - 1]]

LEMMA IteratesOnce ==
    ASSUME NEW x, NEW step, NEW m \in Nat, NEW n \in Nat, NEW f, NEW g,
           Iterates(f, x, step, m), Iterates(g, x, step, n)
    PROVE  \A k \in Nat : k <= m /\ k <= n => f[k] = g[k]
  <1>. DEFINE S == {k \in Nat : k <= m /\ k <= n /\ ~(f[k] = g[k])}
  <1>1. ASSUME S # {} PROVE FALSE
    <2>1. PICK k \in S : \A l \in S : k <= l
      BY <1>1, Least
    <2>2. k \in Nat /\ k <= m /\ k <= n /\ ~(f[k] = g[k])
      OBVIOUS
    <2>3. k # 0
      BY <2>2 DEF Iterates
    <2>4. k - 1 \in Nat /\ k - 1 \notin S /\ k \in 1 .. m /\ k \in 1 .. n
      <3>. HIDE DEF S
      <3>. QED  BY <2>1, <2>2, <2>3
    <2>5. f[k - 1] = g[k - 1]
      BY <2>2, <2>4
    <2>. QED  BY <2>2, <2>4, <2>5 DEF Iterates
  <1>. QED  BY <1>1

Iteration(f, x, step) == f = [k \in Nat |-> IF k = 0 THEN x ELSE step[f[k - 1]]]

LEMMA IteratesExists ==
    ASSUME NEW x, NEW step
    PROVE  \E f : Iteration(f, x, step)
  <1>. DEFINE S == {n \in Nat : ~ \E f : Iterates(f, x, step, n)}
  <1>1. ASSUME S # {} PROVE FALSE
    <2>1. PICK n \in S : \A l \in S : n <= l
      BY <1>1, Least
    <2>2. n \in Nat /\ ~ \E f : Iterates(f, x, step, n)
      OBVIOUS
    <2>3. CASE n = 0
      <3>1. Iterates([k \in {0} |-> x], x, step, n)
        BY <2>3 DEF Iterates
      <3>. QED  BY <2>2, <3>1
    <2>4. CASE n # 0
      <3>1. n - 1 \in Nat /\ n - 1 \notin S
        <4>. HIDE DEF S
        <4>. QED  BY <2>1, <2>2, <2>4
      <3>2. PICK f : Iterates(f, x, step, n - 1)
        BY <3>1
      <3>. DEFINE g == [k \in 0 .. n |-> IF k = n THEN step[f[n - 1]] ELSE f[k]]
      <3>3. /\ g[0] = f[0] /\ g[n] = step[f[n - 1]]
            /\ \A k \in 0 .. (n - 1) : g[k] = f[k]
        BY <2>2, <2>4
      <3>. HIDE DEF g
      <3>4. g[0] = x
        BY <3>2, <3>3 DEF Iterates
      <3>5. ASSUME NEW k \in 1 .. n PROVE g[k] = step[g[k - 1]]
        <4>1. g[k - 1] = f[k - 1]
          BY <2>2, <3>3
        <4>2. CASE k = n
          BY <3>3, <4>1, <4>2
        <4>3. CASE k # n
          <5>1. k \in 1 .. (n - 1) /\ k \in 0 .. (n - 1)
            BY <2>2, <4>3
          <5>. QED  BY <3>2, <3>3, <4>1, <5>1 DEF Iterates
        <4>. QED  BY <4>2, <4>3
      <3>6. Iterates(g, x, step, n)
        BY <3>4, <3>5 DEF Iterates
      <3>. QED  BY <2>2, <3>6
    <2>. QED  BY <2>3, <2>4
  <1>. DEFINE F(n) == CHOOSE f : Iterates(f, x, step, n)
              g == [n \in Nat |-> F(n)[n]]
  <1>2. \A n \in Nat : Iterates(F(n), x, step, n)
    BY <1>1
  <1>3. \A n \in Nat : g[n] = F(n)[n]
    OBVIOUS
  <1>4. g = [n \in Nat |-> g[n]]
    OBVIOUS
  <1>. HIDE DEF F, g
  <1>5. g[0] = x
    BY <1>2, <1>3 DEF Iterates
  <1>6. ASSUME NEW n \in Nat, n # 0
        PROVE  g[n] = step[g[n - 1]]
    <2>1. n - 1 \in Nat /\ n \in 1 .. n
      BY <1>6
    <2>2. F(n)[n] = step[F(n)[n - 1]]
      BY <1>2, <2>1 DEF Iterates
    <2>3. Iterates(F(n), x, step, n) /\ Iterates(F(n - 1), x, step, n - 1)
      BY <1>2, <2>1
    <2>4. F(n)[n - 1] = F(n - 1)[n - 1]
      BY <2>1, <2>3, IteratesOnce
    <2>. QED  BY <1>3, <2>1, <2>2, <2>4
  <1>7. g = [k \in Nat |-> IF k = 0 THEN x ELSE step[g[k - 1]]]
    BY <1>4, <1>5, <1>6
  <1>. QED  BY <1>7 DEF Iteration

\* From in Chain.
Chains(f) ==
    f = [n \in Nat |->
            [j \in Items \cup {NULL} |->
                IF n = 0 \/ j \notin DOMAIN node THEN <<>>
                ELSE <<j>> \o f[n - 1][node[j].next]]]

LEMMA ChainsExists ==
    ASSUME Nodes(node)
    PROVE  \E f : Chains(f)
  <1>. DEFINE X == Items \cup {NULL}
              R == [X -> Seq(Items)]
              none == [j \in X |-> <<>>]
              Next(r) == [j \in X |-> IF j \notin DOMAIN node THEN <<>>
                                      ELSE <<j>> \o r[node[j].next]]
              step == [r \in R |-> Next(r)]
  <1>1. PICK f : f = [n \in Nat |-> IF n = 0 THEN none ELSE step[f[n - 1]]]
    <2>1. \E f : Iteration(f, none, step)
      <3>. HIDE DEF none, step
      <3>. QED  BY IteratesExists
    <2>. QED  BY <2>1 DEF Iteration
  <1>2. none \in R
    OBVIOUS
  <1>3. ASSUME NEW r \in R PROVE Next(r) \in R /\ step[r] = Next(r)
    <2>1. ASSUME NEW j \in DOMAIN node PROVE <<j>> \o r[node[j].next] \in Seq(Items)
      <3>1. j \in Items /\ node[j].next \in X
        BY DEF Nodes, Item
      <3>2. <<j>> \in Seq(Items) /\ r[node[j].next] \in Seq(Items)
        BY <3>1
      <3>. QED  BY <3>2, Joins
    <2>. QED  BY <2>1
  <1>4. \A n \in Nat : f[n] = IF n = 0 THEN none ELSE step[f[n - 1]]
    <2>. HIDE DEF none, step
    <2>. QED  BY <1>1
  <1>5. ASSUME NEW n \in Nat PROVE f[n] \in R
    <2>. DEFINE S == {k \in Nat : f[k] \notin R}
    <2>1. ASSUME S # {} PROVE FALSE
      <3>1. PICK k \in S : \A l \in S : k <= l
        BY <2>1, Least
      <3>2. k \in Nat /\ f[k] \notin R
        OBVIOUS
      <3>3. k # 0
        BY <1>2, <1>4, <3>2
      <3>4. k - 1 \in Nat /\ k - 1 \notin S
        <4>. HIDE DEF S
        <4>. QED  BY <3>1, <3>2, <3>3
      <3>5. f[k - 1] \in R
        BY <3>4
      <3>6. f[k] = step[f[k - 1]]
        BY <1>4, <3>2, <3>3
      <3>. HIDE DEF R, step
      <3>. QED  BY <1>3, <3>2, <3>5, <3>6
    <2>. QED  BY <2>1
  <1>6. ASSUME NEW n \in Nat
        PROVE  f[n] = [j \in X |-> IF n = 0 \/ j \notin DOMAIN node THEN <<>>
                                   ELSE <<j>> \o f[n - 1][node[j].next]]
    <2>1. CASE n = 0
      BY <1>4, <2>1
    <2>2. CASE n # 0
      <3>1. n - 1 \in Nat
        BY <2>2
      <3>2. f[n] = Next(f[n - 1])
        BY <1>3, <1>4, <1>5, <2>2, <3>1
      <3>. QED  BY <2>2, <3>2
    <2>. QED  BY <2>1, <2>2
  <1>7. f = [n \in Nat |-> f[n]]
    BY <1>1
  <1>8. f = [n \in Nat |->
               [j \in X |-> IF n = 0 \/ j \notin DOMAIN node THEN <<>>
                            ELSE <<j>> \o f[n - 1][node[j].next]]]
    <2>. HIDE DEF none, step, X
    <2>. QED  BY <1>6, <1>7
  <1>. QED  BY <1>8 DEF Chains

LEMMA ChainsAt ==
    ASSUME NEW f, Chains(f), NEW n \in Nat, NEW j \in Items \cup {NULL}
    PROVE  f[n][j] = IF n = 0 \/ j \notin DOMAIN node THEN <<>>
                     ELSE <<j>> \o f[n - 1][node[j].next]
  <1>1. f[n] = [i \in Items \cup {NULL} |->
                  IF n = 0 \/ i \notin DOMAIN node THEN <<>>
                  ELSE <<i>> \o f[n - 1][node[i].next]]
    BY DEF Chains
  <1>. QED  BY <1>1

LEMMA Shortens ==
    ASSUME NEW A, NEW c \in Seq(A), NEW a \in 1 .. Len(c)
    PROVE  <<c[a]>> \o SubSeq(c, a + 1, Len(c)) = SubSeq(c, a, Len(c))
  OBVIOUS

LEMMA ChainIs ==
    ASSUME Nodes(node), IsFiniteSet(DOMAIN node), NEW c, NEW h, ListIn(node, c, h)
    PROVE  Chain(h) = c
  <1>. DEFINE f == CHOOSE g : Chains(g)
              card == Cardinality(DOMAIN node)
              itemAt(a) == IF a = Len(c) + 1 THEN NULL ELSE c[a]
              S == {n \in Nat : ~ \A a \in 1 .. (Len(c) + 1) :
                                    Len(c) - a + 1 <= n =>
                                        f[n][itemAt(a)] = SubSeq(c, a, Len(c))}
  <1>1. Chain(h) = f[card][h]
    BY Zenon DEF Chain, Chains
  <1>2. Chains(f)
    BY ChainsExists
  <1>3. /\ c \in Seq(DOMAIN node) /\ Len(c) \in Nat /\ NULL \notin DOMAIN node
        /\ DOMAIN node \subseteq Items
    BY HeapAssumption DEF ListIn, Nodes
  <1>4. \A n \in Nat, j \in Items \cup {NULL} :
          f[n][j] = IF n = 0 \/ j \notin DOMAIN node THEN <<>>
                    ELSE <<j>> \o f[n - 1][node[j].next]
    <2>. HIDE DEF f
    <2>. QED  BY <1>2, ChainsAt
  <1>. HIDE DEF f
  <1>5. ASSUME S # {} PROVE FALSE
    <2>1. PICK n \in S : \A l \in S : n <= l
      BY <1>5, Least
    <2>2. n \in Nat
      OBVIOUS
    <2>3. PICK a \in 1 .. (Len(c) + 1) :
            Len(c) - a + 1 <= n /\ ~(f[n][itemAt(a)] = SubSeq(c, a, Len(c)))
      OBVIOUS
    <2>4. CASE a = Len(c) + 1
      <3>1. SubSeq(c, a, Len(c)) = <<>>
        BY <1>3, <2>4
      <3>2. f[n][NULL] = <<>>
        BY <1>3, <1>4, <2>2
      <3>. QED  BY <2>3, <2>4, <3>1, <3>2
    <2>5. CASE a # Len(c) + 1
      <3>1. a \in 1 .. Len(c) /\ n # 0 /\ n - 1 \in Nat
            /\ a + 1 \in 1 .. (Len(c) + 1) /\ Len(c) - (a + 1) + 1 <= n - 1
        BY <1>3, <2>2, <2>3, <2>5
      <3>2. n - 1 \notin S
        <4>. HIDE DEF S
        <4>. QED  BY <2>1, <2>2, <3>1
      <3>3. f[n - 1][itemAt(a + 1)] = SubSeq(c, a + 1, Len(c))
        <4>. HIDE DEF place
        <4>. QED  BY <3>1, <3>2
      <3>4. c[a] \in DOMAIN node /\ node[c[a]].next = itemAt(a + 1)
        BY <1>3, <3>1 DEF ListIn
      <3>5. f[n][c[a]] = <<c[a]>> \o f[n - 1][itemAt(a + 1)]
        <4>1. PICK j, y : j = c[a] /\ y = itemAt(a + 1)
          OBVIOUS
        <4>2. f[n][j] = <<j>> \o f[n - 1][node[j].next]
          BY <1>3, <1>4, <2>2, <3>1, <3>4, <4>1
        <4>3. node[j].next = y
          BY <3>4, <4>1
        <4>. HIDE DEF place
        <4>. QED  BY <4>1, <4>2, <4>3
      <3>6. <<c[a]>> \o SubSeq(c, a + 1, Len(c)) = SubSeq(c, a, Len(c))
        BY <1>3, <3>1, Shortens
      <3>. QED  BY <2>3, <2>5, <3>3, <3>5, <3>6
    <2>. QED  BY <2>4, <2>5
  <1>6. card \in Nat /\ Len(c) <= card
    <2>1. c \in [1 .. Len(c) -> DOMAIN node]
      BY <1>3
    <2>2. c \in Injection(1 .. Len(c), DOMAIN node)
      BY <2>1 DEF ListIn, Injection, IsInjective
    <2>3. Cardinality(1 .. Len(c)) = Len(c) /\ IsFiniteSet(1 .. Len(c))
      <3>1. PICK l \in Nat : l = Len(c)
        BY <1>3
      <3>2. IsFiniteSet(1 .. l) /\ Cardinality(1 .. l) = IF 1 > l THEN 0 ELSE l - 1 + 1
        BY FS_Interval
      <3>3. Cardinality(1 .. l) = l
        BY <3>2
      <3>. QED  BY <3>1, <3>2, <3>3
    <2>4. Cardinality(1 .. Len(c)) <= Cardinality(DOMAIN node)
      BY <2>2, <2>3, FS_Injection
    <2>. QED  BY <2>3, <2>4, FS_CardinalityType
  <1>7. 1 \in 1 .. (Len(c) + 1) /\ Len(c) - 1 + 1 <= card
    BY <1>3, <1>6
  <1>8. f[card][itemAt(1)] = SubSeq(c, 1, Len(c))
    <2>. HIDE DEF place
    <2>. QED  BY <1>5, <1>6, <1>7
  <1>9. itemAt(1) = h /\ SubSeq(c, 1, Len(c)) = c
    BY <1>3 DEF ListIn
  <1>. QED  BY <1>1, <1>8, <1>9

\* ValueOf is well defined when every item is told.
LEMMA ValueOfIs ==
    ASSUME Nodes(node), IsFiniteSet(DOMAIN node), NEW C, NEW W,
           Told(node, str, DOMAIN node, C, W), NEW i \in DOMAIN node
    PROVE  ValueOf[i] = W[i]
  <1>. DEFINE Values(f) == f = [j \in DOMAIN node |-> Says(node, str, j, Children(j), f)]
              D == DOMAIN node
  <1>1. \A j \in D : ListIn(node, C[j], node[j].child)
    BY DEF Told, Listed
  <1>2. \A j \in D : Children(j) = C[j]
    BY <1>1, ChainIs DEF Children
  <1>3. ValueOf = CHOOSE f : Values(f)
    BY DEF ValueOf, Says, NameIn, Name
  <1>4. PICK w : w = [j \in D |-> W[j]]
    OBVIOUS
  <1>5. ASSUME NEW j \in D PROVE Says(node, str, j, C[j], w) = Says(node, str, j, C[j], W)
    <2>1. DOMAIN C[j] = 1 .. Len(C[j]) /\ \A a \in 1 .. Len(C[j]) : C[j][a] \in D
      BY DEF Told, Listed, ListIn
    <2>2. [a \in DOMAIN C[j] |-> w[C[j][a]]] = [a \in DOMAIN C[j] |-> W[C[j][a]]]
      BY <1>4, <2>1
    <2>. QED  BY <2>2 DEF Says
  <1>6. \A j \in D : w[j] = Says(node, str, j, Children(j), w)
    BY <1>2, <1>4, <1>5 DEF Told
  <1>7. Values(w)
    BY <1>4, <1>6
  <1>8. Values(ValueOf)
    <2>. HIDE DEF Values
    <2>. QED  BY <1>3, <1>7
  <1>9. PICK v : v = ValueOf
    OBVIOUS
  <1>10. v = [j \in D |-> Says(node, str, j, Children(j), v)]
    BY <1>8, <1>9
  <1>11. \A j \in D : v[j] = Says(node, str, j, C[j], v)
    BY <1>2, <1>10
  <1>. QED  BY <1>9, <1>11 DEF Told

-----------------------------------------------------------------------------
(* The heap while the parser works *)

\* The last item of the list of frame k, or the result; as far as top they
\* have no value yet.
CurOf(s, r, k) == IF k = 0 THEN r ELSE s[k].current

Finished(n, s, r, top) == DOMAIN n \ {CurOf(s, r, k) : k \in 0 .. top}

\* L[k] is the list frame k makes for an item of the list below it.
Shaped(n, s, r, top, L) ==
    /\ \A k \in 0 .. top : /\ CurOf(s, r, k) \in DOMAIN n
                           /\ n[CurOf(s, r, k)].child = NULL
                           /\ n[CurOf(s, r, k)].valuestring = NULL
    /\ \A k \in 1 .. Len(s) :
         /\ s[k].item = CurOf(s, r, k - 1)
         /\ ListIn(n, L[k], s[k].head)
         /\ s[k].current = IF L[k] = <<>> THEN NULL ELSE L[k][Len(L[k])]
         /\ \A a \in 1 .. Len(L[k]) : L[k][a] # r
    /\ \A k, l \in 1 .. Len(s) :
         k # l => \A a \in 1 .. Len(L[k]), b \in 1 .. Len(L[l]) : L[k][a] # L[l][b]
    /\ r \in DOMAIN n /\ n[r].string = NULL

Held(n, t, s, r, top, L, C, W) ==
    /\ Shaped(n, s, r, top, L)
    /\ Told(n, t, Finished(n, s, r, top), C, W)
    /\ \A i \in Finished(n, s, r, top), k \in 1 .. Len(s) :
         \A a \in 1 .. Len(C[i]), b \in 1 .. Len(L[k]) : C[i][a] # L[k][b]

\* The last items are different ones, and the others of the lists finished.
LEMMA CurrentsDiffer ==
    ASSUME NEW n, NEW s, NEW r, NEW top, NEW L, Shaped(n, s, r, top, L),
           NULL \notin DOMAIN n, Len(s) \in Nat,
           top = Len(s) - 1 \/ top = Len(s)
    PROVE  /\ \A k, l \in 0 .. top : k # l => CurOf(s, r, k) # CurOf(s, r, l)
           /\ \A k \in 1 .. Len(s) : \A a \in 1 .. Len(L[k]) :
                a < Len(L[k]) \/ k > top => L[k][a] \in Finished(n, s, r, top)
  <1>1. ASSUME NEW k \in 1 .. Len(s)
        PROVE  /\ L[k] \in Seq(DOMAIN n) /\ Len(L[k]) \in Nat
               /\ \A a \in 1 .. Len(L[k]) : L[k][a] \in DOMAIN n
               /\ k <= top => /\ Len(L[k]) \in 1 .. Len(L[k])
                              /\ CurOf(s, r, k) = L[k][Len(L[k])]
               /\ \A a, b \in 1 .. Len(L[k]) : L[k][a] = L[k][b] => a = b
               /\ \A a \in 1 .. Len(L[k]) : L[k][a] # r
    <2>1. /\ L[k] \in Seq(DOMAIN n)
          /\ \A a, b \in 1 .. Len(L[k]) : L[k][a] = L[k][b] => a = b
          /\ \A a \in 1 .. Len(L[k]) : L[k][a] # r
          /\ CurOf(s, r, k) = IF L[k] = <<>> THEN NULL ELSE L[k][Len(L[k])]
      BY DEF Shaped, ListIn, CurOf
    <2>2. Len(L[k]) \in Nat /\ \A a \in 1 .. Len(L[k]) : L[k][a] \in DOMAIN n
      BY <2>1
    <2>3. ASSUME k <= top PROVE Len(L[k]) \in 1 .. Len(L[k]) /\ L[k] # <<>>
      <3>1. CurOf(s, r, k) \in DOMAIN n
        BY <2>3 DEF Shaped
      <3>2. L[k] # <<>>
        BY <2>1, <3>1
      <3>. QED  BY <2>1, <3>2
    <2>. QED  BY <2>1, <2>2, <2>3
  <1>2. \A k, l \in 1 .. Len(s) :
          k # l => \A a \in 1 .. Len(L[k]), b \in 1 .. Len(L[l]) : L[k][a] # L[l][b]
    BY DEF Shaped
  <1>3. ASSUME NEW k \in 1 .. Len(s), NEW a \in 1 .. Len(L[k]),
               NEW l \in 0 .. top, L[k][a] = CurOf(s, r, l)
        PROVE  k = l /\ a = Len(L[k])
    <2>1. l # 0
      BY <1>1, <1>3 DEF CurOf
    <2>2. l \in 1 .. Len(s) /\ l <= top
      BY <2>1
    <2>3. CurOf(s, r, l) = L[l][Len(L[l])] /\ Len(L[l]) \in 1 .. Len(L[l])
      BY <1>1, <2>2
    <2>4. k = l
      BY <1>2, <1>3, <2>2, <2>3
    <2>. QED  BY <1>1, <1>3, <2>3, <2>4
  <1>4. ASSUME NEW k \in 0 .. top, NEW l \in 0 .. top, k # l
        PROVE  CurOf(s, r, k) # CurOf(s, r, l)
    <2>1. CASE k # 0
      <3>1. k \in 1 .. Len(s) /\ k <= top
        BY <2>1
      <3>. QED  BY <1>1, <1>3, <1>4, <3>1
    <2>2. CASE k = 0
      <3>1. l \in 1 .. Len(s) /\ l <= top
        BY <1>4, <2>2
      <3>. QED  BY <1>1, <1>3, <1>4, <3>1
    <2>. QED  BY <2>1, <2>2
  <1>5. ASSUME NEW k \in 1 .. Len(s), NEW a \in 1 .. Len(L[k]),
               a < Len(L[k]) \/ k > top
        PROVE  L[k][a] \in Finished(n, s, r, top)
    <2>1. L[k][a] \in DOMAIN n /\ Len(L[k]) \in Nat
      BY <1>1
    <2>2. ASSUME NEW l \in 0 .. top PROVE L[k][a] # CurOf(s, r, l)
      BY <1>3, <1>5, <2>1
    <2>. QED  BY <2>1, <2>2 DEF Finished
  <1>. QED  BY <1>4, <1>5

\* A step that changes no link, nor what a finished item says.
LEMMA HeldSame ==
    ASSUME NEW n, NEW t, NEW m, NEW u, NEW s, NEW r, NEW top, NEW L, NEW C, NEW W,
           Held(n, t, s, r, top, L, C, W), Nodes(n), Len(s) \in Nat,
           DOMAIN m = DOMAIN n, \A i \in DOMAIN n : m[i].next = n[i].next,
           \A i \in Finished(n, s, r, top) : SameSaid(n, t, m, u, i),
           \A k \in 0 .. top : LET i == CurOf(s, r, k)
                               IN  /\ m[i].child = n[i].child
                                   /\ m[i].valuestring = n[i].valuestring,
           m[r].string = n[r].string
    PROVE  Held(m, u, s, r, top, L, C, W)
  <1>1. Finished(m, s, r, top) = Finished(n, s, r, top)
    BY DEF Finished
  <1>2. ASSUME NEW k \in 1 .. Len(s) PROVE ListIn(m, L[k], s[k].head)
    <2>1. ListIn(n, L[k], s[k].head)
      BY DEF Held, Shaped
    <2>2. \A a \in 1 .. Len(L[k]) : L[k][a] \in DOMAIN n
      BY <2>1 DEF ListIn
    <2>. QED  BY <2>1, <2>2, ListInAs
  <1>3. Shaped(m, s, r, top, L)
    BY <1>2 DEF Held, Shaped
  <1>4. Told(m, u, Finished(n, s, r, top), C, W)
    <2>1. Told(n, t, Finished(n, s, r, top), C, W)
      BY DEF Held
    <2>2. \A i \in Finished(n, s, r, top) :
            \A a \in 1 .. Len(C[i]) : m[C[i][a]].next = n[C[i][a]].next
      BY <2>1 DEF Told, Listed, Finished
    <2>. QED  BY <2>1, <2>2, ToldAs
  <1>. QED  BY <1>1, <1>3, <1>4 DEF Held

Under(low, top) == top \in Nat /\ low = top - 1

\* The item at the top is finished: it has the list c, which was the list of
\* the frame above or is empty.
LEMMA HeldMore ==
    ASSUME NEW n, NEW t, NEW m, NEW s, NEW r, NEW top, NEW L, NEW C, NEW W,
           NEW z, NEW i, NEW c, NEW D, NEW low, Under(low, top),
           Held(n, t, s, r, top, L, C, W), Nodes(n), Len(s) \in Nat,
           top \in Nat, top = Len(s) - 1 \/ top = Len(s),
           Len(z) = top, \A k \in 1 .. top : z[k] = s[k],
           i = CurOf(s, r, top), DOMAIN m = DOMAIN n,
           \A j \in DOMAIN n \ {i} : m[j] = n[j],
           m[i].next = n[i].next, m[i].string = n[i].string,
           ListIn(n, c, m[i].child), D = Finished(n, s, r, top),
           \A a \in 1 .. Len(c) : c[a] \in D,
           \A k \in 1 .. top : \A a \in 1 .. Len(c), b \in 1 .. Len(L[k]) :
               c[a] # L[k][b]
    PROVE  /\ Held(m, t, z, r, low, L, Put(C, D, i, c),
                   Put(W, D, i, Says(m, t, i, c, W)))
           /\ i \notin D
  <1>0. low = top - 1
    BY DEF Under
  <1>1. /\ Shaped(n, s, r, top, L) /\ Told(n, t, D, C, W)
        /\ NULL \notin DOMAIN n
    BY HeapAssumption DEF Held, Nodes
  <1>2. \A k, l \in 0 .. top : k # l => CurOf(s, r, k) # CurOf(s, r, l)
    <2>1. /\ Shaped(n, s, r, top, L) /\ NULL \notin DOMAIN n
          /\ Len(s) \in Nat /\ (top = Len(s) - 1 \/ top = Len(s))
      BY <1>1
    <2>. QED  BY ONLY <2>1, CurrentsDiffer
  <1>3. \A k \in 0 .. top : CurOf(z, r, k) = CurOf(s, r, k)
    BY DEF CurOf
  <1>4. i \in DOMAIN n /\ i \notin D
    BY <1>1 DEF Shaped, Finished
  <1>5. Finished(m, z, r, top - 1) = D \cup {i}
    <2>1. ASSUME NEW x \in DOMAIN n
          PROVE  x \in Finished(m, z, r, top - 1) <=> x \in D \cup {i}
      <3>1. CASE x = i
        <4>1. \A k \in 0 .. (top - 1) : CurOf(z, r, k) # x
          BY <1>2, <1>3, <3>1
        <4>. QED  BY <3>1, <4>1 DEF Finished
      <3>2. CASE x # i
        BY <1>3, <3>2 DEF Finished
      <3>. QED  BY <3>1, <3>2
    <2>. QED  BY <1>4, <2>1 DEF Finished
  <1>6. \A x \in DOMAIN n : m[x].next = n[x].next
    OBVIOUS
  <1>7. Told(m, t, D, C, W)
    <2>1. ASSUME NEW x \in D PROVE SameSaid(n, t, m, t, x)
      BY <1>4 DEF Finished, SameSaid
    <2>2. \A x \in D : \A a \in 1 .. Len(C[x]) : C[x][a] \in DOMAIN n
      BY <1>1 DEF Told, Listed, Finished
    <2>. QED  BY <1>1, <1>6, <2>1, <2>2, ToldAs
  <1>8. ListIn(m, c, m[i].child)
    <2>1. \A a \in 1 .. Len(c) : c[a] \in DOMAIN n
      BY DEF ListIn
    <2>. QED  BY <1>6, <2>1, ListInAs
  <1>9. Told(m, t, D \cup {i}, Put(C, D, i, c), Put(W, D, i, Says(m, t, i, c, W)))
    BY <1>4, <1>7, <1>8, ToldMore
  <1>10. Shaped(m, z, r, top - 1, L)
    <2>1. ASSUME NEW k \in 0 .. (top - 1)
          PROVE  /\ CurOf(z, r, k) \in DOMAIN m
                 /\ m[CurOf(z, r, k)].child = NULL
                 /\ m[CurOf(z, r, k)].valuestring = NULL
      <3>1. k \in 0 .. top /\ CurOf(s, r, k) # i
        BY <1>2
      <3>. QED  BY <1>1, <1>3, <3>1 DEF Shaped
    <2>2. ASSUME NEW k \in 1 .. Len(z)
          PROVE  /\ z[k].item = CurOf(z, r, k - 1)
                 /\ ListIn(m, L[k], z[k].head)
                 /\ z[k].current = IF L[k] = <<>> THEN NULL ELSE L[k][Len(L[k])]
                 /\ \A a \in 1 .. Len(L[k]) : L[k][a] # r
      <3>1. k \in 1 .. Len(s) /\ z[k] = s[k] /\ k - 1 \in 0 .. top
        OBVIOUS
      <3>2. ListIn(n, L[k], s[k].head)
        BY <1>1, <3>1 DEF Shaped
      <3>3. \A a \in 1 .. Len(L[k]) : L[k][a] \in DOMAIN n
        BY <3>2 DEF ListIn
      <3>4. ListIn(m, L[k], s[k].head)
        BY <1>6, <3>2, <3>3, ListInAs
      <3>. QED  BY <1>1, <1>3, <3>1, <3>4 DEF Shaped
    <2>3. ASSUME NEW k \in 1 .. Len(z), NEW l \in 1 .. Len(z), k # l,
                 NEW a \in 1 .. Len(L[k]), NEW b \in 1 .. Len(L[l])
          PROVE  L[k][a] # L[l][b]
      <3>1. k \in 1 .. Len(s) /\ l \in 1 .. Len(s)
        OBVIOUS
      <3>2. \A x, y \in 1 .. Len(s) : x # y =>
              \A a1 \in 1 .. Len(L[x]), b1 \in 1 .. Len(L[y]) : L[x][a1] # L[y][b1]
        BY <1>1 DEF Shaped
      <3>. QED  BY ONLY <2>3, <3>1, <3>2
    <2>4. r \in DOMAIN m /\ m[r].string = NULL
      BY <1>1 DEF Shaped
    <2>. QED  BY <2>1, <2>2, <2>3, <2>4 DEF Shaped
  <1>11. ASSUME NEW x \in D \cup {i}, NEW k \in 1 .. Len(z)
         PROVE  \A a \in 1 .. Len(Put(C, D, i, c)[x]), b \in 1 .. Len(L[k]) :
                  Put(C, D, i, c)[x][a] # L[k][b]
    <2>1. CASE x = i
      <3>1. Put(C, D, i, c)[x] = c
        BY <2>1 DEF Put
      <3>. QED  BY <3>1
    <2>2. CASE x # i
      <3>1. Put(C, D, i, c)[x] = C[x] /\ x \in D /\ k \in 1 .. Len(s)
        BY <2>2 DEF Put
      <3>. QED  BY <3>1 DEF Held
    <2>. QED  BY <2>1, <2>2
  <1>. QED  BY <1>0, <1>4, <1>5, <1>9, <1>10, <1>11 DEF Held

\* A list is begun for the item at the top.
LEMMA HeldOpened ==
    ASSUME NEW n, NEW t, NEW s, NEW r, NEW L, NEW C, NEW W,
           Held(n, t, s, r, Len(s), L, C, W), Len(s) \in Nat,
           NEW z, Len(z) = Len(s) + 1, \A k \in 1 .. Len(s) : z[k] = s[k],
           z[Len(s) + 1].item = CurOf(s, r, Len(s)),
           z[Len(s) + 1].head = NULL, z[Len(s) + 1].current = NULL,
           NEW M, M[Len(s) + 1] = <<>>, \A k \in 1 .. Len(s) : M[k] = L[k]
    PROVE  /\ Held(n, t, z, r, Len(s), M, C, W)
           /\ Finished(n, z, r, Len(s)) = Finished(n, s, r, Len(s))
  <1>1. \A k \in 0 .. Len(s) : CurOf(z, r, k) = CurOf(s, r, k)
    BY DEF CurOf
  <1>2. Finished(n, z, r, Len(s)) = Finished(n, s, r, Len(s))
    <2>1. {CurOf(z, r, k) : k \in 0 .. Len(s)} = {CurOf(s, r, k) : k \in 0 .. Len(s)}
      BY <1>1
    <2>. QED  BY <2>1 DEF Finished
  <1>3. \A k \in 1 .. Len(z) : k \in 1 .. Len(s) \/ k = Len(s) + 1
    OBVIOUS
  <1>4. Len(M[Len(s) + 1]) = 0
    OBVIOUS
  <1>5. Shaped(n, z, r, Len(s), M)
    <2>1. ASSUME NEW k \in 1 .. Len(z)
          PROVE  /\ z[k].item = CurOf(z, r, k - 1)
                 /\ ListIn(n, M[k], z[k].head)
                 /\ z[k].current = IF M[k] = <<>> THEN NULL ELSE M[k][Len(M[k])]
                 /\ \A a \in 1 .. Len(M[k]) : M[k][a] # r
      <3>1. CASE k \in 1 .. Len(s)
        <4>1. k - 1 \in 0 .. Len(s)
          BY <3>1
        <4>. QED  BY <1>1, <3>1, <4>1 DEF Held, Shaped
      <3>2. CASE k = Len(s) + 1
        <4>1. k - 1 = Len(s) /\ Len(s) \in 0 .. Len(s)
          BY <3>2
        <4>. QED  BY <1>1, <1>4, <3>2, <4>1, NoList
      <3>. QED  BY <1>3, <3>1, <3>2
    <2>2. ASSUME NEW k \in 1 .. Len(z), NEW l \in 1 .. Len(z), k # l,
                 NEW a \in 1 .. Len(M[k]), NEW b \in 1 .. Len(M[l])
          PROVE  M[k][a] # M[l][b]
      <3>1. k \in 1 .. Len(s) /\ l \in 1 .. Len(s)
        <4>1. k # Len(s) + 1 /\ l # Len(s) + 1
          BY <1>4
        <4>. QED  BY <1>3, <4>1
      <3>2. M[k] = L[k] /\ M[l] = L[l]
        BY <3>1
      <3>3. a \in 1 .. Len(L[k]) /\ b \in 1 .. Len(L[l])
        BY <3>2
      <3>4. L[k][a] # L[l][b]
        BY <2>2, <3>1, <3>3, Zenon DEF Held, Shaped
      <3>. QED  BY <3>2, <3>4
    <2>. QED  BY <1>1, <2>1, <2>2 DEF Held, Shaped
  <1>6. ASSUME NEW i \in Finished(n, s, r, Len(s)), NEW k \in 1 .. Len(z),
               NEW a \in 1 .. Len(C[i]), NEW b \in 1 .. Len(M[k])
        PROVE  C[i][a] # M[k][b]
    <2>1. k \in 1 .. Len(s)
      <3>1. k # Len(s) + 1
        BY <1>4
      <3>. QED  BY <1>3, <3>1
    <2>2. M[k] = L[k]
      BY <2>1
    <2>3. b \in 1 .. Len(L[k])
      BY <2>2
    <2>4. C[i][a] # L[k][b]
      BY <2>1, <2>3, Zenon DEF Held
    <2>. QED  BY <2>2, <2>4
  <1>. QED  BY <1>2, <1>5, <1>6 DEF Held

LEMMA AppendIs ==
    ASSUME NEW A, NEW c \in Seq(A), NEW x, NEW y, y = Append(c, x)
    PROVE  /\ Len(c) \in Nat /\ Len(y) = Len(c) + 1 /\ y[Len(c) + 1] = x /\ y # <<>>
           /\ \A a \in 1 .. Len(c) : y[a] = c[a]
           /\ y \in Seq(A \cup {x})
  <1>1. c \in Seq(A \cup {x})
    OBVIOUS
  <1>. QED  BY <1>1

LastOf(c) == IF c = <<>> THEN NULL ELSE c[Len(c)]

\* A new item at the end of a list.
LEMMA ListInNew ==
    ASSUME NEW n, NEW m, NEW c, NEW h, NEW new, NEW g,
           ListIn(n, c, h), new \notin DOMAIN n,
           NULL \notin DOMAIN n, DOMAIN m = DOMAIN n \cup {new},
           \A i \in DOMAIN n : m[i].next = IF i = LastOf(c) THEN new ELSE n[i].next,
           m[new].next = NULL, g = IF h = NULL THEN new ELSE h
    PROVE  ListIn(m, Append(c, new), g)
  <1>0. PICK y, p : y = Append(c, new) /\ p = LastOf(c)
    OBVIOUS
  <1>1. /\ c \in Seq(DOMAIN n) /\ Len(c) \in Nat
        /\ h = IF c = <<>> THEN NULL ELSE c[1]
        /\ \A a \in 1 .. Len(c) : n[c[a]].next = IF a = Len(c) THEN NULL ELSE c[a + 1]
        /\ \A a, b \in 1 .. Len(c) : c[a] = c[b] => a = b
    BY DEF ListIn
  <1>2. /\ Len(y) = Len(c) + 1 /\ y[Len(c) + 1] = new /\ y # <<>>
        /\ \A a \in 1 .. Len(c) : y[a] = c[a]
        /\ y \in Seq(DOMAIN m)
    BY <1>0, <1>1, AppendIs
  <1>3. \A a \in 1 .. Len(y) : a \in 1 .. Len(c) \/ a = Len(c) + 1
    BY <1>1, <1>2
  <1>4. \A a \in 1 .. Len(c) : c[a] \in DOMAIN n /\ c[a] # new
    BY <1>1
  <1>5. g = y[1]
    <2>1. CASE c = <<>>
      BY <1>1, <1>2, <2>1
    <2>2. CASE c # <<>>
      <3>1. 1 \in 1 .. Len(c)
        BY <1>1, <2>2
      <3>. QED  BY <1>1, <1>2, <1>4, <2>2, <3>1
    <2>. QED  BY <2>1, <2>2
  <1>6. ASSUME NEW a \in 1 .. Len(y)
        PROVE  m[y[a]].next = IF a = Len(y) THEN NULL ELSE y[a + 1]
    <2>1. CASE a = Len(c) + 1
      BY <1>2, <2>1
    <2>2. CASE a \in 1 .. Len(c) /\ a = Len(c)
      <3>1. c # <<>> /\ y[a] = p /\ p \in DOMAIN n
        BY <1>0, <1>1, <1>2, <1>4, <2>2 DEF LastOf
      <3>2. a # Len(y) /\ y[a + 1] = new
        BY <1>1, <1>2, <2>2
      <3>. QED  BY <1>0, <3>1, <3>2
    <2>3. CASE a \in 1 .. Len(c) /\ a # Len(c)
      <3>1. a + 1 \in 1 .. Len(c) /\ Len(c) \in 1 .. Len(c) /\ c # <<>> /\ a # Len(y)
        BY <1>1, <1>2, <2>3
      <3>2. c[a] # p /\ c[a] \in DOMAIN n
        BY <1>0, <1>1, <1>4, <2>3, <3>1 DEF LastOf
      <3>3. n[c[a]].next = c[a + 1]
        BY <1>1, <2>3
      <3>4. y[a] = c[a] /\ y[a + 1] = c[a + 1]
        BY <1>2, <2>3, <3>1
      <3>. QED  BY <1>0, <3>1, <3>2, <3>3, <3>4
    <2>. QED  BY <1>1, <1>3, <2>1, <2>2, <2>3
  <1>7. ASSUME NEW a \in 1 .. Len(y), NEW b \in 1 .. Len(y), y[a] = y[b]
        PROVE  a = b
    BY <1>1, <1>2, <1>3, <1>4, <1>7
  <1>. QED  BY <1>0, <1>2, <1>5, <1>6, <1>7 DEF ListIn

\* m is n with a new item behind p.
Grown(n, t, m, p, new) ==
    /\ new \notin DOMAIN n /\ DOMAIN m = DOMAIN n \cup {new}
    /\ \A i \in DOMAIN n : /\ m[i].next = IF i = p THEN new ELSE n[i].next
                           /\ SameSaid(n, t, m, t, i)
    /\ m[new].next = NULL /\ m[new].child = NULL /\ m[new].valuestring = NULL

\* z is s, the topmost frame of which has the new item.
Advanced(s, z, new) ==
    /\ Len(z) = Len(s) /\ \A k \in 1 .. (Len(s) - 1) : z[k] = s[k]
    /\ z[Len(s)].type = s[Len(s)].type /\ z[Len(s)].item = s[Len(s)].item
    /\ z[Len(s)].current = new
    /\ z[Len(s)].head = IF s[Len(s)].head = NULL THEN new ELSE s[Len(s)].head

\* The list of the topmost frame gets a new item, which has no value yet.
LEMMA HeldNew ==
    ASSUME NEW n, NEW t, NEW m, NEW s, NEW r, NEW L, NEW C, NEW W,
           NEW new, NEW z, NEW M, NEW low, NULL \notin DOMAIN n,
           Len(s) \in Nat, Len(s) # 0, Under(low, Len(s)),
           Held(n, t, s, r, low, L, C, W),
           Grown(n, t, m, s[Len(s)].current, new), Advanced(s, z, new),
           \A k \in 1 .. low : M[k] = L[k], M[Len(s)] = Append(L[Len(s)], new)
    PROVE  Held(m, t, z, r, Len(s), M, C, W)
  <1>. PICK q, p : q = Len(s) /\ p = s[q].current
    OBVIOUS
  <1>. DEFINE D == Finished(n, s, r, q - 1)
  <1>0. low = q - 1 /\ q \in Nat /\ q # 0
    BY DEF Under
  <1>a. /\ new \notin DOMAIN n /\ DOMAIN m = DOMAIN n \cup {new}
        /\ \A i \in DOMAIN n : /\ m[i].next = IF i = p THEN new ELSE n[i].next
                               /\ SameSaid(n, t, m, t, i)
        /\ m[new].next = NULL /\ m[new].child = NULL /\ m[new].valuestring = NULL
    BY DEF Grown
  <1>b. /\ Len(z) = q /\ \A k \in 1 .. (q - 1) : z[k] = s[k]
        /\ z[q].item = s[q].item /\ z[q].current = new
        /\ z[q].head = IF s[q].head = NULL THEN new ELSE s[q].head
    BY DEF Advanced
  <1>c. (\A k \in 1 .. (q - 1) : M[k] = L[k]) /\ M[q] = Append(L[q], new)
    BY <1>0
  <1>1. /\ \A k \in 0 .. (q - 1) : /\ CurOf(s, r, k) \in DOMAIN n
                                   /\ n[CurOf(s, r, k)].child = NULL
                                   /\ n[CurOf(s, r, k)].valuestring = NULL
        /\ \A k \in 1 .. q :
             /\ s[k].item = CurOf(s, r, k - 1)
             /\ ListIn(n, L[k], s[k].head)
             /\ s[k].current = IF L[k] = <<>> THEN NULL ELSE L[k][Len(L[k])]
             /\ \A a \in 1 .. Len(L[k]) : L[k][a] # r
        /\ \A k, l \in 1 .. q :
             k # l => \A a \in 1 .. Len(L[k]), b \in 1 .. Len(L[l]) : L[k][a] # L[l][b]
        /\ r \in DOMAIN n /\ n[r].string = NULL
    BY <1>0 DEF Held, Shaped
  <1>2. /\ Told(n, t, D, C, W)
        /\ \A i \in D, k \in 1 .. q :
             \A a \in 1 .. Len(C[i]), b \in 1 .. Len(L[k]) : C[i][a] # L[k][b]
    BY <1>0 DEF Held
  <1>3. /\ \A k \in 0 .. (q - 1) : CurOf(z, r, k) = CurOf(s, r, k)
        /\ CurOf(z, r, q) = new
    BY <1>0, <1>b DEF CurOf
  <1>4. /\ q \in 1 .. q
        /\ \A k \in 0 .. q : k \in 0 .. (q - 1) \/ k = q
        /\ \A k \in 1 .. q : (k \in 1 .. (q - 1) /\ k # q) \/ k = q
    BY <1>0
  <1>5. Finished(m, z, r, q) = D
    <2>1. ASSUME NEW x PROVE x \in Finished(m, z, r, q) <=> x \in D
      <3>1. x \in Finished(m, z, r, q) <=>
              x \in DOMAIN m /\ \A k \in 0 .. q : x # CurOf(z, r, k)
        BY DEF Finished
      <3>2. x \in D <=> x \in DOMAIN n /\ \A k \in 0 .. (q - 1) : x # CurOf(s, r, k)
        BY DEF Finished
      <3>. QED  BY <1>a, <1>3, <1>4, <3>1, <3>2
    <2>. QED  BY <2>1
  <1>6. /\ L[q] \in Seq(DOMAIN n) /\ Len(L[q]) \in Nat
        /\ L[q] # <<>> => Len(L[q]) \in 1 .. Len(L[q]) /\ p = L[q][Len(L[q])]
        /\ L[q] = <<>> => p = NULL
        /\ p = NULL \/ \E b \in 1 .. Len(L[q]) : p = L[q][b]
    <2>1. /\ L[q] \in Seq(DOMAIN n) /\ Len(L[q]) \in Nat
          /\ L[q] # <<>> => Len(L[q]) \in 1 .. Len(L[q]) /\ p = L[q][Len(L[q])]
          /\ L[q] = <<>> => p = NULL
      BY <1>1, <1>4 DEF ListIn
    <2>. QED  BY <2>1
  <1>7. Told(m, t, D, C, W)
    <2>1. ASSUME NEW i \in D, NEW a \in 1 .. Len(C[i])
          PROVE  m[C[i][a]].next = n[C[i][a]].next
      <3>1. C[i][a] \in DOMAIN n
        BY <1>2 DEF Told, Listed, Finished
      <3>2. C[i][a] # p
        BY <1>2, <1>4, <1>6, <3>1
      <3>. QED  BY <1>a, <3>1, <3>2
    <2>2. \A i \in D : SameSaid(n, t, m, t, i)
      BY <1>a DEF Finished
    <2>. HIDE DEF D
    <2>3. DOMAIN n \subseteq DOMAIN m
      BY <1>a
    <2>. QED  BY ONLY <1>2, <2>1, <2>2, <2>3, ToldAs
  <1>8. ASSUME NEW k \in 1 .. (q - 1) PROVE ListIn(m, L[k], s[k].head)
    <2>1. k \in 1 .. q /\ k # q /\ DOMAIN n \subseteq DOMAIN m
      BY <1>0, <1>a
    <2>2. ListIn(n, L[k], s[k].head)
      BY <1>1, <2>1
    <2>3. ASSUME NEW a \in 1 .. Len(L[k]) PROVE m[L[k][a]].next = n[L[k][a]].next
      <3>1. L[k][a] \in DOMAIN n
        BY <2>2 DEF ListIn
      <3>2. L[k][a] # p
        BY <1>1, <1>4, <1>6, <2>1, <3>1
      <3>. QED  BY <1>a, <3>1, <3>2
    <2>. QED  BY ONLY <2>1, <2>2, <2>3, ListInAs
  <1>9. ListIn(m, M[q], z[q].head)
    <2>1. PICK c, h : c = L[q] /\ h = s[q].head
      OBVIOUS
    <2>2. /\ ListIn(n, c, h) /\ p = LastOf(c)
          /\ M[q] = Append(c, new) /\ z[q].head = IF h = NULL THEN new ELSE h
      BY <1>1, <1>4, <1>b, <1>c, <2>1 DEF LastOf
    <2>3. /\ new \notin DOMAIN n /\ NULL \notin DOMAIN n
          /\ DOMAIN m = DOMAIN n \cup {new} /\ m[new].next = NULL
          /\ \A i \in DOMAIN n : m[i].next = IF i = p THEN new ELSE n[i].next
      BY <1>a
    <2>. QED  BY ONLY <2>2, <2>3, ListInNew
  <1>10. /\ Len(M[q]) = Len(L[q]) + 1 /\ M[q][Len(L[q]) + 1] = new /\ M[q] # <<>>
         /\ \A a \in 1 .. Len(L[q]) : M[q][a] = L[q][a]
         /\ \A a \in 1 .. Len(M[q]) : a \in 1 .. Len(L[q]) \/ a = Len(L[q]) + 1
    <2>1. /\ Len(M[q]) = Len(L[q]) + 1 /\ M[q][Len(L[q]) + 1] = new /\ M[q] # <<>>
          /\ \A a \in 1 .. Len(L[q]) : M[q][a] = L[q][a]
      <3>1. PICK c, y : c = L[q] /\ y = M[q]
        OBVIOUS
      <3>2. c \in Seq(DOMAIN n) /\ y = Append(c, new)
        BY <1>c, <1>6, <3>1
      <3>3. /\ Len(y) = Len(c) + 1 /\ y[Len(c) + 1] = new /\ y # <<>>
            /\ \A a \in 1 .. Len(c) : y[a] = c[a]
        BY ONLY <3>2, AppendIs
      <3>. QED  BY <3>1, <3>3
    <2>. QED  BY <1>6, <2>1
  \* An item of a list is an old one, in the list of the same frame, or the new one.
  <1>11. ASSUME NEW k \in 1 .. q, NEW a \in 1 .. Len(M[k])
         PROVE  \/ k = q /\ M[k][a] = new
                \/ a \in 1 .. Len(L[k]) /\ M[k][a] = L[k][a] /\ L[k][a] \in DOMAIN n
    <2>1. \A c \in 1 .. Len(L[k]) : L[k][c] \in DOMAIN n
      BY <1>1 DEF ListIn
    <2>2. CASE k = q
      BY <1>10, <2>1, <2>2
    <2>3. CASE k \in 1 .. (q - 1)
      BY <1>c, <2>1, <2>3
    <2>. QED  BY <1>4, <2>2, <2>3
  <1>12. Shaped(m, z, r, q, M)
    <2>1. ASSUME NEW k \in 0 .. q
          PROVE  /\ CurOf(z, r, k) \in DOMAIN m
                 /\ m[CurOf(z, r, k)].child = NULL
                 /\ m[CurOf(z, r, k)].valuestring = NULL
      <3>1. CASE k = q
        BY <1>a, <1>3, <3>1
      <3>2. CASE k \in 0 .. (q - 1)
        <4>1. CurOf(s, r, k) \in DOMAIN n /\ SameSaid(n, t, m, t, CurOf(s, r, k))
          BY <1>a, <1>1, <3>2
        <4>. QED  BY <1>a, <1>1, <1>3, <3>2, <4>1 DEF SameSaid
      <3>. QED  BY <1>4, <3>1, <3>2
    <2>2. ASSUME NEW k \in 1 .. q
          PROVE  /\ z[k].item = CurOf(z, r, k - 1)
                 /\ ListIn(m, M[k], z[k].head)
                 /\ z[k].current = IF M[k] = <<>> THEN NULL ELSE M[k][Len(M[k])]
                 /\ \A a \in 1 .. Len(M[k]) : M[k][a] # r
      <3>0. k - 1 \in 0 .. (q - 1) /\ k \in 1 .. q
        BY <1>0
      <3>1. z[k].item = CurOf(z, r, k - 1)
        BY <1>1, <1>3, <1>4, <1>b, <3>0
      <3>2. ListIn(m, M[k], z[k].head)
        BY <1>4, <1>8, <1>9, <1>b, <1>c
      <3>3. z[k].current = IF M[k] = <<>> THEN NULL ELSE M[k][Len(M[k])]
        <4>1. CASE k = q
          BY <1>10, <1>b, <4>1
        <4>2. CASE k \in 1 .. (q - 1)
          <5>1. M[k] = L[k] /\ z[k] = s[k]
            BY <1>b, <1>c, <4>2
          <5>. QED  BY <1>1, <5>1
        <4>. QED  BY <1>4, <4>1, <4>2
      <3>4. ASSUME NEW a \in 1 .. Len(M[k]) PROVE M[k][a] # r
        <4>1. CASE M[k][a] = new
          BY <1>a, <1>1, <4>1
        <4>2. CASE a \in 1 .. Len(L[k]) /\ M[k][a] = L[k][a]
          BY <1>1, <4>2
        <4>. QED  BY <1>11, <4>1, <4>2
      <3>. QED  BY <3>1, <3>2, <3>3, <3>4
    <2>3. ASSUME NEW k \in 1 .. q, NEW l \in 1 .. q, k # l,
                 NEW a \in 1 .. Len(M[k]), NEW b \in 1 .. Len(M[l])
          PROVE  M[k][a] # M[l][b]
      <3>1. CASE M[k][a] = new /\ k = q
        BY <1>a, <1>11, <2>3, <3>1
      <3>2. CASE M[l][b] = new /\ l = q
        BY <1>a, <1>11, <2>3, <3>2
      <3>3. CASE a \in 1 .. Len(L[k]) /\ M[k][a] = L[k][a] /\ b \in 1 .. Len(L[l])
                   /\ M[l][b] = L[l][b]
        BY ONLY <1>1, <2>3, <3>3
      <3>. QED  BY <1>11, <3>1, <3>2, <3>3
    <2>4. r \in DOMAIN m /\ m[r].string = NULL
      <3>1. SameSaid(n, t, m, t, r)
        BY <1>a, <1>1
      <3>. QED  BY <1>a, <1>1, <3>1 DEF SameSaid
    <2>. QED  BY ONLY <2>1, <2>2, <2>3, <2>4, <1>b DEF Shaped
  <1>13. ASSUME NEW i \in D, NEW k \in 1 .. q, NEW a \in 1 .. Len(C[i]),
                NEW b \in 1 .. Len(M[k])
         PROVE  C[i][a] # M[k][b]
    <2>1. C[i][a] \in DOMAIN n
      BY <1>2 DEF Told, Listed, Finished
    <2>. QED  BY ONLY <1>a, <1>2, <1>11, <2>1
  <1>14. /\ \A i \in D, k \in 1 .. q :
              \A a \in 1 .. Len(C[i]), b \in 1 .. Len(M[k]) : C[i][a] # M[k][b]
    BY <1>13
  <1>15. Held(m, t, z, r, q, M, C, W)
    BY ONLY <1>5, <1>7, <1>12, <1>14, <1>b DEF Held
  <1>. QED  BY <1>15

\* The root, and nothing else.
LEMMA HeldStart ==
    ASSUME NEW n, NEW t, NEW s, s = <<>>, NEW r, DOMAIN n = {r},
           n[r].child = NULL, n[r].valuestring = NULL, n[r].string = NULL,
           NEW L, NEW C, NEW W
    PROVE  Held(n, t, s, r, 0, L, C, W)
  <1>1. Finished(n, s, r, 0) = {}
    BY DEF Finished, CurOf
  <1>2. Len(s) = 0 /\ \A k \in 1 .. 0 : FALSE
    OBVIOUS
  <1>3. Shaped(n, s, r, 0, L)
    BY <1>2 DEF Shaped, CurOf
  <1>4. Told(n, t, {}, C, W)
    BY DEF Told, Listed
  <1>. QED  BY <1>1, <1>3, <1>4 DEF Held

-----------------------------------------------------------------------------
(* What the grammar makes of a text that is parsed in part *)

\* The values of the first items of list c.
Before(W, c, len) == [a \in 1 .. len |-> W[c[a]]]

\* A value of the type that has the members before, which were read, and
\* those that m says are read next.
Whole(type, before, m) ==
    IF m = Nothing THEN Nothing
    ELSE Meaning(type, <<>>, before \o m.out, m.end)

\* The same, if the next of them is v.
Around(type, name, before, d, v) ==
    Whole(type, before,
          IF v = Nothing THEN Nothing
          ELSE MembersAt(type, [out |-> name, end |-> 0], v,
                         Grammar[type][Solid(Solid(v.end) + 1)][d]))

\* R[k] is what the grammar reads where the last item of the list of frame k
\* begins, and R[0] what it makes of the text.
Expect(n, t, s, L, W, R, last) ==
    /\ R[0] = Grammar["value"][Solid(0)][NestingLimit]
    /\ \A k \in 1 .. last :
         R[k - 1] = Around(s[k].type, NameIn(n, t, s[k].current),
                           Before(W, L[k], Len(L[k]) - 1), NestingLimit - k, R[k])

\* If there is nothing it could be, the text stands for nothing.
LEMMA FailsUp ==
    ASSUME NEW n, NEW t, NEW s, NEW L, NEW W, NEW R, NEW last \in Nat,
           Expect(n, t, s, L, W, R, last), R[last] = Nothing
    PROVE  Grammar["value"][Solid(0)][NestingLimit] = Nothing
  <1>. DEFINE S == {k \in Nat : k <= last /\ R[k] = Nothing}
  <1>1. S \subseteq Nat /\ last \in S
    OBVIOUS
  <1>2. PICK k \in S : \A j \in S : k <= j
    <2>. HIDE DEF S
    <2>. QED  BY <1>1, Least
  <1>3. CASE k = 0
    BY <1>3 DEF Expect
  <1>4. CASE k # 0
    <2>1. k \in 1 .. last /\ k - 1 \in Nat /\ k - 1 <= last
      BY <1>4
    <2>2. R[k - 1] = Around(s[k].type, NameIn(n, t, s[k].current),
                            Before(W, L[k], Len(L[k]) - 1), NestingLimit - k, R[k])
      BY <2>1 DEF Expect
    <2>3. R[k] = Nothing
      OBVIOUS
    <2>4. R[k - 1] = Nothing
      BY <2>2, <2>3 DEF Around, Whole
    <2>5. k - 1 \in S
      BY <2>1, <2>4
    <2>6. k <= k - 1
      BY <1>2, <2>5
    <2>. QED  BY <2>1, <2>6
  <1>. QED  BY <1>3, <1>4

LEMMA BeforeSame ==
    ASSUME NEW W, NEW V, NEW c, NEW len, \A a \in 1 .. len : V[c[a]] = W[c[a]]
    PROVE  Before(V, c, len) = Before(W, c, len)
  BY DEF Before

\* The names and values of other items change nothing.
LEMMA ExpectAs ==
    ASSUME NEW n, NEW t, NEW s, NEW L, NEW W, NEW R, NEW last,
           Expect(n, t, s, L, W, R, last), last \in Nat,
           NEW m, NEW u, NEW z, NEW M, NEW V, NEW Q,
           \A k \in 0 .. last : Q[k] = R[k],
           \A k \in 1 .. last :
               /\ z[k].type = s[k].type /\ z[k].current = s[k].current
               /\ NameIn(m, u, s[k].current) = NameIn(n, t, s[k].current)
               /\ M[k] = L[k]
               /\ \A a \in 1 .. (Len(L[k]) - 1) : V[L[k][a]] = W[L[k][a]]
    PROVE  Expect(m, u, z, M, V, Q, last)
  <1>1. Q[0] = Grammar["value"][Solid(0)][NestingLimit]
    BY DEF Expect
  <1>2. ASSUME NEW k \in 1 .. last
        PROVE  Q[k - 1] = Around(z[k].type, NameIn(m, u, z[k].current),
                                 Before(V, M[k], Len(M[k]) - 1), NestingLimit - k, Q[k])
    <2>1. R[k - 1] = Around(s[k].type, NameIn(n, t, s[k].current),
                            Before(W, L[k], Len(L[k]) - 1), NestingLimit - k, R[k])
      BY DEF Expect
    <2>2. Before(V, L[k], Len(L[k]) - 1) = Before(W, L[k], Len(L[k]) - 1)
      BY BeforeSame
    <2>3. Q[k] = R[k] /\ Q[k - 1] = R[k - 1]
      OBVIOUS
    <2>4. /\ z[k].type = s[k].type /\ z[k].current = s[k].current /\ M[k] = L[k]
          /\ NameIn(m, u, s[k].current) = NameIn(n, t, s[k].current)
      OBVIOUS
    <2>. QED  BY ONLY <2>1, <2>2, <2>3, <2>4
  <1>. QED  BY <1>1, <1>2 DEF Expect

\* The item at the top is finished.
LEMMA ExpectMore ==
    ASSUME NEW n, NEW t, NEW m, NEW s, NEW r, NEW top, NEW L, NEW C, NEW W,
           NEW R, NEW last \in Nat, NEW z, NEW i, NEW D, NEW y,
           Held(n, t, s, r, top, L, C, W), Expect(n, t, s, L, W, R, last),
           NULL \notin DOMAIN n, Len(s) \in Nat, top \in Nat, top <= last,
           last <= Len(s), top = Len(s) - 1 \/ top = Len(s),
           \A k \in 1 .. top : z[k] = s[k], i = CurOf(s, r, top),
           \A j \in DOMAIN n \ {i} : m[j] = n[j],
           m[i].string = n[i].string, m[i].const = n[i].const,
           D = Finished(n, s, r, top)
    PROVE  Expect(m, t, z, L, Put(W, D, i, y), R, top)
  <1>1. PICK V : V = Put(W, D, i, y)
    OBVIOUS
  <1>2. Shaped(n, s, r, top, L)
    BY DEF Held
  <1>3. \A k \in 1 .. Len(s) : \A a \in 1 .. Len(L[k]) :
          a < Len(L[k]) \/ k > top => L[k][a] \in D
    <2>1. /\ Shaped(n, s, r, top, L) /\ NULL \notin DOMAIN n
          /\ Len(s) \in Nat /\ (top = Len(s) - 1 \/ top = Len(s))
          /\ D = Finished(n, s, r, top)
      BY <1>2
    <2>. QED  BY ONLY <2>1, CurrentsDiffer
  <1>4. i \in DOMAIN n /\ i \notin D
    <2>1. top \in 0 .. top
      OBVIOUS
    <2>. QED  BY <1>2, <2>1 DEF Shaped, Finished
  <1>5. \A x \in D : V[x] = W[x]
    BY <1>1, <1>4 DEF Put
  <1>6. ASSUME NEW k \in 1 .. top
        PROVE  /\ z[k].type = s[k].type /\ z[k].current = s[k].current
               /\ NameIn(m, t, s[k].current) = NameIn(n, t, s[k].current)
               /\ \A a \in 1 .. (Len(L[k]) - 1) : V[L[k][a]] = W[L[k][a]]
    <2>1. k \in 1 .. Len(s) /\ k \in 0 .. top /\ CurOf(s, r, k) = s[k].current
      BY DEF CurOf
    <2>2. s[k].current \in DOMAIN n
      BY <1>2, <2>1 DEF Shaped
    <2>3. NameIn(m, t, s[k].current) = NameIn(n, t, s[k].current)
      BY <2>2 DEF NameIn
    <2>4. L[k] \in Seq(DOMAIN n)
      BY <1>2, <2>1 DEF Shaped, ListIn
    <2>5. Len(L[k]) \in Nat
      BY <2>4
    <2>6. ASSUME NEW a \in 1 .. (Len(L[k]) - 1) PROVE V[L[k][a]] = W[L[k][a]]
      <3>1. a \in 1 .. Len(L[k]) /\ a < Len(L[k])
        BY <2>5
      <3>. QED  BY <1>3, <1>5, <2>1, <3>1
    <2>. QED  BY <2>3, <2>6
  <1>7. Expect(n, t, s, L, W, R, top)
    <2>1. \A k \in 1 .. top : k \in 1 .. last
      OBVIOUS
    <2>. QED  BY <2>1 DEF Expect
  <1>8. Expect(m, t, z, L, V, R, top)
    <2>1. \A k \in 1 .. top :
             /\ z[k].type = s[k].type /\ z[k].current = s[k].current
             /\ NameIn(m, t, s[k].current) = NameIn(n, t, s[k].current)
             /\ L[k] = L[k]
             /\ \A a \in 1 .. (Len(L[k]) - 1) : V[L[k][a]] = W[L[k][a]]
      BY <1>6
    <2>2. top \in Nat /\ \A k \in 0 .. top : R[k] = R[k]
      OBVIOUS
    <2>. QED  BY ONLY <1>7, <2>1, <2>2, ExpectAs
  <1>. QED  BY <1>1, <1>8

\* What begins at item i is read as m: its value, or its name and the members
\* from there on; or the members the topmost frame will get next.
NeedsValue(n, t, s, r, i, m) ==
    \E L, C, W, R :
        /\ Held(n, t, s, r, Len(s), L, C, W)
        /\ Expect(n, t, s, L, W, R, Len(s))
        /\ i = CurOf(s, r, Len(s)) /\ R[Len(s)] = m

NeedsName(n, t, s, r, i, m) ==
    /\ Len(s) # 0
    /\ \E L, C, W, R :
        /\ Held(n, t, s, r, Len(s), L, C, W)
        /\ Expect(n, t, s, L, W, R, Len(s) - 1)
        /\ i = CurOf(s, r, Len(s))
        /\ R[Len(s) - 1] =
             Whole(s[Len(s)].type, Before(W, L[Len(s)], Len(L[Len(s)]) - 1), m)

NeedsNext(n, t, s, r, m) ==
    /\ Len(s) # 0
    /\ \E L, C, W, R :
        /\ Held(n, t, s, r, Len(s) - 1, L, C, W)
        /\ Expect(n, t, s, L, W, R, Len(s) - 1)
        /\ R[Len(s) - 1] =
             Whole(s[Len(s)].type, Before(W, L[Len(s)], Len(L[Len(s)])), m)

\* The last item has the value that was read, up to place e.
HasRead(n, t, s, r, e) ==
    CurOf(s, r, Len(s)) \in DOMAIN n /\ \E L, C, W, R :
        /\ Held(n, t, s, r, Len(s) - 1, L, C, W)
        /\ Expect(n, t, s, L, W, R, Len(s))
        /\ R[Len(s)] =
             [out |-> [W[CurOf(s, r, Len(s))] EXCEPT !.name = <<>>], end |-> e]

LEMMA FailsHere ==
    ASSUME NEW n, NEW t, NEW s, NEW r, NEW i, Len(s) \in Nat,
           \/ NeedsValue(n, t, s, r, i, Nothing)
           \/ NeedsName(n, t, s, r, i, Nothing)
           \/ NeedsNext(n, t, s, r, Nothing)
    PROVE  Grammar["value"][Solid(0)][NestingLimit] = Nothing
  <1>1. CASE NeedsValue(n, t, s, r, i, Nothing)
    BY <1>1, FailsUp DEF NeedsValue
  <1>2. CASE NeedsName(n, t, s, r, i, Nothing)
    <2>1. Len(s) - 1 \in Nat
      BY <1>2 DEF NeedsName
    <2>. QED  BY <1>2, <2>1, FailsUp DEF NeedsName, Whole
  <1>3. CASE NeedsNext(n, t, s, r, Nothing)
    <2>1. Len(s) - 1 \in Nat
      BY <1>3 DEF NeedsNext
    <2>. QED  BY <1>3, <2>1, FailsUp DEF NeedsNext, Whole
  <1>. QED  BY <1>1, <1>2, <1>3

\* A value that has no members.
LEMMA ValueSettles ==
    ASSUME NEW n, NEW t, NEW m, NEW s, NEW r, NEW i, NEW type, NEW content, NEW e,
           Nodes(n), Len(s) \in Nat,
           NeedsValue(n, t, s, r, i, Meaning(type, content, <<>>, e)),
           DOMAIN m = DOMAIN n, \A j \in DOMAIN n \ {i} : m[j] = n[j],
           m[i].next = n[i].next, m[i].string = n[i].string,
           m[i].const = n[i].const, m[i].child = NULL, m[i].type = type,
           content = IF m[i].type = "Number" THEN m[i].number
                     ELSE IF m[i].valuestring = NULL THEN <<>>
                     ELSE t[m[i].valuestring]
    PROVE  HasRead(m, t, s, r, e)
  <1>1. PICK L, C, W, R :
          /\ Held(n, t, s, r, Len(s), L, C, W)
          /\ Expect(n, t, s, L, W, R, Len(s))
          /\ i = CurOf(s, r, Len(s)) /\ R[Len(s)] = Meaning(type, content, <<>>, e)
    BY DEF NeedsValue
  <1>2. PICK top, low, D, c, y, V, E :
          /\ top = Len(s) /\ low = top - 1 /\ D = Finished(n, s, r, top) /\ c = <<>>
          /\ y = Says(m, t, i, c, W) /\ V = Put(W, D, i, y) /\ E = Put(C, D, i, c)
    OBVIOUS
  <1>3. NULL \notin DOMAIN n
    BY HeapAssumption DEF Nodes
  <1>4. /\ Held(m, t, s, r, low, L, E, V) /\ i \notin D
    <2>1. ListIn(n, c, m[i].child) /\ Len(c) = 0 /\ \A a \in 1 .. Len(c) : FALSE
      BY <1>2, NoList
    <2>2. /\ Held(n, t, s, r, top, L, C, W) /\ Nodes(n) /\ top \in Nat
          /\ i = CurOf(s, r, top) /\ DOMAIN m = DOMAIN n
          /\ \A j \in DOMAIN n \ {i} : m[j] = n[j]
          /\ m[i].next = n[i].next /\ m[i].string = n[i].string
          /\ Len(s) = top /\ (top = Len(s) - 1 \/ top = Len(s)) /\ Len(s) \in Nat
          /\ \A k \in 1 .. top : s[k] = s[k]
          /\ \A a \in 1 .. Len(c) : c[a] \in D
          /\ \A k \in 1 .. top : \A a \in 1 .. Len(c), b \in 1 .. Len(L[k]) :
               c[a] # L[k][b]
      BY <1>1, <1>2, <2>1
    <2>3. /\ Under(low, top) /\ D = Finished(n, s, r, top)
      BY <1>2 DEF Under
    <2>4. /\ Held(m, t, s, r, low, L, Put(C, D, i, c), Put(W, D, i, Says(m, t, i, c, W)))
          /\ i \notin D
      BY ONLY <2>1, <2>2, <2>3, HeldMore
    <2>. QED  BY <1>2, <2>4
  <1>5. Expect(m, t, s, L, V, R, top)
    <2>1. /\ Held(n, t, s, r, top, L, C, W) /\ Expect(n, t, s, L, W, R, top)
          /\ NULL \notin DOMAIN n /\ top \in Nat /\ top <= top /\ top = Len(s)
          /\ i = CurOf(s, r, top) /\ \A j \in DOMAIN n \ {i} : m[j] = n[j]
          /\ m[i].string = n[i].string /\ m[i].const = n[i].const
          /\ D = Finished(n, s, r, top) /\ \A k \in 1 .. top : s[k] = s[k]
      BY <1>1, <1>2, <1>3
    <2>2. Expect(m, t, s, L, Put(W, D, i, y), R, top)
      BY ONLY <2>1, ExpectMore
    <2>. QED  BY <1>2, <2>2
  <1>6. R[top] = [out |-> [V[i] EXCEPT !.name = <<>>], end |-> e]
    <2>1. V[i] = y
      BY <1>2 DEF Put
    <2>2. [a \in DOMAIN c |-> W[c[a]]] = <<>>
      BY <1>2
    <2>3. y = [type |-> type, name |-> NameIn(m, t, i), text |-> content, members |-> <<>>]
      BY <1>2, <2>2 DEF Says
    <2>4. [y EXCEPT !.name = <<>>] =
            [type |-> type, name |-> <<>>, text |-> content, members |-> <<>>]
      BY ONLY <2>3
    <2>. QED  BY <1>1, <1>2, <2>1, <2>4 DEF Meaning
  <1>7. i \in DOMAIN m
    <2>1. Len(s) \in 0 .. Len(s)
      OBVIOUS
    <2>. QED  BY <1>1, <2>1 DEF Held, Shaped
  <1>. QED  BY <1>1, <1>2, <1>4, <1>5, <1>6, <1>7 DEF HasRead

\* A list is begun.
LEMMA ValueOpens ==
    ASSUME NEW n, NEW t, NEW s, NEW r, NEW i, NEW m, NEW type, NEW z,
           Len(s) \in Nat, m = Nothing \/ IsSeq(m.out),
           NeedsValue(n, t, s, r, i,
                    IF m = Nothing THEN Nothing ELSE Meaning(type, <<>>, m.out, m.end)),
           Len(z) = Len(s) + 1, \A k \in 1 .. Len(s) : z[k] = s[k],
           z[Len(s) + 1].type = type, z[Len(s) + 1].item = i,
           z[Len(s) + 1].head = NULL, z[Len(s) + 1].current = NULL
    PROVE  NeedsNext(n, t, z, r, m)
  <1>1. PICK L, C, W, R :
          /\ Held(n, t, s, r, Len(s), L, C, W)
          /\ Expect(n, t, s, L, W, R, Len(s))
          /\ i = CurOf(s, r, Len(s))
          /\ R[Len(s)] = IF m = Nothing THEN Nothing ELSE Meaning(type, <<>>, m.out, m.end)
    BY DEF NeedsValue
  <1>2. PICK q, M : /\ q = Len(s) + 1
                    /\ M = [k \in 1 .. q |-> IF k = q THEN <<>> ELSE L[k]]
    OBVIOUS
  <1>3. /\ q \in 1 .. q /\ M[q] = <<>> /\ \A k \in 1 .. Len(s) : M[k] = L[k]
        /\ q - 1 = Len(s)
    BY <1>2
  <1>4. Held(n, t, z, r, q - 1, M, C, W)
    BY <1>1, <1>2, <1>3, HeldOpened
  <1>5. Expect(n, t, z, M, W, R, q - 1)
    <2>1. \A k \in 1 .. Len(s) :
             /\ z[k].type = s[k].type /\ z[k].current = s[k].current
             /\ NameIn(n, t, s[k].current) = NameIn(n, t, s[k].current)
             /\ M[k] = L[k]
             /\ \A a \in 1 .. (Len(L[k]) - 1) : W[L[k][a]] = W[L[k][a]]
      BY <1>3
    <2>2. Len(s) \in Nat /\ \A k \in 0 .. Len(s) : R[k] = R[k]
      OBVIOUS
    <2>. QED  BY ONLY <1>1, <1>3, <2>1, <2>2, ExpectAs
  <1>6. R[q - 1] = Whole(z[q].type, Before(W, M[q], Len(M[q])), m)
    <2>1. Before(W, M[q], Len(M[q])) = <<>>
      <3>1. Len(M[q]) = 0
        BY <1>3
      <3>. QED  BY <3>1 DEF Before
    <2>2. m = Nothing \/ <<>> \o m.out = m.out
      BY JoinsAny
    <2>3. R[q - 1] = IF m = Nothing THEN Nothing ELSE Meaning(type, <<>>, m.out, m.end)
      BY <1>1, <1>3
    <2>. QED  BY <1>2, <2>1, <2>2, <2>3 DEF Whole
  <1>. QED  BY <1>2, <1>4, <1>5, <1>6 DEF NeedsNext

LEMMA NextBegins ==
    ASSUME NEW n, NEW t, NEW m, NEW s, NEW r, NEW new, NEW z, NEW x,
           NULL \notin DOMAIN n, Len(s) \in Nat, NeedsNext(n, t, s, r, x),
           Grown(n, t, m, s[Len(s)].current, new), Advanced(s, z, new)
    PROVE  NeedsName(m, t, z, r, new, x)
  <1>1. PICK L, C, W, R :
          /\ Held(n, t, s, r, Len(s) - 1, L, C, W)
          /\ Expect(n, t, s, L, W, R, Len(s) - 1)
          /\ R[Len(s) - 1] =
               Whole(s[Len(s)].type, Before(W, L[Len(s)], Len(L[Len(s)])), x)
    BY DEF NeedsNext
  <1>2. PICK q, p, M :
          /\ q = Len(s) /\ p = s[q].current
          /\ M = [k \in 1 .. q |-> IF k = q THEN Append(L[q], new) ELSE L[k]]
    OBVIOUS
  <1>3. /\ q \in Nat /\ q # 0 /\ q - 1 \in Nat /\ q \in 1 .. q
        /\ M[q] = Append(L[q], new) /\ \A k \in 1 .. (q - 1) : M[k] = L[k]
    BY <1>2 DEF NeedsNext
  <1>4. Shaped(n, s, r, q - 1, L)
    BY <1>1, <1>2 DEF Held
  <1>5. Held(m, t, z, r, q, M, C, W)
    <2>1. PICK low : low = q - 1
      OBVIOUS
    <2>2. /\ NULL \notin DOMAIN n /\ q = Len(s) /\ Len(s) \in Nat /\ Len(s) # 0
          /\ Under(low, Len(s)) /\ Held(n, t, s, r, low, L, C, W)
          /\ Grown(n, t, m, s[Len(s)].current, new) /\ Advanced(s, z, new)
          /\ (\A k \in 1 .. low : M[k] = L[k]) /\ M[Len(s)] = Append(L[Len(s)], new)
      BY <1>1, <1>2, <1>3, <2>1 DEF Under
    <2>. QED  BY ONLY <2>2, HeldNew
  <1>6. Expect(m, t, z, M, W, R, q - 1)
    <2>1. ASSUME NEW k \in 1 .. (q - 1)
          PROVE  /\ z[k].type = s[k].type /\ z[k].current = s[k].current
                 /\ NameIn(m, t, s[k].current) = NameIn(n, t, s[k].current)
                 /\ M[k] = L[k]
                 /\ \A a \in 1 .. (Len(L[k]) - 1) : W[L[k][a]] = W[L[k][a]]
      <3>1. z[k] = s[k]
        BY <1>2 DEF Advanced
      <3>2. k \in 0 .. (q - 1) /\ CurOf(s, r, k) = s[k].current
        BY DEF CurOf
      <3>3. s[k].current \in DOMAIN n
        BY <1>4, <3>2 DEF Shaped
      <3>4. NameIn(m, t, s[k].current) = NameIn(n, t, s[k].current)
        BY <3>3 DEF Grown, SameSaid, NameIn
      <3>. QED  BY <1>3, <3>1, <3>4
    <2>2. Expect(n, t, s, L, W, R, q - 1) /\ \A k \in 0 .. (q - 1) : R[k] = R[k]
      BY <1>1, <1>2
    <2>. QED  BY ONLY <1>3, <2>1, <2>2, ExpectAs
  <1>7. R[q - 1] = Whole(z[q].type, Before(W, M[q], Len(M[q]) - 1), x)
    <2>1. L[q] \in Seq(DOMAIN n)
      BY <1>2, <1>3, <1>4 DEF Shaped, ListIn
    <2>2. /\ Len(L[q]) \in Nat /\ Len(M[q]) = Len(L[q]) + 1
          /\ \A a \in 1 .. Len(L[q]) : M[q][a] = L[q][a]
      BY <1>3, <2>1, AppendIs
    <2>3. Len(M[q]) - 1 = Len(L[q])
      BY <2>2
    <2>4. Before(W, M[q], Len(L[q])) = Before(W, L[q], Len(L[q]))
      BY <2>2 DEF Before
    <2>5. z[q].type = s[q].type
      BY <1>2 DEF Advanced
    <2>. QED  BY <1>1, <1>2, <2>3, <2>4, <2>5
  <1>8. new = CurOf(z, r, q) /\ Len(z) = q
    BY <1>2, <1>3 DEF CurOf, Advanced
  <1>. QED  BY <1>3, <1>5, <1>6, <1>7, <1>8 DEF NeedsName

\* Its name is known, if the list has names; what follows is its value.
LEMMA NameGiven ==
    ASSUME NEW n, NEW t, NEW m, NEW s, NEW r, NEW i, NEW x, NEW v, NEW name,
           NULL \notin DOMAIN n, Nodes(n), Len(s) \in Nat, NeedsName(n, t, s, r, i, x),
           x = IF v = Nothing THEN Nothing
               ELSE MembersAt(s[Len(s)].type, name, v,
                              Grammar[s[Len(s)].type][Solid(Solid(v.end) + 1)]
                                     [NestingLimit - Len(s)]),
           DOMAIN m = DOMAIN n, \A j \in DOMAIN n \ {i} : m[j] = n[j],
           m[i].next = n[i].next, m[i].child = n[i].child,
           m[i].valuestring = n[i].valuestring, NameIn(m, t, i) = name.out
    PROVE  NeedsValue(m, t, s, r, i, v)
  <1>1. PICK q : q = Len(s)
    OBVIOUS
  <1>2. PICK L, C, W, R :
          /\ Held(n, t, s, r, q, L, C, W) /\ Expect(n, t, s, L, W, R, q - 1)
          /\ i = CurOf(s, r, q)
          /\ R[q - 1] = Whole(s[q].type, Before(W, L[q], Len(L[q]) - 1), x)
    BY <1>1 DEF NeedsName
  <1>3. /\ q \in Nat /\ q # 0 /\ q - 1 \in Nat /\ q \in 1 .. q
        /\ \A k \in 1 .. q : k = q \/ (k \in 1 .. (q - 1) /\ k # q)
    BY <1>1 DEF NeedsName
  <1>4. Shaped(n, s, r, q, L)
    BY <1>2 DEF Held
  <1>5. \A k, l \in 0 .. q : k # l => CurOf(s, r, k) # CurOf(s, r, l)
    <2>1. /\ Shaped(n, s, r, q, L) /\ NULL \notin DOMAIN n
          /\ Len(s) \in Nat /\ q = Len(s)
      BY <1>1, <1>4
    <2>. QED  BY ONLY <2>1, CurrentsDiffer
  <1>6. PICK Q : Q = [k \in 0 .. q |-> IF k = q THEN v ELSE R[k]]
    OBVIOUS
  <1>7. Held(m, t, s, r, q, L, C, W)
    <2>1. \A j \in Finished(n, s, r, q) : SameSaid(n, t, m, t, j)
      <3>1. ASSUME NEW j \in Finished(n, s, r, q) PROVE j \in DOMAIN n /\ j # i
        BY <1>2, <1>3 DEF Finished
      <3>. QED  BY <3>1 DEF SameSaid
    <2>2. \A k \in 0 .. q : LET j == CurOf(s, r, k)
                            IN  m[j].child = n[j].child /\ m[j].valuestring = n[j].valuestring
      <3>1. ASSUME NEW k \in 0 .. q
            PROVE  LET j == CurOf(s, r, k)
                   IN  m[j].child = n[j].child /\ m[j].valuestring = n[j].valuestring
        <4>1. CurOf(s, r, k) \in DOMAIN n
          BY <1>4 DEF Shaped
        <4>. QED  BY <4>1
      <3>. QED  BY <3>1
    <2>3. m[r].string = n[r].string
      <3>1. CurOf(s, r, 0) = r /\ 0 \in 0 .. q /\ q \in 0 .. q
        BY <1>3 DEF CurOf
      <3>2. r # i /\ r \in DOMAIN n
        BY <1>2, <1>3, <1>4, <1>5, <3>1 DEF Shaped
      <3>. QED  BY <3>2
    <2>4. \A j \in DOMAIN n : m[j].next = n[j].next
      OBVIOUS
    <2>5. Held(n, t, s, r, q, L, C, W) /\ Nodes(n) /\ Len(s) \in Nat /\ DOMAIN m = DOMAIN n
      BY <1>2
    <2>. QED  BY ONLY <2>1, <2>2, <2>3, <2>4, <2>5, HeldSame
  <1>8. ASSUME NEW k \in 1 .. q
        PROVE  Q[k - 1] = Around(s[k].type, NameIn(m, t, s[k].current),
                                 Before(W, L[k], Len(L[k]) - 1), NestingLimit - k, Q[k])
    <2>1. CurOf(s, r, k) = s[k].current /\ k \in 0 .. q /\ q \in 0 .. q
      BY <1>3 DEF CurOf
    <2>2. CASE k = q
      <3>1. Q[k - 1] = Whole(s[q].type, Before(W, L[q], Len(L[q]) - 1), x) /\ Q[k] = v
        BY <1>2, <1>3, <1>6, <2>2
      <3>2. NameIn(m, t, s[k].current) = name.out
        BY <1>2, <2>1, <2>2
      <3>3. \A type, rest : MembersAt(type, name, v, rest)
                            = MembersAt(type, [out |-> name.out, end |-> 0], v, rest)
        BY DEF MembersAt
      <3>4. x = IF v = Nothing THEN Nothing
                ELSE MembersAt(s[q].type, [out |-> name.out, end |-> 0], v,
                               Grammar[s[q].type][Solid(Solid(v.end) + 1)][NestingLimit - q])
        BY <1>1, <3>3
      <3>. QED  BY <2>2, <3>1, <3>2, <3>4 DEF Around
    <2>3. CASE k \in 1 .. (q - 1) /\ k # q
      <3>1. Q[k] = R[k] /\ Q[k - 1] = R[k - 1]
        <4>1. k - 1 \in 0 .. q /\ k - 1 # q /\ k \in 0 .. q
          BY <1>3, <2>3
        <4>. QED  BY <1>6, <2>3, <4>1
      <3>2. s[k].current \in DOMAIN n /\ s[k].current # i
        BY <1>2, <1>4, <1>5, <2>1, <2>3 DEF Shaped
      <3>3. NameIn(m, t, s[k].current) = NameIn(n, t, s[k].current)
        BY <3>2 DEF NameIn
      <3>. QED  BY <1>2, <2>3, <3>1, <3>3 DEF Expect
    <2>. QED  BY <1>3, <2>2, <2>3
  <1>9. Q[0] = Grammar["value"][Solid(0)][NestingLimit] /\ Q[q] = v
    BY <1>2, <1>3, <1>6 DEF Expect
  <1>10. Expect(m, t, s, L, W, Q, q)
    BY <1>8, <1>9 DEF Expect
  <1>. QED  BY <1>1, <1>2, <1>7, <1>9, <1>10 DEF NeedsValue

LEMMA Concatenated ==
    ASSUME NEW T, NEW x \in Seq(T), NEW y \in Seq(T)
    PROVE  x \o y = [a \in 1 .. (Len(x) + Len(y)) |->
                        IF a <= Len(x) THEN x[a] ELSE y[a - Len(x)]]
  <1>1. PICK z : z = x \o y
    OBVIOUS
  <1>2. /\ z \in Seq(T) /\ Len(z) = Len(x) + Len(y)
        /\ \A a \in 1 .. Len(x) + Len(y) :
               z[a] = IF a <= Len(x) THEN x[a] ELSE y[a - Len(x)]
    BY <1>1, ConcatProperties
  <1>3. z = [a \in 1 .. Len(z) |-> z[a]]
    BY <1>2
  <1>4. z = [a \in 1 .. (Len(x) + Len(y)) |-> z[a]]
    BY <1>2, <1>3
  <1>. QED  BY ONLY <1>1, <1>2, <1>4, Zenon

LEMMA BeforeMore ==
    ASSUME NEW A, NEW c \in Seq(A), c # <<>>, NEW W, NEW w, w = W[c[Len(c)]]
    PROVE  /\ IsSeq(Before(W, c, Len(c) - 1)) /\ IsSeq(Before(W, c, Len(c)))
           /\ Before(W, c, Len(c) - 1) \o <<w>> = Before(W, c, Len(c))
  <1>1. Len(c) \in Nat /\ Len(c) # 0
    OBVIOUS
  <1>2. PICK l \in Nat : l = Len(c) - 1
    BY <1>1
  <1>3. ASSUME NEW k \in Nat PROVE Before(W, c, k) \in Seq({W[c[a]] : a \in 1 .. k})
    BY <1>3 DEF Before
  <1>4. IsSeq(Before(W, c, l)) /\ IsSeq(Before(W, c, l + 1))
    <2>1. l \in Nat /\ l + 1 \in Nat
      OBVIOUS
    <2>. QED  BY ONLY <1>3, <2>1, Zenon DEF IsSeq
  <1>5. Before(W, c, l) \o <<w>> = Before(W, c, l + 1)
    <2>1. PICK x, y : x = Before(W, c, l) /\ y = <<w>>
      OBVIOUS
    <2>2. \E B : x \in Seq(B)
      BY <1>4, <2>1 DEF IsSeq
    <2>3. PICK B : x \in Seq(B) /\ y \in Seq(B)
      <3>1. PICK B : x \in Seq(B)
        BY <2>2
      <3>2. x \in Seq(B \cup {w}) /\ y \in Seq(B \cup {w})
        BY <2>1, <3>1
      <3>. QED  BY <3>2
    <2>4. Len(x) = l /\ Len(y) = 1 /\ y[1] = w /\ \A a \in 1 .. l : x[a] = W[c[a]]
      BY <2>1, <2>3 DEF Before
    <2>5. x \o y = [a \in 1 .. (Len(x) + Len(y)) |->
                       IF a <= Len(x) THEN x[a] ELSE y[a - Len(x)]]
      BY ONLY <2>3, Concatenated, Zenon
    <2>6. \A a \in 1 .. (Len(x) + Len(y)) :
              (IF a <= Len(x) THEN x[a] ELSE y[a - Len(x)]) = W[c[a]]
      BY <1>1, <1>2, <2>4
    <2>7. x \o y = [a \in 1 .. (Len(x) + Len(y)) |-> W[c[a]]]
      BY <2>5, <2>6
    <2>8. Len(x) + Len(y) = l + 1
      BY <2>4
    <2>. QED  BY ONLY <2>1, <2>7, <2>8, Zenon DEF Before
  <1>6. l + 1 = Len(c)
    BY <1>1, <1>2
  <1>. QED  BY <1>2, <1>4, <1>5, <1>6

LEMMA Renamed ==
    ASSUME NEW a, NEW b, NEW c, NEW d, NEW w,
           w = [type |-> a, name |-> b, text |-> c, members |-> d]
    PROVE  [[w EXCEPT !.name = <<>>] EXCEPT !.name = b] = w
  <1>1. [w EXCEPT !.name = <<>>] = [type |-> a, name |-> <<>>, text |-> c, members |-> d]
    OBVIOUS
  <1>2. [[type |-> a, name |-> <<>>, text |-> c, members |-> d] EXCEPT !.name = b]
          = [type |-> a, name |-> b, text |-> c, members |-> d]
    OBVIOUS
  <1>. QED  BY <1>1, <1>2

\* An item was read; what the grammar says depends on the next character.
LEMMA ItemRead ==
    ASSUME NEW n, NEW t, NEW s, NEW r, NEW e, NEW type, NEW next, NEW rest,
           NULL \notin DOMAIN n, Len(s) \in Nat, Len(s) # 0,
           HasRead(n, t, s, r, e), e # 0, type = s[Len(s)].type, next = Solid(e),
           rest = Grammar[type][Solid(next + 1)][NestingLimit - Len(s)],
           Char(next) = Comma => rest = Nothing \/ IsSeq(rest.out)
    PROVE  \E L, C, W, R :
             /\ Held(n, t, s, r, Len(s) - 1, L, C, W)
             /\ Expect(n, t, s, L, W, R, Len(s) - 1)
             /\ R[Len(s) - 1] =
                  IF Char(next) = Closing[type]
                    THEN Meaning(type, <<>>, Before(W, L[Len(s)], Len(L[Len(s)])), next + 1)
                  ELSE IF Char(next) = Comma
                    THEN Whole(type, Before(W, L[Len(s)], Len(L[Len(s)])), rest)
                  ELSE Nothing
  <1>1. PICK q : q = Len(s)
    OBVIOUS
  <1>2. PICK L, C, W, R, i, v :
          /\ Held(n, t, s, r, q - 1, L, C, W) /\ Expect(n, t, s, L, W, R, q)
          /\ R[q] = v /\ v = [out |-> [W[i] EXCEPT !.name = <<>>], end |-> e]
          /\ i = CurOf(s, r, q) /\ i \in DOMAIN n
    BY <1>1 DEF HasRead
  <1>3. /\ q \in Nat /\ q # 0 /\ q - 1 \in Nat /\ q \in 1 .. q
        /\ i = s[q].current
    BY <1>1, <1>2 DEF CurOf
  <1>4. Shaped(n, s, r, q - 1, L) /\ Told(n, t, Finished(n, s, r, q - 1), C, W)
    BY <1>2 DEF Held
  <1>5. PICK c, b, w, name :
          /\ c = L[q] /\ b = Before(W, c, Len(c) - 1) /\ w = W[i]
          /\ name = NameIn(n, t, i)
    OBVIOUS
  <1>6. c \in Seq(DOMAIN n) /\ c # <<>> /\ i = c[Len(c)] /\ Len(c) \in 1 .. Len(c)
    <2>1. /\ c \in Seq(DOMAIN n)
          /\ i = IF c = <<>> THEN NULL ELSE c[Len(c)]
      BY <1>1, <1>3, <1>4, <1>5 DEF Shaped, ListIn
    <2>. QED  BY <1>2, <2>1
  <1>7. i \in Finished(n, s, r, q - 1)
    <2>1. /\ Shaped(n, s, r, q - 1, L) /\ NULL \notin DOMAIN n
          /\ Len(s) \in Nat /\ q - 1 = Len(s) - 1
      BY <1>1, <1>4
    <2>2. PICK low : low = q - 1
      OBVIOUS
    <2>3. \A k \in 1 .. Len(s) : \A a \in 1 .. Len(L[k]) :
            a < Len(L[k]) \/ k > low => L[k][a] \in Finished(n, s, r, low)
      BY ONLY <2>1, <2>2, CurrentsDiffer
    <2>4. q > low
      BY <1>3, <2>2
    <2>. QED  BY <1>1, <1>3, <1>5, <1>6, <2>2, <2>3, <2>4
  <1>8. [[w EXCEPT !.name = <<>>] EXCEPT !.name = name] = w
    <2>1. w = Says(n, t, i, C[i], W)
      BY <1>4, <1>5, <1>7 DEF Told
    <2>2. PICK x, y : w = [type |-> n[i].type, name |-> name, text |-> x, members |-> y]
      BY <1>5, <2>1 DEF Says
    <2>. QED  BY <2>2, Renamed
  <1>9. R[q - 1] = Around(type, name, b, NestingLimit - q, v)
    BY <1>1, <1>2, <1>3, <1>5 DEF Expect
  <1>10. v # Nothing /\ v.end = e /\ [v.out EXCEPT !.name = name] = w
    <2>1. v.end = e /\ v.out = [w EXCEPT !.name = <<>>]
      BY <1>2, <1>5
    <2>2. Nothing.end = 0
      BY DEF Nothing
    <2>. QED  BY <1>8, <2>1, <2>2
  <1>11. R[q - 1] = Whole(type, b, MembersAt(type, [out |-> name, end |-> 0], v, rest))
    BY <1>1, <1>9, <1>10 DEF Around
  <1>12. MembersAt(type, [out |-> name, end |-> 0], v, rest) =
           IF Char(next) = Closing[type] THEN [out |-> <<w>>, end |-> next + 1]
           ELSE IF Char(next) = Comma /\ rest # Nothing
             THEN [out |-> <<w>> \o rest.out, end |-> rest.end]
           ELSE Nothing
    BY <1>10 DEF MembersAt
  <1>13. /\ IsSeq(b) /\ b \o <<w>> = Before(W, c, Len(c))
         /\ IsSeq(<<w>>) /\ (b \o <<w>>) \o <<>> = b \o <<w>>
    <2>1. IsSeq(b) /\ b \o <<w>> = Before(W, c, Len(c)) /\ IsSeq(Before(W, c, Len(c)))
      BY <1>5, <1>6, BeforeMore
    <2>2. IsSeq(<<w>>)
      BY OneIsSeq
    <2>. QED  BY <2>1, <2>2, JoinsAny
  <1>14. CASE Char(next) = Closing[type]
    <2>1. [out |-> <<w>>, end |-> next + 1] # Nothing
      BY DEF Nothing
    <2>2. R[q - 1] = Meaning(type, <<>>, b \o <<w>>, next + 1)
      BY <1>11, <1>12, <1>14, <2>1 DEF Whole
    <2>3. Expect(n, t, s, L, W, R, q - 1)
      BY <1>2, <1>3 DEF Expect
    <2>. QED  BY <1>1, <1>2, <1>5, <1>13, <1>14, <2>2, <2>3
  <1>15. CASE Char(next) # Closing[type]
    <2>1. R[q - 1] = IF Char(next) = Comma THEN Whole(type, b \o <<w>>, rest) ELSE Nothing
      <3>1. CASE Char(next) # Comma
        BY <1>11, <1>12, <1>15, <3>1 DEF Whole
      <3>2. CASE Char(next) = Comma /\ rest = Nothing
        BY <1>11, <1>12, <1>15, <3>2 DEF Whole
      <3>3. CASE Char(next) = Comma /\ rest # Nothing
        <4>1. [out |-> <<w>> \o rest.out, end |-> rest.end] # Nothing
          <5>1. PICK x : x = rest.out
            OBVIOUS
          <5>2. <<w>> \o x # <<>>
            <6>1. PICK B : x \in Seq(B)
              BY <3>3, <5>1 DEF IsSeq
            <6>2. <<w>> \in Seq(B \cup {w}) /\ x \in Seq(B \cup {w})
              BY <6>1
            <6>. QED  BY <6>2
          <5>. QED  BY <5>1, <5>2 DEF Nothing
        <4>2. b \o (<<w>> \o rest.out) = (b \o <<w>>) \o rest.out
          <5>1. PICK x, y : x = rest.out /\ y = <<w>>
            OBVIOUS
          <5>2. IsSeq(b) /\ IsSeq(y) /\ IsSeq(x)
            BY <1>13, <3>3, <5>1
          <5>3. b \o (y \o x) = (b \o y) \o x
            BY ONLY <5>2, JoinsAny
          <5>. QED  BY <5>1, <5>3
        <4>3. PICK m, o : o = <<w>> \o rest.out /\ m = [out |-> o, end |-> rest.end]
          OBVIOUS
        <4>4. m.out = o /\ m.end = rest.end /\ m # Nothing
          BY <4>1, <4>3
        <4>5. R[q - 1] = Whole(type, b, m)
          BY <1>11, <1>12, <1>15, <3>3, <4>3
        <4>6. R[q - 1] = Meaning(type, <<>>, b \o o, rest.end)
          BY <4>4, <4>5 DEF Whole
        <4>. QED  BY <3>3, <4>2, <4>3, <4>6 DEF Whole
      <3>. QED  BY <3>1, <3>2, <3>3
    <2>2. Expect(n, t, s, L, W, R, q - 1)
      BY <1>2, <1>3 DEF Expect
    <2>. QED  BY <1>1, <1>2, <1>5, <1>13, <1>15, <2>1, <2>2
  <1>. QED  BY <1>14, <1>15

\* What is read of the rest of a list, if there is a comma.
RestOf(s, e) ==
    Grammar[s[Len(s)].type][Solid(Solid(e) + 1)][NestingLimit - Len(s)]

LEMMA ListGoesOn ==
    ASSUME NEW n, NEW t, NEW s, NEW r, NEW e,
           NULL \notin DOMAIN n, Len(s) \in Nat, Len(s) # 0,
           HasRead(n, t, s, r, e), e # 0,
           Char(Solid(e)) = Comma => RestOf(s, e) = Nothing \/ IsSeq(RestOf(s, e).out),
           Char(Solid(e)) # Closing[s[Len(s)].type]
    PROVE  /\ Char(Solid(e)) = Comma => NeedsNext(n, t, s, r, RestOf(s, e))
           /\ Char(Solid(e)) # Comma =>
                Grammar["value"][Solid(0)][NestingLimit] = Nothing
  <1>1. PICK type, next, rest :
          /\ type = s[Len(s)].type /\ next = Solid(e)
          /\ rest = Grammar[type][Solid(next + 1)][NestingLimit - Len(s)]
    OBVIOUS
  <1>2. rest = RestOf(s, e)
    BY <1>1 DEF RestOf
  <1>3. Char(next) = Comma => rest = Nothing \/ IsSeq(rest.out)
    BY <1>1, <1>2
  <1>4. PICK L, C, W, R :
             /\ Held(n, t, s, r, Len(s) - 1, L, C, W)
             /\ Expect(n, t, s, L, W, R, Len(s) - 1)
             /\ R[Len(s) - 1] =
                  IF Char(next) = Closing[type]
                    THEN Meaning(type, <<>>, Before(W, L[Len(s)], Len(L[Len(s)])), next + 1)
                  ELSE IF Char(next) = Comma
                    THEN Whole(type, Before(W, L[Len(s)], Len(L[Len(s)])), rest)
                  ELSE Nothing
    BY <1>1, <1>3, ItemRead
  <1>5. CASE Char(next) = Comma
    <2>1. R[Len(s) - 1] = Whole(type, Before(W, L[Len(s)], Len(L[Len(s)])), rest)
      BY <1>1, <1>4, <1>5
    <2>2. NeedsNext(n, t, s, r, rest)
      BY <1>1, <1>4, <2>1 DEF NeedsNext
    <2>. QED  BY <1>1, <1>2, <1>5, <2>2
  <1>6. CASE Char(next) # Comma
    <2>1. R[Len(s) - 1] = Nothing /\ Len(s) - 1 \in Nat
      BY <1>1, <1>4, <1>6
    <2>2. Grammar["value"][Solid(0)][NestingLimit] = Nothing
      BY <1>4, <2>1, FailsUp
    <2>. QED  BY <1>1, <1>6, <2>2
  <1>. QED  BY <1>5, <1>6

LEMMA ListCloses ==
    ASSUME NEW n, NEW t, NEW m, NEW s, NEW r, NEW e, NEW z, NEW i,
           Nodes(n), Len(s) \in Nat, Len(s) # 0, HasRead(n, t, s, r, e), e # 0,
           Char(Solid(e)) = Comma => RestOf(s, e) = Nothing \/ IsSeq(RestOf(s, e).out),
           Char(Solid(e)) = Closing[s[Len(s)].type],
           s[Len(s)].type # "Number", i = s[Len(s)].item,
           DOMAIN m = DOMAIN n, \A j \in DOMAIN n \ {i} : m[j] = n[j],
           m[i].next = n[i].next, m[i].string = n[i].string,
           m[i].const = n[i].const, m[i].valuestring = n[i].valuestring,
           m[i].child = s[Len(s)].head, m[i].type = s[Len(s)].type,
           Len(z) = Len(s) - 1, \A k \in 1 .. (Len(s) - 1) : z[k] = s[k]
    PROVE  HasRead(m, t, z, r, Solid(e) + 1)
  <1>0. NULL \notin DOMAIN n
    BY HeapAssumption DEF Nodes
  <1>1. PICK type, next, rest, q, top :
          /\ type = s[Len(s)].type /\ next = Solid(e)
          /\ rest = Grammar[type][Solid(next + 1)][NestingLimit - Len(s)]
          /\ q = Len(s) /\ top = Len(s) - 1
    OBVIOUS
  <1>2. rest = RestOf(s, e)
    BY <1>1 DEF RestOf
  <1>3. Char(next) = Comma => rest = Nothing \/ IsSeq(rest.out)
    BY <1>1, <1>2
  <1>4. PICK L, C, W, R :
             /\ Held(n, t, s, r, Len(s) - 1, L, C, W)
             /\ Expect(n, t, s, L, W, R, Len(s) - 1)
             /\ R[Len(s) - 1] =
                  IF Char(next) = Closing[type]
                    THEN Meaning(type, <<>>, Before(W, L[Len(s)], Len(L[Len(s)])), next + 1)
                  ELSE IF Char(next) = Comma
                    THEN Whole(type, Before(W, L[Len(s)], Len(L[Len(s)])), rest)
                  ELSE Nothing
    BY <1>0, <1>1, <1>3, ItemRead
  <1>5. PICK D, c, y, V, E, low :
          /\ D = Finished(n, s, r, top) /\ c = L[q] /\ low = top - 1
          /\ y = Says(m, t, i, c, W) /\ V = Put(W, D, i, y) /\ E = Put(C, D, i, c)
    OBVIOUS
  <1>6. /\ q \in 1 .. q /\ top \in Nat /\ top = Len(s) - 1 /\ q = top + 1 /\ top \in 0 .. top
        /\ Under(low, top)
    BY <1>1, <1>5 DEF Under
  <1>7. /\ Held(n, t, s, r, top, L, C, W) /\ Expect(n, t, s, L, W, R, top)
        /\ Shaped(n, s, r, top, L) /\ Told(n, t, D, C, W)
    BY <1>1, <1>4, <1>5 DEF Held
  <1>8. /\ i = CurOf(s, r, top) /\ i \in DOMAIN n
        /\ n[i].child = NULL /\ n[i].valuestring = NULL
        /\ ListIn(n, c, s[q].head)
    <2>1. i = CurOf(s, r, q - 1) /\ ListIn(n, c, s[q].head)
      BY <1>1, <1>5, <1>6, <1>7 DEF Shaped
    <2>2. q - 1 = top
      BY <1>1
    <2>3. i = CurOf(s, r, top)
      BY <2>1, <2>2
    <2>. QED  BY <1>6, <1>7, <2>1, <2>3 DEF Shaped
  <1>9. \A a \in 1 .. Len(c) : c[a] \in D
    <2>1. \A k \in 1 .. Len(s) : \A a \in 1 .. Len(L[k]) :
            a < Len(L[k]) \/ k > top => L[k][a] \in Finished(n, s, r, top)
      <3>1. Len(s) \in Nat
        OBVIOUS
      <3>. QED  BY ONLY <1>0, <1>6, <1>7, <3>1, CurrentsDiffer
    <2>2. q > top /\ q \in 1 .. Len(s)
      BY <1>1, <1>6
    <2>. QED  BY <1>5, <2>1, <2>2
  <1>10. \A k \in 1 .. top : \A a \in 1 .. Len(c), b \in 1 .. Len(L[k]) : c[a] # L[k][b]
    <2>1. \A k, l \in 1 .. Len(s) :
            k # l => \A a \in 1 .. Len(L[k]), b \in 1 .. Len(L[l]) : L[k][a] # L[l][b]
      BY <1>7 DEF Shaped
    <2>2. q \in 1 .. Len(s) /\ \A k \in 1 .. top : k \in 1 .. Len(s) /\ k # q
      BY <1>1, <1>6
    <2>. QED  BY ONLY <1>5, <2>1, <2>2
  <1>11. Held(m, t, z, r, low, L, E, V)
    <2>1. /\ Nodes(n) /\ Len(s) \in Nat /\ Len(z) = top /\ \A k \in 1 .. top : z[k] = s[k]
          /\ DOMAIN m = DOMAIN n /\ \A j \in DOMAIN n \ {i} : m[j] = n[j]
          /\ m[i].next = n[i].next /\ m[i].string = n[i].string
          /\ ListIn(n, c, m[i].child) /\ D = Finished(n, s, r, top)
          /\ Under(low, top) /\ top \in Nat /\ i = CurOf(s, r, top)
          /\ (top = Len(s) - 1 \/ top = Len(s))
      BY <1>1, <1>5, <1>6, <1>8
    <2>2. Held(m, t, z, r, low, L, Put(C, D, i, c), Put(W, D, i, Says(m, t, i, c, W)))
      <3>1. Held(n, t, s, r, top, L, C, W)
        BY <1>7
      <3>. QED  BY ONLY <1>9, <1>10, <2>1, <3>1, HeldMore
    <2>. QED  BY <1>5, <2>2
  <1>12. Expect(m, t, z, L, V, R, top)
    <2>1. /\ Len(s) \in Nat /\ \A k \in 1 .. top : z[k] = s[k]
          /\ \A j \in DOMAIN n \ {i} : m[j] = n[j]
          /\ m[i].const = n[i].const /\ m[i].string = n[i].string
          /\ D = Finished(n, s, r, top) /\ top <= top /\ top <= Len(s)
      BY <1>1, <1>5, <1>6
    <2>2. Expect(m, t, z, L, Put(W, D, i, y), R, top)
      BY ONLY <1>0, <1>6, <1>7, <1>8, <2>1, ExpectMore
    <2>. QED  BY <1>5, <2>2
  <1>13. R[top] = [out |-> [V[i] EXCEPT !.name = <<>>], end |-> next + 1]
    <2>1. V[i] = y
      BY <1>5 DEF Put
    <2>2. PICK b : b = Before(W, c, Len(c))
      OBVIOUS
    <2>3. [a \in DOMAIN c |-> W[c[a]]] = b
      <3>1. DOMAIN c = 1 .. Len(c)
        BY <1>8 DEF ListIn
      <3>. QED  BY <2>2, <3>1 DEF Before
    <2>4. y = [type |-> type, name |-> NameIn(m, t, i), text |-> <<>>, members |-> b]
      BY <1>1, <1>5, <1>8, <2>3 DEF Says
    <2>5. [y EXCEPT !.name = <<>>] =
            [type |-> type, name |-> <<>>, text |-> <<>>, members |-> b]
      BY ONLY <2>4
    <2>6. R[top] = Meaning(type, <<>>, b, next + 1)
      BY <1>1, <1>4, <1>5, <2>2
    <2>. QED  BY <2>1, <2>5, <2>6 DEF Meaning
  <1>14. CurOf(z, r, top) = i /\ Len(z) = top /\ i \in DOMAIN m
    <2>1. CurOf(z, r, top) = CurOf(s, r, top)
      BY <1>1, <1>6 DEF CurOf
    <2>. QED  BY <1>1, <1>8, <2>1
  <1>15. HasRead(m, t, z, r, next + 1)
    <2>1. low = Len(z) - 1
      BY <1>5, <1>14
    <2>. QED  BY ONLY <1>11, <1>12, <1>13, <1>14, <2>1 DEF HasRead
  <1>. QED  BY <1>1, <1>15

-----------------------------------------------------------------------------
(* Strings under way *)

\* V are the places the first loop came to, from a on: the one after each of
\* them in front of e is among them, and no quote that counts is.
Visits(V, a, e) ==
    /\ a \in V /\ e \in V /\ V \subseteq a .. e
    /\ \A p \in V : p < e => /\ Char(p) # Quote
                             /\ (IF Char(p) = Backslash THEN p + 2 ELSE p + 1) \in V

LEMMA FarEnoughIs ==
    ASSUME Typed, ~WrongHex, NEW p \in 0 .. Len(text), NEW e \in Nat, p < e,
           Char(e) = Quote \/ e = length
    PROVE  FarEnough(p, e)
  <1>1. Len(text) \in Nat /\ length = Len(text) + 1
    BY TextIs
  <1>2. ASSUME Char(p) = Backslash, Char(p + 1) = 117
        PROVE  /\ e - p >= 6
               /\ Char(p + 6) = Backslash /\ Char(p + 7) = 117 => e - p >= 12
    <2>1. /\ p + 6 <= Len(text)
          /\ \A i \in 1 .. 5 : Char(p + i) \notin {Quote, Backslash}
      BY <1>2, Literal16Is
    <2>2. ASSUME e = p + 1 \/ e = p + 2 \/ e = p + 3 \/ e = p + 4 \/ e = p + 5
          PROVE  FALSE
      <3>1. Char(e) # Quote
        <4>1. /\ Char(p + 1) # Quote /\ Char(p + 2) # Quote /\ Char(p + 3) # Quote
              /\ Char(p + 4) # Quote /\ Char(p + 5) # Quote
          BY <2>1
        <4>. QED  BY <2>2, <4>1
      <3>2. e # length
        BY <1>1, <2>1, <2>2
      <3>. QED  BY <3>1, <3>2
    <2>3. e - p >= 6
      BY <2>2
    <2>4. ASSUME Char(p + 6) = Backslash, Char(p + 7) = 117
          PROVE  e - p >= 12
      <3>1. PICK q : q = p + 6
        OBVIOUS
      <3>2. q \in 0 .. Len(text) /\ Char(q) = Backslash /\ Char(q + 1) = 117
        <4>1. q + 1 = p + 7
          BY <3>1
        <4>. QED  BY <1>1, <2>1, <2>4, <3>1, <4>1
      <3>3. /\ q + 6 <= Len(text)
            /\ \A i \in 1 .. 5 : Char(q + i) \notin {Quote, Backslash}
        BY <3>2, Literal16Is
      <3>4. ASSUME e = q \/ e = q + 1 \/ e = q + 2 \/ e = q + 3 \/ e = q + 4 \/ e = q + 5
            PROVE  FALSE
        <4>1. /\ Char(q + 1) # Quote /\ Char(q + 2) # Quote /\ Char(q + 3) # Quote
              /\ Char(q + 4) # Quote /\ Char(q + 5) # Quote
          BY <3>3
        <4>2. Char(q) # Quote
          BY <3>2 DEF Quote, Backslash
        <4>3. Char(e) # Quote
          BY <3>4, <4>1, <4>2
        <4>4. e # length
          BY <1>1, <3>2, <3>3, <3>4
        <4>. QED  BY <4>3, <4>4
      <3>. QED  BY <2>3, <3>1, <3>4
    <2>. QED  BY <2>3, <2>4
  <1>. QED  BY <1>2 DEF FarEnough

\* The places at which the characters of the string begin are among them.
LEMMA CharacterPath ==
    ASSUME Typed, ~WrongHex, NEW V, NEW a \in Nat, NEW e \in Nat, Visits(V, a, e),
           Char(e) = Quote \/ e = length, NEW p \in V, p < e, p <= Len(text),
           NEW u \in Characters(p)
    PROVE  p + u.length \in V
  <1>1. /\ Len(text) \in Nat /\ length = Len(text) + 1
        /\ p \in 0 .. Len(text) /\ \A q \in V : q \in Nat
    BY TextIs DEF Visits
  <1>2. \A q \in V : q < e => IF Char(q) = Backslash THEN q + 2 \in V ELSE q + 1 \in V
    BY DEF Visits
  <1>3. FarEnough(p, e)
    BY <1>1, FarEnoughIs
  <1>4. CASE Char(p) # Backslash
    <2>1. u.length = 1
      BY <1>4 DEF Characters, IsLiteral16
    <2>. QED  BY <1>2, <1>4, <2>1
  <1>5. CASE Char(p) = Backslash /\ Char(p + 1) # 117
    <2>1. u.length = 2
      BY <1>5 DEF Characters, IsLiteral16, Backslash
    <2>. QED  BY <1>2, <1>5, <2>1
  <1>6. CASE Char(p) = Backslash /\ Char(p + 1) = 117
    <2>1. ASSUME NEW q \in V, q + 6 <= e, q <= Len(text),
                 Char(q) = Backslash, Char(q + 1) = 117
          PROVE  q + 6 \in V
      <3>1. /\ Char(q + 2) # Backslash /\ Char(q + 3) # Backslash
            /\ Char(q + 4) # Backslash /\ Char(q + 5) # Backslash
        <4>1. q \in 0 .. Len(text)
          BY <1>1, <2>1
        <4>2. \A i \in 1 .. 5 : Char(q + i) \notin {Quote, Backslash}
          BY <2>1, <4>1, Literal16Is
        <4>. QED  BY <4>2
      <3>2. q \in Nat /\ q + 2 \in V
        BY <1>1, <1>2, <2>1
      <3>3. q + 3 \in V
        <4>1. q + 2 < e /\ (q + 2) + 1 = q + 3
          BY <2>1, <3>2
        <4>. QED  BY <1>2, <3>1, <3>2, <4>1
      <3>4. q + 4 \in V
        <4>1. q + 3 < e /\ (q + 3) + 1 = q + 4
          BY <2>1, <3>2
        <4>. QED  BY <1>2, <3>1, <3>3, <4>1
      <3>5. q + 5 \in V
        <4>1. q + 4 < e /\ (q + 4) + 1 = q + 5
          BY <2>1, <3>2
        <4>. QED  BY <1>2, <3>1, <3>4, <4>1
      <3>6. q + 5 < e /\ (q + 5) + 1 = q + 6
        BY <2>1, <3>2
      <3>. QED  BY <1>2, <3>1, <3>5, <3>6
    <2>2. p + 6 <= e /\ p + 6 \in V /\ p + 6 <= Len(text)
      <3>1. p + 6 <= Len(text)
        BY <1>1, <1>6, Literal16Is
      <3>2. p + 6 <= e
        BY <1>1, <1>3, <1>6 DEF FarEnough
      <3>. QED  BY <1>6, <2>1, <3>1, <3>2
    <2>3. u.length = 6 \/ (u.length = 12 /\ IsLiteral16(p + 6))
      BY <1>6 DEF Characters, Backslash, Escapes
    <2>4. CASE u.length = 12 /\ IsLiteral16(p + 6)
      <3>1. PICK q : q = p + 6
        OBVIOUS
      <3>2. Char(q) = Backslash /\ Char(q + 1) = 117
        BY <2>4, <3>1 DEF IsLiteral16
      <3>3. q + 6 <= e
        <4>1. Char(p + 6) = Backslash /\ Char(p + 7) = 117
          <5>1. q + 1 = p + 7
            BY <1>1, <3>1
          <5>. QED  BY <3>1, <3>2, <5>1
        <4>. QED  BY <1>1, <1>3, <1>6, <3>1, <4>1 DEF FarEnough
      <3>4. q + 6 \in V
        BY <2>1, <2>2, <3>1, <3>2, <3>3
      <3>. QED  BY <1>1, <2>4, <3>1, <3>4
    <2>. QED  BY <2>2, <2>3, <2>4
  <1>. QED  BY <1>4, <1>5, <1>6

\* A string to which no quote puts an end.
LEMMA NeverEnds ==
    ASSUME Typed, ~WrongHex, NEW V, NEW a \in Nat, Visits(V, a, length),
           NEW p \in V
    PROVE  StringAt[p] = Nothing
  <1>. DEFINE S == {m \in Nat : \E q \in V : m = length - q /\ StringAt[q] # Nothing}
  <1>1. /\ Len(text) \in Nat /\ length = Len(text) + 1 /\ length \in Nat
        /\ \A q \in V : q \in Nat /\ q <= length
    BY TextIs DEF Visits
  <1>2. ASSUME NEW q \in V, \A r \in V : r > q => StringAt[r] = Nothing
        PROVE  StringAt[q] = Nothing
    <2>1. q \in Nat /\ StringAt[q] = StringBody(StringAt, q)
      BY <1>1, StringAtIs
    <2>2. CASE q >= Len(text)
      BY <2>1, <2>2, StringBodyEnd
    <2>3. CASE q < Len(text)
      <3>1. Char(q) # Quote
        BY <1>1, <2>1, <2>3 DEF Visits
      <3>2. CASE Characters(q) = {}
        BY <2>1, <3>1, <3>2 DEF StringBody
      <3>3. CASE Characters(q) # {}
        <4>. DEFINE u == CHOOSE c \in Characters(q) : TRUE
        <4>1. u \in Characters(q)
          BY <3>3
        <4>. HIDE DEF u
        <4>2. u.length \in Nat \ {0}
          BY <2>1, <4>1, CharacterIs
        <4>3. q + u.length \in V
          <5>1. q < length /\ q <= Len(text) /\ length = length
            BY <1>1, <2>1, <2>3
          <5>. QED  BY <1>1, <4>1, <5>1, CharacterPath
        <4>4. StringAt[q + u.length] = Nothing
          BY <1>2, <2>1, <4>2, <4>3
        <4>5. StringBody(StringAt, q) = Nothing
          BY <3>1, <4>4, Zenon DEF StringBody, u
        <4>. QED  BY <2>1, <4>5
      <3>. QED  BY <3>2, <3>3
    <2>. QED  BY <1>1, <2>1, <2>2, <2>3
  <1>3. S = {}
    <2>1. SUFFICES ASSUME S # {} PROVE FALSE
      OBVIOUS
    <2>2. S \subseteq Nat
      OBVIOUS
    <2>. HIDE DEF S
    <2>3. PICK m \in S : \A k \in S : m <= k
      BY <2>1, <2>2, Least
    <2>4. PICK q \in V : m = length - q /\ StringAt[q] # Nothing
      BY <2>3 DEF S
    <2>5. ASSUME NEW r \in V, r > q PROVE StringAt[r] = Nothing
      <3>1. SUFFICES ASSUME StringAt[r] # Nothing PROVE FALSE
        OBVIOUS
      <3>2. length - r \in S
        BY <1>1, <3>1 DEF S
      <3>. QED  BY <1>1, <2>3, <2>4, <2>5, <3>2
    <2>. QED  BY <1>2, <2>4, <2>5
  <1>4. length - p \in Nat
    BY <1>1
  <1>. QED  BY <1>3, <1>4

\* A string that begins with the bytes b, and goes on with what is read at r.
Follows(b, r) == IF r = Nothing THEN Nothing
                 ELSE [out |-> b \o r.out, end |-> r.end]

\* What the second loop does is what the grammar says of the place.
LEMMA UnitRead ==
    ASSUME Typed, ~WrongHex, NEW V, NEW a \in Nat, end \in Nat,
           Visits(V, a, end), end <= length, Char(end) = Quote \/ end = length,
           NEW p \in V, p < end
    PROVE  /\ Unit(p).length = 0 => StringAt[p] = Nothing
           /\ Unit(p).length # 0 =>
                /\ p + Unit(p).length \in V /\ Unit(p).length \in Nat
                /\ Unit(p).out \in Seq(Bytes)
                /\ StringAt[p] = Follows(Unit(p).out, StringAt[p + Unit(p).length])
  <1>1. /\ Len(text) \in Nat /\ length = Len(text) + 1
        /\ p \in 0 .. Len(text) /\ Char(p) # Quote
    BY TextIs DEF Visits
  <1>2. FarEnough(p, end)
    BY <1>1, FarEnoughIs
  <1>3. Characters(p) = IF Unit(p).length = 0 THEN {} ELSE {Unit(p)}
    BY <1>1, <1>2, UnitIs
  <1>4. StringAt[p] = StringBody(StringAt, p)
    BY <1>1, StringAtIs
  <1>5. CASE Unit(p).length = 0
    <2>1. StringBody(StringAt, p) = Nothing
      BY <1>1, <1>3, <1>5 DEF StringBody
    <2>. QED  BY <1>4, <1>5, <2>1
  <1>6. CASE Unit(p).length # 0
    <2>1. PICK u : u = Unit(p)
      OBVIOUS
    <2>2. Characters(p) = {u} /\ u \in Characters(p)
      BY <1>3, <1>6, <2>1
    <2>3. u.length \in Nat \ {0} /\ u.out \in Seq(Bytes)
      BY <1>1, <2>2, CharacterIs
    <2>4. p + u.length \in V
      <3>1. PICK e : e = end
        OBVIOUS
      <3>2. /\ e \in Nat /\ Visits(V, a, e) /\ p < e /\ p <= Len(text)
            /\ (Char(e) = Quote \/ e = length)
        BY <1>1, <3>1
      <3>3. u \in Characters(p)
        BY <2>2
      <3>. QED  BY ONLY Typed, ~WrongHex, a \in Nat, p \in V, <3>2, <3>3, CharacterPath
    <2>5. StringAt[p] = Follows(u.out, StringAt[p + u.length])
      <3>1. CASE p >= Len(text)
        <4>1. p + u.length \in Nat /\ p + u.length >= Len(text)
          BY <1>1, <2>3, <3>1
        <4>2. StringAt[p] = Nothing /\ StringAt[p + u.length] = Nothing
          BY <1>4, <3>1, <4>1, StringAtIs, StringBodyEnd
        <4>. QED  BY <4>2 DEF Follows
      <3>2. CASE p < Len(text)
        <4>1. (CHOOSE c \in Characters(p) : TRUE) = u
          BY <2>2
        <4>2. ~(p >= Len(text)) /\ Characters(p) # {}
          BY <1>1, <2>2, <3>2
        <4>3. StringBody(StringAt, p) =
                 LET rest == StringAt[p + u.length]
                 IN  IF rest = Nothing THEN Nothing
                     ELSE [out |-> u.out \o rest.out, end |-> rest.end]
          BY <1>1, <4>1, <4>2, Zenon DEF StringBody
        <4>. QED  BY <1>4, <4>3 DEF Follows
      <3>. QED  BY <1>1, <3>1, <3>2
    <2>. QED  BY <1>6, <2>1, <2>3, <2>4, <2>5
  <1>. QED  BY <1>5, <1>6

\* Bytes copied one character after the other.
LEMMA FollowsOn ==
    ASSUME Typed, NEW p \in Nat, NEW b \in Seq(Bytes), NEW c \in Seq(Bytes)
    PROVE  /\ Follows(b, Follows(c, StringAt[p])) = Follows(b \o c, StringAt[p])
           /\ Follows(<<>>, StringAt[p]) = StringAt[p]
  <1>1. CASE StringAt[p] = Nothing
    BY <1>1 DEF Follows
  <1>2. CASE StringAt[p] # Nothing
    <2>1. PICK r, o, e : r = StringAt[p] /\ o = r.out /\ e = r.end
      OBVIOUS
    <2>2. Ends(r, p) /\ o \in Seq(Bytes)
      BY <1>2, <2>1, StringAtEnds
    <2>3. r = [out |-> o, end |-> e]
      <3>1. StringAt[p] = StringBody(StringAt, p)
        BY StringAtIs
      <3>2. PICK x, y : StringBody(StringAt, p) = [out |-> x, end |-> y]
        BY Zenon DEF StringBody, Nothing
      <3>. QED  BY <2>1, <3>1, <3>2
    <2>4. b \o (c \o o) = (b \o c) \o o /\ <<>> \o o = o
      BY <2>2, Joins
    <2>5. Len(text) \in Nat /\ e # 0
      BY <2>1, <2>2, TextIs DEF Ends
    <2>6. Follows(c, r) = [out |-> c \o o, end |-> e]
      BY <1>2, <2>1 DEF Follows
    <2>7. PICK f, g : f = Follows(c, r) /\ g = c \o o
      OBVIOUS
    <2>8. f # Nothing /\ f.out = g /\ f.end = e
      BY <2>5, <2>6, <2>7 DEF Nothing
    <2>9. Follows(b, f) = [out |-> b \o g, end |-> e]
      BY <2>8 DEF Follows
    <2>10. Follows(b \o c, r) = [out |-> (b \o c) \o o, end |-> e]
      BY <1>2, <2>1 DEF Follows
    <2>11. Follows(<<>>, r) = r
      BY <1>2, <2>1, <2>3, <2>4 DEF Follows
    <2>. QED  BY <2>1, <2>4, <2>7, <2>9, <2>10, <2>11
  <1>. QED  BY <1>1, <1>2

-----------------------------------------------------------------------------
(* The inductive invariant *)

\* What the grammar reads at o: a value, or members of the topmost frame.
ValueFrom(s, o)   == Grammar["value"][o][NestingLimit - Len(s)]
MembersFrom(s, o) == Grammar[s[Len(s)].type][o][NestingLimit - Len(s)]

\* What is read at o is what item i is to be: its value, or its name first.
Needs(n, t, s, r, i, name, o) ==
    /\ o \in 0 .. Len(text)
    /\ name => s[Len(s)].type = "Object" /\ NeedsName(n, t, s, r, i, MembersFrom(s, o))
    /\ ~name => NeedsValue(n, t, s, r, i, ValueFrom(s, o))

\* The string at o is looked through up to e; when it is copied, b is what it
\* begins with and j where it goes on.
Copying(o, decode, j, e, b) ==
    /\ o < Len(text) /\ Char(o) = Quote
    /\ \E V : /\ Visits(V, o + 1, e)
              /\ decode => j \in V /\ StringAt[o + 1] = Follows(b, StringAt[j])

\* At every place, the tree under construction and what the grammar reads of
\* the rest of the text make up what it reads of the whole text.
Meant(n, t, s, r, i, o, k, name, j, e, b, short) ==
    /\ k \in {"value", "name", "scan", "decode"} =>
           Needs(n, t, s, r, i, k = "name" \/ (k \in {"scan", "decode"} /\ name), o)
    /\ k \in {"scan", "decode"} =>
           Copying(o, k = "decode", j, e, IF k = "decode" THEN t[b] ELSE <<>>)
    /\ k = "element" => /\ o + 1 \in 0 .. Len(text)
                        /\ NeedsNext(n, t, s, r, MembersFrom(s, Solid(o + 1)))
    /\ k = "true" /\ o <= length => o \in 1 .. Len(text) /\ HasRead(n, t, s, r, o)
    /\ k = "false" /\ o <= length /\ ~short =>
           Grammar["value"][Solid(0)][NestingLimit] = Nothing

GrammarInv ==
    ~WrongHex => Meant(node, str, stack, root, item, offset, pc, naming, in, end,
                       output, starved)

-----------------------------------------------------------------------------
(* The text does not change, and with it nothing the grammar says. *)

LEMMA SameChar ==
    ASSUME UNCHANGED source, NEW p
    PROVE  /\ Char(p)' = Char(p) /\ Solid(p)' = Solid(p)
           /\ Len(text)' = Len(text) /\ length' = length
  BY DEF Char, source, Solid, length

LEMMA SameString ==
    ASSUME UNCHANGED source
    PROVE  StringAt' = StringAt
  BY DEF StringAt, Nothing, Char, source, Characters, Hex, IsHex, IsLiteral16, Paired

LEMMA SameCopied ==
    ASSUME UNCHANGED source, NEW p
    PROVE  Copied(p)' = Copied(p) /\ \A w : At(p, w)' = At(p, w)
  BY DEF Copied, At, length, Char, source

LEMMA SameWrong ==
    ASSUME UNCHANGED source
    PROVE  WrongHex' <=> WrongHex
  BY DEF WrongHex, Char, source, IsHex

\* A value by the character, the literals, the string and the number there.
ScalarOf(p, c, words, string, number) ==
    IF words # {} THEN
        LET type == CHOOSE t \in words : TRUE
        IN  Meaning(type, <<>>, <<>>, p + Len(Literals[type]))
    ELSE IF c = Quote /\ string # Nothing
        THEN Meaning("String", string.out, <<>>, string.end)
    ELSE IF c \in Digits \cup {45} /\ number # <<>>
        THEN Meaning("Number", number, <<>>, p + Len(number))
    ELSE Nothing

LEMMA SameScalar ==
    ASSUME UNCHANGED source, NEW p
    PROVE  ScalarAt(p)' = ScalarAt(p)
  <1>. DEFINE words  == {t \in DOMAIN Literals : At(p, Literals[t])}
              number == SubSeq(Copied(p), 1, strtod(Copied(p)))
  <1>1. StringAt' = StringAt /\ Char(p)' = Char(p) /\ number' = number
    BY SameString, SameCopied, SameChar
  <1>2. words' = words
    BY SameCopied
  <1>3. ScalarAt(p) = ScalarOf(p, Char(p), words, StringAt[p + 1], number)
    BY Zenon DEF ScalarAt, ScalarOf
  <1>4. ScalarAt(p)' = ScalarOf(p, Char(p)', words', StringAt'[p + 1], number')
    BY Zenon DEF ScalarAt, ScalarOf
  <1>. HIDE DEF words, number
  <1>. QED  BY ONLY <1>1, <1>2, <1>3, <1>4, Zenon

LEMMA SameName ==
    ASSUME UNCHANGED source, NEW t, NEW p
    PROVE  NameAt(t, p)' = NameAt(t, p)
  <1>1. StringAt' = StringAt /\ \A q : Char(q)' = Char(q) /\ Solid(q)' = Solid(q)
    BY SameString, SameChar
  <1>. QED  BY ONLY <1>1 DEF NameAt

LEMMA SameList ==
    ASSUME UNCHANGED source, NEW t, NEW p, NEW m
    PROVE  ListAt(t, p, m)' = ListAt(t, p, m)
  BY DEF source, ListAt, Meaning, Nothing, Char, Solid

LEMMA SameMembers ==
    ASSUME UNCHANGED source, NEW t, NEW p, NEW m, NEW v
    PROVE  MembersAt(t, p, m, v)' = MembersAt(t, p, m, v)
  BY DEF source, MembersAt, Meaning, Nothing, Char, Solid

LEMMA SameBody ==
    ASSUME UNCHANGED source, NEW g, NEW what, NEW p, NEW d
    PROVE  GrammarBody(g, what, p, d)' = GrammarBody(g, what, p, d)
  <1>1. /\ \A q : Char(q)' = Char(q) /\ Solid(q)' = Solid(q)
        /\ NameAt(what, p)' = NameAt(what, p) /\ ScalarAt(p)' = ScalarAt(p)
    BY SameChar, SameScalar, SameName
  <1>2. OpenedBy(p)' = OpenedBy(p)
    BY <1>1 DEF OpenedBy
  <1>3. ValueBody(g, p, d)' = ValueBody(g, p, d)
    <2>1. PICK t, m : t = OpenedBy(p) /\ m = g[t][Solid(p + 1)][d - 1]
      OBVIOUS
    <2>2. t = OpenedBy(p)' /\ m = g[t][Solid(p + 1)'][d - 1]
      BY <1>1, <1>2, <2>1
    <2>3. ListAt(t, p, m)' = ListAt(t, p, m)
      BY SameList
    <2>. QED  BY <1>1, <2>1, <2>2, <2>3 DEF ValueBody
  <1>4. MembersBody(g, what, p, d)' = MembersBody(g, what, p, d)
    <2>1. PICK n, v, q, r :
            /\ n = NameAt(what, p) /\ v = g["value"][n.end][d]
            /\ q = Solid(v.end) /\ r = g[what][Solid(q + 1)][d]
      OBVIOUS
    <2>2. n = NameAt(what, p)' /\ q = Solid(v.end)' /\ r = g[what][Solid(q + 1)'][d]
      BY <1>1, <2>1
    <2>3. MembersAt(what, n, v, r)' = MembersAt(what, n, v, r)
      BY SameMembers
    <2>. QED  BY <1>1, <2>1, <2>2, <2>3 DEF MembersBody
  <1>. QED  BY <1>3, <1>4 DEF GrammarBody

LEMMA SameGrammar ==
    ASSUME UNCHANGED source
    PROVE  Grammar' = Grammar
  <1>. DEFINE F(g) == [what \in Kinds |-> [p \in 0 .. Len(text) |->
                          [d \in Nat |-> GrammarBody(g, what, p, d)]]]
  <1>1. ASSUME NEW g PROVE F(g)' = F(g)
    BY SameBody, SameChar
  <1>2. Grammar = CHOOSE g : g = F(g)
    BY GrammarChosen
  <1>3. Grammar' = CHOOSE g : g = F(g)'
    BY DEF Grammar, GrammarBody, ValueBody, MembersBody, Kinds, OpenedBy
  <1>. HIDE DEF F
  <1>. QED  BY <1>1, <1>2, <1>3

LEMMA SameExpect ==
    ASSUME UNCHANGED source, NEW n, NEW t, NEW s, NEW L, NEW W, NEW R, NEW last
    PROVE  Expect(n, t, s, L, W, R, last)' <=> Expect(n, t, s, L, W, R, last)
  <1>1. ASSUME NEW type, NEW name, NEW before, NEW d, NEW v
        PROVE  Around(type, name, before, d, v)' = Around(type, name, before, d, v)
    <2>1. PICK q, x : q = Solid(v.end) /\ x = Grammar[type][Solid(q + 1)][d]
      OBVIOUS
    <2>2. q = Solid(v.end)' /\ x = Grammar'[type][Solid(q + 1)'][d]
      BY <2>1, SameChar, SameGrammar
    <2>3. MembersAt(type, [out |-> name, end |-> 0], v, x)' =
            MembersAt(type, [out |-> name, end |-> 0], v, x)
      BY SameMembers
    <2>. QED  BY <2>1, <2>2, <2>3 DEF Around
  <1>2. Grammar' = Grammar /\ Solid(0)' = Solid(0)
    BY SameChar, SameGrammar
  <1>. QED  BY ONLY <1>1, <1>2 DEF Expect, NameIn, Before

LEMMA SameNeeds ==
    ASSUME UNCHANGED source, NEW n, NEW t, NEW s, NEW r, NEW i, NEW m, NEW e
    PROVE  /\ NeedsValue(n, t, s, r, i, m)' <=> NeedsValue(n, t, s, r, i, m)
           /\ NeedsName(n, t, s, r, i, m)' <=> NeedsName(n, t, s, r, i, m)
           /\ NeedsNext(n, t, s, r, m)' <=> NeedsNext(n, t, s, r, m)
           /\ HasRead(n, t, s, r, e)' <=> HasRead(n, t, s, r, e)
  BY SameExpect DEF NeedsValue, NeedsName, NeedsNext, HasRead

LEMMA SameMeant ==
    ASSUME UNCHANGED source, NEW n, NEW t, NEW s, NEW r, NEW i, NEW o, NEW k,
           NEW name, NEW j, NEW e, NEW b, NEW short
    PROVE  Meant(n, t, s, r, i, o, k, name, j, e, b, short)' <=>
             Meant(n, t, s, r, i, o, k, name, j, e, b, short)
  <1>1. /\ Grammar' = Grammar /\ Len(text)' = Len(text) /\ length' = length
        /\ \A q : Char(q)' = Char(q) /\ Solid(q)' = Solid(q)
        /\ StringAt' = StringAt
    BY SameGrammar, SameChar, SameString
  <1>2. ASSUME NEW x, NEW y
        PROVE  Needs(n, t, s, r, i, x, y)' <=> Needs(n, t, s, r, i, x, y)
    BY <1>1, SameNeeds DEF Needs, ValueFrom, MembersFrom
  <1>3. ASSUME NEW x, NEW y
        PROVE  Copying(o, x, j, e, y)' <=> Copying(o, x, j, e, y)
    BY <1>1 DEF Copying, Visits, Follows, Nothing
  <1>4. NeedsNext(n, t, s, r, MembersFrom(s, Solid(o + 1)))' <=>
          NeedsNext(n, t, s, r, MembersFrom(s, Solid(o + 1)))
    BY <1>1, SameNeeds DEF MembersFrom
  <1>5. HasRead(n, t, s, r, o)' <=> HasRead(n, t, s, r, o)
    BY SameNeeds
  <1>. QED  BY <1>1, <1>2, <1>3, <1>4, <1>5 DEF Meant

\* The next state keeps the invariant if it does by the text of this one.
LEMMA MeansNext ==
    ASSUME UNCHANGED source,
           ~WrongHex => Meant(node', str', stack', root', item', offset', pc', naming',
                              in', end', output', starved')
    PROVE  GrammarInv'
  <1>1. PICK n, t, s, r, i, o, k, name, j, e, b, short :
          /\ n = node' /\ t = str' /\ s = stack' /\ r = root' /\ i = item'
          /\ o = offset' /\ k = pc' /\ name = naming' /\ j = in' /\ e = end'
          /\ b = output' /\ short = starved'
    OBVIOUS
  <1>2. ~WrongHex => Meant(n, t, s, r, i, o, k, name, j, e, b, short)'
    BY <1>1, SameMeant
  <1>3. WrongHex' <=> WrongHex
    BY SameWrong
  <1>. QED  BY <1>1, <1>2, <1>3 DEF GrammarInv

-----------------------------------------------------------------------------
(* The beginning, the end, and texts *)

\* Other texts than those of the items change.
LEMMA OtherTexts ==
    ASSUME NEW n, NEW t, NEW u, NEW s, NEW r, NEW i, NEW m,
           Nodes(n), Len(s) \in Nat,
           \A j \in DOMAIN n :
               /\ n[j].string # NULL => u[n[j].string] = t[n[j].string]
               /\ n[j].valuestring # NULL => u[n[j].valuestring] = t[n[j].valuestring]
    PROVE  /\ NeedsValue(n, t, s, r, i, m) => NeedsValue(n, u, s, r, i, m)
           /\ NeedsName(n, t, s, r, i, m) => NeedsName(n, u, s, r, i, m)
  <1>1. ASSUME NEW L, NEW C, NEW W, NEW R, NEW last \in Nat, last <= Len(s),
               Held(n, t, s, r, Len(s), L, C, W), Expect(n, t, s, L, W, R, last)
        PROVE  Held(n, u, s, r, Len(s), L, C, W) /\ Expect(n, u, s, L, W, R, last)
    <2>1. \A j \in DOMAIN n : SameSaid(n, t, n, u, j) /\ NameIn(n, u, j) = NameIn(n, t, j)
      BY DEF SameSaid, NameIn
    <2>2. Finished(n, s, r, Len(s)) \subseteq DOMAIN n
      BY DEF Finished
    <2>3. Held(n, u, s, r, Len(s), L, C, W)
      <3>1. \A j \in Finished(n, s, r, Len(s)) : SameSaid(n, t, n, u, j)
        BY <2>1, <2>2
      <3>2. PICK top : top = Len(s)
        OBVIOUS
      <3>3. Held(n, u, s, r, top, L, C, W)
        <4>1. /\ Held(n, t, s, r, top, L, C, W) /\ Nodes(n) /\ Len(s) \in Nat
              /\ \A j \in Finished(n, s, r, top) : SameSaid(n, t, n, u, j)
          BY <1>1, <3>1, <3>2
        <4>. QED  BY ONLY <4>1, HeldSame
      <3>. QED  BY <3>2, <3>3
    <2>4. \A k \in 1 .. last : s[k].current \in DOMAIN n
      <3>1. \A k \in 1 .. last : k \in 0 .. Len(s) /\ k # 0
        BY <1>1
      <3>2. \A k \in 0 .. Len(s) : CurOf(s, r, k) \in DOMAIN n
        BY <1>1 DEF Held, Shaped
      <3>. QED  BY <3>1, <3>2 DEF CurOf
    <2>5. Expect(n, u, s, L, W, R, last)
      <3>1. \A k \in 1 .. last : NameIn(n, u, s[k].current) = NameIn(n, t, s[k].current)
        BY <2>1, <2>4
      <3>. QED  BY ONLY <1>1, <3>1 DEF Expect
    <2>. QED  BY <2>3, <2>5
  <1>2. ASSUME NeedsValue(n, t, s, r, i, m)
        PROVE  NeedsValue(n, u, s, r, i, m)
    <2>1. PICK L, C, W, R : /\ Held(n, t, s, r, Len(s), L, C, W)
                            /\ Expect(n, t, s, L, W, R, Len(s))
                            /\ i = CurOf(s, r, Len(s)) /\ R[Len(s)] = m
      BY <1>2 DEF NeedsValue
    <2>2. Held(n, u, s, r, Len(s), L, C, W) /\ Expect(n, u, s, L, W, R, Len(s))
      BY <1>1, <2>1
    <2>. QED  BY <2>1, <2>2 DEF NeedsValue
  <1>3. ASSUME NeedsName(n, t, s, r, i, m)
        PROVE  NeedsName(n, u, s, r, i, m)
    <2>1. PICK L, C, W, R :
             /\ Held(n, t, s, r, Len(s), L, C, W)
             /\ Expect(n, t, s, L, W, R, Len(s) - 1)
             /\ i = CurOf(s, r, Len(s))
             /\ R[Len(s) - 1] =
                  Whole(s[Len(s)].type, Before(W, L[Len(s)], Len(L[Len(s)]) - 1), m)
      BY <1>3 DEF NeedsName
    <2>2. Len(s) # 0
      BY <1>3 DEF NeedsName
    <2>3. Len(s) - 1 \in Nat /\ Len(s) - 1 <= Len(s)
      BY <2>2
    <2>4. Held(n, u, s, r, Len(s), L, C, W) /\ Expect(n, u, s, L, W, R, Len(s) - 1)
      <3>1. PICK last : last = Len(s) - 1
        OBVIOUS
      <3>2. last \in Nat /\ last <= Len(s) /\ Expect(n, t, s, L, W, R, last)
        BY <2>1, <2>3, <3>1
      <3>3. Held(n, u, s, r, Len(s), L, C, W) /\ Expect(n, u, s, L, W, R, last)
        BY ONLY <1>1, <2>1, <3>2
      <3>. QED  BY <3>1, <3>3
    <2>. QED  BY ONLY <2>1, <2>2, <2>4 DEF NeedsName
  <1>. QED  BY <1>2, <1>3

\* The root, when it is allocated.
LEMMA RootNeedsValue ==
    ASSUME NEW n, NEW t, NEW s, s = <<>>, NEW r, DOMAIN n = {r},
           n[r].child = NULL, n[r].valuestring = NULL, n[r].string = NULL
    PROVE  NeedsValue(n, t, s, r, r, Grammar["value"][Solid(0)][NestingLimit])
  <1>1. PICK v : v = Grammar["value"][Solid(0)][NestingLimit]
    OBVIOUS
  <1>2. PICK f, R : f = <<>> /\ R = [k \in {0} |-> v]
    OBVIOUS
  <1>3. Held(n, t, s, r, 0, f, f, f)
    BY HeldStart
  <1>4. Len(s) = 0 /\ R[0] = v /\ CurOf(s, r, 0) = r
    BY <1>2 DEF CurOf
  <1>5. Expect(n, t, s, f, f, R, 0)
    BY <1>1, <1>4 DEF Expect
  <1>. QED  BY <1>1, <1>3, <1>4, <1>5 DEF NeedsValue

\* The root, when it was read.
LEMMA RootWasRead ==
    ASSUME NEW s, s = <<>>, NEW r, NEW e, Nodes(node), IsFiniteSet(DOMAIN node),
           HasRead(node, str, s, r, e)
    PROVE  Grammar["value"][Solid(0)][NestingLimit] = [out |-> ValueOf[r], end |-> e]
  <1>1. Len(s) = 0 /\ CurOf(s, r, 0) = r
    BY DEF CurOf
  <1>2. PICK L, C, W, R :
          /\ Held(node, str, s, r, -1, L, C, W)
          /\ Expect(node, str, s, L, W, R, 0)
          /\ R[0] = [out |-> [W[r] EXCEPT !.name = <<>>], end |-> e]
          /\ r \in DOMAIN node
    <2>1. Len(s) - 1 = -1
      BY <1>1
    <2>. QED  BY <1>1, <2>1 DEF HasRead
  <1>3. Finished(node, s, r, -1) = DOMAIN node
    <2>1. 0 .. -1 = {}
      OBVIOUS
    <2>2. {CurOf(s, r, k) : k \in {}} = {}
      OBVIOUS
    <2>. QED  BY <2>1, <2>2 DEF Finished
  <1>4. Told(node, str, DOMAIN node, C, W) /\ node[r].string = NULL
    BY <1>2, <1>3 DEF Held, Shaped
  <1>5. ValueOf[r] = W[r]
    BY <1>2, <1>4, ValueOfIs
  <1>6. [W[r] EXCEPT !.name = <<>>] = W[r]
    <2>1. W[r] = Says(node, str, r, C[r], W)
      BY <1>2, <1>4 DEF Told
    <2>2. NameIn(node, str, r) = <<>>
      BY <1>4 DEF NameIn
    <2>3. PICK w, x, y, z : w = W[r] /\ w = [type |-> x, name |-> <<>>, text |-> y, members |-> z]
      BY <2>1, <2>2 DEF Says
    <2>4. [w EXCEPT !.name = <<>>] = w
      BY ONLY <2>3
    <2>. QED  BY <2>3, <2>4
  <1>. QED  BY <1>2, <1>5, <1>6 DEF Expect

-----------------------------------------------------------------------------
(* The steps *)

LEMMA ReadingFacts ==
    ASSUME ParseInv, KeptInv
    PROVE  /\ Typed /\ Nodes(node) /\ Strs(str) /\ NULL \notin DOMAIN node
           /\ Len(stack) \in Nat /\ NestingLimit - Len(stack) \in Nat
           /\ Len(text) \in Nat /\ length = Len(text) + 1
  <1>1. Typed
    BY Facts DEF Typed
  <1>2. Len(stack) <= NestingLimit /\ NestingLimit \in Nat
    BY ParseAssumption DEF ParseInv, NestingBounded
  <1>. QED  BY <1>1, <1>2, KeptFacts, TextIs

\* An item gets a type.
Changed(n, m, i, t) ==
    /\ DOMAIN m = DOMAIN n /\ \A j \in DOMAIN n \ {i} : m[j] = n[j]
    /\ m[i].type = t /\ m[i].next = n[i].next /\ m[i].const = n[i].const

\* It gets a value of its type too, or a name.
SetsType(n, m, i, t)      == m = [n EXCEPT ![i].type = t]
SetsNumber(n, m, i, t, c) == m = [n EXCEPT ![i].type = t, ![i].number = c]
SetsText(n, m, i, t, c)   == m = [n EXCEPT ![i].type = t, ![i].valuestring = c]
SetsName(n, m, i, t, c)   == m = [n EXCEPT ![i].type = t, ![i].string = c]
SetsList(n, m, i, t, c)   == m = [n EXCEPT ![i].type = t, ![i].child = c]

LEMMA TypeIsSet ==
    ASSUME NEW n, Nodes(n), NEW i \in DOMAIN n, NEW m, NEW t, SetsType(n, m, i, t)
    PROVE  /\ Changed(n, m, i, t)
           /\ m[i].string = n[i].string /\ m[i].child = n[i].child
           /\ m[i].valuestring = n[i].valuestring
  <1>1. /\ m[i] = [n[i] EXCEPT !.type = t] /\ DOMAIN m = DOMAIN n
        /\ \A j \in DOMAIN n \ {i} : m[j] = n[j]
    BY DEF SetsType
  <1>2. n[i] \in Item
    BY DEF Nodes
  <1>. QED  BY ONLY <1>1, <1>2 DEF Item, Changed

LEMMA NumberIsSet ==
    ASSUME NEW n, Nodes(n), NEW i \in DOMAIN n, NEW m, NEW t, NEW c,
           SetsNumber(n, m, i, t, c)
    PROVE  /\ Changed(n, m, i, t) /\ m[i].number = c
           /\ m[i].string = n[i].string /\ m[i].child = n[i].child
           /\ m[i].valuestring = n[i].valuestring
  <1>1. /\ m[i] = [[n[i] EXCEPT !.type = t] EXCEPT !.number = c]
        /\ DOMAIN m = DOMAIN n /\ \A j \in DOMAIN n \ {i} : m[j] = n[j]
    BY DEF SetsNumber
  <1>2. n[i] \in Item
    BY DEF Nodes
  <1>. QED  BY ONLY <1>1, <1>2 DEF Item, Changed

LEMMA TextIsSet ==
    ASSUME NEW n, Nodes(n), NEW i \in DOMAIN n, NEW m, NEW t, NEW c,
           SetsText(n, m, i, t, c)
    PROVE  /\ Changed(n, m, i, t) /\ m[i].valuestring = c
           /\ m[i].string = n[i].string /\ m[i].child = n[i].child
  <1>1. /\ m[i] = [[n[i] EXCEPT !.type = t] EXCEPT !.valuestring = c]
        /\ DOMAIN m = DOMAIN n /\ \A j \in DOMAIN n \ {i} : m[j] = n[j]
    BY DEF SetsText
  <1>2. n[i] \in Item
    BY DEF Nodes
  <1>. QED  BY ONLY <1>1, <1>2 DEF Item, Changed

LEMMA NameIsSet ==
    ASSUME NEW n, Nodes(n), NEW i \in DOMAIN n, NEW m, NEW t, NEW c,
           SetsName(n, m, i, t, c)
    PROVE  /\ Changed(n, m, i, t) /\ m[i].string = c
           /\ m[i].child = n[i].child /\ m[i].valuestring = n[i].valuestring
  <1>1. /\ m[i] = [[n[i] EXCEPT !.type = t] EXCEPT !.string = c]
        /\ DOMAIN m = DOMAIN n /\ \A j \in DOMAIN n \ {i} : m[j] = n[j]
    BY DEF SetsName
  <1>2. n[i] \in Item
    BY DEF Nodes
  <1>. QED  BY ONLY <1>1, <1>2 DEF Item, Changed

LEMMA ListIsSet ==
    ASSUME NEW n, Nodes(n), NEW i \in DOMAIN n, NEW m, NEW t, NEW c,
           SetsList(n, m, i, t, c)
    PROVE  /\ Changed(n, m, i, t) /\ m[i].child = c
           /\ m[i].string = n[i].string /\ m[i].valuestring = n[i].valuestring
  <1>1. /\ m[i] = [[n[i] EXCEPT !.type = t] EXCEPT !.child = c]
        /\ DOMAIN m = DOMAIN n /\ \A j \in DOMAIN n \ {i} : m[j] = n[j]
    BY DEF SetsList
  <1>2. n[i] \in Item
    BY DEF Nodes
  <1>. QED  BY ONLY <1>1, <1>2 DEF Item, Changed

\* Nothing is read where something is needed.
LEMMA MeansNothing ==
    ASSUME NEW n, NEW t, NEW s, NEW r, NEW i, NEW o, NEW k, NEW name, NEW j, NEW e,
           NEW b, NEW short, k = "false",
           short = TRUE \/ o > length \/ Grammar["value"][Solid(0)][NestingLimit] = Nothing,
           length \in Nat, o \in Nat
    PROVE  Meant(n, t, s, r, i, o, k, name, j, e, b, short)
  BY DEF Meant

\* A value was read that is no array or object.
LEMMA MeansValue ==
    ASSUME NEW n, NEW t, NEW m, NEW s, NEW r, NEW i, NEW o, NEW k, NEW name, NEW j, NEW e,
           NEW b, NEW short, NEW h, NEW type, NEW content, NEW from, k = "true",
           Nodes(n), Len(s) \in Nat, Len(text) \in Nat, from \in 0 .. Len(text),
           NeedsValue(n, t, s, r, i, Meaning(type, content, <<>>, o)),
           Good("value", Meaning(type, content, <<>>, o), from),
           Changed(n, m, i, type), m[i].string = n[i].string, m[i].child = NULL,
           content = IF m[i].type = "Number" THEN m[i].number
                     ELSE IF m[i].valuestring = NULL THEN <<>>
                     ELSE t[m[i].valuestring]
    PROVE  Meant(m, t, s, r, h, o, k, name, j, e, b, short)
  <1>1. HasRead(m, t, s, r, o)
    BY ValueSettles DEF Changed
  <1>2. o \in 1 .. Len(text)
    <2>1. /\ Meaning(type, content, <<>>, o).out # <<>>
          /\ Meaning(type, content, <<>>, o).end = o
      BY DEF Meaning
    <2>2. o \in (from + 1) .. Len(text)
      BY <2>1 DEF Good, Nothing, Ends
    <2>. QED  BY <2>2
  <1>. QED  BY <1>1, <1>2 DEF Meant

LEMMA AtValue ==
    ASSUME ParseInv, KeptInv, GrammarInv, ~WrongHex, pc = "value"
    PROVE  /\ offset \in 0 .. Len(text)
           /\ \E v : /\ NeedsValue(node, str, stack, root, item, v)
                     /\ v = ValueFrom(stack, offset) /\ Good("value", v, offset)
                     /\ v = ValueBody(Grammar, offset, NestingLimit - Len(stack))
           /\ item \in DOMAIN node
           /\ node[item].child = NULL /\ node[item].valuestring = NULL
  <1>1. /\ Typed /\ NestingLimit - Len(stack) \in Nat /\ Working
    BY ReadingFacts DEF Working
  <1>2. Needs(node, str, stack, root, item, FALSE, offset)
    BY DEF GrammarInv, Meant
  <1>3. offset \in 0 .. Len(text) /\ NeedsValue(node, str, stack, root, item, ValueFrom(stack, offset))
    BY <1>2 DEF Needs
  <1>4. PICK d : d = NestingLimit - Len(stack) /\ d \in Nat
    BY <1>1
  <1>5. /\ Grammar["value"][offset][d] = ValueBody(Grammar, offset, d)
        /\ Good("value", Grammar["value"][offset][d], offset)
    BY <1>1, <1>3, <1>4, GrammarIs DEF GrammarBody, Kinds
  <1>6. /\ item \in DOMAIN node
        /\ node[item].child = NULL /\ node[item].valuestring = NULL
    BY <1>1, KeptFacts DEF KeptInv, LinkInv, TextInv
  <1>. QED  BY <1>3, <1>4, <1>5, <1>6 DEF ValueFrom

\* The literals and their first characters.
LEMMA LiteralsAre ==
    /\ DOMAIN Literals = {"NULL", "False", "True"}
    /\ \A t \in DOMAIN Literals :
         /\ Len(Literals[t]) \in Nat /\ 1 \in DOMAIN Literals[t]
         /\ Literals[t][1] \notin {Quote, 45} \cup Digits \cup Range(Opening)
    /\ \A t, u \in DOMAIN Literals : Literals[t][1] = Literals[u][1] => t = u
    /\ Range(Opening) = {91, 123}
  <1>1. Range(Opening) = {91, 123}
    BY DEF Range, Opening
  <1>2. /\ DOMAIN Literals = {"NULL", "False", "True"}
        /\ Literals["NULL"] = <<110, 117, 108, 108>>
        /\ Literals["False"] = <<102, 97, 108, 115, 101>>
        /\ Literals["True"] = <<116, 114, 117, 101>>
    BY DEF Literals
  <1>3. /\ \A t \in DOMAIN Literals : Len(Literals[t]) \in Nat /\ 1 \in DOMAIN Literals[t]
        /\ Literals["NULL"][1] = 110 /\ Literals["False"][1] = 102
        /\ Literals["True"][1] = 116
    BY <1>2
  <1>4. ASSUME NEW t \in DOMAIN Literals
        PROVE  Literals[t][1] \notin {Quote, 45} \cup Digits \cup Range(Opening)
    <2>1. PICK c : c = Literals[t][1] /\ c \in {110, 102, 116}
      BY <1>2, <1>3
    <2>2. c \notin {34, 45} \cup 48 .. 57 \cup {91, 123}
      BY <2>1
    <2>. QED  BY <1>1, <2>1, <2>2 DEF Quote, Digits
  <1>5. \A t, u \in DOMAIN Literals : Literals[t][1] = Literals[u][1] => t = u
    BY <1>2, <1>3
  <1>. QED  BY <1>1, <1>2, <1>3, <1>4, <1>5

LEMMA LiteralAt ==
    ASSUME Typed, NEW p \in 0 .. Len(text), NEW t \in DOMAIN Literals, At(p, Literals[t])
    PROVE  /\ Char(p) = Literals[t][1]
           /\ {u \in DOMAIN Literals : At(p, Literals[u])} = {t}
  <1>1. ASSUME NEW u \in DOMAIN Literals, At(p, Literals[u])
        PROVE  Char(p) = Literals[u][1]
    <2>1. 1 \in DOMAIN Literals[u] /\ Char(p + 1 - 1) = Literals[u][1]
      BY <1>1, LiteralsAre DEF At
    <2>2. p + 1 - 1 = p
      BY TextIs
    <2>. QED  BY <2>1, <2>2
  <1>. QED  BY <1>1, LiteralsAre

LEMMA StartMeans ==
    ASSUME ParseInv, KeptInv, GrammarInv, Start
    PROVE  GrammarInv'
  <1>1. /\ pc = "start" /\ UNCHANGED source /\ UNCHANGED <<stack, str>>
        /\ \/ /\ node' = With(node, FreeItem, Cleared) /\ offset' = Skip(0)
              /\ root' = FreeItem /\ item' = FreeItem /\ pc' = "value"
           \/ pc' = "done"
    BY DEF Start, cJSON_New_Item
  <1>2. CASE pc' = "done"
    <2>1. Meant(node', str', stack', root', item', offset', pc', naming', in', end',
                output', starved')
      BY <1>2 DEF Meant
    <2>. QED  BY <1>1, <2>1, MeansNext
  <1>3. CASE /\ node' = With(node, FreeItem, Cleared) /\ offset' = Skip(0)
             /\ root' = FreeItem /\ item' = FreeItem /\ pc' = "value"
    <2>. DEFINE i == FreeItem
    <2>1. stack = <<>> /\ Built(node, <<>>, NULL) /\ Len(stack) = 0
      BY <1>1 DEF KeptInv, LinkInv
    <2>2. DOMAIN node = {}
      <3>1. Len(<<>>) = 0 /\ \A k : k \in 0 .. 0 <=> k = 0
        OBVIOUS
      <3>2. Part(node, <<>>, NULL, 0) = {}
        BY DEF Part, ListOf, ReachedOf
      <3>. QED  BY <2>1, <3>1, <3>2 DEF Built
    <2>3. DOMAIN node' = {i} /\ node'[i] = Cleared
      BY <1>3, <2>2 DEF With
    <2>. HIDE DEF i
    <2>4. /\ node'[i].child = NULL /\ node'[i].valuestring = NULL /\ node'[i].string = NULL
      BY <2>3 DEF Cleared
    <2>5. PICK m, s : m = node' /\ s = stack'
      OBVIOUS
    <2>6. NeedsValue(m, str, s, i, i, Grammar["value"][Solid(0)][NestingLimit])
      BY <1>1, <2>1, <2>3, <2>4, <2>5, RootNeedsValue
    <2>7. Len(stack') = 0 /\ NestingLimit - 0 = NestingLimit
      BY <1>1, <2>1, ParseAssumption
    <2>8. Skip(0) = Solid(0) /\ Solid(0) \in 0 .. Len(text)
      <3>1. Typed /\ 0 \in 0 .. Len(text)
        BY ReadingFacts
      <3>. QED  BY <3>1, SkipIsSolid, SolidIs
    <2>9. ValueFrom(stack', Solid(0)) = Grammar["value"][Solid(0)][NestingLimit]
      BY <2>7 DEF ValueFrom
    <2>10. Needs(node', str', stack', root', item', FALSE, offset')
      BY <1>1, <1>3, <2>5, <2>6, <2>8, <2>9 DEF Needs, i
    <2>11. Meant(node', str', stack', root', item', offset', pc', naming', in', end',
                 output', starved')
      BY <1>3, <2>10 DEF Meant
    <2>. QED  BY <1>1, <2>11, MeansNext
  <1>. QED  BY <1>1, <1>2, <1>3

LEMMA LiteralMeans ==
    ASSUME ParseInv, KeptInv, GrammarInv, Literal
    PROVE  GrammarInv'
  <1>. SUFFICES ASSUME ~WrongHex
                PROVE  Meant(node', str', stack', root', item', offset', pc', naming',
                             in', end', output', starved')
    BY MeansNext DEF Literal
  <1>1. PICK type \in DOMAIN Literals :
          /\ At(offset, Literals[type])
          /\ node' = [node EXCEPT ![item].type = type]
          /\ offset' = offset + Len(Literals[type])
    BY DEF Literal
  <1>2. pc = "value" /\ pc' = "true" /\ UNCHANGED <<str, stack, root>>
    BY DEF Literal
  <1>3. /\ Typed /\ Nodes(node) /\ Len(stack) \in Nat /\ Len(text) \in Nat
        /\ offset \in 0 .. Len(text) /\ item \in DOMAIN node
        /\ node[item].child = NULL /\ node[item].valuestring = NULL
    BY <1>2, ReadingFacts, AtValue
  <1>4. PICK v : /\ NeedsValue(node, str, stack, root, item, v) /\ Good("value", v, offset)
                 /\ v = ValueBody(Grammar, offset, NestingLimit - Len(stack))
    BY <1>2, AtValue
  <1>5. v = Meaning(type, <<>>, <<>>, offset')
    <2>1. /\ Char(offset) = Literals[type][1]
          /\ {u \in DOMAIN Literals : At(offset, Literals[u])} = {type}
      BY <1>1, <1>3, LiteralAt
    <2>2. Char(offset) \notin Range(Opening)
      BY <2>1, LiteralsAre
    <2>3. v = ScalarAt(offset)
      BY <1>4, <2>2 DEF ValueBody
    <2>4. ScalarAt(offset) = Meaning(type, <<>>, <<>>, offset + Len(Literals[type]))
      <3>1. (CHOOSE u \in {type} : TRUE) = type
        OBVIOUS
      <3>. QED  BY <2>1, <3>1 DEF ScalarAt
    <2>. QED  BY <1>1, <2>3, <2>4
  <1>6. PICK m : m = node'
    OBVIOUS
  <1>7. /\ Changed(node, m, item, type) /\ m[item].string = node[item].string
        /\ m[item].child = NULL /\ m[item].valuestring = NULL /\ m[item].type # "Number"
    <2>1. type # "Number"
      BY LiteralsAre
    <2>2. /\ Changed(node, m, item, type) /\ m[item].string = node[item].string
          /\ m[item].child = node[item].child
          /\ m[item].valuestring = node[item].valuestring
      <3>1. SetsType(node, m, item, type)
        BY <1>1, <1>6 DEF SetsType
      <3>. QED  BY <1>3, <3>1, TypeIsSet
    <2>. QED  BY <1>3, <2>1, <2>2 DEF Changed
  <1>8. PICK o, h, nm, j, e, b, short :
          /\ o = offset' /\ h = item' /\ nm = naming' /\ j = in' /\ e = end'
          /\ b = output' /\ short = starved'
    OBVIOUS
  <1>9. Meant(m, str, stack, root, h, o, "true", nm, j, e, b, short)
    <2>1. /\ NeedsValue(node, str, stack, root, item, Meaning(type, <<>>, <<>>, o))
          /\ Good("value", Meaning(type, <<>>, <<>>, o), offset)
      BY <1>4, <1>5, <1>8
    <2>2. <<>> = IF m[item].type = "Number" THEN m[item].number
                 ELSE IF m[item].valuestring = NULL THEN <<>>
                 ELSE str[m[item].valuestring]
      BY <1>7
    <2>. QED  BY ONLY <1>3, <1>7, <2>1, <2>2, MeansValue
  <1>. QED  BY <1>2, <1>6, <1>8, <1>9

LEMMA ValueFails ==
    ASSUME NEW n, NEW t, NEW s, NEW r, NEW i, NEW v, Len(s) \in Nat,
           NeedsValue(n, t, s, r, i, v), v = Nothing
    PROVE  Grammar["value"][Solid(0)][NestingLimit] = Nothing
  BY FailsHere

LEMMA parse_numberMeans ==
    ASSUME ParseInv, KeptInv, GrammarInv, parse_number
    PROVE  GrammarInv'
  <1>. SUFFICES ASSUME ~WrongHex
                PROVE  Meant(node', str', stack', root', item', offset', pc', naming',
                             in', end', output', starved')
    BY MeansNext DEF parse_number
  <1>. DEFINE number == SubSeq(Copied(offset), 1, strtod(Copied(offset)))
  <1>1. /\ pc = "value" /\ Char(offset) \in Digits \cup {45}
        /\ UNCHANGED <<str, stack, root>>
        /\ IF number = <<>>
             THEN pc' = "false" /\ UNCHANGED offset
             ELSE /\ SetsNumber(node, node', item, "Number", number)
                  /\ offset' = offset + Len(number) /\ pc' = "true"
    BY DEF parse_number, SetsNumber
  <1>2. /\ Typed /\ Nodes(node) /\ Len(stack) \in Nat /\ Len(text) \in Nat
        /\ length = Len(text) + 1
        /\ offset \in 0 .. Len(text) /\ item \in DOMAIN node
        /\ node[item].child = NULL /\ node[item].valuestring = NULL
    BY <1>1, ReadingFacts, AtValue
  <1>3. PICK v : /\ NeedsValue(node, str, stack, root, item, v) /\ Good("value", v, offset)
                 /\ v = ValueBody(Grammar, offset, NestingLimit - Len(stack))
    BY <1>1, AtValue
  <1>4. PICK c : c = number
    OBVIOUS
  <1>5. v = IF c # <<>> THEN Meaning("Number", c, <<>>, offset + Len(c)) ELSE Nothing
    <2>1. Char(offset) \notin Range(Opening) /\ Char(offset) # Quote
      <3>1. PICK x : x = Char(offset) /\ x \in 48 .. 57 \cup {45}
        BY <1>1 DEF Digits
      <3>2. x \notin {91, 123} /\ x # 34
        BY <3>1
      <3>. QED  BY <3>1, <3>2, LiteralsAre DEF Quote
    <2>2. {u \in DOMAIN Literals : At(offset, Literals[u])} = {}
      BY <1>1, <1>2, LiteralAt, LiteralsAre
    <2>3. v = ScalarAt(offset)
      BY <1>3, <2>1 DEF ValueBody
    <2>4. ScalarAt(offset) =
            IF number # <<>> THEN Meaning("Number", number, <<>>, offset + Len(number))
            ELSE Nothing
      BY <1>1, <2>1, <2>2, Zenon DEF ScalarAt
    <2>. QED  BY <1>4, <2>3, <2>4
  <1>. HIDE DEF number
  <1>6. PICK m, o, h, k, nm, j, e, b, short :
          /\ m = node' /\ o = offset' /\ h = item' /\ k = pc' /\ nm = naming' /\ j = in'
          /\ e = end' /\ b = output' /\ short = starved'
    OBVIOUS
  <1>7. CASE c = <<>>
    <2>1. Grammar["value"][Solid(0)][NestingLimit] = Nothing
      BY <1>2, <1>3, <1>5, <1>7, ValueFails
    <2>2. k = "false" /\ o \in Nat /\ length \in Nat
      BY <1>1, <1>2, <1>4, <1>6, <1>7
    <2>3. Meant(m, str, stack, root, h, o, k, nm, j, e, b, short)
      BY <2>1, <2>2, MeansNothing
    <2>. QED  BY <1>1, <1>6, <2>3
  <1>8. CASE c # <<>>
    <2>1. /\ SetsNumber(node, m, item, "Number", c) /\ k = "true" /\ o = offset + Len(c)
      BY <1>1, <1>4, <1>6, <1>8
    <2>2. /\ Changed(node, m, item, "Number") /\ m[item].number = c
          /\ m[item].string = node[item].string /\ m[item].child = NULL
      BY <1>2, <2>1, NumberIsSet
    <2>3. /\ NeedsValue(node, str, stack, root, item, Meaning("Number", c, <<>>, o))
          /\ Good("value", Meaning("Number", c, <<>>, o), offset)
      BY <1>3, <1>5, <1>8, <2>1
    <2>4. c = IF m[item].type = "Number" THEN m[item].number
              ELSE IF m[item].valuestring = NULL THEN <<>>
              ELSE str[m[item].valuestring]
      BY <2>2 DEF Changed
    <2>5. Meant(m, str, stack, root, h, o, k, nm, j, e, b, short)
      BY ONLY <1>2, <2>1, <2>2, <2>3, <2>4, MeansValue
    <2>. QED  BY <1>1, <1>6, <2>5
  <1>. QED  BY <1>7, <1>8

LEMMA NoValueMeans ==
    ASSUME ParseInv, KeptInv, GrammarInv, NoValue
    PROVE  GrammarInv'
  <1>. SUFFICES ASSUME ~WrongHex
                PROVE  Meant(node', str', stack', root', item', offset', pc', naming',
                             in', end', output', starved')
    BY MeansNext DEF NoValue
  <1>1. /\ pc = "value" /\ pc' = "false" /\ UNCHANGED offset
        /\ \A t \in DOMAIN Literals : ~At(offset, Literals[t])
        /\ ~Accessible(offset)
             \/ Char(offset) \notin {Quote, 45} \cup Digits \cup Range(Opening)
    BY DEF NoValue, place
  <1>2. /\ Typed /\ Len(stack) \in Nat /\ Len(text) \in Nat
        /\ length = Len(text) + 1 /\ offset \in 0 .. Len(text)
    BY <1>1, ReadingFacts, AtValue
  <1>3. PICK v : /\ NeedsValue(node, str, stack, root, item, v)
                 /\ v = ValueBody(Grammar, offset, NestingLimit - Len(stack))
    BY <1>1, AtValue
  <1>4. Char(offset) \notin {Quote, 45} \cup Digits \cup Range(Opening)
    BY <1>1, <1>2 DEF Accessible
  <1>5. v = Nothing
    <2>1. {u \in DOMAIN Literals : At(offset, Literals[u])} = {}
      BY <1>1
    <2>2. ScalarAt(offset) = Nothing
      BY <1>4, <2>1, Zenon DEF ScalarAt
    <2>. QED  BY <1>3, <1>4, <2>2 DEF ValueBody
  <1>6. Grammar["value"][Solid(0)][NestingLimit] = Nothing
    BY <1>2, <1>3, <1>5, ValueFails
  <1>. QED  BY <1>1, <1>2, <1>6 DEF Meant

\* At a name, or at a string.
LEMMA AtString ==
    ASSUME ParseInv, KeptInv, GrammarInv, ~WrongHex, pc \in {"value", "name", "scan", "decode"}
    PROVE  /\ Needs(node, str, stack, root, item, Naming, offset)
           /\ offset \in 0 .. Len(text) /\ item \in DOMAIN node
           /\ node[item].child = NULL /\ node[item].valuestring = NULL
           /\ pc \in {"scan", "decode"} =>
                Copying(offset, pc = "decode", in, end,
                        IF pc = "decode" THEN str[output] ELSE <<>>)
  <1>1. Needs(node, str, stack, root, item, Naming, offset)
    BY DEF GrammarInv, Meant, Naming
  <1>2. /\ item \in DOMAIN node
        /\ node[item].child = NULL /\ node[item].valuestring = NULL
    BY KeptFacts DEF KeptInv, LinkInv, TextInv, Working
  <1>. QED  BY <1>1, <1>2 DEF Needs, GrammarInv, Meant

\* In a string.
LEMMA InString ==
    ASSUME ParseInv, KeptInv, GrammarInv, ~WrongHex, pc \in {"scan", "decode"}
    PROVE  /\ Needs(node, str, stack, root, item, naming, offset)
           /\ pc = "scan" => Copying(offset, FALSE, in, end, <<>>)
           /\ pc = "decode" => Copying(offset, TRUE, in, end, str[output])
  <1>1. Needs(node, str, stack, root, item, Naming, offset)
    BY AtString
  <1>2. pc # "name"
    OBVIOUS
  <1>3. Needs(node, str, stack, root, item, naming, offset)
    BY <1>1, <1>2 DEF Needs, Naming
  <1>4. pc = "scan" => Copying(offset, FALSE, in, end, <<>>)
    BY AtString DEF Copying
  <1>5. pc = "decode" => Copying(offset, TRUE, in, end, str[output])
    BY AtString DEF Copying
  <1>. QED  BY <1>3, <1>4, <1>5

LEMMA MeansString ==
    ASSUME NEW n, NEW t, NEW s, NEW r, NEW i, NEW o, NEW k, NEW name, NEW j, NEW e,
           NEW b, NEW short, Needs(n, t, s, r, i, name, o),
           \/ k = "scan" /\ Copying(o, FALSE, j, e, <<>>)
           \/ k = "decode" /\ Copying(o, TRUE, j, e, t[b])
    PROVE  Meant(n, t, s, r, i, o, k, name, j, e, b, short)
  <1>1. k # "name" /\ k \in {"scan", "decode"} /\ k \notin {"value", "element", "true", "false"}
    OBVIOUS
  <1>2. Needs(n, t, s, r, i, k = "name" \/ (k \in {"scan", "decode"} /\ name), o)
    BY <1>1 DEF Needs
  <1>3. Copying(o, k = "decode", j, e, IF k = "decode" THEN t[b] ELSE <<>>)
    BY DEF Copying
  <1>. QED  BY <1>1, <1>2, <1>3 DEF Meant

\* What is needed there, if no string can be read.
LEMMA NoString ==
    ASSUME NEW n, NEW t, NEW s, NEW r, NEW i, NEW name, NEW o,
           Typed, Len(s) \in Nat, NestingLimit - Len(s) \in Nat,
           Needs(n, t, s, r, i, name, o),
           (name /\ Char(o) # Quote) \/ (Char(o) = Quote /\ StringAt[o + 1] = Nothing)
    PROVE  Grammar["value"][Solid(0)][NestingLimit] = Nothing
  <1>1. PICK d : d = NestingLimit - Len(s) /\ d \in Nat
    OBVIOUS
  <1>2. o \in 0 .. Len(text)
    BY DEF Needs
  <1>3. CASE name
    <2>1. s[Len(s)].type = "Object" /\ NeedsName(n, t, s, r, i, MembersFrom(s, o))
      BY <1>3 DEF Needs
    <2>2. Grammar["Object"][o][d] = MembersBody(Grammar, "Object", o, d)
      <3>1. "Object" \in Kinds /\ "Object" # "value"
        BY DEF Kinds, Opening
      <3>. QED  BY <1>1, <1>2, <3>1, GrammarIs DEF GrammarBody
    <2>3. NameAt("Object", o) = Nothing
      BY DEF NameAt
    <2>4. MembersFrom(s, o) = Nothing
      BY <1>1, <2>1, <2>2, <2>3 DEF MembersBody, MembersFrom
    <2>. QED  BY <2>1, <2>4, FailsHere
  <1>4. CASE ~name
    <2>1. NeedsValue(n, t, s, r, i, ValueFrom(s, o))
      BY <1>4 DEF Needs
    <2>2. Grammar["value"][o][d] = ValueBody(Grammar, o, d)
      BY <1>1, <1>2, GrammarIs DEF GrammarBody, Kinds
    <2>3. Char(o) = Quote /\ StringAt[o + 1] = Nothing
      BY <1>4
    <2>4. Char(o) \notin Range(Opening) /\ Char(o) \notin Digits \cup {45}
      BY <2>3, LiteralsAre DEF Quote, Digits
    <2>5. {u \in DOMAIN Literals : At(o, Literals[u])} = {}
      BY <1>2, <2>3, LiteralAt, LiteralsAre
    <2>6. ScalarAt(o) = Nothing
      BY <2>3, <2>4, <2>5, Zenon DEF ScalarAt
    <2>7. ValueFrom(s, o) = Nothing
      BY <1>1, <2>2, <2>4, <2>6 DEF ValueBody, ValueFrom
    <2>. QED  BY <2>1, <2>7, FailsHere
  <1>. QED  BY <1>3, <1>4

LEMMA parse_stringMeans ==
    ASSUME ParseInv, KeptInv, GrammarInv, parse_string
    PROVE  GrammarInv'
  <1>. SUFFICES ASSUME ~WrongHex
                PROVE  Meant(node', str', stack', root', item', offset', pc', naming',
                             in', end', output', starved')
    BY MeansNext DEF parse_string
  <1>1. /\ \/ pc = "value" /\ Char(offset) = Quote
           \/ pc = "name"
        /\ naming' = (pc = "name")
        /\ UNCHANGED <<node, str, stack, root, item>>
        /\ IF Char(offset) = Quote
             THEN pc' = "scan" /\ end' = offset + 1 /\ UNCHANGED offset
             ELSE pc' = "false" /\ offset' = offset + 1
    BY DEF parse_string, heap
  <1>2. /\ Typed /\ Len(stack) \in Nat /\ NestingLimit - Len(stack) \in Nat
        /\ Len(text) \in Nat /\ length = Len(text) + 1
        /\ Needs(node, str, stack, root, item, pc = "name", offset)
        /\ offset \in 0 .. Len(text)
    BY <1>1, ReadingFacts, AtString DEF Naming
  <1>3. CASE Char(offset) = Quote
    <2>1. offset < Len(text)
      BY <1>2, <1>3, TextIs DEF Quote, Nul
    <2>2. Visits({offset + 1}, offset + 1, offset + 1)
      BY <1>2 DEF Visits
    <2>3. Copying(offset, FALSE, in', offset + 1, <<>>)
      BY <1>3, <2>1, <2>2 DEF Copying
    <2>. QED  BY <1>1, <1>2, <1>3, <2>3 DEF Meant
  <1>4. CASE Char(offset) # Quote
    <2>1. Needs(node, str, stack, root, item, TRUE, offset)
      BY <1>1, <1>2, <1>4
    <2>2. Grammar["value"][Solid(0)][NestingLimit] = Nothing
      BY <1>2, <1>4, <2>1, NoString
    <2>. QED  BY <1>1, <1>4, <2>2 DEF Meant
  <1>. QED  BY <1>3, <1>4

LEMMA ScanMeans ==
    ASSUME ParseInv, KeptInv, GrammarInv, Scan
    PROVE  GrammarInv'
  <1>. SUFFICES ASSUME ~WrongHex
                PROVE  Meant(node', str', stack', root', item', offset', pc', naming',
                             in', end', output', starved')
    BY MeansNext DEF Scan
  <1>1. /\ pc = "scan" /\ pc' = "scan" /\ Char(end) # Quote
        /\ end' = IF Char(end) = Backslash THEN end + 2 ELSE end + 1
        /\ UNCHANGED <<node, str, stack, root, item, naming, offset, in>>
    BY DEF Scan, heap, place, pass2
  <1>2. end \in Nat /\ offset \in Nat
    BY Facts
  <1>3. /\ Needs(node, str, stack, root, item, naming, offset)
        /\ Copying(offset, FALSE, in, end, <<>>)
    BY <1>1, InString
  <1>4. PICK V : Visits(V, offset + 1, end)
    BY <1>3 DEF Copying
  <1>5. Visits(V \cup {end'}, offset + 1, end')
    <2>1. PICK e : e = end' /\ e > end /\ e \in Nat
      BY <1>1, <1>2
    <2>2. \A p \in V : p \in Nat /\ p <= end
      BY <1>2, <1>4 DEF Visits
    <2>3. offset + 1 \in V /\ end \in V /\ V \subseteq (offset + 1) .. end
      BY <1>4 DEF Visits
    <2>4. V \cup {e} \subseteq (offset + 1) .. e
      BY <1>2, <2>1, <2>3
    <2>5. ASSUME NEW p \in V \cup {e}, p < e
          PROVE  /\ Char(p) # Quote
                 /\ (IF Char(p) = Backslash THEN p + 2 ELSE p + 1) \in V \cup {e}
      <3>1. p \in V
        BY <2>1, <2>5
      <3>2. CASE p = end
        BY <1>1, <2>1, <3>2
      <3>3. CASE p # end
        <4>1. p < end
          BY <1>2, <2>2, <3>1, <3>3
        <4>. QED  BY <1>4, <3>1, <4>1 DEF Visits
      <3>. QED  BY <3>2, <3>3
    <2>6. Visits(V \cup {e}, offset + 1, e)
      BY <2>3, <2>4, <2>5 DEF Visits
    <2>. QED  BY <2>1, <2>6
  <1>6. Copying(offset, FALSE, in, end', <<>>)
    BY <1>3, <1>5 DEF Copying
  <1>. QED  BY <1>1, <1>3, <1>6, MeansString

\* The texts of the items are not the one that is being copied.
LEMMA TextsApart ==
    ASSUME ParseInv, KeptInv, NEW j \in DOMAIN node
    PROVE  /\ node[j].string # NULL =>
                node[j].string \in DOMAIN str /\ node[j].string # output
           /\ node[j].valuestring # NULL =>
                node[j].valuestring \in DOMAIN str /\ node[j].valuestring # output
  <1>1. Texted(node, str, output)
    BY DEF KeptInv, TextInv
  <1>2. /\ node[j].reference = FALSE /\ node[j].const = FALSE
        /\ output \notin OwnedOf(node, j)
        /\ OwnedOf(node, j) \subseteq DOMAIN str
    BY <1>1, OwnedInIs DEF Texted
  <1>. QED  BY <1>2 DEF OwnedOf

LEMMA NeedsOther ==
    ASSUME ParseInv, KeptInv, NEW i, NEW name, NEW o, NEW u,
           Needs(node, str, stack, root, i, name, o),
           \A x \in DOMAIN str \ {output} : u[x] = str[x]
    PROVE  Needs(node, u, stack, root, i, name, o)
  <1>1. Nodes(node) /\ Len(stack) \in Nat
    BY ReadingFacts
  <1>2. \A j \in DOMAIN node :
          /\ node[j].string # NULL => u[node[j].string] = str[node[j].string]
          /\ node[j].valuestring # NULL => u[node[j].valuestring] = str[node[j].valuestring]
    BY TextsApart
  <1>. QED  BY <1>1, <1>2, OtherTexts DEF Needs

LEMMA AllocateMeans ==
    ASSUME ParseInv, KeptInv, GrammarInv, Allocate
    PROVE  GrammarInv'
  <1>. SUFFICES ASSUME ~WrongHex
                PROVE  Meant(node', str', stack', root', item', offset', pc', naming',
                             in', end', output', starved')
    BY MeansNext DEF Allocate
  <1>1. /\ pc = "scan" /\ UNCHANGED <<node, stack, root, item, naming, in, end>>
        /\ Char(end) = Quote \/ end >= length
        /\ \/ /\ Char(end) = Quote /\ StringLeft /\ pc' = "decode"
              /\ output' = FreeString /\ str' = With(str, FreeString, <<>>)
              /\ UNCHANGED offset
           \/ /\ pc' = "false" /\ offset' = in
              /\ starved' = (starved \/ Char(end) = Quote)
    BY DEF Allocate, pass1
  <1>2. /\ Typed /\ Len(stack) \in Nat /\ NestingLimit - Len(stack) \in Nat /\ Strs(str)
        /\ Len(text) \in Nat /\ length = Len(text) + 1
        /\ end \in Nat /\ end <= length /\ in = offset + 1 /\ offset \in Nat
    BY <1>1, ReadingFacts, Facts DEF InText
  <1>3. /\ Needs(node, str, stack, root, item, naming, offset)
        /\ Copying(offset, FALSE, in, end, <<>>)
    BY <1>1, InString
  <1>4. PICK V : Visits(V, offset + 1, end)
    BY <1>3 DEF Copying
  <1>5. CASE /\ Char(end) = Quote /\ StringLeft /\ pc' = "decode"
             /\ output' = FreeString /\ str' = With(str, FreeString, <<>>)
             /\ UNCHANGED offset
    <2>1. FreeString \notin DOMAIN str
      <3>1. \E x \in Strings : x \notin DOMAIN str
        BY <1>2, <1>5 DEF StringLeft, Strs
      <3>. QED  BY <3>1 DEF FreeString
    <2>2. /\ \A x \in DOMAIN str : str'[x] = str[x]
          /\ str'[output'] = <<>>
      BY <1>5, <2>1 DEF With
    <2>3. PICK u : u = str'
      OBVIOUS
    <2>4. Needs(node, u, stack, root, item, naming, offset)
      BY <1>3, <2>2, <2>3, NeedsOther
    <2>5. StringAt[offset + 1] = Follows(<<>>, StringAt[in])
      <3>1. PICK p : p = in /\ p \in Nat
        BY <1>2
      <3>2. <<>> \in Seq(Bytes)
        OBVIOUS
      <3>3. Follows(<<>>, StringAt[p]) = StringAt[p]
        BY <1>2, <3>1, <3>2, FollowsOn
      <3>. QED  BY <1>2, <3>1, <3>3
    <2>6. in \in V
      BY <1>2, <1>4 DEF Visits
    <2>7. Copying(offset, TRUE, in, end, <<>>)
      BY <1>3, <1>4, <2>5, <2>6 DEF Copying
    <2>8. /\ Needs(node', str', stack', root', item', naming', offset')
          /\ pc' = "decode" /\ Copying(offset', TRUE, in', end', str'[output'])
      BY <1>1, <1>5, <2>2, <2>3, <2>4, <2>7
    <2>. QED  BY <2>8, MeansString
  <1>6. CASE pc' = "false" /\ offset' = in /\ starved' = (starved \/ Char(end) = Quote)
    <2>1. CASE Char(end) = Quote
      BY <1>6, <2>1 DEF Meant
    <2>2. CASE Char(end) # Quote
      <3>1. end = length
        BY <1>1, <1>2, <2>2
      <3>2. StringAt[offset + 1] = Nothing
        <4>1. PICK a : a = offset + 1 /\ a \in Nat
          BY <1>2
        <4>2. Visits(V, a, length)
          BY <1>4, <3>1, <4>1
        <4>3. a \in V
          BY <4>2 DEF Visits
        <4>. QED  BY ONLY ~WrongHex, <1>2, <4>1, <4>2, <4>3, NeverEnds
      <3>3. Char(offset) = Quote
        BY <1>3 DEF Copying
      <3>4. Grammar["value"][Solid(0)][NestingLimit] = Nothing
        BY <1>2, <1>3, <3>2, <3>3, NoString
      <3>. QED  BY <1>6, <3>4 DEF Meant
    <2>. QED  BY <2>1, <2>2
  <1>. QED  BY <1>1, <1>5, <1>6

LEMMA DecodeMeans ==
    ASSUME ParseInv, KeptInv, GrammarInv, Decode
    PROVE  GrammarInv'
  <1>. SUFFICES ASSUME ~WrongHex
                PROVE  Meant(node', str', stack', root', item', offset', pc', naming',
                             in', end', output', starved')
    BY MeansNext DEF Decode
  <1>1. /\ pc = "decode" /\ in < end
        /\ UNCHANGED <<node, stack, root, item, naming, end>>
        /\ IF Unit(in).length > 0
             THEN /\ str' = [str EXCEPT ![output] = str[output] \o Unit(in).out]
                  /\ in' = in + Unit(in).length
                  /\ UNCHANGED <<pc, offset, output>>
             ELSE pc' = "false"
    BY DEF Decode, pass1
  <1>2. /\ Typed /\ Len(stack) \in Nat /\ NestingLimit - Len(stack) \in Nat /\ Strs(str)
        /\ Len(text) \in Nat /\ length = Len(text) + 1
        /\ end \in Nat /\ end <= length /\ Char(end) = Quote
        /\ offset \in Nat /\ in \in Nat
    BY <1>1, ReadingFacts, Facts DEF InText
  <1>3. /\ Needs(node, str, stack, root, item, naming, offset)
        /\ Copying(offset, TRUE, in, end, str[output])
    BY <1>1, InString
  <1>4. PICK V : /\ Visits(V, offset + 1, end) /\ in \in V
                 /\ StringAt[offset + 1] = Follows(str[output], StringAt[in])
    BY <1>3 DEF Copying
  <1>5. PICK u, a : u = Unit(in) /\ a = offset + 1 /\ a \in Nat
    BY <1>2
  <1>6. /\ u.length = 0 => StringAt[in] = Nothing
        /\ u.length # 0 =>
             /\ in + u.length \in V /\ u.length \in Nat /\ u.out \in Seq(Bytes)
             /\ StringAt[in] = Follows(u.out, StringAt[in + u.length])
    <2>1. Visits(V, a, end)
      BY <1>4, <1>5
    <2>2. /\ Unit(in).length = 0 => StringAt[in] = Nothing
          /\ Unit(in).length # 0 =>
               /\ in + Unit(in).length \in V /\ Unit(in).length \in Nat
               /\ Unit(in).out \in Seq(Bytes)
               /\ StringAt[in] = Follows(Unit(in).out, StringAt[in + Unit(in).length])
      BY ONLY <1>1, <1>2, <1>4, <1>5, <2>1, ~WrongHex, UnitRead
    <2>. QED  BY <1>5, <2>2
  <1>7. output \in DOMAIN str /\ str[output] \in Seq(Bytes)
    <2>1. output \in DOMAIN str
      BY <1>1 DEF KeptInv, TextInv, Texted
    <2>. QED  BY <1>2, <2>1 DEF Strs, Text
  <1>8. CASE u.length = 0
    <2>1. pc' = "false"
      BY <1>1, <1>5, <1>8
    <2>2. StringAt[offset + 1] = Nothing /\ Char(offset) = Quote
      BY <1>3, <1>4, <1>6, <1>8 DEF Follows, Copying
    <2>3. Grammar["value"][Solid(0)][NestingLimit] = Nothing
      BY <1>2, <1>3, <2>2, NoString
    <2>. QED  BY <2>1, <2>3 DEF Meant
  <1>9. CASE u.length # 0
    <2>1. /\ str' = [str EXCEPT ![output] = str[output] \o u.out]
          /\ in' = in + u.length
          /\ UNCHANGED <<pc, offset, output>>
      <3>1. Unit(in).length > 0
        <4>1. PICK l : l = u.length /\ l \in Nat /\ l # 0
          BY <1>6, <1>9
        <4>. QED  BY <1>5, <4>1
      <3>. QED  BY <1>1, <1>5, <3>1
    <2>2. /\ \A x \in DOMAIN str \ {output} : str'[x] = str[x]
          /\ str'[output] = str[output] \o u.out
      BY <1>7, <2>1
    <2>3. PICK v : v = str'
      OBVIOUS
    <2>4. Needs(node, v, stack, root, item, naming, offset)
      BY <1>3, <2>2, <2>3, NeedsOther
    <2>5. PICK j : j = in' /\ j \in V /\ j \in Nat /\ StringAt[in] = Follows(u.out, StringAt[j])
      BY <1>2, <1>6, <1>9, <2>1
    <2>6. PICK b, c : b = str[output] /\ c = u.out /\ b \in Seq(Bytes) /\ c \in Seq(Bytes)
      BY <1>6, <1>7, <1>9
    <2>7. StringAt[offset + 1] = Follows(b \o c, StringAt[j])
      <3>1. Follows(b, Follows(c, StringAt[j])) = Follows(b \o c, StringAt[j])
        BY <1>2, <2>5, <2>6, FollowsOn
      <3>. QED  BY <1>4, <2>5, <2>6, <3>1
    <2>8. Copying(offset, TRUE, j, end, b \o c)
      BY <1>3, <1>4, <2>5, <2>7 DEF Copying
    <2>9. /\ Needs(node', str', stack', root', item', naming', offset')
          /\ pc' = "decode" /\ Copying(offset', TRUE, in', end', str'[output'])
      BY <1>1, <2>1, <2>2, <2>3, <2>4, <2>5, <2>6, <2>8
    <2>. QED  BY <2>9, MeansString
  <1>. QED  BY <1>8, <1>9

\* The whole string was copied.
LEMMA StringWasRead ==
    ASSUME Typed, NEW o \in Nat, NEW j \in Nat, NEW e \in Nat, NEW b \in Seq(Bytes),
           Copying(o, TRUE, j, e, b), j >= e, e <= Len(text), Char(e) = Quote
    PROVE  /\ StringAt[o + 1] = [out |-> b, end |-> e + 1]
           /\ [out |-> b, end |-> e + 1] # Nothing
           /\ e < Len(text)
  <1>1. PICK V : /\ Visits(V, o + 1, e) /\ j \in V
                 /\ StringAt[o + 1] = Follows(b, StringAt[j])
    BY DEF Copying
  <1>2. Len(text) \in Nat /\ Char(Len(text)) = Nul
    BY TextIs
  <1>3. j = e
    BY <1>1 DEF Visits
  <1>4. e < Len(text)
    BY <1>2 DEF Nul, Quote
  <1>5. PICK r : r = [out |-> <<>>, end |-> e + 1]
    OBVIOUS
  <1>6. StringAt[j] = r
    <2>1. StringAt[e] = StringBody(StringAt, e)
      BY StringAtIs
    <2>2. ~(e >= Len(text))
      BY <1>2, <1>4
    <2>3. StringBody(StringAt, e) = [out |-> <<>>, end |-> e + 1]
      BY <2>2, Zenon DEF StringBody
    <2>. QED  BY <1>3, <1>5, <2>1, <2>3
  <1>7. r # Nothing /\ r.out = <<>> /\ r.end = e + 1
    BY <1>5 DEF Nothing
  <1>8. b \o <<>> = b
    OBVIOUS
  <1>9. StringAt[o + 1] = [out |-> b, end |-> e + 1]
    BY <1>1, <1>6, <1>7, <1>8 DEF Follows
  <1>10. [out |-> b, end |-> e + 1] # Nothing
    BY DEF Nothing
  <1>. QED  BY <1>4, <1>9, <1>10

\* It is what the grammar reads there.
LEMMA StringMeans ==
    ASSUME Typed, NEW o \in 0 .. Len(text), NEW d \in Nat, Char(o) = Quote,
           NEW b, NEW e, StringAt[o + 1] = [out |-> b, end |-> e],
           [out |-> b, end |-> e] # Nothing
    PROVE  /\ Grammar["value"][o][d] = Meaning("String", b, <<>>, e)
           /\ Good("value", Meaning("String", b, <<>>, e), o)
  <1>1. /\ Grammar["value"][o][d] = ValueBody(Grammar, o, d)
        /\ Good("value", Grammar["value"][o][d], o)
    BY GrammarIs DEF GrammarBody, Kinds
  <1>2. Char(o) \notin Range(Opening)
    BY LiteralsAre DEF Quote
  <1>3. {u \in DOMAIN Literals : At(o, Literals[u])} = {}
    BY LiteralAt, LiteralsAre
  <1>4. PICK r : r = [out |-> b, end |-> e] /\ StringAt[o + 1] = r /\ r # Nothing
    OBVIOUS
  <1>5. r.out = b /\ r.end = e
    BY <1>4
  <1>6. ScalarAt(o) = Meaning("String", r.out, <<>>, r.end)
    BY <1>3, <1>4, Zenon DEF ScalarAt
  <1>. QED  BY <1>1, <1>2, <1>5, <1>6 DEF ValueBody

LEMMA EndValueMeans ==
    ASSUME ParseInv, KeptInv, GrammarInv, EndValue
    PROVE  GrammarInv'
  <1>. SUFFICES ASSUME ~WrongHex
                PROVE  Meant(node', str', stack', root', item', offset', pc', naming',
                             in', end', output', starved')
    BY MeansNext DEF EndValue
  <1>1. /\ pc = "decode" /\ in >= end /\ ~naming /\ pc' = "true" /\ offset' = end + 1
        /\ SetsText(node, node', item, "String", output)
        /\ UNCHANGED <<str, stack, root>>
    BY DEF EndValue, SetsText
  <1>2. /\ Typed /\ Nodes(node) /\ Len(stack) \in Nat /\ NestingLimit - Len(stack) \in Nat
        /\ Strs(str) /\ Len(text) \in Nat /\ length = Len(text) + 1
        /\ end \in Nat /\ end <= length /\ Char(end) = Quote /\ in \in Nat
    BY <1>1, ReadingFacts, Facts DEF InText
  <1>3. /\ Needs(node, str, stack, root, item, naming, offset)
        /\ Copying(offset, TRUE, in, end, str[output])
        /\ offset \in 0 .. Len(text) /\ item \in DOMAIN node
        /\ node[item].child = NULL
    BY <1>1, InString, AtString
  <1>4. output # NULL /\ str[output] \in Seq(Bytes)
    <2>1. output # NULL /\ output \in DOMAIN str
      BY <1>1 DEF KeptInv, TextInv, Texted
    <2>. QED  BY <1>2, <2>1 DEF Strs, Text
  <1>5. PICK m, o, h, nm, j, e, b, short :
          /\ m = node' /\ o = offset' /\ h = item' /\ nm = naming' /\ j = in'
          /\ e = end' /\ b = output' /\ short = starved'
    OBVIOUS
  <1>6. CASE end = length
    <2>1. ~(o <= length)
      BY <1>1, <1>2, <1>5, <1>6
    <2>2. Meant(m, str, stack, root, h, o, "true", nm, j, e, b, short)
      BY <2>1 DEF Meant
    <2>. QED  BY <1>1, <1>5, <2>2
  <1>7. CASE end # length
    <2>1. PICK c, d : c = str[output] /\ d = NestingLimit - Len(stack) /\ d \in Nat
      BY <1>2
    <2>2. end <= Len(text)
      BY <1>2, <1>7
    <2>3. /\ StringAt[offset + 1] = [out |-> c, end |-> end + 1]
          /\ [out |-> c, end |-> end + 1] # Nothing
      <3>1. /\ Copying(offset, TRUE, in, end, c) /\ c \in Seq(Bytes) /\ offset \in Nat
            /\ in >= end
        <4>1. offset \in Nat /\ c \in Seq(Bytes)
          BY <1>2, <1>3, <1>4, <2>1
        <4>2. Copying(offset, TRUE, in, end, c)
          BY ONLY <1>3, <2>1
        <4>. QED  BY <1>1, <4>1, <4>2
      <3>2. /\ StringAt[offset + 1] = [out |-> c, end |-> end + 1]
            /\ [out |-> c, end |-> end + 1] # Nothing /\ end < Len(text)
        BY ONLY <1>2, <2>2, <3>1, StringWasRead
      <3>. QED  BY <3>2
    <2>4. Char(offset) = Quote
      BY <1>3 DEF Copying
    <2>5. /\ Grammar["value"][offset][d] = Meaning("String", c, <<>>, end + 1)
          /\ Good("value", Meaning("String", c, <<>>, end + 1), offset)
      BY ONLY <1>2, <1>3, <2>1, <2>3, <2>4, StringMeans
    <2>6. o = end + 1
      BY <1>1, <1>5
    <2>7. /\ NeedsValue(node, str, stack, root, item, Meaning("String", c, <<>>, o))
          /\ Good("value", Meaning("String", c, <<>>, o), offset)
      <3>1. NeedsValue(node, str, stack, root, item, ValueFrom(stack, offset))
        BY <1>1, <1>3 DEF Needs
      <3>2. ValueFrom(stack, offset) = Meaning("String", c, <<>>, o)
        BY <2>1, <2>5, <2>6 DEF ValueFrom
      <3>. QED  BY <2>5, <2>6, <3>1, <3>2
    <2>8. /\ Changed(node, m, item, "String") /\ m[item].string = node[item].string
          /\ m[item].child = NULL /\ m[item].valuestring = output
      BY <1>1, <1>2, <1>3, <1>5, TextIsSet
    <2>9. c = IF m[item].type = "Number" THEN m[item].number
              ELSE IF m[item].valuestring = NULL THEN <<>>
              ELSE str[m[item].valuestring]
      BY <1>4, <2>1, <2>8 DEF Changed
    <2>10. Meant(m, str, stack, root, h, o, "true", nm, j, e, b, short)
      BY ONLY <1>2, <1>3, <2>7, <2>8, <2>9, MeansValue
    <2>. QED  BY <1>1, <1>5, <2>10
  <1>. QED  BY <1>6, <1>7

\* What the members of a list are read as, from their parts.
LEMMA MembersGiven ==
    ASSUME Typed, NEW type \in {"Array", "Object"}, NEW o \in 0 .. Len(text),
           NEW d \in Nat, NEW name, name = NameAt(type, o),
           NEW v, v = Grammar["value"][name.end][d]
    PROVE  /\ Grammar[type][o][d] =
                IF name = Nothing THEN Nothing
                ELSE IF v = Nothing THEN Nothing
                ELSE MembersAt(type, name, v, Grammar[type][Solid(Solid(v.end) + 1)][d])
           /\ Good(type, Grammar[type][o][d], o)
  <1>1. type \in Kinds /\ type # "value"
    BY BracketsAre DEF Kinds
  <1>2. /\ Grammar[type][o][d] = MembersBody(Grammar, type, o, d)
        /\ Good(type, Grammar[type][o][d], o)
    BY <1>1, GrammarIs DEF GrammarBody
  <1>. QED  BY <1>2, Zenon DEF MembersBody

\* What comes next is a value, or a name.
LEMMA MeansAt ==
    ASSUME NEW n, NEW t, NEW s, NEW r, NEW i, NEW o, NEW k, NEW name, NEW j, NEW e,
           NEW b, NEW short,
           \/ k = "value" /\ Needs(n, t, s, r, i, FALSE, o)
           \/ k = "name" /\ Needs(n, t, s, r, i, TRUE, o)
    PROVE  Meant(n, t, s, r, i, o, k, name, j, e, b, short)
  <1>1. k \in {"value", "name"} /\ k \notin {"scan", "decode", "element", "true", "false"}
    OBVIOUS
  <1>2. Needs(n, t, s, r, i, k = "name" \/ (k \in {"scan", "decode"} /\ name), o)
    BY <1>1 DEF Needs
  <1>. QED  BY <1>1, <1>2 DEF Meant

LEMMA EndNameMeans ==
    ASSUME ParseInv, KeptInv, GrammarInv, EndName
    PROVE  GrammarInv'
  <1>. SUFFICES ASSUME ~WrongHex
                PROVE  Meant(node', str', stack', root', item', offset', pc', naming',
                             in', end', output', starved')
    BY MeansNext DEF EndName
  <1>1. /\ pc = "decode" /\ in >= end /\ naming
        /\ SetsName(node, node', item, "String", output)
        /\ IF Accessible(Skip(end + 1)) /\ Char(Skip(end + 1)) = Colon
             THEN pc' = "value" /\ offset' = Skip(Skip(end + 1) + 1)
             ELSE pc' = "false" /\ offset' = Skip(end + 1)
        /\ UNCHANGED <<str, stack, root, item>>
    BY DEF EndName, SetsName
  <1>2. /\ Typed /\ Nodes(node) /\ Len(stack) \in Nat /\ NestingLimit - Len(stack) \in Nat
        /\ Strs(str) /\ Len(text) \in Nat /\ length = Len(text) + 1 /\ NULL \notin DOMAIN node
        /\ end \in Nat /\ end <= length /\ Char(end) = Quote /\ in \in Nat
    BY <1>1, ReadingFacts, Facts DEF InText
  <1>3. /\ Needs(node, str, stack, root, item, naming, offset)
        /\ Copying(offset, TRUE, in, end, str[output])
        /\ offset \in 0 .. Len(text) /\ item \in DOMAIN node
    BY <1>1, InString, AtString
  <1>4. output # NULL /\ str[output] \in Seq(Bytes) /\ node[item].const = FALSE
    <2>1. output # NULL /\ output \in DOMAIN str /\ node[item].const = FALSE
      BY <1>1, <1>3 DEF KeptInv, TextInv, Texted
    <2>. QED  BY <1>2, <2>1 DEF Strs, Text
  <1>5. PICK m, o, k, nm, j, e, b, short :
          /\ m = node' /\ o = offset' /\ k = pc' /\ nm = naming' /\ j = in'
          /\ e = end' /\ b = output' /\ short = starved'
    OBVIOUS
  <1>6. CASE end = length
    <2>1. PICK p : p = end + 1 /\ p \in Nat /\ p > length /\ p > Len(text)
      BY <1>2, <1>6
    <2>2. Skip(p) = p
      BY <2>1 DEF Skip
    <2>3. ~Accessible(p)
      BY <1>2, <2>1 DEF Accessible
    <2>4. k = "false" /\ o = p
      BY <1>1, <1>5, <2>1, <2>2, <2>3
    <2>5. ~(o <= length)
      BY <1>2, <2>1, <2>4
    <2>6. Meant(m, str, stack, root, item, o, k, nm, j, e, b, short)
      BY <2>4, <2>5 DEF Meant
    <2>. QED  BY <1>1, <1>5, <2>6
  <1>7. CASE end # length
    <2>1. PICK c, d, p : c = str[output] /\ d = NestingLimit - Len(stack) /\ d \in Nat
                         /\ p = end + 1
      BY <1>2
    <2>2. end <= Len(text)
      BY <1>2, <1>7
    <2>3. /\ StringAt[offset + 1] = [out |-> c, end |-> p]
          /\ [out |-> c, end |-> p] # Nothing /\ end < Len(text)
      <3>1. /\ Copying(offset, TRUE, in, end, c) /\ c \in Seq(Bytes) /\ offset \in Nat
            /\ in >= end
        <4>1. offset \in Nat /\ c \in Seq(Bytes)
          BY <1>2, <1>3, <1>4, <2>1
        <4>2. Copying(offset, TRUE, in, end, c)
          BY ONLY <1>3, <2>1
        <4>. QED  BY <1>1, <4>1, <4>2
      <3>2. /\ StringAt[offset + 1] = [out |-> c, end |-> end + 1]
            /\ [out |-> c, end |-> end + 1] # Nothing /\ end < Len(text)
        BY ONLY <1>2, <2>2, <3>1, StringWasRead
      <3>. QED  BY <2>1, <3>2
    <2>4. Char(offset) = Quote
      BY <1>3 DEF Copying
    <2>5. p \in 1 .. Len(text) /\ p \in 0 .. Len(text)
      BY <1>2, <2>1, <2>3
    <2>6. PICK q : q = Solid(p) /\ q = Skip(p) /\ q \in p .. Len(text) /\ q \in 0 .. Len(text)
      <3>1. Skip(p) = Solid(p) /\ Solid(p) \in p .. Len(text)
        BY <1>2, <2>5, SkipIsSolid, SolidIs
      <3>. QED  BY <1>2, <2>5, <3>1
    <2>7. Accessible(q)
      BY <1>2, <2>6 DEF Accessible
    <2>8. /\ stack[Len(stack)].type = "Object"
          /\ NeedsName(node, str, stack, root, item, MembersFrom(stack, offset))
      BY <1>1, <1>3 DEF Needs
    <2>9. PICK name, v : name = NameAt("Object", offset) /\ v = Grammar["value"][name.end][d]
      OBVIOUS
    <2>10. name = IF Char(q) = Colon THEN [out |-> <<c>>, end |-> Solid(q + 1)] ELSE Nothing
      <3>1. PICK r : r = [out |-> c, end |-> p] /\ StringAt[offset + 1] = r /\ r # Nothing
        BY <2>3
      <3>2. r.out = c /\ r.end = p
        BY <3>1
      <3>3. NameAt("Object", offset) =
              IF Char(Solid(r.end)) = Colon
                THEN [out |-> <<r.out>>, end |-> Solid(Solid(r.end) + 1)] ELSE Nothing
        BY <2>4, <3>1, Zenon DEF NameAt
      <3>. QED  BY <2>6, <2>9, <3>2, <3>3
    <2>11. PICK x : x = MembersFrom(stack, offset) /\
                    x = IF name = Nothing THEN Nothing
                        ELSE IF v = Nothing THEN Nothing
                        ELSE MembersAt("Object", name, v,
                                       Grammar["Object"][Solid(Solid(v.end) + 1)][d])
      <3>1. MembersFrom(stack, offset) = Grammar["Object"][offset][d]
        BY <2>1, <2>8 DEF MembersFrom
      <3>2. "Object" \in {"Array", "Object"}
        OBVIOUS
      <3>. QED  BY ONLY <1>2, <1>3, <2>1, <2>9, <3>1, <3>2, MembersGiven
    <2>12. CASE Char(q) # Colon
      <3>1. k = "false" /\ o = q
        BY <1>1, <1>5, <2>1, <2>6, <2>12
      <3>2. NeedsName(node, str, stack, root, item, Nothing)
        BY <2>8, <2>10, <2>11, <2>12
      <3>3. Grammar["value"][Solid(0)][NestingLimit] = Nothing
        BY <1>2, <3>2, FailsHere
      <3>4. Meant(m, str, stack, root, item, o, k, nm, j, e, b, short)
        BY <1>2, <2>6, <3>1, <3>3, MeansNothing
      <3>. QED  BY <1>1, <1>5, <3>4
    <2>13. CASE Char(q) = Colon
      <3>1. k = "value" /\ o = Skip(q + 1)
        BY <1>1, <1>5, <2>1, <2>6, <2>7, <2>13
      <3>2. /\ q \in p .. (Len(text) - 1)
            /\ Solid(q + 1) \in (q + 1) .. Len(text)
        <4>1. Colon \in {Comma, Colon, Quote} \cup Range(Opening) \cup Range(Closing)
          OBVIOUS
        <4>. QED  BY <1>2, <2>5, <2>6, <2>13, <4>1, SolidPlace
      <3>3. q + 1 \in 0 .. Len(text)
        BY <1>2, <2>5, <3>2
      <3>4. o = Solid(q + 1) /\ o \in 1 .. Len(text) /\ o \in 0 .. Len(text)
        <4>1. Skip(q + 1) = Solid(q + 1)
          BY <1>2, <3>3, SkipIsSolid
        <4>. QED  BY <1>2, <2>5, <3>1, <3>2, <3>3, <4>1
      <3>5. name = [out |-> <<c>>, end |-> o]
        BY <2>10, <2>13, <3>4
      <3>6. name.out = <<c>> /\ name.end = o /\ name # Nothing
        BY <3>4, <3>5 DEF Nothing
      <3>7. v = ValueFrom(stack, o)
        BY <2>1, <2>9, <3>6 DEF ValueFrom
      <3>8. /\ Changed(node, m, item, "String") /\ m[item].string = output
            /\ m[item].child = node[item].child
            /\ m[item].valuestring = node[item].valuestring
        BY <1>1, <1>2, <1>3, <1>5, NameIsSet
      <3>9. NameIn(m, str, item) = name.out
        BY <1>4, <2>1, <3>6, <3>8 DEF NameIn, Changed
      <3>10. NeedsValue(m, str, stack, root, item, v)
        <4>1. x = IF v = Nothing THEN Nothing
                  ELSE MembersAt(stack[Len(stack)].type, name, v,
                                 Grammar[stack[Len(stack)].type][Solid(Solid(v.end) + 1)]
                                        [NestingLimit - Len(stack)])
          BY <2>1, <2>8, <2>11, <3>6
        <4>2. /\ DOMAIN m = DOMAIN node /\ \A l \in DOMAIN node \ {item} : m[l] = node[l]
              /\ m[item].next = node[item].next
          BY <3>8 DEF Changed
        <4>3. NeedsName(node, str, stack, root, item, x)
          BY <2>8, <2>11
        <4>. QED  BY ONLY <1>2, <3>8, <3>9, <4>1, <4>2, <4>3, NameGiven
      <3>11. Needs(m, str, stack, root, item, FALSE, o)
        BY <3>4, <3>7, <3>10 DEF Needs
      <3>12. Meant(m, str, stack, root, item, o, k, nm, j, e, b, short)
        BY <3>1, <3>11, MeansAt
      <3>. QED  BY <1>1, <1>5, <3>12
    <2>. QED  BY <2>12, <2>13
  <1>. QED  BY <1>6, <1>7

LEMMA SolidStays ==
    ASSUME Typed, NEW p \in 0 .. Len(text)
    PROVE  Solid(Solid(p)) = Solid(p)
  <1>1. PICK q : q = Solid(p) /\ IsSolid(p, q) /\ q \in p .. Len(text)
    BY SolidIs
  <1>2. Len(text) \in Nat
    BY TextIs
  <1>3. q \in 0 .. Len(text) /\ q \in Nat /\ IsSolid(q, q)
    BY <1>1, <1>2 DEF IsSolid
  <1>4. IsSolid(q, Solid(q))
    BY <1>3, SolidIs
  <1>. QED  BY <1>1, <1>3, <1>4, OneSolid

\* A bracket opens here: what the grammar reads if it can open no more, and if
\* it can.
LEMMA BracketOpens ==
    ASSUME Typed, NEW p \in 0 .. Len(text), NEW d \in Nat,
           NEW type \in DOMAIN Opening, Char(p) = Opening[type]
    PROVE  /\ p + 1 \in 0 .. Len(text)
           /\ d = 0 => ValueBody(Grammar, p, d) = Nothing
           /\ d # 0 => ValueBody(Grammar, p, d)
                         = ListAt(type, p, Grammar[type][Solid(p + 1)][d - 1])
  <1>1. Char(p) \in Range(Opening)
    BY DEF Range
  <1>2. /\ p \in 0 .. (Len(text) - 1)
        /\ OpenedBy(p) \in DOMAIN Opening /\ Opening[OpenedBy(p)] = Char(p)
    BY <1>1, OpenedPlace
  <1>3. OpenedBy(p) = type
    BY <1>2, BracketsAre
  <1>4. p + 1 \in 0 .. Len(text)
    BY <1>2, TextIs
  <1>5. CASE d = 0
    <2>1. Char(p) \notin Digits \cup {45} /\ Char(p) # Quote
      <3>1. PICK c : c = Char(p) /\ c \in {91, 123}
        BY <1>1, LiteralsAre
      <3>2. c \notin 48 .. 57 \cup {45} /\ c # 34
        BY <3>1
      <3>. QED  BY <3>1, <3>2 DEF Digits, Quote
    <2>2. {u \in DOMAIN Literals : At(p, Literals[u])} = {}
      BY <1>1, LiteralAt, LiteralsAre
    <2>3. ScalarAt(p) = Nothing
      BY <2>1, <2>2, Zenon DEF ScalarAt
    <2>. QED  BY <1>4, <1>5, <2>3 DEF ValueBody
  <1>6. CASE d # 0
    <2>1. d > 0
      BY <1>6
    <2>. QED  BY <1>1, <1>3, <1>4, <1>6, <2>1 DEF ValueBody
  <1>. QED  BY <1>5, <1>6

LEMMA OpenMeans ==
    ASSUME ParseInv, KeptInv, GrammarInv, Open
    PROVE  GrammarInv'
  <1>. SUFFICES ASSUME ~WrongHex
                PROVE  Meant(node', str', stack', root', item', offset', pc', naming',
                             in', end', output', starved')
    BY MeansNext DEF Open
  <1>1. PICK type \in DOMAIN Opening :
          /\ Char(offset) = Opening[type]
          /\ IF TooDeep
               THEN pc' = "false" /\ UNCHANGED <<offset, stack, node>>
             ELSE IF Char(Skip(offset + 1)) = Closing[type]
               THEN /\ SetsType(node, node', item, type)
                    /\ offset' = Skip(offset + 1) + 1 /\ pc' = "true" /\ UNCHANGED stack
             ELSE /\ offset' = Skip(offset + 1) - 1
                  /\ stack' = Append(stack, [type |-> type, item |-> item,
                                             head |-> NULL, current |-> NULL])
                  /\ pc' = "element" /\ UNCHANGED node
    BY Zenon DEF Open, SetsType
  <1>2. pc = "value" /\ UNCHANGED <<str, root, item>>
    BY DEF Open
  <1>3. /\ Typed /\ Nodes(node) /\ Len(stack) \in Nat /\ NestingLimit - Len(stack) \in Nat
        /\ Len(text) \in Nat /\ length = Len(text) + 1
        /\ offset \in 0 .. Len(text) /\ item \in DOMAIN node
        /\ node[item].child = NULL /\ node[item].valuestring = NULL
    BY <1>2, ReadingFacts, AtValue
  <1>4. PICK v, d : /\ NeedsValue(node, str, stack, root, item, v) /\ Good("value", v, offset)
                    /\ v = ValueBody(Grammar, offset, d)
                    /\ d = NestingLimit - Len(stack) /\ d \in Nat
    BY <1>2, <1>3, AtValue
  <1>5. TooDeep <=> d = 0
    <2>1. depth = Len(stack) /\ NestingLimit \in Nat
      BY <1>2, ParseAssumption DEF ParseInv, NestingBounded
    <2>. QED  BY <1>3, <1>4, <2>1 DEF TooDeep
  <1>6. /\ offset + 1 \in 0 .. Len(text)
        /\ d = 0 => v = Nothing
        /\ d # 0 => v = ListAt(type, offset, Grammar[type][Solid(offset + 1)][d - 1])
    BY <1>1, <1>3, <1>4, BracketOpens
  <1>7. PICK first : /\ first = Solid(offset + 1) /\ first = Skip(offset + 1)
                     /\ first \in (offset + 1) .. Len(text)
    BY <1>3, <1>6, SkipIsSolid, SolidIs
  <1>8. first \in 1 .. Len(text) /\ first \in 0 .. Len(text) /\ Solid(first) = first
        /\ (first - 1) + 1 = first
    BY <1>3, <1>6, <1>7, SolidStays
  <1>9. PICK m, z, o, h, k, nm, j, e, b, short :
          /\ m = node' /\ z = stack' /\ o = offset' /\ h = item' /\ k = pc' /\ nm = naming'
          /\ j = in' /\ e = end' /\ b = output' /\ short = starved'
    OBVIOUS
  <1>10. CASE d = 0
    <2>1. k = "false" /\ UNCHANGED <<offset, stack, node>>
      BY <1>1, <1>5, <1>9, <1>10
    <2>2. Grammar["value"][Solid(0)][NestingLimit] = Nothing
      BY <1>3, <1>4, <1>6, <1>10, ValueFails
    <2>3. Meant(m, str, z, root, h, o, k, nm, j, e, b, short)
      BY <2>1, <2>2 DEF Meant
    <2>. QED  BY <1>2, <1>9, <2>3
  <1>11. CASE d # 0 /\ Char(first) = Closing[type]
    <2>1. /\ SetsType(node, m, item, type) /\ o = first + 1 /\ k = "true" /\ z = stack
      BY <1>1, <1>5, <1>7, <1>9, <1>11
    <2>2. v = Meaning(type, <<>>, <<>>, o)
      BY <1>6, <1>7, <1>11, <2>1 DEF ListAt
    <2>3. /\ Changed(node, m, item, type) /\ m[item].string = node[item].string
          /\ m[item].child = NULL /\ m[item].valuestring = NULL /\ m[item].type # "Number"
      <3>1. type # "Number"
        BY BracketsAre
      <3>2. /\ Changed(node, m, item, type) /\ m[item].string = node[item].string
            /\ m[item].child = node[item].child
            /\ m[item].valuestring = node[item].valuestring
        BY <1>3, <2>1, TypeIsSet
      <3>. QED  BY <1>3, <3>1, <3>2 DEF Changed
    <2>4. /\ NeedsValue(node, str, stack, root, item, Meaning(type, <<>>, <<>>, o))
          /\ Good("value", Meaning(type, <<>>, <<>>, o), offset)
      BY <1>4, <2>2
    <2>5. <<>> = IF m[item].type = "Number" THEN m[item].number
                 ELSE IF m[item].valuestring = NULL THEN <<>>
                 ELSE str[m[item].valuestring]
      BY <2>3
    <2>6. k = "true"
      BY <2>1
    <2>7. Meant(m, str, stack, root, h, o, k, nm, j, e, b, short)
      BY ONLY <1>3, <2>3, <2>4, <2>5, <2>6, MeansValue
    <2>. QED  BY <1>2, <1>9, <2>1, <2>7
  <1>12. CASE d # 0 /\ Char(first) # Closing[type]
    <2>1. PICK q, f, x :
            /\ q = Len(stack) + 1 /\ x = Grammar[type][first][d - 1]
            /\ f = [type |-> type, item |-> item, head |-> NULL, current |-> NULL]
      OBVIOUS
    <2>2. /\ o = first - 1 /\ z = Append(stack, f) /\ k = "element" /\ m = node
      BY <1>1, <1>5, <1>7, <1>9, <1>12, <2>1
    <2>3. /\ Len(z) = q /\ z[q] = f /\ \A l \in 1 .. Len(stack) : z[l] = stack[l]
      <3>1. stack \in Seq(Frame)
        BY KeptFacts
      <3>. QED  BY ONLY <2>1, <2>2, <3>1, AppendIs
    <2>4. d - 1 \in Nat /\ d - 1 = NestingLimit - q
      BY <1>3, <1>4, <1>12, <2>1, ParseAssumption
    <2>5. x = Nothing \/ IsSeq(x.out)
      <3>1. type \in Kinds /\ type # "value"
        BY BracketsAre DEF Kinds
      <3>2. Good(type, x, first)
        BY <1>3, <1>8, <2>1, <2>4, <3>1, GrammarIs
      <3>. QED  BY <3>1, <3>2 DEF Good
    <2>6. v = IF x = Nothing THEN Nothing ELSE Meaning(type, <<>>, x.out, x.end)
      BY <1>6, <1>7, <1>12, <2>1 DEF ListAt
    <2>7. NeedsNext(node, str, z, root, x)
      <3>1. /\ f.type = type /\ f.item = item /\ f.head = NULL /\ f.current = NULL
        BY <2>1
      <3>2. /\ Len(z) = Len(stack) + 1
            /\ z[Len(stack) + 1].type = type /\ z[Len(stack) + 1].item = item
            /\ z[Len(stack) + 1].head = NULL /\ z[Len(stack) + 1].current = NULL
        BY <2>1, <2>3, <3>1
      <3>3. NeedsValue(node, str, stack, root, item,
                       IF x = Nothing THEN Nothing ELSE Meaning(type, <<>>, x.out, x.end))
        BY <1>4, <2>6
      <3>. QED  BY ONLY <1>3, <2>3, <2>5, <3>2, <3>3, ValueOpens
    <2>8. MembersFrom(z, first) = x
      <3>1. z[Len(z)].type = type
        BY <2>1, <2>3
      <3>. QED  BY <2>1, <2>3, <2>4, <3>1 DEF MembersFrom
    <2>9. /\ k = "element" /\ o + 1 \in 0 .. Len(text)
          /\ NeedsNext(m, str, z, root, MembersFrom(z, Solid(o + 1)))
      BY <1>8, <2>2, <2>7, <2>8
    <2>10. Meant(m, str, z, root, h, o, k, nm, j, e, b, short)
      BY <2>9 DEF Meant
    <2>. QED  BY <1>2, <1>9, <2>10
  <1>. QED  BY <1>10, <1>11, <1>12

\* A new item at the end of the topmost list.
LEMMA ElementAdded ==
    ASSUME ParseInv, KeptInv, ParseInv', NewElement, pc' # "false",
           NEW new, new = FreeItem
    PROVE  /\ Grown(node, str, node', stack[Len(stack)].current, new)
           /\ Advanced(stack, stack', new)
           /\ node'[new].string = NULL /\ item' = new /\ Nodes(node')
  <1>1. PICK q, p, m, z : /\ q = Len(stack) /\ p = stack[q].current
                          /\ m = node' /\ z = stack'
    OBVIOUS
  <1>2. /\ Nodes(node') /\ new \in Items \ DOMAIN node
        /\ Top = stack[q] /\ item' = new
        /\ Lengthened(node, node', Top.current, new)
        /\ SameTexts(node, node', {new})
        /\ node'[new].child = NULL /\ node'[new].valuestring = NULL
        /\ node'[new].string = NULL
        /\ SameScalars(node, node')
        /\ Len(stack') = q
        /\ \A k \in 1 .. (q - 1) : stack'[k] = stack[k]
        /\ stack'[q].type = Top.type /\ stack'[q].item = Top.item
        /\ stack'[q].current = new
        /\ stack'[q].head = IF Top.head = NULL THEN new ELSE Top.head
    BY <1>1, ElementIs
  <1>3. /\ Lengthened(node, m, p, new) /\ SameTexts(node, m, {new})
        /\ SameScalars(node, m) /\ m[new].valuestring = NULL
    BY <1>1, <1>2
  <1>4. ASSUME NEW i \in DOMAIN node
        PROVE  /\ m[i].next = IF i = p THEN new ELSE node[i].next
               /\ SameSaid(node, str, m, str, i)
    <2>1. /\ m[i].type = node[i].type /\ m[i].number = node[i].number
          /\ m[i].child = node[i].child /\ m[i].const = node[i].const
          /\ m[i].string = node[i].string /\ m[i].valuestring = node[i].valuestring
          /\ m[i].next = IF i = p THEN new ELSE node[i].next
      BY ONLY <1>3, <1>4 DEF Lengthened, SameTexts, SameScalars
    <2>. QED  BY ONLY <2>1 DEF SameSaid
  <1>5. /\ DOMAIN m = DOMAIN node \cup {new} /\ m[new].next = NULL /\ m[new].child = NULL
    BY <1>3 DEF Lengthened
  <1>6. Grown(node, str, m, p, new)
    BY ONLY <1>2, <1>3, <1>4, <1>5 DEF Grown
  <1>7. Advanced(stack, z, new)
    BY ONLY <1>1, <1>2 DEF Advanced
  <1>. QED  BY <1>1, <1>2, <1>6, <1>7

LEMMA NewElementMeans ==
    ASSUME ParseInv, KeptInv, GrammarInv, ParseInv', NewElement
    PROVE  GrammarInv'
  <1>. SUFFICES ASSUME ~WrongHex
                PROVE  Meant(node', str', stack', root', item', offset', pc', naming',
                             in', end', output', starved')
    BY MeansNext DEF NewElement
  <1>1. /\ pc = "element" /\ UNCHANGED <<str, root>>
        /\ \/ /\ offset' = Skip(offset + 1)
              /\ pc' = IF stack[Len(stack)].type = "Array" THEN "value" ELSE "name"
           \/ pc' = "false" /\ starved' = TRUE
    BY Zenon DEF NewElement, Top
  <1>2. /\ Typed /\ Nodes(node) /\ Len(stack) \in Nat /\ NestingLimit - Len(stack) \in Nat
        /\ Len(text) \in Nat /\ NULL \notin DOMAIN node
    BY ReadingFacts
  <1>3. /\ offset + 1 \in 0 .. Len(text)
        /\ NeedsNext(node, str, stack, root, MembersFrom(stack, Solid(offset + 1)))
    BY <1>1 DEF GrammarInv, Meant
  <1>4. CASE pc' = "false" /\ starved' = TRUE
    BY <1>4 DEF Meant
  <1>5. CASE /\ offset' = Skip(offset + 1)
             /\ pc' = IF stack[Len(stack)].type = "Array" THEN "value" ELSE "name"
    <2>1. PICK new : new = FreeItem
      OBVIOUS
    <2>2. PICK m, z, o, h, k, nm, j, e, b, short :
            /\ m = node' /\ z = stack' /\ o = offset' /\ h = item' /\ k = pc' /\ nm = naming'
            /\ j = in' /\ e = end' /\ b = output' /\ short = starved'
      OBVIOUS
    <2>3. /\ Grown(node, str, m, stack[Len(stack)].current, new)
          /\ Advanced(stack, z, new)
          /\ m[new].string = NULL /\ h = new /\ Nodes(m)
      <3>1. pc' # "false"
        BY <1>5
      <3>. QED  BY <2>1, <2>2, <3>1, ElementAdded
    <2>4. PICK x, type, d :
            /\ x = MembersFrom(stack, Solid(offset + 1)) /\ type = stack[Len(stack)].type
            /\ d = NestingLimit - Len(stack) /\ d \in Nat
      BY <1>2
    <2>5. NeedsName(m, str, z, root, new, x)
      <3>1. NeedsNext(node, str, stack, root, x)
        BY <1>3, <2>4
      <3>. QED  BY ONLY <1>2, <2>3, <3>1, NextBegins
    <2>6. /\ Len(z) = Len(stack) /\ z[Len(z)].type = type
      BY <2>3, <2>4 DEF Advanced
    <2>7. o = Solid(offset + 1) /\ o \in 0 .. Len(text) /\ o # 0
      <3>1. /\ Skip(offset + 1) = Solid(offset + 1)
            /\ Solid(offset + 1) \in (offset + 1) .. Len(text)
        BY <1>2, <1>3, SkipIsSolid, SolidIs
      <3>2. offset \in Nat
        BY Facts
      <3>. QED  BY <1>2, <1>3, <1>5, <2>2, <3>1, <3>2
    <2>8. x = Grammar[type][o][d] /\ x = MembersFrom(z, o)
      BY <2>4, <2>6, <2>7 DEF MembersFrom
    <2>9. CASE type = "Array"
      <3>1. k = "value"
        BY <1>5, <2>2, <2>4, <2>9
      <3>2. PICK name, v : name = [out |-> <<>>, end |-> o] /\ v = Grammar["value"][o][d]
        OBVIOUS
      <3>3. /\ name = NameAt(type, o) /\ name.out = <<>> /\ name.end = o /\ name # Nothing
        <4>1. name.out = <<>> /\ name.end = o
          BY <3>2
        <4>2. name # Nothing
          BY <2>7, <4>1 DEF Nothing
        <4>3. NameAt(type, o) = name
          BY <2>9, <3>2 DEF NameAt
        <4>. QED  BY <4>1, <4>2, <4>3
      <3>4. x = IF v = Nothing THEN Nothing
                ELSE MembersAt(type, name, v, Grammar[type][Solid(Solid(v.end) + 1)][d])
        <4>1. type \in {"Array", "Object"} /\ v = Grammar["value"][name.end][d]
          BY <2>9, <3>2, <3>3
        <4>2. Grammar[type][o][d] =
                IF name = Nothing THEN Nothing
                ELSE IF v = Nothing THEN Nothing
                ELSE MembersAt(type, name, v, Grammar[type][Solid(Solid(v.end) + 1)][d])
          BY ONLY <1>2, <2>4, <2>7, <3>3, <4>1, MembersGiven
        <4>. QED  BY <2>8, <3>3, <4>2
      <3>5. NeedsValue(m, str, z, root, new, v)
        <4>1. x = IF v = Nothing THEN Nothing
                  ELSE MembersAt(z[Len(z)].type, name, v,
                                 Grammar[z[Len(z)].type][Solid(Solid(v.end) + 1)]
                                        [NestingLimit - Len(z)])
          BY <2>4, <2>6, <3>4
        <4>2. NameIn(m, str, new) = name.out
          BY <2>3, <3>3 DEF NameIn
        <4>3. NULL \notin DOMAIN m /\ Len(z) \in Nat
          BY <1>2, <2>3, <2>6, HeapAssumption DEF Nodes
        <4>4. /\ DOMAIN m = DOMAIN m /\ \A l \in DOMAIN m \ {new} : m[l] = m[l]
              /\ m[new].next = m[new].next /\ m[new].child = m[new].child
              /\ m[new].valuestring = m[new].valuestring
          OBVIOUS
        <4>. QED  BY ONLY <2>3, <2>5, <4>1, <4>2, <4>3, <4>4, NameGiven
      <3>6. Needs(m, str, z, root, h, FALSE, o)
        <4>1. ValueFrom(z, o) = v
          BY <2>4, <2>6, <3>2 DEF ValueFrom
        <4>. QED  BY <2>3, <2>7, <3>5, <4>1 DEF Needs
      <3>7. Meant(m, str, z, root, h, o, k, nm, j, e, b, short)
        BY <3>1, <3>6, MeansAt
      <3>. QED  BY <1>1, <2>2, <3>7
    <2>10. CASE type # "Array"
      <3>1. k = "name"
        BY <1>5, <2>2, <2>4, <2>10
      <3>2. z[Len(z)].type = "Object"
        <4>1. Len(stack) \in 1 .. Len(stack) /\ stack \in Seq(Frame)
          BY <1>2, <1>3, KeptFacts DEF NeedsNext
        <4>2. stack[Len(stack)] \in Frame
          BY <4>1
        <4>. QED  BY <2>4, <2>6, <2>10, <4>2 DEF Frame
      <3>3. Needs(m, str, z, root, h, TRUE, o)
        BY <2>3, <2>5, <2>7, <2>8, <3>2 DEF Needs
      <3>4. Meant(m, str, z, root, h, o, k, nm, j, e, b, short)
        BY <3>1, <3>3, MeansAt
      <3>. QED  BY <1>1, <2>2, <3>4
    <2>. QED  BY <2>9, <2>10
  <1>. QED  BY <1>1, <1>4, <1>5

LEMMA AfterElementMeans ==
    ASSUME ParseInv, KeptInv, GrammarInv, AfterElement
    PROVE  GrammarInv'
  <1>. SUFFICES ASSUME ~WrongHex
                PROVE  Meant(node', str', stack', root', item', offset', pc', naming',
                             in', end', output', starved')
    BY MeansNext DEF AfterElement
  <1>. DEFINE next == Skip(offset)
  <1>1. /\ pc = "true" /\ stack # <<>> /\ UNCHANGED <<str, root>>
        /\ IF Accessible(next) /\ Char(next) = Closing[Top.type]
             THEN /\ SetsList(node, node', Top.item, Top.type, Top.head)
                  /\ stack' = Below /\ offset' = next + 1 /\ pc' = "true"
             ELSE /\ pc' = IF Accessible(next) /\ Char(next) = Comma
                             THEN "element" ELSE "false"
                  /\ offset' = next /\ UNCHANGED <<node, stack>>
    BY Zenon DEF AfterElement, SetsList
  <1>2. /\ Typed /\ Nodes(node) /\ Len(stack) \in Nat /\ NestingLimit - Len(stack) \in Nat
        /\ Len(text) \in Nat /\ length = Len(text) + 1 /\ NULL \notin DOMAIN node
        /\ offset \in Nat /\ stack \in Seq(Frame) /\ Built(node, stack, root)
    BY ReadingFacts, Facts, KeptFacts
  <1>3. PICK q, f, d : /\ q = Len(stack) /\ f = stack[q] /\ f = Top /\ q \in Nat \ {0}
                       /\ f \in Frame /\ d = NestingLimit - q /\ d \in Nat
    <2>1. Len(stack) \in Nat \ {0} /\ Top \in Frame
      BY <1>1, Frames
    <2>. QED  BY <1>2, <2>1 DEF Top
  <1>4. PICK m, z, o, h, k, nm, j, e, b, short :
          /\ m = node' /\ z = stack' /\ o = offset' /\ h = item' /\ k = pc' /\ nm = naming'
          /\ j = in' /\ e = end' /\ b = output' /\ short = starved'
    OBVIOUS
  <1>5. CASE offset > length
    <2>1. next = offset
      BY <1>5 DEF Skip
    <2>2. ~Accessible(next)
      BY <1>2, <1>5, <2>1 DEF Accessible
    <2>3. k = "false" /\ o = offset
      BY <1>1, <1>4, <2>1, <2>2
    <2>4. ~(o <= length)
      BY <1>2, <1>5, <2>3
    <2>5. Meant(m, str, z, root, h, o, k, nm, j, e, b, short)
      BY <2>3, <2>4 DEF Meant
    <2>. QED  BY <1>1, <1>4, <2>5
  <1>6. CASE ~(offset > length)
    <2>1. offset \in 1 .. Len(text) /\ HasRead(node, str, stack, root, offset)
      <3>1. offset <= length
        BY <1>2, <1>6
      <3>. QED  BY <1>1, <3>1 DEF GrammarInv, Meant
    <2>2. PICK p : /\ p = Solid(offset) /\ p = next /\ p \in offset .. Len(text)
                   /\ p \in 0 .. Len(text)
      <3>1. offset \in 0 .. Len(text)
        BY <1>2, <2>1
      <3>2. Skip(offset) = Solid(offset) /\ Solid(offset) \in offset .. Len(text)
        BY <1>2, <3>1, SkipIsSolid, SolidIs
      <3>. QED  BY <1>2, <2>1, <3>2
    <2>3. Accessible(p)
      BY <1>2, <2>2 DEF Accessible
    <2>4. f.type \in DOMAIN Opening /\ f.type \in DOMAIN Closing /\ f.type # "Number"
      BY <1>3, BracketsAre DEF Frame
    <2>5. ASSUME NEW c, c = Char(p), c = Comma \/ c = Closing[f.type]
          PROVE  /\ p \in offset .. (Len(text) - 1)
                 /\ Solid(p + 1) \in (p + 1) .. Len(text)
      <3>1. c \in {Comma, Colon, Quote} \cup Range(Opening) \cup Range(Closing)
        BY <2>4, <2>5 DEF Range
      <3>2. offset \in 0 .. Len(text) /\ Char(Solid(offset)) = c
        BY <1>2, <2>1, <2>2, <2>5
      <3>3. /\ Solid(offset) \in offset .. (Len(text) - 1)
            /\ Solid(Solid(offset) + 1) \in (Solid(offset) + 1) .. Len(text)
        BY ONLY <1>2, <3>1, <3>2, SolidPlace
      <3>. QED  BY <2>2, <3>3
    <2>6. Char(p) = Comma =>
            RestOf(stack, offset) = Nothing \/ IsSeq(RestOf(stack, offset).out)
      <3>1. SUFFICES ASSUME Char(p) = Comma
                     PROVE  RestOf(stack, offset) = Nothing \/ IsSeq(RestOf(stack, offset).out)
        OBVIOUS
      <3>2. PICK a : a = Solid(p + 1) /\ a \in 0 .. Len(text)
        BY <1>2, <2>1, <2>2, <2>5, <3>1
      <3>3. f.type \in Kinds /\ f.type # "value"
        BY <2>4, BracketsAre DEF Kinds
      <3>4. Good(f.type, Grammar[f.type][a][d], a)
        BY <1>2, <1>3, <3>2, <3>3, GrammarIs
      <3>5. RestOf(stack, offset) = Grammar[f.type][a][d]
        BY <1>3, <2>2, <3>2 DEF RestOf
      <3>. QED  BY <3>3, <3>4, <3>5 DEF Good
    <2>7. CASE Char(p) = Closing[f.type]
      <3>1. /\ SetsList(node, m, f.item, f.type, f.head)
            /\ z = Below /\ o = p + 1 /\ k = "true"
        BY <1>1, <1>3, <1>4, <2>2, <2>3, <2>7
      <3>2. f.item \in DOMAIN node
        <4>1. q \in 1 .. Len(stack) /\ q - 1 \in 0 .. Len(stack)
          BY <1>3
        <4>2. PICK l : l = q - 1 /\ l \in 0 .. Len(stack)
          BY <4>1
        <4>3. Framed(node, stack, root, q) /\ Part(node, stack, root, l) \subseteq DOMAIN node
          BY <1>2, <4>1, <4>2, PartIs DEF Built
        <4>4. f.item \in Part(node, stack, root, q - 1)
          BY <1>3, <4>3 DEF Framed
        <4>. QED  BY <4>2, <4>3, <4>4
      <3>3. PICK i : i = f.item
        OBVIOUS
      <3>4. /\ Changed(node, m, i, f.type) /\ m[i].child = f.head
            /\ m[i].string = node[i].string /\ m[i].valuestring = node[i].valuestring
        BY <1>2, <3>1, <3>2, <3>3, ListIsSet
      <3>5. /\ DOMAIN m = DOMAIN node /\ \A l \in DOMAIN node \ {i} : m[l] = node[l]
            /\ m[i].type = f.type /\ m[i].next = node[i].next /\ m[i].const = node[i].const
        BY <3>4 DEF Changed
      <3>6. Len(z) = Len(stack) - 1 /\ \A l \in 1 .. (Len(stack) - 1) : z[l] = stack[l]
        BY <1>1, <3>1, BelowIs
      <3>7. /\ Len(stack) # 0 /\ offset # 0 /\ i = stack[Len(stack)].item
            /\ Char(Solid(offset)) = Closing[stack[Len(stack)].type]
            /\ stack[Len(stack)].type # "Number"
            /\ m[i].child = stack[Len(stack)].head /\ m[i].type = stack[Len(stack)].type
        BY <1>2, <1>3, <2>1, <2>2, <2>4, <2>7, <3>3, <3>4, <3>5
      <3>8. HasRead(m, str, z, root, Solid(offset) + 1)
        <4>1. Char(Solid(offset)) = Comma =>
                RestOf(stack, offset) = Nothing \/ IsSeq(RestOf(stack, offset).out)
          BY <2>2, <2>6
        <4>. QED  BY ONLY <1>2, <2>1, <3>4, <3>5, <3>6, <3>7, <4>1, ListCloses
      <3>9. o \in 1 .. Len(text) /\ HasRead(m, str, z, root, o)
        <4>1. p \in offset .. (Len(text) - 1)
          BY <2>5, <2>7
        <4>2. o \in 1 .. Len(text)
          BY <1>2, <2>1, <3>1, <4>1
        <4>. QED  BY <2>2, <3>1, <3>8, <4>2
      <3>10. Meant(m, str, z, root, h, o, k, nm, j, e, b, short)
        BY <3>1, <3>9 DEF Meant
      <3>. QED  BY <1>1, <1>4, <3>10
    <2>8. CASE Char(p) # Closing[f.type]
      <3>1. /\ k = IF Char(p) = Comma THEN "element" ELSE "false"
            /\ o = p /\ m = node /\ z = stack
        BY <1>1, <1>3, <1>4, <2>2, <2>3, <2>8
      <3>2. /\ Char(p) = Comma => NeedsNext(node, str, stack, root, RestOf(stack, offset))
            /\ Char(p) # Comma => Grammar["value"][Solid(0)][NestingLimit] = Nothing
        <4>1. /\ Char(Solid(offset)) = Comma =>
                   RestOf(stack, offset) = Nothing \/ IsSeq(RestOf(stack, offset).out)
              /\ Len(stack) # 0 /\ offset # 0
              /\ Char(Solid(offset)) # Closing[stack[Len(stack)].type]
          BY <1>2, <1>3, <2>1, <2>2, <2>6, <2>8
        <4>2. /\ Char(Solid(offset)) = Comma =>
                   NeedsNext(node, str, stack, root, RestOf(stack, offset))
              /\ Char(Solid(offset)) # Comma =>
                   Grammar["value"][Solid(0)][NestingLimit] = Nothing
          BY ONLY <1>2, <2>1, <4>1, ListGoesOn
        <4>. QED  BY <2>2, <4>2
      <3>3. CASE Char(p) = Comma
        <4>1. k = "element"
          BY <3>1, <3>3
        <4>2. o + 1 \in 0 .. Len(text)
          BY <1>2, <2>1, <2>5, <3>1, <3>3
        <4>3. MembersFrom(stack, Solid(o + 1)) = RestOf(stack, offset)
          BY <2>2, <3>1 DEF MembersFrom, RestOf
        <4>4. NeedsNext(m, str, z, root, MembersFrom(z, Solid(o + 1)))
          BY <3>1, <3>2, <3>3, <4>3
        <4>5. Meant(m, str, z, root, h, o, k, nm, j, e, b, short)
          BY <4>1, <4>2, <4>4 DEF Meant
        <4>. QED  BY <1>1, <1>4, <4>5
      <3>4. CASE Char(p) # Comma
        <4>1. k = "false"
          BY <3>1, <3>4
        <4>2. Meant(m, str, z, root, h, o, k, nm, j, e, b, short)
          BY <3>2, <3>4, <4>1 DEF Meant
        <4>. QED  BY <1>1, <1>4, <4>2
      <3>. QED  BY <3>3, <3>4
    <2>. QED  BY <2>7, <2>8
  <1>. QED  BY <1>5, <1>6

LEMMA QuietMeans ==
    ASSUME ParseInv, KeptInv, GrammarInv,
           Unwind \/ UNCHANGED parseVars \/ \E r \in BOOLEAN : Finish(r)
    PROVE  GrammarInv'
  <1>1. UNCHANGED source
    BY Zenon DEF Unwind, parseVars, Finish
  <1>2. ASSUME Unwind, ~WrongHex
        PROVE  Meant(node', str', stack', root', item', offset', pc', naming',
                     in', end', output', starved')
    <2>1. pc = "false" /\ UNCHANGED <<pc, offset, starved>>
      BY <1>2 DEF Unwind
    <2>. QED  BY <1>2, <2>1 DEF GrammarInv, Meant
  <1>3. ASSUME \E r \in BOOLEAN : Finish(r), ~WrongHex
        PROVE  Meant(node', str', stack', root', item', offset', pc', naming',
                     in', end', output', starved')
    <2>1. pc' = "done"
      BY <1>3, Zenon DEF Finish
    <2>. QED  BY <2>1 DEF Meant
  <1>4. ASSUME UNCHANGED parseVars, ~WrongHex
        PROVE  Meant(node', str', stack', root', item', offset', pc', naming',
                     in', end', output', starved')
    <2>1. UNCHANGED <<node, str, stack, root, item, offset, pc, naming, in, end, output,
                      starved>>
      BY <1>4 DEF parseVars, heap, place, pass1, pass2
    <2>2. Meant(node, str, stack, root, item, offset, pc, naming, in, end, output, starved)
      BY <1>4 DEF GrammarInv
    <2>. QED  BY <2>1, <2>2
  <1>. QED  BY <1>1, <1>2, <1>3, <1>4, MeansNext

LEMMA StepMeans ==
    ParseInv /\ ParseInv' /\ KeptInv /\ GrammarInv /\ [ParseStep]_parseVars => GrammarInv'
  <1>. SUFFICES ASSUME ParseInv, ParseInv', KeptInv, GrammarInv, [ParseStep]_parseVars
                PROVE  GrammarInv'
    OBVIOUS
  <1>1. CASE Start
    BY <1>1, StartMeans
  <1>2. CASE Unwind \/ UNCHANGED parseVars \/ \E r \in BOOLEAN : Finish(r)
    BY <1>2, QuietMeans
  <1>3. CASE Literal \/ parse_number \/ NoValue
    BY <1>3, LiteralMeans, parse_numberMeans, NoValueMeans
  <1>4. CASE parse_string \/ Scan \/ Allocate \/ Decode \/ EndValue \/ EndName
    BY <1>4, parse_stringMeans, ScanMeans, AllocateMeans, DecodeMeans, EndValueMeans,
       EndNameMeans
  <1>5. CASE Open \/ NewElement \/ AfterElement
    BY <1>5, OpenMeans, NewElementMeans, AfterElementMeans
  <1>. QED  BY <1>1, <1>2, <1>3, <1>4, <1>5, Zenon DEF ParseStep, cJSON_Parse

LEMMA InitMeans == Init => GrammarInv
  BY DEF Init, GrammarInv, Meant

LEMMA MeansGrammar == ParseInv /\ KeptInv /\ GrammarInv => ParsesGrammar
  <1>. SUFFICES ASSUME ParseInv, KeptInv, GrammarInv, stack = <<>>, ~WrongHex,
                       offset <= length
                PROVE  LET meant == Grammar["value"][Solid(0)][NestingLimit]
                       IN  /\ pc = "true" =>
                               meant = [out |-> ValueOf[root], end |-> offset]
                           /\ pc = "false" /\ ~starved => meant = Nothing
    BY DEF ParsesGrammar
  <1>1. Nodes(node) /\ IsFiniteSet(DOMAIN node)
    BY KeptFacts DEF Closed
  <1>2. pc = "true" => HasRead(node, str, stack, root, offset)
    BY DEF GrammarInv, Meant
  <1>3. pc = "true" => Grammar["value"][Solid(0)][NestingLimit]
                         = [out |-> ValueOf[root], end |-> offset]
    BY <1>1, <1>2, RootWasRead
  <1>4. pc = "false" /\ ~starved => Grammar["value"][Solid(0)][NestingLimit] = Nothing
    BY DEF GrammarInv, Meant
  <1>. QED  BY <1>3, <1>4

\* Whatever the text, when parse_value returns for the root with TRUE, the tree
\* it built is the value the grammar of JSON makes of the text, and the parser
\* stands behind it; when it returns FALSE and there was memory, the text has
\* no value, or one nested deeper than the limit.
THEOREM ParserMeetsGrammar == ParseSpec => []ParsesGrammar
  <1>1. ParseSpec => []KeptInv
    BY InitKept, StepKept, ParseInvariant, PTL DEF ParseSpec
  <1>2. ParseSpec => []GrammarInv
    BY <1>1, InitMeans, StepMeans, ParseInvariant, PTL DEF ParseSpec
  <1>. QED  BY <1>1, <1>2, MeansGrammar, ParseInvariant, PTL
=============================================================================
