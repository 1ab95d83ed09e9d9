-------------------------- MODULE JsonParseProofs ---------------------------
(***************************************************************************)
(* Proofs about the parser: for every text, byte behind it, heap, number   *)
(* buffer and nesting limit, and with malloc failing anywhere, its state   *)
(* keeps its types, its places stay in the text and its calls are nested   *)
(* no deeper than the limit.  The inductive invariant is ParseInv.  The    *)
(* room counted for a decoded string is enough for what is written there.  *)
(* The memory it takes is accounted for to the last item and text, on the  *)
(* paths where an allocation fails too: the inductive invariant of that is *)
(* KeptInv, that the items make up the lists under construction and no two *)
(* share one, and that every text has one owner.                           *)
(***************************************************************************)
EXTENDS JsonParse, WellFoundedInduction, SequenceTheorems, FiniteSetTheorems,
        TLAPS

\* A set of numbers that is not empty has a least one.
LEMMA Least ==
    ASSUME NEW S \in SUBSET Nat, S # {}
    PROVE  \E x \in S : \A y \in S : x <= y
  <1>. DEFINE R == {ss \in Nat \X Nat : ss[1] < ss[2]}
  <1>1. IsWellFoundedOn(R, Nat)
    BY NatLessThanWellFounded DEF OpToRel
  <1>2. PICK x \in S : \A y \in S : <<y, x>> \notin R
    BY <1>1, WFMin
  <1>3. \A y \in S : y < x => <<y, x>> \in R
    OBVIOUS
  <1>4. \A y \in S : ~(y < x)
    BY <1>2, <1>3
  <1>. HIDE DEF R
  <1>5. x \in S /\ x \in Nat /\ S \subseteq Nat
    BY <1>2
  <1>. QED  BY <1>4, <1>5

-----------------------------------------------------------------------------
(* The text *)

LEMMA Elements ==
    ASSUME NEW S, NEW s \in Seq(S)
    PROVE  Len(s) \in Nat /\ \A i \in 1 .. Len(s) : s[i] \in S
  OBVIOUS

LEMMA TextChars ==
    ASSUME text \in Seq(1 .. 255), after \in Bytes
    PROVE  /\ length \in Nat \ {0}
           /\ \A p \in Nat : Char(p) \in Bytes
           /\ Char(length - 1) = Nul
           /\ \A p \in Nat : p > length - 1 => Char(p) = after
           /\ \A p : Accessible(p) <=> p < length
  <1>1. Len(text) \in Nat /\ \A i \in 1 .. Len(text) : text[i] \in 1 .. 255
    BY Elements
  <1>2. length \in Nat \ {0} /\ length - 1 = Len(text)
    BY <1>1 DEF length
  <1>3. ASSUME NEW p \in Nat PROVE Char(p) \in Bytes
    <2>1. CASE p < Len(text)
      <3>1. p + 1 \in 1 .. Len(text)
        BY <1>1, <2>1
      <3>2. text[p + 1] \in 1 .. 255
        BY <1>1, <3>1
      <3>. QED  BY <2>1, <3>2, SMT DEF Char, Bytes
    <2>2. CASE ~(p < Len(text))
      BY <2>2, SMT DEF Char, Bytes, Nul
    <2>. QED  BY <2>1, <2>2
  <1>4. Char(length - 1) = Nul
    BY <1>1, <1>2, SMT DEF Char
  <1>5. \A p \in Nat : p > length - 1 => Char(p) = after
    BY <1>1, <1>2, SMT DEF Char
  <1>. QED  BY <1>2, <1>3, <1>4, <1>5 DEF Accessible

\* buffer_skip_whitespace goes on over whitespace only, and stays in front of
\* the end of the text, if it was not past it.
LEMMA SkipInText ==
    ASSUME text \in Seq(1 .. 255), NEW p \in 0 .. length
    PROVE  /\ Skip(p) \in 0 .. (length - 1)
           /\ p < length => p <= Skip(p)
           /\ \A r \in p .. (Skip(p) - 1) : Char(r) \in White
  <1>. DEFINE Q == {q \in p .. length : q = length \/ Char(q) \notin White}
  <1>l. length \in Nat \ {0}
    BY DEF length
  <1>1. Q \in SUBSET Nat /\ length \in Q
    BY <1>l
  <1>2. PICK q \in Q : \A y \in Q : q <= y
    BY <1>1, Least
  <1>3. \A r \in p .. (q - 1) : Char(r) \in White
    BY <1>2, <1>l
  <1>. DEFINE N == CHOOSE x \in p .. length :
                      /\ x = length \/ Char(x) \notin White
                      /\ \A r \in p .. (x - 1) : Char(r) \in White
  <1>4. /\ N \in p .. length
        /\ \A r \in p .. (N - 1) : Char(r) \in White
    BY <1>2, <1>3
  <1>5. Skip(p) = IF N = length THEN N - 1 ELSE N
    BY <1>l DEF Skip
  <1>. HIDE DEF N
  <1>. QED  BY <1>4, <1>5, <1>l

\* The characters copied for strtod end before the 0 of the text.
LEMMA CopiedInText ==
    ASSUME text \in Seq(1 .. 255), after \in Bytes, NEW p \in 0 .. (length - 1)
    PROVE  /\ Copied(p) \in Seq(Bytes)
           /\ p + Len(Copied(p)) <= length - 1
  <1>1. NumberBuffer \in Nat \ {0}
    BY ParseAssumption
  <1>. DEFINE Q == {n \in 0 .. (NumberBuffer - 1) :
                       n = NumberBuffer - 1 \/ Char(p + n) \notin NumberChars}
  <1>2. Q \in SUBSET Nat /\ NumberBuffer - 1 \in Q
    BY <1>1
  <1>3. PICK q \in Q : \A y \in Q : q <= y
    BY <1>2, Least
  <1>4. ASSUME NEW i \in 0 .. (q - 1) PROVE Char(p + i) \in NumberChars
    <2>1. i \in 0 .. (NumberBuffer - 1) /\ ~(q <= i)
      BY <1>1, <1>3
    <2>. QED  BY <2>1, <1>3
  <1>. DEFINE N == CHOOSE n \in 0 .. (NumberBuffer - 1) :
                    /\ \A i \in 0 .. (n - 1) : Char(p + i) \in NumberChars
                    /\ n = NumberBuffer - 1 \/ Char(p + n) \notin NumberChars
  <1>5. /\ N \in 0 .. (NumberBuffer - 1)
        /\ \A i \in 0 .. (N - 1) : Char(p + i) \in NumberChars
    BY <1>3, <1>4
  <1>6. Copied(p) = [i \in 1 .. N |-> Char(p + i - 1)]
    BY DEF Copied
  <1>. HIDE DEF N
  <1>7. /\ length \in Nat \ {0}
        /\ \A r \in Nat : Char(r) \in Bytes
        /\ Char(length - 1) = 0
    BY TextChars DEF Nul
  <1>8. 0 \notin NumberChars
    BY DEF NumberChars, Digits
  <1>9. p + N <= length - 1
    <2>. SUFFICES ASSUME p + N > length - 1 PROVE FALSE
      BY <1>5, <1>7
    <2>1. length - 1 - p \in 0 .. (N - 1) /\ p + (length - 1 - p) = length - 1
      BY <1>5, <1>7
    <2>2. Char(p + (length - 1 - p)) \in NumberChars
      BY <2>1, <1>5
    <2>. QED  BY <2>1, <2>2, <1>7, <1>8
  <1>10. N \in Nat /\ \A i \in 1 .. N : p + i - 1 \in Nat
    BY <1>5, <1>1
  <1>. QED  BY <1>6, <1>7, <1>9, <1>10

\* strtod takes no more than it is given.
LEMMA strtodTakes ==
    ASSUME NEW S, NEW s \in Seq(S)
    PROVE  strtod(s) \in 0 .. Len(s)
  <1>. DEFINE Q == {n \in 0 .. Len(s) :
                      \A m \in (n + 1) .. Len(s) : ~IsNumber(SubSeq(s, 1, m))}
  <1>1. Q \in SUBSET Nat /\ Len(s) \in Q
    OBVIOUS
  <1>2. PICK n \in Q : \A y \in Q : n <= y
    BY <1>1, Least
  <1>3. n = 0 \/ IsNumber(SubSeq(s, 1, n))
    <2>. SUFFICES ASSUME n # 0, ~IsNumber(SubSeq(s, 1, n)) PROVE FALSE
      OBVIOUS
    <2>1. n \in 0 .. Len(s)
          /\ \A m \in (n + 1) .. Len(s) : ~IsNumber(SubSeq(s, 1, m))
      BY <1>2
    <2>2. \A m \in ((n - 1) + 1) .. Len(s) : m = n \/ m \in (n + 1) .. Len(s)
      BY <2>1
    <2>3. n - 1 \in Q
      BY <2>1, <2>2
    <2>4. n \in Nat
      BY <2>1
    <2>. HIDE DEF Q
    <2>5. n <= n - 1
      BY <2>3, <1>2, Zenon
    <2>. QED  BY <2>4, <2>5
  <1>. QED  BY <1>2, <1>3 DEF strtod

-----------------------------------------------------------------------------
(* Strings *)

\* What four hexadecimal digits can say, and what can be asked of Utf8.
Words      == {c \in Nat : c <= 65535}
Codepoints == {c \in Nat : c <= 1114111}

LEMMA Hex4 ==
    ASSUME NEW p \in Nat
    PROVE  parse_hex4(p) \in Words
  <1>. DEFINE H == Digits \cup (65 .. 70) \cup (97 .. 102)
              good == \A i \in 0 .. 3 : Char(p + i) \in H
              value(a, b, c, d) == a * 4096 + b * 256 + c * 16 + d
  <1>1. \A c \in H : HexDigit(c) \in 0 .. 15
    BY SMT DEF HexDigit, Digits
  <1>2. \A a, b, c, d \in 0 .. 15 : value(a, b, c, d) \in Words
    BY SMT DEF Words
  <1>3. parse_hex4(p) =
          IF good THEN value(HexDigit(Char(p)), HexDigit(Char(p + 1)),
                             HexDigit(Char(p + 2)), HexDigit(Char(p + 3)))
          ELSE 0
    BY Zenon DEF parse_hex4
  <1>4. CASE good
    <2>1. p + 0 = p /\ 0 \in 0 .. 3 /\ 1 \in 0 .. 3 /\ 2 \in 0 .. 3 /\ 3 \in 0 .. 3
      BY SMT
    <2>. HIDE DEF H
    <2>2. Char(p) \in H /\ Char(p + 1) \in H /\ Char(p + 2) \in H
          /\ Char(p + 3) \in H
      BY <1>4, <2>1, SMT
    <2>3. HexDigit(Char(p)) \in 0 .. 15 /\ HexDigit(Char(p + 1)) \in 0 .. 15
          /\ HexDigit(Char(p + 2)) \in 0 .. 15 /\ HexDigit(Char(p + 3)) \in 0 .. 15
      BY <1>1, <2>2
    <2>. HIDE DEF value, good
    <2>4. parse_hex4(p) = value(HexDigit(Char(p)), HexDigit(Char(p + 1)),
                                HexDigit(Char(p + 2)), HexDigit(Char(p + 3)))
      BY <1>3, <1>4, Zenon
    <2>. QED  BY <1>2, <2>3, <2>4, Zenon
  <1>5. CASE ~good
    <2>. HIDE DEF value, good
    <2>. QED  BY <1>3, <1>5, SMT DEF Words
  <1>. QED  BY <1>4, <1>5

LEMMA Utf8Bytes ==
    ASSUME NEW c \in Codepoints
    PROVE  Utf8(c) \in Seq(Bytes)
  <1>. DEFINE low(x) == 128 + (x % 64)
  <1>1. ASSUME NEW x \in Nat PROVE low(x) \in Bytes
    BY SMT DEF Bytes
  <1>2. /\ c \div 64 \in Nat /\ c \div 4096 \in Nat /\ c \in Nat
    BY SMT DEF Codepoints
  <1>3. low(c) \in Bytes /\ low(c \div 64) \in Bytes /\ low(c \div 4096) \in Bytes
    BY <1>1, <1>2
  <1>4. c < 128 => c \in Bytes
    BY SMT DEF Bytes, Codepoints
  <1>5. c < 2048 => 192 + c \div 64 \in Bytes
    BY SMT DEF Bytes, Codepoints
  <1>6. c < 65536 => 224 + c \div 4096 \in Bytes
    BY SMT DEF Bytes, Codepoints
  <1>7. 240 + c \div 262144 \in Bytes
    BY SMT DEF Bytes, Codepoints
  <1>8. Utf8(c) =
          IF c < 128 THEN <<c>>
          ELSE IF c < 2048 THEN <<192 + c \div 64, low(c)>>
          ELSE IF c < 65536 THEN <<224 + c \div 4096, low(c \div 64), low(c)>>
          ELSE <<240 + c \div 262144, low(c \div 4096), low(c \div 64), low(c)>>
    BY SMT DEF Utf8
  <1>. HIDE DEF low
  <1>9. CASE c < 128
    BY <1>8, <1>9, <1>4, SMT
  <1>10. CASE ~(c < 128) /\ c < 2048
    BY <1>8, <1>10, <1>5, <1>3, SMT
  <1>11. CASE ~(c < 128) /\ ~(c < 2048) /\ c < 65536
    <2>1. Utf8(c) = <<224 + c \div 4096, low(c \div 64), low(c)>>
      BY <1>8, <1>11, SMT
    <2>. QED  BY <2>1, <1>11, <1>6, <1>3, SMT
  <1>12. CASE ~(c < 128) /\ ~(c < 2048) /\ ~(c < 65536)
    <2>1. Utf8(c) = <<240 + c \div 262144, low(c \div 4096), low(c \div 64),
                      low(c)>>
      BY <1>8, <1>12, SMT
    <2>. QED  BY <2>1, <1>7, <1>3, SMT
  <1>. QED  BY <1>9, <1>10, <1>11, <1>12, SMT

\* A literal is taken from in front of the closing quote only, and stands for
\* bytes.
LEMMA Literal16 ==
    ASSUME text \in Seq(1 .. 255), after \in Bytes, end \in Nat,
           NEW p \in Nat, p < end
    PROVE  LET u == utf16_literal_to_utf8(p)
           IN  /\ u.length \in Nat /\ p + u.length <= end
               /\ u.out \in Seq(Bytes)
  <1>. DEFINE first   == parse_hex4(p + 2)
              second  == parse_hex4(p + 8)
              pair    == 65536 + (first % 1024) * 1024 + (second % 1024)
              nothing == [out |-> <<>>, length |-> 0]
              one     == [out |-> Utf8(first), length |-> 6]
              both    == [out |-> Utf8(pair), length |-> 12]
  <1>1. first \in Words /\ second \in Words
    BY Hex4
  <1>2. first \in Codepoints /\ pair \in Codepoints
    <2>. HIDE DEF first, second
    <2>. QED  BY <1>1, SMT DEF Words, Codepoints
  <1>. HIDE DEF first, second, pair
  <1>3. Utf8(first) \in Seq(Bytes) /\ Utf8(pair) \in Seq(Bytes)
    BY <1>2, Utf8Bytes, SMT
  <1>4. /\ nothing.length = 0 /\ nothing.out \in Seq(Bytes)
        /\ one.length = 6 /\ one.out \in Seq(Bytes)
        /\ both.length = 12 /\ both.out \in Seq(Bytes)
    BY <1>3, SMT
  <1>. HIDE DEF nothing, one, both
  <1>5. \/ utf16_literal_to_utf8(p) = nothing
        \/ end - p >= 6 /\ utf16_literal_to_utf8(p) = one
        \/ end - p >= 12 /\ utf16_literal_to_utf8(p) = both
    BY SMT DEF utf16_literal_to_utf8, first, second, pair, nothing, one, both
  <1>. QED  BY <1>4, <1>5, SMT

\* So is every unit of a string; only an escape of two characters can end
\* behind the quote.
LEMMA Units ==
    ASSUME text \in Seq(1 .. 255), after \in Bytes, end \in Nat,
           NEW p \in Nat, p < end
    PROVE  /\ Unit(p).length \in Nat /\ p + Unit(p).length <= end + 1
           /\ Unit(p).out \in Seq(Bytes)
  <1>1. Char(p) \in Bytes
    BY TextChars
  <1>2. CASE Char(p) # Backslash
    <2>1. Unit(p) = [out |-> <<Char(p)>>, length |-> 1]
      BY <1>2 DEF Unit
    <2>. QED  BY <2>1, <1>1, SMT
  <1>3. CASE Char(p) = Backslash /\ Char(p + 1) = 117
    <2>1. Unit(p) = utf16_literal_to_utf8(p)
      BY <1>3 DEF Unit
    <2>. QED  BY <2>1, Literal16, SMT
  <1>4. CASE /\ Char(p) = Backslash /\ Char(p + 1) # 117
             /\ Char(p + 1) \in Range(Escapes)
    <2>. DEFINE e == CHOOSE i \in DOMAIN Escapes : Escapes[i] = Char(p + 1)
    <2>1. Unit(p) = [out |-> <<Escaped[e]>>, length |-> 2]
      BY <1>4 DEF Unit
    <2>2. e \in DOMAIN Escapes
      BY <1>4 DEF Range
    <2>3. DOMAIN Escapes = 1 .. 8
      BY SMT DEF Escapes
    <2>. HIDE DEF e
    <2>4. Escaped \in Seq(Bytes) /\ Len(Escaped) = 8
      BY SMT DEF Escaped, Bytes
    <2>5. e \in 1 .. Len(Escaped)
      BY <2>2, <2>3, <2>4, Zenon
    <2>6. Escaped[e] \in Bytes
      BY <2>4, <2>5, Elements, Zenon
    <2>. QED  BY <2>1, <2>6, SMT
  <1>5. CASE /\ Char(p) = Backslash /\ Char(p + 1) # 117
             /\ Char(p + 1) \notin Range(Escapes)
    <2>1. Unit(p) = [out |-> <<>>, length |-> 0]
      BY <1>5 DEF Unit
    <2>. QED  BY <2>1, SMT
  <1>. QED  BY <1>2, <1>3, <1>4, <1>5

-----------------------------------------------------------------------------
(* The heap *)

Nodes(n) == DOMAIN n \subseteq Items /\ n \in [DOMAIN n -> Item]
Strs(s)  == DOMAIN s \subseteq Strings /\ s \in [DOMAIN s -> Text]

LEMMA HeapIs ==
    /\ HeapOK <=> Nodes(node) /\ Strs(str)
    /\ HeapOK' <=> Nodes(node') /\ Strs(str')
  BY DEF HeapOK, Nodes, Strs

LEMMA FreeIs ==
    /\ Nodes(node) /\ ItemLeft => FreeItem \in Items
    /\ Strs(str) /\ StringLeft => FreeString \in Strings
  BY DEF Nodes, Strs, ItemLeft, StringLeft, FreeItem, FreeString

LEMMA ClearedIsItem == Cleared \in Item
  <1>1. <<>> \in Text
    BY DEF Text
  <1>. QED  BY <1>1 DEF Cleared, Item, Types

LEMMA NodesAdd ==
    ASSUME NEW n, Nodes(n), NEW i \in Items, NEW r \in Item
    PROVE  Nodes(With(n, i, r))
  BY DEF Nodes, With

LEMMA NodesSet ==
    ASSUME NEW n, Nodes(n), NEW i, NEW r, i \in DOMAIN n => r \in Item
    PROVE  Nodes([n EXCEPT ![i] = r])
  BY DEF Nodes

\* The changes the parser makes to an item.
LEMMA NodesChange ==
    ASSUME NEW n, Nodes(n), NEW i
    PROVE  /\ \A t \in Types : Nodes([n EXCEPT ![i].type = t])
           /\ \A j \in Items \cup {NULL} : Nodes([n EXCEPT ![i].next = j])
           /\ \A j \in Items \cup {NULL} : Nodes([n EXCEPT ![i].child = j])
           /\ \A s \in Strings \cup {NULL} : Nodes([n EXCEPT ![i].string = s])
           /\ \A s \in Strings \cup {NULL} :
                Nodes([n EXCEPT ![i].valuestring = s])
           /\ \A c \in Text : Nodes([n EXCEPT ![i].number = c])
  <1>1. ASSUME NEW t \in Types PROVE Nodes([n EXCEPT ![i].type = t])
    <2>1. i \in DOMAIN n => [n[i] EXCEPT !.type = t] \in Item
      BY SMT DEF Item, Nodes
    <2>. QED  BY <2>1, NodesSet, Zenon
  <1>2. ASSUME NEW j \in Items \cup {NULL} PROVE Nodes([n EXCEPT ![i].next = j])
    <2>1. i \in DOMAIN n => [n[i] EXCEPT !.next = j] \in Item
      BY SMT DEF Item, Nodes
    <2>. QED  BY <2>1, NodesSet, Zenon
  <1>3. ASSUME NEW j \in Items \cup {NULL} PROVE Nodes([n EXCEPT ![i].child = j])
    <2>1. i \in DOMAIN n => [n[i] EXCEPT !.child = j] \in Item
      BY SMT DEF Item, Nodes
    <2>. QED  BY <2>1, NodesSet, Zenon
  <1>4. ASSUME NEW s \in Strings \cup {NULL}
        PROVE  Nodes([n EXCEPT ![i].string = s])
    <2>1. i \in DOMAIN n => [n[i] EXCEPT !.string = s] \in Item
      BY SMT DEF Item, Nodes
    <2>. QED  BY <2>1, NodesSet, Zenon
  <1>5. ASSUME NEW s \in Strings \cup {NULL}
        PROVE  Nodes([n EXCEPT ![i].valuestring = s])
    <2>1. i \in DOMAIN n => [n[i] EXCEPT !.valuestring = s] \in Item
      BY SMT DEF Item, Nodes
    <2>. QED  BY <2>1, NodesSet, Zenon
  <1>6. ASSUME NEW c \in Text PROVE Nodes([n EXCEPT ![i].number = c])
    <2>1. i \in DOMAIN n => [n[i] EXCEPT !.number = c] \in Item
      BY SMT DEF Item, Nodes
    <2>. QED  BY <2>1, NodesSet, Zenon
  <1>. QED  BY <1>1, <1>2, <1>3, <1>4, <1>5, <1>6

\* Two changes are one after the other.
LEMMA TwoChanges ==
    ASSUME NEW n, Nodes(n), NEW i, NEW t \in Types
    PROVE  /\ \A j \in Items \cup {NULL} :
                Nodes([n EXCEPT ![i].type = t, ![i].child = j])
           /\ \A s \in Strings \cup {NULL} :
                /\ Nodes([n EXCEPT ![i].type = t, ![i].string = s])
                /\ Nodes([n EXCEPT ![i].type = t, ![i].valuestring = s])
           /\ \A c \in Text : Nodes([n EXCEPT ![i].type = t, ![i].number = c])
  <1>. DEFINE m == [n EXCEPT ![i].type = t]
  <1>1. Nodes(m)
    BY NodesChange, Zenon
  <1>2. /\ \A j \in Items \cup {NULL} : Nodes([m EXCEPT ![i].child = j])
        /\ \A s \in Strings \cup {NULL} :
             /\ Nodes([m EXCEPT ![i].string = s])
             /\ Nodes([m EXCEPT ![i].valuestring = s])
        /\ \A c \in Text : Nodes([m EXCEPT ![i].number = c])
    <2>. HIDE DEF m
    <2>. QED  BY <1>1, NodesChange, Zenon
  <1>. QED  BY <1>2

LEMMA NodesRestrict ==
    ASSUME NEW n, Nodes(n), NEW S
    PROVE  Nodes(Restrict(n, DOMAIN n \ S))
  BY DEF Nodes, Restrict

LEMMA StrsAdd ==
    ASSUME NEW s, Strs(s), NEW i \in Strings, NEW t \in Text
    PROVE  Strs(With(s, i, t))
  BY DEF Strs, With

LEMMA StrsSet ==
    ASSUME NEW s, Strs(s), NEW i, NEW t \in Text
    PROVE  Strs([s EXCEPT ![i] = @ \o t])
  <1>1. \A u \in Text : u \o t \in Text
    BY DEF Text
  <1>. QED  BY <1>1 DEF Strs

LEMMA StrsRestrict ==
    ASSUME NEW s, Strs(s), NEW S
    PROVE  Strs(Restrict(s, DOMAIN s \ S))
  BY DEF Strs, Restrict

LEMMA DeleteKeeps ==
    ASSUME HeapOK, NEW i, cJSON_Delete(i)
    PROVE  HeapOK'
  <1>1. Nodes(node') /\ Strs(str')
    BY NodesRestrict, StrsRestrict, HeapIs DEF cJSON_Delete
  <1>. QED  BY <1>1 DEF HeapOK, Nodes, Strs

-----------------------------------------------------------------------------
(* The inductive invariant *)

\* What is known of the places o, i and e in the text when the parser is at k
\* and has skipped s bytes: StaysInText, and why it goes on holding.
InText(o, k, i, e, s) ==
    /\ o <= length + 1
    /\ o = length + 1 => after = Quote
    /\ k \in {"name", "element"} => o + 1 <= length
    /\ k = "element" => Char(o) \in White \cup {Comma} \cup Range(Opening)
    /\ k \in {"scan", "decode"} => i <= e + 1 /\ e <= length
    /\ k = "scan" => i = o + 1 /\ i <= e /\ s <= e - i
    /\ k = "decode" => Char(e) = Quote

ParseInv ==
    /\ TypeOK
    /\ InText(offset, pc, in, end, skipped)
    /\ NestingBounded
    /\ pc \notin {"start", "done"} => item \in Items
    /\ pc = "element" => stack # <<>>

LEMMA InvInText == InText(offset, pc, in, end, skipped) => StaysInText
  BY DEF InText, StaysInText

\* The text does not change, so that the places of the next state can be told
\* by the text of this one.
LEMMA SameText ==
    ASSUME UNCHANGED source, InText(offset', pc', in', end', skipped')
    PROVE  InText(offset, pc, in, end, skipped)'
  BY DEF InText, source, length, Char

LEMMA Facts ==
    ASSUME ParseInv
    PROVE  /\ text \in Seq(1 .. 255) /\ after \in Bytes
           /\ length \in Nat \ {0}
           /\ offset \in Nat /\ in \in Nat /\ end \in Nat /\ skipped \in Nat
           /\ InText(offset, pc, in, end, skipped)
           /\ \A p \in Nat : Char(p) \in Bytes
           /\ Char(length - 1) = Nul
           /\ \A p \in Nat : p > length - 1 => Char(p) = after
           /\ \A p : Accessible(p) <=> p < length
  BY TextChars, ParseAssumption DEF ParseInv, TypeOK

LEMMA InitInv == Init => ParseInv
  <1>. SUFFICES ASSUME Init PROVE ParseInv
    OBVIOUS
  <1>1. text \in Seq(1 .. 255) /\ NestingLimit \in Nat
    BY ParseAssumption DEF Init
  <1>2. <<>> \in Seq(Frame)
    OBVIOUS
  <1>3. HeapOK
    <2>1. DOMAIN <<>> = {}
      OBVIOUS
    <2>2. <<>> \in [{} -> Item] /\ <<>> \in [{} -> Text]
      BY <2>1, SMT
    <2>. QED  BY <2>1, <2>2, Zenon DEF Init, HeapOK
  <1>4. TypeOK
    <2>1. naming \in BOOLEAN /\ starved \in BOOLEAN
      BY Zenon DEF Init
    <2>2. /\ pc = "start" /\ offset = 0 /\ depth = 0 /\ stack = <<>> /\ in = 0
          /\ end = 0 /\ skipped = 0 /\ room = 0 /\ item = NULL
          /\ output = NULL /\ root = NULL /\ after \in AfterBytes
      BY Zenon DEF Init
    <2>. QED  BY <1>1, <1>2, <1>3, <2>1, <2>2, SMT DEF TypeOK
  <1>5. InText(offset, pc, in, end, skipped)
    BY <1>1 DEF Init, InText, length
  <1>6. NestingBounded
    BY <1>1 DEF Init, NestingBounded
  <1>. QED  BY <1>4, <1>5, <1>6 DEF ParseInv, Init
-----------------------------------------------------------------------------
(* The steps *)

LEMMA HeapHere == ParseInv => Nodes(node) /\ Strs(str)
  BY HeapIs DEF ParseInv, TypeOK

\* Where the parser is after whitespace.
LEMMA SkipPlace ==
    ASSUME ParseInv
    PROVE  \A p \in 0 .. (length + 1) :
             /\ Skip(p) \in Nat
             /\ Skip(p) < length \/ (p = length + 1 /\ Skip(p) = p)
             /\ p < length => p <= Skip(p)
             /\ \A r \in p .. (Skip(p) - 1) : Char(r) \in White
  <1>. TAKE p \in 0 .. (length + 1)
  <1>1. CASE p = length + 1
    <2>1. Skip(p) = p
      BY <1>1, Facts, SMT DEF Skip
    <2>. QED  BY <1>1, <2>1, Facts, SMT
  <1>2. CASE p \in 0 .. length
    <2>1. text \in Seq(1 .. 255)
      BY Facts
    <2>2. /\ Skip(p) \in 0 .. (length - 1)
          /\ p < length => p <= Skip(p)
          /\ \A r \in p .. (Skip(p) - 1) : Char(r) \in White
      BY <1>2, <2>1, SkipInText
    <2>3. Skip(p) \in Nat /\ Skip(p) < length
      BY <2>2, Facts, SMT
    <2>. QED  BY <2>2, <2>3
  <1>. QED  BY <1>1, <1>2, Facts, SMT

LEMMA StartInv == ParseInv /\ Start => ParseInv'
  <1>. SUFFICES ASSUME ParseInv, Start PROVE ParseInv'
    OBVIOUS
  <1>1. Skip(0) \in Nat /\ Skip(0) < length
    BY SkipPlace, Facts, SMT
  <1>2. /\ UNCHANGED <<source, depth, stack, naming, in, end, skipped, output, room>>
        /\ starved' \in BOOLEAN
        /\ \/ /\ pc' = "value" /\ root' = FreeItem /\ item' = FreeItem
              /\ ItemLeft /\ offset' = Skip(0)
           \/ pc' = "done" /\ UNCHANGED <<root, item, offset>>
    BY Zenon DEF Start, ParseInv, TypeOK, pass1, pass2
  <1>3. pc = "start"
    BY DEF Start
  <1>4. ItemLeft => FreeItem \in Items
    BY HeapHere, FreeIs
  <1>5. HeapOK'
    <2>1. Nodes(node')
      BY HeapHere, FreeIs, NodesAdd, ClearedIsItem DEF Start, cJSON_New_Item
    <2>. QED  BY <2>1, HeapHere, HeapIs DEF Start
  <1>6. TypeOK'
    BY <1>1, <1>2, <1>4, <1>5, SMT DEF ParseInv, TypeOK, source
  <1>7. InText(offset', pc', in', end', skipped')
    BY <1>1, <1>2, Facts, SMT DEF InText
  <1>8. NestingBounded'
    BY <1>2, <1>3, SMT DEF ParseInv, NestingBounded
  <1>. QED  BY <1>2, <1>4, <1>6, <1>7, <1>8, SameText DEF ParseInv

LEMMA LiteralInv == ParseInv /\ Literal => ParseInv'
  <1>. SUFFICES ASSUME ParseInv, Literal PROVE ParseInv'
    OBVIOUS
  <1>a. /\ offset' \in Nat /\ offset' <= length
        /\ pc = "value" /\ pc' = "true"
    <2>1. PICK type \in DOMAIN Literals :
            At(offset, Literals[type]) /\ offset' = offset + Len(Literals[type])
      BY DEF Literal
    <2>2. Len(Literals[type]) \in Nat
      BY SMT DEF Literals
    <2>. QED  BY <2>1, <2>2, Facts, SMT DEF At, Literal
  <1>1. HeapOK'
    <2>1. \A type \in DOMAIN Literals : type \in Types
      BY DEF Literals, Types
    <2>2. PICK type \in DOMAIN Literals : node' = [node EXCEPT ![item].type = type]
      BY DEF Literal
    <2>3. Nodes([node EXCEPT ![item].type = type])
      <3>1. Nodes(node)
        BY HeapHere
      <3>. QED  BY <2>1, <3>1, NodesChange
    <2>4. Nodes(node')
      BY <2>2, <2>3
    <2>. QED  BY <2>4, HeapHere, HeapIs DEF Literal
  <1>2. TypeOK'
    BY <1>1, <1>a, Facts, SMT DEF ParseInv, TypeOK, Literal, source, pass1, pass2
  <1>3. InText(offset', pc', in', end', skipped')
    BY <1>a, Facts, SMT DEF ParseInv, InText, Literal, pass1, pass2
  <1>4. NestingBounded'
    BY Facts, SMT DEF ParseInv, TypeOK, NestingBounded, Literal, source, pass1, pass2
  <1>5. pc' \notin {"start", "done"} => item' \in Items
    BY <1>a, SMT DEF ParseInv, TypeOK, Literal, source, pass1, pass2
  <1>6. UNCHANGED source /\ pc' # "element"
    BY SMT DEF Literal
  <1>. QED  BY <1>2, <1>3, <1>4, <1>5, <1>6, SameText DEF ParseInv

LEMMA parse_numberInv == ParseInv /\ parse_number => ParseInv'
  <1>. SUFFICES ASSUME ParseInv, parse_number PROVE ParseInv'
    OBVIOUS
  <1>. DEFINE number == SubSeq(Copied(offset), 1, strtod(Copied(offset)))
  <1>a. offset \in 0 .. (length - 1)
    BY Facts, SMT DEF parse_number
  <1>b. number \in Text /\ Len(number) \in Nat /\ offset + Len(number) < length
    <2>1. Copied(offset) \in Seq(Bytes) /\ offset + Len(Copied(offset)) <= length - 1
      BY <1>a, CopiedInText, Facts
    <2>2. strtod(Copied(offset)) \in 0 .. Len(Copied(offset))
      BY <2>1, strtodTakes
    <2>. QED  BY <2>1, <2>2, Facts, SMT DEF Text
  <1>c. /\ offset' = offset \/ offset' = offset + Len(number)
        /\ pc = "value" /\ pc' \in {"true", "false"}
    BY DEF parse_number
  <1>. HIDE DEF number
  <1>1. HeapOK'
    <2>1. "Number" \in Types
      BY DEF Types
    <2>2. \/ UNCHANGED node
          \/ node' = [node EXCEPT ![item].type = "Number",
                                 ![item].number = number]
      BY DEF parse_number, number
    <2>3. Nodes([node EXCEPT ![item].type = "Number", ![item].number = number])
      <3>1. Nodes(node)
        BY HeapHere
      <3>. QED  BY <1>b, <2>1, <3>1, TwoChanges
    <2>4. Nodes(node')
      BY <2>2, <2>3, HeapHere
    <2>. QED  BY <2>4, HeapHere, HeapIs DEF parse_number
  <1>2. TypeOK'
    BY <1>1, <1>b, <1>c, Facts, SMT DEF ParseInv, TypeOK, parse_number, source, pass1, pass2
  <1>3. InText(offset', pc', in', end', skipped')
    BY <1>b, <1>c, Facts, SMT DEF ParseInv, InText, parse_number, pass1, pass2
  <1>4. NestingBounded'
    BY Facts, SMT DEF ParseInv, TypeOK, NestingBounded, parse_number, source, pass1, pass2
  <1>5. pc' \notin {"start", "done"} => item' \in Items
    BY <1>b, <1>c, SMT DEF ParseInv, TypeOK, parse_number, source, pass1, pass2
  <1>6. UNCHANGED source /\ pc' # "element"
    BY SMT DEF parse_number
  <1>. QED  BY <1>2, <1>3, <1>4, <1>5, <1>6, SameText DEF ParseInv

LEMMA NoValueInv == ParseInv /\ NoValue => ParseInv'
  <1>. SUFFICES ASSUME ParseInv, NoValue PROVE ParseInv'
    OBVIOUS
  <1>1. HeapOK'
    BY HeapIs DEF ParseInv, TypeOK, NoValue, heap
  <1>2. TypeOK'
    BY <1>1, Facts, SMT DEF ParseInv, TypeOK, NoValue, source, place, pass1, pass2, heap
  <1>3. InText(offset', pc', in', end', skipped')
    BY Facts, SMT DEF ParseInv, InText, NoValue, place, pass1, pass2
  <1>4. NestingBounded'
    BY Facts, SMT DEF ParseInv, TypeOK, NestingBounded, NoValue, source, place, pass1, pass2, heap
  <1>5. pc' \notin {"start", "done"} => item' \in Items
    BY SMT DEF ParseInv, TypeOK, NoValue, source, place, pass1, pass2, heap
  <1>6. UNCHANGED source /\ pc' # "element"
    BY SMT DEF NoValue
  <1>. QED  BY <1>2, <1>3, <1>4, <1>5, <1>6, SameText DEF ParseInv

LEMMA parse_stringInv == ParseInv /\ parse_string => ParseInv'
  <1>. SUFFICES ASSUME ParseInv, parse_string PROVE ParseInv'
    OBVIOUS
  <1>1. HeapOK'
    BY HeapIs DEF ParseInv, TypeOK, parse_string, heap
  <1>2. TypeOK'
    BY <1>1, Facts, SMT DEF ParseInv, TypeOK, parse_string, source, heap
  <1>3. InText(offset', pc', in', end', skipped')
    BY Facts, SMT DEF ParseInv, InText, parse_string, Quote, Nul
  <1>4. NestingBounded'
    BY Facts, SMT DEF ParseInv, TypeOK, NestingBounded, parse_string, source, heap
  <1>5. pc' \notin {"start", "done"} => item' \in Items
    BY SMT DEF ParseInv, TypeOK, parse_string, source, heap
  <1>6. UNCHANGED source /\ pc' # "element"
    BY SMT DEF parse_string
  <1>. QED  BY <1>2, <1>3, <1>4, <1>5, <1>6, SameText DEF ParseInv

LEMMA ScanInv == ParseInv /\ Scan => ParseInv'
  <1>. SUFFICES ASSUME ParseInv, Scan PROVE ParseInv'
    OBVIOUS
  <1>1. /\ UNCHANGED <<source, pc, offset, depth, stack, item, naming, in,
                       output, room, root, starved, heap>>
        /\ pc = "scan" /\ end < length
        /\ \/ /\ Char(end) = Backslash
              /\ end' = end + 2 /\ skipped' = skipped + 1
           \/ end' = end + 1 /\ UNCHANGED skipped
    BY Zenon DEF Scan, place, pass2
  <1>2. HeapOK'
    BY <1>1, HeapIs DEF ParseInv, TypeOK, heap
  <1>3. TypeOK'
    BY <1>1, <1>2, Facts, SMT DEF ParseInv, TypeOK, source
  <1>a. Char(end) = Backslash => end + 2 <= length
    <2>. SUFFICES ASSUME Char(end) = Backslash, ~(end + 2 <= length)
                  PROVE  FALSE
      OBVIOUS
    <2>1. end = length - 1
      BY <1>1, Facts, SMT
    <2>. QED  BY <2>1, Facts DEF Nul, Backslash
  <1>4. InText(offset', pc', in', end', skipped')
    BY <1>1, <1>a, Facts, SMT DEF InText
  <1>5. NestingBounded'
    BY <1>1, SMT DEF ParseInv, NestingBounded
  <1>. QED  BY <1>1, <1>3, <1>4, <1>5, SameText DEF ParseInv

LEMMA AllocateInv == ParseInv /\ Allocate => ParseInv'
  <1>. SUFFICES ASSUME ParseInv, Allocate PROVE ParseInv'
    OBVIOUS
  <1>1. /\ UNCHANGED <<source, depth, stack, item, naming, end, skipped, in,
                       root, node>>
        /\ starved' \in BOOLEAN
        /\ \/ /\ Char(end) = Quote /\ StringLeft
              /\ output' = FreeString /\ str' = With(str, FreeString, <<>>)
              /\ room' = (end - offset) - skipped + 1
              /\ pc' = "decode" /\ UNCHANGED offset
           \/ pc' = "false" /\ offset' = in /\ UNCHANGED <<output, str, room>>
    BY Zenon DEF Allocate, ParseInv, TypeOK, pass1
  <1>2. pc = "scan"
    BY DEF Allocate
  <1>3. StringLeft => FreeString \in Strings
    BY HeapHere, FreeIs
  <1>4. HeapOK'
    <2>1. <<>> \in Text
      BY DEF Text
    <2>2. Strs(str')
      BY <1>1, <1>3, <2>1, HeapHere, StrsAdd
    <2>. QED  BY <1>1, <2>2, HeapHere, HeapIs
  <1>5. /\ (end - offset) - skipped + 1 \in Nat
        /\ in <= length /\ end <= length /\ in <= end + 1
    BY <1>2, Facts, SMT DEF InText
  <1>6. TypeOK'
    BY <1>1, <1>3, <1>4, <1>5, SMT DEF ParseInv, TypeOK, source
  <1>7. InText(offset', pc', in', end', skipped')
    BY <1>1, <1>2, <1>5, Facts, SMT DEF InText
  <1>8. NestingBounded'
    BY <1>1, <1>2, SMT DEF ParseInv, NestingBounded
  <1>. QED  BY <1>1, <1>2, <1>6, <1>7, <1>8, SameText DEF ParseInv

LEMMA DecodeInv == ParseInv /\ Decode => ParseInv'
  <1>. SUFFICES ASSUME ParseInv, Decode PROVE ParseInv'
    OBVIOUS
  <1>. DEFINE size  == Unit(in).length
              bytes == Unit(in).out
  <1>1. pc = "decode" /\ in < end
    BY DEF Decode
  <1>2. size \in Nat /\ in + size <= end + 1 /\ bytes \in Text
    BY <1>1, Units, Facts DEF Text
  <1>3. /\ UNCHANGED <<source, depth, stack, item, naming, end, skipped, root,
                       starved, node>>
        /\ \/ /\ str' = [str EXCEPT ![output] = @ \o bytes]
              /\ in' = in + size /\ UNCHANGED <<pc, offset, output, room>>
           \/ /\ str' = Restrict(str, DOMAIN str \ {output})
              /\ offset' = in /\ output' = NULL /\ room' = 0 /\ pc' = "false"
              /\ UNCHANGED in
    BY DEF Decode, pass1
  <1>. HIDE DEF size, bytes
  <1>4. HeapOK'
    <2>1. Strs(str)
      BY HeapHere
    <2>2. Strs([str EXCEPT ![output] = @ \o bytes])
      BY <1>2, <2>1, StrsSet
    <2>3. Strs(Restrict(str, DOMAIN str \ {output}))
      BY <2>1, StrsRestrict
    <2>4. Strs(str')
      BY <1>3, <2>2, <2>3, Zenon
    <2>. QED  BY <1>3, <2>4, HeapHere, HeapIs
  <1>5. TypeOK'
    BY <1>2, <1>3, <1>4, SMT DEF ParseInv, TypeOK, source
  <1>6. InText(offset', pc', in', end', skipped')
    BY <1>1, <1>2, <1>3, Facts, SMT DEF InText
  <1>7. NestingBounded'
    BY <1>1, <1>3, SMT DEF ParseInv, NestingBounded
  <1>. QED  BY <1>1, <1>3, <1>5, <1>6, <1>7, SameText DEF ParseInv

LEMMA EndValueInv == ParseInv /\ EndValue => ParseInv'
  <1>. SUFFICES ASSUME ParseInv, EndValue PROVE ParseInv'
    OBVIOUS
  <1>1. pc = "decode" /\ offset' = end + 1
    BY DEF EndValue
  <1>2. end <= length /\ (end + 1 = length + 1 => after = Quote)
    BY <1>1, Facts, SMT DEF InText
  <1>3. /\ UNCHANGED <<source, depth, stack, item, naming, end, skipped, in,
                       root, starved, str>>
        /\ output' = NULL /\ room' = 0 /\ pc' = "true"
        /\ node' = [node EXCEPT ![item].type = "String",
                                ![item].valuestring = output]
    BY DEF EndValue, pass1
  <1>4. HeapOK'
    <2>1. "String" \in Types /\ output \in Strings \cup {NULL} /\ Nodes(node)
      BY HeapHere DEF Types, ParseInv, TypeOK
    <2>2. Nodes([node EXCEPT ![item].type = "String",
                             ![item].valuestring = output])
      BY <2>1, TwoChanges
    <2>. QED  BY <1>3, <2>2, HeapHere, HeapIs
  <1>5. TypeOK'
    BY <1>1, <1>3, <1>4, SMT DEF ParseInv, TypeOK, source
  <1>6. InText(offset', pc', in', end', skipped')
    BY <1>1, <1>2, <1>3, Facts, SMT DEF InText
  <1>7. NestingBounded'
    BY <1>1, <1>3, SMT DEF ParseInv, NestingBounded
  <1>. QED  BY <1>1, <1>3, <1>5, <1>6, <1>7, SameText DEF ParseInv

LEMMA EndNameInv == ParseInv /\ EndName => ParseInv'
  <1>. SUFFICES ASSUME ParseInv, EndName PROVE ParseInv'
    OBVIOUS
  <1>. DEFINE next == Skip(end + 1)
  <1>1. pc = "decode"
    BY DEF EndName
  <1>2. end + 1 \in 0 .. (length + 1) /\ (end + 1 = length + 1 => after = Quote)
    BY <1>1, Facts, SMT DEF InText
  <1>3. next \in Nat /\ (next < length \/ (next = length + 1 /\ after = Quote))
    BY <1>2, SkipPlace, SMT
  <1>4. /\ UNCHANGED <<source, depth, stack, item, naming, end, skipped, in,
                       root, starved, str>>
        /\ output' = NULL /\ room' = 0
        /\ node' = [node EXCEPT ![item].type = "String", ![item].string = output]
        /\ \/ Accessible(next) /\ pc' = "value" /\ offset' = Skip(next + 1)
           \/ pc' = "false" /\ offset' = next
    BY DEF EndName, pass1
  <1>. HIDE DEF next
  <1>5. Accessible(next) => Skip(next + 1) \in Nat /\ Skip(next + 1) < length
    BY <1>3, SkipPlace, Facts, SMT
  <1>6. HeapOK'
    <2>1. "String" \in Types /\ output \in Strings \cup {NULL} /\ Nodes(node)
      BY HeapHere DEF Types, ParseInv, TypeOK
    <2>2. Nodes([node EXCEPT ![item].type = "String", ![item].string = output])
      BY <2>1, TwoChanges
    <2>. QED  BY <1>4, <2>2, HeapHere, HeapIs
  <1>7. TypeOK'
    BY <1>3, <1>4, <1>5, <1>6, SMT DEF ParseInv, TypeOK, source
  <1>8. InText(offset', pc', in', end', skipped')
    BY <1>3, <1>4, <1>5, Facts, SMT DEF InText
  <1>9. NestingBounded'
    BY <1>1, <1>4, SMT DEF ParseInv, NestingBounded
  <1>. QED  BY <1>1, <1>4, <1>7, <1>8, <1>9, SameText DEF ParseInv

LEMMA OpenInv == ParseInv /\ Open => ParseInv'
  <1>. SUFFICES ASSUME ParseInv, Open PROVE ParseInv'
    OBVIOUS
  <1>. DEFINE first == Skip(offset + 1)
  <1>1. PICK type \in DOMAIN Opening :
          /\ Char(offset) = Opening[type]
          /\ \/ pc' = "false" /\ UNCHANGED <<offset, depth, stack, node>>
             \/ /\ node' = [node EXCEPT ![item].type = type]
                /\ offset' = first + 1 /\ pc' = "true"
                /\ UNCHANGED <<depth, stack>>
             \/ /\ ~TooDeep
                /\ depth' = depth + 1 /\ offset' = first - 1
                /\ stack' = Append(stack, [type |-> type, item |-> item,
                                           head |-> NULL, current |-> NULL])
                /\ pc' = "element" /\ UNCHANGED node
    BY Zenon DEF Open
  <1>2. /\ pc = "value" /\ Accessible(offset)
        /\ UNCHANGED <<source, item, naming, in, end, skipped, output, room,
                       root, starved, str>>
    BY DEF Open, pass1, pass2
  <1>3. type \in {"Array", "Object"} /\ Char(offset) \in Range(Opening)
    BY <1>1 DEF Opening, Range
  <1>4. offset + 1 < length
    <2>1. Char(offset) # Nul
      BY <1>1, <1>3, SMT DEF Opening, Nul
    <2>2. offset # length - 1
      BY <2>1, Facts
    <2>. QED  BY <1>2, <2>2, Facts, SMT
  <1>5. /\ first \in Nat /\ first < length /\ offset + 1 <= first
        /\ first - 1 = offset \/ first - 1 \in (offset + 1) .. (first - 1)
        /\ \A r \in (offset + 1) .. (first - 1) : Char(r) \in White
    <2>1. offset + 1 \in 0 .. (length + 1) /\ offset + 1 # length + 1
      BY <1>4, Facts, SMT
    <2>2. /\ first \in Nat /\ first < length /\ offset + 1 <= first
          /\ \A r \in (offset + 1) .. (first - 1) : Char(r) \in White
      BY <1>4, <2>1, SkipPlace, Zenon
    <2>3. first - 1 = offset \/ first - 1 \in (offset + 1) .. (first - 1)
      BY <2>2, Facts, SMT
    <2>. QED  BY <2>2, <2>3, Zenon
  <1>6. Char(first - 1) \in White \cup {Comma} \cup Range(Opening)
    BY <1>3, <1>5, Zenon
  <1>. HIDE DEF first
  <1>7. item \in Items /\ depth = Len(stack) /\ NestingLimit \in Nat
    BY <1>2, ParseAssumption DEF ParseInv, NestingBounded
  <1>8. stack \in Seq(Frame) /\ Len(stack) \in Nat
    BY DEF ParseInv, TypeOK
  <1>9. HeapOK'
    <2>1. type \in Types /\ Nodes(node)
      BY <1>3, HeapHere DEF Types
    <2>2. Nodes([node EXCEPT ![item].type = type])
      BY <2>1, NodesChange
    <2>3. Nodes(node')
      BY <1>1, <2>1, <2>2, Zenon
    <2>. QED  BY <1>2, <2>3, HeapHere, HeapIs
  <1>10. stack' \in Seq(Frame) /\ depth' \in 0 .. NestingLimit
    <2>1. [type |-> type, item |-> item, head |-> NULL, current |-> NULL] \in Frame
      BY <1>3, <1>7 DEF Frame
    <2>2. Append(stack, [type |-> type, item |-> item, head |-> NULL,
                         current |-> NULL]) \in Seq(Frame)
      BY <1>8, <2>1
    <2>3. stack' \in Seq(Frame)
      BY <1>1, <1>8, <2>2, Zenon
    <2>4. depth \in 0 .. NestingLimit
      BY DEF ParseInv, TypeOK
    <2>5. depth' \in 0 .. NestingLimit
      BY <1>1, <1>7, <2>4, SMT DEF TooDeep
    <2>. QED  BY <2>3, <2>5
  <1>11. pc' \in {"false", "true", "element"} /\ offset' \in Nat
    BY <1>1, <1>5, Facts, SMT
  <1>12. TypeOK'
    BY <1>2, <1>9, <1>10, <1>11, SMT DEF ParseInv, TypeOK, source
  <1>13. InText(offset', pc', in', end', skipped')
    <2>1. CASE pc' = "false" /\ offset' = offset
      BY <1>2, <1>4, <2>1, Facts, SMT DEF InText
    <2>2. CASE pc' = "true" /\ offset' = first + 1
      BY <1>5, <2>2, Facts, SMT DEF InText
    <2>3. CASE pc' = "element" /\ offset' = first - 1
      BY <1>5, <1>6, <2>3, Facts, SMT DEF InText
    <2>. QED  BY <1>1, <2>1, <2>2, <2>3, Zenon
  <1>14. NestingBounded'
    <2>1. Len(stack) <= NestingLimit
      BY DEF ParseInv, NestingBounded
    <2>2. \/ stack' = stack /\ depth' = depth
          \/ Len(stack') = Len(stack) + 1 /\ depth' = depth + 1
      BY <1>1, <1>8
    <2>. QED  BY <1>1, <1>7, <1>8, <1>10, <2>1, <2>2, SMT DEF NestingBounded
  <1>15. pc' = "element" => stack' # <<>>
    BY <1>1, <1>8
  <1>. QED  BY <1>2, <1>7, <1>12, <1>13, <1>14, <1>15, SameText DEF ParseInv

\* The frames under the one on top, and that one.
LEMMA FirstFrames ==
    ASSUME NEW s \in Seq(Frame), Len(s) # 0
    PROVE  /\ SubSeq(s, 1, Len(s) - 1) \in Seq(Frame)
           /\ Len(SubSeq(s, 1, Len(s) - 1)) = Len(s) - 1
  <1>. DEFINE n == Len(s) - 1
              t == SubSeq(s, 1, n)
  <1>1. n \in Nat /\ n <= Len(s) /\ n \in Int /\ 1 \in Int
    OBVIOUS
  <1>2. \A i \in 1 .. n : s[i] \in Frame
    BY <1>1, Elements
  <1>. HIDE DEF n
  <1>3. t \in Seq(Frame) /\ Len(t) = IF 1 <= n THEN n - 1 + 1 ELSE 0
    BY <1>1, <1>2, SubSeqProperties
  <1>. HIDE DEF t
  <1>4. t \in Seq(Frame) /\ Len(t) = n
    BY <1>1, <1>3
  <1>. QED  BY <1>4 DEF n, t

LEMMA Frames ==
    ASSUME ParseInv, stack # <<>>
    PROVE  /\ Top \in Frame /\ Below \in Seq(Frame)
           /\ Len(stack) \in Nat \ {0} /\ Len(Below) = Len(stack) - 1
  <1>1. stack \in Seq(Frame)
    BY DEF ParseInv, TypeOK
  <1>2. Len(stack) \in Nat \ {0}
    BY <1>1, SMT
  <1>3. Top \in Frame
    BY <1>1, <1>2, Elements, SMT DEF Top
  <1>4. Below \in Seq(Frame) /\ Len(Below) = Len(stack) - 1
    BY <1>1, <1>2, FirstFrames DEF Below
  <1>. QED  BY <1>2, <1>3, <1>4

LEMMA AfterElementInv == ParseInv /\ AfterElement => ParseInv'
  <1>. SUFFICES ASSUME ParseInv, AfterElement PROVE ParseInv'
    OBVIOUS
  <1>. DEFINE next == Skip(offset)
  <1>1. /\ pc = "true" /\ stack # <<>>
        /\ UNCHANGED <<source, item, naming, in, end, skipped, output, room,
                       root, starved, str>>
        /\ \/ /\ Accessible(next)
              /\ node' = [node EXCEPT ![Top.item].type = Top.type,
                                      ![Top.item].child = Top.head]
              /\ depth' = depth - 1 /\ stack' = Below
              /\ offset' = next + 1 /\ pc' = pc
           \/ /\ \/ pc' = "element" /\ Accessible(next) /\ Char(next) = Comma
                 \/ pc' = "false"
              /\ offset' = next /\ UNCHANGED <<node, depth, stack>>
    BY DEF AfterElement, pass1, pass2
  <1>2. /\ next \in Nat
        /\ next < length \/ (next = length + 1 /\ next = offset)
    <2>1. offset \in 0 .. (length + 1)
      BY Facts, SMT DEF InText
    <2>. QED  BY <2>1, SkipPlace, SMT
  <1>. HIDE DEF next
  <1>3. depth = Len(stack)
    BY <1>1 DEF ParseInv, NestingBounded
  <1>4. /\ Top \in Frame /\ Below \in Seq(Frame) /\ stack \in Seq(Frame)
        /\ Len(stack) \in Nat \ {0} /\ Len(Below) = Len(stack) - 1
        /\ depth \in 0 .. NestingLimit /\ NestingLimit \in Nat
    BY <1>1, Frames, ParseAssumption DEF ParseInv, TypeOK
  <1>5. HeapOK'
    <2>1. Top.type \in Types /\ Top.head \in Items \cup {NULL} /\ Nodes(node)
      BY <1>4, HeapHere DEF Frame, Types
    <2>2. Nodes([node EXCEPT ![Top.item].type = Top.type,
                             ![Top.item].child = Top.head])
      BY <2>1, TwoChanges
    <2>3. Nodes(node')
      BY <1>1, <2>1, <2>2, Zenon
    <2>. QED  BY <1>1, <2>3, HeapHere, HeapIs
  <1>6. /\ stack' \in Seq(Frame) /\ depth' \in 0 .. NestingLimit
        /\ depth' = Len(stack') /\ Len(stack') <= NestingLimit
    BY <1>1, <1>3, <1>4, SMT
  <1>7. pc' \in {"true", "element", "false"} /\ offset' \in Nat
    BY <1>1, <1>2, SMT
  <1>8. TypeOK'
    BY <1>1, <1>5, <1>6, <1>7, SMT DEF ParseInv, TypeOK, source
  <1>9. InText(offset', pc', in', end', skipped')
    <2>1. CASE pc' = "true" /\ Accessible(next) /\ offset' = next + 1
      BY <1>2, <2>1, Facts, SMT DEF InText
    <2>2. CASE /\ pc' = "element" /\ Accessible(next) /\ Char(next) = Comma
               /\ offset' = next
      BY <1>2, <2>2, Facts, SMT DEF InText
    <2>3. CASE pc' = "false" /\ offset' = next
      BY <1>2, <2>3, Facts, SMT DEF InText
    <2>. QED  BY <1>1, <2>1, <2>2, <2>3, Zenon
  <1>10. NestingBounded'
    BY <1>6, SMT DEF NestingBounded
  <1>11. item' \in Items
    BY <1>1 DEF ParseInv
  <1>. QED  BY <1>1, <1>8, <1>9, <1>10, <1>11, SameText DEF ParseInv

LEMMA UnwindInv == ParseInv /\ Unwind => ParseInv'
  <1>. SUFFICES ASSUME ParseInv, Unwind PROVE ParseInv'
    OBVIOUS
  <1>1. /\ pc = "false" /\ stack # <<>> /\ stack' = Below
        /\ UNCHANGED <<source, pc, offset, depth, item, naming, in, end,
                       skipped, output, room, root, starved>>
    BY DEF Unwind, pass1, pass2
  <1>2. HeapOK'
    BY DeleteKeeps DEF Unwind, ParseInv, TypeOK
  <1>3. /\ Below \in Seq(Frame) /\ Len(Below) <= NestingLimit
    BY <1>1, Frames, ParseAssumption, SMT DEF ParseInv, NestingBounded
  <1>4. TypeOK'
    BY <1>1, <1>2, <1>3, SMT DEF ParseInv, TypeOK, source
  <1>5. InText(offset', pc', in', end', skipped')
    BY <1>1, Facts, SMT DEF InText
  <1>6. NestingBounded'
    BY <1>1, <1>3, SMT DEF NestingBounded
  <1>. QED  BY <1>1, <1>4, <1>5, <1>6, SameText DEF ParseInv

LEMMA FinishInv ==
    ASSUME ParseInv, NEW r \in BOOLEAN, Finish(r)
    PROVE  ParseInv'
  <1>1. /\ stack = <<>> /\ pc \in {"true", "false"} /\ pc' = "done"
        /\ UNCHANGED <<source, depth, stack, item, naming, in, end, skipped,
                       output, room, starved>>
        /\ offset' = offset \/ offset' = Skip(offset)
        /\ UNCHANGED <<heap, root>> \/ (cJSON_Delete(root) /\ root' = NULL)
    BY DEF Finish, pass1, pass2
  <1>2. /\ offset' \in Nat
        /\ offset' < length \/ offset' = offset
    <2>1. offset \in 0 .. (length + 1)
      BY Facts, SMT DEF InText
    <2>. QED  BY <1>1, <2>1, SkipPlace, SMT
  <1>3. HeapOK /\ HeapOK'
    BY <1>1, DeleteKeeps, HeapIs DEF ParseInv, TypeOK, heap
  <1>4. TypeOK'
    BY <1>1, <1>2, <1>3, SMT DEF ParseInv, TypeOK, source
  <1>5. InText(offset', pc', in', end', skipped')
    BY <1>1, <1>2, Facts, SMT DEF InText
  <1>6. NestingBounded'
    BY <1>1, SMT DEF ParseInv, NestingBounded
  <1>. QED  BY <1>1, <1>4, <1>5, <1>6, SameText DEF ParseInv

LEMMA NewElementInv == ParseInv /\ NewElement => ParseInv'
  <1>. SUFFICES ASSUME ParseInv, NewElement PROVE ParseInv'
    OBVIOUS
  <1>. DEFINE frame == [Top EXCEPT !.current = FreeItem,
                             !.head = IF Top.head = NULL THEN FreeItem ELSE @]
              fresh == [Cleared EXCEPT !.prev = Top.current]
              list  == With(node, FreeItem, fresh)
  <1>1. /\ pc = "element"
        /\ UNCHANGED <<source, depth, naming, in, end, skipped, output, room,
                       root, str>>
        /\ starved' \in BOOLEAN
        /\ \/ /\ ItemLeft
              /\ \/ node' = list
                 \/ node' = [list EXCEPT ![Top.current].next = FreeItem]
              /\ stack' = Append(Below, frame) /\ item' = FreeItem
              /\ offset' = Skip(offset + 1)
              /\ pc' \in {"value", "name"}
           \/ pc' = "false" /\ UNCHANGED <<node, stack, item, offset>>
    BY Zenon DEF NewElement, ParseInv, TypeOK, pass1, pass2
  <1>2. /\ Top \in Frame /\ Below \in Seq(Frame) /\ stack \in Seq(Frame)
        /\ Len(stack) \in Nat \ {0} /\ Len(Below) = Len(stack) - 1
    BY <1>1, Frames DEF ParseInv, TypeOK
  <1>3. ItemLeft => FreeItem \in Items
    BY HeapHere, FreeIs
  <1>4. depth = Len(stack) /\ Len(stack) <= NestingLimit
    BY <1>1 DEF ParseInv, NestingBounded
  <1>5. HeapOK'
    <2>1. Top.current \in Items \cup {NULL}
      BY <1>2 DEF Frame
    <2>2. fresh \in Item
      BY <2>1, ClearedIsItem, SMT DEF Item
    <2>3. ItemLeft => Nodes(list)
      BY <1>3, <2>2, HeapHere, NodesAdd
    <2>. HIDE DEF list
    <2>4. ItemLeft => Nodes([list EXCEPT ![Top.current].next = FreeItem])
      BY <1>3, <2>3, NodesChange
    <2>5. Nodes(node')
      BY <1>1, <2>3, <2>4, HeapHere, Zenon
    <2>. QED  BY <1>1, <2>5, HeapHere, HeapIs
  <1>6. ItemLeft => frame \in Frame
    <2>. DEFINE head == IF Top.head = NULL THEN FreeItem ELSE Top.head
    <2>1. ItemLeft => [Top EXCEPT !.current = FreeItem] \in Frame
      BY <1>2, <1>3, SMT DEF Frame
    <2>2. ItemLeft => head \in Items \cup {NULL}
      BY <1>2, <1>3 DEF Frame
    <2>3. \A f \in Frame, h \in Items \cup {NULL} : [f EXCEPT !.head = h] \in Frame
      BY SMT DEF Frame
    <2>4. frame = [[Top EXCEPT !.current = FreeItem] EXCEPT !.head = head]
      BY <1>2, SMT DEF Frame
    <2>. HIDE DEF head
    <2>. QED  BY <2>1, <2>2, <2>3, <2>4
  <1>. HIDE DEF frame, fresh, list
  <1>7. ItemLeft => /\ Append(Below, frame) \in Seq(Frame)
                    /\ Len(Append(Below, frame)) = Len(stack)
    BY <1>2, <1>6, SMT
  <1>8. stack' \in Seq(Frame) /\ Len(stack') = Len(stack)
    BY <1>1, <1>2, <1>7, Zenon
  <1>9. Skip(offset + 1) \in Nat /\ Skip(offset + 1) < length
    <2>1. offset + 1 \in 0 .. (length + 1) /\ offset + 1 # length + 1
      BY <1>1, Facts, SMT DEF InText
    <2>. QED  BY <2>1, SkipPlace, Zenon
  <1>10. TypeOK'
    BY <1>1, <1>3, <1>5, <1>8, <1>9, SMT DEF ParseInv, TypeOK, source
  <1>11. InText(offset', pc', in', end', skipped')
    BY <1>1, <1>9, Facts, SMT DEF InText
  <1>12. NestingBounded'
    BY <1>1, <1>4, <1>8, SMT DEF NestingBounded
  <1>13. item' \in Items /\ pc' # "element"
    BY <1>1, <1>3, SMT DEF ParseInv
  <1>. QED  BY <1>1, <1>10, <1>11, <1>12, <1>13, SameText DEF ParseInv

LEMMA StutterInv == ParseInv /\ UNCHANGED parseVars => ParseInv'
  <1>. SUFFICES ASSUME ParseInv, UNCHANGED parseVars PROVE ParseInv'
    OBVIOUS
  <1>1. UNCHANGED <<source, pc, offset, depth, stack, item, naming, in, end,
                    skipped, output, room, root, starved, heap>>
    BY DEF parseVars, place, pass1, pass2
  <1>2. HeapOK'
    BY <1>1, HeapIs DEF ParseInv, TypeOK, heap
  <1>3. TypeOK'
    BY <1>1, <1>2, SMT DEF ParseInv, TypeOK, source
  <1>4. InText(offset', pc', in', end', skipped')
    BY <1>1, Facts, SMT
  <1>5. NestingBounded'
    BY <1>1, SMT DEF ParseInv, NestingBounded
  <1>. QED  BY <1>1, <1>3, <1>4, <1>5, SameText DEF ParseInv

LEMMA StepInv == ParseInv /\ [ParseStep]_parseVars => ParseInv'
  <1>. SUFFICES ASSUME ParseInv, [ParseStep]_parseVars PROVE ParseInv'
    OBVIOUS
  <1>1. CASE Start
    BY <1>1, StartInv
  <1>2. CASE \E r \in BOOLEAN : Finish(r)
    BY <1>2, FinishInv
  <1>3. CASE Literal \/ parse_number \/ NoValue
    BY <1>3, LiteralInv, parse_numberInv, NoValueInv
  <1>4. CASE parse_string \/ Scan \/ Allocate
    BY <1>4, parse_stringInv, ScanInv, AllocateInv
  <1>5. CASE Decode \/ EndValue \/ EndName
    BY <1>5, DecodeInv, EndValueInv, EndNameInv
  <1>6. CASE Open \/ NewElement \/ AfterElement \/ Unwind
    BY <1>6, OpenInv, NewElementInv, AfterElementInv, UnwindInv
  <1>7. CASE UNCHANGED parseVars
    BY <1>7, StutterInv
  <1>. QED
    BY <1>1, <1>2, <1>3, <1>4, <1>5, <1>6, <1>7, Zenon DEF ParseStep, cJSON_Parse

LEMMA ParseInvariant == ParseSpec => []ParseInv
  BY InitInv, StepInv, PTL DEF ParseSpec

-----------------------------------------------------------------------------
(* Room for the output *)

\* How long what a unit stands for is.
LEMMA Utf8Length ==
    ASSUME NEW c \in Codepoints
    PROVE  /\ Len(Utf8(c)) \in 1 .. 4
           /\ c \in Words => Len(Utf8(c)) <= 3
  <1>1. CASE c < 128
    BY <1>1, SMT DEF Utf8
  <1>2. CASE ~(c < 128) /\ c < 2048
    BY <1>2, SMT DEF Utf8
  <1>3. CASE ~(c < 128) /\ ~(c < 2048) /\ c < 65536
    BY <1>3, SMT DEF Utf8
  <1>4. CASE ~(c < 128) /\ ~(c < 2048) /\ ~(c < 65536)
    <2>1. c \notin Words
      BY <1>4, SMT DEF Words, Codepoints
    <2>. QED  BY <1>4, <2>1, SMT DEF Utf8
  <1>. QED  BY <1>1, <1>2, <1>3, <1>4

LEMMA Literal16Length ==
    ASSUME end \in Nat, NEW p \in Nat
    PROVE  LET u == utf16_literal_to_utf8(p)
           IN  \/ u.length = 0
               \/ u.length = 6 /\ p + 6 <= end /\ Len(u.out) \in 1 .. 3
               \/ u.length = 12 /\ p + 12 <= end /\ Len(u.out) \in 1 .. 4
  <1>. DEFINE first   == parse_hex4(p + 2)
              second  == parse_hex4(p + 8)
              pair    == 65536 + (first % 1024) * 1024 + (second % 1024)
              nothing == [out |-> <<>>, length |-> 0]
              one     == [out |-> Utf8(first), length |-> 6]
              both    == [out |-> Utf8(pair), length |-> 12]
  <1>1. first \in Words /\ second \in Words
    BY Hex4
  <1>2. first \in Codepoints /\ pair \in Codepoints
    <2>. HIDE DEF first, second
    <2>. QED  BY <1>1, SMT DEF Words, Codepoints
  <1>. HIDE DEF first, second, pair
  <1>3. Len(Utf8(first)) \in 1 .. 3 /\ Len(Utf8(pair)) \in 1 .. 4
    BY <1>1, <1>2, Utf8Length, SMT
  <1>4. /\ nothing.length = 0
        /\ one.length = 6 /\ Len(one.out) \in 1 .. 3
        /\ both.length = 12 /\ Len(both.out) \in 1 .. 4
    BY <1>3, SMT
  <1>. HIDE DEF nothing, one, both
  <1>5. \/ utf16_literal_to_utf8(p) = nothing
        \/ end - p >= 6 /\ utf16_literal_to_utf8(p) = one
        \/ end - p >= 12 /\ utf16_literal_to_utf8(p) = both
    BY SMT DEF utf16_literal_to_utf8, first, second, pair, nothing, one, both
  <1>. QED  BY <1>4, <1>5, SMT

\* A unit is one character as it is, an escape of two, or one or two \u.
LEMMA UnitLength ==
    ASSUME end \in Nat, NEW p \in Nat
    PROVE  LET u == Unit(p)
           IN  \/ u.length = 0
               \/ u.length = 1 /\ Char(p) # Backslash /\ Len(u.out) = 1
               \/ u.length = 2 /\ Len(u.out) = 1
               \/ u.length = 6 /\ p + 6 <= end /\ Len(u.out) \in 1 .. 3
               \/ u.length = 12 /\ p + 12 <= end /\ Len(u.out) \in 1 .. 4
  <1>1. CASE Char(p) # Backslash
    <2>1. Unit(p) = [out |-> <<Char(p)>>, length |-> 1]
      BY <1>1 DEF Unit
    <2>. QED  BY <1>1, <2>1, SMT
  <1>2. CASE Char(p) = Backslash /\ Char(p + 1) = 117
    <2>1. Unit(p) = utf16_literal_to_utf8(p)
      BY <1>2 DEF Unit
    <2>. QED  BY <2>1, Literal16Length, SMT
  <1>3. CASE Char(p) = Backslash /\ Char(p + 1) # 117
    <2>. DEFINE e == CHOOSE i \in DOMAIN Escapes : Escapes[i] = Char(p + 1)
    <2>1. \/ Unit(p) = [out |-> <<Escaped[e]>>, length |-> 2]
          \/ Unit(p) = [out |-> <<>>, length |-> 0]
      BY <1>3 DEF Unit
    <2>. QED  BY <2>1, SMT
  <1>. QED  BY <1>1, <1>2, <1>3

\* The first loop, told by what it has made room for: w[p] bytes for the
\* characters from the opening quote, at o, up to p.  It makes none for some
\* of the backslashes, and never for two characters in a row none.
Budget(w, o, e) ==
    /\ w \in [Nat -> Nat]
    /\ w[o + 1] = 0
    /\ \A p \in (o + 1) .. (e - 1) :
        /\ w[p + 1] \in w[p] .. (w[p] + 1)
        /\ Char(p) # Backslash => w[p + 1] = w[p] + 1
        /\ p + 2 <= e => w[p + 2] >= w[p] + 1

\* While the first loop runs, its estimate is what it has made room for; the
\* second stays within it, an escape that takes in the quote apart.
Scanned(w, o, e, s) ==
    /\ Budget(w, o, e)
    /\ o + 1 <= e
    /\ w[e] = (e - (o + 1)) - s
    /\ e # o + 1 => w[e] = w[e - 1] + 1

Decoded(w, o, i, e, n, r) ==
    /\ Budget(w, o, e)
    /\ o + 1 <= i /\ o + 1 <= e
    /\ r = w[e] + 2
    /\ n <= IF i <= e THEN w[i] ELSE w[e] + 1

RoomInv ==
    /\ output # NULL => pc = "decode"
    /\ pc = "scan" => \E w : Scanned(w, offset, end, skipped)
    /\ pc = "decode" =>
         /\ output \in DOMAIN str
         /\ \E w : Decoded(w, offset, in, end, Len(str[output]), room)

LEMMA SameBudget ==
    ASSUME UNCHANGED source, UNCHANGED offset, NEW w
    PROVE  Budget(w, offset, end)' <=> Budget(w, offset, end')
  BY DEF Budget, source, Char

\* Room for k characters from p on.
LEMMA BudgetGrows ==
    ASSUME NEW o \in Nat, NEW e \in Nat, NEW w, Budget(w, o, e),
           NEW p \in (o + 1) .. e
    PROVE  /\ p + 1 <= e => w[p + 1] >= w[p]
           /\ p + 1 <= e /\ Char(p) # Backslash => w[p + 1] = w[p] + 1
           /\ p + 2 <= e => w[p + 2] >= w[p] + 1
           /\ p + 6 <= e => w[p + 6] >= w[p] + 3
           /\ p + 12 <= e => w[p + 12] >= w[p] + 6
  <1>1. \A q \in (o + 1) .. (e - 1) :
          /\ w[q + 1] \in w[q] .. (w[q] + 1)
          /\ Char(q) # Backslash => w[q + 1] = w[q] + 1
    BY DEF Budget
  <1>2. \A q \in Nat : w[q] \in Nat
    BY DEF Budget
  <1>3. \A q \in (o + 1) .. e : q + 2 <= e => w[q + 2] >= w[q] + 1
    BY SMT DEF Budget
  <1>4. \A q \in (o + 1) .. e : q + 6 <= e => w[q + 6] >= w[q] + 3
    <2>. TAKE q \in (o + 1) .. e
    <2>. SUFFICES ASSUME q + 6 <= e PROVE w[q + 6] >= w[q] + 3
      OBVIOUS
    <2>1. w[q + 2] >= w[q] + 1 /\ w[q + 4] >= w[q + 2] + 1
          /\ w[q + 6] >= w[q + 4] + 1
      <3>1. q + 2 + 2 = q + 4 /\ q + 4 + 2 = q + 6
        BY SMT
      <3>2. q + 2 \in (o + 1) .. e /\ q + 4 \in (o + 1) .. e
            /\ q + 2 <= e /\ q + 2 + 2 <= e /\ q + 4 + 2 <= e
        BY SMT
      <3>3. w[q + 2] >= w[q] + 1 /\ w[q + 2 + 2] >= w[q + 2] + 1
            /\ w[q + 4 + 2] >= w[q + 4] + 1
        BY <3>2, <1>3, Zenon
      <3>. QED  BY <3>1, <3>3, Zenon
    <2>. QED  BY <2>1, <1>2, SMT
  <1>5. p + 12 <= e => w[p + 12] >= w[p] + 6
    <2>. SUFFICES ASSUME p + 12 <= e PROVE w[p + 12] >= w[p] + 6
      OBVIOUS
    <2>1. p + 6 + 6 = p + 12 /\ p + 6 \in (o + 1) .. e /\ p + 6 <= e
      BY SMT
    <2>2. w[p + 6] >= w[p] + 3 /\ w[p + 6 + 6] >= w[p + 6] + 3
      BY <2>1, <1>4, Zenon
    <2>3. w[p + 12] >= w[p + 6] + 3
      BY <2>1, <2>2, Zenon
    <2>4. w[p] \in Nat /\ w[p + 6] \in Nat /\ w[p + 12] \in Nat
      BY <1>2, SMT
    <2>. QED  BY <2>2, <2>3, <2>4, SMT
  <1>6. p + 1 <= e => p \in (o + 1) .. (e - 1)
    BY SMT
  <1>. QED  BY <1>1, <1>2, <1>3, <1>4, <1>5, <1>6, SMT

LEMMA ScanRoom == ParseInv /\ RoomInv /\ Scan => RoomInv'
  <1>. SUFFICES ASSUME ParseInv, RoomInv, Scan PROVE RoomInv'
    OBVIOUS
  <1>1. /\ UNCHANGED <<source, pc, offset, in, output, room>> /\ pc = "scan"
        /\ \/ /\ Char(end) = Backslash
              /\ end' = end + 2 /\ skipped' = skipped + 1
           \/ /\ Char(end) # Backslash
              /\ end' = end + 1 /\ skipped' = skipped
    BY Zenon DEF Scan, place, pass2
  <1>2. PICK w : Scanned(w, offset, end, skipped)
    BY <1>1 DEF RoomInv
  <1>. DEFINE o == offset
              e == end
  <1>3. /\ o \in Nat /\ e \in Nat /\ o + 1 <= e /\ skipped \in Nat
        /\ w \in [Nat -> Nat] /\ w[o + 1] = 0
        /\ w[e] = (e - (o + 1)) - skipped
        /\ e # o + 1 => w[e] = w[e - 1] + 1
        /\ \A p \in (o + 1) .. (e - 1) :
            /\ w[p + 1] \in w[p] .. (w[p] + 1)
            /\ Char(p) # Backslash => w[p + 1] = w[p] + 1
            /\ p + 2 <= e => w[p + 2] >= w[p] + 1
    BY <1>1, <1>2, Facts DEF Scanned, Budget
  <1>. DEFINE v == [w EXCEPT ![e + 1] = w[e], ![e + 2] = w[e] + 1]
              u == [w EXCEPT ![e + 1] = w[e] + 1]
  <1>4. CASE /\ Char(end) = Backslash
             /\ end' = end + 2 /\ skipped' = skipped + 1
    <2>1. /\ v \in [Nat -> Nat]
          /\ \A p \in 0 .. e : v[p] = w[p]
          /\ v[e + 1] = w[e] /\ v[e + 2] = w[e] + 1
      BY <1>3, SMT
    <2>2. w[e] \in Nat /\ \A p \in Nat : w[p] \in Nat
      BY <1>3
    <2>. HIDE DEF v
    <2>3. ASSUME NEW p \in (o + 1) .. ((e + 2) - 1)
          PROVE  /\ v[p + 1] \in v[p] .. (v[p] + 1)
                 /\ Char(p) # Backslash => v[p + 1] = v[p] + 1
                 /\ p + 2 <= e + 2 => v[p + 2] >= v[p] + 1
      <3>1. CASE p \in (o + 1) .. (e - 2)
        <4>1. /\ p + 1 \in 0 .. e /\ p + 2 \in 0 .. e /\ p \in 0 .. e
              /\ p \in (o + 1) .. (e - 1)
          BY <3>1, <1>3, SMT
        <4>. QED  BY <4>1, <2>1, <1>3, SMT
      <3>2. CASE p = e - 1 /\ p \in (o + 1) .. (e - 1)
        <4>1. p + 1 = e /\ p + 2 = e + 1 /\ p \in 0 .. e /\ e # o + 1
              /\ e \in 0 .. e
          BY <3>2, <1>3, SMT
        <4>. QED  BY <4>1, <3>2, <2>1, <2>2, <1>3, SMT
      <3>3. CASE p = e
        <4>1. p \in 0 .. e
          BY <3>3, <1>3, SMT
        <4>. QED  BY <4>1, <3>3, <2>1, <2>2, <1>4, SMT
      <3>4. CASE p = e + 1
        <4>1. Nul # Backslash /\ e + 1 + 1 = e + 2 /\ ~(e + 1 + 2 <= e + 2)
          BY <1>3, SMT DEF Nul, Backslash
        <4>. QED  BY <4>1, <3>4, <2>1, <2>2, SMT
      <3>. QED  BY <3>1, <3>2, <3>3, <3>4, <1>3, SMT
    <2>4. v[o + 1] = 0
      BY <1>3, <2>1, SMT
    <2>5. Budget(v, o, e + 2)
      BY <2>1, <2>3, <2>4, Zenon DEF Budget
    <2>6. /\ v[e + 2] = ((e + 2) - (o + 1)) - (skipped + 1)
          /\ e + 2 # o + 1 /\ v[e + 2] = v[(e + 2) - 1] + 1
          /\ o + 1 <= e + 2
      BY <1>3, <2>1, SMT
    <2>7. Scanned(v, o, e + 2, skipped + 1)
      BY <2>5, <2>6, Zenon DEF Scanned
    <2>8. PICK x : Scanned(x, offset, e + 2, skipped + 1)
      BY <2>7
    <2>9. Scanned(x, offset, end, skipped)'
      BY <1>1, <1>4, <2>8, SameBudget, Zenon DEF Scanned
    <2>. QED  BY <1>1, <2>9, Zenon DEF RoomInv
  <1>5. CASE /\ Char(end) # Backslash
             /\ end' = end + 1 /\ skipped' = skipped
    <2>1. /\ u \in [Nat -> Nat]
          /\ \A p \in 0 .. e : u[p] = w[p]
          /\ u[e + 1] = w[e] + 1
      BY <1>3, SMT
    <2>2. w[e] \in Nat /\ \A p \in Nat : w[p] \in Nat
      BY <1>3
    <2>. HIDE DEF u
    <2>3. ASSUME NEW p \in (o + 1) .. ((e + 1) - 1)
          PROVE  /\ u[p + 1] \in u[p] .. (u[p] + 1)
                 /\ Char(p) # Backslash => u[p + 1] = u[p] + 1
                 /\ p + 2 <= e + 1 => u[p + 2] >= u[p] + 1
      <3>1. CASE p \in (o + 1) .. (e - 2)
        <4>1. /\ p + 1 \in 0 .. e /\ p + 2 \in 0 .. e /\ p \in 0 .. e
              /\ p \in (o + 1) .. (e - 1)
          BY <3>1, <1>3, SMT
        <4>. QED  BY <4>1, <2>1, <1>3, SMT
      <3>2. CASE p = e - 1 /\ p \in (o + 1) .. (e - 1)
        <4>1. p + 1 = e /\ p + 2 = e + 1 /\ p \in 0 .. e /\ e # o + 1
              /\ e \in 0 .. e
          BY <3>2, <1>3, SMT
        <4>. QED  BY <4>1, <3>2, <2>1, <2>2, <1>3, SMT
      <3>3. CASE p = e
        <4>1. p \in 0 .. e
          BY <3>3, <1>3, SMT
        <4>. QED  BY <4>1, <3>3, <2>1, <2>2, <1>3, SMT
      <3>. QED  BY <3>1, <3>2, <3>3, <1>3, SMT
    <2>4. u[o + 1] = 0
      BY <1>3, <2>1, SMT
    <2>5. Budget(u, o, e + 1)
      BY <2>1, <2>3, <2>4, Zenon DEF Budget
    <2>6. /\ u[e + 1] = ((e + 1) - (o + 1)) - skipped
          /\ u[e + 1] = u[(e + 1) - 1] + 1
          /\ o + 1 <= e + 1
      BY <1>3, <2>1, SMT
    <2>7. Scanned(u, o, e + 1, skipped)
      BY <2>5, <2>6, Zenon DEF Scanned
    <2>8. PICK x : Scanned(x, offset, e + 1, skipped)
      BY <2>7
    <2>9. Scanned(x, offset, end, skipped)'
      BY <1>1, <1>5, <2>8, SameBudget, Zenon DEF Scanned
    <2>. QED  BY <1>1, <2>9, Zenon DEF RoomInv
  <1>. QED  BY <1>1, <1>4, <1>5

LEMMA parse_stringRoom == ParseInv /\ RoomInv /\ parse_string => RoomInv'
  <1>. SUFFICES ASSUME ParseInv, RoomInv, parse_string PROVE RoomInv'
    OBVIOUS
  <1>1. /\ pc \in {"value", "name"}
        /\ UNCHANGED <<source, output>>
        /\ \/ /\ pc' = "scan" /\ end' = offset + 1 /\ skipped' = 0
              /\ UNCHANGED offset
           \/ pc' = "false"
    BY DEF parse_string
  <1>2. output = NULL
    BY <1>1, SMT DEF RoomInv
  <1>3. CASE pc' = "false"
    BY <1>1, <1>2, <1>3, SMT DEF RoomInv
  <1>4. CASE /\ pc' = "scan" /\ end' = offset + 1 /\ skipped' = 0
             /\ UNCHANGED offset
    <2>. DEFINE v == [p \in Nat |-> 0]
    <2>1. offset \in Nat
      BY Facts
    <2>2. Budget(v, offset, offset + 1)
      BY <2>1, SMT DEF Budget
    <2>3. v[offset + 1] = 0
      BY <2>1
    <2>4. Scanned(v, offset, offset + 1, 0)
      <3>. HIDE DEF v
      <3>. QED  BY <2>1, <2>2, <2>3, SMT DEF Scanned
    <2>5. PICK x : Scanned(x, offset, offset + 1, 0)
      BY <2>4
    <2>6. Scanned(x, offset, end, skipped)'
      BY <1>1, <1>4, <2>5, SameBudget, Zenon DEF Scanned
    <2>. QED  BY <1>1, <1>2, <1>4, <2>6, Zenon DEF RoomInv
  <1>. QED  BY <1>1, <1>3, <1>4

LEMMA AllocateRoom == ParseInv /\ RoomInv /\ Allocate => RoomInv'
  <1>. SUFFICES ASSUME ParseInv, RoomInv, Allocate PROVE RoomInv'
    OBVIOUS
  <1>1. /\ UNCHANGED <<source, end, skipped, in>> /\ pc = "scan"
        /\ \/ /\ output' = FreeString /\ str' = With(str, FreeString, <<>>)
              /\ room' = (end - offset) - skipped + 1
              /\ pc' = "decode" /\ UNCHANGED offset
           \/ pc' = "false" /\ UNCHANGED output
    BY Zenon DEF Allocate, pass1
  <1>2. output = NULL
    BY <1>1, SMT DEF RoomInv
  <1>3. CASE pc' = "false" /\ UNCHANGED output
    BY <1>2, <1>3, SMT DEF RoomInv
  <1>4. CASE /\ output' = FreeString /\ str' = With(str, FreeString, <<>>)
             /\ room' = (end - offset) - skipped + 1
             /\ pc' = "decode" /\ UNCHANGED offset
    <2>1. output' \in DOMAIN str' /\ Len(str'[output']) = 0
      BY <1>4, SMT DEF With
    <2>2. PICK w : Scanned(w, offset, end, skipped)
      BY <1>1 DEF RoomInv
    <2>3. offset \in Nat /\ end \in Nat /\ skipped \in Nat /\ in = offset + 1
      BY <1>1, Facts DEF InText
    <2>4. /\ w \in [Nat -> Nat] /\ w[offset + 1] = 0 /\ offset + 1 <= end
          /\ w[end] = (end - (offset + 1)) - skipped
      BY <2>2 DEF Scanned, Budget
    <2>5. Decoded(w, offset, in, end, 0, (end - offset) - skipped + 1)
      <3>1. Budget(w, offset, end)
        BY <2>2 DEF Scanned
      <3>. QED  BY <2>3, <2>4, <3>1, SMT DEF Decoded
    <2>6. Decoded(w, offset, in, end, Len(str[output]), room)'
      BY <1>1, <1>4, <2>1, <2>5, SameBudget, Zenon DEF Decoded
    <2>. QED  BY <1>4, <2>1, <2>6, Zenon DEF RoomInv
  <1>. QED  BY <1>1, <1>3, <1>4

LEMMA DecodeRoom == ParseInv /\ RoomInv /\ Decode => RoomInv'
  <1>. SUFFICES ASSUME ParseInv, RoomInv, Decode PROVE RoomInv'
    OBVIOUS
  <1>. DEFINE size  == Unit(in).length
              bytes == Unit(in).out
  <1>1. pc = "decode" /\ in < end
    BY DEF Decode
  <1>2. /\ UNCHANGED <<source, end>>
        /\ \/ /\ size > 0
              /\ str' = [str EXCEPT ![output] = @ \o bytes]
              /\ in' = in + size /\ UNCHANGED <<pc, offset, output, room>>
           \/ output' = NULL /\ pc' = "false"
    BY DEF Decode, pass1
  <1>3. CASE output' = NULL /\ pc' = "false"
    BY <1>3, SMT DEF RoomInv
  <1>4. CASE /\ size > 0
             /\ str' = [str EXCEPT ![output] = @ \o bytes]
             /\ in' = in + size /\ UNCHANGED <<pc, offset, output, room>>
    <2>1. output \in DOMAIN str /\ Strs(str)
      BY <1>1, HeapHere DEF RoomInv
    <2>2. PICK w : Decoded(w, offset, in, end, Len(str[output]), room)
      BY <1>1 DEF RoomInv
    <2>3. /\ offset \in Nat /\ end \in Nat /\ in \in Nat
          /\ in \in (offset + 1) .. end
      BY <1>1, <2>2, Facts, SMT DEF Decoded
    <2>4. /\ size \in Nat /\ in + size <= end + 1 /\ bytes \in Text
      BY <1>1, Units, Facts DEF Text
    <2>5. \/ size = 1 /\ Char(in) # Backslash /\ Len(bytes) = 1
          \/ size = 2 /\ Len(bytes) = 1
          \/ size = 6 /\ in + 6 <= end /\ Len(bytes) \in 1 .. 3
          \/ size = 12 /\ in + 12 <= end /\ Len(bytes) \in 1 .. 4
      <3>1. size # 0
        BY <1>4, SMT
      <3>. QED  BY <2>3, <3>1, UnitLength, Zenon
    <2>6. str[output] \in Text
      BY <2>1 DEF Strs
    <2>. HIDE DEF size, bytes
    <2>7. /\ output \in DOMAIN str'
          /\ Len(str'[output]) = Len(str[output]) + Len(bytes)
      <3>1. DOMAIN str' = DOMAIN str /\ str'[output] = str[output] \o bytes
        BY <1>4, <2>1 DEF Strs
      <3>2. Len(str[output] \o bytes) = Len(str[output]) + Len(bytes)
        BY <2>4, <2>6 DEF Text
      <3>. QED  BY <2>1, <3>1, <3>2
    <2>8. /\ Budget(w, offset, end) /\ room = w[end] + 2
          /\ Len(str[output]) <= w[in]
      BY <1>1, <2>2, <2>3, SMT DEF Decoded
    <2>9. /\ in + 1 <= end => w[in + 1] >= w[in]
          /\ in + 1 <= end /\ Char(in) # Backslash => w[in + 1] = w[in] + 1
          /\ in + 2 <= end => w[in + 2] >= w[in] + 1
          /\ in + 6 <= end => w[in + 6] >= w[in] + 3
          /\ in + 12 <= end => w[in + 12] >= w[in] + 6
      BY <2>3, <2>8, BudgetGrows
    <2>10. \A p \in Nat : w[p] \in Nat
      BY <2>8 DEF Budget
    <2>11. Len(str[output]) + Len(bytes) <=
             IF in + size <= end THEN w[in + size] ELSE w[end] + 1
      <3>1. /\ w[in] \in Nat /\ Len(str[output]) \in Nat /\ w[end] \in Nat
            /\ w[in + 1] \in Nat /\ w[in + 2] \in Nat /\ w[in + 6] \in Nat
            /\ w[in + 12] \in Nat
        BY <2>3, <2>6, <2>10, SMT DEF Text
      <3>a. Len(str[output]) <= w[in] /\ in \in Nat /\ end \in Nat
        BY <2>3, <2>8
      <3>2. CASE size = 1 /\ Char(in) # Backslash /\ Len(bytes) = 1
        <4>1. in + 1 <= end /\ w[in + 1] = w[in] + 1
          BY <3>2, <1>1, <2>9, <3>a, SMT
        <4>2. Len(str[output]) + 1 <= w[in + 1]
          BY <4>1, <3>1, <3>a, SMT
        <4>. QED  BY <3>2, <4>1, <4>2, Zenon
      <3>3. CASE size = 2 /\ Len(bytes) = 1 /\ in + 2 <= end
        <4>1. Len(str[output]) + 1 <= w[in + 2]
          BY <3>1, <3>3, <3>a, <2>9, SMT
        <4>. QED  BY <3>3, <4>1, Zenon
      <3>4. CASE size = 2 /\ Len(bytes) = 1 /\ ~(in + 2 <= end)
        <4>1. in + 1 = end
          BY <3>4, <1>1, <3>a, SMT
        <4>2. w[in] <= w[end]
          BY <4>1, <2>9, <3>a
        <4>3. Len(str[output]) + 1 <= w[end] + 1
          BY <3>1, <4>2, <3>a, SMT
        <4>. QED  BY <3>4, <4>3, Zenon
      <3>5. CASE size = 6 /\ in + 6 <= end /\ Len(bytes) \in 1 .. 3
        <4>0. w[in + 6] >= w[in] + 3 /\ w[in + 6] \in Nat
          BY <3>1, <3>5, <2>9, Zenon
        <4>1. Len(str[output]) + Len(bytes) <= w[in + 6]
          <5>1. \A x, y, z \in Nat : \A l \in 1 .. 3 :
                  x <= y /\ z >= y + 3 => x + l <= z
            BY SMT
          <5>. QED  BY <4>0, <3>1, <3>5, <3>a, <5>1, Zenon
        <4>. QED  BY <3>5, <4>1, Zenon
      <3>6. CASE size = 12 /\ in + 12 <= end /\ Len(bytes) \in 1 .. 4
        <4>0. w[in + 12] >= w[in] + 6 /\ w[in + 12] \in Nat
          BY <3>1, <3>6, <2>9, Zenon
        <4>1. Len(str[output]) + Len(bytes) <= w[in + 12]
          <5>1. \A x, y, z \in Nat : \A l \in 1 .. 4 :
                  x <= y /\ z >= y + 6 => x + l <= z
            BY SMT
          <5>. QED  BY <4>0, <3>1, <3>6, <3>a, <5>1, Zenon
        <4>. QED  BY <3>6, <4>1, Zenon
      <3>. QED  BY <2>5, <3>2, <3>3, <3>4, <3>5, <3>6, Zenon
    <2>12. offset + 1 <= in + size /\ offset + 1 <= end
      BY <1>1, <2>3, <2>4, SMT
    <2>13. Decoded(w, offset, in + size, end, Len(str[output]) + Len(bytes), room)
      BY <2>8, <2>11, <2>12, Zenon DEF Decoded
    <2>14. Decoded(w, offset, in, end, Len(str[output]), room)'
      BY <1>2, <1>4, <2>7, <2>13, SameBudget, Zenon DEF Decoded
    <2>. QED  BY <1>1, <1>4, <2>7, <2>14, Zenon DEF RoomInv
  <1>. QED  BY <1>2, <1>3, <1>4

\* The other steps are taken with no output, or leave none.
LEMMA OtherRoom ==
    ASSUME ParseInv, RoomInv,
           \/ Start \/ (\E r \in BOOLEAN : Finish(r))
           \/ Literal \/ parse_number \/ NoValue \/ EndValue \/ EndName
           \/ Open \/ NewElement \/ AfterElement \/ Unwind
    PROVE  RoomInv'
  <1>1. output' = NULL \/ (pc \notin {"scan", "decode"} /\ UNCHANGED output)
    BY DEF Start, Finish, Literal, parse_number, NoValue, EndValue, EndName,
           Open, NewElement, AfterElement, Unwind, pass2
  <1>2. output' = NULL
    BY <1>1, SMT DEF RoomInv
  <1>3. pc' \notin {"scan", "decode"}
    BY DEF Start, Finish, Literal, parse_number, NoValue, EndValue, EndName,
           Open, NewElement, AfterElement, Unwind
  <1>. QED  BY <1>2, <1>3, SMT DEF RoomInv

LEMMA StutterRoom == RoomInv /\ UNCHANGED parseVars => RoomInv'
  <1>. SUFFICES ASSUME RoomInv, UNCHANGED parseVars PROVE RoomInv'
    OBVIOUS
  <1>1. UNCHANGED <<source, pc, offset, in, end, skipped, output, room, str>>
    BY DEF parseVars, place, pass1, pass2, heap
  <1>2. \A w : /\ Scanned(w, offset, end, skipped)' <=>
                    Scanned(w, offset, end, skipped)
               /\ Decoded(w, offset, in, end, Len(str[output]), room)' <=>
                    Decoded(w, offset, in, end, Len(str[output]), room)
    <2>. TAKE w
    <2>1. Budget(w, offset, end)' <=> Budget(w, offset, end)
      BY <1>1, SameBudget, Zenon
    <2>. QED  BY <1>1, <2>1, Zenon DEF Scanned, Decoded
  <1>3. /\ (\E w : Scanned(w, offset, end, skipped))'
             <=> \E w : Scanned(w, offset, end, skipped)
        /\ (\E w : Decoded(w, offset, in, end, Len(str[output]), room))'
             <=> \E w : Decoded(w, offset, in, end, Len(str[output]), room)
    BY <1>2
  <1>4. pc' = pc /\ output' = output /\ str' = str
    BY <1>1
  <1>. QED  BY <1>3, <1>4 DEF RoomInv

LEMMA StepRoom == ParseInv /\ RoomInv /\ [ParseStep]_parseVars => RoomInv'
  <1>. SUFFICES ASSUME ParseInv, RoomInv, [ParseStep]_parseVars PROVE RoomInv'
    OBVIOUS
  <1>1. CASE \/ Start \/ (\E r \in BOOLEAN : Finish(r))
             \/ Literal \/ parse_number \/ NoValue \/ EndValue \/ EndName
             \/ Open \/ NewElement \/ AfterElement \/ Unwind
    BY <1>1, OtherRoom, Zenon
  <1>2. CASE parse_string \/ Scan \/ Allocate \/ Decode
    BY <1>2, parse_stringRoom, ScanRoom, AllocateRoom, DecodeRoom
  <1>3. CASE UNCHANGED parseVars
    BY <1>3, StutterRoom
  <1>. QED  BY <1>1, <1>2, <1>3, Zenon DEF ParseStep, cJSON_Parse

LEMMA RoomFits == ParseInv /\ RoomInv => OutputFits
  <1>. SUFFICES ASSUME ParseInv, RoomInv, output # NULL
                PROVE  Len(str[output]) + 1 <= room
    BY DEF OutputFits
  <1>1. pc = "decode" /\ output \in DOMAIN str
    BY DEF RoomInv
  <1>2. PICK w : Decoded(w, offset, in, end, Len(str[output]), room)
    BY <1>1 DEF RoomInv
  <1>3. /\ offset \in Nat /\ end \in Nat /\ in \in Nat /\ str[output] \in Text
        /\ in <= end + 1
    BY <1>1, Facts, HeapHere DEF InText, Strs
  <1>4. /\ Budget(w, offset, end) /\ room = w[end] + 2 /\ w[end] \in Nat
        /\ offset + 1 <= in /\ w[in] \in Nat /\ Len(str[output]) \in Nat
        /\ Len(str[output]) <= IF in <= end THEN w[in] ELSE w[end] + 1
    <2>1. /\ Budget(w, offset, end) /\ room = w[end] + 2 /\ offset + 1 <= in
          /\ Len(str[output]) <= IF in <= end THEN w[in] ELSE w[end] + 1
      BY <1>2, Zenon DEF Decoded
    <2>2. w \in [Nat -> Nat]
      BY <2>1 DEF Budget
    <2>3. Len(str[output]) \in Nat
      BY <1>3 DEF Text
    <2>. QED  BY <1>3, <2>1, <2>2, <2>3, Zenon
  <1>5. \A p \in (offset + 1) .. (end - 1) : w[p] <= w[p + 1]
    <2>1. \A p \in Nat : w[p] \in Nat
      BY <1>4 DEF Budget
    <2>. QED  BY <1>3, <1>4, <2>1, SMT DEF Budget
  <1>6. in <= end => w[in] <= w[end]
    <2>. SUFFICES ASSUME in <= end, ~(w[in] <= w[end]) PROVE FALSE
      OBVIOUS
    <2>. DEFINE S == {d \in 0 .. (end - in) : w[in] <= w[end - d]}
    <2>1. S \in SUBSET Nat /\ end - in \in S
      <3>1. end - (end - in) = in /\ end - in \in 0 .. (end - in)
        BY <1>3, SMT
      <3>. QED  BY <3>1, <1>4, SMT
    <2>2. PICK d \in S : \A y \in S : d <= y
      BY <2>1, Least
    <2>3. d \in 0 .. (end - in) /\ w[in] <= w[end - d] /\ d # 0
      BY <2>2, <1>3, SMT
    <2>4. /\ end - d \in (offset + 1) .. (end - 1) /\ d - 1 \in 0 .. (end - in)
          /\ end - d + 1 = end - (d - 1) /\ end - d \in Nat /\ end - (d - 1) \in Nat
      BY <2>3, <1>3, <1>4, SMT
    <2>5. w[end - d] <= w[end - (d - 1)]
      BY <2>4, <1>5, Zenon
    <2>6. w[end - d] \in Nat /\ w[end - (d - 1)] \in Nat
      BY <2>4, <1>4 DEF Budget
    <2>7. d - 1 \in S
      BY <2>3, <2>4, <2>5, <2>6, <1>4, SMT
    <2>. HIDE DEF S
    <2>. QED  BY <2>2, <2>3, <2>7, <1>3, SMT
  <1>. QED  BY <1>3, <1>4, <1>6, SMT

-----------------------------------------------------------------------------
(* What is reached from an item *)

\* Following, of any heap.
Goes(n, j) == {n[j].next, IF n[j].reference THEN NULL ELSE n[j].child} \ {NULL}

\* Every item followed is there.
Closed(n) == IsFiniteSet(DOMAIN n) /\ \A j \in DOMAIN n : Goes(n, j) \subseteq DOMAIN n

\* w is what is reached from a in so many steps.
Spreads(a, n, w) ==
    w = [k \in Nat |-> IF k = 0 THEN {a}
                       ELSE w[k - 1] \cup
                            UNION {Goes(n, j) : j \in w[k - 1] \cap DOMAIN n}]

ReachedOf(n, i) ==
    IF i = NULL THEN {}
    ELSE (CHOOSE w : Spreads(i, n, w))[Cardinality(DOMAIN n)]

LEMMA ReachedIsThat ==
    /\ \A i : Reached(i) = ReachedOf(node, i)
    /\ \A i : Reached(i)' = ReachedOf(node', i)
    /\ \A i : Following(i) = Goes(node, i) /\ Following(i)' = Goes(node', i)
  BY Zenon DEF Reached, ReachedOf, Spreads, Following, Goes

LEMMA SpreadIs ==
    ASSUME NEW a, NEW n, NEW w, Spreads(a, n, w)
    PROVE  /\ w[0] = {a}
           /\ \A k \in Nat :
                w[k + 1] = w[k] \cup UNION {Goes(n, j) : j \in w[k] \cap DOMAIN n}
  <1>1. \A k \in Nat : w[k] = IF k = 0 THEN {a}
                              ELSE w[k - 1] \cup
                                   UNION {Goes(n, j) : j \in w[k - 1] \cap DOMAIN n}
    BY DEF Spreads
  <1>2. ASSUME NEW k \in Nat
        PROVE  w[k + 1] = w[k] \cup UNION {Goes(n, j) : j \in w[k] \cap DOMAIN n}
    <2>1. k + 1 \in Nat /\ k + 1 # 0 /\ (k + 1) - 1 = k
      OBVIOUS
    <2>2. w[k + 1] = w[(k + 1) - 1] \cup
                     UNION {Goes(n, j) : j \in w[(k + 1) - 1] \cap DOMAIN n}
      BY <1>1, <2>1
    <2>. QED  BY <2>1, <2>2
  <1>. QED  BY <1>1, <1>2

\* It is what the ways from a lead to.
Way(a, n, k, p) ==
    /\ p \in [0 .. k -> DOMAIN n] /\ p[0] = a
    /\ \A l \in 1 .. k : p[l] = p[l - 1] \/ p[l] \in Goes(n, p[l - 1])

LEMMA SpreadExists ==
    ASSUME NEW n, Closed(n), NEW a \in DOMAIN n
    PROVE  \E w : Spreads(a, n, w)
  <1>. DEFINE D == DOMAIN n
              w == [k \in Nat |-> {x \in D : \E p : Way(a, n, k, p) /\ p[k] = x}]
  <1>1. w[0] = {a}
    <2>1. ASSUME NEW p, Way(a, n, 0, p) PROVE p[0] = a
      BY <2>1 DEF Way
    <2>2. Way(a, n, 0, [k \in 0 .. 0 |-> a])
      BY DEF Way
    <2>3. [k \in 0 .. 0 |-> a][0] = a
      OBVIOUS
    <2>. QED  BY <2>1, <2>2, <2>3
  <1>2. ASSUME NEW k \in Nat, k # 0
        PROVE  w[k] = w[k - 1] \cup UNION {Goes(n, j) : j \in w[k - 1] \cap D}
    <2>. DEFINE m == k - 1
    <2>1. m \in Nat /\ m + 1 = k
      BY <1>2
    <2>2. ASSUME NEW x \in w[k]
          PROVE  x \in w[m] \cup UNION {Goes(n, j) : j \in w[m] \cap D}
      <3>1. PICK p : Way(a, n, k, p) /\ p[k] = x
        OBVIOUS
      <3>. DEFINE q == [l \in 0 .. m |-> p[l]]
      <3>2. p \in [0 .. k -> D] /\ p[0] = a
        BY <3>1 DEF Way
      <3>3. q \in [0 .. m -> D] /\ q[0] = a /\ q[m] = p[m] /\ p[m] \in D
        BY <2>1, <3>2
      <3>4. \A l \in 1 .. m : q[l] = q[l - 1] \/ q[l] \in Goes(n, q[l - 1])
        <4>1. \A l \in 1 .. k : p[l] = p[l - 1] \/ p[l] \in Goes(n, p[l - 1])
          BY <3>1 DEF Way
        <4>2. ASSUME NEW l \in 1 .. m
              PROVE  q[l] = p[l] /\ q[l - 1] = p[l - 1] /\ l \in 1 .. k
          BY <2>1
        <4>. HIDE DEF q
        <4>. QED  BY <4>1, <4>2
      <3>5. x = p[m] \/ x \in Goes(n, p[m])
        <4>1. k \in 1 .. k /\ k - 1 = m
          BY <2>1
        <4>. QED  BY <3>1, <4>1 DEF Way
      <3>. HIDE DEF q
      <3>6. Way(a, n, m, q)
        BY <3>3, <3>4 DEF Way
      <3>7. p[m] \in w[m]
        BY <2>1, <3>3, <3>6
      <3>. HIDE DEF w
      <3>. QED  BY <3>3, <3>5, <3>7
    <2>3. ASSUME NEW y \in w[m], NEW x \in D, x = y \/ x \in Goes(n, y)
          PROVE  x \in w[k]
      <3>1. PICK p : Way(a, n, m, p) /\ p[m] = y
        BY <2>1
      <3>. DEFINE q == [l \in 0 .. k |-> IF l = k THEN x ELSE p[l]]
      <3>2. \A l \in 1 .. k : q[l] = q[l - 1] \/ q[l] \in Goes(n, q[l - 1])
        <4>1. q[k] = x /\ q[k - 1] = p[m]
          BY <1>2, <2>1
        <4>2. \A l \in 1 .. m : q[l] = p[l] /\ q[l - 1] = p[l - 1]
          BY <2>1
        <4>. HIDE DEF q
        <4>3. \A l \in 1 .. m : q[l] = q[l - 1] \/ q[l] \in Goes(n, q[l - 1])
          BY <3>1, <4>2 DEF Way
        <4>4. \A l \in 1 .. k : l = k \/ l \in 1 .. m
          BY <2>1
        <4>. QED  BY <2>3, <3>1, <4>1, <4>3, <4>4
      <3>3. q \in [0 .. k -> D] /\ q[0] = a /\ q[k] = x
        <4>1. p \in [0 .. m -> D] /\ p[0] = a
          BY <3>1 DEF Way
        <4>. QED  BY <1>2, <2>1, <4>1
      <3>. HIDE DEF q
      <3>4. Way(a, n, k, q)
        BY <3>2, <3>3 DEF Way
      <3>. QED  BY <3>3, <3>4
    <2>4. w[m] \subseteq D /\ w[k] \subseteq D
      BY <2>1
    <2>5. \A j \in D : Goes(n, j) \subseteq D
      BY DEF Closed
    <2>. HIDE DEF w
    <2>. QED  BY <2>2, <2>3, <2>4, <2>5
  <1>3. w = [k \in Nat |-> w[k]]
    OBVIOUS
  <1>. HIDE DEF w
  <1>4. Spreads(a, n, w)
    BY <1>1, <1>2, <1>3 DEF Spreads
  <1>. QED  BY <1>4

\* After as many steps as there are items nothing is added: had every step
\* added one, there would be too many.
LEMMA SpreadEnds ==
    ASSUME NEW n, Closed(n), NEW a \in DOMAIN n, NEW w, Spreads(a, n, w),
           NEW c, c = Cardinality(DOMAIN n)
    PROVE  /\ a \in w[c] /\ w[c] \subseteq DOMAIN n
           /\ \A j \in w[c] : Goes(n, j) \subseteq w[c]
           /\ \A S : a \in S /\ (\A j \in S \cap DOMAIN n : Goes(n, j) \subseteq S)
                => w[c] \subseteq S
  <1>. DEFINE D == DOMAIN n
  <1>1. /\ c \in Nat /\ w[0] = {a} /\ IsFiniteSet(D)
        /\ \A k \in Nat : w[k + 1] = w[k] \cup UNION {Goes(n, j) : j \in w[k] \cap D}
        /\ \A j \in D : Goes(n, j) \subseteq D
    BY FS_CardinalityType, SpreadIs DEF Closed
  <1>2. ASSUME NEW S, a \in S, \A j \in S \cap D : Goes(n, j) \subseteq S
        PROVE  \A k \in Nat : w[k] \subseteq S
    <2>. DEFINE bad == {k \in Nat : ~(w[k] \subseteq S)}
    <2>1. SUFFICES ASSUME bad # {} PROVE FALSE
      OBVIOUS
    <2>2. PICK x \in bad : \A y \in bad : x <= y
      <3>1. bad \in SUBSET Nat
        OBVIOUS
      <3>. HIDE DEF bad
      <3>. QED  BY <2>1, <3>1, Least
    <2>3. x # 0
      BY <1>1, <1>2
    <2>4. x - 1 \in Nat /\ (x - 1) + 1 = x /\ w[x - 1] \subseteq S
      BY <2>2, <2>3
    <2>5. w[(x - 1) + 1] = w[x - 1] \cup UNION {Goes(n, j) : j \in w[x - 1] \cap D}
      BY <1>1, <2>4
    <2>6. w[x] \subseteq S
      BY <1>2, <2>4, <2>5
    <2>. QED  BY <2>6
  <1>3. \A k \in Nat : w[k] \subseteq D /\ w[k] \subseteq w[k + 1]
    BY <1>1, <1>2
  <1>4. a \in w[c]
    <2>. DEFINE bad == {k \in Nat : a \notin w[k]}
    <2>1. SUFFICES ASSUME bad # {} PROVE FALSE
      BY <1>1
    <2>2. PICK x \in bad : \A y \in bad : x <= y
      <3>1. bad \in SUBSET Nat
        OBVIOUS
      <3>. HIDE DEF bad
      <3>. QED  BY <2>1, <3>1, Least
    <2>3. x # 0
      BY <1>1
    <2>4. x - 1 \in Nat /\ (x - 1) + 1 = x /\ a \in w[x - 1]
      BY <2>2, <2>3
    <2>5. w[x - 1] \subseteq w[(x - 1) + 1]
      BY <1>3, <2>4
    <2>6. a \in w[x]
      BY <2>4, <2>5
    <2>. QED  BY <2>6
  <1>5. w[c + 1] = w[c]
    <2>. SUFFICES ASSUME w[c + 1] # w[c] PROVE FALSE
      OBVIOUS
    <2>1. ASSUME NEW k \in Nat, w[k + 1] = w[k]
          PROVE  w[(k + 1) + 1] = w[k + 1]
      <3>. DEFINE U(v) == v \cup UNION {Goes(n, j) : j \in v \cap D}
      <3>1. k + 1 \in Nat
        OBVIOUS
      <3>2. \A l \in Nat : w[l + 1] = U(w[l])
        BY <1>1
      <3>3. U(w[k + 1]) = U(w[k])
        BY ONLY <2>1, Zenon
      <3>. HIDE DEF U
      <3>4. w[(k + 1) + 1] = U(w[k + 1]) /\ w[k + 1] = U(w[k])
        BY <3>1, <3>2, Zenon
      <3>. QED  BY <3>3, <3>4
    <2>2. \A k \in 0 .. c : w[k + 1] # w[k]
      <3>. DEFINE bad == {d \in 0 .. c : w[(c - d) + 1] = w[c - d]}
      <3>1. bad = {}
        <4>1. SUFFICES ASSUME bad # {} PROVE FALSE
          OBVIOUS
        <4>2. PICK d \in bad : \A y \in bad : d <= y
          <5>1. bad \in SUBSET Nat
            BY <1>1
          <5>. HIDE DEF bad
          <5>. QED  BY <4>1, <5>1, Least
        <4>3. d \in 0 .. c /\ w[(c - d) + 1] = w[c - d]
          OBVIOUS
        <4>4. d # 0
          <5>1. d = 0 => c - d = c
            BY <1>1
          <5>. QED  BY <4>3, <5>1
        <4>5. d - 1 \in 0 .. c /\ c - d \in Nat /\ (c - d) + 1 = c - (d - 1)
          BY <1>1, <4>3, <4>4
        <4>6. w[(c - (d - 1)) + 1] = w[c - (d - 1)]
          BY <2>1, <4>3, <4>5
        <4>7. d - 1 \in bad
          BY <4>5, <4>6
        <4>. HIDE DEF bad
        <4>8. d <= d - 1
          BY <4>2, <4>7
        <4>. QED  BY <1>1, <4>3, <4>8
      <3>2. ASSUME NEW k \in 0 .. c, w[k + 1] = w[k] PROVE FALSE
        <4>1. c - k \in 0 .. c /\ c - (c - k) = k
          BY <1>1
        <4>2. w[(c - (c - k)) + 1] = w[c - (c - k)]
          BY <3>2, <4>1
        <4>3. c - k \in bad
          BY <4>1, <4>2
        <4>. HIDE DEF bad
        <4>. QED  BY <3>1, <4>3
      <3>. QED  BY <3>2
    <2>3. \A k \in 0 .. c : IsFiniteSet(w[k]) /\ Cardinality(w[k]) >= k + 1
      <3>. DEFINE bad == {k \in 0 .. c : ~(Cardinality(w[k]) >= k + 1)}
      <3>1. \A k \in Nat : IsFiniteSet(w[k]) /\ Cardinality(w[k]) \in Nat
        BY <1>1, <1>3, FS_Subset, FS_CardinalityType
      <3>2. bad = {}
        <4>1. SUFFICES ASSUME bad # {} PROVE FALSE
          OBVIOUS
        <4>2. PICK x \in bad : \A y \in bad : x <= y
          <5>1. bad \in SUBSET Nat
            BY <1>1
          <5>. HIDE DEF bad
          <5>. QED  BY <4>1, <5>1, Least
        <4>3. x \in 0 .. c /\ ~(Cardinality(w[x]) >= x + 1)
          OBVIOUS
        <4>4. x # 0
          <5>1. Cardinality({a}) = 1
            BY FS_Singleton
          <5>2. x = 0 => Cardinality(w[x]) = 1
            BY <1>1, <5>1
          <5>3. x = 0 => Cardinality(w[x]) >= x + 1
            BY <5>2
          <5>. QED  BY <4>3, <5>3
        <4>. DEFINE y == x - 1
        <4>5. y \in 0 .. c /\ y \in Nat /\ y + 1 = x /\ y < x
          BY <1>1, <4>3, <4>4
        <4>6. y \notin bad
          <5>. HIDE DEF bad, y
          <5>1. x \in Int /\ y \in Int
            BY <1>1, <4>3, <4>5
          <5>. QED  BY <4>2, <4>5, <5>1
        <4>7. Cardinality(w[y]) >= y + 1
          BY <4>5, <4>6
        <4>. HIDE DEF y, bad
        <4>8. w[y] \subseteq w[y + 1] /\ w[y] # w[y + 1]
          BY <1>3, <2>2, <4>5
        <4>9. Cardinality(w[y]) < Cardinality(w[y + 1])
          BY <3>1, <4>5, <4>8, FS_Subset
        <4>10. Cardinality(w[y]) \in Nat /\ Cardinality(w[y + 1]) \in Nat
          BY <3>1, <4>5
        <4>. QED  BY <4>3, <4>5, <4>7, <4>9, <4>10
      <3>. QED  BY <3>1, <3>2, <1>1
    <2>4. Cardinality(w[c]) >= c + 1 /\ Cardinality(w[c]) <= c
      <3>1. w[c] \subseteq D /\ c \in 0 .. c
        BY <1>1, <1>3
      <3>. QED  BY <1>1, <2>3, <3>1, FS_Subset
    <2>5. Cardinality(w[c]) \in Nat
      BY <1>1, <2>3, FS_CardinalityType
    <2>. QED  BY <1>1, <2>4, <2>5
  <1>6. \A j \in w[c] : Goes(n, j) \subseteq w[c]
    BY <1>1, <1>3, <1>5
  <1>7. w[c] \subseteq D
    BY <1>1, <1>3
  <1>. QED  BY <1>1, <1>2, <1>4, <1>6, <1>7

\* So what is reached from an item is there, is closed, and is in every closed
\* set the item is in.
LEMMA ReachedIs ==
    ASSUME NEW n, Closed(n), NEW i \in DOMAIN n, i # NULL
    PROVE  /\ i \in ReachedOf(n, i) /\ ReachedOf(n, i) \subseteq DOMAIN n
           /\ \A j \in ReachedOf(n, i) : Goes(n, j) \subseteq ReachedOf(n, i)
           /\ \A S : i \in S /\ (\A j \in S \cap DOMAIN n : Goes(n, j) \subseteq S)
                => ReachedOf(n, i) \subseteq S
  <1>. DEFINE w == CHOOSE v : Spreads(i, n, v)
              c == Cardinality(DOMAIN n)
  <1>1. Spreads(i, n, w)
    BY SpreadExists
  <1>2. ReachedOf(n, i) = w[c]
    BY DEF ReachedOf
  <1>3. c = Cardinality(DOMAIN n)
    OBVIOUS
  <1>. HIDE DEF w, c
  <1>4. /\ i \in w[c] /\ w[c] \subseteq DOMAIN n
        /\ \A j \in w[c] : Goes(n, j) \subseteq w[c]
        /\ \A S : i \in S /\ (\A j \in S \cap DOMAIN n : Goes(n, j) \subseteq S)
             => w[c] \subseteq S
    BY ONLY Closed(n), i \in DOMAIN n, <1>1, <1>3, SpreadEnds
  <1>. QED  BY <1>2, <1>4

\* The same of a link, behind which there may be nothing.
LEMMA ReachFacts ==
    ASSUME NEW n, Nodes(n), Closed(n), NEW i \in DOMAIN n \cup {NULL}
    PROVE  /\ i = NULL \/ i \in ReachedOf(n, i)
           /\ i = NULL => ReachedOf(n, i) = {}
           /\ ReachedOf(n, i) \subseteq DOMAIN n
           /\ \A j \in ReachedOf(n, i) : Goes(n, j) \subseteq ReachedOf(n, i)
           /\ \A S : i \in S /\ (\A j \in S \cap DOMAIN n : Goes(n, j) \subseteq S)
                => ReachedOf(n, i) \subseteq S
  <1>1. i = NULL => ReachedOf(n, i) = {}
    BY DEF ReachedOf
  <1>2. i # NULL => i \in DOMAIN n
    OBVIOUS
  <1>. QED  BY <1>1, <1>2, ReachedIs

\* Where what is followed does not change, what is reached does not.
LEMMA SameReach ==
    ASSUME NEW n, Nodes(n), Closed(n), NEW m, Nodes(m), Closed(m),
           NEW i \in DOMAIN n \cup {NULL}, ReachedOf(n, i) \subseteq DOMAIN m,
           \A j \in ReachedOf(n, i) : Goes(m, j) = Goes(n, j)
    PROVE  ReachedOf(m, i) = ReachedOf(n, i)
  <1>1. CASE i = NULL
    BY <1>1 DEF ReachedOf
  <1>2. CASE i # NULL
    <2>. DEFINE R == ReachedOf(n, i)
                M == ReachedOf(m, i)
    <2>1. /\ i \in R /\ R \subseteq DOMAIN n
          /\ \A j \in R : Goes(n, j) \subseteq R
          /\ \A S : i \in S /\ (\A j \in S \cap DOMAIN n : Goes(n, j) \subseteq S)
               => R \subseteq S
      BY <1>2, ReachFacts
    <2>2. i \in DOMAIN m
      BY <2>1
    <2>3. /\ i \in M /\ M \subseteq DOMAIN m
          /\ \A j \in M : Goes(m, j) \subseteq M
          /\ \A S : i \in S /\ (\A j \in S \cap DOMAIN m : Goes(m, j) \subseteq S)
               => M \subseteq S
      BY <1>2, <2>2, ReachFacts
    <2>4. \A j \in R : Goes(m, j) = Goes(n, j)
      OBVIOUS
    <2>. HIDE DEF R, M
    <2>5. M \subseteq R
      BY <2>1, <2>3, <2>4
    <2>6. R \subseteq M
      BY <2>1, <2>3, <2>4, <2>5
    <2>7. M = R
      BY <2>5, <2>6
    <2>. QED  BY <2>7 DEF M, R
  <1>. QED  BY <1>1, <1>2

\* A new link adds what is reached over it.
LEMMA MoreReach ==
    ASSUME NEW n, Nodes(n), Closed(n), NEW m, Nodes(m), Closed(m),
           DOMAIN n \subseteq DOMAIN m, NEW i \in DOMAIN n,
           NEW k \in ReachedOf(n, i), NEW x \in DOMAIN m,
           \A j \in DOMAIN n \ {k} : Goes(m, j) = Goes(n, j),
           Goes(m, k) = Goes(n, k) \cup {x}
    PROVE  ReachedOf(m, i) = ReachedOf(n, i) \cup ReachedOf(m, x)
  <1>. DEFINE R == ReachedOf(n, i)
              M == ReachedOf(m, i)
              X == ReachedOf(m, x)
  <1>1. i # NULL /\ x # NULL /\ i \in DOMAIN m
    BY HeapAssumption DEF Nodes
  <1>2. /\ i \in R /\ R \subseteq DOMAIN n
        /\ \A j \in R : Goes(n, j) \subseteq R
        /\ \A S : i \in S /\ (\A j \in S \cap DOMAIN n : Goes(n, j) \subseteq S)
             => R \subseteq S
    BY <1>1, ReachFacts
  <1>3. /\ i \in M /\ M \subseteq DOMAIN m
        /\ \A j \in M : Goes(m, j) \subseteq M
        /\ \A S : i \in S /\ (\A j \in S \cap DOMAIN m : Goes(m, j) \subseteq S)
             => M \subseteq S
    BY <1>1, ReachFacts
  <1>4. /\ x \in X /\ X \subseteq DOMAIN m
        /\ \A j \in X : Goes(m, j) \subseteq X
        /\ \A S : x \in S /\ (\A j \in S \cap DOMAIN m : Goes(m, j) \subseteq S)
             => X \subseteq S
    BY <1>1, ReachFacts
  <1>5. /\ k \in R /\ Goes(m, k) = Goes(n, k) \cup {x}
        /\ \A j \in DOMAIN n \ {k} : Goes(m, j) = Goes(n, j)
        /\ \A j \in DOMAIN n : Goes(n, j) \subseteq Goes(m, j)
    OBVIOUS
  <1>. HIDE DEF R, M, X
  <1>6. M \subseteq R \cup X
    <2>1. ASSUME NEW j \in R \cup X
          PROVE  Goes(m, j) \subseteq R \cup X
      <3>1. CASE j \in X
        BY <3>1, <1>4
      <3>2. CASE j \in R
        BY <3>2, <1>2, <1>4, <1>5
      <3>. QED  BY <3>1, <3>2
    <2>. QED  BY <2>1, <1>2, <1>3
  <1>7. R \subseteq M
    <2>1. ASSUME NEW j \in M \cap DOMAIN n PROVE Goes(n, j) \subseteq M
      BY <1>3, <1>5
    <2>. QED  BY <2>1, <1>2, <1>3
  <1>8. X \subseteq M
    <2>1. x \in M
      BY <1>3, <1>5, <1>7
    <2>. QED  BY <2>1, <1>3, <1>4
  <1>9. M = R \cup X
    BY <1>6, <1>7, <1>8
  <1>. QED  BY <1>9 DEF M, R, X

-----------------------------------------------------------------------------
(* The lists under construction *)

\* next and prev agree; what has a parent is first in its list and has one.
Linked(n) ==
    /\ Closed(n)
    /\ \A i \in DOMAIN n : n[i].reference = FALSE /\ n[i].const = FALSE
    /\ \A i, j \in DOMAIN n : n[j].next = i => n[i].prev = j
    /\ \A i \in DOMAIN n :
         n[i].prev # NULL => n[i].prev \in DOMAIN n /\ n[n[i].prev].next = i
    /\ \A i, j \in DOMAIN n : n[j].child = i => n[i].prev = NULL
    /\ \A i, j, k \in DOMAIN n : n[j].child = i /\ n[k].child = i => j = k

\* Nothing leads to i.
Loose(n, i) ==
    i \in DOMAIN n /\ n[i].prev = NULL /\ \A j \in DOMAIN n : n[j].child # i

\* The result, and the lists of the frames.
ListOf(s, r, k) == IF k = 0 THEN r ELSE s[k].head

Part(n, s, r, k) == ReachedOf(n, ListOf(s, r, k))

\* Frame k makes a list for an item of the list below it.
Framed(n, s, r, k) ==
    /\ s[k].item \in Part(n, s, r, k - 1)
    /\ n[s[k].item].child = NULL
    /\ s[k].head = NULL <=> s[k].current = NULL
    /\ s[k].head # NULL => /\ Loose(n, s[k].head)
                           /\ s[k].current \in Part(n, s, r, k)
                           /\ n[s[k].current].next = NULL

Apart(n, s, r) ==
    \A k, l \in 0 .. Len(s) : k # l => Part(n, s, r, k) \cap Part(n, s, r, l) = {}

\* Every item is in one of them, and in one only.
Built(n, s, r) ==
    /\ Linked(n)
    /\ r # NULL => Loose(n, r)
    /\ DOMAIN n = UNION {Part(n, s, r, k) : k \in 0 .. Len(s)}
    /\ Apart(n, s, r)
    /\ \A k \in 1 .. Len(s) : Framed(n, s, r, k)

LEMMA ListIs ==
    ASSUME NEW n, NEW s, NEW r, Built(n, s, r), NEW k \in 0 .. Len(s)
    PROVE  /\ ListOf(s, r, k) \in DOMAIN n \cup {NULL}
           /\ ListOf(s, r, k) # NULL => Loose(n, ListOf(s, r, k))
  <1>1. CASE k = 0
    BY <1>1 DEF Built, ListOf, Loose
  <1>2. CASE k # 0
    <2>1. k \in 1 .. Len(s)
      BY <1>2
    <2>2. Framed(n, s, r, k)
      BY <2>1 DEF Built
    <2>. QED  BY <1>2, <2>2 DEF Framed, ListOf, Loose
  <1>. QED  BY <1>1, <1>2

LEMMA PartIs ==
    ASSUME NEW n, Nodes(n), NEW s, NEW r, Built(n, s, r), NEW k \in 0 .. Len(s)
    PROVE  /\ ListOf(s, r, k) = NULL \/ ListOf(s, r, k) \in Part(n, s, r, k)
           /\ Part(n, s, r, k) \subseteq DOMAIN n
           /\ \A j \in Part(n, s, r, k) : Goes(n, j) \subseteq Part(n, s, r, k)
  <1>1. Closed(n)
    BY DEF Built, Linked
  <1>. QED  BY <1>1, ListIs, ReachFacts DEF Part

\* A change that leaves the links alone.
SameLinks(n, m) ==
    /\ DOMAIN m = DOMAIN n
    /\ \A i \in DOMAIN n :
         /\ m[i].next = n[i].next /\ m[i].prev = n[i].prev
         /\ m[i].child = n[i].child
         /\ m[i].reference = n[i].reference /\ m[i].const = n[i].const

LEMMA SameGoes ==
    ASSUME NEW n, NEW m, SameLinks(n, m)
    PROVE  \A i \in DOMAIN n : Goes(m, i) = Goes(n, i)
  BY DEF SameLinks, Goes

LEMMA LinkedAs ==
    ASSUME NEW n, NEW m, Linked(n), SameLinks(n, m)
    PROVE  Linked(m)
  <1>1. Closed(m)
    BY SameGoes DEF Linked, Closed, SameLinks
  <1>2. DOMAIN m = DOMAIN n
    BY DEF SameLinks
  <1>3. \A i, j \in DOMAIN m : m[j].next = i => m[i].prev = j
    BY SMT DEF Linked, SameLinks
  <1>4. ASSUME NEW i \in DOMAIN m, m[i].prev # NULL
        PROVE  m[i].prev \in DOMAIN m /\ m[m[i].prev].next = i
    <2>1. m[i].prev = n[i].prev /\ i \in DOMAIN n
      BY DEF SameLinks
    <2>2. n[i].prev \in DOMAIN n /\ n[n[i].prev].next = i
      BY <1>4, <2>1 DEF Linked
    <2>. QED  BY <2>1, <2>2 DEF SameLinks
  <1>5. \A i, j \in DOMAIN m : m[j].child = i => m[i].prev = NULL
    BY Zenon DEF Linked, SameLinks
  <1>6. \A i, j, k \in DOMAIN m : m[j].child = i /\ m[k].child = i => j = k
    BY SMT DEF Linked, SameLinks
  <1>7. \A i \in DOMAIN m : m[i].reference = FALSE /\ m[i].const = FALSE
    BY Zenon DEF Linked, SameLinks
  <1>. QED  BY <1>1, <1>3, <1>4, <1>5, <1>6, <1>7 DEF Linked

LEMMA BuiltAs ==
    ASSUME NEW n, NEW m, NEW s, NEW r, Nodes(n), Nodes(m), Built(n, s, r),
           SameLinks(n, m)
    PROVE  /\ Built(m, s, r)
           /\ \A k \in 0 .. Len(s) : Part(m, s, r, k) = Part(n, s, r, k)
  <1>1. Linked(m) /\ Closed(m) /\ Closed(n) /\ DOMAIN m = DOMAIN n
    BY LinkedAs DEF Built, Linked, SameLinks
  <1>2. ASSUME NEW k \in 0 .. Len(s) PROVE Part(m, s, r, k) = Part(n, s, r, k)
    <2>1. ListOf(s, r, k) \in DOMAIN n \cup {NULL}
      BY ListIs
    <2>2. \A j \in Part(n, s, r, k) : Goes(m, j) = Goes(n, j)
      BY PartIs, SameGoes
    <2>3. Part(n, s, r, k) \subseteq DOMAIN m
      BY <1>1, PartIs
    <2>. QED  BY <1>1, <2>1, <2>2, <2>3, SameReach DEF Part
  <1>3. \A i : Loose(n, i) => Loose(m, i)
    BY DEF Loose, SameLinks
  <1>4. Apart(m, s, r)
    BY <1>2 DEF Built, Apart
  <1>5. DOMAIN m = UNION {Part(m, s, r, k) : k \in 0 .. Len(s)}
    <2>1. DOMAIN n = UNION {Part(n, s, r, k) : k \in 0 .. Len(s)}
      BY DEF Built
    <2>. QED  BY <1>1, <1>2, <2>1
  <1>6. ASSUME NEW k \in 1 .. Len(s) PROVE Framed(m, s, r, k)
    <2>1. k \in 0 .. Len(s) /\ k - 1 \in 0 .. Len(s)
      OBVIOUS
    <2>2. Framed(n, s, r, k)
      BY DEF Built
    <2>3. Part(n, s, r, k) \subseteq DOMAIN n /\ Part(n, s, r, k - 1) \subseteq DOMAIN n
      BY <2>1, PartIs
    <2>4. Part(m, s, r, k) = Part(n, s, r, k) /\ Part(m, s, r, k - 1) = Part(n, s, r, k - 1)
      BY <1>2, <2>1
    <2>. QED  BY ONLY <1>3, <2>2, <2>3, <2>4, SameLinks(n, m) DEF Framed, SameLinks
  <1>. QED  BY <1>1, <1>2, <1>3, <1>4, <1>5, <1>6 DEF Built

\* A list of which there is nothing yet, for an item in the last one.
LEMMA BuiltOpen ==
    ASSUME NEW n, Nodes(n), NEW s \in Seq(Frame), NEW r, Built(n, s, r),
           NEW f \in Frame, f.item \in Part(n, s, r, Len(s)),
           n[f.item].child = NULL, f.head = NULL, f.current = NULL
    PROVE  Built(n, Append(s, f), r)
  <1>. DEFINE t == Append(s, f)
  <1>1. /\ Len(s) \in Nat /\ Len(t) = Len(s) + 1 /\ t[Len(t)] = f
        /\ \A k \in 1 .. Len(s) : t[k] = s[k]
    OBVIOUS
  <1>. HIDE DEF t
  <1>2. \A k \in 0 .. Len(s) : Part(n, t, r, k) = Part(n, s, r, k)
    BY <1>1 DEF Part, ListOf
  <1>3. Part(n, t, r, Len(t)) = {}
    BY <1>1 DEF Part, ListOf, ReachedOf
  <1>4. \A k \in 0 .. Len(t) : k \in 0 .. Len(s) \/ k = Len(t)
    BY <1>1
  <1>5. Apart(n, t, r)
    <2>1. Apart(n, s, r)
      BY DEF Built
    <2>. QED  BY <1>2, <1>3, <1>4, <2>1 DEF Apart
  <1>6. DOMAIN n = UNION {Part(n, t, r, k) : k \in 0 .. Len(t)}
    <2>1. DOMAIN n = UNION {Part(n, s, r, k) : k \in 0 .. Len(s)}
      BY DEF Built
    <2>2. \A k \in 0 .. Len(s) : k \in 0 .. Len(t)
      BY <1>1
    <2>. QED  BY <1>2, <1>3, <1>4, <2>1, <2>2
  <1>7. ASSUME NEW k \in 1 .. Len(t) PROVE Framed(n, t, r, k)
    <2>1. CASE k = Len(t)
      <3>1. k - 1 = Len(s) /\ Len(s) \in 0 .. Len(s)
        BY <1>1, <2>1
      <3>2. Part(n, t, r, k - 1) = Part(n, s, r, Len(s))
        BY <1>2, <3>1
      <3>. QED  BY <1>1, <2>1, <3>2 DEF Framed
    <2>2. CASE k # Len(t)
      <3>1. k \in 1 .. Len(s) /\ k \in 0 .. Len(s) /\ k - 1 \in 0 .. Len(s)
        BY <1>1, <2>2
      <3>2. Framed(n, s, r, k) /\ t[k] = s[k]
        BY <1>1, <3>1 DEF Built
      <3>3. Part(n, t, r, k) = Part(n, s, r, k) /\ Part(n, t, r, k - 1) = Part(n, s, r, k - 1)
        BY <1>2, <3>1
      <3>. QED  BY ONLY <3>2, <3>3 DEF Framed
    <2>. QED  BY <2>1, <2>2
  <1>8. Built(n, t, r)
    BY <1>5, <1>6, <1>7 DEF Built
  <1>. QED  BY <1>8 DEF t

\* m is n with a new item behind p; or behind nothing.
Lengthened(n, m, p, new) ==
    /\ DOMAIN m = DOMAIN n \cup {new}
    /\ m[new].next = NULL /\ m[new].prev = p /\ m[new].child = NULL
    /\ m[new].reference = FALSE /\ m[new].const = FALSE
    /\ \A i \in DOMAIN n :
         /\ m[i].next = IF i = p THEN new ELSE n[i].next
         /\ m[i].prev = n[i].prev /\ m[i].child = n[i].child
         /\ m[i].reference = n[i].reference /\ m[i].const = n[i].const

LEMMA LinkedNew ==
    ASSUME NEW n, NEW m, Nodes(n), Linked(n), NEW new \in Items \ DOMAIN n,
           NEW p \in DOMAIN n \cup {NULL}, p # NULL => n[p].next = NULL,
           Lengthened(n, m, p, new)
    PROVE  /\ Linked(m) /\ Goes(m, new) = {}
           /\ p # NULL => Goes(m, p) = Goes(n, p) \cup {new}
           /\ \A i \in DOMAIN n \ {p} : Goes(m, i) = Goes(n, i)
  <1>1. new # NULL /\ NULL \notin DOMAIN n
    BY HeapAssumption DEF Nodes
  <1>2. DOMAIN m = DOMAIN n \cup {new}
    BY DEF Lengthened
  <1>3. Goes(m, new) = {}
    BY DEF Lengthened, Goes
  <1>4. ASSUME p # NULL PROVE Goes(m, p) = Goes(n, p) \cup {new}
    <2>1. p \in DOMAIN n /\ n[p].next = NULL
      BY <1>4
    <2>2. /\ m[p].next = new /\ m[p].child = n[p].child
          /\ m[p].reference = n[p].reference
      BY <2>1 DEF Lengthened
    <2>. QED  BY <1>1, <2>1, <2>2 DEF Goes
  <1>5. ASSUME NEW i \in DOMAIN n \ {p} PROVE Goes(m, i) = Goes(n, i)
    BY DEF Lengthened, Goes
  <1>6. Closed(m)
    <2>1. IsFiniteSet(DOMAIN n) /\ \A i \in DOMAIN n : Goes(n, i) \subseteq DOMAIN n
      BY DEF Linked, Closed
    <2>2. IsFiniteSet(DOMAIN m)
      BY <1>2, <2>1, FS_AddElement
    <2>3. \A i \in DOMAIN m : Goes(m, i) \subseteq DOMAIN m
      BY <1>1, <1>2, <1>3, <1>4, <1>5, <2>1
    <2>. QED  BY <2>2, <2>3 DEF Closed
  <1>7. \A i \in DOMAIN n : n[i].next # new /\ n[i].child # new
    <2>1. \A i \in DOMAIN n : Goes(n, i) \subseteq DOMAIN n /\ n[i].reference = FALSE
      BY DEF Linked, Closed
    <2>2. \A i \in DOMAIN n : /\ n[i].next \in Goes(n, i) \cup {NULL}
                               /\ n[i].child \in Goes(n, i) \cup {NULL}
      BY <2>1 DEF Goes
    <2>. QED  BY <1>1, <2>1, <2>2
  <1>8. \A i \in DOMAIN m : m[i].reference = FALSE /\ m[i].const = FALSE
    BY DEF Linked, Lengthened
  <1>9. ASSUME NEW i \in DOMAIN m, NEW j \in DOMAIN m, m[j].next = i
        PROVE  m[i].prev = j
    <2>1. j \in DOMAIN n
      BY <1>1, <1>2, <1>9 DEF Lengthened
    <2>2. CASE j = p
      BY <1>9, <2>1, <2>2 DEF Lengthened
    <2>3. CASE j # p
      <3>1. n[j].next = i
        BY <1>9, <2>1, <2>3 DEF Lengthened
      <3>2. i \in DOMAIN n
        BY <1>2, <1>7, <2>1, <3>1
      <3>3. n[i].prev = j
        BY <2>1, <3>1, <3>2 DEF Linked
      <3>. QED  BY <3>2, <3>3 DEF Lengthened
    <2>. QED  BY <2>2, <2>3
  <1>10. ASSUME NEW i \in DOMAIN m, m[i].prev # NULL
         PROVE  m[i].prev \in DOMAIN m /\ m[m[i].prev].next = i
    <2>1. CASE i = new
      <3>1. m[i].prev = p /\ p \in DOMAIN n
        BY <1>10, <2>1 DEF Lengthened
      <3>. QED  BY <2>1, <3>1 DEF Lengthened
    <2>2. CASE i \in DOMAIN n
      <3>1. m[i].prev = n[i].prev
        BY <2>2 DEF Lengthened
      <3>2. n[i].prev \in DOMAIN n /\ n[n[i].prev].next = i
        BY <1>10, <2>2, <3>1 DEF Linked
      <3>3. n[i].prev # p
        BY <1>1, <2>2, <3>2
      <3>. QED  BY <3>1, <3>2, <3>3 DEF Lengthened
    <2>. QED  BY <1>2, <2>1, <2>2
  <1>11. ASSUME NEW i \in DOMAIN m, NEW j \in DOMAIN m, m[j].child = i
         PROVE  i \in DOMAIN n /\ j \in DOMAIN n /\ n[j].child = i
    <2>1. j \in DOMAIN n
      BY <1>1, <1>2, <1>11 DEF Lengthened
    <2>2. n[j].child = i
      BY <1>11, <2>1 DEF Lengthened
    <2>. QED  BY <1>2, <1>7, <2>1, <2>2
  <1>12. \A i, j \in DOMAIN m : m[j].child = i => m[i].prev = NULL
    BY <1>11, SMT DEF Linked, Lengthened
  <1>13. \A i, j, k \in DOMAIN m : m[j].child = i /\ m[k].child = i => j = k
    BY <1>11, SMT DEF Linked
  <1>14. Linked(m)
    BY <1>6, <1>8, <1>9, <1>10, <1>12, <1>13 DEF Linked
  <1>. QED  BY <1>3, <1>4, <1>5, <1>14

\* The next item of the list on top.
LEMMA BuiltNew ==
    ASSUME NEW n, NEW m, Nodes(n), Nodes(m), NEW s \in Seq(Frame), NEW r,
           Built(n, s, r), NEW new \in Items \ DOMAIN n,
           NEW q, q = Len(s), q # 0, NEW t, Len(t) = q,
           \A k \in 1 .. (q - 1) : t[k] = s[k],
           t[q].item = s[q].item, t[q].current = new,
           t[q].head = IF s[q].head = NULL THEN new ELSE s[q].head,
           Lengthened(n, m, s[q].current, new)
    PROVE  Built(m, t, r) /\ new \in Part(m, t, r, q)
  <1>. DEFINE p == s[q].current
  <1>1. q \in Nat \ {0} /\ q \in 1 .. q /\ q \in 0 .. q /\ q - 1 \in 0 .. q /\ q - 1 # q
    OBVIOUS
  <1>2. Framed(n, s, r, q) /\ Linked(n) /\ Closed(n) /\ Apart(n, s, r)
    BY <1>1 DEF Built, Linked
  <1>3. \A k \in 0 .. q : Part(n, s, r, k) \subseteq DOMAIN n
    BY PartIs
  <1>4. new # NULL /\ NULL \notin DOMAIN n
    BY HeapAssumption DEF Nodes
  <1>5. p = NULL \/ (p \in Part(n, s, r, q) /\ p \in DOMAIN n /\ n[p].next = NULL)
    BY <1>1, <1>2, <1>3 DEF Framed
  <1>6. Lengthened(n, m, p, new)
    OBVIOUS
  <1>7. s[q].head = NULL <=> p = NULL
    BY <1>2 DEF Framed
  <1>. HIDE DEF p
  <1>8. /\ Linked(m) /\ Goes(m, new) = {}
        /\ p # NULL => Goes(m, p) = Goes(n, p) \cup {new}
        /\ \A i \in DOMAIN n \ {p} : Goes(m, i) = Goes(n, i)
    <2>1. p \in DOMAIN n \cup {NULL} /\ (p # NULL => n[p].next = NULL)
      BY <1>5
    <2>. QED  BY ONLY <1>2, <1>6, <2>1, LinkedNew, Nodes(n), new \in Items \ DOMAIN n
  <1>9. Closed(m) /\ DOMAIN m = DOMAIN n \cup {new}
    BY <1>6, <1>8 DEF Linked, Lengthened
  <1>10. ReachedOf(m, new) = {new}
    <2>1. new \in DOMAIN m
      BY <1>9
    <2>2. /\ new \in ReachedOf(m, new)
          /\ \A S : new \in S /\ (\A j \in S \cap DOMAIN m : Goes(m, j) \subseteq S)
               => ReachedOf(m, new) \subseteq S
      BY <1>4, <1>9, <2>1, ReachFacts
    <2>3. \A j \in {new} \cap DOMAIN m : Goes(m, j) \subseteq {new}
      BY <1>8
    <2>4. ReachedOf(m, new) \subseteq {new}
      BY <2>2, <2>3
    <2>. QED  BY <2>2, <2>4
  <1>11. ASSUME NEW k \in 0 .. (q - 1) PROVE Part(m, t, r, k) = Part(n, s, r, k)
    <2>1. k \in 0 .. q /\ k # q
      BY <1>1
    <2>2. ListOf(t, r, k) = ListOf(s, r, k)
      BY <1>1 DEF ListOf
    <2>3. ListOf(s, r, k) \in DOMAIN n \cup {NULL}
      BY <2>1, ListIs
    <2>4. p \notin Part(n, s, r, k)
      BY <1>1, <1>2, <1>3, <1>4, <1>5, <2>1 DEF Apart
    <2>5. \A j \in Part(n, s, r, k) : Goes(m, j) = Goes(n, j)
      BY <1>3, <1>8, <2>1, <2>4
    <2>6. Part(n, s, r, k) \subseteq DOMAIN m
      BY <1>3, <1>9, <2>1
    <2>. QED  BY <1>2, <1>9, <2>2, <2>3, <2>5, <2>6, SameReach DEF Part
  <1>12. Part(m, t, r, q) = Part(n, s, r, q) \cup {new}
    <2>1. CASE s[q].head = NULL
      <3>1. Part(n, s, r, q) = {}
        BY <1>1, <2>1 DEF Part, ListOf, ReachedOf
      <3>2. Part(m, t, r, q) = ReachedOf(m, new)
        BY <1>1, <2>1 DEF Part, ListOf
      <3>. QED  BY <1>10, <3>1, <3>2
    <2>2. CASE s[q].head # NULL
      <3>. DEFINE h == s[q].head
      <3>1. Part(n, s, r, q) = ReachedOf(n, h) /\ Part(m, t, r, q) = ReachedOf(m, h)
        BY <1>1, <2>2 DEF Part, ListOf
      <3>2. p # NULL /\ p \in ReachedOf(n, h)
        BY <1>5, <1>7, <2>2, <3>1
      <3>3. h \in DOMAIN n
        BY <1>2, <2>2 DEF Framed, Loose
      <3>. HIDE DEF h
      <3>4. DOMAIN n \subseteq DOMAIN m /\ new \in DOMAIN m
        BY <1>9
      <3>5. ReachedOf(m, h) = ReachedOf(n, h) \cup ReachedOf(m, new)
        BY ONLY Nodes(n), Nodes(m), <1>2, <1>8, <1>9, <3>2, <3>3, <3>4, MoreReach
      <3>. QED  BY <1>10, <3>1, <3>5
    <2>. QED  BY <2>1, <2>2
  <1>13. \A k \in 0 .. q : k \in 0 .. (q - 1) \/ k = q
    BY <1>1
  <1>14. DOMAIN m = UNION {Part(m, t, r, k) : k \in 0 .. Len(t)}
    <2>1. DOMAIN n = UNION {Part(n, s, r, k) : k \in 0 .. q}
      BY DEF Built
    <2>2. \A k \in 0 .. q : Part(n, s, r, k) \subseteq Part(m, t, r, k)
      BY <1>11, <1>12, <1>13
    <2>3. \A k \in 0 .. q : Part(m, t, r, k) \subseteq Part(n, s, r, k) \cup {new}
      BY <1>11, <1>12, <1>13
    <2>4. new \in Part(m, t, r, q)
      BY <1>12
    <2>5. Len(t) = q
      OBVIOUS
    <2>. QED  BY ONLY <1>1, <1>9, <2>1, <2>2, <2>3, <2>4, <2>5
  <1>15. Apart(m, t, r)
    <2>1. ASSUME NEW k \in 0 .. q, NEW l \in 0 .. q, k # l
          PROVE  Part(m, t, r, k) \cap Part(m, t, r, l) = {}
      <3>1. Part(n, s, r, k) \cap Part(n, s, r, l) = {}
        BY <1>2, <2>1 DEF Apart
      <3>2. new \notin Part(n, s, r, k) /\ new \notin Part(n, s, r, l)
        BY <1>3
      <3>. QED  BY <1>11, <1>12, <1>13, <2>1, <3>1, <3>2
    <2>. QED  BY <2>1 DEF Apart
  <1>16. \A i : Loose(n, i) => Loose(m, i)
    <2>1. ASSUME NEW i, Loose(n, i) PROVE Loose(m, i)
      <3>1. i \in DOMAIN n /\ i # NULL
        BY <1>4, <2>1 DEF Loose
      <3>. QED  BY <1>6, <1>9, <2>1, <3>1 DEF Loose, Lengthened
    <2>. QED  BY <2>1
  <1>17. p = NULL => Loose(m, new)
    <2>1. ASSUME NEW j \in DOMAIN m PROVE m[j].child # new
      <3>1. CASE j = new
        BY <1>4, <1>6, <3>1 DEF Lengthened
      <3>2. CASE j \in DOMAIN n
        <4>1. n[j].reference = FALSE /\ Goes(n, j) \subseteq DOMAIN n
          BY <1>2, <3>2 DEF Linked, Closed
        <4>2. n[j].child = NULL \/ n[j].child \in DOMAIN n
          BY <4>1 DEF Goes
        <4>. QED  BY <1>4, <1>6, <3>2, <4>2 DEF Lengthened
      <3>. QED  BY <1>9, <3>1, <3>2
    <2>. QED  BY <1>6, <1>9, <2>1 DEF Loose, Lengthened
  <1>18. ASSUME NEW k \in 1 .. Len(t) PROVE Framed(m, t, r, k)
    <2>1. k \in 1 .. q /\ k - 1 \in 0 .. (q - 1) /\ k \in 0 .. q
      BY <1>1
    <2>2. Framed(n, s, r, k) /\ Part(m, t, r, k - 1) = Part(n, s, r, k - 1)
      BY <1>11, <2>1 DEF Built
    <2>3. t[k].item \in Part(m, t, r, k - 1) /\ m[t[k].item].child = NULL
      <3>1. t[k].item = s[k].item
        BY <1>1, <2>1
      <3>2. s[k].item \in Part(n, s, r, k - 1) /\ n[s[k].item].child = NULL
        BY <2>2 DEF Framed
      <3>3. s[k].item \in DOMAIN n
        BY <1>1, <1>3, <2>1, <3>2
      <3>. QED  BY <1>6, <2>2, <3>1, <3>2, <3>3 DEF Lengthened
    <2>4. CASE k = q
      <3>1. t[k].current = new /\ t[k].head # NULL
        BY <1>4, <2>4
      <3>2. Loose(m, t[k].head)
        <4>1. CASE s[q].head = NULL
          BY <1>7, <1>17, <2>4, <4>1
        <4>2. CASE s[q].head # NULL
          BY <1>2, <1>16, <2>4, <4>2 DEF Framed
        <4>. QED  BY <4>1, <4>2
      <3>3. new \in Part(m, t, r, k) /\ m[new].next = NULL
        BY <1>6, <1>12, <2>4 DEF Lengthened
      <3>. QED  BY <1>4, <2>3, <3>1, <3>2, <3>3 DEF Framed
    <2>5. CASE k # q
      <3>1. k \in 0 .. (q - 1) /\ k \in 1 .. (q - 1) /\ t[k] = s[k]
        BY <1>1, <2>1, <2>5
      <3>2. Part(m, t, r, k) = Part(n, s, r, k)
        BY <1>11, <3>1
      <3>3. ASSUME s[k].head # NULL
            PROVE  /\ Loose(m, s[k].head) /\ s[k].current \in Part(m, t, r, k)
                   /\ m[s[k].current].next = NULL
        <4>1. /\ Loose(n, s[k].head) /\ s[k].current \in Part(n, s, r, k)
              /\ n[s[k].current].next = NULL
          BY <2>2, <3>3 DEF Framed
        <4>2. s[k].current \in DOMAIN n
          BY <1>3, <2>1, <4>1
        <4>3. s[k].current # p
          BY <1>1, <1>2, <1>4, <1>5, <2>1, <2>5, <4>1, <4>2 DEF Apart
        <4>. QED  BY <1>6, <1>16, <3>2, <4>1, <4>2, <4>3 DEF Lengthened
      <3>4. s[k].head = NULL <=> s[k].current = NULL
        BY <2>2 DEF Framed
      <3>. QED  BY <2>3, <3>1, <3>3, <3>4 DEF Framed
    <2>. QED  BY <2>4, <2>5
  <1>19. r # NULL => Loose(m, r)
    BY <1>16 DEF Built
  <1>. QED  BY <1>8, <1>12, <1>14, <1>15, <1>18, <1>19 DEF Built

\* A list that is closed without an item.
LEMMA BuiltLess ==
    ASSUME NEW n, NEW s \in Seq(Frame), NEW r, Built(n, s, r),
           NEW q, q = Len(s), q # 0, s[q].head = NULL, NEW t, Len(t) = q - 1,
           \A k \in 1 .. (q - 1) : t[k] = s[k]
    PROVE  Built(n, t, r)
  <1>1. q \in Nat \ {0}
    OBVIOUS
  <1>2. \A k \in 0 .. (q - 1) : Part(n, t, r, k) = Part(n, s, r, k)
    BY <1>1 DEF Part, ListOf
  <1>3. Part(n, s, r, q) = {}
    BY <1>1 DEF Part, ListOf, ReachedOf
  <1>4. \A k \in 0 .. q : k \in 0 .. (q - 1) \/ k = q
    BY <1>1
  <1>5. \A k \in 0 .. (q - 1) : k \in 0 .. q
    BY <1>1
  <1>6. DOMAIN n = UNION {Part(n, t, r, k) : k \in 0 .. (q - 1)}
    <2>1. DOMAIN n = UNION {Part(n, s, r, k) : k \in 0 .. q}
      BY DEF Built
    <2>. QED  BY ONLY <1>2, <1>3, <1>4, <1>5, <2>1
  <1>7. Apart(n, t, r)
    <2>1. Apart(n, s, r)
      BY DEF Built
    <2>. QED  BY <1>2, <1>5, <2>1 DEF Apart
  <1>8. ASSUME NEW k \in 1 .. (q - 1) PROVE Framed(n, t, r, k)
    <2>1. k \in 1 .. q /\ k \in 0 .. (q - 1) /\ k - 1 \in 0 .. (q - 1)
      BY <1>1
    <2>2. Framed(n, s, r, k) /\ t[k] = s[k]
      BY <2>1 DEF Built
    <2>3. Part(n, t, r, k) = Part(n, s, r, k) /\ Part(n, t, r, k - 1) = Part(n, s, r, k - 1)
      BY <1>2, <2>1
    <2>. QED  BY ONLY <2>2, <2>3 DEF Framed
  <1>9. Len(t) = q - 1
    OBVIOUS
  <1>. QED  BY <1>6, <1>7, <1>8, <1>9 DEF Built

\* m is n with list h for the children of i.
Parented(n, m, i, h) ==
    /\ DOMAIN m = DOMAIN n
    /\ \A j \in DOMAIN n :
         /\ m[j].child = IF j = i THEN h ELSE n[j].child
         /\ m[j].next = n[j].next /\ m[j].prev = n[j].prev
         /\ m[j].reference = n[j].reference /\ m[j].const = n[j].const

LEMMA LinkedChild ==
    ASSUME NEW n, NEW m, Nodes(n), Linked(n), NEW i \in DOMAIN n,
           n[i].child = NULL, NEW h, Loose(n, h), Parented(n, m, i, h)
    PROVE  /\ Linked(m) /\ Goes(m, i) = Goes(n, i) \cup {h}
           /\ \A j \in DOMAIN n \ {i} : Goes(m, j) = Goes(n, j)
  <1>1. h # NULL /\ h \in DOMAIN n /\ NULL \notin DOMAIN n /\ DOMAIN m = DOMAIN n
    BY HeapAssumption DEF Nodes, Loose, Parented
  <1>2. \A j \in DOMAIN m : m[j].reference = FALSE /\ m[j].const = FALSE
    BY DEF Linked, Parented
  <1>3. Goes(m, i) = Goes(n, i) \cup {h}
    <2>1. m[i].next = n[i].next /\ m[i].child = h
      BY DEF Parented
    <2>2. m[i].reference = FALSE /\ n[i].reference = FALSE
      BY <1>1, <1>2 DEF Linked
    <2>3. Goes(m, i) = {n[i].next, h} \ {NULL}
      BY ONLY <2>1, <2>2 DEF Goes
    <2>4. Goes(n, i) = {n[i].next, NULL} \ {NULL}
      BY ONLY <2>2, n[i].child = NULL DEF Goes
    <2>. QED  BY ONLY <1>1, <2>3, <2>4
  <1>4. \A j \in DOMAIN n \ {i} : Goes(m, j) = Goes(n, j)
    BY DEF Parented, Goes
  <1>5. Closed(m)
    <2>1. IsFiniteSet(DOMAIN n) /\ \A j \in DOMAIN n : Goes(n, j) \subseteq DOMAIN n
      BY DEF Linked, Closed
    <2>2. \A j \in DOMAIN m : Goes(m, j) \subseteq DOMAIN m
      BY <1>1, <1>3, <1>4, <2>1
    <2>. QED  BY <1>1, <2>1, <2>2 DEF Closed
  <1>6. \A j, k \in DOMAIN m : m[k].next = j => m[j].prev = k
    BY SMT DEF Linked, Parented
  <1>7. ASSUME NEW j \in DOMAIN m, m[j].prev # NULL
        PROVE  m[j].prev \in DOMAIN m /\ m[m[j].prev].next = j
    <2>1. m[j].prev = n[j].prev /\ j \in DOMAIN n
      BY DEF Parented
    <2>2. n[j].prev \in DOMAIN n /\ n[n[j].prev].next = j
      BY <1>7, <2>1 DEF Linked
    <2>. QED  BY <2>1, <2>2 DEF Parented
  <1>8. ASSUME NEW j \in DOMAIN m, NEW k \in DOMAIN m, m[k].child = j
        PROVE  /\ m[j].prev = NULL
               /\ \/ k = i /\ j = h
                  \/ k # i /\ j # h /\ n[k].child = j
    <2>1. CASE k = i
      BY <1>8, <2>1 DEF Parented, Loose
    <2>2. CASE k # i
      <3>1. n[k].child = j /\ m[j].prev = n[j].prev
        BY <1>8, <2>2 DEF Parented
      <3>2. n[j].prev = NULL
        BY <1>1, <3>1 DEF Linked
      <3>3. j # h
        BY <1>1, <3>1 DEF Loose
      <3>. QED  BY <2>2, <3>1, <3>2, <3>3
    <2>. QED  BY <2>1, <2>2
  <1>9. \A j, k \in DOMAIN m : m[k].child = j => m[j].prev = NULL
    BY <1>8
  <1>10. \A j, k, l \in DOMAIN m : m[k].child = j /\ m[l].child = j => k = l
    <2>1. \A j, k, l \in DOMAIN n : n[k].child = j /\ n[l].child = j => k = l
      BY DEF Linked
    <2>. QED  BY <1>1, <1>8, <2>1
  <1>11. Linked(m)
    BY <1>2, <1>5, <1>6, <1>7, <1>9, <1>10 DEF Linked
  <1>. QED  BY <1>3, <1>4, <1>11

\* The list on top becomes the children of its item.
LEMMA BuiltClose ==
    ASSUME NEW n, NEW m, Nodes(n), Nodes(m), NEW s \in Seq(Frame), NEW r,
           Built(n, s, r), NEW q, q = Len(s), q # 0, NEW t, Len(t) = q - 1,
           \A k \in 1 .. (q - 1) : t[k] = s[k],
           Parented(n, m, s[q].item, s[q].head)
    PROVE  Built(m, t, r)
  <1>. DEFINE i == s[q].item
              h == s[q].head
  <1>1. q \in Nat \ {0} /\ q \in 1 .. q /\ q \in 0 .. q /\ q - 1 \in 0 .. q /\ q - 1 # q
    OBVIOUS
  <1>2. Framed(n, s, r, q) /\ Linked(n) /\ Closed(n) /\ Apart(n, s, r)
    BY <1>1 DEF Built, Linked
  <1>3. \A k \in 0 .. q : Part(n, s, r, k) \subseteq DOMAIN n
    BY PartIs
  <1>4. i \in Part(n, s, r, q - 1) /\ i \in DOMAIN n /\ n[i].child = NULL
    BY <1>1, <1>2, <1>3 DEF Framed
  <1>5. CASE h = NULL
    <2>1. SameLinks(n, m)
      BY <1>4, <1>5 DEF Parented, SameLinks
    <2>2. Built(m, s, r)
      BY <2>1, BuiltAs
    <2>. QED  BY <1>5, <2>2, BuiltLess
  <1>6. CASE h # NULL
    <2>1. Loose(n, h) /\ h \in DOMAIN n
      BY <1>2, <1>6 DEF Framed, Loose
    <2>2. Parented(n, m, i, h)
      OBVIOUS
    <2>3. Part(n, s, r, q) = ReachedOf(n, h)
      BY <1>1 DEF Part, ListOf
    <2>4. h \in Part(n, s, r, q)
      BY <1>1, <1>2, <1>6, <2>1, <2>3, ReachFacts
    <2>. HIDE DEF i, h
    <2>5. /\ Linked(m) /\ Goes(m, i) = Goes(n, i) \cup {h}
          /\ \A j \in DOMAIN n \ {i} : Goes(m, j) = Goes(n, j)
      BY <1>2, <1>4, <2>1, <2>2, LinkedChild
    <2>6. Closed(m) /\ DOMAIN m = DOMAIN n
      BY <2>2, <2>5 DEF Linked, Parented
    <2>7. i \notin Part(n, s, r, q)
      BY <1>1, <1>2, <1>4 DEF Apart
    <2>8. ReachedOf(m, h) = Part(n, s, r, q)
      <3>1. \A j \in ReachedOf(n, h) : Goes(m, j) = Goes(n, j)
        BY <1>1, <1>3, <2>3, <2>5, <2>7
      <3>2. ReachedOf(n, h) \subseteq DOMAIN m
        BY <1>1, <1>3, <2>3, <2>6
      <3>. QED  BY <1>2, <2>1, <2>3, <2>6, <3>1, <3>2, SameReach
    <2>9. ASSUME NEW k \in 0 .. (q - 1)
          PROVE  Part(m, t, r, k) = IF k = q - 1
                   THEN Part(n, s, r, k) \cup Part(n, s, r, q) ELSE Part(n, s, r, k)
      <3>. DEFINE a == ListOf(s, r, k)
      <3>1. k \in 0 .. q /\ ListOf(t, r, k) = ListOf(s, r, k)
        BY <1>1 DEF ListOf
      <3>2. a \in DOMAIN n \cup {NULL}
        BY <3>1, ListIs
      <3>3. Part(m, t, r, k) = ReachedOf(m, a) /\ Part(n, s, r, k) = ReachedOf(n, a)
        BY <3>1 DEF Part
      <3>. HIDE DEF a
      <3>4. CASE k = q - 1
        <4>1. i \in ReachedOf(n, a)
          BY <1>4, <3>3, <3>4
        <4>2. a \in DOMAIN n
          BY <3>2, <4>1 DEF ReachedOf
        <4>3. DOMAIN n \subseteq DOMAIN m /\ h \in DOMAIN m
          BY <2>1, <2>6
        <4>4. ReachedOf(m, a) = ReachedOf(n, a) \cup ReachedOf(m, h)
          BY ONLY Nodes(n), Nodes(m), <1>2, <2>5, <2>6, <4>1, <4>2, <4>3, MoreReach
        <4>. QED  BY <2>8, <3>3, <3>4, <4>4
      <3>5. CASE k # q - 1
        <4>1. i \notin ReachedOf(n, a)
          BY <1>1, <1>2, <1>4, <3>1, <3>3, <3>5 DEF Apart
        <4>2. ReachedOf(n, a) \subseteq DOMAIN n
          BY <1>3, <3>1, <3>3
        <4>3. \A j \in ReachedOf(n, a) : Goes(m, j) = Goes(n, j)
          BY <2>5, <4>1, <4>2
        <4>4. ReachedOf(m, a) = ReachedOf(n, a)
          BY <1>2, <2>6, <3>2, <4>2, <4>3, SameReach
        <4>. QED  BY <3>3, <3>5, <4>4
      <3>. QED  BY <3>4, <3>5
    <2>10. DOMAIN m = UNION {Part(m, t, r, k) : k \in 0 .. (q - 1)}
      <3>1. DOMAIN n = UNION {Part(n, s, r, k) : k \in 0 .. q}
        BY DEF Built
      <3>2. \A k \in 0 .. q : k \in 0 .. (q - 1) \/ k = q
        BY <1>1
      <3>3. q - 1 \in 0 .. (q - 1)
        BY <1>1
      <3>4. \A k \in 0 .. (q - 1) : k \in 0 .. q
        BY <1>1
      <3>5. UNION {Part(m, t, r, k) : k \in 0 .. (q - 1)} \subseteq DOMAIN n
        BY ONLY <1>1, <1>3, <2>9, <3>4
      <3>6. \A k \in 0 .. (q - 1) : Part(n, s, r, k) \subseteq Part(m, t, r, k)
        BY <2>9
      <3>7. Part(n, s, r, q) \subseteq Part(m, t, r, q - 1)
        BY <2>9, <3>3
      <3>. QED  BY ONLY <2>6, <3>1, <3>2, <3>3, <3>5, <3>6, <3>7
    <2>11. Apart(m, t, r)
      <3>1. ASSUME NEW k \in 0 .. (q - 1), NEW l \in 0 .. (q - 1), k # l
            PROVE  Part(m, t, r, k) \cap Part(m, t, r, l) = {}
        <4>1. k \in 0 .. q /\ l \in 0 .. q /\ k # q /\ l # q
          BY <1>1
        <4>2. /\ Part(n, s, r, k) \cap Part(n, s, r, l) = {}
              /\ Part(n, s, r, k) \cap Part(n, s, r, q) = {}
              /\ Part(n, s, r, l) \cap Part(n, s, r, q) = {}
          BY <1>1, <1>2, <3>1, <4>1 DEF Apart
        <4>3. ~(k = q - 1 /\ l = q - 1)
          BY <3>1
        <4>. QED  BY ONLY <2>9, <4>2, <4>3, k \in 0 .. (q - 1), l \in 0 .. (q - 1)
      <3>. QED  BY <3>1 DEF Apart
    <2>12. \A j : Loose(n, j) /\ j # h => Loose(m, j)
      BY <2>2 DEF Loose, Parented
    <2>13. ASSUME NEW k \in 1 .. (q - 1) PROVE Framed(m, t, r, k)
      <3>1. k \in 1 .. q /\ k \in 0 .. q /\ k - 1 \in 0 .. q /\ k # q /\ k - 1 # q
            /\ k \in 0 .. (q - 1) /\ k - 1 \in 0 .. (q - 1) /\ k - 1 # q - 1
        BY <1>1
      <3>2. Framed(n, s, r, k) /\ t[k] = s[k]
        BY <3>1 DEF Built
      <3>3. /\ Part(m, t, r, k - 1) = Part(n, s, r, k - 1)
            /\ Part(n, s, r, k) \subseteq Part(m, t, r, k)
        BY <2>9, <3>1
      <3>4. t[k].item \in Part(m, t, r, k - 1) /\ m[t[k].item].child = NULL
        <4>1. s[k].item \in Part(n, s, r, k - 1) /\ n[s[k].item].child = NULL
          BY <3>2 DEF Framed
        <4>2. s[k].item # i /\ s[k].item \in DOMAIN n
          BY <1>1, <1>2, <1>3, <1>4, <3>1, <4>1 DEF Apart
        <4>. QED  BY <2>2, <3>2, <3>3, <4>1, <4>2 DEF Parented
      <3>5. ASSUME s[k].head # NULL
            PROVE  /\ Loose(m, s[k].head) /\ s[k].current \in Part(m, t, r, k)
                   /\ m[s[k].current].next = NULL
        <4>1. /\ Loose(n, s[k].head) /\ s[k].current \in Part(n, s, r, k)
              /\ n[s[k].current].next = NULL
          BY <3>2, <3>5 DEF Framed
        <4>2. s[k].current \in DOMAIN n
          BY <1>3, <3>1, <4>1
        <4>3. s[k].head \in Part(n, s, r, k)
          <5>1. ListOf(s, r, k) = s[k].head
            BY <3>1 DEF ListOf
          <5>. QED  BY <3>1, <3>5, <5>1, PartIs
        <4>4. s[k].head # h
          BY <1>1, <1>2, <2>4, <3>1, <4>3 DEF Apart
        <4>. QED  BY <2>2, <2>12, <3>3, <4>1, <4>2, <4>4 DEF Parented
      <3>6. s[k].head = NULL <=> s[k].current = NULL
        BY <3>2 DEF Framed
      <3>. QED  BY <3>2, <3>4, <3>5, <3>6 DEF Framed
    <2>14. r # NULL => Loose(m, r)
      <3>1. 0 \in 0 .. q /\ ListOf(s, r, 0) = r /\ 0 # q
        BY <1>1 DEF ListOf
      <3>2. r # NULL => r \in Part(n, s, r, 0)
        BY <3>1, PartIs
      <3>3. r # NULL => r # h
        BY <1>1, <1>2, <2>4, <3>1, <3>2 DEF Apart
      <3>. QED  BY <2>12, <3>3 DEF Built
    <2>15. Len(t) = q - 1
      OBVIOUS
    <2>. QED  BY <2>5, <2>10, <2>11, <2>13, <2>14, <2>15 DEF Built
  <1>. QED  BY <1>5, <1>6

\* m is n without some items, which lead to none of the others nor they to them.
LEMMA LinkedCut ==
    ASSUME NEW n, NEW m, Nodes(n), Linked(n), DOMAIN m \subseteq DOMAIN n,
           \A j \in DOMAIN m : m[j] = n[j],
           \A j \in DOMAIN m : Goes(n, j) \subseteq DOMAIN m,
           \A j \in DOMAIN n \ DOMAIN m : Goes(n, j) \cap DOMAIN m = {}
    PROVE  Linked(m) /\ \A j \in DOMAIN m : Goes(m, j) = Goes(n, j)
  <1>1. \A j \in DOMAIN m : Goes(m, j) = Goes(n, j)
    BY DEF Goes
  <1>2. Closed(m)
    BY <1>1, FS_Subset DEF Linked, Closed
  <1>3. ASSUME NEW i \in DOMAIN m, m[i].prev # NULL
        PROVE  m[i].prev \in DOMAIN m /\ m[m[i].prev].next = i
    <2>1. n[i].prev \in DOMAIN n /\ n[n[i].prev].next = i /\ m[i].prev = n[i].prev
      BY <1>3 DEF Linked
    <2>2. i \in Goes(n, n[i].prev)
      BY <2>1, HeapAssumption DEF Goes, Nodes
    <2>3. n[i].prev \in DOMAIN m
      BY <2>1, <2>2
    <2>. QED  BY <2>1, <2>3
  <1>4. \A i, j \in DOMAIN m : m[j].next = i => m[i].prev = j
    BY DEF Linked
  <1>5. \A i, j \in DOMAIN m : m[j].child = i => m[i].prev = NULL
    BY DEF Linked
  <1>6. \A i, j, k \in DOMAIN m : m[j].child = i /\ m[k].child = i => j = k
    BY DEF Linked
  <1>7. \A i \in DOMAIN m : m[i].reference = FALSE /\ m[i].const = FALSE
    BY DEF Linked
  <1>8. Linked(m)
    BY <1>2, <1>3, <1>4, <1>5, <1>6, <1>7 DEF Linked
  <1>. QED  BY <1>1, <1>8

\* The list on top is freed.
LEMMA BuiltCut ==
    ASSUME NEW n, NEW m, Nodes(n), Nodes(m), NEW s \in Seq(Frame), NEW r,
           Built(n, s, r), NEW q, q = Len(s), q # 0, NEW t, Len(t) = q - 1,
           \A k \in 1 .. (q - 1) : t[k] = s[k],
           DOMAIN m = DOMAIN n \ Part(n, s, r, q),
           \A j \in DOMAIN m : m[j] = n[j]
    PROVE  Built(m, t, r)
  <1>1. q \in Nat \ {0} /\ q \in 1 .. q /\ q \in 0 .. q /\ q - 1 \in 0 .. q /\ q - 1 # q
    OBVIOUS
  <1>2. Linked(n) /\ Closed(n) /\ Apart(n, s, r)
    BY DEF Built, Linked
  <1>3. \A k \in 0 .. q : /\ Part(n, s, r, k) \subseteq DOMAIN n
                          /\ \A j \in Part(n, s, r, k) :
                               Goes(n, j) \subseteq Part(n, s, r, k)
    BY PartIs
  <1>4. \A k \in 0 .. (q - 1) : Part(n, s, r, k) \subseteq DOMAIN m
    <2>1. \A k \in 0 .. (q - 1) : k \in 0 .. q /\ k # q
      BY <1>1
    <2>. QED  BY <1>1, <1>2, <1>3, <2>1 DEF Apart
  <1>5. DOMAIN m = UNION {Part(n, s, r, k) : k \in 0 .. (q - 1)}
    <2>1. DOMAIN n = UNION {Part(n, s, r, k) : k \in 0 .. q}
      BY DEF Built
    <2>2. \A k \in 0 .. q : k \in 0 .. (q - 1) \/ k = q
      BY <1>1
    <2>3. DOMAIN m = DOMAIN n \ Part(n, s, r, q)
      OBVIOUS
    <2>. QED  BY ONLY <1>4, <2>1, <2>2, <2>3
  <1>6. \A j \in DOMAIN m : Goes(n, j) \subseteq DOMAIN m
    <2>1. ASSUME NEW j \in DOMAIN m PROVE Goes(n, j) \subseteq DOMAIN m
      <3>1. PICK k \in 0 .. (q - 1) : j \in Part(n, s, r, k)
        BY <1>5
      <3>2. k \in 0 .. q
        BY <1>1
      <3>. QED  BY <1>3, <1>4, <3>1, <3>2
    <2>. QED  BY <2>1
  <1>7. \A j \in DOMAIN n \ DOMAIN m : Goes(n, j) \cap DOMAIN m = {}
    BY <1>1, <1>3
  <1>8. Linked(m) /\ \A j \in DOMAIN m : Goes(m, j) = Goes(n, j)
    BY ONLY Nodes(n), <1>2, DOMAIN m = DOMAIN n \ Part(n, s, r, q), <1>6, <1>7, LinkedCut,
            \A j \in DOMAIN m : m[j] = n[j]
  <1>9. ASSUME NEW k \in 0 .. (q - 1) PROVE Part(m, t, r, k) = Part(n, s, r, k)
    <2>1. k \in 0 .. q /\ ListOf(t, r, k) = ListOf(s, r, k)
      BY <1>1 DEF ListOf
    <2>2. ListOf(s, r, k) \in DOMAIN n \cup {NULL}
      BY <2>1, ListIs
    <2>3. \A j \in Part(n, s, r, k) : Goes(m, j) = Goes(n, j)
      BY <1>4, <1>8
    <2>. QED  BY <1>2, <1>4, <1>8, <2>1, <2>2, <2>3, SameReach DEF Part, Linked
  <1>10. DOMAIN m = UNION {Part(m, t, r, k) : k \in 0 .. (q - 1)}
    BY <1>5, <1>9
  <1>11. Apart(m, t, r)
    <2>1. \A k \in 0 .. (q - 1) : k \in 0 .. q
      BY <1>1
    <2>. QED  BY <1>2, <1>9, <2>1 DEF Apart
  <1>12. \A j \in DOMAIN m : Loose(n, j) => Loose(m, j)
    BY DEF Loose
  <1>13. ASSUME NEW k \in 0 .. (q - 1), ListOf(s, r, k) # NULL
         PROVE  Loose(m, ListOf(s, r, k))
    <2>1. k \in 0 .. q
      BY <1>1
    <2>2. Loose(n, ListOf(s, r, k)) /\ ListOf(s, r, k) \in Part(n, s, r, k)
      BY <1>13, <2>1, ListIs, PartIs
    <2>3. ListOf(s, r, k) \in DOMAIN m
      BY <1>4, <2>2
    <2>. QED  BY <1>12, <2>2, <2>3
  <1>14. ASSUME NEW k \in 1 .. (q - 1) PROVE Framed(m, t, r, k)
    <2>1. k \in 1 .. q /\ k \in 0 .. (q - 1) /\ k - 1 \in 0 .. (q - 1) /\ k # 0
      BY <1>1
    <2>2. Framed(n, s, r, k) /\ t[k] = s[k]
      BY <2>1 DEF Built
    <2>3. Part(m, t, r, k) = Part(n, s, r, k) /\ Part(m, t, r, k - 1) = Part(n, s, r, k - 1)
      BY <1>9, <2>1
    <2>4. Part(n, s, r, k) \subseteq DOMAIN m /\ Part(n, s, r, k - 1) \subseteq DOMAIN m
      BY <1>4, <2>1
    <2>5. s[k].head # NULL => Loose(m, s[k].head)
      BY <1>13, <2>1 DEF ListOf
    <2>6. \A j \in DOMAIN m : m[j] = n[j]
      OBVIOUS
    <2>. QED  BY ONLY <2>2, <2>3, <2>4, <2>5, <2>6 DEF Framed
  <1>15. r # NULL => Loose(m, r)
    <2>1. 0 \in 0 .. (q - 1) /\ ListOf(s, r, 0) = r
      BY <1>1 DEF ListOf
    <2>. QED  BY <1>13, <2>1
  <1>16. Len(t) = q - 1
    OBVIOUS
  <1>. QED  BY <1>8, <1>10, <1>11, <1>14, <1>15, <1>16 DEF Built

\* A heap without items.
LEMMA BuiltEmpty ==
    ASSUME NEW n, DOMAIN n = {}
    PROVE  Built(n, <<>>, NULL)
  <1>1. Linked(n)
    BY FS_EmptySet DEF Linked, Closed
  <1>2. Part(n, <<>>, NULL, 0) = {}
    BY DEF Part, ListOf, ReachedOf
  <1>3. Len(<<>>) = 0 /\ \A k : k \in 0 .. 0 <=> k = 0
    OBVIOUS
  <1>. QED  BY <1>1, <1>2, <1>3 DEF Built, Apart

\* A heap with one.
LEMMA BuiltOne ==
    ASSUME NEW n, Nodes(n), NEW i, DOMAIN n = {i}, n[i].next = NULL,
           n[i].prev = NULL, n[i].child = NULL, n[i].reference = FALSE,
           n[i].const = FALSE
    PROVE  Built(n, <<>>, i) /\ i \in Part(n, <<>>, i, 0)
  <1>1. i # NULL
    BY HeapAssumption DEF Nodes
  <1>2. Goes(n, i) = {}
    BY DEF Goes
  <1>3. Closed(n)
    BY <1>2, FS_Singleton DEF Closed
  <1>4. Linked(n) /\ Loose(n, i)
    BY <1>1, <1>3 DEF Linked, Loose
  <1>5. Part(n, <<>>, i, 0) = {i}
    <2>1. i \in ReachedOf(n, i) /\ ReachedOf(n, i) \subseteq {i}
      BY <1>1, <1>3, ReachFacts
    <2>. QED  BY <2>1 DEF Part, ListOf
  <1>6. Len(<<>>) = 0 /\ \A k : k \in 0 .. 0 <=> k = 0
    OBVIOUS
  <1>. QED  BY <1>1, <1>4, <1>5, <1>6 DEF Built, Apart

-----------------------------------------------------------------------------
(* The texts of the items *)

\* Owned, of any heap.
OwnedOf(n, i) ==
    ({IF n[i].reference THEN NULL ELSE n[i].valuestring}
     \cup {IF n[i].const THEN NULL ELSE n[i].string}) \ {NULL}

OwnedIn(n, S) == UNION {OwnedOf(n, i) : i \in S}

LEMMA OwnedInIs ==
    \A n, S, x : x \in OwnedIn(n, S) <=> \E i \in S : x \in OwnedOf(n, i)
  BY DEF OwnedIn

\* Every text of s is that of one item, or the one o that is being copied.
Texted(n, s, o) ==
    /\ DOMAIN s = OwnedIn(n, DOMAIN n) \cup ({o} \ {NULL})
    /\ \A i \in DOMAIN n : n[i].reference = FALSE /\ n[i].const = FALSE
    /\ \A i \in DOMAIN n : n[i].string # NULL => n[i].string # n[i].valuestring
    /\ \A i, j \in DOMAIN n : i # j => OwnedOf(n, i) \cap OwnedOf(n, j) = {}
    /\ \A i \in DOMAIN n : o \notin OwnedOf(n, i)

\* The parser changes links, or adds an item that has no texts.
SameTexts(n, m, new) ==
    /\ DOMAIN m = DOMAIN n \cup new
    /\ \A i \in DOMAIN n :
         /\ m[i].string = n[i].string /\ m[i].valuestring = n[i].valuestring
         /\ m[i].reference = n[i].reference /\ m[i].const = n[i].const
    /\ \A i \in new \ DOMAIN n :
         /\ m[i].string = NULL /\ m[i].valuestring = NULL
         /\ m[i].reference = FALSE /\ m[i].const = FALSE

LEMMA TextedAs ==
    ASSUME NEW n, NEW m, NEW new, NEW s, NEW t, NEW o, Texted(n, s, o),
           SameTexts(n, m, new), DOMAIN t = DOMAIN s
    PROVE  Texted(m, t, o)
  <1>1. \A i \in DOMAIN n : OwnedOf(m, i) = OwnedOf(n, i)
    BY DEF SameTexts, OwnedOf
  <1>2. \A i \in DOMAIN m \ DOMAIN n : OwnedOf(m, i) = {}
    BY DEF SameTexts, OwnedOf
  <1>3. DOMAIN m = DOMAIN n \cup new
    BY DEF SameTexts
  <1>4. DOMAIN t = OwnedIn(m, DOMAIN m) \cup ({o} \ {NULL})
    <2>1. DOMAIN s = OwnedIn(n, DOMAIN n) \cup ({o} \ {NULL})
      BY DEF Texted
    <2>2. OwnedIn(m, DOMAIN m) = OwnedIn(n, DOMAIN n)
      <3>1. ASSUME NEW x PROVE x \in OwnedIn(m, DOMAIN m) <=> x \in OwnedIn(n, DOMAIN n)
        BY ONLY <1>1, <1>2, <1>3, OwnedInIs
      <3>. QED  BY ONLY <3>1 DEF OwnedIn
    <2>. QED  BY <2>1, <2>2
  <1>5. \A i, j \in DOMAIN m : i # j => OwnedOf(m, i) \cap OwnedOf(m, j) = {}
    <2>1. \A i, j \in DOMAIN n : i # j => OwnedOf(n, i) \cap OwnedOf(n, j) = {}
      BY DEF Texted
    <2>. QED  BY <1>1, <1>2, <1>3, <2>1
  <1>6. \A i \in DOMAIN m : o \notin OwnedOf(m, i)
    BY <1>1, <1>2 DEF Texted
  <1>7. \A i \in DOMAIN m : m[i].reference = FALSE /\ m[i].const = FALSE
    BY <1>3 DEF Texted, SameTexts
  <1>8. \A i \in DOMAIN m : m[i].string # NULL => m[i].string # m[i].valuestring
    BY <1>3 DEF Texted, SameTexts
  <1>. QED  BY <1>4, <1>5, <1>6, <1>7, <1>8 DEF Texted

\* A text is begun.
LEMMA TextedBegun ==
    ASSUME NEW n, NEW s, Texted(n, s, NULL), NEW x, x \notin DOMAIN s, x # NULL,
           NEW t, DOMAIN t = DOMAIN s \cup {x}
    PROVE  Texted(n, t, x)
  <1>1. DOMAIN s = OwnedIn(n, DOMAIN n) \cup ({NULL} \ {NULL})
    BY DEF Texted
  <1>2. DOMAIN t = OwnedIn(n, DOMAIN n) \cup ({x} \ {NULL})
    BY <1>1
  <1>3. \A i \in DOMAIN n : x \notin OwnedOf(n, i)
    BY <1>1, OwnedInIs
  <1>. QED  BY <1>2, <1>3 DEF Texted

\* It is given up.
LEMMA TextedDropped ==
    ASSUME NEW n, NEW s, NEW o, Texted(n, s, o), NEW t, DOMAIN t = DOMAIN s \ {o}
    PROVE  Texted(n, t, NULL)
  <1>1. /\ DOMAIN s = OwnedIn(n, DOMAIN n) \cup ({o} \ {NULL})
        /\ \A i \in DOMAIN n : o \notin OwnedOf(n, i)
    BY DEF Texted
  <1>2. DOMAIN t = OwnedIn(n, DOMAIN n) \cup ({NULL} \ {NULL})
    <2>1. o \notin OwnedIn(n, DOMAIN n)
      BY <1>1, OwnedInIs
    <2>2. NULL \notin OwnedIn(n, DOMAIN n)
      BY OwnedInIs DEF OwnedOf
    <2>. QED  BY <1>1, <2>1, <2>2
  <1>3. \A i \in DOMAIN n : NULL \notin OwnedOf(n, i)
    BY DEF OwnedOf
  <1>. QED  BY <1>2, <1>3 DEF Texted

\* It becomes the value of item k, or its name.
LEMMA TextedEnded ==
    ASSUME NEW n, NEW s, NEW o, Texted(n, s, o), o # NULL, NEW k \in DOMAIN n,
           n[k].valuestring = NULL, NEW m, DOMAIN m = DOMAIN n,
           \A i \in DOMAIN n \ {k} :
             /\ m[i].string = n[i].string /\ m[i].valuestring = n[i].valuestring,
           \A i \in DOMAIN n :
             m[i].reference = n[i].reference /\ m[i].const = n[i].const,
           \/ m[k].valuestring = o /\ m[k].string = n[k].string
           \/ n[k].string = NULL /\ m[k].string = o /\ m[k].valuestring = NULL
    PROVE  Texted(m, s, NULL)
  <1>1. /\ DOMAIN s = OwnedIn(n, DOMAIN n) \cup ({o} \ {NULL})
        /\ \A i \in DOMAIN n : o \notin OwnedOf(n, i)
        /\ \A i, j \in DOMAIN n : i # j => OwnedOf(n, i) \cap OwnedOf(n, j) = {}
        /\ \A i \in DOMAIN n : n[i].reference = FALSE /\ n[i].const = FALSE
    BY DEF Texted
  <1>2. \A i \in DOMAIN n \ {k} : OwnedOf(m, i) = OwnedOf(n, i)
    BY DEF OwnedOf
  <1>3. OwnedOf(m, k) = OwnedOf(n, k) \cup {o}
    <2>1. OwnedOf(n, k) = {NULL, n[k].string} \ {NULL}
      BY <1>1 DEF OwnedOf
    <2>2. OwnedOf(m, k) = {m[k].valuestring, m[k].string} \ {NULL}
      BY <1>1 DEF OwnedOf
    <2>. QED  BY <2>1, <2>2
  <1>4. DOMAIN s = OwnedIn(m, DOMAIN m) \cup ({NULL} \ {NULL})
    <2>1. \A i \in DOMAIN n : OwnedOf(n, i) \subseteq OwnedOf(m, i)
      BY <1>2, <1>3
    <2>2. \A i \in DOMAIN n : OwnedOf(m, i) \subseteq OwnedOf(n, i) \cup {o}
      BY <1>2, <1>3
    <2>3. o \in OwnedOf(m, k)
      BY <1>3
    <2>4. OwnedIn(m, DOMAIN m) = OwnedIn(n, DOMAIN n) \cup {o}
      BY ONLY <2>1, <2>2, <2>3, OwnedInIs, DOMAIN m = DOMAIN n, k \in DOMAIN n
    <2>. QED  BY ONLY <1>1, <2>4, o # NULL
  <1>5. \A i, j \in DOMAIN m : i # j => OwnedOf(m, i) \cap OwnedOf(m, j) = {}
    BY <1>1, <1>2, <1>3
  <1>6. \A i \in DOMAIN m : NULL \notin OwnedOf(m, i)
    BY DEF OwnedOf
  <1>7. \A i \in DOMAIN m : m[i].reference = FALSE /\ m[i].const = FALSE
    BY <1>1
  <1>8. ASSUME NEW i \in DOMAIN m, m[i].string # NULL
        PROVE  m[i].string # m[i].valuestring
    <2>1. CASE i = k
      <3>1. n[k].string # NULL => n[k].string \in OwnedOf(n, k)
        BY <1>1 DEF OwnedOf
      <3>2. o \notin OwnedOf(n, k)
        BY <1>1
      <3>. QED  BY <1>8, <2>1, <3>1, <3>2
    <2>2. CASE i # k
      BY <1>8, <2>2 DEF Texted
    <2>. QED  BY <2>1, <2>2
  <1>. QED  BY <1>4, <1>5, <1>6, <1>7, <1>8 DEF Texted

\* Items are freed, and their texts.
LEMMA TextedCut ==
    ASSUME NEW n, NEW s, NEW o, Texted(n, s, o), NEW m, DOMAIN m \subseteq DOMAIN n,
           \A j \in DOMAIN m : m[j] = n[j], NEW t,
           DOMAIN t = DOMAIN s \ OwnedIn(n, DOMAIN n \ DOMAIN m)
    PROVE  Texted(m, t, o)
  <1>1. /\ DOMAIN s = OwnedIn(n, DOMAIN n) \cup ({o} \ {NULL})
        /\ \A i \in DOMAIN n : o \notin OwnedOf(n, i)
        /\ \A i, j \in DOMAIN n : i # j => OwnedOf(n, i) \cap OwnedOf(n, j) = {}
    BY DEF Texted
  <1>2. \A i \in DOMAIN m : OwnedOf(m, i) = OwnedOf(n, i)
    BY DEF OwnedOf
  <1>3. DOMAIN t = OwnedIn(m, DOMAIN m) \cup ({o} \ {NULL})
    <2>1. ASSUME NEW x
          PROVE  x \in OwnedIn(m, DOMAIN m) <=>
                   x \in OwnedIn(n, DOMAIN n) /\ x \notin OwnedIn(n, DOMAIN n \ DOMAIN m)
      BY ONLY <1>1, <1>2, OwnedInIs, DOMAIN m \subseteq DOMAIN n
    <2>2. o \notin OwnedIn(n, DOMAIN n \ DOMAIN m)
      BY <1>1, OwnedInIs
    <2>3. DOMAIN t = DOMAIN s \ OwnedIn(n, DOMAIN n \ DOMAIN m)
      OBVIOUS
    <2>. QED  BY ONLY <1>1, <2>1, <2>2, <2>3
  <1>4. \A i, j \in DOMAIN m : i # j => OwnedOf(m, i) \cap OwnedOf(m, j) = {}
    BY <1>1, <1>2
  <1>5. \A i \in DOMAIN m : o \notin OwnedOf(m, i)
    BY <1>1, <1>2
  <1>6. /\ \A i \in DOMAIN m : m[i].reference = FALSE /\ m[i].const = FALSE
        /\ \A i \in DOMAIN m : m[i].string # NULL => m[i].string # m[i].valuestring
    BY DEF Texted
  <1>. QED  BY <1>3, <1>4, <1>5, <1>6 DEF Texted

-----------------------------------------------------------------------------
(* Nothing is lost: the inductive invariant *)

\* The item has no value yet; nor a name.
Working == pc \in {"value", "name", "scan", "decode"}
Naming  == pc = "name" \/ (pc \in {"scan", "decode"} /\ naming)

LinkInv ==
    /\ Built(node, stack, root)
    /\ Working => /\ item \in Part(node, stack, root, Len(stack))
                  /\ node[item].child = NULL
    /\ pc = "start" => root = NULL /\ stack = <<>>

TextInv ==
    /\ Texted(node, str, output)
    /\ pc = "decode" <=> output # NULL
    /\ Working => node[item].valuestring = NULL
    /\ Naming => node[item].string = NULL

KeptInv == LinkInv /\ TextInv

LEMMA KeptFacts ==
    ASSUME ParseInv, KeptInv
    PROVE  /\ Nodes(node) /\ Strs(str)
           /\ stack \in Seq(Frame) /\ Len(stack) \in Nat
           /\ Built(node, stack, root) /\ Closed(node)
           /\ Working => item \in DOMAIN node
           /\ NULL \notin DOMAIN node
  <1>1. /\ Nodes(node) /\ Strs(str) /\ stack \in Seq(Frame)
        /\ Built(node, stack, root) /\ Len(stack) \in Nat
    BY HeapHere DEF ParseInv, TypeOK, KeptInv, LinkInv
  <1>2. Closed(node) /\ NULL \notin DOMAIN node
    BY <1>1, HeapAssumption DEF Built, Linked, Nodes
  <1>3. Working => item \in DOMAIN node
    <2>1. Len(stack) \in 0 .. Len(stack)
      BY <1>1
    <2>2. Part(node, stack, root, Len(stack)) \subseteq DOMAIN node
      BY <1>1, <2>1, PartIs
    <2>. QED  BY <2>2 DEF KeptInv, LinkInv
  <1>. QED  BY <1>1, <1>2, <1>3

\* What a step does to the links if it leaves them alone.
LEMMA LinksAs ==
    ASSUME ParseInv, KeptInv, ParseInv', SameLinks(node, node'),
           UNCHANGED <<stack, root>>, Working' => Working /\ item' = item,
           pc' = "start" => pc = "start"
    PROVE  LinkInv'
  <1>1. Nodes(node) /\ Nodes(node') /\ Built(node, stack, root)
    BY KeptFacts, HeapIs DEF ParseInv, TypeOK
  <1>2. /\ Built(node', stack, root)
        /\ \A k \in 0 .. Len(stack) :
             Part(node', stack, root, k) = Part(node, stack, root, k)
    BY <1>1, BuiltAs
  <1>3. ASSUME Working'
        PROVE  /\ item' \in Part(node', stack', root', Len(stack'))
               /\ node'[item'].child = NULL
    <2>1. Len(stack) \in 0 .. Len(stack) /\ item \in DOMAIN node
      BY <1>3, KeptFacts
    <2>2. /\ item \in Part(node, stack, root, Len(stack))
          /\ node[item].child = NULL
      BY <1>3 DEF KeptInv, LinkInv
    <2>3. node'[item].child = NULL
      BY <2>1, <2>2 DEF SameLinks
    <2>. QED  BY <1>2, <1>3, <2>1, <2>2, <2>3
  <1>. QED  BY <1>2, <1>3 DEF KeptInv, LinkInv

\* And to the texts.
LEMMA TextsAs ==
    ASSUME ParseInv, KeptInv, SameTexts(node, node', {}),
           DOMAIN str' = DOMAIN str, output' = output,
           Working' => Working /\ item' = item, Naming' => Naming,
           pc' = "decode" <=> output # NULL
    PROVE  TextInv'
  <1>1. Texted(node', str', output)
    BY TextedAs DEF KeptInv, TextInv
  <1>2. Naming' => Working'
    BY DEF Naming, Working
  <1>3. Working' => node'[item'].valuestring = NULL
    BY KeptFacts DEF KeptInv, TextInv, SameTexts
  <1>4. Naming' => node'[item'].string = NULL
    BY <1>2, KeptFacts DEF KeptInv, TextInv, SameTexts
  <1>. QED  BY <1>1, <1>3, <1>4 DEF TextInv

LEMMA NothingChanges == \A n : SameLinks(n, n) /\ SameTexts(n, n, {})
  BY DEF SameLinks, SameTexts

\* The type and the number of an item are neither.
LEMMA TypeChanges ==
    ASSUME NEW n, Nodes(n), NEW i, NEW t, NEW c, NEW m,
           \/ m = [n EXCEPT ![i].type = t]
           \/ m = [n EXCEPT ![i].type = t, ![i].number = c]
    PROVE  SameLinks(n, m) /\ SameTexts(n, m, {})
  <1>1. DOMAIN m = DOMAIN n
    OBVIOUS
  <1>2. ASSUME NEW j \in DOMAIN n
        PROVE  /\ m[j].next = n[j].next /\ m[j].prev = n[j].prev
               /\ m[j].child = n[j].child
               /\ m[j].reference = n[j].reference /\ m[j].const = n[j].const
               /\ m[j].string = n[j].string /\ m[j].valuestring = n[j].valuestring
    <2>1. n[j] \in Item
      BY DEF Nodes
    <2>2. CASE j # i
      BY <2>2
    <2>3. CASE j = i
      <3>1. \/ m[j] = [n[j] EXCEPT !.type = t]
            \/ m[j] = [[n[j] EXCEPT !.type = t] EXCEPT !.number = c]
        BY <2>3
      <3>. QED  BY ONLY <2>1, <3>1 DEF Item
    <2>. QED  BY <2>2, <2>3
  <1>. QED  BY <1>1, <1>2 DEF SameLinks, SameTexts

\* Steps that neither link nor allocate.
LEMMA QuietKept ==
    ASSUME ParseInv, KeptInv, ParseInv', SameLinks(node, node'),
           SameTexts(node, node', {}), DOMAIN str' = DOMAIN str,
           UNCHANGED <<stack, root, output>>, Working' => Working /\ item' = item,
           Naming' => Naming, pc' = "start" => pc = "start",
           pc' = "decode" <=> pc = "decode"
    PROVE  KeptInv'
  <1>1. LinkInv'
    BY LinksAs
  <1>2. pc' = "decode" <=> output # NULL
    BY DEF KeptInv, TextInv
  <1>3. TextInv'
    BY <1>2, TextsAs
  <1>. QED  BY <1>1, <1>3 DEF KeptInv

LEMMA LiteralKept ==
    ASSUME ParseInv, KeptInv, ParseInv', Literal
    PROVE  KeptInv'
  <1>1. PICK type : node' = [node EXCEPT ![item].type = type]
    BY DEF Literal
  <1>2. SameLinks(node, node') /\ SameTexts(node, node', {})
    BY <1>1, KeptFacts, TypeChanges
  <1>3. /\ pc = "value" /\ pc' = "true"
        /\ UNCHANGED <<stack, item, naming, output, root, str>>
    BY DEF Literal, pass1, pass2
  <1>. QED  BY <1>2, <1>3, QuietKept DEF Working, Naming

LEMMA parse_numberKept ==
    ASSUME ParseInv, KeptInv, ParseInv', parse_number
    PROVE  KeptInv'
  <1>1. \/ node' = node
        \/ \E c : node' = [node EXCEPT ![item].type = "Number", ![item].number = c]
    BY Zenon DEF parse_number
  <1>2. SameLinks(node, node') /\ SameTexts(node, node', {})
    BY <1>1, KeptFacts, TypeChanges, NothingChanges
  <1>3. /\ pc = "value" /\ pc' \in {"true", "false"}
        /\ UNCHANGED <<stack, item, naming, output, root, str>>
    BY DEF parse_number, pass1, pass2
  <1>. QED  BY <1>2, <1>3, QuietKept DEF Working, Naming

LEMMA QuietStepKept ==
    ASSUME ParseInv, KeptInv, ParseInv',
           NoValue \/ parse_string \/ Scan \/ UNCHANGED parseVars
    PROVE  KeptInv'
  <1>1. UNCHANGED <<stack, item, output, root, node, str>>
    BY DEF NoValue, parse_string, Scan, parseVars, place, pass1, pass2, heap
  <1>2. SameLinks(node, node') /\ SameTexts(node, node', {})
    BY <1>1, NothingChanges
  <1>3. \/ pc = "value" /\ pc' = "false"
        \/ pc \in {"value", "name"} /\ naming' = (pc = "name")
             /\ pc' \in {"scan", "false"}
        \/ UNCHANGED <<pc, naming>>
    BY Zenon DEF NoValue, parse_string, Scan, parseVars, pass1
  <1>4. /\ Working' => Working
        /\ Naming' => Naming
        /\ pc' = "start" => pc = "start"
        /\ pc' = "decode" <=> pc = "decode"
    <2>1. CASE pc = "value" /\ pc' = "false"
      BY <2>1 DEF Working, Naming
    <2>2. CASE /\ pc \in {"value", "name"} /\ naming' = (pc = "name")
               /\ pc' \in {"scan", "false"}
      BY <2>2 DEF Working, Naming
    <2>3. CASE UNCHANGED <<pc, naming>>
      BY <2>3 DEF Working, Naming
    <2>. QED  BY <1>3, <2>1, <2>2, <2>3
  <1>. QED  BY <1>1, <1>2, <1>4, QuietKept

LEMMA AllocateKept ==
    ASSUME ParseInv, KeptInv, ParseInv', Allocate
    PROVE  KeptInv'
  <1>1. /\ pc = "scan" /\ UNCHANGED <<stack, item, naming, root, node>>
        /\ output = NULL
        /\ \/ /\ StringLeft /\ output' = FreeString
              /\ str' = With(str, FreeString, <<>>) /\ pc' = "decode"
           \/ pc' = "false" /\ UNCHANGED <<output, str>>
    BY DEF Allocate, pass1, KeptInv, TextInv
  <1>2. SameLinks(node, node') /\ SameTexts(node, node', {})
    BY <1>1, NothingChanges
  <1>3. CASE pc' = "false" /\ UNCHANGED <<output, str>>
    BY <1>1, <1>2, <1>3, QuietKept DEF Working, Naming
  <1>4. CASE /\ StringLeft /\ output' = FreeString
             /\ str' = With(str, FreeString, <<>>) /\ pc' = "decode"
    <2>1. Working /\ Working' /\ (Naming' => Naming)
      BY <1>1, <1>4 DEF Working, Naming
    <2>2. LinkInv'
      BY <1>1, <1>2, <1>4, <2>1, LinksAs
    <2>3. FreeString \notin DOMAIN str /\ FreeString # NULL
      <3>1. Strs(str)
        BY KeptFacts
      <3>2. \E x \in Strings : x \notin DOMAIN str
        BY <1>4, <3>1 DEF StringLeft, Strs
      <3>. QED  BY <3>2, HeapAssumption DEF FreeString
    <2>4. DOMAIN str' = DOMAIN str \cup {FreeString}
      BY <1>4 DEF With
    <2>5. Texted(node', str', output')
      BY <1>1, <1>4, <2>3, <2>4, TextedBegun DEF KeptInv, TextInv
    <2>6. /\ node'[item'].valuestring = NULL
          /\ Naming' => node'[item'].string = NULL
      BY <1>1, <2>1 DEF KeptInv, TextInv
    <2>7. pc' = "decode" /\ output' # NULL
      BY <1>4, <2>3
    <2>8. TextInv'
      BY ONLY <2>5, <2>6, <2>7 DEF TextInv
    <2>. QED  BY <2>2, <2>8 DEF KeptInv
  <1>. QED  BY <1>1, <1>3, <1>4

LEMMA DecodeKept ==
    ASSUME ParseInv, KeptInv, ParseInv', Decode
    PROVE  KeptInv'
  <1>1. /\ pc = "decode" /\ UNCHANGED <<stack, item, naming, root, node>>
        /\ \/ /\ \E out : str' = [str EXCEPT ![output] = @ \o out]
              /\ UNCHANGED <<pc, output>>
           \/ /\ str' = Restrict(str, DOMAIN str \ {output})
              /\ output' = NULL /\ pc' = "false"
    BY Zenon DEF Decode, pass1
  <1>2. SameLinks(node, node') /\ SameTexts(node, node', {})
    BY <1>1, NothingChanges
  <1>3. CASE /\ \E out : str' = [str EXCEPT ![output] = @ \o out]
             /\ UNCHANGED <<pc, output>>
    <2>1. DOMAIN str' = DOMAIN str
      BY <1>3
    <2>2. (Working' => Working) /\ (Naming' => Naming)
      BY <1>1, <1>3 DEF Working, Naming
    <2>. QED  BY <1>1, <1>2, <1>3, <2>1, <2>2, QuietKept
  <1>4. CASE /\ str' = Restrict(str, DOMAIN str \ {output})
             /\ output' = NULL /\ pc' = "false"
    <2>1. ~Working' /\ ~Naming'
      BY <1>4 DEF Working, Naming
    <2>2. LinkInv'
      BY <1>1, <1>2, <1>4, <2>1, LinksAs
    <2>3. DOMAIN str' = DOMAIN str \ {output}
      BY <1>4 DEF Restrict
    <2>4. Texted(node', str', output')
      BY <1>1, <1>4, <2>3, TextedDropped DEF KeptInv, TextInv
    <2>. QED  BY <1>4, <2>1, <2>2, <2>4 DEF KeptInv, TextInv
  <1>. QED  BY <1>1, <1>3, <1>4

\* The text becomes the item's value or its name.
LEMMA EndKept ==
    ASSUME ParseInv, KeptInv, ParseInv', EndValue \/ EndName
    PROVE  KeptInv'
  <1>1. /\ pc = "decode" /\ UNCHANGED <<stack, item, naming, root, str>>
        /\ output' = NULL
        /\ \/ /\ ~naming /\ pc' = "true"
              /\ node' = [node EXCEPT ![item].type = "String",
                                      ![item].valuestring = output]
           \/ /\ naming /\ pc' \in {"value", "false"}
              /\ node' = [node EXCEPT ![item].type = "String",
                                      ![item].string = output]
    BY Zenon DEF EndValue, EndName, pass1
  <1>2. /\ item \in DOMAIN node /\ node[item].valuestring = NULL
        /\ naming => node[item].string = NULL
        /\ Nodes(node) /\ Working
    BY <1>1, KeptFacts DEF KeptInv, TextInv, Working, Naming
  <1>3. DOMAIN node' = DOMAIN node /\ \A j \in DOMAIN node \ {item} : node'[j] = node[j]
    BY <1>1
  <1>4. /\ node'[item].next = node[item].next /\ node'[item].prev = node[item].prev
        /\ node'[item].child = node[item].child
        /\ node'[item].reference = node[item].reference
        /\ node'[item].const = node[item].const
        /\ \/ ~naming /\ node'[item].valuestring = output
                /\ node'[item].string = node[item].string
           \/ naming /\ node'[item].string = output
                /\ node'[item].valuestring = node[item].valuestring
    <2>1. \/ /\ ~naming
             /\ node'[item] = [[node[item] EXCEPT !.type = "String"]
                                  EXCEPT !.valuestring = output]
          \/ /\ naming
             /\ node'[item] = [[node[item] EXCEPT !.type = "String"]
                                  EXCEPT !.string = output]
      BY <1>1, <1>2
    <2>2. node[item] \in Item
      BY <1>2 DEF Nodes
    <2>. QED  BY ONLY <2>1, <2>2 DEF Item
  <1>5. SameLinks(node, node')
    BY <1>3, <1>4 DEF SameLinks
  <1>6. LinkInv'
    <2>1. Working' => Working /\ item' = item
      BY <1>1, <1>2
    <2>2. pc' # "start"
      BY <1>1
    <2>. QED  BY <1>1, <1>5, <2>1, <2>2, LinksAs
  <1>7. Texted(node', str', NULL)
    <2>1. Texted(node, str, output)
      BY DEF KeptInv, TextInv
    <2>2. /\ \A i \in DOMAIN node \ {item} :
               /\ node'[i].string = node[i].string
               /\ node'[i].valuestring = node[i].valuestring
          /\ \A i \in DOMAIN node :
               /\ node'[i].reference = node[i].reference
               /\ node'[i].const = node[i].const
      BY <1>3, <1>4
    <2>3. \/ /\ node'[item].valuestring = output
             /\ node'[item].string = node[item].string
          \/ /\ node[item].string = NULL /\ node'[item].string = output
             /\ node'[item].valuestring = NULL
      BY <1>2, <1>4
    <2>4. output # NULL
      BY <1>1 DEF KeptInv, TextInv
    <2>5. Texted(node', str, NULL)
      BY ONLY <1>2, <1>3, <2>1, <2>2, <2>3, <2>4, TextedEnded
    <2>. QED  BY <1>1, <2>5
  <1>8. pc' # "decode" /\ ~Naming' /\ (Working' => naming)
    BY <1>1 DEF Working, Naming
  <1>9. naming => node'[item].valuestring = NULL
    BY <1>2, <1>4
  <1>10. TextInv'
    BY ONLY <1>1, <1>7, <1>8, <1>9 DEF TextInv
  <1>. QED  BY <1>6, <1>10 DEF KeptInv

LEMMA StartKept ==
    ASSUME ParseInv, KeptInv, ParseInv', Start
    PROVE  KeptInv'
  <1>1. /\ pc = "start" /\ UNCHANGED <<stack, naming, output, str>>
        /\ \/ /\ ItemLeft /\ node' = With(node, FreeItem, Cleared)
              /\ root' = FreeItem /\ item' = FreeItem /\ pc' = "value"
           \/ pc' = "done" /\ UNCHANGED <<node, root, item>>
    BY DEF Start, cJSON_New_Item, pass1, pass2
  <1>2. CASE pc' = "done" /\ UNCHANGED <<node, root, item>>
    <2>1. SameLinks(node, node') /\ SameTexts(node, node', {})
      BY <1>2, NothingChanges
    <2>2. ~Working' /\ ~Naming' /\ pc' # "start" /\ pc' # "decode" /\ pc # "decode"
      BY <1>1, <1>2 DEF Working, Naming
    <2>. QED  BY <1>1, <1>2, <2>1, <2>2, QuietKept
  <1>3. CASE /\ ItemLeft /\ node' = With(node, FreeItem, Cleared)
             /\ root' = FreeItem /\ item' = FreeItem /\ pc' = "value"
    <2>. DEFINE i == FreeItem
    <2>1. stack = <<>> /\ root = NULL /\ Built(node, <<>>, NULL)
      BY <1>1 DEF KeptInv, LinkInv
    <2>2. DOMAIN node = {}
      <3>1. Len(<<>>) = 0 /\ \A k : k \in 0 .. 0 <=> k = 0
        OBVIOUS
      <3>2. Part(node, <<>>, NULL, 0) = {}
        BY DEF Part, ListOf, ReachedOf
      <3>. QED  BY <2>1, <3>1, <3>2 DEF Built
    <2>3. DOMAIN node' = {i} /\ node'[i] = Cleared
      BY <1>3, <2>2 DEF With
    <2>4. Nodes(node')
      BY HeapIs DEF ParseInv, TypeOK
    <2>. HIDE DEF i
    <2>5. Built(node', <<>>, i) /\ i \in Part(node', <<>>, i, 0)
      <3>1. /\ node'[i].next = NULL /\ node'[i].prev = NULL
            /\ node'[i].child = NULL
            /\ node'[i].reference = FALSE /\ node'[i].const = FALSE
        BY <2>3 DEF Cleared
      <3>. QED  BY <2>3, <2>4, <3>1, BuiltOne
    <2>6. LinkInv'
      <3>1. Len(<<>>) = 0
        OBVIOUS
      <3>2. node'[i].child = NULL
        BY <2>3 DEF Cleared
      <3>. QED  BY <1>1, <1>3, <2>1, <2>5, <3>1, <3>2 DEF LinkInv, i
    <2>7. SameTexts(node, node', {i})
      BY <2>2, <2>3 DEF SameTexts, Cleared
    <2>8. Texted(node', str', output')
      <3>1. Texted(node, str, output)
        BY DEF KeptInv, TextInv
      <3>. QED  BY <1>1, <2>7, <3>1, TextedAs
    <2>9. TextInv'
      <3>1. pc' # "decode" /\ ~Naming' /\ output' = NULL
        BY <1>1, <1>3 DEF KeptInv, TextInv, Naming
      <3>2. node'[item'].valuestring = NULL
        BY <1>3, <2>3 DEF Cleared, i
      <3>. QED  BY ONLY <2>8, <3>1, <3>2 DEF TextInv
    <2>. QED  BY <2>6, <2>9 DEF KeptInv
  <1>. QED  BY <1>1, <1>2, <1>3

LEMMA OpenKept ==
    ASSUME ParseInv, KeptInv, ParseInv', Open
    PROVE  KeptInv'
  <1>1. /\ pc = "value" /\ UNCHANGED <<item, naming, output, root, str>>
        /\ \/ pc' = "false" /\ UNCHANGED <<stack, node>>
           \/ /\ \E type : node' = [node EXCEPT ![item].type = type]
              /\ pc' = "true" /\ UNCHANGED stack
           \/ /\ \E type \in DOMAIN Opening :
                   stack' = Append(stack, [type |-> type, item |-> item,
                                           head |-> NULL, current |-> NULL])
              /\ pc' = "element" /\ UNCHANGED node
    BY Zenon DEF Open, pass1, pass2
  <1>2. Working /\ ~Working' /\ ~Naming' /\ pc' # "start" /\ pc' # "decode" /\ pc # "decode"
    BY <1>1 DEF Working, Naming
  <1>3. CASE pc' = "false" /\ UNCHANGED <<stack, node>>
    <2>1. SameLinks(node, node') /\ SameTexts(node, node', {})
      BY <1>3, NothingChanges
    <2>. QED  BY <1>1, <1>2, <1>3, <2>1, QuietKept
  <1>4. CASE /\ \E type : node' = [node EXCEPT ![item].type = type]
             /\ pc' = "true" /\ UNCHANGED stack
    <2>1. SameLinks(node, node') /\ SameTexts(node, node', {})
      BY <1>4, KeptFacts, TypeChanges
    <2>. QED  BY <1>1, <1>2, <1>4, <2>1, QuietKept
  <1>5. CASE /\ \E type \in DOMAIN Opening :
                  stack' = Append(stack, [type |-> type, item |-> item,
                                          head |-> NULL, current |-> NULL])
             /\ pc' = "element" /\ UNCHANGED node
    <2>1. PICK f \in Frame : /\ stack' = Append(stack, f) /\ f.item = item
                             /\ f.head = NULL /\ f.current = NULL
      <3>1. DOMAIN Opening = {"Array", "Object"} /\ item \in Items
        BY <1>1 DEF Opening, ParseInv
      <3>2. \A type \in DOMAIN Opening :
              [type |-> type, item |-> item, head |-> NULL, current |-> NULL] \in Frame
        BY <3>1 DEF Frame
      <3>. QED  BY <1>5, <3>2
    <2>2. /\ Nodes(node) /\ stack \in Seq(Frame) /\ Built(node, stack, root)
          /\ item \in Part(node, stack, root, Len(stack))
          /\ node[item].child = NULL
      BY <1>2, KeptFacts DEF KeptInv, LinkInv
    <2>3. Built(node, stack', root)
      BY <2>1, <2>2, BuiltOpen
    <2>4. LinkInv'
      BY <1>1, <1>2, <1>5, <2>3 DEF LinkInv
    <2>5. SameTexts(node, node', {})
      BY <1>5, NothingChanges
    <2>6. TextInv'
      BY <1>1, <1>2, <2>5, TextsAs DEF KeptInv, TextInv
    <2>. QED  BY <2>4, <2>6 DEF KeptInv
  <1>. QED  BY <1>1, <1>3, <1>4, <1>5

\* The frames under the one on top are the first of the stack.
LEMMA BelowIs ==
    ASSUME ParseInv, stack # <<>>
    PROVE  /\ Len(stack) \in Nat \ {0} /\ Len(Below) = Len(stack) - 1
           /\ \A k \in 1 .. (Len(stack) - 1) : Below[k] = stack[k]
  <1>1. Len(stack) \in Nat \ {0} /\ Len(Below) = Len(stack) - 1
    BY Frames
  <1>2. \A k \in 1 .. (Len(stack) - 1) : Below[k] = stack[k]
    BY <1>1 DEF Below, ParseInv, TypeOK
  <1>. QED  BY <1>1, <1>2

\* What NewElement does to the heap.
Adds(n, m, p, new) ==
    LET list == With(n, new, [Cleared EXCEPT !.prev = p])
    IN  m = IF p = NULL THEN list ELSE [list EXCEPT ![p].next = new]

SameScalars(n, m) ==
    \A j \in DOMAIN n : m[j].type = n[j].type /\ m[j].number = n[j].number

LEMMA LengthensHeap ==
    ASSUME NEW n, Nodes(n), NEW new \in Items \ DOMAIN n,
           NEW p \in DOMAIN n \cup {NULL}, NEW m, Adds(n, m, p, new)
    PROVE  /\ Lengthened(n, m, p, new) /\ SameTexts(n, m, {new})
           /\ m[new].child = NULL /\ m[new].valuestring = NULL
           /\ m[new].string = NULL
           /\ SameScalars(n, m)
  <1>. DEFINE list == With(n, new, [Cleared EXCEPT !.prev = p])
  <1>0. m = IF p = NULL THEN list ELSE [list EXCEPT ![p].next = new]
    BY DEF Adds
  <1>1. /\ DOMAIN list = DOMAIN n \cup {new}
        /\ list[new] = [Cleared EXCEPT !.prev = p]
        /\ \A j \in DOMAIN n : list[j] = n[j]
    BY DEF With
  <1>. HIDE DEF list
  <1>2. NULL \notin DOMAIN n
    BY HeapAssumption DEF Nodes
  <1>3. DOMAIN m = DOMAIN n \cup {new} /\ m[new] = [Cleared EXCEPT !.prev = p]
    BY <1>0, <1>1, <1>2
  <1>4. /\ m[new].next = NULL /\ m[new].prev = p /\ m[new].child = NULL
        /\ m[new].reference = FALSE /\ m[new].const = FALSE
        /\ m[new].string = NULL /\ m[new].valuestring = NULL
    BY ONLY <1>3 DEF Cleared
  <1>5. ASSUME NEW j \in DOMAIN n
        PROVE  /\ m[j].next = IF j = p THEN new ELSE n[j].next
               /\ m[j].prev = n[j].prev /\ m[j].child = n[j].child
               /\ m[j].reference = n[j].reference /\ m[j].const = n[j].const
               /\ m[j].string = n[j].string /\ m[j].valuestring = n[j].valuestring
               /\ m[j].type = n[j].type /\ m[j].number = n[j].number
    <2>1. n[j] \in Item
      BY DEF Nodes
    <2>2. CASE j # p
      <3>1. m[j] = n[j]
        BY <1>0, <1>1, <2>2
      <3>. QED  BY <2>2, <3>1
    <2>3. CASE j = p
      <3>1. m[j] = [n[j] EXCEPT !.next = new]
        BY <1>0, <1>1, <1>2, <2>3
      <3>. QED  BY ONLY <2>1, <2>3, <3>1 DEF Item
    <2>. QED  BY <2>2, <2>3
  <1>6. Lengthened(n, m, p, new)
    BY <1>3, <1>4, <1>5 DEF Lengthened
  <1>7. SameTexts(n, m, {new})
    BY <1>3, <1>4, <1>5 DEF SameTexts
  <1>8. SameScalars(n, m)
    BY <1>5 DEF SameScalars
  <1>. QED  BY <1>4, <1>6, <1>7, <1>8

\* What NewElement does to the heap and the topmost frame, if there is memory.
LEMMA ElementIs ==
    ASSUME ParseInv, KeptInv, ParseInv', NewElement, pc' # "false",
           NEW q, q = Len(stack), NEW new, new = FreeItem
    PROVE  /\ Nodes(node') /\ new \in Items \ DOMAIN node
           /\ q \in Nat \ {0} /\ Top = stack[q] /\ item' = new
           /\ Lengthened(node, node', Top.current, new)
           /\ SameTexts(node, node', {new})
           /\ node'[new].child = NULL /\ node'[new].valuestring = NULL
           /\ node'[new].string = NULL
           /\ SameScalars(node, node')
           /\ Len(stack') = q
           /\ \A k \in 1 .. (q - 1) : stack'[k] = stack[k]
           /\ stack'[q].type = Top.type /\ stack'[q].item = Top.item
           /\ stack'[q].current = new
           /\ stack'[q].head = IF Top.head = NULL THEN new ELSE Top.head
  <1>1. PICK list :
          /\ list = With(node, new, [Cleared EXCEPT !.prev = Top.current])
          /\ stack # <<>> /\ ItemLeft /\ item' = new
          /\ node' = IF Top.head = NULL THEN list
                     ELSE [list EXCEPT ![Top.current].next = new]
          /\ stack' = Append(Below, [Top EXCEPT !.current = new,
                          !.head = IF Top.head = NULL THEN new ELSE @])
    BY Zenon DEF NewElement, ParseInv
  <1>2. /\ Nodes(node) /\ Nodes(node') /\ stack \in Seq(Frame)
        /\ Built(node, stack, root)
    BY KeptFacts, HeapIs DEF ParseInv, TypeOK
  <1>3. /\ q \in Nat \ {0} /\ Len(Below) = q - 1 /\ Below \in Seq(Frame)
        /\ Top \in Frame /\ Top = stack[q]
        /\ \A k \in 1 .. (q - 1) : Below[k] = stack[k]
    BY <1>1, BelowIs, Frames DEF Top
  <1>4. new \in Items \ DOMAIN node
    <2>1. \E x \in Items : x \notin DOMAIN node
      BY <1>1, <1>2 DEF ItemLeft, Nodes
    <2>. QED  BY <2>1 DEF FreeItem
  <1>5. /\ Top.head = NULL <=> Top.current = NULL
        /\ Top.current = NULL \/ Top.current \in DOMAIN node
    <2>1. q \in 1 .. q /\ q \in 0 .. q
      BY <1>3
    <2>2. Framed(node, stack, root, q) /\ Part(node, stack, root, q) \subseteq DOMAIN node
      BY <1>2, <2>1, PartIs DEF Built
    <2>. QED  BY <1>3, <2>2 DEF Framed
  <1>6. /\ Lengthened(node, node', Top.current, new)
        /\ SameTexts(node, node', {new})
        /\ node'[new].child = NULL /\ node'[new].valuestring = NULL
        /\ node'[new].string = NULL
        /\ SameScalars(node, node')
    <2>1. PICK p : p = Top.current /\ p \in DOMAIN node \cup {NULL}
      BY <1>5
    <2>2. Adds(node, node', p, new)
      BY <1>1, <1>5, <2>1 DEF Adds
    <2>3. /\ Lengthened(node, node', p, new) /\ SameTexts(node, node', {new})
          /\ node'[new].child = NULL /\ node'[new].valuestring = NULL
          /\ node'[new].string = NULL
          /\ SameScalars(node, node')
      <3>1. p \in DOMAIN node \cup {NULL}
        BY <2>1
      <3>. QED  BY ONLY <1>2, <1>4, <2>2, <3>1, LengthensHeap
    <2>. QED  BY <2>1, <2>3
  <1>7. PICK f : f = [Top EXCEPT !.current = new,
                                 !.head = IF Top.head = NULL THEN new ELSE @]
    OBVIOUS
  <1>8. /\ f.type = Top.type /\ f.item = Top.item /\ f.current = new
        /\ f.head = IF Top.head = NULL THEN new ELSE Top.head
    <2>1. f = [[Top EXCEPT !.current = new]
                 EXCEPT !.head = IF Top.head = NULL THEN new ELSE Top.head]
      BY <1>3, <1>7 DEF Frame
    <2>. QED  BY ONLY <1>3, <2>1 DEF Frame
  <1>9. /\ Len(stack') = q /\ stack'[q] = f
        /\ \A k \in 1 .. (q - 1) : stack'[k] = stack[k]
    <2>1. PICK below : /\ below = Below /\ below \in Seq(Frame) /\ Len(below) = q - 1
                       /\ stack' = Append(below, f)
      BY <1>1, <1>3, <1>7
    <2>2. q \in Nat \ {0}
      BY <1>3
    <2>3. /\ Len(Append(below, f)) = q /\ Append(below, f)[q] = f
          /\ \A k \in 1 .. (q - 1) : Append(below, f)[k] = below[k]
      BY ONLY <2>1, <2>2
    <2>. QED  BY <1>3, <2>1, <2>3
  <1>. QED  BY <1>1, <1>2, <1>3, <1>4, <1>6, <1>8, <1>9

LEMMA NewElementKept ==
    ASSUME ParseInv, KeptInv, ParseInv', NewElement
    PROVE  KeptInv'
  <1>1. /\ pc = "element" /\ UNCHANGED <<naming, output, root, str>>
        /\ \/ pc' \in {"value", "name"}
           \/ pc' = "false" /\ UNCHANGED <<node, stack, item>>
    BY Zenon DEF NewElement, pass1, pass2
  <1>2. output = NULL
    BY <1>1 DEF KeptInv, TextInv
  <1>3. CASE pc' = "false" /\ UNCHANGED <<node, stack, item>>
    <2>1. SameLinks(node, node') /\ SameTexts(node, node', {})
      BY <1>3, NothingChanges
    <2>2. ~Working' /\ ~Naming' /\ pc' # "start" /\ pc' # "decode" /\ pc # "decode"
      BY <1>1, <1>3 DEF Working, Naming
    <2>. QED  BY <1>1, <1>3, <2>1, <2>2, QuietKept
  <1>4. CASE pc' \in {"value", "name"}
    <2>1. PICK q, new : q = Len(stack) /\ new = FreeItem
      OBVIOUS
    <2>2. /\ Nodes(node') /\ new \in Items \ DOMAIN node
          /\ q \in Nat \ {0} /\ Top = stack[q] /\ item' = new
          /\ Lengthened(node, node', Top.current, new)
          /\ SameTexts(node, node', {new})
          /\ node'[new].child = NULL /\ node'[new].valuestring = NULL
          /\ node'[new].string = NULL
          /\ Len(stack') = q
          /\ \A k \in 1 .. (q - 1) : stack'[k] = stack[k]
          /\ stack'[q].item = Top.item /\ stack'[q].current = new
          /\ stack'[q].head = IF Top.head = NULL THEN new ELSE Top.head
      <3>1. pc' # "false"
        BY <1>4
      <3>. QED  BY <2>1, <3>1, ElementIs
    <2>3. Built(node', stack', root) /\ new \in Part(node', stack', root, q)
      <3>1. /\ Lengthened(node, node', stack[q].current, new)
            /\ stack'[q].item = stack[q].item /\ stack'[q].current = new
            /\ stack'[q].head = IF stack[q].head = NULL THEN new ELSE stack[q].head
            /\ q = Len(stack) /\ q # 0
        BY <2>1, <2>2
      <3>2. /\ Nodes(node) /\ stack \in Seq(Frame) /\ Built(node, stack, root)
            /\ NULL \notin DOMAIN node
        BY KeptFacts
      <3>. QED  BY ONLY <2>2, <3>1, <3>2, BuiltNew
    <2>4. LinkInv'
      <3>1. pc' # "start" /\ root' = root
        BY <1>1, <1>4
      <3>. QED  BY ONLY <2>2, <2>3, <3>1 DEF LinkInv
    <2>5. TextInv'
      <3>1. Texted(node', str', output)
        BY <1>1, <2>2, TextedAs DEF KeptInv, TextInv
      <3>2. pc' # "decode" /\ output' = NULL /\ output' = output
        BY <1>1, <1>2, <1>4
      <3>. QED  BY ONLY <2>2, <3>1, <3>2 DEF TextInv
    <2>. QED  BY <2>4, <2>5 DEF KeptInv
  <1>. QED  BY <1>1, <1>3, <1>4

LEMMA AfterElementKept ==
    ASSUME ParseInv, KeptInv, ParseInv', AfterElement
    PROVE  KeptInv'
  <1>. DEFINE q == Len(stack)
  <1>1. /\ pc = "true" /\ stack # <<>>
        /\ UNCHANGED <<item, naming, output, root, str>>
        /\ \/ /\ node' = [node EXCEPT ![Top.item].type = Top.type,
                                      ![Top.item].child = Top.head]
              /\ stack' = Below /\ pc' = pc
           \/ pc' \in {"element", "false"} /\ UNCHANGED <<node, stack>>
    BY DEF AfterElement, pass1, pass2
  <1>2. ~Working' /\ ~Naming' /\ pc' # "start" /\ pc' # "decode" /\ pc # "decode"
    BY <1>1 DEF Working, Naming
  <1>3. CASE pc' \in {"element", "false"} /\ UNCHANGED <<node, stack>>
    <2>1. SameLinks(node, node') /\ SameTexts(node, node', {})
      BY <1>3, NothingChanges
    <2>. QED  BY <1>1, <1>2, <1>3, <2>1, QuietKept
  <1>4. CASE /\ node' = [node EXCEPT ![Top.item].type = Top.type,
                                     ![Top.item].child = Top.head]
             /\ stack' = Below /\ pc' = pc
    <2>1. /\ Nodes(node) /\ Nodes(node') /\ stack \in Seq(Frame)
          /\ Built(node, stack, root)
      BY KeptFacts, HeapIs DEF ParseInv, TypeOK
    <2>2. /\ q \in Nat \ {0} /\ Len(Below) = q - 1 /\ Top = stack[q]
          /\ \A k \in 1 .. (q - 1) : Below[k] = stack[k]
      BY <1>1, BelowIs DEF Top
    <2>3. DOMAIN node' = DOMAIN node
      BY <1>4
    <2>4. ASSUME NEW j \in DOMAIN node
          PROVE  /\ node'[j].child = IF j = Top.item THEN Top.head ELSE node[j].child
                 /\ node'[j].next = node[j].next /\ node'[j].prev = node[j].prev
                 /\ node'[j].reference = node[j].reference
                 /\ node'[j].const = node[j].const
                 /\ node'[j].string = node[j].string
                 /\ node'[j].valuestring = node[j].valuestring
      <3>1. node[j] \in Item
        BY <2>1 DEF Nodes
      <3>2. CASE j # Top.item
        <4>1. node'[j] = node[j]
          BY <1>4, <3>2
        <4>. QED  BY <3>2, <4>1
      <3>3. CASE j = Top.item
        <4>1. node'[j] = [[node[j] EXCEPT !.type = Top.type] EXCEPT !.child = Top.head]
          BY <1>4, <3>3
        <4>. QED  BY ONLY <3>1, <3>3, <4>1 DEF Item
      <3>. QED  BY <3>2, <3>3
    <2>5. Parented(node, node', stack[q].item, stack[q].head)
      BY <2>2, <2>3, <2>4 DEF Parented
    <2>6. SameTexts(node, node', {})
      BY <2>3, <2>4 DEF SameTexts
    <2>7. Built(node', stack', root)
      <3>1. q = Len(stack) /\ q # 0 /\ Len(stack') = q - 1
            /\ \A k \in 1 .. (q - 1) : stack'[k] = stack[k]
        BY <1>4, <2>2
      <3>. HIDE DEF q
      <3>. QED  BY ONLY <2>1, <2>5, <3>1, BuiltClose
    <2>8. LinkInv'
      BY <1>1, <1>2, <2>7 DEF LinkInv
    <2>9. TextInv'
      BY <1>1, <1>2, <2>6, TextsAs DEF KeptInv, TextInv
    <2>. QED  BY <2>8, <2>9 DEF KeptInv
  <1>. QED  BY <1>1, <1>3, <1>4

\* What is freed is what is reached, with its texts.
LEMMA Deleted ==
    ASSUME Nodes(node), Closed(node), NEW i \in DOMAIN node \cup {NULL},
           cJSON_Delete(i), NEW gone, gone = ReachedOf(node, i)
    PROVE  /\ DOMAIN node' = DOMAIN node \ gone
           /\ \A j \in DOMAIN node' : node'[j] = node[j]
           /\ gone = DOMAIN node \ DOMAIN node'
           /\ DOMAIN str' = DOMAIN str \ OwnedIn(node, gone)
  <1>1. gone = Reached(i) /\ gone \subseteq DOMAIN node
    BY ReachedIsThat, ReachFacts
  <1>2. /\ node' = Restrict(node, DOMAIN node \ gone)
        /\ str' = Restrict(str, DOMAIN str \ UNION {Owned(j) : j \in gone})
    BY <1>1 DEF cJSON_Delete
  <1>3. UNION {Owned(j) : j \in gone} = OwnedIn(node, gone)
    BY DEF Owned, OwnedIn, OwnedOf
  <1>. QED  BY <1>1, <1>2, <1>3 DEF Restrict

LEMMA UnwindKept ==
    ASSUME ParseInv, KeptInv, ParseInv', Unwind
    PROVE  KeptInv'
  <1>. DEFINE q == Len(stack)
              gone == ReachedOf(node, Top.head)
  <1>1. /\ pc = "false" /\ pc' = "false" /\ stack # <<>> /\ cJSON_Delete(Top.head)
        /\ stack' = Below /\ UNCHANGED <<item, naming, output, root>>
    BY DEF Unwind, pass1, pass2
  <1>2. /\ Nodes(node) /\ Nodes(node') /\ stack \in Seq(Frame)
        /\ Built(node, stack, root) /\ Closed(node)
    BY KeptFacts, HeapIs DEF ParseInv, TypeOK
  <1>3. /\ q \in Nat \ {0} /\ Len(Below) = q - 1 /\ Top = stack[q]
        /\ \A k \in 1 .. (q - 1) : Below[k] = stack[k]
    BY <1>1, BelowIs DEF Top
  <1>4. Top.head \in DOMAIN node \cup {NULL} /\ Part(node, stack, root, q) = gone
    <2>1. q \in 0 .. q /\ ListOf(stack, root, q) = Top.head
      BY <1>3 DEF ListOf
    <2>2. ListOf(stack, root, q) \in DOMAIN node \cup {NULL}
      BY <1>2, <2>1, ListIs
    <2>. QED  BY <2>1, <2>2 DEF Part
  <1>5. /\ DOMAIN node' = DOMAIN node \ gone
        /\ \A j \in DOMAIN node' : node'[j] = node[j]
        /\ gone = DOMAIN node \ DOMAIN node'
        /\ DOMAIN str' = DOMAIN str \ OwnedIn(node, gone)
    BY <1>1, <1>2, <1>4, Deleted
  <1>. HIDE DEF gone
  <1>6. Built(node', stack', root)
    <2>1. q = Len(stack) /\ q # 0 /\ Len(stack') = q - 1
          /\ \A k \in 1 .. (q - 1) : stack'[k] = stack[k]
      BY <1>1, <1>3
    <2>2. DOMAIN node' = DOMAIN node \ Part(node, stack, root, q)
      BY <1>4, <1>5
    <2>. HIDE DEF q
    <2>. QED  BY ONLY <1>2, <1>5, <2>1, <2>2, BuiltCut
  <1>7. Texted(node', str', output)
    <2>1. Texted(node, str, output)
      BY DEF KeptInv, TextInv
    <2>2. DOMAIN str' = DOMAIN str \ OwnedIn(node, DOMAIN node \ DOMAIN node')
          /\ DOMAIN node' \subseteq DOMAIN node
      BY <1>5
    <2>. QED  BY ONLY <1>5, <2>1, <2>2, TextedCut
  <1>8. ~Working' /\ ~Naming' /\ pc' # "start" /\ pc' # "decode" /\ output = NULL
    BY <1>1 DEF Working, Naming, KeptInv, TextInv
  <1>9. LinkInv'
    BY <1>1, <1>6, <1>8 DEF LinkInv
  <1>10. TextInv'
    BY <1>1, <1>7, <1>8 DEF TextInv
  <1>. QED  BY <1>9, <1>10 DEF KeptInv

LEMMA FinishKept ==
    ASSUME ParseInv, KeptInv, ParseInv', NEW r \in BOOLEAN, Finish(r)
    PROVE  KeptInv'
  <1>1. /\ pc \in {"true", "false"} /\ pc' = "done" /\ stack = <<>>
        /\ UNCHANGED <<stack, item, naming, output>>
        /\ UNCHANGED <<heap, root>> \/ (cJSON_Delete(root) /\ root' = NULL)
    BY DEF Finish, pass1, pass2
  <1>2. /\ ~Working' /\ ~Naming' /\ pc' # "start" /\ pc' # "decode"
        /\ pc # "decode" /\ output = NULL
    BY <1>1 DEF Working, Naming, KeptInv, TextInv
  <1>3. CASE UNCHANGED <<heap, root>>
    <2>1. SameLinks(node, node') /\ SameTexts(node, node', {}) /\ UNCHANGED str
      BY <1>3, NothingChanges DEF heap
    <2>. QED  BY <1>1, <1>2, <1>3, <2>1, QuietKept
  <1>4. CASE cJSON_Delete(root) /\ root' = NULL
    <2>. DEFINE gone == ReachedOf(node, root)
    <2>1. Nodes(node) /\ Closed(node) /\ Built(node, stack, root)
      BY KeptFacts
    <2>2. DOMAIN node = gone /\ root \in DOMAIN node \cup {NULL}
      <3>1. Len(stack) = 0 /\ \A k : k \in 0 .. 0 <=> k = 0
        BY <1>1
      <3>2. Part(node, stack, root, 0) = gone
        BY DEF Part, ListOf
      <3>3. DOMAIN node = gone
        BY <2>1, <3>1, <3>2 DEF Built
      <3>4. root \in DOMAIN node \cup {NULL}
        BY <2>1 DEF Built, Loose
      <3>. QED  BY <3>3, <3>4
    <2>3. /\ DOMAIN node' = DOMAIN node \ gone
          /\ \A j \in DOMAIN node' : node'[j] = node[j]
          /\ gone = DOMAIN node \ DOMAIN node'
          /\ DOMAIN str' = DOMAIN str \ OwnedIn(node, gone)
      BY <1>4, <2>1, <2>2, Deleted
    <2>. HIDE DEF gone
    <2>4. DOMAIN node' = {}
      BY <2>2, <2>3
    <2>5. Built(node', stack', root')
      BY <1>1, <1>4, <2>4, BuiltEmpty
    <2>6. Texted(node', str', output)
      <3>1. Texted(node, str, output)
        BY DEF KeptInv, TextInv
      <3>2. DOMAIN str' = DOMAIN str \ OwnedIn(node, DOMAIN node \ DOMAIN node')
            /\ DOMAIN node' \subseteq DOMAIN node
        BY <2>3
      <3>. QED  BY ONLY <2>3, <3>1, <3>2, TextedCut
    <2>7. LinkInv'
      BY <1>2, <2>5 DEF LinkInv
    <2>8. TextInv'
      BY <1>1, <1>2, <2>6 DEF TextInv
    <2>. QED  BY <2>7, <2>8 DEF KeptInv
  <1>. QED  BY <1>1, <1>3, <1>4

LEMMA InitKept == Init => KeptInv
  <1>. SUFFICES ASSUME Init PROVE KeptInv
    OBVIOUS
  <1>1. /\ DOMAIN node = {} /\ DOMAIN str = {} /\ stack = <<>> /\ root = NULL
        /\ output = NULL /\ pc = "start"
    BY DEF Init
  <1>2. Built(node, stack, root)
    BY <1>1, BuiltEmpty
  <1>3. LinkInv
    BY <1>1, <1>2 DEF LinkInv, Working
  <1>4. Texted(node, str, output)
    <2>1. OwnedIn(node, {}) = {}
      BY OwnedInIs
    <2>. QED  BY <1>1, <2>1 DEF Texted
  <1>5. TextInv
    BY <1>1, <1>4 DEF TextInv, Working, Naming
  <1>. QED  BY <1>3, <1>5 DEF KeptInv

LEMMA StepKept == ParseInv /\ ParseInv' /\ KeptInv /\ [ParseStep]_parseVars => KeptInv'
  <1>. SUFFICES ASSUME ParseInv, ParseInv', KeptInv, [ParseStep]_parseVars
                PROVE  KeptInv'
    OBVIOUS
  <1>1. CASE Start
    BY <1>1, StartKept
  <1>2. CASE \E r \in BOOLEAN : Finish(r)
    BY <1>2, FinishKept
  <1>3. CASE Literal \/ parse_number
    BY <1>3, LiteralKept, parse_numberKept
  <1>4. CASE NoValue \/ parse_string \/ Scan \/ UNCHANGED parseVars
    BY <1>4, QuietStepKept
  <1>5. CASE Allocate \/ Decode \/ EndValue \/ EndName
    BY <1>5, AllocateKept, DecodeKept, EndKept
  <1>6. CASE Open \/ NewElement \/ AfterElement \/ Unwind
    BY <1>6, OpenKept, NewElementKept, AfterElementKept, UnwindKept
  <1>. QED
    BY <1>1, <1>2, <1>3, <1>4, <1>5, <1>6, Zenon DEF ParseStep, cJSON_Parse

\* Two ways to an item would be two of its list, or two parents, or both.
LEMMA KeptIsOwned == ParseInv /\ KeptInv => NothingLost
  <1>. SUFFICES ASSUME ParseInv, KeptInv PROVE NothingLost
    OBVIOUS
  <1>1. /\ Nodes(node) /\ Built(node, stack, root) /\ Closed(node)
        /\ Linked(node) /\ NULL \notin DOMAIN node /\ Len(stack) \in Nat
        /\ stack \in Seq(Frame)
    BY KeptFacts DEF Built
  <1>2. Texted(node, str, output)
    BY DEF KeptInv, TextInv
  <1>3. \A i : Owned(i) = OwnedOf(node, i)
    BY DEF Owned, OwnedOf
  <1>4. DOMAIN str = ({output} \ {NULL}) \cup UNION {Owned(i) : i \in DOMAIN node}
    <2>1. OwnedIn(node, DOMAIN node) = UNION {Owned(i) : i \in DOMAIN node}
      BY DEF Owned, OwnedIn, OwnedOf
    <2>2. DOMAIN str = OwnedIn(node, DOMAIN node) \cup ({output} \ {NULL})
      BY <1>2 DEF Texted
    <2>. QED  BY <2>1, <2>2
  <1>5. ASSUME NEW i \in DOMAIN node PROVE Cardinality(Owners(i)) <= 1
    <2>. DEFINE A == {<<j, "next">> : j \in {k \in DOMAIN node : node[k].next = i}}
                B == {<<j, "child">> : j \in {k \in DOMAIN node :
                                          node[k].child = i /\ ~node[k].reference}}
    <2>1. \A j, k \in DOMAIN node : node[j].next = i /\ node[k].next = i => j = k
      BY <1>1 DEF Linked
    <2>2. \A j, k \in DOMAIN node : node[j].child = i /\ node[k].child = i => j = k
      BY <1>1 DEF Linked
    <2>3. \A j, k \in DOMAIN node : ~(node[j].next = i /\ node[k].child = i)
      BY <1>1 DEF Linked
    <2>4. Owners(i) = A \cup B
      BY DEF Owners
    <2>5. \A x, y \in A \cup B : x = y
      BY <2>1, <2>2, <2>3
    <2>. HIDE DEF A, B
    <2>6. A \cup B = {} \/ \E x : A \cup B = {x}
      BY <2>5
    <2>7. Cardinality(A \cup B) = 0 \/ Cardinality(A \cup B) = 1
      BY <2>6, FS_EmptySet, FS_Singleton
    <2>. QED  BY <2>4, <2>7
  <1>6. OneOwner
    <2>1. ASSUME NEW i \in DOMAIN node
          PROVE  /\ Following(i) \subseteq DOMAIN node
                 /\ Owned(i) \subseteq DOMAIN str
                 /\ node[i].string # NULL /\ ~node[i].const =>
                        node[i].string # node[i].valuestring
                 /\ \A j \in DOMAIN node : j # i => Owned(i) \cap Owned(j) = {}
      <3>1. Following(i) \subseteq DOMAIN node
        BY <1>1, ReachedIsThat DEF Closed
      <3>2. Owned(i) \subseteq DOMAIN str
        BY <1>4
      <3>. QED  BY <1>2, <1>3, <3>1, <3>2 DEF Texted
    <2>. QED  BY <1>5, <2>1 DEF OneOwner
  <1>7. ChainsAgree
    <2>1. ASSUME NEW i \in DOMAIN node, NEW j \in DOMAIN node, node[j].next = i
          PROVE  node[i].prev = CHOOSE k \in DOMAIN node : node[k].next = i
      <3>. DEFINE c == CHOOSE k \in DOMAIN node : node[k].next = i
      <3>1. c \in DOMAIN node /\ node[c].next = i
        BY <2>1
      <3>. HIDE DEF c
      <3>2. node[i].prev = c
        BY <1>1, <3>1 DEF Linked
      <3>. QED  BY <3>2 DEF c
    <2>2. ASSUME NEW i \in DOMAIN node, ~\E j \in DOMAIN node : node[j].next = i
          PROVE  node[i].prev = NULL
      BY <1>1, <2>2 DEF Linked
    <2>. QED  BY <2>1, <2>2 DEF ChainsAgree
  <1>8. DOMAIN node = Reached(root) \cup
                      UNION {Reached(stack[i].head) : i \in DOMAIN stack}
    <2>1. DOMAIN node = UNION {Part(node, stack, root, k) : k \in 0 .. Len(stack)}
      BY <1>1 DEF Built
    <2>2. Part(node, stack, root, 0) = Reached(root)
      BY ReachedIsThat DEF Part, ListOf
    <2>3. \A k \in 1 .. Len(stack) : Part(node, stack, root, k) = Reached(stack[k].head)
      BY ReachedIsThat DEF Part, ListOf
    <2>4. DOMAIN stack = 1 .. Len(stack)
      BY <1>1
    <2>5. \A k : k \in 0 .. Len(stack) <=> k = 0 \/ k \in 1 .. Len(stack)
      BY <1>1
    <2>. QED  BY ONLY <2>1, <2>2, <2>3, <2>4, <2>5
  <1>. QED  BY <1>4, <1>6, <1>7, <1>8 DEF NothingLost

-----------------------------------------------------------------------------
(* The theorems *)

\* Type correctness of the parser and of the memory it builds its result in,
\* for every text, byte after it, heap, buffer size and nesting limit.
THEOREM ParseTypeCorrect == ParseSpec => []TypeOK
  <1>1. ParseInv => TypeOK
    BY DEF ParseInv
  <1>. QED  BY <1>1, ParseInvariant, PTL

\* Whatever the text and whenever malloc fails, the parser looks at most one
\* byte past the 0 of the text, and there only for a closing quote.
THEOREM ParserStaysInText == ParseSpec => []StaysInText
  <1>1. ParseInv => StaysInText
    BY InvInText DEF ParseInv
  <1>. QED  BY <1>1, ParseInvariant, PTL

\* Whatever the text, the calls of parse_array and parse_object that have not
\* returned are never more than CJSON_NESTING_LIMIT, and as long as no value
\* has failed depth is their number; on the way out of a failure it is not
\* counted down.
THEOREM ParserNestingBounded == ParseSpec => []NestingBounded
  <1>1. ParseInv => NestingBounded
    BY DEF ParseInv
  <1>. QED  BY <1>1, ParseInvariant, PTL

\* Whatever the text, the estimate of the first loop of parse_string is enough
\* for what the second one writes, and its 0: bytes up to output's room.
THEOREM DecodedTextFits == ParseSpec => []OutputFits
  <1>1. Init => RoomInv
    BY DEF Init, RoomInv
  <1>2. ParseSpec => []RoomInv
    BY <1>1, StepRoom, ParseInvariant, PTL DEF ParseSpec
  <1>. QED  BY <1>2, RoomFits, ParseInvariant, PTL

\* Whatever the text and wherever malloc fails, every item and text
\* allocated is held by the result, by a list under construction or by the
\* string being decoded, and by one of them only: delete_item frees each once,
\* and nothing is left behind when a parse fails.
THEOREM ParseLosesNothing == ParseSpec => []NothingLost
  <1>1. ParseSpec => []KeptInv
    BY InitKept, StepKept, ParseInvariant, PTL DEF ParseSpec
  <1>. QED  BY <1>1, KeptIsOwned, ParseInvariant, PTL
=============================================================================
