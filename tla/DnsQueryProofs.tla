--------------------------- MODULE DnsQueryProofs ---------------------------
(***************************************************************************)
(* The query handler stays in its buffers and repeats the question, byte   *)
(* by byte, for every size of buffer, name and label.                      *)
(***************************************************************************)
EXTENDS DnsQuery, SequenceTheorems, TLAPS

-----------------------------------------------------------------------------
(* Places: what the counters say of each other. *)

AtRecv ==
    pc = "recv" => domain = <<>> /\ question = <<>> /\ name = <<>>

\* While labels are read the offset is the length of the name; left is what is
\* beyond it.
AtLabel ==
    pc = "label" =>
        /\ Offset = Len(domain)
        /\ left >= 0
        /\ high <= Len(domain)
        /\ Len(domain) <= MAX_DOMAIN

\* The last dot is gone, and the 0 has been read.
AtType ==
    pc = "type" =>
        /\ Offset = Len(domain) + 2
        /\ left >= -1
        /\ high <= Len(domain) + 2
        /\ Len(domain) + 1 <= MAX_DOMAIN

Parsed ==
    pc \in {"lookup", "write", "answer", "sent"} =>
        /\ high <= Len(domain) + 2 + TypeClassSize
        /\ Len(domain) + 1 <= MAX_DOMAIN
        /\ high <= len \/ Len(domain) + 1 = len

AtWrite ==
    pc \in {"write", "answer"} => out = HdrSize + Len(name)

ReadBound == high <= MAX_DOMAIN + 1 + TypeClassSize

Places ==
    /\ AtRecv
    /\ AtLabel
    /\ AtType
    /\ Parsed
    /\ AtWrite
    /\ ReadBound

-----------------------------------------------------------------------------
(* Contents: the name with dots against the name with lengths. *)

Small(c) == IF c \in Capitals THEN c + 32 ELSE c

\* In the n bytes of d a label of k characters begins behind place i: up to a
\* dot or the end.
LabelAt(d, n, i, k) ==
    /\ k \in Nat
    /\ i + k <= n
    /\ \A j \in (i + 1) .. (i + k) : d[j] # Dot
    /\ i + k = n \/ d[i + k + 1] = Dot

\* q holds the labels of d: at each place where a label of d begins the length
\* of that label, behind it its characters.
Spells(d, n, q) ==
    /\ \A i \in 1 .. n : d[i] # Dot => q[i + 1] = Small(d[i])
    /\ \A i \in 0 .. (n - 1) : i = 0 \/ d[i] = Dot => LabelAt(d, n, i, q[i + 1])

\* While labels are read the last byte of d is a dot, and q has no more bytes:
\* no label is the last one, and none is empty.
Growing(d, n, q) ==
    /\ n > 0 => d[n] = Dot
    /\ Spells(d, n, q)
    /\ \A i \in 0 .. (n - 1) :
          i = 0 \/ d[i] = Dot => i + q[i + 1] < n /\ q[i + 1] # 0

\* When it is complete the name has a last label, not empty, and q its 0.
Complete(d, n, q) ==
    /\ n > 0
    /\ d[n] # Dot
    /\ q[n + 2] = 0
    /\ Spells(d, n, q)

\* The first m bytes of q have been written, and they end where a label does.
Written(d, q, w, m) ==
    /\ m = 0 \/ d[m] = Dot
    /\ \A i \in 1 .. m : w[i] = q[i]

NoCapitals(d, n) == \A i \in 1 .. n : d[i] \notin Capitals

Contents ==
    /\ pc = "label" =>
          /\ Len(question) = Len(domain)
          /\ Growing(domain, Len(domain), question)
    /\ pc \in {"type", "lookup", "write", "answer"} =>
          /\ Len(question) = Len(domain) + 2
          /\ Complete(domain, Len(domain), question)
    /\ pc \in {"label", "type", "lookup"} => name = <<>>
    /\ pc = "write" =>
          /\ Len(name) < Len(domain)
          /\ NoCapitals(domain, Len(domain))
          /\ Written(domain, question, name, Len(name))
    /\ pc = "answer" => name = question

IInv == TypeOK /\ Places /\ Contents

USE QueryAssumption DEF TypeClassSize, AnswerSize, MinQuery

-----------------------------------------------------------------------------
(* Sequences *)

Follows(w, x, y) ==
    /\ w \in Seq(Nat) /\ Len(w) = Len(x) + Len(y)
    /\ \A i \in 1 .. Len(x) + Len(y) :
          w[i] = IF i <= Len(x) THEN x[i] ELSE y[i - Len(x)]

LEMMA Concatenated ==
    ASSUME NEW x \in Seq(Nat), NEW y \in Seq(Nat), NEW w, w = x \o y
    PROVE  Follows(w, x, y)
  BY ConcatProperties DEF Follows

\* v has the elements of x, y and z one behind the other.
Joins(v, x, y, z) ==
    /\ v \in Seq(Nat)
    /\ Len(v) = Len(x) + Len(y) + Len(z)
    /\ \A i \in 1 .. Len(x) : v[i] = x[i]
    /\ \A i \in 1 .. Len(y) : v[Len(x) + i] = y[i]
    /\ \A i \in 1 .. Len(z) : v[Len(x) + Len(y) + i] = z[i]

LEMMA Joined ==
    ASSUME NEW x \in Seq(Nat), NEW y \in Seq(Nat), NEW z \in Seq(Nat),
           NEW v, v = x \o y \o z
    PROVE  Joins(v, x, y, z)
  <1>1. PICK w : w = x \o y
    OBVIOUS
  <1>2. /\ w \in Seq(Nat) /\ Len(w) = Len(x) + Len(y)
        /\ \A i \in 1 .. Len(x) + Len(y) :
               w[i] = IF i <= Len(x) THEN x[i] ELSE y[i - Len(x)]
    BY <1>1, Concatenated DEF Follows
  <1>3. w \in Seq(Nat) /\ v = w \o z
    BY <1>1, <1>2
  <1>4. /\ v \in Seq(Nat) /\ Len(v) = Len(w) + Len(z)
        /\ \A i \in 1 .. Len(w) + Len(z) :
               v[i] = IF i <= Len(w) THEN w[i] ELSE z[i - Len(w)]
    BY <1>3, Concatenated DEF Follows
  <1>5. Len(x) \in Nat /\ Len(y) \in Nat /\ Len(z) \in Nat
    OBVIOUS
  <1>6. ASSUME NEW i \in 1 .. Len(x)
        PROVE  v[i] = x[i]
    BY <1>2, <1>4, <1>5
  <1>7. ASSUME NEW i \in 1 .. Len(y)
        PROVE  v[Len(x) + i] = y[i]
    <2>1. PICK j : j = Len(x) + i
      OBVIOUS
    <2>2. /\ j - Len(x) = i /\ ~(j <= Len(x)) /\ j \in 1 .. Len(x) + Len(y)
          /\ j <= Len(w) /\ j \in 1 .. Len(w) + Len(z)
      <3>1. Len(w) = Len(x) + Len(y)
        BY <1>2
      <3> QED
        BY ONLY <1>5, <2>1, <3>1
    <2>3. v[j] = w[j]
      BY ONLY <1>4, <2>2, Zenon
    <2>4. w[j] = y[j - Len(x)]
      BY ONLY <1>2, <2>2, Zenon
    <2> QED
      BY <2>1, <2>2, <2>3, <2>4, Zenon
  <1>8. ASSUME NEW i \in 1 .. Len(z)
        PROVE  v[Len(x) + Len(y) + i] = z[i]
    <2>1. PICK j : j = Len(x) + Len(y) + i
      OBVIOUS
    <2>2. v[j] = z[j - Len(w)] /\ j - Len(w) = i
      BY <1>2, <1>4, <1>5, <2>1
    <2> QED
      BY <2>1, <2>2
  <1> QED
    BY <1>2, <1>4, <1>5, <1>6, <1>7, <1>8 DEF Joins

\* s is the piece of k elements behind the first m of d.
Piece(s, d, m, k) ==
    /\ s \in Seq(Nat) /\ Len(s) = k
    /\ \A i \in 1 .. k : s[i] = d[m + i]

LEMMA PieceTaken ==
    ASSUME NEW d \in Seq(Nat), NEW m \in Nat, NEW k \in Nat, m + k <= Len(d),
           NEW s, s = SubSeq(d, m + 1, m + k)
    PROVE  Piece(s, d, m, k)
  <1>1. PICK a \in Int, b \in Int : a = m + 1 /\ b = m + k
    OBVIOUS
  <1>2. \A i \in a .. b : d[i] \in Nat
    BY <1>1
  <1>3. s = SubSeq(d, a, b)
    BY <1>1
  <1>4. /\ s \in Seq(Nat)
        /\ Len(s) = IF a <= b THEN b - a + 1 ELSE 0
        /\ \A i \in 1 .. b - a + 1 : s[i] = d[a + i - 1]
    BY ONLY <1>2, <1>3, SubSeqProperties
  <1>5. Len(s) = k
    BY <1>1, <1>4
  <1>6. ASSUME NEW i \in 1 .. k
        PROVE  s[i] = d[m + i]
    <2>1. i \in 1 .. b - a + 1 /\ a + i - 1 = m + i
      BY <1>1
    <2> QED
      BY <1>4, <2>1
  <1> QED
    BY <1>4, <1>5, <1>6 DEF Piece

LEMMA SameSequence ==
    ASSUME NEW S, NEW x \in Seq(S), NEW y \in Seq(S), Len(x) = Len(y),
           \A i \in 1 .. Len(x) : x[i] = y[i]
    PROVE  x = y
  OBVIOUS

LEMMA Lowering ==
    ASSUME NEW s \in Seq(Nat)
    PROVE  /\ strlower(s) \in Seq(Nat)
           /\ Len(strlower(s)) = Len(s)
           /\ \A i \in 1 .. Len(s) : strlower(s)[i] = Small(s[i])
  <1>1. PICK w : w = strlower(s)
    OBVIOUS
  <1>2. w = [i \in 1 .. Len(s) |-> Small(s[i])]
    BY <1>1 DEF strlower, Small
  <1>3. \A i \in 1 .. Len(s) : Small(s[i]) \in Nat
    BY DEF Small
  <1>4. /\ w \in Seq(Nat) /\ Len(w) = Len(s)
        /\ \A i \in 1 .. Len(s) : w[i] = Small(s[i])
    BY <1>2, <1>3
  <1> QED
    BY <1>1, <1>4

\* Neither a dot nor a small letter is changed, and no capital is left.
LEMMA SmallIs ==
    ASSUME NEW c \in Nat
    PROVE  /\ Small(c) \in Nat
           /\ Small(c) = Dot <=> c = Dot
           /\ Small(Small(c)) = Small(c)
           /\ Small(c) \notin Capitals
           /\ c \notin Capitals => Small(c) = c
  BY DEF Small, Capitals, Dot

LEMMA OneByte ==
    ASSUME NEW b \in Nat
    PROVE  <<b>> \in Seq(Nat) /\ Len(<<b>>) = 1 /\ <<b>>[1] = b
  OBVIOUS

-----------------------------------------------------------------------------
(* The contents, step by step, of bytes at places; no sequences. *)

\* Behind n bytes d a label of k characters is appended with its dot, in e, and
\* behind n bytes q with its length, in r.
Appends(d, n, q, k, e, r) ==
    /\ \A i \in 1 .. n : e[i] = d[i] /\ r[i] = q[i]
    /\ r[n + 1] = k
    /\ \A i \in 1 .. k : e[n + i] # Dot /\ r[n + 1 + i] = Small(e[n + i])
    /\ e[n + k + 1] = Dot

LEMMA LabelAppended ==
    ASSUME NEW n \in Nat, NEW d, NEW q, Growing(d, n, q),
           NEW k \in Nat \ {0}, NEW e, NEW r, Appends(d, n, q, k, e, r)
    PROVE  Growing(e, n + k + 1, r)
  <1> USE DEF Appends
  <1>1. PICK m \in Nat : m = n + k + 1
    OBVIOUS
  <1>2. ASSUME NEW i \in (n + 1) .. (n + k)
        PROVE  e[i] # Dot /\ r[i + 1] = Small(e[i])
    <2>1. PICK j \in 1 .. k : i = n + j
      <3>1. i - n \in 1 .. k /\ i = n + (i - n)
        OBVIOUS
      <3> QED
        BY <3>1
    <2>2. i + 1 = n + 1 + j
      BY <2>1
    <2> QED
      BY <2>1, <2>2
  <1>3. ASSUME NEW i \in 1 .. m, e[i] # Dot
        PROVE  r[i + 1] = Small(e[i])
    <2>1. CASE i <= n
      <3>1. d[i] = e[i] /\ i < n
        BY <1>1, <1>3, <2>1 DEF Growing
      <3>2. q[i + 1] = Small(d[i]) /\ r[i + 1] = q[i + 1]
        BY <1>3, <2>1, <3>1 DEF Growing, Spells
      <3> QED
        BY <3>1, <3>2
    <2>2. CASE i > n
      BY <1>1, <1>2, <1>3, <2>2
    <2> QED
      BY <2>1, <2>2
  <1>4. ASSUME NEW i \in 0 .. (m - 1), i = 0 \/ e[i] = Dot
        PROVE  /\ LabelAt(e, m, i, r[i + 1])
               /\ i + r[i + 1] < m /\ r[i + 1] # 0
    <2>1. CASE i < n
      <3>1. PICK l : l = q[i + 1]
        OBVIOUS
      <3>2. (i = 0 \/ d[i] = Dot) /\ r[i + 1] = l
        BY <1>4, <2>1, <3>1
      <3>3. LabelAt(d, n, i, l) /\ i + l < n /\ l # 0
        BY <2>1, <3>1, <3>2 DEF Growing, Spells
      <3>4. LabelAt(e, m, i, l)
        BY <1>1, <2>1, <3>3 DEF LabelAt
      <3> QED
        BY <1>1, <3>2, <3>3, <3>4 DEF LabelAt
    <2>2. CASE i = n
      <3>1. LabelAt(e, m, n, k)
        BY <1>1, <1>2 DEF LabelAt
      <3> QED
        BY <1>1, <2>2, <3>1
    <2>3. ~(i > n)
      BY <1>1, <1>2, <1>4
    <2> QED
      BY <2>1, <2>2, <2>3
  <1> QED
    BY <1>1, <1>3, <1>4 DEF Growing, Spells

LEMMA BytesAreNumbers ==
    ASSUME NEW S, S \subseteq Nat, NEW k \in Nat, NEW f \in [1 .. k -> S]
    PROVE  f \in Seq(Nat) /\ Len(f) = k /\ DOMAIN f = 1 .. k
  <1>1. \A i \in 1 .. k : f[i] \in Nat
    OBVIOUS
  <1>2. f = [i \in 1 .. k |-> f[i]]
    OBVIOUS
  <1>3. f \in Seq(Nat) /\ Len(f) = k
    BY ONLY <1>1, <1>2, k \in Nat
  <1> QED
    BY <1>3

\* While labels are read: d and q have n bytes each.
Parsing(d, n, q) ==
    /\ d \in Seq(Nat) /\ Len(d) = n
    /\ q \in Seq(Nat) /\ Len(q) = n
    /\ Growing(d, n, q)

\* The label of k characters that the parser appends.
Label(label, k, d, e, q, r) ==
    /\ label \in Seq(Nat) /\ Len(label) = k
    /\ check_domain_char(label)
    /\ e = d \o label \o <<Dot>>
    /\ r = q \o <<k>> \o strlower(label)

\* The same of the parser's sequences.
LEMMA SequencesAppended ==
    ASSUME NEW n \in Nat, NEW k \in Nat \ {0}, NEW d, NEW q, NEW label,
           NEW e, NEW r, Parsing(d, n, q), Label(label, k, d, e, q, r)
    PROVE  Parsing(e, n + k + 1, r)
  <1>1. PICK dot, byte, low : /\ dot = <<Dot>> /\ byte = <<k>>
                              /\ low = strlower(label)
    OBVIOUS
  <1>2. /\ dot \in Seq(Nat) /\ Len(dot) = 1 /\ dot[1] = Dot
        /\ byte \in Seq(Nat) /\ Len(byte) = 1 /\ byte[1] = k
    BY ONLY <1>1, OneByte DEF Dot
  <1>3. label \in Seq(Nat) /\ Len(label) = k /\ check_domain_char(label)
    BY Zenon DEF Label
  <1>4. /\ low \in Seq(Nat) /\ Len(low) = k
        /\ \A i \in 1 .. k : low[i] = Small(label[i])
    BY ONLY <1>1, <1>3, Lowering
  <1>5. \A i \in 1 .. k : label[i] # Dot
    <2>1. DOMAIN label = 1 .. k
      BY ONLY <1>3
    <2>2. \A i \in 1 .. k : label[i] \in AlphaNumeric \cup {95, 45}
      BY ONLY <1>3, <2>1, Zenon DEF check_domain_char
    <2>3. Dot \notin AlphaNumeric \cup {95, 45}
      BY DEF AlphaNumeric, Capitals, Dot
    <2> QED
      BY ONLY <2>2, <2>3
  <1>6. e = d \o label \o dot /\ r = q \o byte \o low
    BY <1>1, Zenon DEF Label
  <1>7. /\ d \in Seq(Nat) /\ Len(d) = n /\ q \in Seq(Nat) /\ Len(q) = n
        /\ Growing(d, n, q)
    BY Zenon DEF Parsing
  <1>8. /\ d \in Seq(Nat) /\ Len(d) = n
        /\ label \in Seq(Nat) /\ Len(label) = k
        /\ dot \in Seq(Nat) /\ Len(dot) = 1
        /\ e = d \o label \o dot
    BY ONLY <1>2, <1>3, <1>6, <1>7, Zenon
  <1>9. /\ e \in Seq(Nat) /\ Len(e) = n + k + 1
        /\ \A i \in 1 .. n : e[i] = d[i]
        /\ \A i \in 1 .. k : e[n + i] = label[i]
        /\ \A i \in 1 .. 1 : e[n + k + i] = dot[i]
    <2>1. Joins(e, d, label, dot)
      BY ONLY <1>8, Joined
    <2> QED
      BY ONLY <1>8, <2>1, Zenon DEF Joins
  <1>10. /\ q \in Seq(Nat) /\ Len(q) = n
         /\ byte \in Seq(Nat) /\ Len(byte) = 1
         /\ low \in Seq(Nat) /\ Len(low) = k
         /\ r = q \o byte \o low
    BY ONLY <1>2, <1>4, <1>6, <1>7, Zenon
  <1>11. /\ r \in Seq(Nat) /\ Len(r) = n + 1 + k
         /\ \A i \in 1 .. n : r[i] = q[i]
         /\ \A i \in 1 .. 1 : r[n + i] = byte[i]
         /\ \A i \in 1 .. k : r[n + 1 + i] = low[i]
    <2>1. Joins(r, q, byte, low)
      BY ONLY <1>10, Joined
    <2> QED
      BY ONLY <1>10, <2>1, Zenon DEF Joins
  <1>12. /\ dot[1] = Dot /\ byte[1] = k
         /\ \A i \in 1 .. k : label[i] # Dot /\ low[i] = Small(label[i])
         /\ Growing(d, n, q)
    BY ONLY <1>2, <1>4, <1>5, <1>7, Zenon
  <1>13. e[n + k + 1] = Dot /\ r[n + 1] = k
    <2>1. 1 \in 1 .. 1
      OBVIOUS
    <2>2. e[n + k + 1] = dot[1] /\ r[n + 1] = byte[1]
      BY ONLY <1>9, <1>11, <2>1
    <2> QED
      BY ONLY <1>12, <2>2
  <1>14. \A i \in 1 .. n : e[i] = d[i] /\ r[i] = q[i]
    BY ONLY <1>9, <1>11
  <1>15. ASSUME NEW i \in 1 .. k
         PROVE  e[n + i] # Dot /\ r[n + 1 + i] = Small(e[n + i])
    <2>1. e[n + i] = label[i] /\ r[n + 1 + i] = low[i]
      BY ONLY <1>9, <1>11
    <2> QED
      BY ONLY <1>12, <2>1
  <1>16. Growing(e, n + k + 1, r)
    <2>1. Appends(d, n, q, k, e, r)
      BY ONLY <1>13, <1>14, <1>15 DEF Appends
    <2> QED
      BY ONLY <1>12, <2>1, LabelAppended
  <1>17. n + 1 + k = n + k + 1
    OBVIOUS
  <1> QED
    BY ONLY <1>9, <1>11, <1>16, <1>17, Zenon DEF Parsing

\* The last dot is cut off, in e, and the 0 ends the question, in r.
Ends(d, n, q, e, r) ==
    /\ \A i \in 1 .. (n - 1) : e[i] = d[i]
    /\ \A i \in 1 .. n : r[i] = q[i]
    /\ r[n + 1] = 0

LEMMA NameEnded ==
    ASSUME NEW n \in Nat \ {0}, NEW d, NEW q, Growing(d, n, q),
           NEW e, NEW r, Ends(d, n, q, e, r)
    PROVE  Complete(e, n - 1, r)
  <1> USE DEF Ends
  <1>1. PICK m \in Nat : m = n - 1
    OBVIOUS
  <1>2. \A i \in 1 .. m : e[i] # Dot => r[i + 1] = Small(e[i])
    BY <1>1 DEF Growing, Spells
  <1>3. ASSUME NEW i \in 0 .. m, i = 0 \/ d[i] = Dot
        PROVE  i < m /\ LabelAt(e, m, i, r[i + 1])
    <2>1. PICK l : l = q[i + 1]
      OBVIOUS
    <2>2. LabelAt(d, n, i, l) /\ i + l < n /\ l # 0 /\ r[i + 1] = l
      BY <1>1, <1>3, <2>1 DEF Growing, Spells
    <2>3. l \in Nat /\ i + l <= m /\ i < m
      BY <1>1, <2>2 DEF LabelAt
    <2>4. LabelAt(e, m, i, l)
      BY <1>1, <2>2, <2>3 DEF LabelAt
    <2> QED
      BY <2>2, <2>3, <2>4
  <1>4. m > 0
    BY <1>1, <1>3
  <1>5. e[m] # Dot
    BY <1>1, <1>3, <1>4
  <1>6. \A i \in 0 .. (m - 1) : i = 0 \/ e[i] = Dot => LabelAt(e, m, i, r[i + 1])
    BY <1>1, <1>3
  <1>7. r[m + 2] = 0
    BY <1>1
  <1> QED
    BY <1>1, <1>2, <1>4, <1>5, <1>6, <1>7 DEF Complete, Spells

\* Small letters leave the dots where they are, and the name still spells what
\* the question holds.
LEMMA NameLowered ==
    ASSUME NEW n \in Nat, NEW d, \A i \in 1 .. n : d[i] \in Nat, NEW q,
           Complete(d, n, q),
           NEW e, \A i \in 1 .. n : e[i] = Small(d[i])
    PROVE  Complete(e, n, q) /\ NoCapitals(e, n)
  <1>1. ASSUME NEW i \in 1 .. n
        PROVE  /\ e[i] = Dot <=> d[i] = Dot
               /\ Small(e[i]) = Small(d[i])
               /\ e[i] \notin Capitals
    BY SmallIs
  <1>2. ASSUME NEW i \in 0 .. (n - 1), i = 0 \/ e[i] = Dot
        PROVE  LabelAt(e, n, i, q[i + 1])
    <2>1. PICK l : l = q[i + 1]
      OBVIOUS
    <2>2. LabelAt(d, n, i, l)
      BY <1>1, <1>2, <2>1 DEF Complete, Spells
    <2>3. LabelAt(e, n, i, l)
      BY <1>1, <2>2 DEF LabelAt
    <2> QED
      BY <2>1, <2>3
  <1>3. \A i \in 1 .. n : e[i] # Dot => q[i + 1] = Small(e[i])
    BY <1>1 DEF Complete, Spells
  <1>4. n > 0 /\ e[n] # Dot /\ q[n + 2] = 0
    BY <1>1 DEF Complete
  <1> QED
    BY <1>1, <1>2, <1>3, <1>4 DEF Complete, Spells, NoCapitals

\* The length the question has where a label of d begins is that label's.
LEMMA NextLabel ==
    ASSUME NEW n \in Nat, NEW d, NEW q, Complete(d, n, q),
           NEW m \in Nat, m < n, NEW w, Written(d, q, w, m),
           NEW k, k = q[m + 1]
    PROVE  LabelAt(d, n, m, k)
  <1>1. m \in 0 .. (n - 1) /\ (m = 0 \/ d[m] = Dot)
    BY DEF Written
  <1> QED
    BY <1>1 DEF Complete, Spells

\* Behind m bytes w the label of d at m is written with its length, in v.
Writes(d, w, m, k, v) ==
    /\ \A i \in 1 .. m : v[i] = w[i]
    /\ v[m + 1] = k
    /\ \A i \in 1 .. k : v[m + 1 + i] = d[m + i]

\* What is written of a label is what the question has there.
LEMMA LabelWritten ==
    ASSUME NEW n \in Nat, NEW d, NEW q, Complete(d, n, q), NoCapitals(d, n),
           NEW m \in Nat, m < n, NEW w, Written(d, q, w, m),
           NEW k, LabelAt(d, n, m, k), k = q[m + 1],
           NEW v, Writes(d, w, m, k, v)
    PROVE  \A i \in 1 .. (m + 1 + k) : v[i] = q[i]
  <1> USE DEF Writes
  <1>1. k \in Nat /\ m + k <= n
    BY DEF LabelAt
  <1>2. ASSUME NEW j \in 1 .. k
        PROVE  v[m + 1 + j] = q[m + 1 + j]
    <2>1. /\ m + j \in 1 .. n /\ m + j \in (m + 1) .. (m + k)
          /\ m + j + 1 = m + 1 + j
      BY <1>1
    <2>2. d[m + j] # Dot /\ d[m + j] \notin Capitals
      BY <2>1 DEF LabelAt, NoCapitals
    <2>3. q[m + j + 1] = d[m + j]
      BY <2>1, <2>2 DEF Complete, Spells, Small
    <2> QED
      BY <2>1, <2>3
  <1> SUFFICES ASSUME NEW i \in 1 .. (m + 1 + k)
               PROVE  v[i] = q[i]
    OBVIOUS
  <1>3. CASE i <= m + 1
    BY <1>3 DEF Written
  <1>4. CASE i > m + 1
    <2>1. i - (m + 1) \in 1 .. k /\ i = m + 1 + (i - (m + 1))
      BY <1>1, <1>4
    <2> QED
      BY <1>2, <2>1
  <1> QED
    BY <1>3, <1>4

\* The name has been read: q has two bytes more than d, the length of the last
\* label, for which d has no dot, and the 0.
Named(d, n, q) ==
    /\ d \in Seq(Nat) /\ Len(d) = n
    /\ q \in Seq(Nat) /\ Len(q) = n + 2
    /\ Complete(d, n, q)

LEMMA SequencesEnded ==
    ASSUME NEW n \in Nat \ {0}, NEW d, NEW q, Parsing(d, n, q),
           NEW e, e = SubSeq(d, 1, n - 1), NEW r, r = q \o << 0 >>
    PROVE  Named(e, n - 1, r) /\ d[n] = Dot
  <1>1. /\ d \in Seq(Nat) /\ Len(d) = n /\ q \in Seq(Nat) /\ Len(q) = n
        /\ Growing(d, n, q) /\ n \in Nat \ {0}
    BY Zenon DEF Parsing
  <1>2. /\ e \in Seq(Nat) /\ Len(e) = n - 1
        /\ \A i \in 1 .. (n - 1) : e[i] = d[i]
    <2>1. e = SubSeq(d, 1, n - 1)
      OBVIOUS
    <2> QED
      BY ONLY <1>1, <2>1
  <1>3. /\ r \in Seq(Nat) /\ Len(r) = n + 1 /\ r[n + 1] = 0
        /\ \A i \in 1 .. n : r[i] = q[i]
    <2>1. PICK end : end = <<0>>
      OBVIOUS
    <2>2. end \in Seq(Nat) /\ Len(end) = 1 /\ end[1] = 0
      BY ONLY <2>1, OneByte
    <2>3. r = q \o end
      BY <2>1, Zenon
    <2>4. Follows(r, q, end)
      BY ONLY <1>1, <2>2, <2>3, Concatenated
    <2> QED
      BY ONLY <1>1, <2>2, <2>4 DEF Follows
  <1>4. Complete(e, n - 1, r)
    <2>1. Ends(d, n, q, e, r)
      BY ONLY <1>2, <1>3, Zenon DEF Ends
    <2> QED
      BY ONLY <1>1, <2>1, NameEnded
  <1>5. d[n] = Dot
    BY ONLY <1>1 DEF Growing
  <1>6. n - 1 + 2 = n + 1
    OBVIOUS
  <1> QED
    BY ONLY <1>2, <1>3, <1>4, <1>5, <1>6, Zenon DEF Named

LEMMA SequencesLowered ==
    ASSUME NEW n \in Nat, NEW d, NEW q, Named(d, n, q), NEW e, e = strlower(d)
    PROVE  Named(e, n, q) /\ NoCapitals(e, n)
  <1>1. /\ d \in Seq(Nat) /\ Len(d) = n /\ q \in Seq(Nat) /\ Len(q) = n + 2
        /\ Complete(d, n, q) /\ e = strlower(d)
    BY Zenon DEF Named
  <1>2. /\ e \in Seq(Nat) /\ Len(e) = n
        /\ \A i \in 1 .. n : e[i] = Small(d[i])
    BY ONLY <1>1, Lowering
  <1>3. \A i \in 1 .. n : d[i] \in Nat
    BY ONLY <1>1
  <1>4. Complete(e, n, q) /\ NoCapitals(e, n)
    BY ONLY <1>1, <1>2, <1>3, NameLowered
  <1> QED
    BY ONLY <1>1, <1>2, <1>4, Zenon DEF Named

\* The writer appends the length and the characters of the label at m to w.
WithLabel(v, w, m, k, d) ==
    /\ w \in Seq(Nat) /\ Len(w) = m
    /\ v = w \o <<k>> \o SubSeq(d, m + 1, m + k)

LEMMA SequencesWritten ==
    ASSUME NEW n \in Nat, NEW d, NEW q, Named(d, n, q), NoCapitals(d, n),
           NEW m \in Nat, m < n, NEW w, Written(d, q, w, m),
           NEW k, LabelAt(d, n, m, k), k = q[m + 1],
           NEW v, WithLabel(v, w, m, k, d)
    PROVE  /\ v \in Seq(Nat) /\ Len(v) = m + 1 + k
           /\ \A i \in 1 .. (m + 1 + k) : v[i] = q[i]
  <1>1. /\ d \in Seq(Nat) /\ Len(d) = n
        /\ w \in Seq(Nat) /\ Len(w) = m
        /\ Complete(d, n, q) /\ NoCapitals(d, n) /\ Written(d, q, w, m)
        /\ LabelAt(d, n, m, k) /\ k = q[m + 1]
        /\ m < n
    BY Zenon DEF Named, WithLabel
  <1>2. k \in Nat /\ m + k <= n
    BY ONLY <1>1 DEF LabelAt
  <1>3. PICK byte, label : byte = <<k>> /\ label = SubSeq(d, m + 1, m + k)
    OBVIOUS
  <1>4. byte \in Seq(Nat) /\ Len(byte) = 1 /\ byte[1] = k
    BY ONLY <1>2, <1>3, OneByte
  <1>5. /\ label \in Seq(Nat) /\ Len(label) = k
        /\ \A i \in 1 .. k : label[i] = d[m + i]
    <2>1. Piece(label, d, m, k)
      BY ONLY <1>1, <1>2, <1>3, PieceTaken
    <2> QED
      BY ONLY <2>1, Zenon DEF Piece
  <1>6. v = w \o byte \o label
    BY <1>3, Zenon DEF WithLabel
  <1>7. Joins(v, w, byte, label)
    BY ONLY <1>1, <1>4, <1>5, <1>6, Joined
  <1>8. /\ v \in Seq(Nat) /\ Len(v) = m + 1 + k
        /\ \A i \in 1 .. m : v[i] = w[i]
        /\ \A i \in 1 .. 1 : v[m + i] = byte[i]
        /\ \A i \in 1 .. k : v[m + 1 + i] = label[i]
    BY ONLY <1>1, <1>4, <1>5, <1>7, Zenon DEF Joins
  <1>9. v[m + 1] = k
    <2>1. 1 \in 1 .. 1
      OBVIOUS
    <2> QED
      BY ONLY <1>4, <1>8, <2>1
  <1>10. \A i \in 1 .. k : v[m + 1 + i] = d[m + i]
    BY ONLY <1>5, <1>8
  <1>11. \A i \in 1 .. (m + 1 + k) : v[i] = q[i]
    <2>1. Writes(d, w, m, k, v)
      BY ONLY <1>8, <1>9, <1>10, Zenon DEF Writes
    <2> QED
      BY ONLY <1>1, <2>1, LabelWritten
  <1> QED
    BY ONLY <1>8, <1>11

\* The writer finds where the label ends, and whether it is the last.
LEMMA LabelEndIs ==
    ASSUME NEW k, LabelAt(domain, Len(domain), Len(name), k),
           Len(name) \in Nat, Len(domain) \in Nat
    PROVE  /\ LabelEnd = Len(name) + k
           /\ DotsLeft = {} <=> Len(name) + k = Len(domain)
  <1>1. PICK m \in Nat, n \in Nat : m = Len(name) /\ n = Len(domain)
    OBVIOUS
  <1>2. /\ k \in Nat /\ m + k <= n
        /\ \A j \in (m + 1) .. (m + k) : domain[j] # Dot
        /\ m + k = n \/ domain[m + k + 1] = Dot
    BY <1>1 DEF LabelAt
  <1>3. DotsLeft = {i \in (m + 1) .. n : domain[i] = Dot}
    BY <1>1 DEF DotsLeft
  <1>4. CASE m + k = n
    <2>1. DotsLeft = {}
      BY <1>2, <1>3, <1>4
    <2> QED
      BY <1>1, <1>4, <2>1 DEF LabelEnd
  <1>5. CASE m + k # n
    <2>1. m + k + 1 \in DotsLeft
      BY <1>2, <1>3, <1>5
    <2>2. \A y \in DotsLeft : y \in Nat /\ m + k + 1 <= y
      BY <1>2, <1>3
    <2>3. Min(DotsLeft) = m + k + 1
      BY <1>2, <2>1, <2>2 DEF Min
    <2> QED
      BY <1>1, <1>2, <1>5, <2>1, <2>3 DEF LabelEnd
  <1> QED
    BY <1>4, <1>5

-----------------------------------------------------------------------------
(* The invariant. *)

LEMMA QueryInit == Init => IInv
  <1> SUFFICES ASSUME Init
               PROVE  IInv
    OBVIOUS
  <1>1. <<>> \in Seq(Nat) /\ FALSE \in BOOLEAN
    OBVIOUS
  <1>2. /\ 0 \in 0 .. BufSize /\ 0 \in -HdrSize .. BufSize
        /\ 0 \in -(HdrSize + 1 + TypeClassSize) .. BufSize
    OBVIOUS
  <1>3. TypeOK
    BY <1>1, <1>2 DEF Init, TypeOK
  <1>4. Places /\ Contents
    BY DEF Init, Places, AtRecv, AtLabel, AtType, Parsed, AtWrite, ReadBound,
           Contents
  <1> QED
    BY <1>3, <1>4 DEF IInv

\* A handler that gives up leaves nothing behind.
LEMMA Abandoned ==
    ASSUME TypeOK, Abandon, ReadBound', high' \in Nat,
           UNCHANGED <<len, left, out>>, supported' \in BOOLEAN
    PROVE  IInv'
  <1>1. /\ pc' = "recv" /\ domain' = <<>> /\ question' = <<>> /\ name' = <<>>
    BY DEF Abandon
  <1>2. <<>> \in Seq(Nat)
    OBVIOUS
  <1>3. TypeOK'
    BY <1>1, <1>2 DEF TypeOK
  <1>4. Places' /\ Contents'
    BY <1>1 DEF Places, AtRecv, AtLabel, AtType, Parsed, AtWrite, Contents
  <1> QED
    BY <1>3, <1>4 DEF IInv

LEMMA QueryReceive ==
    ASSUME IInv, NEW size \in 1 .. BufSize, Receive(size)
    PROVE  IInv'
  <1>1. /\ pc = "recv" /\ pc' \in {"recv", "label"}
        /\ len' = size - HdrSize /\ left' = len' /\ high' = 0
        /\ supported' = FALSE /\ out' = 0
        /\ UNCHANGED <<domain, question, name>>
    BY DEF Receive
  <1>2. domain' = <<>> /\ question' = <<>> /\ name' = <<>> /\ Len(<<>>) = 0
    BY <1>1 DEF IInv, Places, AtRecv
  <1>3. TypeOK'
    <2>1. <<>> \in Seq(Nat) /\ FALSE \in BOOLEAN
      OBVIOUS
    <2>2. /\ len' \in -HdrSize .. BufSize
          /\ left' \in (-HdrSize .. BufSize) \cup (-(1 + TypeClassSize) .. BufSize)
          /\ 0 \in 0 .. BufSize
      BY <1>1
    <2> QED
      BY <1>1, <1>2, <2>1, <2>2 DEF TypeOK
  <1>4. pc' = "label" => left' >= 0 /\ len' - left' = 0
    BY <1>1 DEF Receive
  <1>5. Places'
    BY <1>1, <1>2, <1>4 DEF Places, AtRecv, AtLabel, AtType, Parsed, AtWrite,
       ReadBound, Offset
  <1>6. Growing(<<>>, 0, <<>>)
    BY DEF Growing, Spells
  <1>7. Contents'
    BY <1>1, <1>2, <1>6 DEF Contents
  <1> QED
    BY <1>3, <1>5, <1>7 DEF IInv

LEMMA QueryReadLabel ==
    ASSUME IInv, NEW seclen \in 1 .. MaxLabel, ReadLabel(seclen)
    PROVE  IInv'
  <1>1. TypeOK /\ Len(domain) \in Nat
    BY DEF IInv, TypeOK
  <1>2. /\ pc = "label" /\ UNCHANGED <<len, supported, out>>
        /\ Offset = Len(domain) /\ left >= 0 /\ high <= Len(domain)
        /\ Len(domain) <= MAX_DOMAIN
    BY DEF ReadLabel, IInv, Places, AtLabel
  <1>3. left \in Int /\ len \in Int /\ high \in Nat /\ Offset = len - left
    BY <1>1 DEF TypeOK, Offset
  <1>4. high' \in Nat /\ ReadBound'
    BY <1>1, <1>2, <1>3 DEF ReadLabel, LabelFits, Farther, ReadBound
  <1>5. CASE Abandon /\ UNCHANGED left
    <2>1. supported' \in BOOLEAN
      BY <1>1, <1>2 DEF TypeOK
    <2> QED
      BY <1>1, <1>2, <1>4, <1>5, <2>1, Abandoned
  <1>6. ASSUME LabelFits(seclen), high' = Farther(Offset + seclen + 1),
               left' = left - (seclen + 1)
        PROVE  /\ high' <= Len(domain) + seclen + 1
               /\ Len(domain) + seclen + 1 <= MAX_DOMAIN /\ left' >= 0
               /\ len' - left' = Len(domain) + seclen + 1
               /\ left' \in (-HdrSize .. BufSize) \cup (-(1 + TypeClassSize) .. BufSize)
    BY <1>1, <1>2, <1>3, <1>6 DEF LabelFits, Farther, TypeOK
  <1>7. ASSUME NEW label \in [1 .. seclen -> Chars],
               LabelFits(seclen),
               high' = Farther(Offset + seclen + 1),
               check_domain_char(label),
               left' = left - (seclen + 1),
               domain' = domain \o label \o <<Dot>>,
               question' = question \o <<seclen>> \o strlower(label),
               UNCHANGED <<pc, name>>
        PROVE  IInv'
    <2>1. /\ label \in Seq(Nat) /\ Len(label) = seclen
          /\ seclen \in Nat \ {0} /\ DOMAIN label = 1 .. seclen
      <3>1. seclen \in Nat \ {0}
        OBVIOUS
      <3>2. Chars \subseteq Nat
        OBVIOUS
      <3> QED
        BY <3>1, <3>2, BytesAreNumbers, Zenon
    <2>2. PICK n \in Nat : n = Len(domain)
      BY <1>1
    <2>3. Parsing(domain, n, question) /\ name = <<>>
      BY <1>1, <1>2, <2>2 DEF TypeOK, IInv, Contents, Parsing
    <2>4. PICK d, q : d = domain' /\ q = question'
      OBVIOUS
    <2>5. check_domain_char(label)
      BY <1>7
    <2>6. /\ d = domain \o label \o <<Dot>>
          /\ q = question \o <<seclen>> \o strlower(label)
      BY <1>7, <2>4, Zenon
    <2>7. Label(label, seclen, domain, d, question, q)
      BY ONLY <2>1, <2>5, <2>6, Zenon DEF Label
    <2>8. Parsing(d, n + seclen + 1, q)
      BY ONLY <2>1, <2>2, <2>3, <2>7, SequencesAppended
    <2>9. Parsing(domain', n + seclen + 1, question')
      BY <2>4, <2>8, Zenon
    <2>10. /\ domain' \in Seq(Nat) /\ Len(domain') = n + seclen + 1
           /\ question' \in Seq(Nat) /\ Len(question') = n + seclen + 1
           /\ Growing(domain', n + seclen + 1, question')
      BY ONLY <2>9, Zenon DEF Parsing
    <2>11. /\ high' <= n + seclen + 1 /\ n + seclen + 1 <= MAX_DOMAIN /\ left' >= 0
           /\ Offset' = n + seclen + 1
           /\ left' \in (-HdrSize .. BufSize) \cup (-(1 + TypeClassSize) .. BufSize)
      BY <1>7, <1>6, <2>2, Zenon DEF Offset
    <2>12. TypeOK'
      BY <1>1, <1>2, <1>4, <1>7, <2>10, <2>11 DEF TypeOK
    <2>13. Places'
      BY <1>2, <1>4, <1>7, <2>10, <2>11 DEF Places, AtRecv, AtLabel, AtType, Parsed,
         AtWrite
    <2>14. Contents'
      <3>1. pc' = "label" /\ name' = <<>>
        BY <1>2, <1>7, <2>3
      <3>2. /\ Len(question') = Len(domain')
            /\ Growing(domain', Len(domain'), question')
        BY <2>10
      <3> QED
        BY <3>1, <3>2 DEF Contents
    <2> QED
      BY <2>12, <2>13, <2>14 DEF IInv
  <1> QED
    BY <1>5, <1>7 DEF ReadLabel

LEMMA QueryEndName ==
    ASSUME IInv, EndName
    PROVE  IInv'
  <1>1. TypeOK /\ Len(domain) \in Nat
    BY DEF IInv, TypeOK
  <1>2. /\ pc = "label" /\ UNCHANGED <<len, supported, out>>
        /\ Offset = Len(domain) /\ left >= 0 /\ high <= Len(domain)
        /\ Len(domain) <= MAX_DOMAIN /\ high' = Farther(Offset + 1)
    BY DEF EndName, IInv, Places, AtLabel
  <1>3. left \in Int /\ len \in Int /\ high \in Nat /\ Offset = len - left
    BY <1>1 DEF TypeOK, Offset
  <1>4. high' \in Nat /\ high' <= Len(domain) + 1 /\ ReadBound'
    BY <1>1, <1>2, <1>3 DEF Farther, ReadBound
  <1>5. CASE domain = <<>>
    <2>1. Abandon /\ UNCHANGED left /\ supported' \in BOOLEAN
      BY <1>1, <1>2, <1>5 DEF EndName, TypeOK
    <2> QED
      BY <1>1, <1>2, <1>4, <2>1, Abandoned
  <1>6. CASE domain # <<>>
    <2>1. PICK n \in Nat : n = Len(domain)
      BY <1>1
    <2>2. Parsing(domain, n, question) /\ name = <<>>
      BY <1>1, <1>2, <2>1 DEF TypeOK, IInv, Contents, Parsing
    <2>3. n \in Nat \ {0}
      <3>1. domain \in Seq(Nat)
        BY <1>1 DEF TypeOK
      <3> QED
        BY ONLY <1>6, <2>1, <3>1
    <2>4. PICK d, q : d = SubSeq(domain, 1, n - 1) /\ q = question \o <<0>>
      OBVIOUS
    <2>5. Named(d, n - 1, q) /\ domain[n] = Dot
      BY ONLY <2>2, <2>3, <2>4, SequencesEnded
    <2>6. /\ pc' = "type" /\ left' = left - 1
          /\ domain' = IF domain[n] = Dot THEN d ELSE domain
          /\ question' = q /\ name' = name
      BY <1>6, <2>1, <2>4, Zenon DEF EndName
    <2>7. /\ domain' \in Seq(Nat) /\ Len(domain') = n - 1
          /\ question' \in Seq(Nat) /\ Len(question') = n - 1 + 2
          /\ Complete(domain', n - 1, question')
      BY ONLY <2>5, <2>6, Zenon DEF Named
    <2>8. TypeOK'
      <3>1. left' \in (-HdrSize .. BufSize) \cup (-(1 + TypeClassSize) .. BufSize)
        BY <1>1, <1>2, <2>6 DEF TypeOK
      <3> QED
        BY <1>1, <1>2, <1>4, <2>6, <2>7, <3>1 DEF TypeOK
    <2>9. Places'
      <3>1. /\ Offset' = n - 1 + 2 /\ left' >= -1 /\ high' <= n - 1 + 2
            /\ n - 1 + 1 <= MAX_DOMAIN
        BY <1>2, <1>3, <1>4, <2>1, <2>6 DEF Offset
      <3> QED
        BY <1>4, <2>6, <2>7, <3>1 DEF Places, AtRecv, AtLabel, AtType, Parsed, AtWrite
    <2>10. Contents'
      BY <2>2, <2>6, <2>7 DEF Contents
    <2> QED
      BY <2>8, <2>9, <2>10 DEF IInv
  <1> QED
    BY <1>5, <1>6

LEMMA QueryReadTypeClass ==
    ASSUME IInv, ReadTypeClass
    PROVE  IInv'
  <1>1. TypeOK
    BY DEF IInv
  <1>2. PICK n \in Nat : n = Len(domain)
    BY <1>1 DEF TypeOK
  <1>3. /\ pc = "type" /\ UNCHANGED <<len, out>>
        /\ Offset = n + 2 /\ left >= -1 /\ high <= n + 2 /\ n + 1 <= MAX_DOMAIN
        /\ ReadBound
    BY <1>2 DEF ReadTypeClass, IInv, Places, AtType
  <1>4. /\ left \in Int /\ len \in Int /\ high \in Nat /\ Offset = len - left
        /\ supported \in BOOLEAN
    BY <1>1 DEF TypeOK, Offset
  <1>5. CASE TooShort
    <2>1. Abandon /\ UNCHANGED <<left, high, supported>>
      BY <1>5 DEF ReadTypeClass
    <2>2. ReadBound' /\ high' \in Nat
      BY <1>3, <1>4, <2>1 DEF ReadBound
    <2> QED
      BY <1>1, <1>3, <1>4, <2>1, <2>2, Abandoned
  <1>6. CASE ~TooShort
    <2>1. /\ pc' = "lookup" /\ high' = Farther(Offset + TypeClassSize)
          /\ left' = left - TypeClassSize /\ supported' \in BOOLEAN
          /\ UNCHANGED <<domain, question, name>>
      BY <1>6 DEF ReadTypeClass
    <2>2. high' = n + 2 + TypeClassSize
      BY <1>3, <1>4, <2>1 DEF Farther
    <2>3. high' <= len \/ n + 1 = len
      BY <1>3, <1>4, <1>6, <2>2 DEF TooShort
    <2>4. TypeOK'
      <3>1. left' \in (-HdrSize .. BufSize) \cup (-(1 + TypeClassSize) .. BufSize)
        BY <1>1, <1>3, <2>1 DEF TypeOK
      <3>2. high' \in Nat
        BY <2>2
      <3> QED
        BY <1>1, <1>3, <2>1, <3>1, <3>2 DEF TypeOK
    <2>5. Len(domain') = n /\ len' = len
      BY <1>2, <1>3, <2>1
    <2>6. Places'
      <3>1. ReadBound'
        BY <1>3, <2>2 DEF ReadBound
      <3> QED
        BY <1>3, <2>1, <2>2, <2>3, <2>5, <3>1 DEF Places, AtRecv, AtLabel, AtType,
           Parsed, AtWrite
    <2>7. Contents'
      BY <1>3, <2>1 DEF IInv, Contents
    <2> QED
      BY <2>4, <2>6, <2>7 DEF IInv
  <1> QED
    BY <1>5, <1>6

LEMMA QueryLookup ==
    ASSUME IInv, Lookup
    PROVE  IInv'
  <1>1. TypeOK /\ pc = "lookup" /\ UNCHANGED <<len, left, high, supported>>
    BY DEF IInv, Lookup
  <1>2. PICK n \in Nat : n = Len(domain)
    BY <1>1 DEF TypeOK
  <1>3. high' \in Nat /\ supported' \in BOOLEAN /\ ReadBound'
    BY <1>1 DEF TypeOK, IInv, Places, ReadBound
  <1>4. CASE Abandon /\ UNCHANGED out
    BY <1>1, <1>3, <1>4, Abandoned
  <1>5. ASSUME pc' = "write", domain' = strlower(domain), out' = HdrSize,
               UNCHANGED <<question, name>>
        PROVE  IInv'
    <2>1. Named(domain, n, question) /\ name = <<>>
      BY <1>1, <1>2 DEF TypeOK, IInv, Contents, Named
    <2>2. PICK d : d = strlower(domain)
      OBVIOUS
    <2>3. Named(d, n, question) /\ NoCapitals(d, n)
      BY ONLY <1>2, <2>1, <2>2, SequencesLowered
    <2>4. domain' = d /\ question' = question /\ name' = <<>>
      BY <1>5, <2>1, <2>2, Zenon
    <2>5. /\ d \in Seq(Nat) /\ Len(d) = n /\ Len(question) = n + 2
          /\ Complete(d, n, question)
      BY <2>3, Zenon DEF Named
    <2>6. n > 0
      BY <2>5 DEF Complete
    <2>7. TypeOK'
      <3>1. HdrSize \in 0 .. BufSize
        OBVIOUS
      <3> QED
        BY <1>1, <1>3, <1>5, <2>4, <2>5, <3>1 DEF TypeOK
    <2>8. <<>> \in Seq(Nat) /\ Len(<<>>) = 0
      OBVIOUS
    <2>9. Places'
      <3>1. /\ high' <= n + 2 + TypeClassSize /\ n + 1 <= MAX_DOMAIN
            /\ high' <= len' \/ n + 1 = len'
        BY <1>1, <1>2 DEF IInv, Places, Parsed
      <3> QED
        BY <1>3, <1>5, <2>4, <2>5, <2>8, <3>1 DEF Places, AtRecv, AtLabel, AtType,
           Parsed, AtWrite
    <2>10. Contents'
      <3>1. Written(d, question, <<>>, 0)
        BY DEF Written
      <3> QED
        BY <1>5, <2>3, <2>4, <2>5, <2>6, <2>8, <3>1 DEF Contents
    <2> QED
      BY <2>7, <2>9, <2>10 DEF IInv
  <1> QED
    BY <1>4, <1>5 DEF Lookup

\* The 0 behind the last label, and the question is complete.
LEMMA LastWritten ==
    ASSUME NEW n \in Nat, NEW d, NEW q, Named(d, n, q),
           NEW v, v \in Seq(Nat) /\ Len(v) = n + 1,
           \A i \in 1 .. (n + 1) : v[i] = q[i],
           NEW w, w = v \o << 0 >>
    PROVE  w = q
  <1>1. /\ q \in Seq(Nat) /\ Len(q) = n + 2 /\ q[n + 2] = 0
        /\ v \in Seq(Nat) /\ Len(v) = n + 1
        /\ \A i \in 1 .. (n + 1) : v[i] = q[i]
    BY Zenon DEF Named, Complete
  <1>2. PICK end : end = <<0>>
    OBVIOUS
  <1>3. end \in Seq(Nat) /\ Len(end) = 1 /\ end[1] = 0
    BY ONLY <1>2, OneByte
  <1>4. w = v \o end
    BY <1>2, Zenon
  <1>5. Follows(w, v, end)
    BY ONLY <1>1, <1>3, <1>4, Concatenated
  <1>6. w \in Seq(Nat) /\ Len(w) = n + 2
    BY ONLY <1>1, <1>3, <1>5 DEF Follows
  <1>7. ASSUME NEW i \in 1 .. (n + 2)
        PROVE  w[i] = q[i]
    <2>1. CASE i <= n + 1
      BY ONLY <1>1, <1>3, <1>5, <2>1 DEF Follows
    <2>2. CASE i = n + 2
      <3>1. w[i] = end[1]
        BY ONLY <1>1, <1>3, <1>5, <2>2 DEF Follows
      <3> QED
        BY ONLY <1>1, <1>3, <2>2, <3>1
    <2> QED
      BY <2>1, <2>2
  <1> QED
    BY ONLY <1>1, <1>6, <1>7, SameSequence

LEMMA QueryWriteLabel ==
    ASSUME IInv, WriteLabel
    PROVE  IInv'
  <1>1. TypeOK /\ pc = "write" /\ UNCHANGED <<len, left, high, supported>>
    BY DEF IInv, WriteLabel
  <1>2. PICK m \in Nat, n \in Nat : m = Len(name) /\ n = Len(domain)
    BY <1>1 DEF TypeOK
  <1>3. PICK k : k = question[m + 1]
    OBVIOUS
  <1>4. high' \in Nat /\ supported' \in BOOLEAN /\ ReadBound'
    BY <1>1 DEF TypeOK, IInv, Places, ReadBound
  <1>5. /\ Named(domain, n, question) /\ NoCapitals(domain, n)
        /\ Written(domain, question, name, m) /\ m < n
        /\ name \in Seq(Nat)
    BY <1>1, <1>2 DEF TypeOK, IInv, Contents, Named
  <1>6. LabelAt(domain, n, m, k)
    <2>1. Complete(domain, n, question)
      BY ONLY <1>5, Zenon DEF Named
    <2> QED
      BY ONLY <1>2, <1>3, <1>5, <2>1, NextLabel
  <1>7. /\ k \in Nat /\ m + k <= n
        /\ LabelEnd = m + k /\ (DotsLeft = {} <=> m + k = n)
    <2>1. k \in Nat /\ m + k <= n
      BY <1>6 DEF LabelAt
    <2>2. /\ LabelAt(domain, Len(domain), Len(name), k)
          /\ Len(name) \in Nat /\ Len(domain) \in Nat
      BY ONLY <1>2, <1>6, Zenon
    <2>3. /\ LabelEnd = Len(name) + k
          /\ DotsLeft = {} <=> Len(name) + k = Len(domain)
      BY ONLY <2>2, LabelEndIs
    <2> QED
      BY <1>2, <2>1, <2>3
  <1>8. LabelEnd - Len(name) = k
    BY <1>2, <1>7
  <1>9. PICK v : v = name \o <<k>> \o SubSeq(domain, m + 1, m + k)
    OBVIOUS
  <1>10. name \o <<LabelEnd - Len(name)>> \o SubSeq(domain, Len(name) + 1, LabelEnd) = v
    BY ONLY <1>2, <1>7, <1>8, <1>9, Zenon
  <1>11. /\ v \in Seq(Nat) /\ Len(v) = m + 1 + k
         /\ \A i \in 1 .. (m + 1 + k) : v[i] = question[i]
    <2>1. WithLabel(v, name, m, k, domain)
      BY ONLY <1>2, <1>5, <1>9, Zenon DEF WithLabel
    <2> QED
      BY ONLY <1>2, <1>3, <1>5, <1>6, <2>1, SequencesWritten
  <1>12. /\ out = HdrSize + m /\ n + 1 <= MAX_DOMAIN
         /\ high <= n + 2 + TypeClassSize /\ (high <= len \/ n + 1 = len)
    BY <1>1, <1>2 DEF IInv, Places, AtWrite, Parsed
  <1>13. CASE Abandon /\ UNCHANGED out
    BY <1>1, <1>4, <1>13, Abandoned
  <1>14. ASSUME DotsLeft # {}, name' = v, out' = out + k + 1,
                UNCHANGED <<pc, domain, question>>
         PROVE  IInv'
    <2>1. m + k < n /\ domain[m + k + 1] = Dot /\ domain[n] # Dot
      BY <1>5, <1>6, <1>7, <1>14 DEF LabelAt, Named, Complete
    <2>2. m + 1 + k = m + k + 1 /\ m + k + 1 < n
      BY <1>7, <2>1
    <2>3. /\ Len(name') = m + k + 1 /\ name' \in Seq(Nat)
          /\ Written(domain, question, v, m + k + 1)
      BY <1>11, <1>14, <2>1, <2>2 DEF Written
    <2>4. out' = HdrSize + (m + k + 1) /\ out' \in 0 .. BufSize
      BY <1>7, <1>12, <1>14, <2>2
    <2>5. TypeOK'
      BY <1>1, <1>4, <1>14, <2>3, <2>4 DEF TypeOK
    <2>6. Len(domain') = n
      BY <1>2, <1>14
    <2>7. Places'
      BY <1>1, <1>4, <1>12, <1>14, <2>3, <2>4, <2>6 DEF Places, AtRecv, AtLabel,
         AtType, Parsed, AtWrite
    <2>8. Contents'
      <3>1. /\ Len(question') = n + 2
            /\ Complete(domain', n, question') /\ NoCapitals(domain', n)
            /\ Written(domain', question', name', m + k + 1)
        BY <1>5, <1>14, <2>3, Zenon DEF Named
      <3> QED
        BY <1>1, <1>14, <2>2, <2>3, <2>6, <3>1 DEF Contents
    <2> QED
      BY <2>5, <2>7, <2>8 DEF IInv
  <1>15. ASSUME DotsLeft = {}, name' = v \o << 0 >>, out' = out + k + 2,
                pc' = "answer", UNCHANGED <<domain, question>>
         PROVE  IInv'
    <2>1. m + k = n /\ m + 1 + k = n + 1
      BY <1>7, <1>15
    <2>2. /\ v \in Seq(Nat) /\ Len(v) = n + 1
          /\ \A i \in 1 .. (n + 1) : v[i] = question[i]
      BY ONLY <1>11, <2>1
    <2>3. PICK w : w = v \o <<0>>
      OBVIOUS
    <2>4. w = question
      BY ONLY <1>2, <1>5, <2>2, <2>3, LastWritten
    <2>5. name' = question /\ Len(question) = n + 2 /\ question \in Seq(Nat)
      BY <1>5, <1>15, <2>3, <2>4, Zenon DEF Named
    <2>6. out' = HdrSize + (n + 2) /\ out' \in 0 .. BufSize
      BY <1>7, <1>12, <1>15, <2>1
    <2>7. TypeOK'
      BY <1>1, <1>4, <1>15, <2>5, <2>6 DEF TypeOK
    <2>8. Len(domain') = n /\ Len(name') = n + 2
      BY <1>2, <1>15, <2>5
    <2>9. Places'
      BY <1>1, <1>4, <1>12, <1>15, <2>6, <2>8 DEF Places, AtRecv, AtLabel, AtType,
         Parsed, AtWrite
    <2>10. Contents'
      <3>1. Complete(domain', n, question') /\ Len(question') = n + 2
        BY <1>5, <1>15, Zenon DEF Named
      <3> QED
        BY <1>15, <2>5, <2>8, <3>1 DEF Contents
    <2> QED
      BY <2>7, <2>9, <2>10 DEF IInv
  <1>16. Len(name) # Len(domain)
    BY <1>2, <1>5
  <1> QED
    BY <1>8, <1>10, <1>13, <1>14, <1>15, <1>16 DEF WriteLabel

LEMMA QueryAnswer ==
    ASSUME IInv, Answer
    PROVE  IInv'
  <1>1. /\ pc = "answer" /\ pc' = "sent"
        /\ out' = out + TypeClassSize + (IF supported THEN AnswerSize ELSE 0)
        /\ UNCHANGED <<len, left, domain, question, high, supported, name>>
    BY DEF Answer
  <1>2. TypeOK /\ Places
    BY DEF IInv
  <1>3. /\ Len(name) = Len(domain) + 2 /\ Len(domain) \in Nat
        /\ out = HdrSize + Len(name) /\ Len(domain) + 1 <= MAX_DOMAIN
    BY <1>1, <1>2 DEF IInv, Contents, Places, AtWrite, Parsed, TypeOK
  <1>4. out' \in 0 .. BufSize
    BY <1>1, <1>3
  <1>5. TypeOK'
    BY <1>1, <1>2, <1>4 DEF TypeOK
  <1>6. Places'
    BY <1>1, <1>2 DEF Places, AtRecv, AtLabel, AtType, Parsed, AtWrite, ReadBound
  <1>7. Contents'
    BY <1>1 DEF Contents
  <1> QED
    BY <1>5, <1>6, <1>7 DEF IInv

LEMMA QueryReturn ==
    ASSUME IInv, Return
    PROVE  IInv'
  <1>1. /\ Abandon /\ UNCHANGED <<len, left, high, supported, out>>
        /\ TypeOK /\ ReadBound
    BY DEF Return, IInv, Places
  <1>2. ReadBound' /\ high' \in Nat /\ supported' \in BOOLEAN
    BY <1>1 DEF ReadBound, TypeOK
  <1> QED
    BY <1>1, <1>2, Abandoned

LEMMA QueryStutters ==
    ASSUME IInv, UNCHANGED vars
    PROVE  IInv'
  BY DEF IInv, vars, TypeOK, Places, AtRecv, AtLabel, AtType, Parsed, AtWrite,
         ReadBound, Contents, Offset

LEMMA QueryNext == IInv /\ [Next]_vars => IInv'
  BY QueryReceive, QueryReadLabel, QueryEndName, QueryReadTypeClass, QueryLookup,
     QueryWriteLabel, QueryAnswer, QueryReturn, QueryStutters DEF Next

-----------------------------------------------------------------------------

\* The handler's counters and contents keep their types: left may be negative,
\* but the response never has more bytes than its buffer.
THEOREM QueryTypeCorrect == Spec => []TypeOK
  <1>1. IInv => TypeOK
    BY DEF IInv
  <1> QED
    BY <1>1, QueryInit, QueryNext, PTL DEF Spec

\* Every read of the parser and every write of the response is inside its
\* buffer, for every datagram.
THEOREM HandlerStaysInBuffers == Spec => []StaysInBuffers
  <1>1. ASSUME IInv
        PROVE  StaysInBuffers
    <2>1. /\ TypeOK /\ Places
          /\ Len(domain) \in Nat /\ Len(<<>>) = 0
      BY <1>1 DEF IInv, TypeOK
    <2>2. high + HdrSize <= BufSize /\ out <= BufSize
      BY <2>1 DEF TypeOK, Places, ReadBound
    <2>3. Len(domain) <= MAX_DOMAIN
      BY <2>1 DEF TypeOK, Places, AtRecv, AtLabel, AtType, Parsed
    <2> QED
      BY <2>2, <2>3 DEF StaysInBuffers
  <1> QED
    BY <1>1, QueryInit, QueryNext, PTL DEF Spec

\* The bytes of the name in the response are those the parser read, each
\* label's length, its characters in small letters and the 0, and they lie
\* behind the header, for every datagram and every size of label and name.
THEOREM ResponseEchoesQuestion == Spec => []EchoesQuestion
  <1>1. IInv => EchoesQuestion
    BY DEF IInv, EchoesQuestion, Contents, Places, AtWrite
  <1> QED
    BY <1>1, QueryInit, QueryNext, PTL DEF Spec

\* Only labels that fill a datagram to its last byte make the server take
\* the type and class from what the buffer held before.
THEOREM StaleReadOnlyWhenFull == Spec => []StaleOnlyWhenFull
  <1>1. IInv => StaleOnlyWhenFull
    BY DEF IInv, Places, StaleOnlyWhenFull, Parsed
  <1> QED
    BY <1>1, QueryInit, QueryNext, PTL DEF Spec
=============================================================================
