----------------------------- MODULE JsonValue ------------------------------
(***************************************************************************)
(* What JsonParse is for: the value a text stands for, by the grammar of   *)
(* JSON (RFC 8259), and the value a tree of items stands for.              *)
(*                                                                         *)
(* As in src/cjson.c, any character up to 32 is whitespace, a string may   *)
(* hold control characters, a number is what strtod takes, and what        *)
(* follows the value is not looked at.                                     *)
(***************************************************************************)
EXTENDS JsonParse

\* The value of an item, with its name, if it has one.
ValueOf[i \in DOMAIN node] ==
    [type |-> node[i].type,
     name |-> IF node[i].string = NULL THEN <<>> ELSE <<Name(i)>>,
     text |-> IF node[i].type = "Number" THEN node[i].number
              ELSE IF node[i].valuestring = NULL THEN <<>>
              ELSE str[node[i].valuestring],
     members |-> [n \in DOMAIN Children(i) |-> ValueOf[Children(i)[n]]]]

-----------------------------------------------------------------------------

\* The first place from p on that is not whitespace.
Solid(p) == CHOOSE q \in p .. Len(text) :
                /\ q = Len(text) \/ Char(q) \notin White
                /\ \A r \in p .. (q - 1) : Char(r) \in White

IsHex(p) == \A i \in 0 .. 3 :
                Char(p + i) \in Digits \cup (65 .. 70) \cup (97 .. 102)

Hex(p) == HexDigit(Char(p)) * 4096 + HexDigit(Char(p + 1)) * 256
          + HexDigit(Char(p + 2)) * 16 + HexDigit(Char(p + 3))

\* The codepoint of two \u literals, one surrogate each.
Paired(first, second) ==
    65536 + (first - 55296) * 1024 + (second - 56320)

IsLiteral16(p) == Char(p) = Backslash /\ Char(p + 1) = 117 /\ IsHex(p + 2)

\* The character written at place p of a string: its bytes, and how many
\* characters it takes to write.
Characters(p) ==
    {u \in [out : {<<Char(p)>>}, length : {1}] :
        Char(p) \notin {Quote, Backslash}}
    \cup {[out |-> <<Escaped[i]>>, length |-> 2] :
            i \in {j \in DOMAIN Escapes :
                    Char(p) = Backslash /\ Char(p + 1) = Escapes[j]}}
    \cup {u \in [out : {Utf8(Hex(p + 2))}, length : {6}] :
        IsLiteral16(p) /\ ~Surrogate1(Hex(p + 2)) /\ ~Surrogate2(Hex(p + 2))}
    \cup {u \in [out : {Utf8(Paired(Hex(p + 2), Hex(p + 8)))}, length : {12}] :
        /\ IsLiteral16(p) /\ Surrogate1(Hex(p + 2))
        /\ IsLiteral16(p + 6) /\ Surrogate2(Hex(p + 8))}

Nothing == [out |-> <<>>, end |-> 0]

\* The rest of a string, from p to its closing quote.
StringAt[p \in Nat] ==
    IF p >= Len(text) THEN Nothing
    ELSE IF Char(p) = Quote THEN [out |-> <<>>, end |-> p + 1]
    ELSE IF Characters(p) = {} THEN Nothing
    ELSE LET u    == CHOOSE c \in Characters(p) : TRUE
             rest == StringAt[p + u.length]
         IN  IF rest = Nothing THEN Nothing
             ELSE [out |-> u.out \o rest.out, end |-> rest.end]

Meaning(type, content, members, last) ==
    [out |-> [type |-> type, name |-> <<>>, text |-> content, members |-> members],
     end |-> last]

\* A value that begins at p and is no array or object.
ScalarAt(p) ==
    LET words  == {t \in DOMAIN Literals : At(p, Literals[t])}
        string == StringAt[p + 1]
        number == SubSeq(Copied(p), 1, strtod(Copied(p)))
    IN  IF words # {} THEN
            LET type == CHOOSE t \in words : TRUE
            IN  Meaning(type, <<>>, <<>>, p + Len(Literals[type]))
        ELSE IF Char(p) = Quote /\ string # Nothing
            THEN Meaning("String", string.out, <<>>, string.end)
        ELSE IF Char(p) \in Digits \cup {45} /\ number # <<>>
            THEN Meaning("Number", number, <<>>, p + Len(number))
        ELSE Nothing

\* Its brackets open at p: the members inside, or no space for any.
ListAt(type, p, members) ==
    IF Char(Solid(p + 1)) = Closing[type]
      THEN Meaning(type, <<>>, <<>>, Solid(p + 1) + 1)
    ELSE IF members = Nothing THEN Nothing
    ELSE Meaning(type, <<>>, members.out, members.end)

\* The name of the member that begins at p, and the place of its value.
NameAt(type, p) ==
    LET string == StringAt[p + 1]
        colon  == Solid(string.end)
    IN  IF type = "Array" THEN [out |-> <<>>, end |-> p]
        ELSE IF Char(p) = Quote /\ string # Nothing /\ Char(colon) = Colon
          THEN [out |-> <<string.out>>, end |-> Solid(colon + 1)]
          ELSE Nothing

\* A member, with the members after it, up to the closing bracket.
MembersAt(type, name, value, rest) ==
    LET first == [value.out EXCEPT !.name = name.out]
        next  == Solid(value.end)
    IN  IF Char(next) = Closing[type] THEN [out |-> <<first>>, end |-> next + 1]
        ELSE IF Char(next) = Comma /\ rest # Nothing
          THEN [out |-> <<first>> \o rest.out, end |-> rest.end]
          ELSE Nothing

\* What begins at p, in at most d more arrays and objects, and where it ends: a
\* value, or the members of an array or object up to its closing bracket.
Grammar[what \in {"value"} \cup DOMAIN Opening] ==
    [p \in 0 .. Len(text) |-> [d \in Nat |->
        LET type  == CHOOSE t \in DOMAIN Opening : Opening[t] = Char(p)
            name  == NameAt(what, p)
            value == Grammar["value"][name.end][d]
            rest  == Grammar[what][Solid(Solid(value.end) + 1)][d]
        IN  IF what = "value"
              THEN IF d > 0 /\ Char(p) \in Range(Opening)
                     THEN ListAt(type, p, Grammar[type][Solid(p + 1)][d - 1])
                     ELSE ScalarAt(p)
            ELSE IF name = Nothing THEN Nothing
            ELSE IF value = Nothing THEN Nothing
            ELSE MembersAt(what, name, value, rest)]]

-----------------------------------------------------------------------------

\* parse_hex4 makes 0 of a character that is no digit, and the literal is
\* taken for \u0000.
WrongHex == \E p \in 0 .. Len(text) :
                /\ Char(p) = Backslash /\ Char(p + 1) = 117
                /\ p + 2 > Len(text) \/ ~IsHex(p + 2)

\* When parse_value returns for the root, the tree it built is the value the
\* text stands for and offset the place behind it; it fails only for texts
\* that stand for none, or without memory.  Left out are texts with a wrong
\* \u literal, and a string closed by the byte behind the text.
ParsesGrammar ==
    stack = <<>> /\ ~WrongHex /\ offset <= length =>
        LET meant == Grammar["value"][Solid(0)][NestingLimit]
        IN  /\ pc = "true" =>
                meant = [out |-> ValueOf[root], end |-> offset]
            /\ pc = "false" /\ ~starved => meant = Nothing
=============================================================================
