----------------------------- MODULE JsonParse ------------------------------
(***************************************************************************)
(* cJSON_ParseWithOpts (src/cjson.c) and all it calls: parse_value,        *)
(* parse_string, parse_number, parse_array and parse_object, with malloc   *)
(* that can fail whenever it is called.                                    *)
(*                                                                         *)
(* Characters are their codes.  The calls of parse_array and parse_object  *)
(* that have not returned are the frames of a stack.  The tests "skipped   *)
(* to the end of the buffer" of those two, and the one for a backslash as  *)
(* the last character, cannot come out true and are left out: offset is    *)
(* never left at length, and the last character is the 0 of the text.      *)
(***************************************************************************)
EXTENDS JsonHeap

CONSTANTS
    Texts,        \* texts that are parsed
    AfterBytes,   \* what can follow the 0 of the text in memory
    NumberBuffer, \* sizeof(number_c_string): 64
    NestingLimit  \* CJSON_NESTING_LIMIT: 1000

ASSUME ParseAssumption ==
    /\ \A t \in Texts : t \in Seq(1 .. 255)
    /\ AfterBytes \subseteq Bytes
    /\ NumberBuffer \in Nat \ {0}
    /\ NestingLimit \in Nat

VARIABLES
    text,     \* the text, without its 0
    after,    \* the byte that follows it in memory
    pc,       \* where the parser is
    offset,   \* input_buffer: the place in the text,
    depth,    \*   and how many arrays and objects are open
    stack,    \* parse_array and parse_object: type, item, head, current_item
    item,     \* the item parse_value or parse_string was called with
    naming,   \* parse_string was called for a name
    in,       \* input_pointer
    end,      \* input_end
    skipped,  \* skipped_bytes
    output,   \* output
    room,     \*   and the size it was given
    root,     \* the item cJSON_ParseWithOpts returns
    starved   \* ghost: malloc has failed

source == <<text, after>>
place  == <<offset, depth, stack>>
pass1  == <<naming, end, skipped>>
pass2  == <<in, output, room>>

parseVars == <<source, pc, place, item, pass1, pass2, root, starved, heap>>

-----------------------------------------------------------------------------
(* The text *)

Nul       == 0
Quote     == 34
Comma     == 44
Colon     == 58
Backslash == 92
White     == 0 .. 32
Digits    == 48 .. 57

Opening == [Array |-> 91, Object |-> 123]
Closing == [Array |-> 93, Object |-> 125]

Literals == [NULL |-> <<110, 117, 108, 108>>,
             False |-> <<102, 97, 108, 115, 101>>,
             True |-> <<116, 114, 117, 101>>]

\* The text and its 0.
length == Len(text) + 1

Char(p) == IF p < Len(text) THEN text[p + 1]
           ELSE IF p = Len(text) THEN Nul ELSE after

Accessible(p) == p < length

\* Variant: offset may be left at length.
Skip_PastEnd(p) ==
    IF p > length THEN p
    ELSE CHOOSE q \in p .. length :
            /\ q = length \/ Char(q) \notin White
            /\ \A r \in p .. (q - 1) : Char(r) \in White

\* buffer_skip_whitespace.  The 0 counts as whitespace and is passed, but
\* then offset goes back to it.
Skip(p) ==
    IF p > length THEN p
    ELSE LET next == CHOOSE q \in p .. length :
                        /\ q = length \/ Char(q) \notin White
                        /\ \A r \in p .. (q - 1) : Char(r) \in White
         IN  IF next = length THEN next - 1 ELSE next

At(p, word) ==
    /\ p + Len(word) <= length
    /\ \A i \in DOMAIN word : Char(p + i - 1) = word[i]

-----------------------------------------------------------------------------
(* Start and end *)

Init ==
    /\ text \in Texts
    /\ after \in AfterBytes
    /\ pc = "start"
    /\ offset = 0
    /\ depth = 0
    /\ stack = <<>>
    /\ item = NULL
    /\ naming = FALSE
    /\ in = 0
    /\ end = 0
    /\ skipped = 0
    /\ output = NULL
    /\ room = 0
    /\ root = NULL
    /\ starved = FALSE
    /\ node = <<>>
    /\ str = <<>>

\* The next call, of a program that has freed the result.
Again ==
    /\ pc' = "start"
    /\ offset' = 0
    /\ depth' = 0
    /\ stack' = <<>>
    /\ item' = NULL
    /\ naming' = FALSE
    /\ in' = 0
    /\ end' = 0
    /\ skipped' = 0
    /\ output' = NULL
    /\ room' = 0
    /\ root' = NULL
    /\ starved' = FALSE

\* The root is allocated and parse_value called for it.
Start ==
    /\ pc = "start"
    /\ \/ /\ ItemLeft
          /\ cJSON_New_Item
          /\ root' = FreeItem
          /\ item' = FreeItem
          /\ offset' = Skip(0)
          /\ pc' = "value"
          /\ UNCHANGED starved
       \/ /\ pc' = "done"
          /\ starved' = TRUE
          /\ UNCHANGED <<node, root, item, offset>>
    /\ UNCHANGED <<source, depth, stack, pass1, pass2, str>>

\* parse_value returned for the root.  require_null_terminated, which
\* cJSON_Parse does not ask for, is that nothing but whitespace follows.
Finish(require_null_terminated) ==
    /\ pc \in {"true", "false"}
    /\ stack = <<>>
    /\ LET last == IF require_null_terminated THEN Skip(offset) ELSE offset
           good == /\ pc = "true"
                   /\ require_null_terminated =>
                          Accessible(last) /\ Char(last) = Nul
       IN  /\ offset' = IF pc = "true" THEN last ELSE offset
           /\ IF good THEN UNCHANGED <<heap, root>>
                      ELSE cJSON_Delete(root) /\ root' = NULL
    /\ pc' = "done"
    /\ UNCHANGED <<source, depth, stack, item, pass1, pass2, starved>>

-----------------------------------------------------------------------------
(* parse_value, parse_number *)

Literal ==
    /\ pc = "value"
    /\ \E type \in DOMAIN Literals :
        /\ At(offset, Literals[type])
        /\ node' = [node EXCEPT ![item].type = type]
        /\ offset' = offset + Len(Literals[type])
    /\ pc' = "true"
    /\ UNCHANGED <<source, depth, stack, item, pass1, pass2, root,
                   starved, str>>

\* The characters copied for strtod: as many as can be part of a number.
NumberChars == Digits \cup {43, 45, 46, 69, 101}  \* + - . E e

Copied(p) ==
    LET most == CHOOSE n \in 0 .. (NumberBuffer - 1) :
                    /\ \A i \in 0 .. (n - 1) : Char(p + i) \in NumberChars
                    /\ n = NumberBuffer - 1 \/ Char(p + n) \notin NumberChars
    IN  [i \in 1 .. most |-> Char(p + i - 1)]

\* What strtod takes: an optional sign, digits with at most one point, and an
\* exponent that has digits.
IsMantissa(s) ==
    /\ \E i \in DOMAIN s : s[i] \in Digits
    /\ \A i \in DOMAIN s : s[i] \in Digits \cup {46}
    /\ \A i, j \in DOMAIN s : s[i] = 46 /\ s[j] = 46 => i = j

IsInteger(s) == s # <<>> /\ \A i \in DOMAIN s : s[i] \in Digits

Unsigned(s) == IF s # <<>> /\ s[1] \in {43, 45} THEN Tail(s) ELSE s

IsNumber(s) ==
    \/ IsMantissa(Unsigned(s))
    \/ \E i \in DOMAIN s :
        /\ s[i] \in {69, 101}
        /\ IsMantissa(Unsigned(SubSeq(s, 1, i - 1)))
        /\ IsInteger(Unsigned(SubSeq(s, i + 1, Len(s))))

\* How many of the characters of s strtod takes.
strtod(s) ==
    CHOOSE n \in 0 .. Len(s) :
        /\ n = 0 \/ IsNumber(SubSeq(s, 1, n))
        /\ \A m \in (n + 1) .. Len(s) : ~IsNumber(SubSeq(s, 1, m))

parse_number ==
    /\ pc = "value"
    /\ Accessible(offset)
    /\ Char(offset) \in Digits \cup {45}
    /\ LET number == SubSeq(Copied(offset), 1, strtod(Copied(offset)))
       IN  IF number = <<>>
             THEN pc' = "false" /\ UNCHANGED <<node, offset>>
             ELSE /\ node' = [node EXCEPT ![item].type = "Number",
                                          ![item].number = number]
                  /\ offset' = offset + Len(number)
                  /\ pc' = "true"
    /\ UNCHANGED <<source, depth, stack, item, pass1, pass2, root,
                   starved, str>>

\* Nothing a value can begin with.
NoValue ==
    /\ pc = "value"
    /\ \A type \in DOMAIN Literals : ~At(offset, Literals[type])
    /\ ~Accessible(offset)
         \/ Char(offset) \notin {Quote, 45} \cup Digits \cup Range(Opening)
    /\ pc' = "false"
    /\ UNCHANGED <<source, place, item, pass1, pass2, root, starved,
                   heap>>

-----------------------------------------------------------------------------
(* parse_string *)

\* The call, for the item's value or its name.
parse_string ==
    /\ \/ pc = "value" /\ Accessible(offset) /\ Char(offset) = Quote
       \/ pc = "name"
    /\ naming' = (pc = "name")
    /\ IF Char(offset) = Quote
         THEN /\ pc' = "scan"
              /\ in' = offset + 1
              /\ end' = offset + 1
              /\ skipped' = 0
              /\ UNCHANGED offset
         ELSE /\ pc' = "false"
              /\ offset' = offset + 1
              /\ UNCHANGED <<in, end, skipped>>
    /\ UNCHANGED <<source, depth, stack, item, output, room, root, starved,
                   heap>>

\* Variant: a backslash does not keep the next character from being looked at.
Scan_NoEscape ==
    /\ pc = "scan"
    /\ Char(end) # Quote
    /\ end < length
    /\ end' = end + 1
    /\ skipped' = IF Char(end) = Backslash THEN skipped + 1 ELSE skipped
    /\ UNCHANGED <<source, pc, place, item, naming, pass2, root, starved,
                   heap>>

\* Variant: both characters of an escape are taken off the estimate.
Scan_CountsBoth ==
    /\ pc = "scan"
    /\ Char(end) # Quote
    /\ end < length
    /\ IF Char(end) = Backslash
         THEN end' = end + 2 /\ skipped' = skipped + 2
         ELSE end' = end + 1 /\ UNCHANGED skipped
    /\ UNCHANGED <<source, pc, place, item, naming, pass2, root, starved,
                   heap>>

\* The first loop looks for the end of the string.
Scan ==
    /\ pc = "scan"
    /\ Char(end) # Quote
    /\ end < length
    /\ IF Char(end) = Backslash
         THEN end' = end + 2 /\ skipped' = skipped + 1
         ELSE end' = end + 1 /\ UNCHANGED skipped
    /\ UNCHANGED <<source, pc, place, item, naming, pass2, root, starved,
                   heap>>

\* It has found a quote, perhaps that of the byte after the text, and the
\* output is allocated; or not.
Allocate ==
    /\ pc = "scan"
    /\ Char(end) = Quote \/ end >= length
    /\ \/ /\ Char(end) = Quote
          /\ StringLeft
          /\ output' = FreeString
          /\ str' = With(str, FreeString, <<>>)
          /\ room' = (end - offset) - skipped + 1
          /\ pc' = "decode"
          /\ UNCHANGED <<offset, starved>>
       \/ /\ pc' = "false"
          /\ offset' = in
          /\ starved' = (starved \/ Char(end) = Quote)
          /\ UNCHANGED <<output, str, room>>
    /\ UNCHANGED <<source, depth, stack, item, pass1, in, root, node>>

\* parse_hex4: 0 when one of the characters is no digit.
HexDigit(c) == IF c \in Digits THEN c - 48
               ELSE IF c \in 65 .. 70 THEN c - 55 ELSE c - 87

parse_hex4(p) ==
    IF \A i \in 0 .. 3 : Char(p + i) \in Digits \cup (65 .. 70) \cup (97 .. 102)
      THEN HexDigit(Char(p)) * 4096 + HexDigit(Char(p + 1)) * 256
           + HexDigit(Char(p + 2)) * 16 + HexDigit(Char(p + 3))
      ELSE 0

\* The bytes of a codepoint.
Utf8(c) ==
    IF c < 128 THEN <<c>>
    ELSE IF c < 2048 THEN <<192 + c \div 64, 128 + (c % 64)>>
    ELSE IF c < 65536
      THEN <<224 + c \div 4096, 128 + ((c \div 64) % 64), 128 + (c % 64)>>
      ELSE <<240 + c \div 262144, 128 + ((c \div 4096) % 64),
             128 + ((c \div 64) % 64), 128 + (c % 64)>>

Surrogate1(c) == c \in 55296 .. 56319
Surrogate2(c) == c \in 56320 .. 57343

\* What a literal \uXXXX, or a pair of them, stands for and how long it is;
\* no length if it stands for nothing.
utf16_literal_to_utf8(p) ==
    LET first  == parse_hex4(p + 2)
        second == parse_hex4(p + 8)
        nothing == [out |-> <<>>, length |-> 0]
    IN  IF end - p < 6 \/ Surrogate2(first) THEN nothing
        ELSE IF ~Surrogate1(first) THEN [out |-> Utf8(first), length |-> 6]
        ELSE IF /\ end - p >= 12
                /\ Char(p + 6) = Backslash /\ Char(p + 7) = 117
                /\ Surrogate2(second)
          THEN [out |-> Utf8(65536 + (first % 1024) * 1024 + (second % 1024)),
                length |-> 12]
          ELSE nothing

\* The character \c stands for: b f n r t " \ /.
Escapes == <<98, 102, 110, 114, 116, 34, 92, 47>>
Escaped == <<8, 12, 10, 13, 9, 34, 92, 47>>

\* What is at place p of a string.
Unit(p) ==
    IF Char(p) # Backslash THEN [out |-> <<Char(p)>>, length |-> 1]
    ELSE IF Char(p + 1) = 117 THEN utf16_literal_to_utf8(p)
    ELSE IF Char(p + 1) \in Range(Escapes)
      THEN [out |-> <<Escaped[CHOOSE i \in DOMAIN Escapes :
                                  Escapes[i] = Char(p + 1)]>>,
            length |-> 2]
      ELSE [out |-> <<>>, length |-> 0]

\* The second loop copies the string; if something in it stands for nothing,
\* what was copied is freed.
Decode ==
    /\ pc = "decode"
    /\ in < end
    /\ LET unit == Unit(in)
       IN  IF unit.length > 0
             THEN /\ str' = [str EXCEPT ![output] = @ \o unit.out]
                  /\ in' = in + unit.length
                  /\ UNCHANGED <<pc, offset, output, room>>
             ELSE /\ str' = Restrict(str, DOMAIN str \ {output})
                  /\ offset' = in
                  /\ output' = NULL
                  /\ room' = 0
                  /\ pc' = "false"
                  /\ UNCHANGED in
    /\ UNCHANGED <<source, depth, stack, item, pass1, root, starved, node>>

\* The string is a value.
EndValue ==
    /\ pc = "decode"
    /\ in >= end
    /\ ~naming
    /\ node' = [node EXCEPT ![item].type = "String", ![item].valuestring = output]
    /\ offset' = end + 1
    /\ output' = NULL
    /\ room' = 0
    /\ pc' = "true"
    /\ UNCHANGED <<source, depth, stack, item, pass1, in, root, starved,
                   str>>

\* The string is a name: parse_object moves it over, and asks for a colon.
EndName ==
    /\ pc = "decode"
    /\ in >= end
    /\ naming
    /\ node' = [node EXCEPT ![item].type = "String", ![item].string = output]
    /\ LET next == Skip(end + 1)
       IN  IF Accessible(next) /\ Char(next) = Colon
             THEN pc' = "value" /\ offset' = Skip(next + 1)
             ELSE pc' = "false" /\ offset' = next
    /\ output' = NULL
    /\ room' = 0
    /\ UNCHANGED <<source, depth, stack, item, pass1, in, root, starved,
                   str>>

-----------------------------------------------------------------------------
(* parse_array, parse_object *)

Top == stack[Len(stack)]
Below == SubSeq(stack, 1, Len(stack) - 1)

\* Variant: the limit lets one level more through.
TooDeep_OneMore == depth > NestingLimit

TooDeep == depth >= NestingLimit

\* The call.  An empty list is closed at once; otherwise offset steps back to
\* the character in front of the first element.
Open ==
    /\ pc = "value"
    /\ Accessible(offset)
    /\ \E type \in DOMAIN Opening :
        LET first == Skip(offset + 1)
        IN  /\ Char(offset) = Opening[type]
            /\ IF TooDeep
                 THEN pc' = "false" /\ UNCHANGED <<offset, depth, stack, node>>
                 ELSE IF Char(first) = Closing[type]
                 THEN /\ node' = [node EXCEPT ![item].type = type]
                      /\ offset' = first + 1
                      /\ pc' = "true"
                      /\ UNCHANGED <<depth, stack>>
                 ELSE /\ depth' = depth + 1
                      /\ offset' = first - 1
                      /\ stack' = Append(stack, [type |-> type, item |-> item,
                                                 head |-> NULL, current |-> NULL])
                      /\ pc' = "element"
                      /\ UNCHANGED node
    /\ UNCHANGED <<source, item, pass1, pass2, root, starved, str>>

\* Round the loop: the next item is allocated and put at the end of the list.
NewElement ==
    /\ pc = "element"
    /\ \/ /\ ItemLeft
          /\ LET new  == FreeItem
                 list == With(node, new, [Cleared EXCEPT !.prev = Top.current])
             IN  /\ node' = IF Top.head = NULL THEN list
                            ELSE [list EXCEPT ![Top.current].next = new]
                 /\ stack' = Append(Below, [Top EXCEPT !.current = new,
                                 !.head = IF Top.head = NULL THEN new ELSE @])
                 /\ item' = new
          /\ offset' = Skip(offset + 1)
          /\ pc' = IF Top.type = "Array" THEN "value" ELSE "name"
          /\ UNCHANGED starved
       \/ /\ pc' = "false"
          /\ starved' = TRUE
          /\ UNCHANGED <<node, stack, item, offset>>
    /\ UNCHANGED <<source, depth, pass1, pass2, root, str>>

\* An element was parsed: a comma and the next one, the end of the list, or
\* neither.
AfterElement ==
    /\ pc = "true"
    /\ stack # <<>>
    /\ LET next == Skip(offset)
       IN  IF Accessible(next) /\ Char(next) = Closing[Top.type]
             THEN /\ node' = [node EXCEPT ![Top.item].type = Top.type,
                                          ![Top.item].child = Top.head]
                  /\ depth' = depth - 1
                  /\ stack' = Below
                  /\ offset' = next + 1
                  /\ UNCHANGED pc
             ELSE /\ pc' = IF Accessible(next) /\ Char(next) = Comma
                             THEN "element" ELSE "false"
                  /\ offset' = next
                  /\ UNCHANGED <<node, depth, stack>>
    /\ UNCHANGED <<source, item, pass1, pass2, root, starved, str>>

\* Variant: only the item that failed is freed.
Unwind_LastOnly ==
    /\ pc = "false"
    /\ stack # <<>>
    /\ cJSON_Delete(Top.current)
    /\ stack' = Below
    /\ UNCHANGED <<source, pc, offset, depth, item, pass1, pass2, root,
                   starved>>

\* An element failed: the list is freed and the failure handed on.
Unwind ==
    /\ pc = "false"
    /\ stack # <<>>
    /\ cJSON_Delete(Top.head)
    /\ stack' = Below
    /\ UNCHANGED <<source, pc, offset, depth, item, pass1, pass2, root,
                   starved>>

cJSON_Parse ==
    \/ Start \/ Finish(FALSE)
    \/ Literal \/ parse_number \/ NoValue
    \/ parse_string \/ Scan \/ Allocate \/ Decode \/ EndValue \/ EndName
    \/ Open \/ NewElement \/ AfterElement \/ Unwind

ParseStep == cJSON_Parse \/ Finish(TRUE)

ParseSpec == Init /\ [][ParseStep]_parseVars

-----------------------------------------------------------------------------
(* Properties *)

Frame == [type : {"Array", "Object"}, item : Items,
          head : Items \cup {NULL}, current : Items \cup {NULL}]

TypeOK ==
    /\ text \in Seq(1 .. 255)
    /\ after \in AfterBytes
    /\ pc \in {"start", "value", "name", "scan", "decode", "element", "true",
              "false", "done"}
    /\ offset \in Nat
    /\ depth \in 0 .. NestingLimit
    /\ stack \in Seq(Frame)
    /\ item \in Items \cup {NULL}
    /\ naming \in BOOLEAN
    /\ in \in Nat
    /\ end \in Nat
    /\ skipped \in Nat
    /\ output \in {NULL} \cup Strings
    /\ room \in Nat
    /\ root \in Items \cup {NULL}
    /\ starved \in BOOLEAN
    /\ HeapOK

\* The parser never looks further than one byte past the 0 of the text, and
\* that far only for the end of a string; what follows its result begins in
\* the text unless that byte closed a string.  No step back leaves the text
\* at its other end.
StaysInText ==
    /\ offset <= length + 1
    /\ offset = length + 1 => after = Quote
    /\ pc \in {"name", "element"} => offset + 1 <= length
    /\ pc = "element" => Char(offset) \in White \cup {Comma} \cup Range(Opening)
    /\ pc \in {"scan", "decode"} => in <= end + 1 /\ end <= length

\* What was allocated for a string, an estimate made before it is decoded, is
\* enough for it and its 0.
OutputFits == output # NULL => Len(str[output]) + 1 <= room

\* parse_array and parse_object call each other no deeper than the limit; and
\* depth, which they test, is the number of those calls that have not returned,
\* while the parse goes on.  Calls that fail leave depth as it is.
NestingBounded ==
    /\ Len(stack) <= NestingLimit
    /\ pc # "false" /\ pc # "done" => depth = Len(stack)

\* Wherever malloc fails or the text is wrong, everything allocated is held
\* by the root, a list under construction or the string being copied, by one
\* of them only; so a parse that fails frees all of it, once.
NothingLost ==
    /\ OneOwner
    /\ ChainsAgree
    /\ DOMAIN node = Reached(root) \cup
                      UNION {Reached(stack[i].head) : i \in DOMAIN stack}
    /\ DOMAIN str = ({output} \ {NULL}) \cup UNION {Owned(i) : i \in DOMAIN node}
=============================================================================
