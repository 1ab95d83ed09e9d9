----------------------------- MODULE JsonPrint ------------------------------
(***************************************************************************)
(* cJSON_Print, cJSON_PrintUnformatted, cJSON_PrintBuffered and            *)
(* cJSON_PrintPreallocated (src/cjson.c): a tree is rendered into a buffer *)
(* that grows.  Whoever writes asks ensure for room first, and an item is  *)
(* left behind offset, to be counted by update_offset.                     *)
(*                                                                         *)
(* A step is one call of ensure and what is written into the room it       *)
(* gives.  The calls of print_array and print_object that have not         *)
(* returned are the frames of a stack.  What sprintf makes of a number is  *)
(* given; it is never as long as the 26 characters there are for it.       *)
(***************************************************************************)
EXTENDS JsonValue, SequencesExt

CONSTANTS
    sprintf(_),    \* the text of a number, "%1.15g" or "%1.17g"
    FirstSize,     \* what print allocates: 256
    IntMax,        \* INT_MAX
    Prebuffers,    \* arguments prebuffer of cJSON_PrintBuffered
    Preallocated   \* arguments len of cJSON_PrintPreallocated

ASSUME PrintAssumption ==
    /\ FirstSize \in Nat /\ IntMax \in Nat
    /\ Prebuffers \cup Preallocated \subseteq 0 .. IntMax

VARIABLES
    how,       \* the call, its fmt, and whether the hooks lack realloc
    out,       \* printbuffer: buffer, length, offset,
    level,     \*   and depth
    calls,     \* print_array and print_object: item and current_element
    printing,  \* the item print_value is called for
    step       \* where the printer is

printVars == <<how, out, level, calls, printing, step>>

-----------------------------------------------------------------------------
(* The buffer *)

\* What is in memory nobody has written to.
Junk == 256

\* The first bytes of a block, moved to another one.
Moved(block, count, size) ==
    [i \in 1 .. size |-> IF i <= Min({count, Len(block)}) THEN block[i] ELSE Junk]

\* s written to place p of a block; a write past its end makes it longer.
Put(block, p, s) ==
    [i \in 1 .. Max({p + Len(s), Len(block)}) |->
        IF i \in (p + 1) .. (p + Len(s)) THEN s[i - p]
        ELSE IF i <= Len(block) THEN block[i] ELSE Junk]

\* strlen from place p on.
strlen(block, p) ==
    CHOOSE n \in 0 .. (Len(block) - p) :
        /\ n = Len(block) - p \/ block[p + n + 1] = Nul
        /\ \A m \in 1 .. n : block[p + m] # Nul

\* Variant: what is in the buffer already is not counted.
Needed_IgnoresOffset(p, asked) == asked + 1

Needed(p, asked) == asked + p.offset + 1

\* What ensure can answer and leave: room, no room, or, if realloc has failed,
\* NULL + offset, which only for offset 0 is NULL.
ensure(p, asked) ==
    LET needed  == Needed(p, asked)
        newsize == IF needed > IntMax \div 2 THEN IntMax ELSE needed * 2
        copied  == IF how.manual THEN p.offset + 1 ELSE Len(p.buffer)
        grown   == [p EXCEPT !.length = newsize,
                             !.buffer = Moved(@, copied, newsize)]
        lost    == [p EXCEPT !.length = IF how.manual THEN 0 ELSE newsize,
                             !.buffer = NULL]
        invalid == p.length > 0 /\ p.offset >= p.length
    IN  IF p.buffer = NULL \/ invalid \/ asked > IntMax
          THEN {[answer |-> "no", p |-> p]}
        ELSE IF needed <= p.length THEN {[answer |-> "room", p |-> p]}
        ELSE IF how.call = "preallocated" \/ needed > IntMax
          THEN {[answer |-> "no", p |-> p]}
        ELSE {[answer |-> "room", p |-> grown],
              [answer |-> IF how.manual \/ p.offset = 0 THEN "no" ELSE "wild",
               p |-> lost]}

\* Room for asked bytes is ensured and s written; of it, offset is moved past
\* count bytes.
Write(p, asked, s, count, next) ==
    \E e \in ensure(p, asked) :
        /\ out' = IF e.answer # "room" THEN e.p
                  ELSE [e.p EXCEPT !.buffer = Put(@, e.p.offset, s),
                                   !.offset = @ + count]
        /\ step' = IF e.answer = "room" THEN next
                   ELSE IF e.answer = "no" THEN "fail" ELSE "undefined"

update_offset(p) == [p EXCEPT !.offset = @ + strlen(p.buffer, @)]

-----------------------------------------------------------------------------
(* Strings *)

\* Variant: the four digits of \u are not counted.
Extra_OneEach(c) == IF c < 32 \/ c \in {34, 92} THEN 1 ELSE 0

\* How many characters c needs more than one, and the characters it is
\* written as.
Extra(c) == IF c \in {34, 92, 8, 12, 10, 13, 9} THEN 1 ELSE IF c < 32 THEN 5 ELSE 0

HexChar(n) == IF n < 10 THEN 48 + n ELSE 87 + n

Escape(c) ==
    IF c > 31 /\ c # Quote /\ c # Backslash THEN <<c>>
    ELSE IF \E i \in DOMAIN Escaped : Escaped[i] = c
      THEN <<Backslash, Escapes[CHOOSE i \in DOMAIN Escaped : Escaped[i] = c]>>
      ELSE <<Backslash, 117, 48, 48, HexChar(c \div 16), HexChar(c % 16)>>

\* print_string_ptr: the closing quote goes where the count of characters says,
\* not where the copying has ended.
print_string_ptr(p, s, next) ==
    LET count == FoldSeq(LAMBDA c, n : n + 1 + Extra(c), 0, s)
        body  == FlattenSeq([i \in DOMAIN s |-> Escape(s[i])])
    IN  IF s = NULL THEN Write(p, 3, <<Quote, Quote, Nul>>, 0, next)
        ELSE Write(p, count + 3,
                   Put(<<Quote>> \o body, count + 1, <<Quote, Nul>>), 0, next)

TextOf(s) == IF s = NULL THEN NULL ELSE CString(str[s])

-----------------------------------------------------------------------------
(* The calls *)

PrintInit ==
    /\ how = [call |-> "none", fmt |-> FALSE, manual |-> FALSE]
    /\ out = [buffer |-> NULL, length |-> 0, offset |-> 0]
    /\ level = 0
    /\ calls = <<>>
    /\ printing = NULL
    /\ step = "idle"

Called(call, fmt, manual, size, noted) ==
    /\ step = "idle"
    /\ how' = [call |-> call, fmt |-> fmt, manual |-> manual]
    /\ \/ /\ out' = [buffer |-> [i \in 1 .. size |-> Junk], length |-> noted,
                     offset |-> 0]
          /\ step' = "value"
       \/ /\ step' = IF call = "preallocated" THEN "value" ELSE "failed"
          /\ UNCHANGED out
    /\ printing' = root
    /\ UNCHANGED <<level, calls>>

\* cJSON_Print and cJSON_PrintUnformatted.  The size of the first buffer is not
\* noted: length is 0.
print(fmt) == \E manual \in BOOLEAN : Called("print", fmt, manual, FirstSize, 0)

cJSON_PrintBuffered(prebuffer, fmt) ==
    \E manual \in BOOLEAN :
        Called("buffered", fmt, manual, prebuffer, prebuffer)

\* buf may be NULL.
cJSON_PrintPreallocated(len, fmt) ==
    Called("preallocated", fmt, FALSE, len, len)

\* The root is printed.  print hands over a block of the right size: by
\* realloc, or else by a copy.
Printed ==
    /\ step = "printed"
    /\ calls = <<>>
    /\ IF how.call # "print" THEN step' = "given" /\ UNCHANGED out
       ELSE LET p     == update_offset(out)
                whole == Moved(p.buffer, p.length, p.length)
                copy  == Moved(p.buffer, Min({p.length, p.offset + 1}),
                               p.offset + 1)
            IN  \/ /\ out' = [p EXCEPT !.buffer =
                               IF how.manual THEN Put(copy, p.offset, <<Nul>>)
                               ELSE whole]
                   /\ step' = "given"
                \/ /\ out' = IF how.manual THEN p ELSE [p EXCEPT !.buffer = NULL]
                   /\ step' = "fail"
    /\ UNCHANGED <<how, level, calls, printing>>

\* Every call that has not returned returns false; print frees the buffer it
\* still has.
Fail ==
    /\ step = "fail"
    /\ step' = "failed"
    /\ calls' = <<>>
    /\ out' = IF how.call = "print" THEN [out EXCEPT !.buffer = NULL] ELSE out
    /\ UNCHANGED <<how, level, printing>>

-----------------------------------------------------------------------------
(* print_value *)

Type == IF printing = NULL THEN "Invalid" ELSE node[printing].type

\* null, false and true, with their 0.
PrintWord ==
    /\ step = "value"
    /\ Type \in DOMAIN Literals
    /\ LET word == Append(Literals[Type], Nul)
       IN  Write(out, Len(word), word, 0, "printed")
    /\ UNCHANGED <<how, level, calls, printing>>

\* There is no item, or none that can be printed.
PrintNothing ==
    /\ step = "value"
    /\ Type = "Invalid"
    /\ step' = "fail"
    /\ UNCHANGED <<how, out, level, calls, printing>>

\* print_number moves offset itself.
print_number ==
    /\ step = "value"
    /\ Type = "Number"
    /\ LET number == sprintf(node[printing].number)
       IN  Write(out, Len(number), Append(number, Nul), Len(number), "printed")
    /\ UNCHANGED <<how, level, calls, printing>>

print_string ==
    /\ step = "value"
    /\ Type = "String"
    /\ print_string_ptr(out, TextOf(node[printing].valuestring), "printed")
    /\ UNCHANGED <<how, level, calls, printing>>

-----------------------------------------------------------------------------
(* print_array, print_object *)

Caller == calls[Len(calls)]
Callers == SubSeq(calls, 1, Len(calls) - 1)
Within(type) == calls # <<>> /\ node[Caller.item].type = type

Tabs(n) == [i \in 1 .. n |-> 9]
Newline == IF how.fmt THEN <<10>> ELSE <<>>

\* The bracket, and in an object a line of its own for it; no 0 is written.
OpenBracket ==
    /\ step = "value"
    /\ Type \in DOMAIN Opening
    /\ LET bracket == <<Opening[Type]>> \o IF Type = "Object" THEN Newline ELSE <<>>
           asked   == IF Type = "Object" THEN Len(bracket) + 1 ELSE 1
       IN  Write(out, asked, bracket, Len(bracket), "next")
    /\ IF step' = "next"
         THEN /\ level' = level + 1
              /\ calls' = Append(calls, [item |-> printing,
                                         current |-> node[printing].child])
         ELSE UNCHANGED <<level, calls>>
    /\ UNCHANGED <<how, printing>>

\* An element of an array.
PrintElement ==
    /\ step = "next"
    /\ Within("Array") /\ Caller.current # NULL
    /\ printing' = Caller.current
    /\ step' = "value"
    /\ UNCHANGED <<how, out, level, calls>>

\* A member of an object begins with its tabs.
Indent ==
    /\ step = "next"
    /\ Within("Object") /\ Caller.current # NULL
    /\ IF how.fmt THEN Write(out, level, Tabs(level), level, "key")
       ELSE step' = "key" /\ UNCHANGED out
    /\ UNCHANGED <<how, level, calls, printing>>

PrintKey ==
    /\ step = "key"
    /\ print_string_ptr(out, IF node[Caller.current].string = NULL THEN NULL
                             ELSE CString(Name(Caller.current)), "colon")
    /\ UNCHANGED <<how, level, calls, printing>>

PrintColon ==
    /\ step = "colon"
    /\ LET colon == <<Colon>> \o IF how.fmt THEN <<9>> ELSE <<>>
       IN  Write(update_offset(out), Len(colon), colon, Len(colon), "value")
    /\ printing' = Caller.current
    /\ UNCHANGED <<how, level, calls>>

\* After an element or a member: a comma if there is another one.  An object
\* ends the line, too.
Separate ==
    /\ step = "printed"
    /\ calls # <<>>
    /\ LET next  == node[Caller.current].next
           comma == IF next = NULL THEN <<>> ELSE <<Comma>>
           space == IF how.fmt /\ next # NULL THEN <<32>> ELSE <<>>
           mark  == comma \o IF Within("Array") THEN space ELSE Newline
           p     == update_offset(out)
       IN  /\ IF Within("Array") /\ next = NULL
                THEN out' = p /\ step' = "next"
                ELSE Write(p, Len(mark) + 1, Append(mark, Nul), Len(mark), "next")
           /\ calls' = Append(Callers, [Caller EXCEPT !.current = next])
    /\ UNCHANGED <<how, level, printing>>

CloseBracket ==
    /\ step = "next"
    /\ Caller.current = NULL
    /\ LET type  == node[Caller.item].type
           tabs  == IF how.fmt /\ type = "Object" THEN Tabs(level - 1) ELSE <<>>
           asked == IF how.fmt /\ type = "Object" THEN level + 1 ELSE 2
       IN  Write(out, asked, tabs \o <<Closing[type], Nul>>, 0, "printed")
    /\ IF step' = "printed" THEN level' = level - 1 /\ calls' = Callers
       ELSE UNCHANGED <<level, calls>>
    /\ UNCHANGED <<how, printing>>

print_value ==
    \/ PrintWord \/ PrintNothing \/ print_number \/ print_string
    \/ OpenBracket \/ PrintElement \/ Indent \/ PrintKey \/ PrintColon
    \/ Separate \/ CloseBracket

PrintStep ==
    \/ \E fmt \in BOOLEAN :
        \/ print(fmt)
        \/ \E n \in Prebuffers : cJSON_PrintBuffered(n, fmt)
        \/ \E n \in Preallocated : cJSON_PrintPreallocated(n, fmt)
    \/ print_value \/ Printed \/ Fail

-----------------------------------------------------------------------------
(* Properties *)

\* The text of a tree.  What is behind a 0 in a string is not printed.
Quoted(s) ==
    LET c == IF s = NULL THEN <<>> ELSE CString(s)
    IN  <<Quote>> \o FlattenSeq([k \in DOMAIN c |-> Escape(c[k])]) \o <<Quote>>

Rendered[i \in Items, fmt \in BOOLEAN, d \in Nat] ==
    LET items == Children(i)
        If(b, s) == IF b THEN s ELSE <<>>
        Element(n) ==
            Rendered[items[n], fmt, d + 1]
            \o If(n < Len(items), <<Comma>> \o If(fmt, <<32>>))
        Member(n) ==
            If(fmt, Tabs(d + 1))
            \o Quoted(IF node[items[n]].string = NULL THEN NULL ELSE Name(items[n]))
            \o <<Colon>> \o If(fmt, <<9>>)
            \o Rendered[items[n], fmt, d + 1]
            \o If(n < Len(items), <<Comma>>) \o If(fmt, <<10>>)
        All(Part(_)) == FlattenSeq([n \in DOMAIN items |-> Part(n)])
    IN  CASE node[i].type \in DOMAIN Literals -> Literals[node[i].type]
          [] node[i].type = "Number" -> sprintf(node[i].number)
          [] node[i].type = "String" ->
                Quoted(IF node[i].valuestring = NULL THEN NULL
                          ELSE str[node[i].valuestring])
          [] node[i].type = "Array" -> <<91>> \o All(Element) \o <<93>>
          [] node[i].type = "Object" ->
                <<123>> \o If(fmt, <<10>>) \o All(Member)
                \o If(fmt, Tabs(d)) \o <<125>>

\* Each caller of ensure counts for itself what it will write.  It never
\* counts too little: nothing is written past the end of a block.  Nor much
\* too much: as cjson.h says, cJSON_PrintPreallocated needs no more than five
\* bytes besides the text and its 0.
EstimatesHold ==
    /\ out.buffer # NULL /\ out.length > 0 => Len(out.buffer) <= out.length
    /\ how.call = "preallocated" /\ step = "failed"
        /\ out.buffer # NULL /\ root # NULL
        => out.length < Len(Rendered[root, how.fmt, 0]) + 1 + 5

\* The value of an item as it is printed.
Shown[i \in Items] ==
    [type |-> node[i].type,
     name |-> IF node[i].string = NULL THEN <<>> ELSE <<CString(Name(i))>>,
     text |-> IF node[i].type = "Number" THEN sprintf(node[i].number)
              ELSE IF node[i].valuestring = NULL THEN <<>>
              ELSE CString(str[node[i].valuestring]),
     members |-> [n \in DOMAIN Children(i) |-> Shown[Children(i)[n]]]]

Read == INSTANCE JsonValue WITH text <- CString(out.buffer)

\* The text that is given, read by the grammar, is the tree that was printed,
\* whatever its buffer went through: nothing is lost or left over where a
\* block was moved, an offset counted or a character escaped.
ReadsBack ==
    step = "given" =>
        Read!Grammar["value"][Read!Solid(0)][NestingLimit]
            = [out |-> Shown[root], end |-> strlen(out.buffer, 0)]
=============================================================================
