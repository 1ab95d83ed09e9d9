------------------------------- MODULE MCJson -------------------------------
(***************************************************************************)
(* JsonValue and UpdateCommand for TLC.  Texts are every short one, and    *)
(* some longer ones and requests with one character changed, added or      *)
(* left out, or cut off.  They are written with ' for a quote and | for a  *)
(* backslash; the names in requests are single letters.                    *)
(***************************************************************************)
EXTENDS JsonPrint, UpdateCommand

CONSTANTS MaxText  \* length of the short texts

Glyphs == " '|,-.:[]{}0123456789abcdefghijklmnopqrstuvwxyz"
Codes  == <<32, 34, 92, 44, 45, 46, 58, 91, 93, 123, 125>>
          \o [i \in 1 .. 10 |-> 47 + i] \o [i \in 1 .. 26 |-> 96 + i]

Code(c)    == Codes[CHOOSE n \in DOMAIN Codes : SubSeq(Glyphs, n, n) = c]
Written(s) == [i \in 1 .. Len(s) |-> Code(SubSeq(s, i, i))]

CmdNameDef == Written("c")
DomainNameDef == Written("d")
IpNameDef == Written("i")
CmdTextDef == Written("u")
RetcodeNameDef == Written("r")
DescNameDef == Written("e")
DescTextDef == Written("o")

\* One with a letter in upper case, one that needs an escape.
DomainsDef   == {<<65, 120>>, <<120, 34>>}
AddressesDef == {<<1, 20, 3, 255>>}
SenderDef    == <<9, 0, 0, 8>>

Short == UNION {[1 .. n -> Range(Written("[]{},:'|1- x"))] : n \in 0 .. MaxText}

Samples == {Written("[1,{'x':'|n|n'},[]]"),
            Written("'|u00e1|ud83d|ude00|'|u0'"),
            Written("[null, true,{'a':false,'b':-1.5e3}]")}

Requests == {Request(d, ip) : d \in DomainsDef, ip \in AddressesDef \cup {<<>>}}

\* Requests of another client: an address that is a name, a domain that is a
\* number, an address with no room in a node.
Others == {Written("{'c':'u','d':'x','i':'x'}"), Written("{'c':0,'d':1}"),
           Written("{'c':0,'d':'x','i':'1234567890.1.1.1'}")}

\* Their trees are printed: empty lists, control characters, a name and a
\* string that need escapes, lists in lists.
PrintTexts == {Written(s) : s \in
    {"[]", "{}", "'|u001f|u0000 '", "[true,'|u00e1|n']",
     "{'a':[0,''],'|'':null}", "[01,{'x':'','y':-1}]"}}

\* A text with character i replaced or left out, or cut off behind it.
Edited(t, marks) ==
    {t} \cup {[t EXCEPT ![i] = c] : i \in DOMAIN t, c \in Range(Written(marks))}
        \cup {SubSeq(t, 1, i - 1) \o SubSeq(t, i + 1, Len(t)) : i \in DOMAIN t}
        \cup {SubSeq(t, 1, i) : i \in DOMAIN t}

TextsDef == Short \cup Others \cup PrintTexts \cup UNION {Edited(t, "]}'|1") : t \in Samples}
                  \cup UNION {Edited(t, "}'|1") : t \in Requests}

-----------------------------------------------------------------------------

\* A call that asks that nothing follow the value, which proc_cmd does not do.
ParseWithOpts ==
    /\ cmd = "parse" /\ cmd' = "none"
    /\ Finish(TRUE)
    /\ UNCHANGED <<request, registry, result, answer, undefined>>

\* Numbers here are two characters long and whole.
SprintfDef(s) ==
    LET digits == SelectSeq(s, LAMBDA c : c \in Digits)
        value  == Number(digits)
    IN  IF s[1] = 45 THEN <<45>> \o Decimal(value) ELSE Decimal(value)

PreallocatedDef == 0 .. 50

PrintTree ==
    /\ cmd = "none"
    /\ text \in PrintTexts /\ after = 0
    /\ PrintStep
    /\ UNCHANGED commandVars

JsonInit == CommandInit /\ PrintInit

JsonNext ==
    \/ (CommandStep \/ ParseWithOpts) /\ UNCHANGED printVars
    \/ PrintTree

Spec == JsonInit /\ [][JsonNext]_<<commandVars, printVars>>
=============================================================================
