------------------------------ MODULE DnsQuery ------------------------------
(***************************************************************************)
(* The server's handler of DNS datagrams, proc_dns_query, with the parser  *)
(* dns_resove_query and the writer dns_write_domain (src/dns.c).           *)
(*                                                                         *)
(* No byte is read twice, so the contents of a datagram are chosen as they *)
(* are read: a length byte, and the characters of a label.  The parser     *)
(* turns labels with lengths into a name with dots, and the writer, which  *)
(* knows nothing of the lengths, splits it at its dots again.  The         *)
(* datagram lies in a buffer main reuses: what lies beyond its end is left *)
(* from earlier datagrams.                                                 *)
(***************************************************************************)
EXTENDS Integers, Sequences, FiniteSetsExt

CONSTANTS
    HdrSize,      \* sizeof(dns_hdr)
    BufSize,      \* size of main's receive buffer and of the response buffer
    MAX_DOMAIN,   \* characters of a name, its last '.' included
    MaxLabel,     \* largest length a byte gives a label: 255
    Chars         \* the bytes labels are made of: all of them

\* type and class after a name; the rest of an answer; the least query.
TypeClassSize == 4
AnswerSize == 16
MinQuery == 3 + 4

ASSUME QueryAssumption ==
    /\ HdrSize \in Nat
    /\ BufSize \in Nat
    /\ MAX_DOMAIN \in Nat
    /\ MaxLabel \in Nat
    /\ Chars \subseteq Nat
    /\ HdrSize + MAX_DOMAIN + 1 + TypeClassSize + AnswerSize <= BufSize

VARIABLES
    pc,        \* where the handler is
    len,       \* length of the query, the header taken off
    left,      \* what the parser believes is left of it
    domain,    \* the name, with dots; namelen is its length
    question,  \* ghost: the name as the query has it, in small letters
    high,      \* ghost: number of the query's bytes read, from the first on
    supported, \* the query asks for an IPv4 address
    out,       \* bytes of the response written
    name       \* those of them that are the name

vars == <<pc, len, left, domain, question, high, supported, out, name>>

Init ==
    /\ pc = "recv"
    /\ len = 0
    /\ left = 0
    /\ domain = <<>>
    /\ question = <<>>
    /\ high = 0
    /\ supported = FALSE
    /\ out = 0
    /\ name = <<>>

\* The offset the parser reads at.
Offset == len - left

Farther(n) == IF n > high THEN n ELSE high

\* The handler returns, and its variables are gone; main polls again.
Abandon == pc' = "recv" /\ domain' = <<>> /\ question' = <<>> /\ name' = <<>>

-----------------------------------------------------------------------------
(* Characters *)

Dot == 46
Capitals == 65 .. 90
AlphaNumeric == (48 .. 57) \cup Capitals \cup (97 .. 122)

\* Variant: '.' is let through.
check_domain_char_Dots(label) ==
    \A i \in DOMAIN label : label[i] \in AlphaNumeric \cup {95, 45, Dot}

\* TRUE where check_domain_char answers 0: letters, digits, '_' and '-'.
check_domain_char(label) ==
    \A i \in DOMAIN label : label[i] \in AlphaNumeric \cup {95, 45}

strlower(s) ==
    [i \in DOMAIN s |-> IF s[i] \in Capitals THEN s[i] + 32 ELSE s[i]]

-----------------------------------------------------------------------------
(* dns_resove_query *)

\* A datagram of size bytes, with a header that says it is one query, or not.
Receive(size) ==
    /\ pc = "recv"
    /\ \E oneQuery \in BOOLEAN :
          pc' = IF size >= HdrSize + MinQuery /\ oneQuery
                  THEN "label" ELSE "recv"
    /\ len' = size - HdrSize
    /\ left' = size - HdrSize
    /\ high' = 0
    /\ supported' = FALSE
    /\ out' = 0
    /\ UNCHANGED <<domain, question, name>>

\* Variant: nothing bounds the name but the length of the datagram.
LabelFits_NoNameBound(seclen) == seclen + 1 <= left

\* Variant: the length byte is not counted.
LabelFits_ByteFree(seclen) ==
    /\ Len(domain) + seclen + 1 <= MAX_DOMAIN
    /\ seclen <= left

\* A label of seclen characters.  Its length byte is read without a look at
\* left, which may be 0; its characters are read only if they fit.
LabelFits(seclen) ==
    /\ Len(domain) + seclen + 1 <= MAX_DOMAIN
    /\ seclen + 1 <= left

ReadLabel(seclen) ==
    /\ pc = "label"
    /\ seclen > 0
    /\ IF LabelFits(seclen)
         THEN /\ high' = Farther(Offset + seclen + 1)
              /\ \E label \in [1 .. seclen -> Chars] :
                    IF check_domain_char(label)
                      THEN /\ left' = left - (seclen + 1)
                           /\ domain' = domain \o label \o <<Dot>>
                           /\ question' = question \o <<seclen>> \o strlower(label)
                           /\ UNCHANGED <<pc, name>>
                      ELSE Abandon /\ UNCHANGED left
         ELSE /\ high' = Farther(Offset + 1)
              /\ Abandon
              /\ UNCHANGED left
    /\ UNCHANGED <<len, supported, out>>

\* The length byte 0: the name ends, and its last '.' is cut off.
EndName ==
    /\ pc = "label"
    /\ high' = Farther(Offset + 1)
    /\ IF domain = <<>>
         THEN Abandon /\ UNCHANGED left
         ELSE /\ pc' = "type"
              /\ left' = left - 1
              /\ domain' = IF domain[Len(domain)] = Dot
                             THEN SubSeq(domain, 1, Len(domain) - 1) ELSE domain
              /\ question' = question \o <<0>>
              /\ UNCHANGED name
    /\ UNCHANGED <<len, supported, out>>

\* Variant: the length test is off by one.
TooShort_OffByOne == left >= 0 /\ left < TypeClassSize - 1

\* left is an int and sizeof is not: a negative left compares as a large one.
TooShort == left >= 0 /\ left < TypeClassSize

ReadTypeClass ==
    /\ pc = "type"
    /\ IF TooShort
         THEN Abandon /\ UNCHANGED <<left, high, supported>>
         ELSE /\ high' = Farther(Offset + TypeClassSize)
              /\ left' = left - TypeClassSize
              /\ supported' \in BOOLEAN
              /\ pc' = "lookup"
              /\ UNCHANGED <<domain, question, name>>
    /\ UNCHANGED <<len, out>>

-----------------------------------------------------------------------------
(* proc_dns_query and dns_write_domain *)

\* The name is looked up in small letters.  No answer of any kind for one the
\* table does not hold.
Lookup ==
    /\ pc = "lookup"
    /\ \/ Abandon /\ UNCHANGED out
       \/ /\ pc' = "write"
          /\ domain' = strlower(domain)
          /\ out' = HdrSize
          /\ UNCHANGED <<question, name>>
    /\ UNCHANGED <<len, left, high, supported>>

\* What is left to write begins behind the dot of the last label written: a
\* length stands for each dot, so name and domain advance together.  strchr
\* finds the first dot in it.
DotsLeft == {i \in (Len(name) + 1) .. Len(domain) : domain[i] = Dot}
LabelEnd == IF DotsLeft = {} THEN Len(domain) ELSE Min(DotsLeft) - 1

\* Room for a label, and for the last one with the 0 after it.
Room == BufSize - out

WriteLabel ==
    /\ pc = "write"
    /\ LET seclen  == LabelEnd - Len(name)
           written == name \o <<seclen>> \o SubSeq(domain, Len(name) + 1, LabelEnd)
       IN  IF Len(name) = Len(domain)
             THEN /\ pc' = "answer"
                  /\ UNCHANGED <<domain, question, out, name>>
           ELSE IF \/ Len(domain) > MAX_DOMAIN
                   \/ DotsLeft # {} /\ Room <= seclen + 1
                   \/ DotsLeft = {} /\ Room < seclen + 2
             THEN Abandon /\ UNCHANGED out
           ELSE IF DotsLeft # {}
             THEN /\ name' = written
                  /\ out' = out + seclen + 1
                  /\ UNCHANGED <<pc, domain, question>>
             ELSE /\ name' = written \o <<0>>
                  /\ out' = out + seclen + 2
                  /\ pc' = "answer"
                  /\ UNCHANGED <<domain, question>>
    /\ UNCHANGED <<len, left, high, supported>>

\* type, class and, for an A query of class IN, the address; then udp_send.
Answer ==
    /\ pc = "answer"
    /\ out' = out + TypeClassSize + (IF supported THEN AnswerSize ELSE 0)
    /\ pc' = "sent"
    /\ UNCHANGED <<len, left, domain, question, high, supported, name>>

Return ==
    /\ pc = "sent"
    /\ Abandon
    /\ UNCHANGED <<len, left, high, supported, out>>

Next ==
    \/ \E size \in 1 .. BufSize : Receive(size)
    \/ \E seclen \in 1 .. MaxLabel : ReadLabel(seclen)
    \/ EndName
    \/ ReadTypeClass
    \/ Lookup
    \/ WriteLabel
    \/ Answer
    \/ Return

Spec == Init /\ [][Next]_vars

-----------------------------------------------------------------------------
(* Properties *)

TypeOK ==
    /\ pc \in {"recv", "label", "type", "lookup", "write", "answer", "sent"}
    /\ len \in -HdrSize .. BufSize
    /\ left \in (-HdrSize .. BufSize) \cup (-(1 + TypeClassSize) .. BufSize)
    /\ domain \in Seq(Nat)
    /\ question \in Seq(Nat)
    /\ high \in Nat
    /\ supported \in BOOLEAN
    /\ out \in 0 .. BufSize
    /\ name \in Seq(Nat)

\* The parser does look beyond the end of a datagram, but never beyond the
\* buffer it lies in, whatever its bytes are: the bound on names keeps it in,
\* not a comparison with the length.  The name fits its own buffer with the
\* 0 after it.
StaysInBuffers ==
    /\ high + HdrSize <= BufSize
    /\ Len(domain) <= MAX_DOMAIN
    /\ out <= BufSize

\* Type and class are read from the datagram itself, unless its labels fill
\* it to the last byte: no other cut makes the server answer what lay in the
\* buffer before.
StaleOnlyWhenFull ==
    pc = "lookup" => high <= len \/ Len(domain) + 1 = len

\* The response repeats the question: though the writer works from a name with
\* dots, whose lengths are gone, the bytes it writes are those the parser read,
\* each label with its length, and the 0; but capitals come back as small
\* letters.  They are what the response holds behind its header.
EchoesQuestion ==
    pc = "answer" => name = question /\ out = HdrSize + Len(name)

\* A query is accepted only if it is long enough for what is read of it.
AcceptedInFull == pc = "lookup" => high <= len
=============================================================================
