--------------------------- MODULE UpdateCommand ----------------------------
(***************************************************************************)
(* The texts of the update protocol, from the request dns_update writes to *)
(* the address dns_srv gives out and to what the client tells its user.    *)
(* proc_cmd (src/dns.c) parses the request, takes the items it needs, puts *)
(* the address into the table and frees the json; the client parses the    *)
(* answer; a query finds the node, and fill_binary_ip turns the text into  *)
(* four bytes.  Datagrams arrive and unpack: what else can happen to them  *)
(* is in UpdateProtocol.                                                   *)
(*                                                                         *)
(* The parser's variables are first the server's, then the client's: the   *)
(* server has freed everything when it answers.                            *)
(***************************************************************************)
EXTENDS JsonParse, SequencesExt

CONSTANTS
    CmdName, DomainName, IpName,  \* "cmd", "domain", "ip"
    RetcodeName, DescName,        \* "retcode", "desc"
    CmdText,    \* "update_domain"
    DescText,   \* "ok", "mallof failed!"
    MaxDomain,  \* MAX_DOMAIN: 255
    IpSize,     \* bytes of a node's ip: 16
    Sender,     \* the address the request comes from, four numbers
    Domains,    \* arguments [domain] of the client
    Addresses   \* arguments [ip]

ASSUME CommandAssumption ==
    /\ {CmdName, DomainName, IpName, RetcodeName, DescName, CmdText, DescText}
            \subseteq Seq(1 .. 255)
    /\ MaxDomain \in Nat
    /\ IpSize \in Nat
    /\ {Sender} \cup Addresses \subseteq [1 .. 4 -> 0 .. 255]
    /\ \A d \in Domains : d \in Seq(1 .. 255)

VARIABLES
    request,   \* ghost: the text of the request
    cmd,       \* proc_cmd: "parse", then "served", "refused" or "ignored"
    registry,  \* the table: the text of the address by domain
    result,    \* what the client tells: "ok", "failed", "invalid", or none yet
    answer,    \* the four bytes of a response, or none yet
    undefined  \* the server has followed a NULL

ours        == <<request, cmd, registry, result, answer, undefined>>
commandVars == <<ours, parseVars>>

-----------------------------------------------------------------------------
(* The texts *)

Dot   == 46
Space == <<32>>
InQuotes(s) == <<Quote>> \o s \o <<Quote>>
Pair(name, value) == InQuotes(name) \o <<Colon>> \o InQuotes(value)

\* %d.%d.%d.%d
Decimal(n) == IF n < 10 THEN <<48 + n>>
              ELSE IF n < 100 THEN <<48 + n \div 10, 48 + (n % 10)>>
              ELSE <<48 + n \div 100, 48 + ((n \div 10) % 10), 48 + (n % 10)>>

inet_ntoa(a) == Decimal(a[1]) \o <<Dot>> \o Decimal(a[2]) \o <<Dot>>
                \o Decimal(a[3]) \o <<Dot>> \o Decimal(a[4])

\* Variant: the quotes about the domain are left out.
Request_NoQuotes(domain, ip) ==
    <<Opening["Object"]>> \o Space \o Pair(CmdName, CmdText) \o <<Comma>>
    \o Space \o InQuotes(DomainName) \o <<Colon>> \o domain \o Space
    \o (IF ip = <<>> THEN Space
        ELSE <<Comma>> \o Space \o Pair(IpName, inet_ntoa(ip)) \o Space)
    \o Space \o <<Closing["Object"]>>

\* { "cmd":"update_domain", "domain":"..." , "ip":"..."  }, the ip only if the
\* client was given one.
Request(domain, ip) ==
    <<Opening["Object"]>> \o Space \o Pair(CmdName, CmdText) \o <<Comma>>
    \o Space \o Pair(DomainName, domain) \o Space
    \o (IF ip = <<>> THEN Space
        ELSE <<Comma>> \o Space \o Pair(IpName, inet_ntoa(ip)) \o Space)
    \o Space \o <<Closing["Object"]>>

\* Variant: a digit is left out of a successful answer.
Reply_NoCode(served) ==
    <<Opening["Object"]>> \o Space \o InQuotes(RetcodeName) \o <<Colon>>
    \o (IF served THEN <<>> ELSE Space \o <<49>>) \o <<Comma>>
    \o Space \o InQuotes(DescName) \o <<Colon>> \o InQuotes(DescText)
    \o Space \o <<Closing["Object"]>>

\* { "retcode":0, "desc": "ok" } or { "retcode": 1, "desc":"mallof failed!" }
Reply(served) ==
    <<Opening["Object"]>> \o Space \o InQuotes(RetcodeName) \o <<Colon>>
    \o (IF served THEN <<48>> ELSE Space \o <<49>>) \o <<Comma>>
    \o Space \o InQuotes(DescName) \o <<Colon>>
    \o (IF served THEN Space ELSE <<>>) \o InQuotes(DescText)
    \o Space \o <<Closing["Object"]>>

-----------------------------------------------------------------------------
(* Numbers in a text *)

Number(s) == LET From[n \in Nat] == IF n = 0 THEN 0
                                    ELSE 10 * From[n - 1] + (s[n] - 48)
             IN  From[Len(s)]

\* atoi: whitespace, a sign, and the digits there are.
atoi(s) ==
    LET first == CHOOSE n \in 1 .. (Len(s) + 1) :
                    /\ n = Len(s) + 1 \/ s[n] \notin {32} \cup (9 .. 13)
                    /\ \A m \in 1 .. (n - 1) : s[m] \in {32} \cup (9 .. 13)
        rest  == SubSeq(s, first, Len(s))
        size  == CHOOSE n \in 0 .. Len(Unsigned(rest)) :
                    /\ \A m \in 1 .. n : Unsigned(rest)[m] \in Digits
                    /\ n = Len(Unsigned(rest)) \/ Unsigned(rest)[n + 1] \notin Digits
        value == Number(SubSeq(Unsigned(rest), 1, size))
    IN  IF rest # <<>> /\ rest[1] = 45 THEN -value ELSE value

-----------------------------------------------------------------------------
(* The server and the client *)

CommandInit ==
    /\ Init
    /\ request = text
    /\ cmd = "parse"
    /\ registry = <<>>
    /\ result = "none"
    /\ answer = <<>>
    /\ undefined = FALSE

Parsed == pc = "done" /\ ~undefined

Find(name) == IF root = NULL THEN NULL ELSE get_object_item(root, name)

\* valuestring as a text, and whether there is one.
Valued(i) == node[i].valuestring # NULL
Value(i)  == CString(str[node[i].valuestring])

\* cmd and domain are there.
Complete ==
    Find(CmdName) # NULL /\ Find(DomainName) # NULL

\* The text is no json, lacks an item, or has a domain of the wrong length.
Ignore ==
    /\ Parsed /\ cmd = "parse"
    /\ Complete => /\ Valued(Find(DomainName))
                   /\ Len(Value(Find(DomainName))) \notin 1 .. MaxDomain
    /\ cmd' = "ignored"
    /\ cJSON_Delete(root)
    /\ root' = NULL
    /\ UNCHANGED <<source, pc, place, item, pass1, pass2, starved,
                   request, registry, result, answer, undefined>>

\* And the domain is a text of the right length.
Named ==
    /\ Parsed /\ cmd = "parse"
    /\ Complete
    /\ Valued(Find(DomainName))
    /\ Len(Value(Find(DomainName))) \in 1 .. MaxDomain

\* Variant: the item is not looked for.
IpText_Sender == inet_ntoa(Sender)

\* What becomes the address: the text of the item, if there is one.
IpText == IF Find(IpName) = NULL THEN inet_ntoa(Sender) ELSE Value(Find(IpName))

\* An item that is no string has a valuestring of NULL, which strlen, strcpy
\* and strcmp follow; and an address a node has no room for is written past it.
Undefined ==
    /\ Parsed /\ cmd = "parse"
    /\ Complete
    /\ \/ ~Valued(Find(DomainName))
       \/ /\ Named
          /\ Find(IpName) # NULL
          /\ ~Valued(Find(IpName)) \/ Len(IpText) >= IpSize
    /\ undefined' = TRUE
    /\ UNCHANGED <<parseVars, request, cmd, registry, result, answer>>

\* The node of the domain, in lower case, gets the address; if there is none
\* it is made, unless there is no memory for it.  The client is told, and
\* begins to parse.
proc_cmd ==
    /\ Named
    /\ Find(IpName) # NULL => Valued(Find(IpName))
    /\ \/ /\ Len(IpText) < IpSize
          /\ registry' = Lowered(Value(Find(DomainName))) :> IpText
          /\ cmd' = "served"
       \/ /\ cmd' = "refused"
          /\ UNCHANGED registry
    /\ cJSON_Delete(root)
    /\ text' = Reply(cmd' = "served")
    /\ Again
    /\ UNCHANGED <<after, request, result, answer, undefined>>

\* The whole number the parser leaves in an item.
valueint(i) == IF node[i].type = "True" THEN 1 ELSE atoi(node[i].number)

\* dns_update looks for the code; an answer without one is invalid.
Conclude ==
    /\ pc = "done" /\ cmd \in {"served", "refused"} /\ result = "none"
    /\ result' = IF Find(RetcodeName) = NULL THEN "invalid"
                 ELSE IF valueint(Find(RetcodeName)) # 0 THEN "failed"
                 ELSE "ok"
    /\ UNCHANGED <<parseVars, request, cmd, registry, answer, undefined>>

-----------------------------------------------------------------------------
(* A query for the domain *)

\* The places of the dots.
Dots(s) == SetToSortSeq({n \in DOMAIN s : s[n] = Dot}, <)

\* The four parts of an address as bytes.
Binary(s) ==
    LET cut == <<0>> \o SubSeq(Dots(s), 1, 3) \o <<Len(s) + 1>>
    IN  [n \in 1 .. 4 |-> atoi(SubSeq(s, cut[n] + 1, cut[n + 1] - 1)) % 256]

\* A query for a name, in any case, finds the node.  strchr finds no dot in a
\* text with less than three, and the NULL it returns is written through.
Query ==
    /\ cmd = "served" /\ ~undefined /\ answer = <<>>
    /\ \E name \in Domains :
        /\ Lowered(name) \in DOMAIN registry
        /\ IF Len(Dots(registry[Lowered(name)])) < 3
             THEN undefined' = TRUE /\ UNCHANGED answer
             ELSE /\ answer' = Binary(registry[Lowered(name)])
                  /\ UNCHANGED undefined
    /\ UNCHANGED <<parseVars, request, cmd, registry, result>>

CommandStep ==
    \/ cJSON_Parse /\ UNCHANGED ours
    \/ Ignore \/ Undefined \/ proc_cmd \/ Conclude \/ Query

CommandSpec == CommandInit /\ [][CommandStep]_commandVars

-----------------------------------------------------------------------------
(* Properties *)

\* Domains that need no escape; the client does not make any.
Plain(domain) ==
    /\ Len(domain) \in 1 .. MaxDomain
    /\ \A i \in DOMAIN domain : domain[i] \notin {Quote, Backslash}

\* The requests dns_update makes for such domains are acted upon, unless there
\* is no memory: the parser finds in them what the client put there, and
\* neither the update nor a query after it follows a NULL.
HonestRequestsAreServed ==
    \A domain \in Domains, ip \in Addresses \cup {<<>>} :
        Plain(domain) /\ request = Request(domain, ip) =>
            /\ ~undefined
            /\ cmd = "ignored" => starved
            /\ cmd = "served" => Lowered(domain) \in DOMAIN registry

\* A query is answered with the address the client gave, or else with the one
\* its request came from.
AnswerIsAddress ==
    \A domain \in Domains, ip \in Addresses \cup {<<>>} :
        /\ Plain(domain)
        /\ request = Request(domain, ip)
        /\ answer # <<>>
        => answer = IF ip = <<>> THEN Sender ELSE ip

\* Whatever it asked, a client that hears from the server tells what happened,
\* and calls an answer invalid only if it has no memory to parse it.
ClientLearnsOutcome ==
    /\ result = "ok" => cmd = "served"
    /\ result = "failed" => cmd = "refused"
    /\ result = "invalid" => starved
=============================================================================
