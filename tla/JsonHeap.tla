------------------------------ MODULE JsonHeap ------------------------------
(***************************************************************************)
(* The items of cJSON (src/cjson.c) and the memory they live in.  An item  *)
(* is a struct with links: child to the first item of an array or object,  *)
(* next and prev along the list.  It owns the texts string, its name, and  *)
(* valuestring.  The domains of node and str are the blocks that are       *)
(* allocated; which free block malloc returns makes no difference, as      *)
(* pointers are only compared.                                             *)
(***************************************************************************)
EXTENDS Integers, Sequences, FiniteSets, Functions

CONSTANTS
    Items,    \* blocks that can hold an item
    Strings,  \* blocks that can hold a text
    NULL

ASSUME HeapAssumption == NULL \notin Items /\ NULL \notin Strings

VARIABLES
    node,  \* the items
    str    \* the texts

heap == <<node, str>>

Types == {"Invalid", "False", "True", "NULL", "Number", "String", "Array",
          "Object"}

Bytes == 0 .. 255
Text  == Seq(Bytes)

\* Texts that are no block of the heap: a name that is const, which is then
\* the text itself.
Item == [type : Types, reference : BOOLEAN, const : BOOLEAN,
         next : Items \cup {NULL}, prev : Items \cup {NULL},
         child : Items \cup {NULL}, string : Strings \cup Text \cup {NULL},
         valuestring : Strings \cup {NULL}, number : Text]

HeapOK ==
    /\ DOMAIN node \subseteq Items
    /\ node \in [DOMAIN node -> Item]
    /\ DOMAIN str \subseteq Strings
    /\ str \in [DOMAIN str -> Text]

-----------------------------------------------------------------------------
(* Allocation *)

ItemLeft   == DOMAIN node # Items
StringLeft == DOMAIN str # Strings

FreeItem   == CHOOSE i \in Items : i \notin DOMAIN node
FreeString == CHOOSE s \in Strings : s \notin DOMAIN str

\* What memset leaves.
Cleared == [type |-> "Invalid", reference |-> FALSE, const |-> FALSE,
            next |-> NULL, prev |-> NULL, child |-> NULL, string |-> NULL,
            valuestring |-> NULL, number |-> <<>>]

\* Function f with one more place.
With(f, x, y) == [z \in DOMAIN f \cup {x} |-> IF z = x THEN y ELSE f[z]]

cJSON_New_Item == node' = With(node, FreeItem, Cleared)

-----------------------------------------------------------------------------
(* Walking *)

\* The items cJSON_Delete goes on to from item i.
Following(i) ==
    {node[i].next, IF node[i].reference THEN NULL ELSE node[i].child} \ {NULL}

\* Item i, those behind it in its list, and all below them.
Reached(i) ==
    LET Within[n \in Nat] ==
            IF n = 0 THEN {i}
            ELSE LET before == Within[n - 1]
                 IN  before \cup
                     UNION {Following(j) : j \in before \cap DOMAIN node}
    IN  IF i = NULL THEN {} ELSE Within[Cardinality(DOMAIN node)]

\* The texts cJSON_Delete gives back with item i.
Owned(i) ==
    ({IF node[i].reference THEN NULL ELSE node[i].valuestring}
     \cup {IF node[i].const THEN NULL ELSE node[i].string}) \ {NULL}

\* item and all that is reached from it is freed.
cJSON_Delete(i) ==
    LET gone == Reached(i)
    IN  /\ node' = Restrict(node, DOMAIN node \ gone)
        /\ str' = Restrict(str, DOMAIN str \ UNION {Owned(j) : j \in gone})

\* The items of a list from i on, in order.
Chain(i) ==
    LET From[n \in Nat] ==
            [j \in Items \cup {NULL} |->
                IF n = 0 \/ j \notin DOMAIN node THEN <<>>
                ELSE <<j>> \o From[n - 1][node[j].next]]
    IN  From[Cardinality(DOMAIN node)][i]

\* The list of an array or object.
Children(i) == Chain(node[i].child)

-----------------------------------------------------------------------------
(* Look-up *)

\* tolower of the C locale.
tolower(c) == IF c \in 65 .. 90 THEN c + 32 ELSE c

Lowered(s) == [i \in DOMAIN s |-> tolower(s[i])]

\* A text as the C library sees it: up to the first 0.
CString(s) ==
    IF \E i \in DOMAIN s : s[i] = 0
      THEN SubSeq(s, 1, (CHOOSE i \in DOMAIN s :
                            s[i] = 0 /\ \A j \in 1 .. (i - 1) : s[j] # 0) - 1)
      ELSE s

\* The name of item i, if it has one.
Name(i) == IF node[i].const THEN node[i].string ELSE str[node[i].string]

\* case_insensitive_strcmp, in which NULL equals nothing.
HasName(i, name) ==
    /\ node[i].string # NULL
    /\ Lowered(CString(Name(i))) = Lowered(CString(name))

\* The first item of that name.
get_object_item(object, name) ==
    LET named == SelectSeq(Children(object), LAMBDA i : HasName(i, name))
    IN  IF named = <<>> THEN NULL ELSE named[1]

-----------------------------------------------------------------------------
(* Well-formed memory *)

\* The ways by which cJSON_Delete could come to item i.
Owners(i) ==
    {<<j, "next">> : j \in {k \in DOMAIN node : node[k].next = i}}
    \cup {<<j, "child">> : j \in {k \in DOMAIN node :
                              node[k].child = i /\ ~node[k].reference}}

\* Nothing that is freed is pointed to, and nothing can be freed twice.
OneOwner ==
    /\ \A i \in DOMAIN node :
        /\ Following(i) \subseteq DOMAIN node
        /\ Owned(i) \subseteq DOMAIN str
        /\ node[i].string # NULL /\ ~node[i].const =>
               node[i].string # node[i].valuestring
        /\ Cardinality(Owners(i)) <= 1
        /\ \A j \in DOMAIN node : j # i => Owned(i) \cap Owned(j) = {}

\* prev is the way back: NULL in the first item of a list.
ChainsAgree ==
    \A i \in DOMAIN node :
        node[i].prev = IF \E j \in DOMAIN node : node[j].next = i
                         THEN CHOOSE j \in DOMAIN node : node[j].next = i
                         ELSE NULL
=============================================================================
