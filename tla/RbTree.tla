------------------------------- MODULE RbTree -------------------------------
(***************************************************************************)
(* The red-black tree the server keeps its domains in (src/rbtree.c), with *)
(* the comparison and the node swap src/dns.c gives it.  Each function is  *)
(* an action; a tail call is the next action, pc naming the function and   *)
(* cur its node argument, and a recursive search is made at one step.      *)
(* Nodes are the caller's: it allocates one for an insert and frees one    *)
(* that an insert refuses or a delete returns.                             *)
(***************************************************************************)
EXTENDS Integers, FiniteSets

CONSTANTS
    Nodes,   \* memory for nodes: bounds the size of the tree
    Keys,    \* domain names, numbered in strcmp order
    Nil,     \* NULL
    NoKey    \* the content of a node that is not allocated

ASSUME TreeAssumption ==
    /\ Keys \subseteq Int
    /\ IsFiniteSet(Nodes)
    /\ Nil \notin Nodes
    /\ NoKey \notin Keys

VARIABLES
    tree,    \* root, count, and the link and colour fields of every node
    val,     \* node -> its domain name
    pc,      \* the function being run
    cur,     \* the node it is given
    held,    \* newnode of an insert; the node a delete or find has found
    op, key, \* the call under way, or the latest one
    found    \* the call's result: the key was in the tree

vars == <<tree, val, pc, cur, held, op, key, found>>

Ops == {"insert", "find", "delete"}

InsertCases == {"insert_case1", "insert_case2", "insert_case3",
                "insert_case4", "insert_case5"}
DeleteCases == {"delete_case1", "delete_case2", "delete_case3",
                "delete_case4", "delete_case5", "delete_case6"}

TypeOK ==
    /\ tree \in [root : Nodes \cup {Nil},
                 count : 0 .. Cardinality(Nodes),
                 left : [Nodes -> Nodes \cup {Nil}],
                 right : [Nodes -> Nodes \cup {Nil}],
                 parent : [Nodes -> Nodes \cup {Nil}],
                 color : [Nodes -> {"RED", "BLACK"}]]
    /\ val \in [Nodes -> Keys \cup {NoKey}]
    /\ pc \in {"idle", "rbtree_insert", "rbtree_find", "rbtree_delete",
               "find_subtree_min", "delete_one_child", "replace_child",
               "return"} \cup InsertCases \cup DeleteCases
    /\ cur \in Nodes \cup {Nil}
    /\ held \in Nodes \cup {Nil}
    /\ op \in Ops
    /\ key \in Keys
    /\ found \in BOOLEAN

\* rbtree_init; the fields of a node nobody has allocated are arbitrary.
Init ==
    /\ tree = [root |-> Nil, count |-> 0,
               left |-> [n \in Nodes |-> Nil], right |-> [n \in Nodes |-> Nil],
               parent |-> [n \in Nodes |-> Nil],
               color |-> [n \in Nodes |-> "RED"]]
    /\ val = [n \in Nodes |-> NoKey]
    /\ pc = "idle"
    /\ cur = Nil
    /\ held = Nil
    /\ op \in Ops
    /\ key \in Keys
    /\ found = FALSE

-----------------------------------------------------------------------------
(* Links and colours *)

Left(n) == tree.left[n]
Right(n) == tree.right[n]
Parent(n) == tree.parent[n]
Color(n) == tree.color[n]

grandparent(n) == Parent(Parent(n))

uncle(n) == IF Parent(n) = Left(grandparent(n)) THEN Right(grandparent(n))
                                                ELSE Left(grandparent(n))

sibling(n) == IF n = Left(Parent(n)) THEN Right(Parent(n)) ELSE Left(Parent(n))

node_color(n) == IF n = Nil THEN "BLACK" ELSE Color(n)

\* Variant: a new root is not recorded.
Hang_KeepsRoot(t, p, n, child) ==
    IF p = Nil THEN t
    ELSE IF t.left[p] = n THEN [t EXCEPT !.left[p] = child]
    ELSE [t EXCEPT !.right[p] = child]

\* n's parent p, or the tree when p is NULL, gets child in place of n.
Hang(t, p, n, child) ==
    IF p = Nil THEN [t EXCEPT !.root = child]
    ELSE IF t.left[p] = n THEN [t EXCEPT !.left[p] = child]
    ELSE [t EXCEPT !.right[p] = child]

Adopt(t, n, p) == IF n = Nil THEN t ELSE [t EXCEPT !.parent[n] = p]

\* Variant: the child that changes sides keeps its old parent.
rotate_left_NoAdopt(t, n) ==
    LET p     == t.parent[n]
        child == t.right[n]
    IN  [Hang(t, p, n, child) EXCEPT
            !.right[n] = t.left[child], !.parent[n] = child,
            !.left[child] = n, !.parent[child] = p]

rotate_left(t, n) ==
    LET p     == t.parent[n]
        child == t.right[n]
        inner == t.left[child]
    IN  Adopt([Hang(t, p, n, child) EXCEPT
                  !.right[n] = inner, !.parent[n] = child,
                  !.left[child] = n, !.parent[child] = p], inner, n)

rotate_right(t, n) ==
    LET p     == t.parent[n]
        child == t.left[n]
        inner == t.right[child]
    IN  Adopt([Hang(t, p, n, child) EXCEPT
                  !.left[n] = inner, !.parent[n] = child,
                  !.right[child] = n, !.parent[child] = p], inner, n)

\* n takes the colour c.
Paint(t, n, c) == [t EXCEPT !.color[n] = c]

Goto(function, n) == pc' = function /\ cur' = n

call == <<held, op, key, found>>

-----------------------------------------------------------------------------
(* rbtree_insert *)

\* newnode as a leaf below p.
Leaf(t, n, p, c) ==
    [t EXCEPT !.color[n] = c, !.left[n] = Nil, !.right[n] = Nil,
              !.parent[n] = p, !.count = @ + 1]

\* Where the recursion of binary_node_insert and of binary_find ends: at the
\* node that holds k, or at one with no child on k's side.
Reached(k) ==
    LET next(n) == IF k < val[n] THEN Left(n) ELSE Right(n)
        last[n \in Nodes] ==
            IF val[n] = k \/ next(n) = Nil THEN n ELSE last[next(n)]
    IN  last[tree.root]

\* The first node.
rbtree_insert ==
    /\ pc = "rbtree_insert"
    /\ tree.root = Nil
    /\ tree' = [Leaf(tree, held, Nil, "BLACK") EXCEPT !.root = held]
    /\ Goto("return", Nil)
    /\ UNCHANGED <<val, call>>

binary_node_insert ==
    /\ pc = "rbtree_insert"
    /\ tree.root # Nil
    /\ LET p == Reached(key)
           t == Leaf(tree, held, p, "RED")
       IN  \/ /\ key = val[p]
              /\ found' = TRUE
              /\ Goto("return", Nil)
              /\ UNCHANGED tree
           \/ /\ key # val[p]
              /\ tree' = IF key < val[p] THEN [t EXCEPT !.left[p] = held]
                                         ELSE [t EXCEPT !.right[p] = held]
              /\ Goto("insert_case1", held)
              /\ UNCHANGED found
    /\ UNCHANGED <<val, held, op, key>>

insert_case1 ==
    /\ pc = "insert_case1"
    /\ IF Parent(cur) = Nil
         THEN tree' = Paint(tree, cur, "BLACK") /\ Goto("return", Nil)
         ELSE Goto("insert_case2", cur) /\ UNCHANGED tree
    /\ UNCHANGED <<val, call>>

insert_case2 ==
    /\ pc = "insert_case2"
    /\ IF Color(Parent(cur)) = "BLACK"
         THEN Goto("return", Nil)
         ELSE Goto("insert_case3", cur)
    /\ UNCHANGED <<tree, val, call>>

insert_case3 ==
    /\ pc = "insert_case3"
    /\ IF node_color(uncle(cur)) = "RED"
         THEN /\ tree' = Paint(Paint(Paint(tree, Parent(cur), "BLACK"),
                                     uncle(cur), "BLACK"),
                               grandparent(cur), "RED")
              /\ Goto("insert_case1", grandparent(cur))
         ELSE Goto("insert_case4", cur) /\ UNCHANGED tree
    /\ UNCHANGED <<val, call>>

insert_case4 ==
    /\ pc = "insert_case4"
    /\ LET p == Parent(cur)
           g == grandparent(cur)
       IN  IF cur = Right(p) /\ p = Left(g)
             THEN /\ tree' = rotate_left(tree, p)
                  /\ Goto("insert_case5", p)
           ELSE IF cur = Left(p) /\ p = Right(g)
             THEN /\ tree' = rotate_right(tree, p)
                  /\ Goto("insert_case5", p)
           ELSE Goto("insert_case5", cur) /\ UNCHANGED tree
    /\ UNCHANGED <<val, call>>

insert_case5 ==
    /\ pc = "insert_case5"
    /\ LET p == Parent(cur)
           g == grandparent(cur)
           t == Paint(Paint(tree, p, "BLACK"), g, "RED")
       IN  tree' = IF cur = Left(p) /\ p = Left(g) THEN rotate_right(t, g)
                                                   ELSE rotate_left(t, g)
    /\ Goto("return", Nil)
    /\ UNCHANGED <<val, call>>

-----------------------------------------------------------------------------
(* rbtree_find, and the search rbtree_delete begins with *)

\* There is no such node.
rbtree_find ==
    /\ pc = "rbtree_find"
    /\ tree.root # Nil => key # val[Reached(key)]
    /\ Goto("return", Nil)
    /\ UNCHANGED <<tree, val, call>>

binary_find ==
    /\ pc = "rbtree_find"
    /\ tree.root # Nil
    /\ key = val[Reached(key)]
    /\ held' = Reached(key)
    /\ found' = TRUE
    /\ IF op = "delete" THEN Goto("rbtree_delete", Reached(key))
                        ELSE Goto("return", Nil)
    /\ UNCHANGED <<tree, val, op, key>>

-----------------------------------------------------------------------------
(* rbtree_delete *)

rbtree_delete ==
    /\ pc = "rbtree_delete"
    /\ IF Left(cur) # Nil /\ Right(cur) # Nil
         THEN Goto("find_subtree_min", Right(cur))
         ELSE Goto("delete_one_child", cur)
    /\ UNCHANGED <<tree, val, call>>

\* Variant: the contents are not exchanged.
find_subtree_min_NoSwap ==
    /\ pc = "find_subtree_min"
    /\ IF Left(cur) # Nil
         THEN Goto("find_subtree_min", Left(cur)) /\ UNCHANGED held
         ELSE Goto("delete_one_child", cur) /\ held' = cur
    /\ UNCHANGED <<tree, val, op, key, found>>

\* The loop of find_subtree_min, then node_swap: the two nodes keep their
\* places and exchange their contents.
find_subtree_min ==
    /\ pc = "find_subtree_min"
    /\ IF Left(cur) # Nil
         THEN Goto("find_subtree_min", Left(cur)) /\ UNCHANGED <<val, held>>
         ELSE /\ val' = [val EXCEPT ![held] = val[cur], ![cur] = val[held]]
              /\ held' = cur
              /\ Goto("delete_one_child", cur)
    /\ UNCHANGED <<tree, op, key, found>>

OnlyChild(n) == IF Left(n) # Nil THEN Left(n) ELSE Right(n)

\* Variant: the repair is made for a red node too.
delete_one_child_Always ==
    /\ pc = "delete_one_child"
    /\ tree' = Paint(tree, cur, node_color(OnlyChild(cur)))
    /\ Goto("delete_case1", cur)
    /\ UNCHANGED <<val, call>>

delete_one_child ==
    /\ pc = "delete_one_child"
    /\ IF Color(cur) = "BLACK"
         THEN /\ tree' = Paint(tree, cur, node_color(OnlyChild(cur)))
              /\ Goto("delete_case1", cur)
         ELSE Goto("replace_child", cur) /\ UNCHANGED tree
    /\ UNCHANGED <<val, call>>

delete_case1 ==
    /\ pc = "delete_case1"
    /\ IF Parent(cur) # Nil THEN Goto("delete_case2", cur)
                            ELSE Goto("replace_child", held)
    /\ UNCHANGED <<tree, val, call>>

\* The rotation that moves n down, on the side n is on.
RotateTowards(t, n) ==
    LET p == t.parent[n]
    IN  IF n = t.left[p] THEN rotate_left(t, p) ELSE rotate_right(t, p)

delete_case2 ==
    /\ pc = "delete_case2"
    /\ IF Color(sibling(cur)) = "RED"
         THEN tree' = RotateTowards(
                         Paint(Paint(tree, Parent(cur), "RED"),
                               sibling(cur), "BLACK"), cur)
         ELSE UNCHANGED tree
    /\ Goto("delete_case3", cur)
    /\ UNCHANGED <<val, call>>

\* The sibling and both its children are black.
AllBlack(s) == /\ Color(s) = "BLACK"
               /\ node_color(Left(s)) = "BLACK"
               /\ node_color(Right(s)) = "BLACK"

\* Variant: the repair stops at the first level.
delete_case3_NoAscent ==
    /\ pc = "delete_case3"
    /\ IF Color(Parent(cur)) = "BLACK" /\ AllBlack(sibling(cur))
         THEN /\ tree' = Paint(tree, sibling(cur), "RED")
              /\ Goto("replace_child", held)
         ELSE Goto("delete_case4", cur) /\ UNCHANGED tree
    /\ UNCHANGED <<val, call>>

delete_case3 ==
    /\ pc = "delete_case3"
    /\ IF Color(Parent(cur)) = "BLACK" /\ AllBlack(sibling(cur))
         THEN /\ tree' = Paint(tree, sibling(cur), "RED")
              /\ Goto("delete_case1", Parent(cur))
         ELSE Goto("delete_case4", cur) /\ UNCHANGED tree
    /\ UNCHANGED <<val, call>>

delete_case4 ==
    /\ pc = "delete_case4"
    /\ IF Color(Parent(cur)) = "RED" /\ AllBlack(sibling(cur))
         THEN /\ tree' = Paint(Paint(tree, sibling(cur), "RED"),
                               Parent(cur), "BLACK")
              /\ Goto("replace_child", held)
         ELSE Goto("delete_case5", cur) /\ UNCHANGED tree
    /\ UNCHANGED <<val, call>>

\* A red child of the sibling on n's side is turned to the other side.
delete_case5 ==
    /\ pc = "delete_case5"
    /\ LET s == sibling(cur)
           onLeft == cur = Left(Parent(cur))
           near == IF onLeft THEN Left(s) ELSE Right(s)
           far  == IF onLeft THEN Right(s) ELSE Left(s)
       IN  IF /\ Color(s) = "BLACK"
              /\ node_color(far) = "BLACK"
              /\ node_color(near) = "RED"
             THEN LET t == Paint(Paint(tree, s, "RED"), near, "BLACK")
                  IN  tree' = IF onLeft THEN rotate_right(t, s)
                                        ELSE rotate_left(t, s)
             ELSE UNCHANGED tree
    /\ Goto("delete_case6", cur)
    /\ UNCHANGED <<val, call>>

FarNephew(n) == LET s == sibling(n)
                IN  IF n = Left(Parent(n)) THEN Right(s) ELSE Left(s)

delete_case6 ==
    /\ pc = "delete_case6"
    /\ tree' = RotateTowards(
                  Paint(Paint(Paint(tree, sibling(cur), Color(Parent(cur))),
                              Parent(cur), "BLACK"),
                        FarNephew(cur), "BLACK"), cur)
    /\ Goto("replace_child", held)
    /\ UNCHANGED <<val, call>>

\* Variant: both functions bring count down.
replace_child_CountsTwice ==
    /\ pc = "replace_child"
    /\ LET child == OnlyChild(cur)
           p     == Parent(cur)
           t     == Hang(Adopt(tree, child, p), p, cur, child)
       IN  tree' = [IF p = Nil /\ child # Nil THEN Paint(t, child, "BLACK") ELSE t
                       EXCEPT !.count = @ - 2]
    /\ Goto("return", Nil)
    /\ UNCHANGED <<val, call>>

\* The end of delete_one_child and of rbtree_delete.
replace_child ==
    /\ pc = "replace_child"
    /\ LET child == OnlyChild(cur)
           p     == Parent(cur)
           t     == Hang(Adopt(tree, child, p), p, cur, child)
       IN  tree' = [IF p = Nil /\ child # Nil THEN Paint(t, child, "BLACK") ELSE t
                       EXCEPT !.count = @ - 1]
    /\ Goto("return", Nil)
    /\ UNCHANGED <<val, call>>

-----------------------------------------------------------------------------
(* The caller *)

\* It allocates a node for the key it inserts.
CallInsert(k) ==
    /\ pc = "idle"
    /\ \E n \in {m \in Nodes : val[m] = NoKey} :
          /\ val' = [val EXCEPT ![n] = k]
          /\ held' = n
    /\ Goto("rbtree_insert", Nil)
    /\ op' = "insert"
    /\ key' = k
    /\ found' = FALSE
    /\ UNCHANGED tree

CallSearch(o, k) ==
    /\ pc = "idle"
    /\ Goto("rbtree_find", Nil)
    /\ held' = Nil
    /\ op' = o
    /\ key' = k
    /\ found' = FALSE
    /\ UNCHANGED <<tree, val>>

\* The call returns.  A node the tree did not take, or gave back, is freed.
Return ==
    /\ pc = "return"
    /\ val' = IF \/ op = "insert" /\ found
                 \/ op = "delete" /\ found
                THEN [val EXCEPT ![held] = NoKey] ELSE val
    /\ Goto("idle", Nil)
    /\ held' = Nil
    /\ UNCHANGED <<tree, op, key, found>>

Next ==
    \/ \E k \in Keys : CallInsert(k) \/ \E o \in {"find", "delete"} : CallSearch(o, k)
    \/ rbtree_insert \/ binary_node_insert \/ insert_case1 \/ insert_case2 \/ insert_case3
    \/ insert_case4 \/ insert_case5
    \/ rbtree_find \/ binary_find \/ rbtree_delete \/ find_subtree_min \/ delete_one_child
    \/ delete_case1 \/ delete_case2 \/ delete_case3 \/ delete_case4
    \/ delete_case5 \/ delete_case6 \/ replace_child
    \/ Return

Spec == Init /\ [][Next]_vars

-----------------------------------------------------------------------------
(* rbtree_verify *)

\* The nodes in the tree, by their own fields.
IsChild(n, p) == p # Nil /\ (Left(p) = n \/ Right(p) = n)

Members == {n \in Nodes : /\ val[n] # NoKey
                          /\ tree.root = n \/ IsChild(n, Parent(n))}

NodeOrNil == Nodes \cup {Nil}

path_black_count ==
    LET cnt[n \in Members \cup {Nil}] ==
            IF n = Nil THEN 0
            ELSE cnt[Left(n)] + IF Color(n) = "BLACK" THEN 1 ELSE 0
    IN  cnt

\* As many black nodes on every way down from top as wanted.
node_black_walk(top, count) ==
    LET walk[n \in Members \cup {Nil}] ==
            [find \in Nat |->
                IF n = Nil THEN find = count
                ELSE LET f == find + IF Color(n) = "BLACK" THEN 1 ELSE 0
                     IN  walk[Left(n)][f] /\ walk[Right(n)][f]]
    IN  walk[top][0]

verify_node(top) ==
    LET ok[n \in Members \cup {Nil}] ==
            \/ n = Nil
            \/ /\ node_black_walk(n, path_black_count[n])
               /\ ok[Left(n)]
               /\ ok[Right(n)]
    IN  ok[top]

\* Variant: only the left child of a red node is looked at.
verify_rednode_LeftOnly(top) ==
    LET ok[n \in Members \cup {Nil}] ==
            \/ n = Nil
            \/ /\ Color(n) = "BLACK" \/ node_color(Left(n)) = "BLACK"
               /\ ok[Left(n)]
               /\ ok[Right(n)]
    IN  ok[top]

verify_rednode(top) ==
    LET ok[n \in Members \cup {Nil}] ==
            \/ n = Nil
            \/ /\ \/ Color(n) = "BLACK"
                  \/ /\ node_color(Left(n)) = "BLACK"
                     /\ node_color(Right(n)) = "BLACK"
               /\ ok[Left(n)]
               /\ ok[Right(n)]
    IN  ok[top]

\* TRUE when rbtree_verify returns 0.
rbtree_verify ==
    \/ tree.root = Nil
    \/ /\ Color(tree.root) = "BLACK"
       /\ verify_rednode(tree.root)
       /\ verify_node(tree.root)

-----------------------------------------------------------------------------
(* Properties *)

\* Parent and child links agree at every step, rotations and removals
\* included: the search, which goes down, and the repairs, which go up, walk
\* the same tree.
LinksAgree ==
    LET in == Members
    IN  /\ tree.root # Nil => tree.root \in in /\ Parent(tree.root) = Nil
        /\ \A n \in in :
              /\ Left(n) # Nil => Left(n) \in in /\ Parent(Left(n)) = n
              /\ Right(n) # Nil => Right(n) \in in /\ Parent(Right(n)) = n
              /\ Left(n) = Right(n) => Left(n) = Nil
              /\ n # tree.root => Parent(n) \in in

\* count is the number of nodes in the tree; at rest these are all that were
\* allocated and not freed.
AllCounted ==
    /\ tree.count = Cardinality(Members)
    /\ pc = "idle" => Members = {n \in Nodes : val[n] # NoKey}

\* No node is lost: the root leads to each of them, and none is forgotten.
NoneLost ==
    LET below[n \in NodeOrNil] ==
            IF n = Nil THEN {} ELSE {n} \cup below[Left(n)] \cup below[Right(n)]
    IN  below[tree.root] = Members /\ AllCounted

\* The red-black rules, looked at from the bottom: the root is black, no red
\* node has a red parent, and the ways up from any two places where a leaf
\* could be added meet as many black nodes.
Balanced ==
    LET black[n \in Members \cup {Nil}] ==
            IF n = Nil THEN 0
            ELSE black[Parent(n)] + IF Color(n) = "BLACK" THEN 1 ELSE 0
        open == {n \in Members : Left(n) = Nil \/ Right(n) = Nil}
    IN  /\ node_color(tree.root) = "BLACK"
        /\ \A n \in Members : Color(n) = "RED" => node_color(Parent(n)) = "BLACK"
        /\ Cardinality({black[n] : n \in open}) <= 1

\* Every call leaves a red-black tree, so a search takes logarithmic time.
BalancedAtRest == pc = "return" => Balanced

\* rbtree_verify accepts the red-black trees and no others; the trees in the
\* middle of a repair are its bad inputs.  (A search changes no tree.)
VerifyIsExact ==
    pc \in InsertCases \cup DeleteCases \cup {"replace_child", "return"} =>
        (rbtree_verify <=> Balanced)

\* What the functions take for granted, without a test, is there: the node of
\* the tree a search ends at, with no child on the side of a key it does not
\* find; the grandparent and the sibling; the child a rotation brings up; no
\* more than one child at the node that is taken out.
TakenForGranted ==
    /\ pc \in {"rbtree_insert", "rbtree_find"} /\ tree.root # Nil =>
          LET n == Reached(key)
          IN  /\ n \in Members
              /\ key < val[n] => Left(n) = Nil
              /\ key > val[n] => Right(n) = Nil
    /\ pc \in {"insert_case3", "insert_case4", "insert_case5"} =>
          Parent(cur) # Nil /\ grandparent(cur) # Nil
    /\ pc = "insert_case5" =>
          (cur = Left(Parent(cur)) <=> Parent(cur) = Left(grandparent(cur)))
    /\ pc \in {"delete_case2", "delete_case3", "delete_case4",
               "delete_case5", "delete_case6"} =>
          /\ Parent(cur) # Nil /\ sibling(cur) # Nil
          /\ pc = "delete_case2" /\ Color(sibling(cur)) = "RED" =>
                Left(sibling(cur)) # Nil /\ Right(sibling(cur)) # Nil
          /\ pc = "delete_case6" => FarNephew(cur) # Nil
    /\ pc = "replace_child" => Left(cur) = Nil \/ Right(cur) = Nil

\* insert, find and delete are those of a set of keys: whatever rotations,
\* recolourings and swaps a call makes, it adds or removes its own key only,
\* at one step, and a search finds a key if and only if it is there.
Phase == CASE pc = "idle" -> "idle"
           [] pc = "return" \/ pc \in InsertCases -> "done"
           [] OTHER -> "called"

Dict == INSTANCE Dictionary
    WITH keys <- {val[n] : n \in Members}, phase <- Phase,
         found <- Phase # "called" /\ found

ImplementsDictionary == Dict!DSpec
=============================================================================
