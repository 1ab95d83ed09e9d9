------------------------------ MODULE MCRbTree ------------------------------
(***************************************************************************)
(* A small instance of RbTree.                                             *)
(***************************************************************************)
EXTENDS RbTree

\* Which memory a node got does not matter: a state is seen with every node
\* named by its content, and nodes nobody has allocated are not seen.
Name(n) == IF n = Nil THEN NoKey ELSE val[n]

\* What is left to know of the call: nothing between calls, nor once a leaf
\* has been hung, or when there is nothing to free at the end.
SeenCall ==
    CASE pc = "idle" \/ pc \in InsertCases -> <<>>
      [] pc = "return" -> IF found /\ op # "find" THEN <<op, Name(held)>> ELSE <<>>
      [] OTHER -> <<op, key, found, Name(held)>>

Seen ==
    LET in == Members
    IN  <<pc, Name(cur), Name(tree.root), tree.count,
          {<<val[n], Name(Left(n)), Name(Right(n)), Name(Parent(n)), Color(n)>> :
              n \in in},
          {n \in Nodes : val[n] # NoKey} = in,
          SeenCall>>
=============================================================================
