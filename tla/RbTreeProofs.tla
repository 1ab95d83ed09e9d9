---------------------------- MODULE RbTreeProofs ----------------------------
(***************************************************************************)
(* The tree of RbTree, whatever its size and the calls made: insertion,    *)
(* rotation, exchange and removal keep parent and child links in step,     *)
(* lose no node, and meet no NULL where they do not test for one, because  *)
(* at every step of a call the tree is one case away from obeying the      *)
(* red-black rules, which it obeys between calls.  The keys stay in order, *)
(* and so insert, find and delete do what the Dictionary says.             *)
(***************************************************************************)
EXTENDS RbTree, FiniteSetTheorems, TLAPS

-----------------------------------------------------------------------------
(* Nodes that belong to a tree *)

Links == [Nodes -> NodeOrNil]

Tree == [root : NodeOrNil, count : Int, left : Links, right : Links,
         parent : Links, color : [Nodes -> {"RED", "BLACK"}]]

LEMMA Fields ==
    ASSUME NEW t \in Tree
    PROVE  /\ t.root \in NodeOrNil
           /\ t.left \in Links /\ t.right \in Links /\ t.parent \in Links
BY DEF Tree

\* n is in the tree, by its own fields.
Belongs(t, n) ==
    \/ t.root = n
    \/ t.parent[n] # Nil /\ (t.left[t.parent[n]] = n \/ t.right[t.parent[n]] = n)

\* The links of n agree with those of its neighbours.
LinkedAt(t, n) ==
    /\ t.left[n] # Nil => t.parent[t.left[n]] = n
    /\ t.right[n] # Nil => t.parent[t.right[n]] = n
    /\ t.left[n] = t.right[n] => t.left[n] = Nil
    /\ t.parent[n] # Nil => Belongs(t, t.parent[n])

\* Every way up ends: no set of nodes has all their parents in it.
NoCycle(t) ==
    \A S \in SUBSET Nodes :
        (\A n \in S : Belongs(t, n) /\ t.parent[n] \in S) => S = {}

Linked(t) ==
    /\ t.root # Nil => t.parent[t.root] = Nil
    /\ \A n \in Nodes : Belongs(t, n) => LinkedAt(t, n)
    /\ NoCycle(t)

\* Left and right make no difference.
Mirrored(t) == [t EXCEPT !.left = t.right, !.right = t.left]

LEMMA Mirror ==
    ASSUME NEW t \in Tree
    PROVE  /\ Mirrored(t) \in Tree
           /\ Linked(Mirrored(t)) <=> Linked(t)
           /\ \A n : Belongs(Mirrored(t), n) <=> Belongs(t, n)
<1> DEFINE r == Mirrored(t)
<1>1. /\ r \in Tree
      /\ r.root = t.root /\ r.parent = t.parent
      /\ r.left = t.right /\ r.right = t.left
    BY DEF Mirrored, Tree
<1> HIDE DEF r
<1>2. \A n : Belongs(r, n) <=> Belongs(t, n)
    BY <1>1 DEF Belongs
<1>3. NoCycle(r) <=> NoCycle(t)
    BY <1>1, <1>2 DEF NoCycle
<1>4. \A n : LinkedAt(r, n) <=> LinkedAt(t, n)
    BY <1>1, <1>2 DEF LinkedAt
<1>5. Linked(r) <=> Linked(t)
    BY <1>1, <1>2, <1>3, <1>4 DEF Linked
<1> QED BY <1>1, <1>2, <1>5 DEF r

\* n goes down to the left, and its right child c takes its place.
Turned(t, n, r) ==
    LET c == t.right[n]
        p == t.parent[n]
        i == t.left[t.right[n]]
    IN  /\ r.root = IF p = Nil THEN c ELSE t.root
        /\ \A m \in Nodes : r.left[m] = IF m = c THEN n
                                    ELSE IF m = p /\ t.left[p] = n THEN c ELSE t.left[m]
        /\ \A m \in Nodes : r.right[m] = IF m = n THEN i
                                    ELSE IF m = p /\ t.left[p] # n THEN c ELSE t.right[m]
        /\ \A m \in Nodes : r.parent[m] = IF m = n THEN c ELSE IF m = c THEN p
                                     ELSE IF m = i THEN n ELSE t.parent[m]

\* A rotation keeps the links in step and the same nodes in the tree.
LEMMA Rotation ==
    ASSUME NEW t \in Tree, NEW n \in Nodes,
           NEW r \in Tree,
           Linked(t),
           Belongs(t, n),
           t.right[n] # Nil,
           Turned(t, n, r)
    PROVE  /\ Linked(r)
           /\ \A m \in Nodes : Belongs(r, m) <=> Belongs(t, m)
<1> DEFINE c == t.right[n]
           p == t.parent[n]
           i == t.left[c]
           H(m) == Belongs(t, m)
           H2(m) == Belongs(r, m)
<1>0. /\ t.left \in Links /\ t.right \in Links /\ t.parent \in Links
      /\ r.left \in Links /\ r.right \in Links /\ r.parent \in Links
      /\ t.root \in NodeOrNil /\ r.root \in NodeOrNil
    BY Fields
<1> USE TreeAssumption, <1>0 DEF NodeOrNil, Links
<1>1. c \in Nodes /\ t.parent[c] = n /\ H(c)
    BY DEF Linked, LinkedAt, Belongs
<1>2. n # p /\ c # n /\ c # p
  <2>1. n # p
    <3>1. SUFFICES ASSUME n = p PROVE FALSE
        OBVIOUS
    <3>2. {n} \in SUBSET Nodes /\ \A m \in {n} : H(m) /\ t.parent[m] \in {n}
        BY <3>1
    <3> QED BY <3>2 DEF Linked, NoCycle
  <2>2. c # n
    BY <1>1, <2>1
  <2>3. c # p
    <3>1. SUFFICES ASSUME c = p PROVE FALSE
        OBVIOUS
    <3>2. /\ {n, c} \in SUBSET Nodes
          /\ \A m \in {n, c} : H(m) /\ t.parent[m] \in {n, c}
        BY <1>1, <3>1
    <3> QED BY <3>2 DEF Linked, NoCycle
  <2> QED BY <2>1, <2>2, <2>3
<1>3. i # Nil => i \in Nodes /\ t.parent[i] = c /\ H(i) /\ i # n /\ i # c
  <2>1. SUFFICES ASSUME i # Nil
                 PROVE  /\ i \in Nodes /\ t.parent[i] = c /\ H(i)
                        /\ i # n /\ i # c
    OBVIOUS
  <2>2. i \in Nodes /\ t.parent[i] = c /\ H(i)
    BY <1>1, <2>1 DEF Linked, LinkedAt, Belongs
  <2>3. i # n
    BY <1>2, <2>2
  <2>4. i # c
    BY <1>1, <1>2, <2>2
  <2> QED BY <2>2, <2>3, <2>4
<1>4. i # Nil => i # p
  <2>1. SUFFICES ASSUME i # Nil, i = p PROVE FALSE
    OBVIOUS
  <2>2. /\ {n, c, i} \in SUBSET Nodes
        /\ \A m \in {n, c, i} : H(m) /\ t.parent[m] \in {n, c, i}
    BY <1>1, <1>3, <2>1
  <2> QED BY <2>2 DEF Linked, NoCycle
<1>5. p # Nil => /\ p \in Nodes /\ H(p)
                 /\ t.left[p] = n \/ t.right[p] = n
                 /\ ~(t.left[p] = n /\ t.right[p] = n)
    BY DEF Linked, LinkedAt, Belongs
<1>6. p = Nil <=> t.root = n
    BY DEF Linked, Belongs
<1>7. /\ r.root = IF p = Nil THEN c ELSE t.root
      /\ \A m \in Nodes : r.left[m] = IF m = c THEN n
                                  ELSE IF m = p /\ t.left[p] = n THEN c ELSE t.left[m]
      /\ \A m \in Nodes : r.right[m] = IF m = n THEN i
                                  ELSE IF m = p /\ t.left[p] # n THEN c ELSE t.right[m]
      /\ \A m \in Nodes : r.parent[m] = IF m = n THEN c ELSE IF m = c THEN p
                                   ELSE IF m = i THEN n ELSE t.parent[m]
    BY DEF Turned
<1> HIDE DEF c, p, i, Links
\* A child of a node in the tree has it for a parent.
<1>8. \A m, k \in Nodes : H(m) /\ (t.left[m] = k \/ t.right[m] = k) => t.parent[k] = m
    BY DEF Linked, LinkedAt
<1>9. \A m \in Nodes : H2(m) <=> H(m)
  <2>1. H2(n) /\ H(n)
    BY <1>1, <1>2, <1>7 DEF Belongs
  <2>2. H2(c)
    BY <1>1, <1>2, <1>5, <1>7 DEF Belongs
  <2>3. i # Nil => H2(i)
    BY <1>2, <1>3, <1>7 DEF Belongs
  <2>4. ASSUME NEW m \in Nodes, m # n, m # c, m # i
        PROVE  H2(m) <=> H(m)
    <3>1. r.parent[m] = t.parent[m]
        BY <2>4, <1>7
    <3>2. r.root = m <=> t.root = m
        BY <2>4, <1>6, <1>7
    <3>3. t.parent[m] # Nil => ((r.left[t.parent[m]] = m \/ r.right[t.parent[m]] = m)
                          <=> (t.left[t.parent[m]] = m \/ t.right[t.parent[m]] = m))
        BY <2>4, <1>1, <1>2, <1>3, <1>5, <1>7 DEF c, i, Links
    <3> QED BY <3>1, <3>2, <3>3 DEF Belongs
  <2> QED BY <1>1, <1>3, <2>1, <2>2, <2>3, <2>4
<1>10. r.root # Nil => r.parent[r.root] = Nil
    BY <1>1, <1>2, <1>3, <1>6, <1>7 DEF Linked
<1>11. ASSUME NEW m \in Nodes, H(m)
       PROVE  LinkedAt(r, m)
  <2>1. LinkedAt(t, m)
    BY <1>11 DEF Linked
  <2>2. r.left[m] # Nil => r.parent[r.left[m]] = m
    BY <1>1, <1>2, <1>3, <1>4, <1>5, <1>7, <2>1, <1>8, <1>11
       DEF LinkedAt, c, i, p, Links
  <2>3. r.right[m] # Nil => r.parent[r.right[m]] = m
    BY <1>1, <1>2, <1>3, <1>4, <1>5, <1>7, <2>1, <1>8, <1>11
       DEF LinkedAt, c, i, p, Links
  <2>4. r.left[m] = r.right[m] => r.left[m] = Nil
    BY <1>1, <1>2, <1>3, <1>4, <1>5, <1>7, <2>1, <1>8, <1>11
       DEF LinkedAt, c, i, p, Links
  <2>5. r.parent[m] # Nil => r.parent[m] \in Nodes /\ H(r.parent[m])
    BY <1>1, <1>5, <1>7, <2>1, <1>11 DEF LinkedAt, Links
  <2> QED BY <2>2, <2>3, <2>4, <2>5, <1>9 DEF LinkedAt
<1>12. NoCycle(r)
  <2>1. SUFFICES ASSUME NEW S \in SUBSET Nodes,
                        \A m \in S : H2(m) /\ r.parent[m] \in S
                 PROVE  S = {}
    BY DEF NoCycle
  <2>2. CASE c \in S
    <3>1. p \in S
        BY <1>1, <1>2, <1>7, <2>1, <2>2
    <3>2. \A m \in S \cup {n} : H(m) /\ t.parent[m] \in S \cup {n}
        BY <1>1, <1>3, <1>7, <1>9, <2>1, <3>1 DEF p
    <3>3. S \cup {n} = {}
        BY <3>2 DEF Linked, NoCycle
    <3> QED BY <3>3
  <2>3. CASE c \notin S
    <3>1. n \notin S
        BY <1>7, <2>1, <2>3
    <3>2. \A m \in S : H(m) /\ t.parent[m] \in S
        BY <1>1, <1>3, <1>7, <1>9, <2>1, <2>3, <3>1
    <3> QED BY <3>2 DEF Linked, NoCycle
  <2> QED BY <2>2, <2>3
<1> QED BY <1>9, <1>10, <1>11, <1>12 DEF Linked

\* A tree without a root is empty.
LEMMA Empty ==
    ASSUME NEW t \in Tree, Linked(t), t.root = Nil
    PROVE  \A m \in Nodes : ~Belongs(t, m)
<1> DEFINE S == {m \in Nodes : Belongs(t, m)}
<1>1. \A m \in S : Belongs(t, m) /\ t.parent[m] \in S
    BY TreeAssumption, Fields DEF Links, Linked, LinkedAt, NodeOrNil, Belongs
<1>2. S = {}
    BY <1>1 DEF Linked, NoCycle
<1> QED BY <1>2

\* n, not in the tree, becomes its root, or the left child of p.
Added(t, n, p, r) ==
    /\ r.root = IF p = Nil THEN n ELSE t.root
    /\ \A m \in Nodes : r.left[m] = IF m = n THEN Nil ELSE IF m = p THEN n ELSE t.left[m]
    /\ \A m \in Nodes : r.right[m] = IF m = n THEN Nil ELSE t.right[m]
    /\ \A m \in Nodes : r.parent[m] = IF m = n THEN p ELSE t.parent[m]

LEMMA Addition ==
    ASSUME NEW t \in Tree, NEW n \in Nodes, NEW p \in NodeOrNil,
           NEW r \in Tree,
           Linked(t),
           ~Belongs(t, n),
           p = Nil => t.root = Nil,
           p # Nil => Belongs(t, p) /\ t.left[p] = Nil,
           Added(t, n, p, r)
    PROVE  /\ Linked(r)
           /\ \A m \in Nodes : Belongs(r, m) <=> Belongs(t, m) \/ m = n
<1> DEFINE H(m) == Belongs(t, m)
           H2(m) == Belongs(r, m)
<1>0. /\ t.left \in Links /\ t.right \in Links /\ t.parent \in Links
      /\ r.left \in Links /\ r.right \in Links /\ r.parent \in Links
      /\ t.root \in NodeOrNil /\ r.root \in NodeOrNil
    BY Fields
<1> USE TreeAssumption, <1>0 DEF NodeOrNil, Links
<1>1. /\ r.root = IF p = Nil THEN n ELSE t.root
      /\ \A m \in Nodes : r.left[m] = IF m = n THEN Nil ELSE IF m = p THEN n ELSE t.left[m]
      /\ \A m \in Nodes : r.right[m] = IF m = n THEN Nil ELSE t.right[m]
      /\ \A m \in Nodes : r.parent[m] = IF m = n THEN p ELSE t.parent[m]
    BY DEF Added
<1>2. p # Nil => p # n /\ t.root # Nil
  <2>1. p # Nil => p # n
    OBVIOUS
  <2>2. p # Nil => t.root # Nil
    BY Empty
  <2> QED BY <2>1, <2>2
<1>3. p = Nil => \A m \in Nodes : ~H(m)
    BY Empty
<1>4. \A m, k \in Nodes : H(m) /\ (t.left[m] = k \/ t.right[m] = k) => t.parent[k] = m /\ H(k)
    BY DEF Linked, LinkedAt, Belongs
<1>5. \A m \in Nodes : H2(m) <=> H(m) \/ m = n
  <2>1. H2(n)
    BY <1>1, <1>2 DEF Belongs
  <2>2. ASSUME NEW m \in Nodes, m # n
        PROVE  H2(m) <=> H(m)
    <3>1. r.parent[m] = t.parent[m]
        BY <2>2, <1>1
    <3>2. r.root = m <=> t.root = m
        BY <2>2, <1>1
    <3>3. H(m) /\ t.parent[m] # Nil => H(t.parent[m])
        BY DEF Linked, LinkedAt
    <3>4. H2(m) => H(m)
        BY <2>2, <3>1, <3>2, <1>1 DEF Belongs
    <3>5. H(m) => H2(m)
        BY <2>2, <3>1, <3>2, <3>3, <1>1 DEF Belongs
    <3> QED BY <3>4, <3>5
  <2> QED BY <2>1, <2>2
<1>6. r.root # Nil => r.parent[r.root] = Nil
    BY <1>1, <1>2 DEF Linked, Belongs
<1>7. ASSUME NEW m \in Nodes, H2(m)
      PROVE  LinkedAt(r, m)
  <2>1. CASE m = n
    BY <2>1, <1>1, <1>2, <1>5 DEF LinkedAt
  <2>2. CASE m # n
    <3>1. H(m) /\ LinkedAt(t, m)
        BY <2>2, <1>5, <1>7 DEF Linked
    <3>2. t.left[m] # n /\ t.right[m] # n
        BY <3>1, <1>4
    <3> QED BY <2>2, <3>1, <3>2, <1>1, <1>2, <1>5 DEF LinkedAt
  <2> QED BY <2>1, <2>2
<1>8. NoCycle(r)
  <2>1. SUFFICES ASSUME NEW S \in SUBSET Nodes,
                        \A m \in S : H2(m) /\ r.parent[m] \in S
                 PROVE  S = {}
    BY DEF NoCycle
  <2>2. \A m \in S \ {n} : H(m) /\ t.parent[m] \in S \ {n}
    <3> SUFFICES ASSUME NEW m \in S \ {n} PROVE H(m) /\ t.parent[m] \in S \ {n}
        OBVIOUS
    <3>1. H(m) /\ t.parent[m] \in S
        BY <1>1, <1>5, <2>1
    <3>2. t.parent[m] # n
        BY <3>1 DEF Linked, LinkedAt
    <3> QED BY <3>1, <3>2
  <2>3. S \ {n} = {}
    BY <2>2 DEF Linked, NoCycle
  <2>4. n \notin S
    BY <1>1, <1>2, <2>1, <2>3
  <2> QED BY <2>3, <2>4
<1> QED BY <1>5, <1>6, <1>7, <1>8 DEF Linked

\* n, which has no left child, is taken out, and the right one comes up.
Removed(t, n, r) ==
    LET c == t.right[n]
        p == t.parent[n]
    IN  /\ r.root = IF p = Nil THEN c ELSE t.root
        /\ \A m \in Nodes : r.left[m] = IF m = p /\ t.left[p] = n THEN c ELSE t.left[m]
        /\ \A m \in Nodes : r.right[m] = IF m = p /\ t.left[p] # n THEN c ELSE t.right[m]
        /\ \A m \in Nodes : r.parent[m] = IF m = c THEN p ELSE t.parent[m]

LEMMA Removal ==
    ASSUME NEW t \in Tree, NEW n \in Nodes,
           NEW r \in Tree,
           Linked(t),
           Belongs(t, n),
           t.left[n] = Nil,
           Removed(t, n, r)
    PROVE  /\ Linked(r)
           /\ \A m \in Nodes : Belongs(r, m) <=> Belongs(t, m) /\ m # n
<1> DEFINE c == t.right[n]
           p == t.parent[n]
           H(m) == Belongs(t, m)
           H2(m) == Belongs(r, m)
<1>0. /\ t.left \in Links /\ t.right \in Links /\ t.parent \in Links
      /\ r.left \in Links /\ r.right \in Links /\ r.parent \in Links
      /\ t.root \in NodeOrNil /\ r.root \in NodeOrNil
    BY Fields
<1> USE TreeAssumption, <1>0 DEF NodeOrNil, Links
<1>1. c # Nil => c \in Nodes /\ t.parent[c] = n /\ H(c)
    BY DEF Linked, LinkedAt, Belongs
<1>2. n # p /\ c # n
  <2>1. n # p
    <3>1. SUFFICES ASSUME n = p PROVE FALSE
        OBVIOUS
    <3>2. {n} \in SUBSET Nodes /\ \A m \in {n} : H(m) /\ t.parent[m] \in {n}
        BY <3>1
    <3> QED BY <3>2 DEF Linked, NoCycle
  <2> QED BY <1>1, <2>1
<1>3. c # Nil => c # p
  <2>1. SUFFICES ASSUME c # Nil, c = p PROVE FALSE
    OBVIOUS
  <2>2. /\ {n, c} \in SUBSET Nodes
        /\ \A m \in {n, c} : H(m) /\ t.parent[m] \in {n, c}
    BY <1>1, <2>1
  <2> QED BY <2>2 DEF Linked, NoCycle
<1>4. p # Nil => /\ p \in Nodes /\ H(p)
                 /\ t.left[p] = n \/ t.right[p] = n
                 /\ ~(t.left[p] = n /\ t.right[p] = n)
    BY DEF Linked, LinkedAt, Belongs
<1>5. p = Nil <=> t.root = n
    BY DEF Linked, Belongs
<1>6. /\ r.root = IF p = Nil THEN c ELSE t.root
      /\ \A m \in Nodes : r.left[m] = IF m = p /\ t.left[p] = n THEN c ELSE t.left[m]
      /\ \A m \in Nodes : r.right[m] = IF m = p /\ t.left[p] # n THEN c ELSE t.right[m]
      /\ \A m \in Nodes : r.parent[m] = IF m = c THEN p ELSE t.parent[m]
    BY DEF Removed
<1>7. \A m, k \in Nodes : H(m) /\ (t.left[m] = k \/ t.right[m] = k) => t.parent[k] = m /\ H(k)
    BY DEF Linked, LinkedAt, Belongs
<1> HIDE DEF c, p, Links
<1>8. \A m \in Nodes : H2(m) <=> H(m) /\ m # n
  <2>1. ~H2(n)
    BY <1>1, <1>2, <1>3, <1>4, <1>5, <1>6 DEF Belongs, p
  <2>2. c # Nil => H2(c) /\ c # n
    BY <1>1, <1>2, <1>4, <1>6 DEF Belongs
  <2>3. ASSUME NEW m \in Nodes, m # n, m # c
        PROVE  H2(m) <=> H(m)
    <3>1. r.parent[m] = t.parent[m]
        BY <2>3, <1>6
    <3>2. r.root = m <=> t.root = m
        BY <2>3, <1>5, <1>6
    <3>3. t.parent[m] # Nil => ((r.left[t.parent[m]] = m \/ r.right[t.parent[m]] = m)
                          <=> (t.left[t.parent[m]] = m \/ t.right[t.parent[m]] = m))
        BY <2>3, <1>4, <1>6 DEF Links
    <3> QED BY <3>1, <3>2, <3>3 DEF Belongs
  <2> QED BY <1>1, <2>1, <2>2, <2>3
<1>9. r.root # Nil => r.parent[r.root] = Nil
    BY <1>1, <1>3, <1>5, <1>6 DEF Linked
<1>10. ASSUME NEW m \in Nodes, H(m), m # n
       PROVE  LinkedAt(r, m)
  <2>1. LinkedAt(t, m)
    BY <1>10 DEF Linked
  <2>2. r.left[m] # Nil => r.parent[r.left[m]] = m
    BY <1>1, <1>3, <1>4, <1>6, <1>7, <2>1, <1>10 DEF LinkedAt, Links
  <2>3. r.right[m] # Nil => r.parent[r.right[m]] = m
    BY <1>1, <1>3, <1>4, <1>6, <1>7, <2>1, <1>10 DEF LinkedAt, Links
  <2>4. r.left[m] = r.right[m] => r.left[m] = Nil
    BY <1>1, <1>2, <1>3, <1>4, <1>6, <1>7, <2>1, <1>10
       DEF LinkedAt, c, p, Links
  <2>5. r.parent[m] # Nil => H(r.parent[m]) /\ r.parent[m] # n /\ r.parent[m] \in Nodes
    <3>1. CASE m = c
        BY <3>1, <1>2, <1>4, <1>6
    <3>2. CASE m # c
        <4>1. r.parent[m] = t.parent[m]
            BY <3>2, <1>6
        <4>2. t.parent[m] = n => FALSE
            BY <3>2, <1>10, <1>5 DEF Belongs, c, Linked
        <4> QED BY <4>1, <4>2, <2>1 DEF LinkedAt, Links
    <3> QED BY <3>1, <3>2
  <2> QED BY <2>2, <2>3, <2>4, <2>5, <1>8 DEF LinkedAt
<1>11. NoCycle(r)
  <2>1. SUFFICES ASSUME NEW S \in SUBSET Nodes,
                        \A m \in S : H2(m) /\ r.parent[m] \in S
                 PROVE  S = {}
    BY DEF NoCycle
  <2>2. CASE c \in S
    <3>1. p \in S
        BY <1>6, <2>1, <2>2
    <3>2. \A m \in S \cup {n} : H(m) /\ t.parent[m] \in S \cup {n}
        BY <1>1, <1>6, <1>8, <2>1, <3>1 DEF p
    <3>3. S \cup {n} = {}
        BY <3>2 DEF Linked, NoCycle
    <3> QED BY <3>3
  <2>3. CASE c \notin S
    <3>1. \A m \in S : H(m) /\ t.parent[m] \in S
        BY <1>6, <1>8, <2>1, <2>3
    <3> QED BY <3>1 DEF Linked, NoCycle
  <2> QED BY <2>2, <2>3
<1> QED BY <1>8, <1>9, <1>10, <1>11 DEF Linked

-----------------------------------------------------------------------------
(* The order of the keys *)

\* A node that is about to be taken out, z, has room for no key.
Room(z, n) == IF n = z THEN 0 ELSE 1

\* The keys below n are from lo[n] to hi[n], those on the left before and those
\* on the right after w[n], its own.
InPlace(t, w, z, lo, hi, n) ==
    /\ w[n] \in Int /\ lo[n] <= w[n] /\ w[n] + Room(z, n) <= hi[n]
    /\ t.left[n] # Nil => lo[n] <= lo[t.left[n]] /\ hi[t.left[n]] <= w[n]
    /\ t.right[n] # Nil => /\ w[n] + Room(z, n) <= lo[t.right[n]]
                           /\ hi[t.right[n]] <= hi[n]

Sorted(t, w, z, lo, hi) ==
    /\ lo \in [Nodes -> Int] /\ hi \in [Nodes -> Int]
    /\ \A n \in Nodes : Belongs(t, n) => InPlace(t, w, z, lo, hi, n)

Ordered(t, w, z) == \E lo, hi : Sorted(t, w, z, lo, hi)

\* A node of the tree, its right child and its parent are three nodes.
LEMMA Apart ==
    ASSUME NEW t \in Tree, NEW n \in Nodes,
           Linked(t), Belongs(t, n), t.right[n] # Nil
    PROVE  LET c == t.right[n]
               p == t.parent[n]
           IN  /\ c \in Nodes /\ c # n /\ c # p /\ p # n
               /\ t.left[c] # n /\ t.left[c] # c
               /\ p # Nil => (t.left[p] = n <=> t.right[p] # n)
<1> DEFINE c == t.right[n]
           p == t.parent[n]
<1>0. t.left \in Links /\ t.right \in Links /\ t.parent \in Links
    BY Fields
<1> USE TreeAssumption, <1>0 DEF NodeOrNil, Links
<1>1. c \in Nodes /\ t.parent[c] = n /\ Belongs(t, c)
    BY DEF Linked, LinkedAt, Belongs
<1>2. p # n
  <2>1. SUFFICES ASSUME n = p PROVE FALSE
    OBVIOUS
  <2>2. {n} \in SUBSET Nodes /\ \A m \in {n} : Belongs(t, m) /\ t.parent[m] \in {n}
    BY <2>1
  <2> QED BY <2>2 DEF Linked, NoCycle
<1>3. c # p
  <2>1. SUFFICES ASSUME c = p PROVE FALSE
    OBVIOUS
  <2>2. /\ {n, c} \in SUBSET Nodes
        /\ \A m \in {n, c} : Belongs(t, m) /\ t.parent[m] \in {n, c}
    BY <1>1, <2>1
  <2> QED BY <2>2 DEF Linked, NoCycle
<1>4. p # Nil => (t.left[p] = n <=> t.right[p] # n)
    BY DEF Linked, LinkedAt, Belongs
<1>5. t.left[c] # n /\ t.left[c] # c
    BY <1>1, <1>2, <1>3 DEF Linked, LinkedAt
<1> QED BY <1>1, <1>2, <1>3, <1>4, <1>5

\* The links of the nodes a rotation to the left is about.
LEMMA TurnedLinks ==
    ASSUME NEW t \in Tree, NEW n \in Nodes, NEW r \in Tree,
           Linked(t), Belongs(t, n), t.right[n] # Nil, Turned(t, n, r)
    PROVE  LET c == t.right[n]
               p == t.parent[n]
               i == t.left[c]
           IN  /\ c \in Nodes /\ Belongs(t, c) /\ c # n
               /\ i # Nil => i \in Nodes /\ i # n /\ i # c
               /\ t.left[n] # n /\ t.left[n] # c /\ t.right[c] # n /\ t.right[c] # c
               /\ r.left[n] = t.left[n] /\ r.right[n] = i
               /\ r.left[c] = n /\ r.right[c] = t.right[c]
               /\ \A m \in Nodes : m # n /\ m # c /\ Belongs(t, m) =>
                     /\ r.left[m] = IF t.left[m] = n THEN c ELSE t.left[m]
                     /\ r.right[m] = IF t.right[m] = n THEN c ELSE t.right[m]
                     /\ t.left[m] # c /\ t.right[m] # c
<1> USE TreeAssumption
<1> DEFINE c == t.right[n]
           p == t.parent[n]
           i == t.left[c]
<1>1. /\ c \in Nodes /\ c # n /\ c # p /\ p # n
      /\ i # n /\ i # c
      /\ p # Nil => (t.left[p] = n <=> t.right[p] # n)
    BY Apart
<1>2. /\ t.left \in Links /\ t.right \in Links /\ t.parent \in Links
    BY Fields
<1>3. /\ LinkedAt(t, n) /\ t.parent[c] = n /\ Belongs(t, c) /\ LinkedAt(t, c)
    BY <1>1 DEF Linked, LinkedAt, Belongs
<1>4. /\ t.left[n] # n /\ t.left[n] # c
      /\ t.right[c] # n /\ t.right[c] # c
    BY <1>1, <1>3 DEF LinkedAt
<1>5. i # Nil => i \in Nodes
    BY <1>1, <1>2 DEF Links, NodeOrNil
<1>6. /\ r.left[n] = t.left[n] /\ r.right[n] = i
      /\ r.left[c] = n /\ r.right[c] = t.right[c]
    BY <1>1 DEF Turned
<1>7. ASSUME NEW m \in Nodes, m # n, m # c, Belongs(t, m)
      PROVE  /\ r.left[m] = IF t.left[m] = n THEN c ELSE t.left[m]
             /\ r.right[m] = IF t.right[m] = n THEN c ELSE t.right[m]
             /\ t.left[m] # c /\ t.right[m] # c
  <2>1. LinkedAt(t, m)
    BY <1>7 DEF Linked
  <2>2. /\ t.left[m] = n => p = m
        /\ t.right[m] = n => p = m
        /\ t.left[m] # c /\ t.right[m] # c
    BY <1>1, <1>3, <1>7, <2>1 DEF LinkedAt
  <2>3. p = m => (t.left[m] = n <=> t.right[m] # n)
    BY <1>1
  <2>4. /\ r.left[m] = IF m = p /\ t.left[p] = n THEN c ELSE t.left[m]
        /\ r.right[m] = IF m = p /\ t.left[p] # n THEN c ELSE t.right[m]
    BY <1>7 DEF Turned
  <2> QED BY <2>2, <2>3, <2>4
<1> QED BY <1>1, <1>3, <1>4, <1>5, <1>6, <1>7

\* A rotation changes the keys below two nodes, n and the child c that takes its
\* place, and keeps them in order.
LEMMA TurnSorts ==
    ASSUME NEW t \in Tree, NEW n \in Nodes, NEW r \in Tree,
           Linked(t), Belongs(t, n), t.right[n] # Nil, Turned(t, n, r),
           \A m \in Nodes : Belongs(r, m) => Belongs(t, m),
           NEW w, NEW z, Ordered(t, w, z)
    PROVE  Ordered(r, w, z)
<1> USE TreeAssumption
<1> DEFINE c == t.right[n]
           i == t.left[c]
<1>1. PICK lo, hi : Sorted(t, w, z, lo, hi)
    BY DEF Ordered
<1>2. /\ c \in Nodes /\ Belongs(t, c) /\ c # n
      /\ i # Nil => i \in Nodes /\ i # n /\ i # c
      /\ t.left[n] # n /\ t.left[n] # c /\ t.right[c] # n /\ t.right[c] # c
      /\ r.left[n] = t.left[n] /\ r.right[n] = i
      /\ r.left[c] = n /\ r.right[c] = t.right[c]
      /\ \A m \in Nodes : m # n /\ m # c /\ Belongs(t, m) =>
            /\ r.left[m] = IF t.left[m] = n THEN c ELSE t.left[m]
            /\ r.right[m] = IF t.right[m] = n THEN c ELSE t.right[m]
            /\ t.left[m] # c /\ t.right[m] # c
    BY TurnedLinks
<1>3. /\ lo \in [Nodes -> Int] /\ hi \in [Nodes -> Int]
      /\ \A m \in Nodes : Belongs(t, m) => InPlace(t, w, z, lo, hi, m)
      /\ t.left \in Links /\ t.right \in Links
    BY <1>1, Fields DEF Sorted
<1> DEFINE lo2 == [lo EXCEPT ![c] = lo[n]]
           hi2 == [hi EXCEPT ![n] = w[c], ![c] = hi[n]]
<1>4. /\ InPlace(t, w, z, lo, hi, n) /\ InPlace(t, w, z, lo, hi, c)
      /\ Room(z, n) \in {0, 1} /\ Room(z, c) \in {0, 1}
    BY <1>2, <1>3 DEF Room
<1>5. /\ w[n] \in Int /\ w[c] \in Int
      /\ lo[n] \in Int /\ hi[n] \in Int /\ lo[c] \in Int /\ hi[c] \in Int
    BY <1>2, <1>3, <1>4 DEF InPlace
<1>6. /\ lo2 \in [Nodes -> Int] /\ hi2 \in [Nodes -> Int]
      /\ lo2[c] = lo[n] /\ hi2[n] = w[c] /\ hi2[c] = hi[n]
      /\ \A m \in Nodes : /\ m # c => lo2[m] = lo[m]
                          /\ m # c /\ m # n => hi2[m] = hi[m]
    BY <1>2, <1>3, <1>5
<1> HIDE DEF c, i, lo2, hi2
<1>7. InPlace(r, w, z, lo2, hi2, n)
  <2>1. /\ lo[n] <= w[n] /\ w[n] + Room(z, n) <= w[c]
        /\ t.left[n] # Nil => lo[n] <= lo[t.left[n]] /\ hi[t.left[n]] <= w[n]
        /\ i # Nil => w[n] + Room(z, n) <= lo[i] /\ hi[i] <= w[c]
    BY <1>2, <1>3, <1>4, <1>5 DEF InPlace, c, i
  <2>2. t.left[n] # Nil => t.left[n] \in Nodes
    BY <1>3 DEF Links, NodeOrNil
  <2>3. /\ t.left[n] # Nil => /\ lo2[t.left[n]] = lo[t.left[n]]
                              /\ hi2[t.left[n]] = hi[t.left[n]]
        /\ i # Nil => lo2[i] = lo[i] /\ hi2[i] = hi[i]
        /\ lo2[n] = lo[n]
    BY <1>2, <1>6, <2>2
  <2> QED BY <1>2, <1>5, <1>6, <2>1, <2>3 DEF InPlace
<1>8. InPlace(r, w, z, lo2, hi2, c)
  <2>1. /\ lo[n] <= w[c] /\ w[c] + Room(z, c) <= hi[n]
        /\ t.right[c] # Nil => w[c] + Room(z, c) <= lo[t.right[c]]
                               /\ hi[t.right[c]] <= hi[n]
    <3>1. t.right[c] # Nil => t.right[c] \in Nodes
      BY <1>2, <1>3 DEF Links, NodeOrNil
    <3>2. t.right[c] # Nil => hi[t.right[c]] \in Int
      BY <1>3, <3>1
    <3> QED BY <1>2, <1>4, <1>5, <3>2 DEF InPlace, c
  <2>2. t.right[c] # Nil => t.right[c] \in Nodes
    BY <1>2, <1>3 DEF Links, NodeOrNil
  <2>3. /\ t.right[c] # Nil => /\ lo2[t.right[c]] = lo[t.right[c]]
                               /\ hi2[t.right[c]] = hi[t.right[c]]
        /\ lo2[n] = lo[n]
    BY <1>2, <1>6, <2>2
  <2> QED BY <1>2, <1>5, <1>6, <2>1, <2>3, TreeAssumption DEF InPlace
<1>9. ASSUME NEW m \in Nodes, Belongs(t, m), m # n, m # c
      PROVE  InPlace(r, w, z, lo2, hi2, m)
  <2>1. InPlace(t, w, z, lo, hi, m)
    BY <1>3, <1>9
  <2>2. /\ t.left[m] # Nil => t.left[m] \in Nodes
        /\ t.right[m] # Nil => t.right[m] \in Nodes
    BY <1>3 DEF Links, NodeOrNil
  <2>3. /\ r.left[m] = IF t.left[m] = n THEN c ELSE t.left[m]
        /\ r.right[m] = IF t.right[m] = n THEN c ELSE t.right[m]
        /\ t.left[m] # c /\ t.right[m] # c
    BY <1>2, <1>9
  <2>4. /\ lo2[m] = lo[m] /\ hi2[m] = hi[m]
        /\ r.left[m] # Nil => /\ lo2[r.left[m]] = lo[t.left[m]]
                              /\ hi2[r.left[m]] = hi[t.left[m]]
        /\ r.right[m] # Nil => /\ lo2[r.right[m]] = lo[t.right[m]]
                               /\ hi2[r.right[m]] = hi[t.right[m]]
    BY <1>2, <1>6, <1>9, <2>2, <2>3
  <2>5. /\ r.left[m] # Nil => t.left[m] # Nil
        /\ r.right[m] # Nil => t.right[m] # Nil
    BY <2>3
  <2> QED BY <2>1, <2>4, <2>5 DEF InPlace
<1>10. Sorted(r, w, z, lo2, hi2)
    BY <1>6, <1>7, <1>8, <1>9 DEF Sorted
<1> QED BY <1>10 DEF Ordered

\* Backwards, the keys are in order from right to left.
LEMMA Backwards ==
    ASSUME NEW t \in Tree, NEW w, NEW z, Ordered(t, w, z),
           NEW v, \A n \in Nodes : Belongs(t, n) => v[n] = -w[n] - Room(z, n)
    PROVE  Ordered(Mirrored(t), v, z)
<1> USE TreeAssumption
<1>1. PICK lo, hi : Sorted(t, w, z, lo, hi)
    BY DEF Ordered
<1> DEFINE r == Mirrored(t)
           from == [n \in Nodes |-> -hi[n]]
           to == [n \in Nodes |-> -lo[n]]
<1>2. /\ r.left = t.right /\ r.right = t.left
      /\ \A n : Belongs(r, n) <=> Belongs(t, n)
    BY Mirror DEF Mirrored, Tree
<1>3. /\ lo \in [Nodes -> Int] /\ hi \in [Nodes -> Int]
      /\ from \in [Nodes -> Int] /\ to \in [Nodes -> Int]
      /\ \A n \in Nodes : from[n] = -hi[n] /\ to[n] = -lo[n]
    BY <1>1 DEF Sorted
<1> HIDE DEF r, from, to
<1>4. ASSUME NEW n \in Nodes, Belongs(t, n)
      PROVE  InPlace(r, v, z, from, to, n)
  <2>1. InPlace(t, w, z, lo, hi, n) /\ Room(z, n) \in {0, 1} /\ w[n] \in Int
    BY <1>1, <1>4 DEF Sorted, Room, InPlace
  <2>2. v[n] = -w[n] - Room(z, n)
    BY <1>4
  <2>3. lo[n] \in Int /\ hi[n] \in Int /\ from[n] = -hi[n] /\ to[n] = -lo[n]
    BY <1>3
  <2>4. /\ v[n] \in Int /\ v[n] + Room(z, n) = -w[n]
        /\ from[n] <= v[n] /\ v[n] + Room(z, n) <= to[n]
    BY <2>1, <2>2, <2>3 DEF InPlace
  <2>5. ASSUME t.right[n] # Nil
        PROVE  from[n] <= from[t.right[n]] /\ to[t.right[n]] <= v[n]
    <3>1. t.right[n] \in Nodes
      BY <2>5, Fields DEF Links, NodeOrNil
    <3>2. /\ lo[t.right[n]] \in Int /\ hi[t.right[n]] \in Int
          /\ from[t.right[n]] = -hi[t.right[n]] /\ to[t.right[n]] = -lo[t.right[n]]
      BY <1>3, <3>1
    <3> QED BY <2>1, <2>2, <2>3, <2>5, <3>2 DEF InPlace
  <2>6. ASSUME t.left[n] # Nil
        PROVE  v[n] + Room(z, n) <= from[t.left[n]] /\ to[t.left[n]] <= to[n]
    <3>1. t.left[n] \in Nodes
      BY <2>6, Fields DEF Links, NodeOrNil
    <3>2. /\ lo[t.left[n]] \in Int /\ hi[t.left[n]] \in Int
          /\ from[t.left[n]] = -hi[t.left[n]] /\ to[t.left[n]] = -lo[t.left[n]]
      BY <1>3, <3>1
    <3> QED BY <2>1, <2>2, <2>3, <2>6, <3>2 DEF InPlace
  <2> QED BY <1>2, <2>4, <2>5, <2>6 DEF InPlace
<1>5. Sorted(r, v, z, from, to)
    BY <1>2, <1>3, <1>4 DEF Sorted
<1> QED BY <1>5 DEF Ordered, r

\* A tree that has the order of another, whatever its keys.
SameOrder(t, r) == \A w, z : Ordered(t, w, z) => Ordered(r, w, z)

\* So does a tree whose image is ordered like that of the other.
LEMMA OrderMirrored ==
    ASSUME NEW t \in Tree, NEW r \in Tree, SameOrder(Mirrored(t), Mirrored(r)),
           \A m \in Nodes : Belongs(r, m) => Belongs(t, m)
    PROVE  SameOrder(t, r)
<1> SUFFICES ASSUME NEW w, NEW z, Ordered(t, w, z) PROVE Ordered(r, w, z)
    BY DEF SameOrder
<1> DEFINE v == [n \in Nodes |-> -w[n] - Room(z, n)]
<1>1. \A n \in Nodes : v[n] = -w[n] - Room(z, n)
    OBVIOUS
<1> HIDE DEF v
<1>2. Ordered(Mirrored(t), v, z)
    BY <1>1, Backwards
<1>3. Ordered(Mirrored(r), v, z)
    BY <1>2 DEF SameOrder
<1>4. /\ Mirrored(r) \in Tree /\ \A n : Belongs(Mirrored(r), n) <=> Belongs(r, n)
      /\ Mirrored(Mirrored(r)) = r
    BY Mirror DEF Mirrored, Tree
<1>5. ASSUME NEW n \in Nodes, Belongs(r, n)
      PROVE  w[n] = -v[n] - Room(z, n)
  <2>1. w[n] \in Int
    BY <1>5 DEF Ordered, Sorted, InPlace
  <2>2. Room(z, n) \in {0, 1}
    BY DEF Room
  <2> QED BY <1>1, <2>1, <2>2
<1>6. Ordered(Mirrored(Mirrored(r)), w, z)
    BY ONLY <1>3, <1>4, <1>5, Backwards
<1> QED BY <1>4, <1>6

\* n, a leaf, is hung below p, before or after its key; p is Nil if there is no
\* tree.
Grew(t, n, p, before, r) ==
    /\ \A m \in Nodes : Belongs(r, m) <=> Belongs(t, m) \/ m = n
    /\ \A m \in Nodes : r.left[m] = IF m = n THEN Nil
                                 ELSE IF m = p /\ before THEN n ELSE t.left[m]
    /\ \A m \in Nodes : r.right[m] = IF m = n THEN Nil
                                  ELSE IF m = p /\ ~before THEN n ELSE t.right[m]

\* A leaf is in order if W, the nodes that lead to it, have its key on the side
\* they lead to.
LEMMA GrowSorts ==
    ASSUME NEW t \in Tree, Linked(t), NEW n \in Nodes, ~Belongs(t, n),
           NEW p, NEW before \in BOOLEAN, NEW r, Grew(t, n, p, before, r),
           NEW w, Ordered(t, w, Nil), w[n] \in Int,
           NEW W,
           \A m \in Nodes : Belongs(t, m) =>
              /\ t.left[m] # Nil /\ t.left[m] \in W => m \in W /\ w[n] < w[m]
              /\ t.right[m] # Nil /\ t.right[m] \in W => m \in W /\ w[m] < w[n],
           p \in Nodes => /\ p \in W /\ Belongs(t, p)
                          /\ before => w[n] < w[p] /\ t.left[p] = Nil
                          /\ ~before => w[p] < w[n] /\ t.right[p] = Nil
    PROVE  Ordered(r, w, Nil)
<1> USE TreeAssumption
<1>1. PICK lo, hi : Sorted(t, w, Nil, lo, hi)
    BY DEF Ordered
<1> DEFINE k == w[n]
           from == [m \in Nodes |-> IF m = n \/ (m \in W /\ k < lo[m])
                                      THEN k ELSE lo[m]]
           to == [m \in Nodes |-> IF m = n \/ (m \in W /\ hi[m] < k + 1)
                                    THEN k + 1 ELSE hi[m]]
<1>2. /\ lo \in [Nodes -> Int] /\ hi \in [Nodes -> Int] /\ k \in Int
      /\ \A m \in Nodes : Belongs(t, m) => InPlace(t, w, Nil, lo, hi, m)
    BY <1>1 DEF Sorted
<1>3. /\ from \in [Nodes -> Int] /\ to \in [Nodes -> Int]
      /\ from[n] = k /\ to[n] = k + 1
    BY <1>2
<1>4. ASSUME NEW m \in Nodes, m # n
      PROVE  /\ from[m] <= lo[m] /\ hi[m] <= to[m]
             /\ m \notin W => from[m] = lo[m] /\ to[m] = hi[m]
             /\ m \in W => /\ from[m] <= k /\ k + 1 <= to[m]
                           /\ from[m] = lo[m] \/ from[m] = k
                           /\ to[m] = hi[m] \/ to[m] = k + 1
    BY <1>2, <1>4
<1> HIDE DEF from, to, k
<1>5. ASSUME NEW m \in Nodes, Belongs(t, m)
      PROVE  InPlace(r, w, Nil, from, to, m)
  <2>1. /\ m # n /\ Room(Nil, m) = 1
        /\ InPlace(t, w, Nil, lo, hi, m) /\ LinkedAt(t, m)
        /\ lo[m] \in Int /\ hi[m] \in Int /\ from[m] \in Int /\ to[m] \in Int
    BY <1>2, <1>3, <1>5 DEF Room, Linked
  <2>2. /\ w[m] \in Int /\ lo[m] <= w[m] /\ w[m] + 1 <= hi[m]
        /\ from[m] <= lo[m] /\ hi[m] <= to[m]
        /\ m \in W => from[m] <= k /\ k + 1 <= to[m]
    BY <1>4, <2>1 DEF InPlace
  <2>3. /\ w[m] \in Int /\ from[m] <= w[m] /\ w[m] + 1 <= to[m]
    BY <2>1, <2>2
  <2>4. ASSUME r.left[m] # Nil
        PROVE  from[m] <= from[r.left[m]] /\ to[r.left[m]] <= w[m]
    <3>1. CASE m = p /\ before
      <4>1. r.left[m] = n /\ m \in W /\ k < w[m]
        BY <2>1, <3>1 DEF Grew, k
      <4> QED BY <1>2, <1>3, <2>2, <4>1
    <3>2. CASE ~(m = p /\ before)
      <4> DEFINE c == t.left[m]
      <4>1. r.left[m] = c /\ c # Nil
        BY <2>1, <2>4, <3>2 DEF Grew
      <4>2. c \in Nodes /\ c # n
        BY <1>5, <2>1, <4>1, Fields DEF LinkedAt, Belongs, Links, NodeOrNil
      <4>3. /\ c \in W => m \in W /\ k < w[m]
            /\ lo[m] <= lo[c] /\ hi[c] <= w[m]
            /\ lo[c] \in Int /\ hi[c] \in Int /\ from[c] \in Int /\ to[c] \in Int
        BY <1>2, <1>3, <1>5, <2>1, <4>1, <4>2 DEF InPlace, k
      <4>4. /\ c \notin W => from[c] = lo[c] /\ to[c] = hi[c]
            /\ c \in W => /\ from[c] = lo[c] \/ from[c] = k
                          /\ to[c] = hi[c] \/ to[c] = k + 1
        BY <1>4, <4>2
      <4> HIDE DEF c
      <4>5. from[m] <= from[c] /\ to[c] <= w[m]
        BY <1>2, <2>1, <2>2, <4>3, <4>4
      <4> QED BY <4>1, <4>5
    <3> QED BY <3>1, <3>2
  <2>5. ASSUME r.right[m] # Nil
        PROVE  w[m] + 1 <= from[r.right[m]] /\ to[r.right[m]] <= to[m]
    <3>1. CASE m = p /\ ~before
      <4>1. r.right[m] = n /\ m \in W /\ w[m] < k
        BY <2>1, <3>1 DEF Grew, k
      <4> QED BY <1>2, <1>3, <2>2, <4>1
    <3>2. CASE ~(m = p /\ ~before)
      <4> DEFINE c == t.right[m]
      <4>1. r.right[m] = c /\ c # Nil
        BY <2>1, <2>5, <3>2 DEF Grew
      <4>2. c \in Nodes /\ c # n
        BY <1>5, <2>1, <4>1, Fields DEF LinkedAt, Belongs, Links, NodeOrNil
      <4>3. /\ c \in W => m \in W /\ w[m] < k
            /\ w[m] + 1 <= lo[c] /\ hi[c] <= hi[m]
            /\ lo[c] \in Int /\ hi[c] \in Int /\ from[c] \in Int /\ to[c] \in Int
        BY <1>2, <1>3, <1>5, <2>1, <4>1, <4>2 DEF InPlace, k
      <4>4. /\ c \notin W => from[c] = lo[c] /\ to[c] = hi[c]
            /\ c \in W => /\ from[c] = lo[c] \/ from[c] = k
                          /\ to[c] = hi[c] \/ to[c] = k + 1
        BY <1>4, <4>2
      <4> HIDE DEF c
      <4>5. w[m] + 1 <= from[c] /\ to[c] <= to[m]
        BY <1>2, <2>1, <2>2, <4>3, <4>4
      <4> QED BY <4>1, <4>5
    <3> QED BY <3>1, <3>2
  <2> QED BY <2>1, <2>3, <2>4, <2>5 DEF InPlace
<1>6. InPlace(r, w, Nil, from, to, n)
  <2>1. r.left[n] = Nil /\ r.right[n] = Nil /\ Room(Nil, n) = 1
    BY DEF Grew, Room
  <2> QED BY <1>2, <1>3, <2>1 DEF InPlace, k
<1>7. Sorted(r, w, Nil, from, to)
    BY <1>3, <1>5, <1>6 DEF Sorted, Grew
<1> QED BY <1>7 DEF Ordered

\* n is taken out, and its only child c comes up.
Cut(t, n, c, r) ==
    LET p == t.parent[n]
    IN  /\ \A m \in Nodes : Belongs(r, m) <=> Belongs(t, m) /\ m # n
        /\ \A m \in Nodes : r.left[m] =
               IF m = p /\ t.left[p] = n THEN c ELSE t.left[m]
        /\ \A m \in Nodes : r.right[m] =
               IF m = p /\ t.left[p] # n THEN c ELSE t.right[m]

LEMMA CutSorts ==
    ASSUME NEW t \in Tree, Linked(t), NEW n \in Nodes, Belongs(t, n),
           NEW c, c = IF t.left[n] # Nil THEN t.left[n] ELSE t.right[n],
           NEW r, Cut(t, n, c, r),
           NEW w, Ordered(t, w, n)
    PROVE  Ordered(r, w, Nil)
<1> USE TreeAssumption
<1> DEFINE p == t.parent[n]
<1>1. PICK lo, hi : Sorted(t, w, n, lo, hi)
    BY DEF Ordered
<1>2. /\ lo \in [Nodes -> Int] /\ hi \in [Nodes -> Int]
      /\ \A m \in Nodes : Belongs(t, m) => InPlace(t, w, n, lo, hi, m)
    BY <1>1 DEF Sorted
<1>3. InPlace(t, w, n, lo, hi, n) /\ Room(n, n) = 0 /\ lo[n] \in Int /\ hi[n] \in Int
    BY <1>2 DEF Room
<1>4. ASSUME c # Nil PROVE lo[n] <= lo[c] /\ hi[c] <= hi[n] /\ lo[c] \in Int /\ hi[c] \in Int
  <2>1. c \in Nodes
    BY <1>4, Fields DEF Links, NodeOrNil
  <2>2. lo[c] \in Int /\ hi[c] \in Int
    BY <1>2, <2>1
  <2> QED BY <1>3, <1>4, <2>2 DEF InPlace
<1>5. ASSUME NEW m \in Nodes, Belongs(r, m)
      PROVE  InPlace(r, w, Nil, lo, hi, m)
  <2>1. /\ Belongs(t, m) /\ m # n /\ Room(n, m) = 1 /\ Room(Nil, m) = 1
        /\ InPlace(t, w, n, lo, hi, m)
        /\ lo[m] \in Int /\ hi[m] \in Int /\ w[m] \in Int
    BY <1>2, <1>5 DEF Cut, Room, InPlace
  <2>2. w[m] \in Int /\ lo[m] <= w[m] /\ w[m] + 1 <= hi[m]
    BY <2>1 DEF InPlace
  <2>3. m = p => t.left[m] = n \/ t.right[m] = n
    BY <2>1 DEF Belongs, Linked
  <2>4. ASSUME r.left[m] # Nil
        PROVE  lo[m] <= lo[r.left[m]] /\ hi[r.left[m]] <= w[m]
    <3>1. CASE m = p /\ t.left[p] = n
      <4>1. r.left[m] = c /\ t.left[m] = n /\ c # Nil
        BY <2>4, <3>1 DEF Cut
      <4>2. lo[m] <= lo[n] /\ hi[n] <= w[m]
        BY <2>1, <4>1 DEF InPlace
      <4> QED BY <1>3, <1>4, <2>1, <4>1, <4>2
    <3>2. CASE ~(m = p /\ t.left[p] = n)
      <4>1. r.left[m] = t.left[m]
        BY <3>2 DEF Cut
      <4> QED BY <2>1, <2>4, <4>1 DEF InPlace
    <3> QED BY <3>1, <3>2
  <2>5. ASSUME r.right[m] # Nil
        PROVE  w[m] + 1 <= lo[r.right[m]] /\ hi[r.right[m]] <= hi[m]
    <3>1. CASE m = p /\ t.left[p] # n
      <4>1. r.right[m] = c /\ t.right[m] = n /\ c # Nil
        BY <2>3, <2>5, <3>1 DEF Cut
      <4>2. w[m] + 1 <= lo[n] /\ hi[n] <= hi[m]
        BY <2>1, <4>1 DEF InPlace
      <4> QED BY <1>3, <1>4, <2>1, <4>1, <4>2
    <3>2. CASE ~(m = p /\ t.left[p] # n)
      <4>1. r.right[m] = t.right[m]
        BY <3>2 DEF Cut
      <4> QED BY <2>1, <2>5, <4>1 DEF InPlace
    <3> QED BY <3>1, <3>2
  <2> QED BY <2>1, <2>2, <2>4, <2>5 DEF InPlace
<1>6. Sorted(r, w, Nil, lo, hi)
    BY <1>2, <1>5 DEF Sorted
<1> QED BY <1>6 DEF Ordered

\* A node that leaves gives up its room.
LEMMA LeavingSorts ==
    ASSUME NEW t \in Tree, NEW w, Ordered(t, w, Nil), NEW z
    PROVE  Ordered(t, w, z)
<1>1. PICK lo, hi : Sorted(t, w, Nil, lo, hi)
    BY DEF Ordered
<1>2. ASSUME NEW m \in Nodes, Belongs(t, m)
      PROVE  InPlace(t, w, z, lo, hi, m)
  <2>1. /\ InPlace(t, w, Nil, lo, hi, m) /\ Room(Nil, m) = 1 /\ Room(z, m) \in {0, 1}
        /\ lo[m] \in Int /\ hi[m] \in Int /\ w[m] \in Int
    BY <1>1, <1>2, TreeAssumption DEF Sorted, Room, InPlace
  <2>2. t.right[m] # Nil => lo[t.right[m]] \in Int
    <3>1. t.right[m] # Nil => t.right[m] \in Nodes
      BY Fields DEF Links, NodeOrNil
    <3> QED BY <1>1, <3>1 DEF Sorted
  <2> QED BY <2>1, <2>2 DEF InPlace
<1>3. Sorted(t, w, z, lo, hi)
    BY <1>1, <1>2 DEF Sorted
<1> QED BY <1>3 DEF Ordered

\* S is the way from n's right child to c that goes always to the left.
Leftward(t, n, c, S) ==
    /\ S \in SUBSET Nodes /\ c \in S /\ n \notin S /\ t.right[n] \in S
    /\ \A m \in S : Belongs(t, m)
    /\ \A m \in Nodes : Belongs(t, m) =>
          /\ t.right[m] \in S => m = n
          /\ t.left[m] \in S <=> m \in S /\ m # c

\* The keys below c are the first of those after n's.
Following(t, w, n, c) ==
    \E lo, hi, S :
       /\ Sorted(t, w, Nil, lo, hi) /\ Leftward(t, n, c, S)
       /\ w[n] + 1 <= lo[c] /\ hi[c] <= hi[n]
       /\ \A m \in S : m # c => hi[c] <= w[m]

LEMMA FollowingBegins ==
    ASSUME NEW t \in Tree, Linked(t), NEW w, Ordered(t, w, Nil),
           NEW n \in Nodes, Belongs(t, n), t.right[n] # Nil
    PROVE  Following(t, w, n, t.right[n])
<1> USE TreeAssumption
<1> DEFINE c == t.right[n]
<1>1. PICK lo, hi : Sorted(t, w, Nil, lo, hi)
    BY DEF Ordered
<1>2. c \in Nodes /\ c # n /\ Belongs(t, c) /\ LinkedAt(t, n) /\ t.parent[c] = n
    BY Apart DEF Linked, LinkedAt, Belongs
<1>3. Leftward(t, n, c, {c})
  <2>1. ASSUME NEW m \in Nodes, Belongs(t, m)
        PROVE  /\ t.right[m] = c => m = n
               /\ t.left[m] # c
    <3>1. LinkedAt(t, m)
      BY <2>1 DEF Linked
    <3>2. t.left[m] = c => m = n
      BY <1>2, <3>1 DEF LinkedAt
    <3> QED BY <1>2, <3>1, <3>2 DEF LinkedAt
  <2> QED BY <1>2, <2>1 DEF Leftward
<1>4. w[n] + 1 <= lo[c] /\ hi[c] <= hi[n]
    BY <1>1 DEF Sorted, InPlace, Room
<1> QED BY <1>1, <1>3, <1>4 DEF Following

LEMMA FollowingGoesOn ==
    ASSUME NEW t \in Tree, Linked(t), NEW w, NEW n \in Nodes, Belongs(t, n),
           NEW c \in Nodes, Following(t, w, n, c), t.left[c] # Nil
    PROVE  Following(t, w, n, t.left[c])
<1> USE TreeAssumption
<1> DEFINE d == t.left[c]
<1>1. PICK lo, hi, S :
         /\ Sorted(t, w, Nil, lo, hi) /\ Leftward(t, n, c, S)
         /\ w[n] + 1 <= lo[c] /\ hi[c] <= hi[n]
         /\ \A m \in S : m # c => hi[c] <= w[m]
    BY DEF Following
<1>2. /\ Belongs(t, c) /\ LinkedAt(t, c) /\ c \in S /\ d \notin S
      /\ d \in Nodes /\ Belongs(t, d) /\ t.parent[d] = c
    BY <1>1, Fields DEF Leftward, Linked, LinkedAt, Belongs, Links, NodeOrNil
<1>3. /\ InPlace(t, w, Nil, lo, hi, c) /\ InPlace(t, w, Nil, lo, hi, n)
      /\ \A m \in S : w[m] \in Int
      /\ \A m \in Nodes : lo[m] \in Int /\ hi[m] \in Int
      /\ Room(Nil, c) = 1 /\ w[n] \in Int /\ w[c] \in Int
    BY <1>1, <1>2 DEF Sorted, Room, InPlace, Leftward
<1>4. /\ lo[c] <= lo[d] /\ hi[d] <= w[c] /\ w[c] + 1 <= hi[c] /\ lo[n] <= w[n]
    BY <1>3 DEF InPlace
<1>5. d # n /\ w[n] + 1 <= lo[d] /\ hi[d] <= hi[n] /\ hi[d] <= hi[c]
    BY <1>1, <1>2, <1>3, <1>4
<1>6. Leftward(t, n, d, S \cup {d})
  <2>1. ASSUME NEW m \in Nodes, Belongs(t, m)
        PROVE  /\ t.right[m] # d
               /\ t.left[m] = d => m = c
               /\ t.right[m] \in S => m = n
               /\ t.left[m] \in S <=> m \in S /\ m # c
    <3>1. LinkedAt(t, m)
      BY <2>1 DEF Linked
    <3>2. t.right[m] = d => m = c
      BY <1>2, <3>1 DEF LinkedAt
    <3> QED BY <1>1, <1>2, <2>1, <3>1, <3>2 DEF LinkedAt, Leftward
  <2> HIDE DEF d
  <2>2. ASSUME NEW m \in Nodes, Belongs(t, m)
        PROVE  /\ t.right[m] \in S \cup {d} => m = n
               /\ t.left[m] \in S \cup {d} <=> m \in S \cup {d} /\ m # d
    BY <1>2, <2>1, <2>2 DEF d
  <2> QED BY <1>1, <1>2, <1>5, <2>2 DEF Leftward
<1>7. ASSUME NEW m \in S \cup {d}, m # d PROVE hi[d] <= w[m]
  <2>1. CASE m = c
    BY <1>4, <2>1
  <2>2. CASE m # c
    BY <1>1, <1>2, <1>3, <1>5, <1>7, <2>2
  <2> QED BY <2>1, <2>2
<1> HIDE DEF d
<1>8. Following(t, w, n, d)
    BY <1>1, <1>5, <1>6, <1>7 DEF Following
<1> QED BY <1>8 DEF d

\* n takes the key of the node c that follows it, and c leaves.
LEMMA SwapSorts ==
    ASSUME NEW t \in Tree, Linked(t), NEW w, NEW n \in Nodes, Belongs(t, n),
           NEW c \in Nodes, Following(t, w, n, c), t.left[c] = Nil,
           NEW v, v[n] = w[c], v[c] = w[c] + 1,
           \A m \in Nodes : m # n /\ m # c => v[m] = w[m]
    PROVE  Ordered(t, v, c)
<1> USE TreeAssumption
<1>1. PICK lo, hi, S :
         /\ Sorted(t, w, Nil, lo, hi) /\ Leftward(t, n, c, S)
         /\ w[n] + 1 <= lo[c] /\ hi[c] <= hi[n]
         /\ \A m \in S : m # c => hi[c] <= w[m]
    BY DEF Following
<1> DEFINE k == w[c]
           from == [m \in Nodes |-> IF m \in S THEN k + 1 ELSE lo[m]]
<1>2. /\ lo \in [Nodes -> Int] /\ hi \in [Nodes -> Int]
      /\ \A m \in Nodes : Belongs(t, m) => InPlace(t, w, Nil, lo, hi, m)
      /\ \A m \in Nodes : Belongs(t, m) => w[m] \in Int
      /\ Belongs(t, c) /\ c \in S /\ n \notin S /\ S \in SUBSET Nodes
    BY <1>1 DEF Sorted, Leftward, InPlace
<1>3. /\ k \in Int /\ w[n] \in Int /\ lo[c] <= k /\ k + 1 <= hi[c]
      /\ lo[n] \in Int /\ hi[n] \in Int /\ lo[c] \in Int /\ hi[c] \in Int
      /\ lo[n] <= w[n]
    BY <1>2 DEF InPlace, Room
<1>4. /\ from \in [Nodes -> Int]
      /\ \A m \in Nodes : from[m] = IF m \in S THEN k + 1 ELSE lo[m]
    BY <1>2, <1>3
<1> HIDE DEF from
<1>5. /\ w[n] + 1 <= k /\ k + 1 <= hi[n]
      /\ \A m \in S : m # c => k + 1 <= w[m] /\ w[m] \in Int
  <2>1. \A m \in S : w[m] \in Int
    BY <1>1, <1>2 DEF Leftward
  <2> QED BY <1>1, <1>3, <2>1
<1>6. ASSUME NEW m \in Nodes, Belongs(t, m)
      PROVE  /\ InPlace(t, w, Nil, lo, hi, m) /\ Room(Nil, m) = 1
             /\ lo[m] \in Int /\ hi[m] \in Int /\ w[m] \in Int
             /\ t.right[m] \in S => m = n
             /\ t.left[m] \in S <=> m \in S /\ m # c
             /\ t.left[m] # Nil => /\ t.left[m] \in Nodes
                                   /\ lo[t.left[m]] \in Int /\ hi[t.left[m]] \in Int
             /\ t.right[m] # Nil => /\ t.right[m] \in Nodes
                                    /\ lo[t.right[m]] \in Int /\ hi[t.right[m]] \in Int
  <2>1. /\ t.left[m] # Nil => t.left[m] \in Nodes
        /\ t.right[m] # Nil => t.right[m] \in Nodes
    BY Fields DEF Links, NodeOrNil
  <2> QED BY <1>1, <1>2, <1>6, <2>1 DEF Leftward, Room
<1> HIDE DEF k
<1>7. InPlace(t, v, c, from, hi, n)
  <2>1. /\ Room(c, n) = 1 /\ v[n] = k /\ from[n] = lo[n]
    BY <1>2, <1>4 DEF Room, k
  <2>2. ASSUME t.left[n] # Nil
        PROVE  from[n] <= from[t.left[n]] /\ hi[t.left[n]] <= k
    <3>1. /\ from[t.left[n]] = lo[t.left[n]]
          /\ lo[n] <= lo[t.left[n]] /\ hi[t.left[n]] <= w[n]
      BY <1>2, <1>4, <1>6, <2>2 DEF InPlace
    <3> QED BY <1>3, <1>5, <1>6, <2>1, <2>2, <3>1
  <2>3. ASSUME t.right[n] # Nil
        PROVE  k + 1 <= from[t.right[n]] /\ hi[t.right[n]] <= hi[n]
    <3>1. t.right[n] \in S
      BY <1>1 DEF Leftward
    <3>2. from[t.right[n]] = k + 1 /\ hi[t.right[n]] <= hi[n]
      BY <1>4, <1>6, <2>3, <3>1 DEF InPlace
    <3> QED BY <1>3, <3>2
  <2>4. from[n] <= k
    BY <1>3, <1>5, <2>1
  <2> QED BY <1>3, <1>5, <2>1, <2>2, <2>3, <2>4 DEF InPlace
<1>8. InPlace(t, v, c, from, hi, c)
  <2>1. Room(c, c) = 0 /\ v[c] = k + 1 /\ from[c] = k + 1
    BY <1>2, <1>4 DEF Room, k
  <2>2. ASSUME t.right[c] # Nil
        PROVE  k + 1 <= from[t.right[c]] /\ hi[t.right[c]] <= hi[c]
    <3>1. from[t.right[c]] = lo[t.right[c]]
      BY <1>2, <1>4, <1>6, <2>2
    <3> QED BY <1>2, <1>6, <2>2, <3>1 DEF InPlace, k
  <2> QED BY <1>3, <2>1, <2>2 DEF InPlace
<1>9. ASSUME NEW m \in Nodes, Belongs(t, m), m # n, m # c
      PROVE  InPlace(t, v, c, from, hi, m)
  <2>1. v[m] = w[m] /\ Room(c, m) = 1
    BY <1>9 DEF Room
  <2>2. /\ lo[m] <= w[m] /\ w[m] + 1 <= hi[m]
        /\ t.left[m] # Nil => lo[m] <= lo[t.left[m]] /\ hi[t.left[m]] <= w[m]
        /\ t.right[m] # Nil => w[m] + 1 <= lo[t.right[m]] /\ hi[t.right[m]] <= hi[m]
    BY <1>6, <1>9 DEF InPlace
  <2>3. from[m] <= w[m]
    BY <1>4, <1>5, <1>9, <2>2
  <2>4. t.left[m] # Nil => from[m] <= from[t.left[m]]
    <3>1. t.left[m] # Nil => from[t.left[m]] = IF m \in S THEN k + 1 ELSE lo[t.left[m]]
      BY <1>4, <1>6, <1>9
    <3> QED BY <1>3, <1>4, <1>9, <2>2, <3>1
  <2>5. t.right[m] # Nil => from[t.right[m]] = lo[t.right[m]]
    BY <1>4, <1>6, <1>9
  <2> QED BY <1>6, <1>9, <2>1, <2>2, <2>3, <2>4, <2>5 DEF InPlace
<1>10. Sorted(t, v, c, from, hi)
    BY <1>2, <1>4, <1>7, <1>8, <1>9 DEF Sorted
<1> QED BY <1>10 DEF Ordered

-----------------------------------------------------------------------------
(* The operators of RbTree *)

SameNodes(t, r) == /\ \A m \in Nodes : Belongs(r, m) <=> Belongs(t, m)
                   /\ SameOrder(t, r)

LEMMA Through ==
    ASSUME NEW t, NEW u, NEW r, SameNodes(t, u), SameNodes(u, r)
    PROVE  SameNodes(t, r)
<1>1. \A m \in Nodes : Belongs(r, m) <=> Belongs(t, m)
    BY DEF SameNodes
<1>2. SameOrder(t, r)
    BY DEF SameNodes, SameOrder
<1> QED BY <1>1, <1>2 DEF SameNodes

\* Colours are no links.
LEMMA Colours ==
    ASSUME NEW t \in Tree, NEW n \in Nodes, NEW c \in {"RED", "BLACK"},
           NEW r, r = Paint(t, n, c)
    PROVE  /\ r \in Tree
           /\ r.root = t.root /\ r.left = t.left
           /\ r.right = t.right /\ r.parent = t.parent
           /\ r.count = t.count
           /\ Linked(r) <=> Linked(t)
           /\ \A m : Belongs(r, m) <=> Belongs(t, m)
           /\ SameOrder(t, r)
<1>1. /\ r \in Tree
      /\ r.root = t.root /\ r.left = t.left
      /\ r.right = t.right /\ r.parent = t.parent
      /\ r.count = t.count
    BY DEF Tree, Paint
<1>2. \A m : Belongs(r, m) <=> Belongs(t, m)
    BY <1>1 DEF Belongs
<1>3. Linked(r) <=> Linked(t)
    BY <1>1, <1>2 DEF Linked, LinkedAt, NoCycle
<1>4. ASSUME NEW w, NEW z, Ordered(t, w, z) PROVE Ordered(r, w, z)
  <2>1. PICK lo, hi : Sorted(t, w, z, lo, hi)
    BY <1>4 DEF Ordered
  <2>2. \A n0 \in Nodes : InPlace(r, w, z, lo, hi, n0) <=> InPlace(t, w, z, lo, hi, n0)
    BY ONLY <1>1 DEF InPlace
  <2>3. Sorted(r, w, z, lo, hi)
    BY ONLY <1>2, <2>1, <2>2 DEF Sorted
  <2> QED BY <2>3 DEF Ordered
<1>5. SameOrder(t, r)
    BY <1>4 DEF SameOrder
<1> QED BY <1>1, <1>2, <1>3, <1>5

LEMMA RotateLeft ==
    ASSUME NEW t \in Tree, NEW n \in Nodes,
           Linked(t), Belongs(t, n), t.right[n] # Nil,
           NEW r, r = rotate_left(t, n)
    PROVE  /\ r \in Tree /\ Linked(r) /\ SameNodes(t, r) /\ r.count = t.count
           /\ Turned(t, n, r) /\ r.color = t.color
<1> DEFINE p == t.parent[n]
           c == t.right[n]
           i == t.left[c]
           h == Hang(t, p, n, c)
           g == [h EXCEPT !.right[n] = i, !.parent[n] = c,
                          !.left[c] = n, !.parent[c] = p]
<1>1. /\ c \in Nodes /\ c # n /\ c # p /\ p # n
      /\ i # n /\ i # c
      /\ p # Nil => (t.left[p] = n <=> t.right[p] # n)
    BY Apart
<1>2. p \in NodeOrNil /\ i \in NodeOrNil
    BY <1>1, Fields DEF Links
<1>3. r = Adopt(g, i, n)
    BY DEF rotate_left
<1>4. /\ h \in Tree
      /\ h.parent = t.parent /\ h.count = t.count /\ h.color = t.color
      /\ h.root = IF p = Nil THEN c ELSE t.root
      /\ \A m \in Nodes : h.left[m] =
              IF m = p /\ t.left[p] = n THEN c ELSE t.left[m]
      /\ \A m \in Nodes : h.right[m] =
              IF m = p /\ t.left[p] # n THEN c ELSE t.right[m]
    BY <1>1, <1>2, TreeAssumption DEF Hang, Tree, Links, NodeOrNil
<1> HIDE DEF h
<1>5. /\ g \in Tree
      /\ g.root = h.root /\ g.count = h.count /\ g.color = h.color
      /\ \A m \in Nodes : g.left[m] = IF m = c THEN n ELSE h.left[m]
      /\ \A m \in Nodes : g.right[m] = IF m = n THEN i ELSE h.right[m]
      /\ \A m \in Nodes : g.parent[m] =
              IF m = n THEN c ELSE IF m = c THEN p ELSE h.parent[m]
    BY <1>1, <1>2, <1>4 DEF Tree, Links, NodeOrNil
<1> HIDE DEF g
<1>6. /\ r \in Tree
      /\ r.root = g.root /\ r.left = g.left /\ r.right = g.right
      /\ r.count = g.count /\ r.color = g.color
      /\ \A m \in Nodes : r.parent[m] = IF m = i THEN n ELSE g.parent[m]
    BY <1>1, <1>2, <1>3, <1>5, TreeAssumption DEF Adopt, Tree, Links, NodeOrNil
<1>7. Turned(t, n, r)
    BY <1>1, <1>4, <1>5, <1>6 DEF Turned
<1>8. Linked(r) /\ \A m \in Nodes : Belongs(r, m) <=> Belongs(t, m)
    BY <1>6, <1>7, Rotation
<1>9. SameOrder(t, r)
    BY <1>6, <1>7, <1>8, TurnSorts DEF SameOrder
<1>10. SameNodes(t, r)
    BY <1>8, <1>9 DEF SameNodes
<1> QED BY <1>4, <1>5, <1>6, <1>7, <1>8, <1>10

LEMMA RotateRight ==
    ASSUME NEW t \in Tree, NEW n \in Nodes,
           Linked(t), Belongs(t, n), t.left[n] # Nil,
           NEW r, r = rotate_right(t, n)
    PROVE  /\ r \in Tree /\ Linked(r) /\ SameNodes(t, r) /\ r.count = t.count
           /\ Turned(Mirrored(t), n, Mirrored(r)) /\ r.color = t.color
<1> DEFINE p == t.parent[n]
           c == t.left[n]
           i == t.right[c]
           h == Hang(t, p, n, c)
           M == Mirrored(t)
           g == [h EXCEPT !.left[n] = i, !.parent[n] = c,
                          !.right[c] = n, !.parent[c] = p]
<1>0. /\ M \in Tree /\ Linked(M) /\ Belongs(M, n)
      /\ M.left = t.right /\ M.right = t.left /\ M.parent = t.parent
      /\ M.root = t.root
    BY Mirror DEF Mirrored, Tree
<1> HIDE DEF M
<1>1. /\ c \in Nodes /\ c # n /\ c # p /\ p # n
      /\ i # n /\ i # c
      /\ p # Nil => (t.right[p] = n <=> t.left[p] # n)
    BY <1>0, Apart
<1>2. p \in NodeOrNil /\ i \in NodeOrNil
    BY <1>1, Fields DEF Links
<1>3. r = Adopt(g, i, n)
    BY DEF rotate_right
<1>4. /\ h \in Tree
      /\ h.parent = t.parent /\ h.count = t.count /\ h.color = t.color
      /\ h.root = IF p = Nil THEN c ELSE t.root
      /\ \A m \in Nodes : h.right[m] =
              IF m = p /\ t.right[p] = n THEN c ELSE t.right[m]
      /\ \A m \in Nodes : h.left[m] =
              IF m = p /\ t.right[p] # n THEN c ELSE t.left[m]
    BY <1>1, <1>2, TreeAssumption DEF Hang, Tree, Links, NodeOrNil
<1> HIDE DEF h
<1>5. /\ g \in Tree
      /\ g.root = h.root /\ g.count = h.count /\ g.color = h.color
      /\ \A m \in Nodes : g.right[m] = IF m = c THEN n ELSE h.right[m]
      /\ \A m \in Nodes : g.left[m] = IF m = n THEN i ELSE h.left[m]
      /\ \A m \in Nodes : g.parent[m] =
              IF m = n THEN c ELSE IF m = c THEN p ELSE h.parent[m]
    BY <1>1, <1>2, <1>4 DEF Tree, Links, NodeOrNil
<1> HIDE DEF g
<1>6. /\ r \in Tree
      /\ r.root = g.root /\ r.right = g.right /\ r.left = g.left
      /\ r.count = g.count /\ r.color = g.color
      /\ \A m \in Nodes : r.parent[m] = IF m = i THEN n ELSE g.parent[m]
    BY <1>1, <1>2, <1>3, <1>5, TreeAssumption DEF Adopt, Tree, Links, NodeOrNil
<1> DEFINE N == Mirrored(r)
<1>7. /\ N \in Tree
      /\ N.left = r.right /\ N.right = r.left /\ N.parent = r.parent
      /\ N.root = r.root
    BY <1>6, Mirror DEF Mirrored, Tree
<1>8. /\ Linked(N) <=> Linked(r)
      /\ \A m : Belongs(N, m) <=> Belongs(r, m)
      /\ \A m : Belongs(M, m) <=> Belongs(t, m)
    BY <1>6, Mirror DEF M
<1> HIDE DEF N
<1>9. Turned(M, n, N)
    BY <1>0, <1>1, <1>4, <1>5, <1>6, <1>7 DEF Turned
<1>10. Linked(N) /\ \A m \in Nodes : Belongs(N, m) <=> Belongs(M, m)
    BY <1>0, <1>7, <1>9, Rotation
<1>11. Linked(r) /\ \A m \in Nodes : Belongs(r, m) <=> Belongs(t, m)
    BY <1>8, <1>10
<1>12. SameOrder(M, N)
    BY <1>0, <1>1, <1>7, <1>9, <1>10, TreeAssumption, TurnSorts DEF SameOrder
<1>13. SameOrder(t, r)
    BY <1>6, <1>11, <1>12, OrderMirrored DEF M, N
<1>14. SameNodes(t, r)
    BY <1>11, <1>13 DEF SameNodes
<1> QED BY <1>4, <1>5, <1>6, <1>9, <1>11, <1>14 DEF M, N

-----------------------------------------------------------------------------
(* The invariant *)

Pcs == {"idle", "rbtree_insert", "rbtree_find", "rbtree_delete",
        "find_subtree_min", "delete_one_child", "replace_child",
        "return"} \cup InsertCases \cup DeleteCases

Shape ==
    /\ tree \in Tree
    /\ val \in [Nodes -> Keys \cup {NoKey}]
    /\ pc \in Pcs
    /\ cur \in NodeOrNil /\ held \in NodeOrNil
    /\ op \in Ops /\ key \in Keys /\ found \in BOOLEAN

\* The nodes in the tree, and how many they are.
InTree == {n \in Nodes : Belongs(tree, n)}

Counted == tree.count = Cardinality(InTree)

\* The caller has a node that is not, or no longer, in the tree.
Holding == pc = "rbtree_insert" \/ (pc = "return" /\ found /\ op # "find")

\* Every node that is allocated is in the tree or the one the caller holds.
Allocated ==
    /\ \A n \in Nodes : val[n] # NoKey
                        <=> Belongs(tree, n) \/ (Holding /\ n = held)
    /\ Holding => held \in Nodes /\ ~Belongs(tree, held)

Deleting == {"rbtree_delete", "find_subtree_min", "delete_one_child",
             "replace_child"} \cup DeleteCases

\* The nodes the functions are given are in the tree.
Given ==
    /\ pc \in InsertCases \cup {"rbtree_insert"} => op = "insert" /\ ~found
    /\ pc \in InsertCases => cur \in Nodes /\ Belongs(tree, cur)
    /\ pc = "rbtree_find" => op # "insert" /\ ~found
    /\ pc \in Deleting => /\ op = "delete" /\ found
                          /\ held \in Nodes /\ Belongs(tree, held)
                          /\ cur \in Nodes /\ Belongs(tree, cur)
    /\ pc \in {"rbtree_delete", "delete_one_child", "replace_child"} =>
           cur = held

TreeInv == Shape /\ Linked(tree) /\ Counted /\ Allocated /\ Given

\* A step that leaves the nodes of the tree in it.
Kept ==
    /\ tree' \in Tree /\ Linked(tree') /\ SameNodes(tree, tree')
    /\ tree'.count = tree.count

LEMMA KeptIsCounted == TreeInv /\ Kept => Counted'
<1>1. SameNodes(tree, tree') => InTree' = InTree
    BY DEF InTree, SameNodes
<1> QED BY <1>1 DEF TreeInv, Kept, Counted

LEMMA Unchanged == TreeInv /\ tree' = tree => Kept
BY DEF TreeInv, Shape, Kept, SameNodes, SameOrder

\* A node of the tree has relatives in it.
LEMMA Relatives ==
    ASSUME TreeInv, NEW n \in Nodes, Belongs(tree, n)
    PROVE  /\ Parent(n) # Nil =>
                /\ Parent(n) \in Nodes /\ Belongs(tree, Parent(n))
                /\ n = Left(Parent(n)) \/ n = Right(Parent(n))
           /\ Left(n) # Nil => Left(n) \in Nodes /\ Belongs(tree, Left(n))
           /\ Right(n) # Nil => Right(n) \in Nodes /\ Belongs(tree, Right(n))
<1>1. /\ tree.left \in Links /\ tree.right \in Links /\ tree.parent \in Links
    BY Fields DEF TreeInv, Shape
<1>2. Linked(tree)
    BY DEF TreeInv
<1> USE TreeAssumption, <1>1, <1>2 DEF Links, NodeOrNil, Parent, Left, Right
<1>3. Parent(n) # Nil => /\ Parent(n) \in Nodes /\ Belongs(tree, Parent(n))
                         /\ n = Left(Parent(n)) \/ n = Right(Parent(n))
    BY DEF Linked, LinkedAt, Belongs
<1>4. LinkedAt(tree, n)
    BY DEF Linked
<1>5. Left(n) # Nil => Left(n) \in Nodes /\ Belongs(tree, Left(n))
    BY <1>4 DEF LinkedAt, Belongs
<1>6. Right(n) # Nil => Right(n) \in Nodes /\ Belongs(tree, Right(n))
    BY <1>4 DEF LinkedAt, Belongs
<1> QED BY <1>3, <1>5, <1>6

LEMMA InvInit == Init => TreeInv
<1> SUFFICES ASSUME Init PROVE TreeInv
    OBVIOUS
<1>1. tree \in Tree
    BY DEF Init, Tree, Links, NodeOrNil
<1>2. \A n \in Nodes : ~Belongs(tree, n)
    BY TreeAssumption DEF Init, Belongs
<1>3. Linked(tree)
    BY <1>2, TreeAssumption DEF Init, Linked, NoCycle
<1>4. Counted
  <2>1. InTree = {}
    BY <1>2 DEF InTree
  <2> QED BY <2>1, FS_EmptySet DEF Counted, Init
<1>5. Allocated
    BY <1>2 DEF Init, Allocated, Holding
<1>6. Given
    BY DEF Init, Given, InsertCases, Deleting, DeleteCases
<1>7. Shape
    BY <1>1 DEF Init, Shape, Pcs, NodeOrNil
<1> QED BY <1>3, <1>4, <1>5, <1>6, <1>7 DEF TreeInv

-----------------------------------------------------------------------------
(* The caller and the search *)

LEMMA CallerKeeps ==
    ASSUME TreeInv,
           \/ \E k \in Keys : CallInsert(k) \/ \E o \in {"find", "delete"} : CallSearch(o, k)
           \/ Return
    PROVE  TreeInv'
<1> USE TreeAssumption
<1>1. tree' = tree
    BY DEF CallInsert, CallSearch, Return
<1>2. Kept /\ Counted'
    BY <1>1, Unchanged, KeptIsCounted
<1>3. Linked(tree') /\ \A n \in Nodes : Belongs(tree', n) <=> Belongs(tree, n)
    BY <1>2 DEF Kept, SameNodes
<1>4. ASSUME NEW k \in Keys, CallInsert(k)
      PROVE  TreeInv'
  <2>1. PICK n \in Nodes : /\ val[n] = NoKey
                           /\ val' = [val EXCEPT ![n] = k]
                           /\ held' = n
    BY <1>4 DEF CallInsert
  <2>2. Shape'
    BY <1>1, <1>4, <2>1
       DEF TreeInv, Shape, CallInsert, Goto, Pcs, Ops, NodeOrNil
  <2>3. ~Belongs(tree, n)
    BY <2>1 DEF TreeInv, Allocated
  <2>4. Allocated'
    BY <1>3, <1>4, <2>1, <2>3
       DEF TreeInv, Shape, Allocated, Holding, CallInsert, Goto
  <2>5. Given'
    BY <1>4 DEF Given, CallInsert, Goto, InsertCases, Deleting, DeleteCases
  <2> QED BY <1>2, <1>3, <2>2, <2>4, <2>5 DEF TreeInv
<1>5. ASSUME NEW k \in Keys, NEW o \in {"find", "delete"}, CallSearch(o, k)
      PROVE  TreeInv'
  <2>1. Shape'
    BY <1>1, <1>5 DEF TreeInv, Shape, CallSearch, Goto, Pcs, Ops, NodeOrNil
  <2>2. Allocated'
    BY <1>3, <1>5 DEF TreeInv, Allocated, Holding, CallSearch, Goto
  <2>3. Given'
    BY <1>5 DEF Given, CallSearch, Goto, InsertCases, Deleting, DeleteCases
  <2> QED BY <1>2, <1>3, <2>1, <2>2, <2>3 DEF TreeInv
<1>6. ASSUME Return
      PROVE  TreeInv'
  <2>1. Shape'
    BY <1>1, <1>6 DEF TreeInv, Shape, Return, Goto, Pcs, NodeOrNil
  <2>2. Allocated'
    <3>1. CASE found /\ op # "find"
        BY <1>3, <1>6, <3>1
           DEF TreeInv, Shape, Allocated, Holding, Return, Goto, Ops
    <3>2. CASE ~(found /\ op # "find")
        BY <1>3, <1>6, <3>2
           DEF TreeInv, Shape, Allocated, Holding, Return, Goto, Ops
    <3> QED BY <3>1, <3>2
  <2>3. Given'
    BY <1>6 DEF Given, Return, Goto, InsertCases, Deleting, DeleteCases
  <2> QED BY <1>2, <1>3, <2>1, <2>2, <2>3 DEF TreeInv
<1> QED BY <1>4, <1>5, <1>6

LEMMA SearchKeeps ==
    ASSUME TreeInv, TakenForGranted, rbtree_find \/ binary_find
    PROVE  TreeInv'
<1> USE TreeAssumption
<1>1. tree' = tree /\ val' = val
    BY DEF rbtree_find, binary_find
<1>2. Kept /\ Counted'
    BY <1>1, Unchanged, KeptIsCounted
<1>3. Linked(tree') /\ \A n \in Nodes : Belongs(tree', n) <=> Belongs(tree, n)
    BY <1>2 DEF Kept, SameNodes
<1>4. CASE rbtree_find
  <2>1. Shape'
    BY <1>1, <1>4 DEF TreeInv, Shape, rbtree_find, Goto, call, Pcs, NodeOrNil
  <2>2. Allocated'
    BY <1>1, <1>3, <1>4
       DEF TreeInv, Given, Allocated, Holding, rbtree_find, Goto, call
  <2>3. Given'
    BY <1>4 DEF Given, rbtree_find, Goto, InsertCases, Deleting, DeleteCases
  <2> QED BY <1>2, <1>3, <2>1, <2>2, <2>3 DEF TreeInv
<1>5. CASE binary_find
  <2>1. Reached(key) \in Nodes /\ Belongs(tree, Reached(key))
    BY <1>5 DEF TakenForGranted, binary_find, Members, Belongs, IsChild, Left,
       Right, Parent
  <2>2. Shape'
    BY <1>1, <1>5, <2>1 DEF TreeInv, Shape, binary_find, Goto, Pcs, NodeOrNil
  <2>3. Allocated'
    BY <1>1, <1>3, <1>5
       DEF TreeInv, Shape, Ops, Given, Allocated, Holding, binary_find, Goto
  <2>4. Given'
    BY <1>1, <1>5, <2>1
       DEF Given, binary_find, Goto, InsertCases, Deleting, DeleteCases
  <2> QED BY <1>2, <1>3, <2>2, <2>3, <2>4 DEF TreeInv
<1> QED BY <1>4, <1>5

-----------------------------------------------------------------------------
(* Insertion *)

LEMMA GrownIsCounted ==
    ASSUME TreeInv, held \in Nodes, ~Belongs(tree, held),
           \A m \in Nodes : Belongs(tree', m) <=> Belongs(tree, m) \/ m = held,
           tree'.count = tree.count + 1
    PROVE  Counted'
<1>1. InTree' = InTree \cup {held}
    BY DEF InTree
<1>2. IsFiniteSet(InTree) /\ held \notin InTree
    BY TreeAssumption, FS_Subset DEF InTree
<1>3. Cardinality(InTree \cup {held}) = Cardinality(InTree) + 1
    BY <1>2, FS_AddElement
<1> QED BY <1>1, <1>3 DEF TreeInv, Counted

LEMMA Leaves ==
    ASSUME NEW t \in Tree, NEW n \in Nodes, NEW p \in NodeOrNil,
           NEW c \in {"RED", "BLACK"}, NEW r, r = Leaf(t, n, p, c)
    PROVE  /\ r \in Tree
           /\ r.root = t.root /\ r.count = t.count + 1
           /\ r.left = [t.left EXCEPT ![n] = Nil]
           /\ r.right = [t.right EXCEPT ![n] = Nil]
           /\ r.parent = [t.parent EXCEPT ![n] = p]
           /\ r.color[n] = c /\ \A m \in Nodes : m # n => r.color[m] = t.color[m]
<1>1. /\ r.root = t.root /\ r.count = t.count + 1
      /\ r.left = [t.left EXCEPT ![n] = Nil]
      /\ r.right = [t.right EXCEPT ![n] = Nil]
      /\ r.parent = [t.parent EXCEPT ![n] = p]
      /\ r.color = [t.color EXCEPT ![n] = c]
    BY DEF Leaf, Tree
<1>2. r = [root |-> r.root, count |-> r.count, left |-> r.left,
           right |-> r.right, parent |-> r.parent, color |-> r.color]
    BY DEF Leaf, Tree
<1>3. /\ t.root \in NodeOrNil /\ t.count \in Int
      /\ t.left \in Links /\ t.right \in Links /\ t.parent \in Links
      /\ t.color \in [Nodes -> {"RED", "BLACK"}]
    BY DEF Tree
<1>4. /\ r.root \in NodeOrNil /\ r.count \in Int
      /\ r.left \in Links /\ r.right \in Links /\ r.parent \in Links
      /\ r.color \in [Nodes -> {"RED", "BLACK"}]
    BY <1>1, <1>3 DEF Links, NodeOrNil
<1>5. r \in Tree
    BY <1>2, <1>4 DEF Tree
<1>6. r.color[n] = c /\ \A m \in Nodes : m # n => r.color[m] = t.color[m]
    BY <1>1, <1>3
<1> QED BY <1>1, <1>5, <1>6

\* What an insert does to the tree.
Growing ==
    \/ rbtree_insert /\ Grew(tree, held, Nil, TRUE, tree')
    \/ binary_node_insert /\ key = val[Reached(key)] /\ tree' = tree
    \/ /\ binary_node_insert /\ key # val[Reached(key)]
       /\ Grew(tree, held, Reached(key), key < val[Reached(key)], tree')

LEMMA InsertKeeps ==
    ASSUME TreeInv, TakenForGranted, rbtree_insert \/ binary_node_insert
    PROVE  TreeInv' /\ Growing
<1> USE TreeAssumption
<1>1. /\ pc = "rbtree_insert" /\ val' = val /\ op = "insert" /\ ~found
      /\ held' = held /\ op' = op /\ key' = key
      /\ held \in Nodes /\ ~Belongs(tree, held) /\ Holding
      /\ tree \in Tree /\ Linked(tree)
    BY DEF rbtree_insert, binary_node_insert, call, TreeInv, Shape, Given,
           Allocated, Holding
<1>2. /\ tree.left \in Links /\ tree.right \in Links /\ tree.parent \in Links
      /\ tree.root \in NodeOrNil /\ tree.count \in Int
      /\ tree.color \in [Nodes -> {"RED", "BLACK"}]
    BY <1>1 DEF Tree
<1>3. CASE rbtree_insert
  <2>1. /\ tree' \in Tree
        /\ tree'.root = held
        /\ tree'.count = tree.count + 1
        /\ \A m \in Nodes : tree'.left[m] = IF m = held THEN Nil ELSE tree.left[m]
        /\ \A m \in Nodes : tree'.right[m] = IF m = held THEN Nil ELSE tree.right[m]
        /\ \A m \in Nodes : tree'.parent[m] = IF m = held THEN Nil ELSE tree.parent[m]
    <3> DEFINE r == Leaf(tree, held, Nil, "BLACK")
    <3>1. /\ r \in Tree
          /\ r.root = tree.root /\ r.count = tree.count + 1
          /\ r.left = [tree.left EXCEPT ![held] = Nil]
          /\ r.right = [tree.right EXCEPT ![held] = Nil]
          /\ r.parent = [tree.parent EXCEPT ![held] = Nil]
        BY <1>1, Leaves DEF NodeOrNil
    <3>2. tree' = [r EXCEPT !.root = held]
        BY <1>3 DEF rbtree_insert
    <3> HIDE DEF r
    <3> QED BY <1>1, <1>2, <3>1, <3>2 DEF Tree, Links, NodeOrNil
  <2>2. tree.root = Nil
    BY <1>3 DEF rbtree_insert
  <2>3. Added(tree, held, Nil, tree')
    BY <1>1, <2>1 DEF Added
  <2>4. /\ Linked(tree')
        /\ \A m \in Nodes : Belongs(tree', m) <=> Belongs(tree, m) \/ m = held
    BY <1>1, <2>1, <2>2, <2>3, Addition DEF NodeOrNil
  <2>5. Counted'
    BY <1>1, <2>1, <2>4, GrownIsCounted
  <2>6. Shape'
    BY <1>1, <1>3, <2>1
       DEF TreeInv, Shape, rbtree_insert, Goto, call, Pcs, NodeOrNil
  <2>7. Allocated'
    BY <1>1, <1>3, <2>4
       DEF TreeInv, Allocated, Holding, rbtree_insert, Goto, call
  <2>8. Given'
    BY <1>1, <1>3
       DEF Given, rbtree_insert, Goto, InsertCases, Deleting, DeleteCases
  <2>9. Grew(tree, held, Nil, TRUE, tree')
    BY <1>1, <2>1, <2>4 DEF Grew
  <2> QED BY <1>3, <2>4, <2>5, <2>6, <2>7, <2>8, <2>9 DEF TreeInv, Growing
<1>4. ASSUME binary_node_insert, key = val[Reached(key)], tree' = tree,
             found' = TRUE, Goto("return", Nil)
      PROVE  TreeInv' /\ Growing
  <2>1. Kept /\ Counted'
    BY <1>4, Unchanged, KeptIsCounted
  <2>2. Linked(tree') /\ \A n \in Nodes : Belongs(tree', n) <=> Belongs(tree, n)
    BY <2>1 DEF Kept, SameNodes
  <2>3. Shape'
    BY <1>1, <1>4 DEF TreeInv, Shape, Goto, Pcs, NodeOrNil
  <2>4. Allocated'
    BY <1>1, <1>4, <2>2 DEF TreeInv, Allocated, Holding, Goto
  <2>5. Given'
    BY <1>1, <1>4 DEF Given, Goto, InsertCases, Deleting, DeleteCases
  <2> QED BY <1>4, <2>1, <2>2, <2>3, <2>4, <2>5 DEF TreeInv, Growing
<1>5. ASSUME binary_node_insert, key # val[Reached(key)],
             tree' = LET t == Leaf(tree, held, Reached(key), "RED")
                     IN  IF key < val[Reached(key)]
                           THEN [t EXCEPT !.left[Reached(key)] = held]
                           ELSE [t EXCEPT !.right[Reached(key)] = held],
             Goto("insert_case1", held), found' = found
      PROVE  TreeInv' /\ Growing
  <2> DEFINE p == Reached(key)
  <2>1. /\ p \in Nodes /\ Belongs(tree, p) /\ val[p] \in Keys
        /\ key < val[p] => Left(p) = Nil
        /\ key > val[p] => Right(p) = Nil
    <3>1. p \in Members /\ (key < val[p] => Left(p) = Nil)
            /\ (key > val[p] => Right(p) = Nil)
        BY <1>1, <1>5 DEF TakenForGranted, binary_node_insert
    <3> QED BY <3>1 DEF TreeInv, Shape, Members, Belongs, IsChild, Left,
               Right, Parent
  <2> HIDE DEF p
  <2>2. key \in Int /\ val[p] \in Int
    BY <2>1 DEF TreeInv, Shape
  <2>3. p # held
    BY <1>1, <2>1
  <2> DEFINE r == Leaf(tree, held, p, "RED")
  <2>9. /\ r \in Tree
        /\ r.root = tree.root /\ r.count = tree.count + 1
        /\ r.left = [tree.left EXCEPT ![held] = Nil]
        /\ r.right = [tree.right EXCEPT ![held] = Nil]
        /\ r.parent = [tree.parent EXCEPT ![held] = p]
    BY <1>1, <2>1, Leaves DEF NodeOrNil
  <2> HIDE DEF r
  <2>4. /\ Linked(tree') /\ tree' \in Tree /\ tree'.count = tree.count + 1
        /\ \A m \in Nodes : Belongs(tree', m) <=> Belongs(tree, m) \/ m = held
        /\ Grew(tree, held, p, key < val[p], tree')
    <3>1. CASE key < val[p]
      <4>1. tree' = [r EXCEPT !.left[p] = held]
        BY <1>5, <3>1 DEF p, r
      <4>2. /\ tree' \in Tree
            /\ tree'.root = tree.root /\ tree'.count = tree.count + 1
            /\ \A m \in Nodes : tree'.left[m] = IF m = held THEN Nil
                                    ELSE IF m = p THEN held ELSE tree.left[m]
            /\ \A m \in Nodes : tree'.right[m] = IF m = held THEN Nil ELSE tree.right[m]
            /\ \A m \in Nodes : tree'.parent[m] = IF m = held THEN p ELSE tree.parent[m]
        BY <1>1, <1>2, <2>1, <2>3, <2>9, <4>1 DEF Tree, Links, NodeOrNil
      <4>3. Added(tree, held, p, tree')
        BY <2>1, <4>2 DEF Added
      <4>4. /\ Linked(tree')
            /\ \A m \in Nodes : Belongs(tree', m) <=> Belongs(tree, m) \/ m = held
        BY <1>1, <2>1, <3>1, <4>2, <4>3, Addition DEF NodeOrNil, Left
      <4> QED BY <3>1, <4>2, <4>4 DEF Grew
    <3>2. CASE ~(key < val[p])
      <4>0. key > val[p]
        BY <1>5, <2>2, <3>2 DEF p
      <4>1. tree' = [r EXCEPT !.right[p] = held]
        BY <1>5, <3>2 DEF p, r
      <4>2. /\ tree' \in Tree
            /\ tree'.root = tree.root /\ tree'.count = tree.count + 1
            /\ \A m \in Nodes : tree'.right[m] = IF m = held THEN Nil
                                    ELSE IF m = p THEN held ELSE tree.right[m]
            /\ \A m \in Nodes : tree'.left[m] = IF m = held THEN Nil ELSE tree.left[m]
            /\ \A m \in Nodes : tree'.parent[m] = IF m = held THEN p ELSE tree.parent[m]
        BY <1>1, <1>2, <2>1, <2>3, <2>9, <4>1 DEF Tree, Links, NodeOrNil
      <4> DEFINE M == Mirrored(tree)
                 N == Mirrored(tree')
      <4>3. /\ M \in Tree /\ Linked(M) /\ \A n : Belongs(M, n) <=> Belongs(tree, n)
            /\ M.root = tree.root /\ M.parent = tree.parent
            /\ M.left = tree.right /\ M.right = tree.left
        <5>1. M \in Tree /\ Linked(M) /\ \A n : Belongs(M, n) <=> Belongs(tree, n)
            BY <1>1, Mirror
        <5> QED BY <1>1, <5>1 DEF Mirrored, Tree
      <4>4. /\ N \in Tree /\ (Linked(N) <=> Linked(tree'))
            /\ \A n : Belongs(N, n) <=> Belongs(tree', n)
            /\ N.root = tree'.root /\ N.parent = tree'.parent
            /\ N.left = tree'.right /\ N.right = tree'.left
        <5>1. N \in Tree /\ (Linked(N) <=> Linked(tree'))
                /\ \A n : Belongs(N, n) <=> Belongs(tree', n)
            BY <4>2, Mirror
        <5> QED BY <4>2, <5>1 DEF Mirrored, Tree
      <4> HIDE DEF M, N
      <4>5. Added(M, held, p, N)
        BY <2>1, <4>2, <4>3, <4>4 DEF Added
      <4>6. /\ Linked(N)
            /\ \A m \in Nodes : Belongs(N, m) <=> Belongs(M, m) \/ m = held
        BY <1>1, <2>1, <4>0, <4>3, <4>4, <4>5, Addition DEF NodeOrNil, Right
      <4>7. /\ Linked(tree')
            /\ \A m \in Nodes : Belongs(tree', m) <=> Belongs(tree, m) \/ m = held
        BY <4>3, <4>4, <4>6
      <4> QED BY <3>2, <4>2, <4>7 DEF Grew
    <3> QED BY <3>1, <3>2
  <2>5. Counted'
    BY <1>1, <2>4, GrownIsCounted
  <2>6. Shape'
    BY <1>1, <1>5, <2>4 DEF TreeInv, Shape, Goto, Pcs, InsertCases, NodeOrNil
  <2>7. Allocated'
    BY <1>1, <1>5, <2>4 DEF TreeInv, Allocated, Holding, Goto
  <2>8. Given'
    BY <1>1, <1>5, <2>4 DEF Given, Goto, InsertCases, Deleting, DeleteCases
  <2>10. Growing
    BY <1>5, <2>4 DEF Growing, p
  <2> QED BY <2>4, <2>5, <2>6, <2>7, <2>8, <2>10 DEF TreeInv
<1> QED BY <1>3, <1>4, <1>5 DEF binary_node_insert

-----------------------------------------------------------------------------
(* The cases of an insertion *)

LEMMA InsertStep ==
    ASSUME TreeInv, pc \in InsertCases, Kept,
           UNCHANGED <<val, call>>,
           \/ Goto("return", Nil)
           \/ \E c \in InsertCases, n \in Nodes : Goto(c, n) /\ Belongs(tree, n)
    PROVE  TreeInv' /\ SameNodes(tree, tree')
<1> USE TreeAssumption
<1>1. /\ Linked(tree') /\ tree' \in Tree
      /\ \A n \in Nodes : Belongs(tree', n) <=> Belongs(tree, n)
      /\ SameNodes(tree, tree')
    BY DEF Kept, SameNodes
<1>2. Counted'
    BY KeptIsCounted
<1>3. op = "insert" /\ ~found /\ ~Holding
    BY DEF TreeInv, Given, Holding, InsertCases
<1>4. Shape'
    BY <1>1 DEF TreeInv, Shape, Goto, call, Pcs, NodeOrNil
<1>5. ~Holding'
    BY <1>3 DEF Holding, Goto, call, InsertCases
<1>6. Allocated'
    BY <1>1, <1>3, <1>5 DEF TreeInv, Allocated, call
<1>7. Given'
    BY <1>1, <1>3 DEF Given, Goto, call, InsertCases, Deleting, DeleteCases
<1> QED BY <1>1, <1>2, <1>4, <1>6, <1>7 DEF TreeInv

\* Painting a node leaves the nodes of the tree in it.
LEMMA Painted ==
    ASSUME NEW t \in Tree, Linked(t), NEW n \in Nodes,
           NEW c \in {"RED", "BLACK"}
    PROVE  /\ Paint(t, n, c) \in Tree /\ Linked(Paint(t, n, c))
           /\ SameNodes(t, Paint(t, n, c)) /\ Paint(t, n, c).count = t.count
           /\ Paint(t, n, c).root = t.root /\ Paint(t, n, c).left = t.left
           /\ Paint(t, n, c).right = t.right
           /\ Paint(t, n, c).parent = t.parent
           /\ Paint(t, n, c).color[n] = c
           /\ \A m \in Nodes : m # n => Paint(t, n, c).color[m] = t.color[m]
<1> DEFINE r == Paint(t, n, c)
<1>1. r.color[n] = c /\ \A m \in Nodes : m # n => r.color[m] = t.color[m]
    BY DEF Paint, Tree
<1>2. /\ r \in Tree /\ Linked(r) /\ SameNodes(t, r) /\ r.count = t.count
      /\ r.root = t.root /\ r.left = t.left
      /\ r.right = t.right /\ r.parent = t.parent
    BY Colours DEF SameNodes
<1> QED BY <1>1, <1>2

LEMMA InsertCasesKeep ==
    ASSUME TreeInv, TakenForGranted,
           \/ insert_case1 \/ insert_case2 \/ insert_case3
           \/ insert_case4 \/ insert_case5
    PROVE  TreeInv' /\ SameNodes(tree, tree')
<1> USE TreeAssumption
<1> DEFINE p == Parent(cur)
           g == grandparent(cur)
<1>1. /\ pc \in InsertCases /\ tree \in Tree /\ Linked(tree)
      /\ cur \in Nodes /\ Belongs(tree, cur)
      /\ UNCHANGED <<val, call>>
    BY DEF TreeInv, Shape, Given, InsertCases, insert_case1, insert_case2,
           insert_case3, insert_case4, insert_case5
<1>2. p # Nil => /\ p \in Nodes /\ Belongs(tree, p)
                 /\ cur = Left(p) \/ cur = Right(p)
    BY <1>1, Relatives
<1>3. p # Nil /\ g # Nil => /\ g \in Nodes /\ Belongs(tree, g)
                            /\ p = Left(g) \/ p = Right(g)
    BY <1>2, Relatives DEF grandparent
<1>4. CASE insert_case1
  <2>1. CASE p = Nil
    <3>1. Kept
      BY <1>1, <1>4, <2>1, Painted DEF insert_case1, Kept
    <3> QED BY <1>1, <1>4, <2>1, <3>1, InsertStep DEF insert_case1
  <2>2. CASE p # Nil
    <3>1. Kept
      BY <1>4, <2>2, Unchanged DEF insert_case1
    <3>2. Goto("insert_case2", cur)
      BY <1>4, <2>2 DEF insert_case1
    <3> QED BY <1>1, <3>1, <3>2, InsertStep DEF InsertCases
  <2> QED BY <2>1, <2>2
<1>5. CASE insert_case2
  <2>1. Kept
    BY <1>5, Unchanged DEF insert_case2
  <2>2. Goto("return", Nil) \/ Goto("insert_case3", cur)
    BY <1>5 DEF insert_case2
  <2> QED BY <1>1, <2>1, <2>2, InsertStep DEF InsertCases
<1>6. CASE insert_case3
  <2>1. p # Nil /\ g # Nil
    BY <1>6 DEF insert_case3, TakenForGranted
  <2>2. CASE node_color(uncle(cur)) = "RED"
    <3>1. uncle(cur) \in Nodes
      <4>1. uncle(cur) # Nil
        BY <2>2 DEF node_color
      <4> QED BY <1>3, <2>1, <4>1, Relatives DEF uncle
    <3> DEFINE t1 == Paint(tree, p, "BLACK")
               t2 == Paint(t1, uncle(cur), "BLACK")
               t3 == Paint(t2, g, "RED")
    <3>2. t1 \in Tree /\ Linked(t1) /\ SameNodes(tree, t1) /\ t1.count = tree.count
      BY <1>1, <1>2, <2>1, Painted
    <3> HIDE DEF t1
    <3>3. t2 \in Tree /\ Linked(t2) /\ SameNodes(t1, t2) /\ t2.count = t1.count
      BY <3>1, <3>2, Painted
    <3> HIDE DEF t2
    <3>4. t3 \in Tree /\ Linked(t3) /\ SameNodes(t2, t3) /\ t3.count = t2.count
      BY <1>3, <2>1, <3>3, Painted
    <3> HIDE DEF t3
    <3>5. tree' = t3 /\ Goto("insert_case1", g)
      BY <1>6, <2>2 DEF insert_case3, t1, t2, t3
    <3>6. Kept
      BY <3>2, <3>3, <3>4, <3>5, Through DEF Kept
    <3> QED BY <1>1, <1>3, <2>1, <3>5, <3>6, InsertStep DEF InsertCases
  <2>3. CASE node_color(uncle(cur)) # "RED"
    <3>1. Kept
      BY <1>6, <2>3, Unchanged DEF insert_case3
    <3>2. Goto("insert_case4", cur)
      BY <1>6, <2>3 DEF insert_case3
    <3> QED BY <1>1, <3>1, <3>2, InsertStep DEF InsertCases
  <2> QED BY <2>2, <2>3
<1>7. CASE insert_case4
  <2>1. p # Nil /\ g # Nil
    BY <1>7 DEF insert_case4, TakenForGranted
  <2>2. CASE cur = Right(p) /\ p = Left(g)
    <3>1. tree' = rotate_left(tree, p) /\ Goto("insert_case5", p)
      BY <1>7, <2>2 DEF insert_case4
    <3>2. tree.right[p] # Nil
      BY <1>1, <2>2 DEF Right
    <3>3. Kept
      BY <1>1, <1>2, <2>1, <3>1, <3>2, RotateLeft DEF Kept
    <3> QED BY <1>1, <1>2, <2>1, <3>1, <3>3, InsertStep DEF InsertCases
  <2>3. CASE ~(cur = Right(p) /\ p = Left(g)) /\ cur = Left(p) /\ p = Right(g)
    <3>1. tree' = rotate_right(tree, p) /\ Goto("insert_case5", p)
      BY <1>7, <2>3 DEF insert_case4
    <3>2. tree.left[p] # Nil
      BY <1>1, <2>3 DEF Left
    <3>3. Kept
      BY <1>1, <1>2, <2>1, <3>1, <3>2, RotateRight DEF Kept
    <3> QED BY <1>1, <1>2, <2>1, <3>1, <3>3, InsertStep DEF InsertCases
  <2>4. CASE ~(cur = Right(p) /\ p = Left(g)) /\ ~(cur = Left(p) /\ p = Right(g))
    <3>1. Kept
      BY <1>7, <2>4, Unchanged DEF insert_case4
    <3>2. Goto("insert_case5", cur)
      BY <1>7, <2>4 DEF insert_case4
    <3> QED BY <1>1, <3>1, <3>2, InsertStep DEF InsertCases
  <2> QED BY <2>2, <2>3, <2>4
<1>8. CASE insert_case5
  <2>1. /\ p # Nil /\ g # Nil
        /\ cur = Left(p) <=> p = Left(g)
    BY <1>8 DEF insert_case5, TakenForGranted
  <2> DEFINE t1 == Paint(tree, p, "BLACK")
             t2 == Paint(t1, g, "RED")
  <2>2. /\ t1 \in Tree /\ Linked(t1) /\ SameNodes(tree, t1) /\ t1.count = tree.count
        /\ t1.left = tree.left /\ t1.right = tree.right
    BY <1>1, <1>2, <2>1, Painted
  <2> HIDE DEF t1
  <2>3. /\ t2 \in Tree /\ Linked(t2) /\ SameNodes(t1, t2) /\ t2.count = t1.count
        /\ t2.left = t1.left /\ t2.right = t1.right
    BY <1>3, <2>1, <2>2, Painted
  <2> HIDE DEF t2
  <2>4. Belongs(t2, g)
    BY <1>3, <2>1, <2>2, <2>3 DEF SameNodes
  <2>5. /\ tree' = IF cur = Left(p) /\ p = Left(g) THEN rotate_right(t2, g)
                                                 ELSE rotate_left(t2, g)
        /\ Goto("return", Nil)
    BY <1>8 DEF insert_case5, t1, t2
  <2>6. Kept
    <3>1. CASE cur = Left(p)
      <4>1. t2.left[g] # Nil /\ tree' = rotate_right(t2, g)
        BY <2>1, <2>2, <2>3, <2>5, <3>1 DEF Left
      <4> QED BY <1>3, <2>1, <2>2, <2>3, <2>4, <4>1, RotateRight,
                 Through DEF Kept
    <3>2. CASE cur # Left(p)
      <4>1. t2.right[g] # Nil /\ tree' = rotate_left(t2, g)
        BY <1>3, <2>1, <2>2, <2>3, <2>5, <3>2 DEF Right
      <4> QED BY <1>3, <2>1, <2>2, <2>3, <2>4, <4>1, RotateLeft,
                 Through DEF Kept
    <3> QED BY <3>1, <3>2
  <2> QED BY <1>1, <2>5, <2>6, InsertStep
<1> QED BY <1>4, <1>5, <1>6, <1>7, <1>8

-----------------------------------------------------------------------------
(* Deletion *)

LEMMA DeleteStep ==
    ASSUME TreeInv, pc \in Deleting, Kept,
           UNCHANGED <<op, key, found>>,
           val' \in [Nodes -> Keys \cup {NoKey}],
           \A n \in Nodes : val'[n] # NoKey <=> val[n] # NoKey,
           held' \in Nodes, Belongs(tree, held'),
           NEW to \in Deleting, NEW n \in Nodes, Goto(to, n), Belongs(tree, n),
           to \in {"rbtree_delete", "delete_one_child", "replace_child"}
               => n = held'
    PROVE  TreeInv' /\ SameNodes(tree, tree')
<1>1. /\ Linked(tree') /\ tree' \in Tree
      /\ \A m \in Nodes : Belongs(tree', m) <=> Belongs(tree, m)
      /\ SameNodes(tree, tree')
    BY DEF Kept, SameNodes
<1>2. Counted'
    BY KeptIsCounted
<1>3. /\ op = "delete" /\ found /\ ~Holding
      /\ pc' = to /\ cur' = n
    BY DEF TreeInv, Given, Holding, Deleting, DeleteCases, Goto
<1>4. Shape'
    BY <1>1, <1>3 DEF TreeInv, Shape, Pcs, NodeOrNil, Deleting
<1>5. ~Holding'
    BY <1>3 DEF Holding, Deleting, DeleteCases
<1>6. Allocated'
    BY <1>1, <1>3, <1>5 DEF TreeInv, Allocated
<1>7. Given'
    BY <1>1, <1>3 DEF Given, InsertCases, Deleting, DeleteCases
<1> QED BY <1>1, <1>2, <1>4, <1>6, <1>7 DEF TreeInv

\* The same, where nothing but the colours and the links changes.
LEMMA RepairStep ==
    ASSUME TreeInv, pc \in Deleting, Kept,
           UNCHANGED <<val, call>>,
           \/ Goto("replace_child", held)
           \/ \E to \in DeleteCases, n \in Nodes : Goto(to, n) /\ Belongs(tree, n)
    PROVE  TreeInv' /\ SameNodes(tree, tree')
<1>1. /\ val' \in [Nodes -> Keys \cup {NoKey}]
      /\ \A n \in Nodes : val'[n] # NoKey <=> val[n] # NoKey
      /\ held' = held /\ held \in Nodes /\ Belongs(tree, held)
      /\ UNCHANGED <<op, key, found>>
    BY DEF TreeInv, Shape, Given, call
<1>2. CASE Goto("replace_child", held)
    BY <1>1, <1>2, DeleteStep DEF Deleting
<1>3. ASSUME NEW to \in DeleteCases, NEW n \in Nodes, Goto(to, n), Belongs(tree, n)
      PROVE  TreeInv' /\ SameNodes(tree, tree')
  <2>1. /\ to \in Deleting
        /\ to \notin {"rbtree_delete", "delete_one_child", "replace_child"}
    BY DEF Deleting, DeleteCases
  <2> QED BY <1>1, <1>3, <2>1, DeleteStep
<1> QED BY <1>2, <1>3

LEMMA DescentKeeps ==
    ASSUME TreeInv, rbtree_delete \/ find_subtree_min
    PROVE  TreeInv'
<1>1. /\ pc \in Deleting /\ cur \in Nodes /\ Belongs(tree, cur)
      /\ held \in Nodes /\ Belongs(tree, held)
      /\ tree' = tree /\ UNCHANGED <<op, key, found>>
      /\ val \in [Nodes -> Keys \cup {NoKey}]
    BY DEF TreeInv, Shape, Given, Deleting, rbtree_delete, find_subtree_min,
       call
<1>2. Kept
    BY <1>1, Unchanged
<1>3. /\ Left(cur) # Nil => Left(cur) \in Nodes /\ Belongs(tree, Left(cur))
      /\ Right(cur) # Nil => Right(cur) \in Nodes /\ Belongs(tree, Right(cur))
    BY <1>1, Relatives
<1>4. CASE rbtree_delete
  <2>1. cur = held /\ val' = val /\ held' = held
    BY <1>4 DEF TreeInv, Given, rbtree_delete, call
  <2>2. \/ Goto("find_subtree_min", Right(cur)) /\ Right(cur) # Nil
        \/ Goto("delete_one_child", cur)
    BY <1>4 DEF rbtree_delete
  <2>3. CASE Goto("find_subtree_min", Right(cur)) /\ Right(cur) # Nil
    <3>1. "find_subtree_min" \in Deleting
        BY DEF Deleting
    <3> QED BY <1>1, <1>2, <1>3, <2>1, <2>3, <3>1, DeleteStep
  <2>4. CASE Goto("delete_one_child", cur)
    <3>1. "delete_one_child" \in Deleting
        BY DEF Deleting
    <3> QED BY <1>1, <1>2, <2>1, <2>4, <3>1, DeleteStep
  <2> QED BY <2>2, <2>3, <2>4
<1>5. CASE find_subtree_min
  <2>1. CASE Left(cur) # Nil
    <3>1. /\ "find_subtree_min" \in Deleting
          /\ Goto("find_subtree_min", Left(cur)) /\ val' = val /\ held' = held
        BY <1>5, <2>1 DEF Deleting, find_subtree_min
    <3> QED BY <1>1, <1>2, <1>3, <2>1, <3>1, DeleteStep
  <2>2. CASE Left(cur) = Nil
    <3>1. /\ val' = [val EXCEPT ![held] = val[cur], ![cur] = val[held]]
          /\ held' = cur
          /\ Goto("delete_one_child", cur)
          /\ "delete_one_child" \in Deleting
        BY <1>5, <2>2 DEF find_subtree_min, Deleting
    <3>2. val[cur] # NoKey /\ val[held] # NoKey
        BY <1>1 DEF TreeInv, Allocated
    <3>3. /\ val' \in [Nodes -> Keys \cup {NoKey}]
          /\ \A n \in Nodes : val'[n] # NoKey <=> val[n] # NoKey
        BY <1>1, <3>1, <3>2
    <3> QED BY <1>1, <1>2, <3>1, <3>3, DeleteStep
  <2> QED BY <2>1, <2>2
<1> QED BY <1>4, <1>5

\* The rotation that moves n down rotates its parent towards it, and needs
\* its sibling.
LEMMA Towards ==
    ASSUME NEW t \in Tree, NEW n \in Nodes, Linked(t), Belongs(t, n),
           t.parent[n] # Nil,
           t.left[t.parent[n]] # Nil, t.right[t.parent[n]] # Nil,
           NEW r, r = RotateTowards(t, n)
    PROVE  r \in Tree /\ Linked(r) /\ SameNodes(t, r) /\ r.count = t.count
<1> DEFINE p == t.parent[n]
<1>1. p \in Nodes /\ Belongs(t, p)
  <2>1. p \in Nodes
    BY Fields DEF Links, NodeOrNil
  <2>2. LinkedAt(t, n)
    BY DEF Linked
  <2> QED BY <2>1, <2>2 DEF LinkedAt
<1>2. CASE n = t.left[p]
  <2>1. r = rotate_left(t, p)
    BY <1>2 DEF RotateTowards
  <2> QED BY <1>1, <2>1, RotateLeft
<1>3. CASE n # t.left[p]
  <2>1. r = rotate_right(t, p)
    BY <1>3 DEF RotateTowards
  <2> QED BY <1>1, <2>1, RotateRight
<1> QED BY <1>2, <1>3

\* What the delete cases take for granted.
LEMMA Siblings ==
    ASSUME TreeInv, TakenForGranted,
           pc \in DeleteCases \ {"delete_case1"}
    PROVE  /\ cur \in Nodes /\ Belongs(tree, cur)
           /\ Parent(cur) \in Nodes /\ Belongs(tree, Parent(cur))
           /\ Parent(cur) # Nil
           /\ Left(Parent(cur)) # Nil /\ Right(Parent(cur)) # Nil
           /\ sibling(cur) \in Nodes /\ Belongs(tree, sibling(cur))
           /\ pc = "delete_case6" => FarNephew(cur) \in Nodes
<1>1. cur \in Nodes /\ Belongs(tree, cur)
    BY DEF TreeInv, Given, Deleting
<1>2. /\ Parent(cur) # Nil /\ sibling(cur) # Nil
      /\ pc = "delete_case6" => FarNephew(cur) # Nil
    BY DEF TakenForGranted, DeleteCases
<1>3. /\ Parent(cur) \in Nodes /\ Belongs(tree, Parent(cur))
      /\ cur = Left(Parent(cur)) \/ cur = Right(Parent(cur))
    BY <1>1, <1>2, Relatives
<1>4. /\ Left(Parent(cur)) # Nil =>
             Left(Parent(cur)) \in Nodes /\ Belongs(tree, Left(Parent(cur)))
      /\ Right(Parent(cur)) # Nil =>
             Right(Parent(cur)) \in Nodes /\ Belongs(tree, Right(Parent(cur)))
    BY <1>3, Relatives
<1>5. sibling(cur) \in Nodes /\ Belongs(tree, sibling(cur))
    BY <1>2, <1>4 DEF sibling
<1>6. Left(Parent(cur)) # Nil /\ Right(Parent(cur)) # Nil
    BY <1>1, <1>2, <1>3, TreeAssumption DEF sibling
<1>7. pc = "delete_case6" => FarNephew(cur) \in Nodes
    BY <1>2, <1>5, Relatives DEF FarNephew
<1> QED BY <1>1, <1>2, <1>3, <1>5, <1>6, <1>7

LEMMA DeleteCasesKeep ==
    ASSUME TreeInv, TakenForGranted,
           \/ delete_one_child \/ delete_case1 \/ delete_case2 \/ delete_case3
           \/ delete_case4 \/ delete_case5 \/ delete_case6
    PROVE  TreeInv' /\ SameNodes(tree, tree')
<1> DEFINE p == Parent(cur)
           s == sibling(cur)
<1>1. /\ pc \in Deleting /\ tree \in Tree /\ Linked(tree)
      /\ cur \in Nodes /\ Belongs(tree, cur)
      /\ UNCHANGED <<val, call>>
      /\ tree.color \in [Nodes -> {"RED", "BLACK"}]
    BY DEF TreeInv, Shape, Given, Deleting, DeleteCases, Tree,
       delete_one_child,
           delete_case1, delete_case2, delete_case3, delete_case4,
           delete_case5, delete_case6
<1>2. CASE delete_one_child
  <2>1. CASE Color(cur) = "BLACK"
    <3>1. node_color(OnlyChild(cur)) \in {"RED", "BLACK"}
      <4>1. OnlyChild(cur) # Nil => OnlyChild(cur) \in Nodes
        BY <1>1, Relatives DEF OnlyChild
      <4> QED BY <1>1, <4>1 DEF node_color, Color
    <3>2. /\ tree' = Paint(tree, cur, node_color(OnlyChild(cur)))
          /\ Goto("delete_case1", cur)
      BY <1>2, <2>1 DEF delete_one_child
    <3>3. Kept
      BY <1>1, <3>1, <3>2, Painted DEF Kept
    <3> QED BY <1>1, <3>2, <3>3, RepairStep DEF DeleteCases
  <2>2. CASE Color(cur) # "BLACK"
    <3>1. Kept /\ Goto("replace_child", cur) /\ cur = held
      BY <1>2, <2>2, Unchanged DEF delete_one_child, TreeInv, Given
    <3> QED BY <1>1, <3>1, RepairStep
  <2> QED BY <2>1, <2>2
<1>3. CASE delete_case1
  <2>1. Kept /\ (Goto("delete_case2", cur) \/ Goto("replace_child", held))
    BY <1>3, Unchanged DEF delete_case1
  <2> QED BY <1>1, <2>1, RepairStep DEF DeleteCases
<1>4. pc \in DeleteCases \ {"delete_case1"} =>
         /\ p \in Nodes /\ Belongs(tree, p) /\ p # Nil
         /\ Left(p) # Nil /\ Right(p) # Nil
         /\ s \in Nodes /\ Belongs(tree, s)
         /\ pc = "delete_case6" => FarNephew(cur) \in Nodes
    BY Siblings
<1>5. CASE delete_case2
  <2>1. Goto("delete_case3", cur)
    BY <1>5 DEF delete_case2
  <2>2. p \in Nodes /\ s \in Nodes /\ p # Nil /\ Left(p) # Nil /\ Right(p) # Nil
    BY <1>4, <1>5 DEF delete_case2, DeleteCases
  <2>3. CASE Color(s) = "RED"
    <3> DEFINE t1 == Paint(tree, p, "RED")
               t2 == Paint(t1, s, "BLACK")
    <3>1. tree' = RotateTowards(t2, cur)
      BY <1>5, <2>3 DEF delete_case2
    <3>2. /\ t1 \in Tree /\ Linked(t1) /\ SameNodes(tree, t1) /\ t1.count = tree.count
          /\ t1.left = tree.left /\ t1.right = tree.right /\ t1.parent = tree.parent
      BY <1>1, <2>2, Painted
    <3> HIDE DEF t1
    <3>3. /\ t2 \in Tree /\ Linked(t2) /\ SameNodes(t1, t2) /\ t2.count = t1.count
          /\ t2.left = t1.left /\ t2.right = t1.right /\ t2.parent = t1.parent
      BY <2>2, <3>2, Painted
    <3> HIDE DEF t2
    <3>4. /\ Belongs(t2, cur) /\ t2.parent[cur] # Nil
          /\ t2.left[t2.parent[cur]] # Nil /\ t2.right[t2.parent[cur]] # Nil
      BY <1>1, <2>2, <3>2, <3>3 DEF SameNodes, Left, Right, Parent
    <3>5. /\ tree' \in Tree /\ Linked(tree') /\ SameNodes(t2, tree')
          /\ tree'.count = t2.count
      BY <1>1, <3>1, <3>3, <3>4, Towards
    <3>6. Kept
      BY <3>2, <3>3, <3>5, Through DEF Kept
    <3> QED BY <1>1, <2>1, <3>6, RepairStep DEF DeleteCases
  <2>4. CASE Color(s) # "RED"
    <3>1. Kept
      BY <1>5, <2>4, Unchanged DEF delete_case2
    <3> QED BY <1>1, <2>1, <3>1, RepairStep DEF DeleteCases
  <2> QED BY <2>3, <2>4
<1>6. CASE delete_case3
  <2>1. p \in Nodes /\ Belongs(tree, p) /\ s \in Nodes
    BY <1>4, <1>6 DEF delete_case3, DeleteCases
  <2>2. CASE Color(p) = "BLACK" /\ AllBlack(s)
    <3>1. tree' = Paint(tree, s, "RED") /\ Goto("delete_case1", p)
      BY <1>6, <2>2 DEF delete_case3
    <3>2. /\ tree \in Tree /\ Linked(tree) /\ s \in Nodes
          /\ tree' = Paint(tree, s, "RED")
      BY <1>1, <2>1, <3>1
    <3>3. /\ tree' \in Tree /\ Linked(tree') /\ SameNodes(tree, tree')
          /\ tree'.count = tree.count
      BY ONLY <3>2, Painted
    <3>4. Kept
      BY <3>3 DEF Kept
    <3> QED BY <1>1, <2>1, <3>1, <3>4, RepairStep DEF DeleteCases
  <2>3. CASE ~(Color(p) = "BLACK" /\ AllBlack(s))
    <3>1. Kept /\ Goto("delete_case4", cur)
      BY <1>6, <2>3, Unchanged DEF delete_case3
    <3> QED BY <1>1, <3>1, RepairStep DEF DeleteCases
  <2> QED BY <2>2, <2>3
<1>7. CASE delete_case4
  <2>1. p \in Nodes /\ s \in Nodes
    BY <1>4, <1>7 DEF delete_case4, DeleteCases
  <2>2. CASE Color(p) = "RED" /\ AllBlack(s)
    <3> DEFINE t1 == Paint(tree, s, "RED")
    <3>1. tree' = Paint(t1, p, "BLACK") /\ Goto("replace_child", held)
      BY <1>7, <2>2 DEF delete_case4
    <3>2. /\ t1 \in Tree /\ Linked(t1) /\ SameNodes(tree, t1) /\ t1.count = tree.count
      BY <1>1, <2>1, Painted
    <3> HIDE DEF t1
    <3>3. /\ tree' \in Tree /\ Linked(tree') /\ SameNodes(t1, tree')
          /\ tree'.count = t1.count
      BY <2>1, <3>1, <3>2, Painted
    <3>4. Kept
      BY <3>2, <3>3, Through DEF Kept
    <3> QED BY <1>1, <3>1, <3>4, RepairStep
  <2>3. CASE ~(Color(p) = "RED" /\ AllBlack(s))
    <3>1. Kept /\ Goto("delete_case5", cur)
      BY <1>7, <2>3, Unchanged DEF delete_case4
    <3> QED BY <1>1, <3>1, RepairStep DEF DeleteCases
  <2> QED BY <2>2, <2>3
<1>8. CASE delete_case5
  <2> DEFINE onLeft == cur = Left(p)
             near == IF onLeft THEN Left(s) ELSE Right(s)
             far  == IF onLeft THEN Right(s) ELSE Left(s)
             Turn == /\ Color(s) = "BLACK"
                     /\ node_color(far) = "BLACK"
                     /\ node_color(near) = "RED"
             t1 == Paint(tree, s, "RED")
             t2 == Paint(t1, near, "BLACK")
  <2>1. Goto("delete_case6", cur)
    BY <1>8 DEF delete_case5
  <2>2. s \in Nodes /\ Belongs(tree, s)
    BY <1>4, <1>8 DEF delete_case5, DeleteCases
  <2>3. tree' = IF Turn THEN IF onLeft THEN rotate_right(t2, s)
                                       ELSE rotate_left(t2, s)
                        ELSE tree
    BY <1>8 DEF delete_case5
  <2>4. CASE Turn
    <3>1. near # Nil
      BY <2>4 DEF node_color
    <3>2. near \in Nodes
      BY <2>2, <3>1, Relatives
    <3>3. /\ t1 \in Tree /\ Linked(t1) /\ SameNodes(tree, t1) /\ t1.count = tree.count
          /\ t1.left = tree.left /\ t1.right = tree.right
      BY <1>1, <2>2, Painted
    <3> HIDE DEF t1
    <3>4. /\ t2 \in Tree /\ Linked(t2) /\ SameNodes(t1, t2) /\ t2.count = t1.count
          /\ t2.left = t1.left /\ t2.right = t1.right
      BY <3>2, <3>3, Painted
    <3> HIDE DEF t2
    <3>5. Belongs(t2, s)
      BY <2>2, <3>3, <3>4 DEF SameNodes
    <3>6. /\ tree' \in Tree /\ Linked(tree') /\ SameNodes(t2, tree')
          /\ tree'.count = t2.count
      <4>1. CASE onLeft
        <5>1. tree' = rotate_right(t2, s) /\ t2.left[s] # Nil
          BY <2>3, <2>4, <3>1, <3>3, <3>4, <4>1 DEF Left
        <5> QED BY <2>2, <3>4, <3>5, <5>1, RotateRight
      <4>2. CASE ~onLeft
        <5>1. tree' = rotate_left(t2, s) /\ t2.right[s] # Nil
          BY <2>3, <2>4, <3>1, <3>3, <3>4, <4>2 DEF Right
        <5> QED BY <2>2, <3>4, <3>5, <5>1, RotateLeft
      <4> QED BY <4>1, <4>2
    <3>7. Kept
      BY <3>3, <3>4, <3>6, Through DEF Kept
    <3> QED BY <1>1, <2>1, <3>7, RepairStep DEF DeleteCases
  <2>5. CASE ~Turn
    <3>1. Kept
      BY <2>3, <2>5, Unchanged
    <3> QED BY <1>1, <2>1, <3>1, RepairStep DEF DeleteCases
  <2> QED BY <2>4, <2>5
<1>9. CASE delete_case6
  <2> DEFINE f == FarNephew(cur)
             c == Color(p)
             t1 == Paint(tree, s, c)
             t2 == Paint(t1, p, "BLACK")
             t3 == Paint(t2, f, "BLACK")
  <2>1. /\ p \in Nodes /\ s \in Nodes /\ f \in Nodes
        /\ p # Nil /\ Left(p) # Nil /\ Right(p) # Nil
    BY <1>4, <1>9 DEF delete_case6, DeleteCases
  <2>2. c \in {"RED", "BLACK"}
    BY <1>1, <2>1 DEF Color
  <2>3. tree' = RotateTowards(t3, cur) /\ Goto("replace_child", held)
    BY <1>9 DEF delete_case6
  <2> HIDE DEF c
  <2>4. /\ t1 \in Tree /\ Linked(t1) /\ SameNodes(tree, t1) /\ t1.count = tree.count
        /\ t1.left = tree.left /\ t1.right = tree.right /\ t1.parent = tree.parent
    <3>1. tree \in Tree /\ Linked(tree) /\ s \in Nodes
      BY <1>1, <2>1
    <3>2. t1 = Paint(tree, s, c)
      OBVIOUS
    <3> HIDE DEF t1, s
    <3> QED BY <2>2, <3>1, <3>2, Painted
  <2> HIDE DEF t1
  <2>5. /\ t2 \in Tree /\ Linked(t2) /\ SameNodes(t1, t2) /\ t2.count = t1.count
        /\ t2.left = t1.left /\ t2.right = t1.right /\ t2.parent = t1.parent
    BY <2>1, <2>4, Painted
  <2> HIDE DEF t2
  <2>6. /\ t3 \in Tree /\ Linked(t3) /\ SameNodes(t2, t3) /\ t3.count = t2.count
        /\ t3.left = t2.left /\ t3.right = t2.right /\ t3.parent = t2.parent
    BY <2>1, <2>5, Painted
  <2> HIDE DEF t3
  <2>7. /\ Belongs(t3, cur) /\ t3.parent[cur] # Nil
        /\ t3.left[t3.parent[cur]] # Nil /\ t3.right[t3.parent[cur]] # Nil
    BY <1>1, <2>1, <2>4, <2>5, <2>6 DEF SameNodes, Left, Right, Parent
  <2>8. /\ tree' \in Tree /\ Linked(tree') /\ SameNodes(t3, tree')
        /\ tree'.count = t3.count
    BY <1>1, <2>3, <2>6, <2>7, Towards
  <2>9. Kept
    BY <2>4, <2>5, <2>6, <2>8, Through DEF Kept
  <2> QED BY <1>1, <2>3, <2>9, RepairStep
<1> QED BY <1>2, <1>3, <1>5, <1>6, <1>7, <1>8, <1>9

\* The node that is taken out goes, and it alone.
LEMMA RemovedIsCounted ==
    ASSUME TreeInv, held \in Nodes, Belongs(tree, held),
           \A m \in Nodes : Belongs(tree', m) <=> Belongs(tree, m) /\ m # held,
           tree'.count = tree.count - 1
    PROVE  Counted'
<1>1. InTree' = InTree \ {held}
    BY DEF InTree
<1>2. IsFiniteSet(InTree) /\ held \in InTree
    BY TreeAssumption, FS_Subset DEF InTree
<1>3. Cardinality(InTree \ {held}) = Cardinality(InTree) - 1
    BY <1>2, FS_RemoveElement
<1> QED BY <1>1, <1>3 DEF TreeInv, Counted

LEMMA Hangs ==
    ASSUME NEW t \in Tree, NEW p \in NodeOrNil, NEW n \in Nodes,
           NEW c \in NodeOrNil, NEW r, r = Hang(t, p, n, c)
    PROVE  /\ r \in Tree
           /\ r.parent = t.parent /\ r.count = t.count
           /\ r.root = IF p = Nil THEN c ELSE t.root
           /\ \A m \in Nodes : r.left[m] =
                  IF m = p /\ t.left[p] = n THEN c ELSE t.left[m]
           /\ \A m \in Nodes : r.right[m] =
                  IF m = p /\ t.left[p] # n THEN c ELSE t.right[m]
BY TreeAssumption DEF Hang, Tree, Links, NodeOrNil

LEMMA ReplaceChildKeeps ==
    ASSUME TreeInv, TakenForGranted, replace_child
    PROVE  TreeInv' /\ Cut(tree, cur, OnlyChild(cur), tree')
<1> USE TreeAssumption
<1> DEFINE c == OnlyChild(cur)
           p == Parent(cur)
           a == Adopt(tree, c, p)
           h == Hang(a, p, cur, c)
           b == IF p = Nil /\ c # Nil THEN Paint(h, c, "BLACK") ELSE h
<1>1. /\ cur = held /\ cur \in Nodes /\ Belongs(tree, cur)
      /\ op = "delete" /\ found /\ ~Holding
      /\ tree \in Tree /\ Linked(tree)
      /\ val' = val /\ UNCHANGED call
      /\ Left(cur) = Nil \/ Right(cur) = Nil
    BY DEF TreeInv, Shape, Given, Deleting, Holding, replace_child,
           TakenForGranted
<1>2. /\ tree.left \in Links /\ tree.right \in Links /\ tree.parent \in Links
      /\ tree.root \in NodeOrNil /\ tree.count \in Int
      /\ tree.color \in [Nodes -> {"RED", "BLACK"}]
    BY <1>1 DEF Tree
<1>3. p \in NodeOrNil /\ c \in NodeOrNil
    BY <1>1, <1>2 DEF Parent, OnlyChild, Left, Right, Links
<1>4. tree' = [b EXCEPT !.count = @ - 1] /\ Goto("return", Nil)
    BY DEF replace_child
<1>5. /\ a \in Tree
      /\ a.root = tree.root /\ a.count = tree.count
      /\ a.left = tree.left /\ a.right = tree.right
      /\ \A m \in Nodes : a.parent[m] = IF m = c THEN p ELSE tree.parent[m]
    BY <1>1, <1>2, <1>3 DEF Adopt, Tree, Links, NodeOrNil
<1> HIDE DEF a
<1>6. /\ h \in Tree
      /\ h.parent = a.parent /\ h.count = a.count
      /\ h.root = IF p = Nil THEN c ELSE a.root
      /\ \A m \in Nodes : h.left[m] =
              IF m = p /\ a.left[p] = cur THEN c ELSE a.left[m]
      /\ \A m \in Nodes : h.right[m] =
              IF m = p /\ a.left[p] # cur THEN c ELSE a.right[m]
  <2>1. a \in Tree /\ cur \in Nodes /\ p \in NodeOrNil /\ c \in NodeOrNil
    BY <1>1, <1>3, <1>5
  <2>2. h = Hang(a, p, cur, c)
    OBVIOUS
  <2> HIDE DEF h, p, c
  <2> QED BY <2>1, <2>2, Hangs
<1> HIDE DEF h
<1>7. /\ b \in Tree
      /\ b.root = h.root /\ b.left = h.left /\ b.right = h.right
      /\ b.parent = h.parent /\ b.count = h.count
  <2>1. CASE p = Nil /\ c # Nil
    <3>1. b = Paint(h, c, "BLACK") /\ c \in Nodes
      BY <1>3, <2>1 DEF NodeOrNil
    <3> HIDE DEF b, c
    <3> QED BY <1>6, <3>1, Colours
  <2>2. CASE ~(p = Nil /\ c # Nil)
    BY <1>6, <2>2
  <2> QED BY <2>1, <2>2
<1> HIDE DEF b
<1>8. /\ tree' \in Tree
      /\ tree'.root = b.root /\ tree'.left = b.left /\ tree'.right = b.right
      /\ tree'.parent = b.parent /\ tree'.count = b.count - 1
    BY <1>4, <1>7 DEF Tree
<1>9. /\ tree'.root = IF p = Nil THEN c ELSE tree.root
      /\ \A m \in Nodes : tree'.left[m] =
              IF m = p /\ tree.left[p] = cur THEN c ELSE tree.left[m]
      /\ \A m \in Nodes : tree'.right[m] =
              IF m = p /\ tree.left[p] # cur THEN c ELSE tree.right[m]
      /\ \A m \in Nodes : tree'.parent[m] =
              IF m = c THEN p ELSE tree.parent[m]
      /\ tree'.count = tree.count - 1
    BY <1>5, <1>6, <1>7, <1>8
<1>10. /\ Linked(tree')
       /\ \A m \in Nodes : Belongs(tree', m) <=> Belongs(tree, m) /\ m # cur
  <2>1. CASE Left(cur) = Nil
    <3>1. c = tree.right[cur] /\ p = tree.parent[cur] /\ tree.left[cur] = Nil
      BY <2>1 DEF OnlyChild, Left, Right, Parent
    <3>2. Removed(tree, cur, tree')
      BY <1>9, <3>1 DEF Removed
    <3> QED BY <1>1, <1>8, <3>1, <3>2, Removal
  <2>2. CASE Left(cur) # Nil
    <3> DEFINE M == Mirrored(tree)
               N == Mirrored(tree')
    <3>1. /\ c = tree.left[cur] /\ p = tree.parent[cur]
          /\ tree.right[cur] = Nil
      BY <1>1, <2>2 DEF OnlyChild, Left, Right, Parent
    <3>2. /\ M \in Tree /\ Linked(M) /\ \A n : Belongs(M, n) <=> Belongs(tree, n)
          /\ M.root = tree.root /\ M.parent = tree.parent
          /\ M.left = tree.right /\ M.right = tree.left
      <4>1. M \in Tree /\ Linked(M) /\ \A n : Belongs(M, n) <=> Belongs(tree, n)
        BY <1>1, Mirror
      <4> QED BY <1>1, <4>1 DEF Mirrored, Tree
    <3>3. /\ N \in Tree /\ (Linked(N) <=> Linked(tree'))
          /\ \A n : Belongs(N, n) <=> Belongs(tree', n)
          /\ N.root = tree'.root /\ N.parent = tree'.parent
          /\ N.left = tree'.right /\ N.right = tree'.left
      <4>1. /\ N \in Tree /\ (Linked(N) <=> Linked(tree'))
            /\ \A n : Belongs(N, n) <=> Belongs(tree', n)
        BY <1>8, Mirror
      <4> QED BY <1>8, <4>1 DEF Mirrored, Tree
    <3> HIDE DEF M, N
    <3>4. p # Nil => (tree.left[p] = cur <=> tree.right[p] # cur)
      BY <1>1, <1>2, <3>1 DEF Linked, LinkedAt, Belongs, Links, NodeOrNil
    <3>5. p # Nil => p \in Nodes
      BY <1>3 DEF NodeOrNil
    <3>6. Removed(M, cur, N)
      BY <1>9, <3>1, <3>2, <3>3, <3>4, <3>5 DEF Removed
    <3>7. /\ Linked(N)
          /\ \A m \in Nodes : Belongs(N, m) <=> Belongs(M, m) /\ m # cur
      BY <1>1, <3>1, <3>2, <3>3, <3>6, Removal
    <3> QED BY <3>2, <3>3, <3>7
  <2> QED BY <2>1, <2>2
<1>11. Counted'
    BY <1>1, <1>9, <1>10, RemovedIsCounted
<1>12. Shape'
    BY <1>1, <1>4, <1>8 DEF TreeInv, Shape, Goto, call, Pcs, NodeOrNil
<1>13. pc' = "return" /\ held' = held /\ op' = op /\ found' = found
    BY <1>1, <1>4 DEF Goto, call
<1>14. Allocated'
    BY <1>1, <1>10, <1>13 DEF TreeInv, Allocated, Holding
<1>15. Given'
    BY <1>13 DEF Given, InsertCases, Deleting, DeleteCases
<1>16. Cut(tree, cur, OnlyChild(cur), tree')
    BY <1>9, <1>10 DEF Cut, Parent
<1> QED BY <1>10, <1>11, <1>12, <1>14, <1>15, <1>16 DEF TreeInv

-----------------------------------------------------------------------------
(* The red-black rules in the middle of a call *)

Black(t, n) == n = Nil \/ t.color[n] = "BLACK"

\* A delete looks at the tree as if the node z it takes out were gone: z
\* counts for no black node, and its child, if red, has z's parent above it.
\* Below d one black node is missing on every way.
Weight(t, z, n) == IF n # z /\ t.color[n] = "BLACK" THEN 1 ELSE 0

Due(h, d, n) == IF n = d /\ n # Nil THEN h[n] + 1 ELSE h[n]

\* h[n] black nodes are on every way down from n.
EvenAt(t, h, z, d, n) ==
    /\ h[n] = Due(h, d, t.left[n]) + Weight(t, z, n)
    /\ h[n] = Due(h, d, t.right[n]) + Weight(t, z, n)

Even(t, h, z, d) ==
    /\ h \in [NodeOrNil -> Nat]
    /\ h[Nil] = 0
    /\ \A n \in Nodes : Belongs(t, n) => EvenAt(t, h, z, d, n)

\* n has no red parent; as long as a node is missing below z itself, the child
\* of z may have one.
RedAt(t, z, d, n) ==
    t.color[n] = "RED" =>
        IF t.parent[n] = z /\ z # Nil THEN d = z \/ Black(t, t.parent[z])
                                      ELSE Black(t, t.parent[n])

\* No node but e, the one an insertion is about to set right, has one.
Reds(t, z, d, e) ==
    \A n \in Nodes : Belongs(t, n) /\ n # z /\ n # e => RedAt(t, z, d, n)

RootBlack(t, z, e) == Black(t, t.root) \/ t.root = z \/ t.root = e

Balance(t, z, d, e) ==
    /\ \E h : Even(t, h, z, d)
    /\ Reds(t, z, d, e)
    /\ RootBlack(t, z, e)

LEMMA MirroredFields ==
    ASSUME NEW t \in Tree
    PROVE  /\ Mirrored(t).root = t.root /\ Mirrored(t).parent = t.parent
           /\ Mirrored(t).left = t.right /\ Mirrored(t).right = t.left
           /\ Mirrored(t).color = t.color
BY DEF Mirrored, Tree

LEMMA MirroredBalance ==
    ASSUME NEW t \in Tree, NEW z, NEW d, NEW e
    PROVE  /\ \A h : Even(Mirrored(t), h, z, d) <=> Even(t, h, z, d)
           /\ Reds(Mirrored(t), z, d, e) <=> Reds(t, z, d, e)
           /\ RootBlack(Mirrored(t), z, e) <=> RootBlack(t, z, e)
           /\ Balance(Mirrored(t), z, d, e) <=> Balance(t, z, d, e)
<1> DEFINE r == Mirrored(t)
<1>1. /\ r.root = t.root /\ r.parent = t.parent /\ r.color = t.color
      /\ r.left = t.right /\ r.right = t.left
      /\ \A n : Belongs(r, n) <=> Belongs(t, n)
    BY MirroredFields, Mirror
<1> HIDE DEF r
<1>2. ASSUME NEW h PROVE Even(r, h, z, d) <=> Even(t, h, z, d)
  <2>1. \A n : EvenAt(r, h, z, d, n) <=> EvenAt(t, h, z, d, n)
    <3> TAKE n
    <3>1. Weight(r, z, n) = Weight(t, z, n)
      BY <1>1 DEF Weight
    <3>2. EvenAt(r, h, z, d, n) <=>
            /\ h[n] = Due(h, d, t.right[n]) + Weight(t, z, n)
            /\ h[n] = Due(h, d, t.left[n]) + Weight(t, z, n)
      BY <1>1, <3>1, Zenon DEF EvenAt
    <3> QED BY <3>2, Zenon DEF EvenAt
  <2> QED BY <1>1, <2>1, Zenon DEF Even
<1>3. Reds(r, z, d, e) <=> Reds(t, z, d, e)
    BY <1>1, Zenon DEF Reds, RedAt, Black
<1>4. RootBlack(r, z, e) <=> RootBlack(t, z, e)
    BY <1>1, Zenon DEF RootBlack, Black
<1> QED BY <1>2, <1>3, <1>4, Zenon DEF Balance, r

\* A node of the tree with a right child, and the nodes about it.
LEMMA Family ==
    ASSUME NEW t \in Tree, NEW n \in Nodes,
           Linked(t), Belongs(t, n), t.right[n] # Nil
    PROVE  LET c == t.right[n]
               p == t.parent[n]
               u == t.left[n]
               i == t.left[c]
               o == t.right[c]
           IN  /\ c \in Nodes /\ Belongs(t, c) /\ t.parent[c] = n
               /\ u # Nil => u \in Nodes /\ Belongs(t, u) /\ t.parent[u] = n
               /\ i # Nil => i \in Nodes /\ Belongs(t, i) /\ t.parent[i] = c
               /\ o # Nil => o \in Nodes /\ Belongs(t, o) /\ t.parent[o] = c
               /\ p # Nil => p \in Nodes /\ Belongs(t, p)
               /\ n # c /\ n # p /\ n # u /\ n # i /\ n # o
               /\ c # p /\ c # u /\ c # i /\ c # o
               /\ p # Nil => p # u /\ p # i /\ p # o
               /\ u # Nil => u # i /\ u # o
               /\ i # Nil => i # o
<1> DEFINE c == t.right[n]
           p == t.parent[n]
           u == t.left[n]
           i == t.left[c]
           o == t.right[c]
<1>0. t.left \in Links /\ t.right \in Links /\ t.parent \in Links
    BY Fields
<1>1. /\ c \in Nodes /\ Belongs(t, c) /\ t.parent[c] = n
      /\ c # n /\ c # p /\ p # n
    BY <1>0, Apart, TreeAssumption DEF NodeOrNil, Links, Linked, LinkedAt, Belongs
<1>2. LinkedAt(t, n) /\ LinkedAt(t, c)
    BY <1>1 DEF Linked
<1>3. /\ u # Nil => u \in Nodes /\ Belongs(t, u) /\ t.parent[u] = n
      /\ i # Nil => i \in Nodes /\ Belongs(t, i) /\ t.parent[i] = c
      /\ o # Nil => o \in Nodes /\ Belongs(t, o) /\ t.parent[o] = c
      /\ p # Nil => p \in Nodes /\ Belongs(t, p)
    BY <1>0, <1>1, <1>2, TreeAssumption DEF NodeOrNil, Links, LinkedAt, Belongs
<1>4. /\ n # u /\ n # i /\ n # o /\ c # u /\ c # i /\ c # o
      /\ u # Nil => u # i /\ u # o
      /\ i # Nil => i # o
    BY <1>1, <1>2, <1>3, TreeAssumption DEF LinkedAt
<1>5. ASSUME p # Nil PROVE p # u /\ p # i /\ p # o
  <2>1. ASSUME p = u PROVE FALSE
    <3>1. \A m \in {n, u} : Belongs(t, m) /\ t.parent[m] \in {n, u}
      BY <1>3, <1>5, <2>1
    <3> QED BY <1>3, <1>5, <2>1, <3>1 DEF Linked, NoCycle
  <2>2. ASSUME NEW x \in {i, o}, p = x PROVE FALSE
    <3>1. x \in Nodes /\ Belongs(t, x) /\ t.parent[x] = c
      BY <1>3, <1>5, <2>2
    <3> HIDE DEF i, o
    <3>2. \A m \in {n, c, x} : Belongs(t, m) /\ t.parent[m] \in {n, c, x}
      BY <1>1, <2>2, <3>1
    <3> QED BY <1>1, <3>1, <3>2 DEF Linked, NoCycle
  <2> QED BY <2>1, <2>2
<1> QED BY <1>1, <1>3, <1>4, <1>5

\* A rotation about n that exchanges the colours of n and its red child keeps
\* the ways down even.
LEMMA SwapEven ==
    ASSUME NEW t \in Tree, NEW n \in Nodes, NEW r \in Tree,
           Linked(t), Belongs(t, n), t.right[n] # Nil, Turned(t, n, r),
           t.color[t.right[n]] = "RED",
           r.color[n] = "RED", r.color[t.right[n]] = t.color[n],
           \A m \in Nodes : m # n /\ m # t.right[n] => r.color[m] = t.color[m],
           NEW z, n # z, t.right[n] # z,
           NEW d, n # d, t.right[n] # d,
           NEW h, Even(t, h, z, d)
    PROVE  \E g : Even(r, g, z, d)
<1> DEFINE c == t.right[n]
           p == t.parent[n]
           u == t.left[n]
           i == t.left[c]
           o == t.right[c]
           g == [h EXCEPT ![n] = h[c], ![c] = h[n]]
<1>1. /\ c \in Nodes /\ Belongs(t, c) /\ t.parent[c] = n
      /\ n # c /\ n # p /\ n # u /\ n # i /\ n # o
      /\ c # p /\ c # u /\ c # i /\ c # o
      /\ n \in NodeOrNil /\ c \in NodeOrNil /\ Nil \notin Nodes
    BY Family, TreeAssumption DEF NodeOrNil
<1>2. \A m \in Nodes : Belongs(r, m) <=> Belongs(t, m)
    BY Rotation
<1>3. h \in [NodeOrNil -> Nat] /\ h[Nil] = 0
      /\ \A m \in Nodes : Belongs(t, m) => EvenAt(t, h, z, d, m)
    BY DEF Even
<1>4. /\ \A m \in Nodes : r.left[m] = IF m = c THEN n
                                  ELSE IF m = p /\ t.left[p] = n THEN c ELSE t.left[m]
      /\ \A m \in Nodes : r.right[m] = IF m = n THEN i
                                  ELSE IF m = p /\ t.left[p] # n THEN c ELSE t.right[m]
    BY Zenon DEF Turned
<1>5. /\ g \in [NodeOrNil -> Nat] /\ g[n] = h[c] /\ g[c] = h[n]
      /\ \A m \in NodeOrNil : m # n /\ m # c => g[m] = h[m]
    BY <1>1, <1>3
<1>6. Belongs(t, n) /\ EvenAt(t, h, z, d, n) /\ EvenAt(t, h, z, d, c)
    BY <1>1, <1>3
<1>7. t.left \in Links /\ t.right \in Links /\ t.parent \in Links
    BY Fields
<1>8. /\ u \in NodeOrNil /\ i \in NodeOrNil /\ o \in NodeOrNil
    BY <1>1, <1>7 DEF Links
<1> HIDE DEF g
<1>9. \A m \in NodeOrNil : m # n /\ m # c => Due(g, d, m) = Due(h, d, m)
    BY <1>5 DEF Due
<1>10. Due(g, d, n) = h[c] /\ Due(g, d, c) = h[n]
       /\ Due(h, d, n) = h[n] /\ Due(h, d, c) = h[c]
    BY <1>5 DEF Due
<1>11. /\ Weight(t, z, c) = 0 /\ Weight(r, z, n) = 0
       /\ Weight(r, z, c) = Weight(t, z, n)
       /\ \A m \in Nodes : m # n /\ m # c => Weight(r, z, m) = Weight(t, z, m)
    BY <1>1 DEF Weight
<1>12. /\ Due(h, d, i) = h[c] /\ Due(h, d, o) = h[c] /\ Due(h, d, u) = h[c]
       /\ h[n] = h[c] + Weight(t, z, n)
  <2>1. /\ h[c] = Due(h, d, i) + 0 /\ h[c] = Due(h, d, o) + 0
        /\ h[n] = Due(h, d, u) + Weight(t, z, n)
        /\ h[n] = h[c] + Weight(t, z, n)
    BY <1>6, <1>10, <1>11 DEF EvenAt
  <2>2. h[c] \in Nat /\ \A x \in NodeOrNil : Due(h, d, x) \in Nat
    BY <1>1, <1>3 DEF Due
  <2>3. Weight(t, z, n) \in Nat
    BY DEF Weight
  <2> HIDE DEF c, p, u, i, o
  <2> QED BY <1>8, <2>1, <2>2, <2>3
<1>13. EvenAt(r, g, z, d, n)
  <2>1. r.left[n] = u /\ r.right[n] = i
    BY <1>1, <1>4, Zenon
  <2>2. Due(g, d, u) = h[c] /\ Due(g, d, i) = h[c]
    BY <1>1, <1>8, <1>9, <1>12, Zenon
  <2>3. h[c] \in Nat
    BY <1>1, <1>3
  <2> HIDE DEF c, u, i
  <2> QED BY <1>5, <1>11, <2>1, <2>2, <2>3 DEF EvenAt
<1>14. EvenAt(r, g, z, d, c)
  <2>1. r.left[c] = n /\ r.right[c] = o
    BY <1>1, <1>4, Zenon
  <2>2. Due(g, d, n) = h[c] /\ Due(g, d, o) = h[c]
    BY <1>1, <1>8, <1>9, <1>10, <1>12, Zenon
  <2> QED BY <1>5, <1>11, <1>12, <2>1, <2>2, Zenon DEF EvenAt
<1>15. ASSUME NEW m \in Nodes, Belongs(t, m), m # n, m # c
       PROVE  EvenAt(r, g, z, d, m)
  <2>1. EvenAt(t, h, z, d, m) /\ LinkedAt(t, m)
    BY <1>3, <1>15 DEF Linked
  <2>2. t.left[m] \in NodeOrNil /\ t.right[m] \in NodeOrNil
    BY <1>7 DEF Links
  <2>3. g[m] = h[m] /\ Weight(r, z, m) = Weight(t, z, m)
    BY <1>5, <1>11, <1>15 DEF NodeOrNil
  <2>4. t.left[m] # c /\ t.right[m] # c
    BY <1>1, <1>15, <2>1 DEF LinkedAt
  <2>5. (t.left[m] = n \/ t.right[m] = n) => m = p
    BY <1>1, <2>1 DEF LinkedAt
  <2>6. Due(g, d, r.left[m]) = Due(h, d, t.left[m])
    <3>1. CASE m = p /\ t.left[p] = n
      <4>1. r.left[m] = c
        BY <1>4, <1>15, <3>1, Zenon
      <4> QED BY <1>10, <3>1, <4>1, Zenon
    <3>2. CASE ~(m = p /\ t.left[p] = n)
      <4>1. r.left[m] = t.left[m] /\ t.left[m] # n
        BY <1>4, <1>15, <2>5, <3>2, Zenon
      <4> QED BY <1>9, <2>2, <2>4, <4>1, Zenon
    <3> QED BY <3>1, <3>2
  <2>7. Due(g, d, r.right[m]) = Due(h, d, t.right[m])
    <3>1. CASE m = p /\ t.left[p] # n
      <4>1. r.right[m] = c
        BY <1>1, <1>4, <1>15, <3>1, Zenon
      <4>2. t.right[m] = n
        BY <1>15, <3>1, Apart, TreeAssumption
      <4> QED BY <1>10, <3>1, <4>1, <4>2, Zenon
    <3>2. CASE ~(m = p /\ t.left[p] # n)
      <4>1. r.right[m] = t.right[m]
        BY <1>4, <1>15, <3>2, Zenon
      <4>2. t.right[m] # n
        BY <1>1, <2>1, <2>5, <3>2 DEF LinkedAt
      <4> QED BY <1>9, <2>2, <2>4, <4>1, <4>2, Zenon
    <3> QED BY <3>1, <3>2
  <2> QED BY <2>1, <2>3, <2>6, <2>7, Zenon DEF EvenAt
<1>16. Even(r, g, z, d)
  <2>1. g[Nil] = 0
    BY <1>1, <1>3, <1>5 DEF NodeOrNil
  <2> QED BY <1>2, <1>5, <1>13, <1>14, <1>15, <2>1, Zenon DEF Even
<1> QED BY <1>16

\* z is none of the nodes whose links or colours a rotation about n changes.
Aside(t, n, z, d) ==
    z # Nil => /\ z # n /\ z # t.right[n] /\ z # t.left[t.right[n]]
               /\ z # t.parent[n]
               /\ z = d \/ (t.parent[z] # n /\ t.parent[z] # t.right[n])

\* It leaves no red node with a red parent either, if the left child of n is
\* black.  If n was red itself, its child having been the exception, n is now.
LEMMA SwapReds ==
    ASSUME NEW t \in Tree, NEW n \in Nodes, NEW r \in Tree,
           Linked(t), Belongs(t, n), t.right[n] # Nil, Turned(t, n, r),
           t.color[t.right[n]] = "RED",
           r.color[n] = "RED", r.color[t.right[n]] = t.color[n],
           \A m \in Nodes : m # n /\ m # t.right[n] => r.color[m] = t.color[m],
           NEW z, NEW d, Aside(t, n, z, d),
           NEW e, Reds(t, z, d, e), RootBlack(t, z, e),
           t.left[n] = z \/ Black(t, t.left[n]),
           NEW f,
           \/ t.color[n] = "BLACK" /\ f = Nil /\ e \in {Nil, t.right[t.right[n]]}
           \/ t.color[n] = "RED" /\ f = n /\ e = t.right[n]
    PROVE  Reds(r, z, d, f) /\ RootBlack(r, z, f)
<1> DEFINE c == t.right[n]
           p == t.parent[n]
           u == t.left[n]
           i == t.left[c]
           o == t.right[c]
<1>1. /\ c \in Nodes /\ Belongs(t, c) /\ t.parent[c] = n
      /\ u # Nil => u \in Nodes /\ Belongs(t, u) /\ t.parent[u] = n
      /\ i # Nil => i \in Nodes /\ Belongs(t, i) /\ t.parent[i] = c
      /\ o # Nil => o \in Nodes /\ Belongs(t, o) /\ t.parent[o] = c
      /\ p # Nil => p \in Nodes /\ Belongs(t, p)
      /\ n # c /\ n # p /\ n # u /\ n # i /\ n # o
      /\ c # p /\ c # u /\ c # i /\ c # o
      /\ p # Nil => p # u /\ p # i /\ p # o
      /\ u # Nil => u # i /\ u # o
      /\ i # Nil => i # o
      /\ Nil \notin Nodes
    BY Family, TreeAssumption
<1>2. \A m \in Nodes : Belongs(r, m) <=> Belongs(t, m)
    BY Rotation
<1>3. /\ r.root = IF p = Nil THEN c ELSE t.root
      /\ \A m \in Nodes : r.parent[m] = IF m = n THEN c ELSE IF m = c THEN p
                                   ELSE IF m = i THEN n ELSE t.parent[m]
    BY Zenon DEF Turned
<1>4. \A m \in Nodes : Belongs(t, m) /\ m # z /\ m # e => RedAt(t, z, d, m)
    BY DEF Reds
<1>5. z # Nil => /\ z # n /\ z # c /\ z # i /\ z # p
                 /\ z = d \/ (t.parent[z] # n /\ t.parent[z] # c)
    BY DEF Aside
<1>6. t.color[c] = "RED" /\ r.color[n] = "RED" /\ r.color[c] = t.color[n]
      /\ \A m \in Nodes : m # n /\ m # c => r.color[m] = t.color[m]
    OBVIOUS
<1>7. \/ t.color[n] = "BLACK" /\ f = Nil /\ (e = Nil \/ e = o)
      \/ t.color[n] = "RED" /\ f = n /\ e = c
    OBVIOUS
<1>8. /\ n # z /\ c # z /\ n # e /\ (i # Nil => i # e) /\ (i # Nil => i # z)
    BY <1>1, <1>5, <1>7
<1>9. u = z \/ Black(t, u)
    OBVIOUS
\* The children of a node of the tree, and the children of z.
<1>10. \A m \in Nodes : Belongs(t, m) /\ m # n /\ m # c /\ m # i /\ m # o /\ m # u
             => t.parent[m] # n /\ t.parent[m] # c
  <2>1. ASSUME NEW m \in Nodes, Belongs(t, m), t.parent[m] = n
        PROVE  m = c \/ m = u
    <3>1. t.root # m
      BY <1>1, <2>1 DEF Linked
    <3> QED BY <2>1, <3>1 DEF Belongs
  <2>2. ASSUME NEW m \in Nodes, Belongs(t, m), t.parent[m] = c
        PROVE  m = i \/ m = o
    <3>1. t.root # m
      BY <1>1, <2>2 DEF Linked
    <3> QED BY <2>2, <3>1 DEF Belongs
  <2> QED BY <2>1, <2>2
<1>11. RootBlack(t, z, e) /\ (t.root # Nil => t.parent[t.root] = Nil)
       /\ (p = Nil => t.root = n)
    BY DEF Linked, Belongs
<1> HIDE DEF c, p, u, i, o
<1>12. ASSUME NEW m \in Nodes, Belongs(t, m), m # z, m # f, r.color[m] = "RED"
       PROVE  IF r.parent[m] = z /\ z # Nil THEN d = z \/ Black(r, r.parent[z])
                                            ELSE Black(r, r.parent[m])
  <2>1. CASE m = n
    <3>1. r.parent[m] = c /\ r.color[c] = "BLACK"
      BY <1>3, <1>6, <1>7, <1>12, <2>1
    <3> QED BY <1>8, <3>1 DEF Black
  <2>2. CASE m = c
    <3>1. t.color[n] = "RED" /\ r.parent[m] = p
      BY <1>1, <1>3, <1>6, <1>12, <2>2
    <3>2. IF p = z /\ z # Nil THEN d = z \/ Black(t, t.parent[z]) ELSE Black(t, p)
      BY <1>4, <1>8, <3>1 DEF RedAt, p
    <3>3. Black(t, p)
      BY <1>5, <3>2
    <3>4. Black(r, p)
      BY <1>1, <1>6, <3>3 DEF Black
    <3> QED BY <1>5, <3>1, <3>4
  <2>3. CASE m = i
    <3>1. RedAt(t, z, d, m) /\ t.parent[m] = c /\ t.color[m] = "RED"
      BY <1>1, <1>4, <1>6, <1>8, <1>12, <2>3
    <3>2. Black(t, c)
      BY <1>8, <3>1 DEF RedAt
    <3> QED BY <1>1, <1>6, <3>2 DEF Black
  <2>4. CASE m = o
    <3>1. t.parent[m] = c /\ r.parent[m] = c /\ t.color[m] = "RED"
      BY <1>1, <1>3, <1>6, <1>12, <2>4
    <3>2. CASE m = e
      BY <1>1, <1>6, <1>7, <1>8, <2>4, <3>1, <3>2 DEF Black
    <3>3. CASE m # e
      <4>1. Black(t, c)
        BY <1>4, <1>8, <1>12, <3>1, <3>3 DEF RedAt
      <4> QED BY <1>1, <1>6, <4>1 DEF Black
    <3> QED BY <3>2, <3>3
  <2>5. CASE m = u
    BY <1>1, <1>6, <1>9, <1>12, <2>5 DEF Black
  <2>6. CASE m # n /\ m # c /\ m # i /\ m # o /\ m # u
    <3>1. t.parent[m] # n /\ t.parent[m] # c /\ r.parent[m] = t.parent[m]
          /\ t.color[m] = "RED"
      BY <1>3, <1>6, <1>10, <1>12, <2>6
    <3>2. m # e
      BY <1>1, <1>7, <2>6
    <3>3. IF t.parent[m] = z /\ z # Nil THEN d = z \/ Black(t, t.parent[z])
                                       ELSE Black(t, t.parent[m])
      BY <1>4, <1>12, <3>1, <3>2 DEF RedAt
    <3>4. \A x \in NodeOrNil : x # n /\ x # c /\ Black(t, x) => Black(r, x)
      BY <1>6 DEF Black, NodeOrNil
    <3>5. \A x \in Nodes : t.parent[x] \in NodeOrNil
      BY Fields DEF Links
    <3>6. CASE t.parent[m] = z /\ z # Nil /\ d # z
      <4>1. z \in Nodes /\ r.parent[z] = t.parent[z]
        BY <1>3, <1>5, <3>5, <3>6 DEF NodeOrNil
      <4>2. Black(t, t.parent[z]) /\ t.parent[z] # n /\ t.parent[z] # c
        BY <1>5, <3>3, <3>6
      <4> QED BY <3>1, <3>4, <3>5, <3>6, <4>1, <4>2
    <3>7. CASE t.parent[m] = z /\ z # Nil /\ d = z
      BY <3>1, <3>7
    <3>8. CASE ~(t.parent[m] = z /\ z # Nil)
      BY <3>1, <3>3, <3>4, <3>5, <3>8
    <3> QED BY <3>6, <3>7, <3>8
  <2> QED BY <2>1, <2>2, <2>3, <2>4, <2>5, <2>6
<1>13. Reds(r, z, d, f)
    BY <1>2, <1>12, Zenon DEF Reds, RedAt
<1>14. RootBlack(r, z, f)
  <2>1. CASE p = Nil
    <3>1. r.root = c /\ t.root = n
      BY <1>3, <1>11, <2>1
    <3>2. Black(t, n)
      BY <1>8, <1>11, <3>1 DEF RootBlack
    <3> QED BY <1>1, <1>6, <3>1, <3>2 DEF RootBlack, Black
  <2>2. CASE p # Nil
    <3>1. r.root = t.root
      BY <1>3, <2>2
    <3>2. t.root # n /\ t.root # c /\ (o # Nil => t.root # o)
      BY <1>1, <1>11, <2>2 DEF p
    <3>3. t.root \in NodeOrNil
      BY Fields
    <3>4. CASE t.root = z
      BY <3>1, <3>4 DEF RootBlack
    <3>5. CASE t.root = Nil
      BY <3>1, <3>5 DEF RootBlack, Black
    <3>6. CASE t.root # z /\ t.root # Nil
      <4>1. t.root # e
        BY <1>7, <3>2, <3>6
      <4>2. Black(t, t.root)
        BY <1>11, <3>6, <4>1 DEF RootBlack
      <4> QED BY <1>6, <3>1, <3>2, <3>3, <4>2 DEF RootBlack, Black, NodeOrNil
    <3> QED BY <3>4, <3>5, <3>6
  <2> QED BY <2>1, <2>2
<1> QED BY <1>13, <1>14

\* A node with the children, the weight and the number it had, and whose
\* children owe what they owed, is as even as it was.
LEMMA EvenElsewhere ==
    ASSUME NEW t \in Tree, NEW r, NEW m \in Nodes,
           Linked(t), Belongs(t, m),
           NEW h, NEW g, NEW z, NEW y, NEW d, NEW f,
           EvenAt(t, h, z, d, m),
           r.left[m] = t.left[m], r.right[m] = t.right[m],
           g[m] = h[m], Weight(r, y, m) = Weight(t, z, m),
           Due(g, f, Nil) = Due(h, d, Nil),
           \A x \in Nodes : Belongs(t, x) /\ t.parent[x] = m
                            => Due(g, f, x) = Due(h, d, x)
    PROVE  EvenAt(r, g, y, f, m)
<1>1. /\ t.left[m] # Nil => /\ t.left[m] \in Nodes /\ Belongs(t, t.left[m])
                            /\ t.parent[t.left[m]] = m
      /\ t.right[m] # Nil => /\ t.right[m] \in Nodes /\ Belongs(t, t.right[m])
                             /\ t.parent[t.right[m]] = m
    BY Fields, TreeAssumption DEF Linked, LinkedAt, Belongs, Links, NodeOrNil
<1>2. /\ Due(g, f, t.left[m]) = Due(h, d, t.left[m])
      /\ Due(g, f, t.right[m]) = Due(h, d, t.right[m])
    BY <1>1, Zenon
<1> QED BY <1>2, Zenon DEF EvenAt

\* The last repair of a delete: the sibling comes up, black, with a red child
\* on the far side, and what was missing below d is there again.
LEMMA LevelEven ==
    ASSUME NEW t \in Tree, NEW n \in Nodes, NEW r \in Tree,
           Linked(t), Belongs(t, n), t.right[n] # Nil, Turned(t, n, r),
           t.left[n] # Nil, t.right[t.right[n]] # Nil,
           t.color[t.right[n]] = "BLACK",
           t.color[t.right[t.right[n]]] = "RED",
           r.color[n] = "BLACK", r.color[t.right[n]] = t.color[n],
           r.color[t.right[t.right[n]]] = "BLACK",
           \A m \in Nodes : m # n /\ m # t.right[n] /\ m # t.right[t.right[n]]
                            => r.color[m] = t.color[m],
           NEW z, n # z, t.right[n] # z, t.right[t.right[n]] # z,
           NEW h, Even(t, h, z, t.left[n])
    PROVE  \E g : Even(r, g, z, Nil)
<1> DEFINE c == t.right[n]
           p == t.parent[n]
           u == t.left[n]
           i == t.left[c]
           o == t.right[c]
           g == [h EXCEPT ![n] = h[c], ![c] = h[n], ![o] = h[o] + 1]
<1>1. /\ c \in Nodes /\ Belongs(t, c) /\ t.parent[c] = n
      /\ u \in Nodes /\ Belongs(t, u) /\ t.parent[u] = n
      /\ i # Nil => i \in Nodes /\ Belongs(t, i) /\ t.parent[i] = c
      /\ o \in Nodes /\ Belongs(t, o) /\ t.parent[o] = c
      /\ n # c /\ n # p /\ n # u /\ n # i /\ n # o
      /\ c # p /\ c # u /\ c # i /\ c # o
      /\ p # o /\ u # i /\ u # o /\ i # o
      /\ n \in NodeOrNil /\ c \in NodeOrNil /\ u \in NodeOrNil
      /\ i \in NodeOrNil /\ o \in NodeOrNil /\ Nil \notin Nodes
  <2>1. i \in NodeOrNil
    BY Family, TreeAssumption DEF NodeOrNil
  <2> QED BY <2>1, Family, TreeAssumption DEF NodeOrNil
<1>2. \A m \in Nodes : Belongs(r, m) <=> Belongs(t, m)
    BY Rotation
<1>3. h \in [NodeOrNil -> Nat] /\ h[Nil] = 0
      /\ \A m \in Nodes : Belongs(t, m) => EvenAt(t, h, z, u, m)
    BY DEF Even
<1>4. /\ \A m \in Nodes : r.left[m] = IF m = c THEN n
                                  ELSE IF m = p /\ t.left[p] = n THEN c ELSE t.left[m]
      /\ \A m \in Nodes : r.right[m] = IF m = n THEN i
                                  ELSE IF m = p /\ t.left[p] # n THEN c ELSE t.right[m]
    BY Zenon DEF Turned
<1>5. /\ g \in [NodeOrNil -> Nat] /\ g[n] = h[c] /\ g[c] = h[n]
      /\ g[o] = h[o] + 1
      /\ \A m \in NodeOrNil : m # n /\ m # c /\ m # o => g[m] = h[m]
    BY <1>1, <1>3
<1>6. EvenAt(t, h, z, u, n) /\ EvenAt(t, h, z, u, c) /\ EvenAt(t, h, z, u, o)
    BY <1>1, <1>3
<1>7. /\ t.color[c] = "BLACK" /\ t.color[o] = "RED"
      /\ r.color[n] = "BLACK" /\ r.color[c] = t.color[n]
      /\ r.color[o] = "BLACK" /\ n # z /\ c # z /\ o # z
      /\ \A m \in Nodes : m # n /\ m # c /\ m # o => r.color[m] = t.color[m]
    OBVIOUS
<1>8. /\ h[c] \in Nat /\ h[n] \in Nat /\ h[o] \in Nat /\ h[u] \in Nat
      /\ h[i] \in Nat
    BY <1>1, <1>3
<1>9. t.left \in Links /\ t.right \in Links
    BY Fields
<1> HIDE DEF g
<1>10. /\ Weight(t, z, c) = 1 /\ Weight(t, z, o) = 0
       /\ Weight(r, z, n) = 1 /\ Weight(r, z, o) = 1
       /\ Weight(r, z, c) = Weight(t, z, n)
       /\ \A m \in Nodes : m # n /\ m # c /\ m # o
                           => Weight(r, z, m) = Weight(t, z, m)
    BY <1>7 DEF Weight
<1>11. \A x \in NodeOrNil : Due(g, Nil, x) = g[x]
                            /\ (x # u => Due(h, u, x) = h[x])
    BY DEF Due
<1>12. Due(h, u, u) = h[u] + 1 /\ Weight(t, z, n) \in Nat
    BY <1>1 DEF Due, Weight
<1>13. /\ h[n] = h[u] + 1 + Weight(t, z, n) /\ h[n] = h[c] + Weight(t, z, n)
       /\ h[c] = h[i] + 1 /\ h[c] = h[o] + 1
  <2>1. /\ h[n] = Due(h, u, u) + Weight(t, z, n)
        /\ h[n] = Due(h, u, c) + Weight(t, z, n)
        /\ h[c] = Due(h, u, i) + Weight(t, z, c)
        /\ h[c] = Due(h, u, o) + Weight(t, z, c)
    BY <1>6, Zenon DEF EvenAt
  <2>2. /\ Due(h, u, c) = h[c] /\ Due(h, u, i) = h[i] /\ Due(h, u, o) = h[o]
    BY <1>1, <1>11, Zenon
  <2> HIDE DEF c, p, u, i, o
  <2> QED BY <1>10, <1>12, <2>1, <2>2, Zenon
<1>14. EvenAt(r, g, z, Nil, n)
  <2>1. r.left[n] = u /\ r.right[n] = i
    BY <1>1, <1>4, Zenon
  <2>2. Due(g, Nil, u) = h[u] /\ Due(g, Nil, i) = h[i]
    BY <1>1, <1>5, <1>11, Zenon
  <2>3. g[n] = h[c] /\ h[c] = h[u] + 1 /\ h[c] = h[i] + 1
    <3> HIDE DEF c, p, u, i, o
    <3> QED BY <1>5, <1>8, <1>12, <1>13
  <2> QED BY <1>10, <2>1, <2>2, <2>3, Zenon DEF EvenAt
<1>15. EvenAt(r, g, z, Nil, c)
  <2>1. r.left[c] = n /\ r.right[c] = o
    BY <1>1, <1>4, Zenon
  <2>2. Due(g, Nil, n) = h[c] /\ Due(g, Nil, o) = h[o] + 1
    BY <1>1, <1>5, <1>11, Zenon
  <2>3. g[c] = h[c] + Weight(t, z, n) /\ g[c] = (h[o] + 1) + Weight(t, z, n)
    BY <1>5, <1>13, Zenon
  <2> QED BY <1>10, <2>1, <2>2, <2>3, Zenon DEF EvenAt
<1>16. EvenAt(r, g, z, Nil, o)
  <2>1. r.left[o] = t.left[o] /\ r.right[o] = t.right[o]
    BY <1>1, <1>4, Zenon
  <2>2. LinkedAt(t, o)
    BY <1>1 DEF Linked
  <2>3. ASSUME NEW x \in {t.left[o], t.right[o]}
        PROVE  Due(g, Nil, x) = h[x] /\ Due(h, u, x) = h[x] /\ h[x] \in Nat
    <3>1. x \in NodeOrNil
      BY <1>1, <1>9 DEF Links
    <3>2. x # Nil => t.parent[x] = o
      BY <2>2 DEF LinkedAt
    <3>3. x # n /\ x # c /\ x # o /\ x # u
      <4>1. x # o
        <5>1. SUFFICES ASSUME x = o PROVE FALSE
          OBVIOUS
        <5>2. t.parent[o] = o
          BY <1>1, <3>2, <5>1
        <5> QED BY <1>1, <5>2
      <4>2. x # n
        <5>1. SUFFICES ASSUME x = n PROVE FALSE
          OBVIOUS
        <5>2. p = o
          BY <1>1, <3>2, <5>1
        <5> QED BY <1>1, <5>2
      <4> QED BY <1>1, <3>2, <4>1, <4>2
    <3> QED BY <1>3, <1>5, <1>11, <3>1, <3>3
  <2>4. /\ h[o] = Due(h, u, t.left[o]) + 0
        /\ h[o] = Due(h, u, t.right[o]) + 0
    BY <1>6, <1>10, Zenon DEF EvenAt
  <2>5. /\ g[o] = Due(g, Nil, t.left[o]) + 1
        /\ g[o] = Due(g, Nil, t.right[o]) + 1
    <3> HIDE DEF c, p, u, i, o
    <3> QED BY <1>5, <1>8, <2>3, <2>4
  <2> QED BY <1>10, <2>1, <2>5, Zenon DEF EvenAt
<1>17. ASSUME NEW m \in Nodes, Belongs(t, m), m # n, m # c, m # o
       PROVE  EvenAt(r, g, z, Nil, m)
  <2>1. EvenAt(t, h, z, u, m) /\ LinkedAt(t, m)
    BY <1>3, <1>17 DEF Linked
  <2>2. t.left[m] \in NodeOrNil /\ t.right[m] \in NodeOrNil
    BY <1>9 DEF Links
  <2>3. g[m] = h[m] /\ Weight(r, z, m) = Weight(t, z, m)
    BY <1>5, <1>10, <1>17 DEF NodeOrNil
  <2>4. /\ t.left[m] # c /\ t.right[m] # c /\ t.left[m] # o /\ t.right[m] # o
        /\ t.left[m] # u /\ t.right[m] # u
    BY <1>1, <1>17, <2>1 DEF LinkedAt
  <2>5. (t.left[m] = n \/ t.right[m] = n) => m = p
    BY <1>1, <2>1 DEF LinkedAt
  <2>6. Due(g, Nil, c) = h[n] /\ Due(h, u, n) = h[n]
    BY <1>1, <1>5, <1>11, Zenon
  <2>7. Due(g, Nil, r.left[m]) = Due(h, u, t.left[m])
    <3>1. CASE m = p /\ t.left[p] = n
      <4>1. r.left[m] = c
        BY <1>4, <1>17, <3>1, Zenon
      <4> QED BY <2>6, <3>1, <4>1, Zenon
    <3>2. CASE ~(m = p /\ t.left[p] = n)
      <4>1. r.left[m] = t.left[m] /\ t.left[m] # n
        BY <1>4, <1>17, <2>5, <3>2, Zenon
      <4> QED BY <1>5, <1>11, <2>2, <2>4, <4>1, Zenon
    <3> QED BY <3>1, <3>2
  <2>8. Due(g, Nil, r.right[m]) = Due(h, u, t.right[m])
    <3>1. CASE m = p /\ t.left[p] # n
      <4>1. r.right[m] = c
        BY <1>1, <1>4, <1>17, <3>1, Zenon
      <4>2. t.right[m] = n
        BY <1>17, <3>1, Apart, TreeAssumption
      <4> QED BY <2>6, <3>1, <4>1, <4>2, Zenon
    <3>2. CASE ~(m = p /\ t.left[p] # n)
      <4>1. r.right[m] = t.right[m]
        BY <1>4, <1>17, <3>2, Zenon
      <4>2. t.right[m] # n
        BY <1>1, <2>1, <2>5, <3>2 DEF LinkedAt
      <4> QED BY <1>5, <1>11, <2>2, <2>4, <4>1, <4>2, Zenon
    <3> QED BY <3>1, <3>2
  <2> QED BY <2>1, <2>3, <2>7, <2>8, Zenon DEF EvenAt
<1>18. Even(r, g, z, Nil)
  <2>1. g[Nil] = 0
    BY <1>1, <1>3, <1>5 DEF NodeOrNil
  <2> QED BY <1>2, <1>5, <1>14, <1>15, <1>16, <1>17, <2>1, Zenon DEF Even
<1> QED BY <1>18

LEMMA LevelReds ==
    ASSUME NEW t \in Tree, NEW n \in Nodes, NEW r \in Tree,
           Linked(t), Belongs(t, n), t.right[n] # Nil, Turned(t, n, r),
           t.right[t.right[n]] # Nil,
           r.color[n] = "BLACK", r.color[t.right[n]] = t.color[n],
           r.color[t.right[t.right[n]]] = "BLACK",
           \A m \in Nodes : m # n /\ m # t.right[n] /\ m # t.right[t.right[n]]
                            => r.color[m] = t.color[m],
           NEW z, NEW d, Aside(t, n, z, d), z # Nil, z # t.right[t.right[n]],
           z = d => t.left[n] = z,
           Reds(t, z, d, Nil), RootBlack(t, z, Nil)
    PROVE  Reds(r, z, Nil, Nil) /\ RootBlack(r, z, Nil)
<1> DEFINE c == t.right[n]
           p == t.parent[n]
           u == t.left[n]
           i == t.left[c]
           o == t.right[c]
<1>1. /\ c \in Nodes /\ Belongs(t, c) /\ t.parent[c] = n
      /\ u # Nil => u \in Nodes /\ Belongs(t, u) /\ t.parent[u] = n
      /\ i # Nil => i \in Nodes /\ Belongs(t, i) /\ t.parent[i] = c
      /\ o \in Nodes /\ Belongs(t, o) /\ t.parent[o] = c
      /\ p # Nil => p \in Nodes /\ Belongs(t, p)
      /\ n # c /\ n # p /\ n # u /\ n # i /\ n # o
      /\ c # p /\ c # u /\ c # i /\ c # o /\ p # o
      /\ Nil \notin Nodes
    BY Family, TreeAssumption
<1>2. \A m \in Nodes : Belongs(r, m) <=> Belongs(t, m)
    BY Rotation
<1>3. /\ r.root = IF p = Nil THEN c ELSE t.root
      /\ \A m \in Nodes : r.parent[m] = IF m = n THEN c ELSE IF m = c THEN p
                                   ELSE IF m = i THEN n ELSE t.parent[m]
    BY Zenon DEF Turned
<1>4. \A m \in Nodes : Belongs(t, m) /\ m # z => RedAt(t, z, d, m)
    BY TreeAssumption DEF Reds
<1>5. /\ z # Nil /\ z # n /\ z # c /\ z # i /\ z # p /\ z # o
      /\ z = d \/ (t.parent[z] # n /\ t.parent[z] # c)
      /\ z = d => u = z
    BY DEF Aside
<1>6. /\ r.color[n] = "BLACK" /\ r.color[c] = t.color[n]
      /\ r.color[o] = "BLACK"
      /\ \A m \in Nodes : m # n /\ m # c /\ m # o => r.color[m] = t.color[m]
    OBVIOUS
<1>7. \A m \in Nodes : Belongs(t, m) /\ t.parent[m] = c => m = i \/ m = o
  <2>1. t.root # Nil => t.parent[t.root] = Nil
    BY DEF Linked
  <2> QED BY <1>1, <2>1 DEF Belongs
<1>8. /\ RootBlack(t, z, Nil)
      /\ t.root # Nil => t.parent[t.root] = Nil
      /\ p = Nil => t.root = n
    BY DEF Linked, Belongs
<1>9. \A x \in Nodes : t.parent[x] \in NodeOrNil
    BY Fields DEF Links
<1> HIDE DEF c, p, u, i, o
\* What was black still is, but for the node that came up.
<1>10. \A x \in NodeOrNil : x # c /\ Black(t, x) => Black(r, x)
  <2>1. \A x \in Nodes : x # c /\ t.color[x] = "BLACK" => r.color[x] = "BLACK"
    BY <1>6
  <2> QED BY <2>1 DEF Black, NodeOrNil
<1>11. ASSUME NEW m \in Nodes, Belongs(t, m), m # z, m # Nil,
              r.color[m] = "RED"
       PROVE  IF r.parent[m] = z /\ z # Nil THEN Nil = z \/ Black(r, r.parent[z])
                                            ELSE Black(r, r.parent[m])
  <2>1. m # n /\ m # o
    BY <1>6, <1>11
  <2>2. CASE m = c
    <3>1. t.color[n] = "RED" /\ r.parent[m] = p
      BY <1>1, <1>3, <1>6, <1>11, <2>2
    <3>2. IF p = z /\ z # Nil THEN d = z \/ Black(t, t.parent[z]) ELSE Black(t, p)
      BY <1>4, <1>5, <3>1 DEF RedAt, p
    <3>3. Black(t, p) /\ p \in NodeOrNil
      BY <1>5, <1>9, <3>2 DEF p
    <3>4. Black(r, p)
      BY <1>1, <1>10, <3>3
    <3> QED BY <1>5, <3>1, <3>4
  <2>3. CASE m = i
    <3>1. r.parent[m] = n
      BY <1>1, <1>3, <1>11, <2>1, <2>2, <2>3
    <3> QED BY <1>5, <1>6, <3>1 DEF Black
  <2>4. CASE m # c /\ m # i
    <3>1. t.color[m] = "RED" /\ r.parent[m] = t.parent[m] /\ t.parent[m] # c
      BY <1>3, <1>6, <1>7, <1>11, <2>1, <2>4
    <3>2. IF t.parent[m] = z /\ z # Nil THEN d = z \/ Black(t, t.parent[z])
                                       ELSE Black(t, t.parent[m])
      BY <1>4, <1>11, <3>1 DEF RedAt
    <3>3. CASE t.parent[m] # z
      BY <1>9, <1>10, <3>1, <3>2, <3>3
    <3>4. CASE t.parent[m] = z
      <4>1. z \in Nodes
        BY <1>5, <1>9, <3>4 DEF NodeOrNil
      <4>2. r.parent[z] = t.parent[z]
        BY <1>3, <1>5, <4>1
      <4>3. CASE z = d
        <5>1. t.parent[z] = n
          BY <1>1, <1>5, <4>3
        <5> QED BY <1>6, <3>1, <3>4, <4>2, <5>1 DEF Black
      <4>4. CASE z # d
        <5>1. Black(t, t.parent[z]) /\ t.parent[z] # c
          BY <1>5, <3>2, <3>4, <4>4
        <5>2. Black(r, r.parent[z])
          BY <1>9, <1>10, <4>1, <4>2, <5>1
        <5> QED BY <3>1, <3>4, <5>2
      <4> QED BY <4>3, <4>4
    <3> QED BY <3>3, <3>4
  <2> QED BY <2>1, <2>2, <2>3, <2>4
<1>12. Reds(r, z, Nil, Nil)
    BY <1>2, <1>11, Zenon DEF Reds, RedAt
<1>13. RootBlack(r, z, Nil)
  <2>1. CASE p = Nil
    <3>1. r.root = c /\ t.root = n
      BY <1>3, <1>8, <2>1
    <3>2. Black(t, n)
      BY <1>1, <1>5, <1>8, <3>1 DEF RootBlack
    <3> QED BY <1>1, <1>6, <3>1, <3>2 DEF RootBlack, Black
  <2>2. CASE p # Nil
    <3>1. r.root = t.root
      BY <1>3, <2>2
    <3>2. t.root # c /\ t.root \in NodeOrNil
      <4>1. t.root \in NodeOrNil
        BY Fields
      <4> QED BY <1>1, <1>8, <4>1
    <3>3. CASE t.root = z
      BY <3>1, <3>3 DEF RootBlack
    <3>4. CASE t.root # z
      <4>1. Black(t, t.root)
        BY <1>8, <3>4 DEF RootBlack, Black
      <4> QED BY <1>10, <3>1, <3>2, <4>1 DEF RootBlack
    <3> QED BY <3>3, <3>4
  <2> QED BY <2>1, <2>2
<1> QED BY <1>12, <1>13

\* The two rotations: c, a child of n, takes its place; u is the other child
\* of n, i the child of c that changes sides and o the one that does not.
Brings(t, n, c, u, i, o, r) ==
    \/ /\ c = t.right[n] /\ u = t.left[n] /\ i = t.left[c] /\ o = t.right[c]
       /\ Turned(t, n, r)
    \/ /\ c = t.left[n] /\ u = t.right[n] /\ i = t.right[c] /\ o = t.left[c]
       /\ Turned(Mirrored(t), n, Mirrored(r))

\* z is none of the nodes whose links the rotation changes.
Off(t, n, c, i, z, d) ==
    /\ z # n /\ z # c /\ z # i /\ z # t.parent[n]
    /\ z = d \/ (t.parent[z] # n /\ t.parent[z] # c)

LEMMA Swap ==
    ASSUME NEW t \in Tree, NEW n \in Nodes, NEW r \in Tree,
           Linked(t), Belongs(t, n),
           NEW c, NEW u, NEW i, NEW o, Brings(t, n, c, u, i, o, r), c # Nil,
           t.color[c] = "RED", r.color[n] = "RED", r.color[c] = t.color[n],
           \A m \in Nodes : m # n /\ m # c => r.color[m] = t.color[m],
           NEW z, NEW d, n # d, c # d, z # Nil => Off(t, n, c, i, z, d),
           NEW e, Balance(t, z, d, e),
           u = z \/ Black(t, u),
           NEW f,
           \/ t.color[n] = "BLACK" /\ f = Nil /\ e \in {Nil, o}
           \/ t.color[n] = "RED" /\ f = n /\ e = c
    PROVE  Balance(r, z, d, f)
<1>1. PICK h : Even(t, h, z, d)
    BY DEF Balance
<1>2. Reds(t, z, d, e) /\ RootBlack(t, z, e)
    BY DEF Balance
<1>3. c \in Nodes /\ n # z /\ c # z
    BY Fields, TreeAssumption DEF Brings, Off, Links, NodeOrNil
<1>4. ASSUME c = t.right[n], u = t.left[n], i = t.left[c], o = t.right[c],
             Turned(t, n, r)
      PROVE  Balance(r, z, d, f)
  <2>1. \E g : Even(r, g, z, d)
    BY <1>1, <1>3, <1>4, SwapEven
  <2>2. Aside(t, n, z, d)
    BY <1>4 DEF Aside, Off
  <2>3. Reds(r, z, d, f) /\ RootBlack(r, z, f)
    BY <1>2, <1>4, <2>2, SwapReds
  <2> QED BY <2>1, <2>3 DEF Balance
<1>5. ASSUME c = t.left[n], u = t.right[n], i = t.right[c], o = t.left[c],
             Turned(Mirrored(t), n, Mirrored(r))
      PROVE  Balance(r, z, d, f)
  <2> DEFINE M == Mirrored(t)
             N == Mirrored(r)
  <2>1. /\ M \in Tree /\ Linked(M) /\ Belongs(M, n) /\ N \in Tree
        /\ M.left = t.right /\ M.right = t.left /\ M.parent = t.parent
        /\ M.color = t.color /\ N.color = r.color
    BY Mirror, MirroredFields
  <2>2. /\ Even(M, h, z, d) /\ Reds(M, z, d, e) /\ RootBlack(M, z, e)
        /\ Balance(N, z, d, f) <=> Balance(r, z, d, f)
        /\ Black(M, u) <=> Black(t, u)
    <3>1. /\ Even(M, h, z, d) <=> Even(t, h, z, d)
          /\ Reds(M, z, d, e) <=> Reds(t, z, d, e)
          /\ RootBlack(M, z, e) <=> RootBlack(t, z, e)
          /\ Balance(N, z, d, f) <=> Balance(r, z, d, f)
      BY MirroredBalance
    <3>2. Black(M, u) <=> Black(t, u)
      BY <2>1 DEF Black
    <3> QED BY <1>1, <1>2, <3>1, <3>2
  <2>3. Turned(M, n, N)
    BY <1>5
  <2> HIDE DEF M, N
  <2>4. \E g : Even(N, g, z, d)
    BY <1>3, <1>5, <2>1, <2>2, <2>3, SwapEven
  <2>5. Aside(M, n, z, d)
    BY <1>5, <2>1 DEF Aside, Off
  <2>6. Reds(N, z, d, f) /\ RootBlack(N, z, f)
    BY <1>5, <2>1, <2>2, <2>3, <2>5, SwapReds
  <2> QED BY <2>2, <2>4, <2>6 DEF Balance
<1> QED BY <1>4, <1>5 DEF Brings

LEMMA Level ==
    ASSUME NEW t \in Tree, NEW n \in Nodes, NEW r \in Tree,
           Linked(t), Belongs(t, n),
           NEW c, NEW d, NEW i, NEW o, Brings(t, n, c, d, i, o, r),
           c # Nil, d # Nil, o # Nil,
           t.color[c] = "BLACK", t.color[o] = "RED",
           r.color[n] = "BLACK", r.color[c] = t.color[n],
           r.color[o] = "BLACK",
           \A m \in Nodes : m # n /\ m # c /\ m # o => r.color[m] = t.color[m],
           NEW z, z # Nil, z # o, Off(t, n, c, i, z, d),
           Balance(t, z, d, Nil)
    PROVE  Balance(r, z, Nil, Nil)
<1>1. PICK h : Even(t, h, z, d)
    BY DEF Balance
<1>2. Reds(t, z, d, Nil) /\ RootBlack(t, z, Nil) /\ n # z /\ c # z
    BY DEF Balance, Off
<1>4. ASSUME c = t.right[n], d = t.left[n], i = t.left[c], o = t.right[c],
             Turned(t, n, r)
      PROVE  Balance(r, z, Nil, Nil)
  <2>1. \E g : Even(r, g, z, Nil)
    BY <1>1, <1>2, <1>4, LevelEven
  <2>2. Aside(t, n, z, d)
    BY <1>4 DEF Aside, Off
  <2>3. Reds(r, z, Nil, Nil) /\ RootBlack(r, z, Nil)
    BY <1>2, <1>4, <2>2, LevelReds
  <2> QED BY <2>1, <2>3 DEF Balance
<1>5. ASSUME c = t.left[n], d = t.right[n], i = t.right[c], o = t.left[c],
             Turned(Mirrored(t), n, Mirrored(r))
      PROVE  Balance(r, z, Nil, Nil)
  <2> DEFINE M == Mirrored(t)
             N == Mirrored(r)
  <2>1. /\ M \in Tree /\ Linked(M) /\ Belongs(M, n) /\ N \in Tree
        /\ M.left = t.right /\ M.right = t.left /\ M.parent = t.parent
        /\ M.color = t.color /\ N.color = r.color
    BY Mirror, MirroredFields
  <2>2. /\ Even(M, h, z, d) /\ Reds(M, z, d, Nil) /\ RootBlack(M, z, Nil)
        /\ Balance(N, z, Nil, Nil) <=> Balance(r, z, Nil, Nil)
    BY <1>1, <1>2, MirroredBalance
  <2>3. Turned(M, n, N)
    BY <1>5
  <2> HIDE DEF M, N
  <2>4. \E g : Even(N, g, z, Nil)
    BY <1>2, <1>5, <2>1, <2>2, <2>3, LevelEven
  <2>5. Aside(M, n, z, d)
    BY <1>5, <2>1 DEF Aside, Off
  <2>6. Reds(N, z, Nil, Nil) /\ RootBlack(N, z, Nil)
    BY <1>2, <1>5, <2>1, <2>2, <2>3, <2>5, LevelReds
  <2> QED BY <2>2, <2>4, <2>6 DEF Balance
<1> QED BY <1>4, <1>5 DEF Brings

\* r has the links of t, and other colours.
Repainted(t, r) ==
    /\ r.root = t.root /\ r.parent = t.parent
    /\ r.left = t.left /\ r.right = t.right

\* A node without a parent is a child of none.
LEMMA Parents ==
    ASSUME NEW t \in Tree, Linked(t)
    PROVE  /\ \A m \in Nodes : Belongs(t, m) => t.parent[m] \in NodeOrNil
           /\ \A m \in Nodes : Belongs(t, m) /\ t.parent[m] # Nil
                  => t.parent[m] \in Nodes /\ Belongs(t, t.parent[m])
                     /\ t.parent[m] # m /\ t.root # m
                     /\ (t.left[t.parent[m]] = m \/ t.right[t.parent[m]] = m)
           /\ \A m \in Nodes : Belongs(t, m) /\ t.parent[m] = Nil => t.root = m
           /\ t.root # Nil => t.parent[t.root] = Nil /\ Belongs(t, t.root)
<1>1. t.parent \in Links
    BY Fields
<1>2. \A m \in Nodes : Belongs(t, m) /\ t.parent[m] # Nil => t.parent[m] # m
  <2> SUFFICES ASSUME NEW m \in Nodes, Belongs(t, m), t.parent[m] = m PROVE FALSE
    OBVIOUS
  <2>1. {m} \in SUBSET Nodes /\ \A x \in {m} : Belongs(t, x) /\ t.parent[x] \in {m}
    OBVIOUS
  <2> QED BY <2>1 DEF Linked, NoCycle
<1> QED BY <1>1, <1>2, TreeAssumption
        DEF Linked, LinkedAt, Belongs, Links, NodeOrNil

\* The root is painted black: one more black node on every way.
LEMMA RootPainted ==
    ASSUME NEW t \in Tree, NEW r \in Tree, NEW n \in Nodes,
           Linked(t), Repainted(t, r), t.root = n, t.color[n] = "RED",
           r.color[n] = "BLACK",
           \A m \in Nodes : m # n => r.color[m] = t.color[m],
           NEW e, e \in {Nil, n}, Reds(t, Nil, Nil, e),
           \E h : Even(t, h, Nil, Nil)
    PROVE  Balance(r, Nil, Nil, Nil)
<1>1. PICK h : Even(t, h, Nil, Nil)
    OBVIOUS
<1> DEFINE g == [h EXCEPT ![n] = h[n] + 1]
<1>2. /\ h \in [NodeOrNil -> Nat] /\ h[Nil] = 0
      /\ \A m \in Nodes : Belongs(t, m) => EvenAt(t, h, Nil, Nil, m)
      /\ n \in NodeOrNil /\ n # Nil
    BY <1>1, TreeAssumption DEF Even, NodeOrNil
<1>3. /\ g \in [NodeOrNil -> Nat] /\ g[n] = h[n] + 1 /\ g[Nil] = 0
      /\ \A m \in NodeOrNil : m # n => g[m] = h[m]
    BY <1>2 DEF NodeOrNil
<1> HIDE DEF g
<1>4. /\ \A m : Belongs(r, m) <=> Belongs(t, m)
      /\ r.left = t.left /\ r.right = t.right /\ r.parent = t.parent
      /\ r.root = n /\ t.parent[n] = Nil
    BY <1>2 DEF Repainted, Belongs, Linked
<1>5. \A x \in NodeOrNil : x # n => Due(g, Nil, x) = Due(h, Nil, x)
    BY <1>3 DEF Due
<1>6. \A m \in Nodes : m # n => Weight(r, Nil, m) = Weight(t, Nil, m)
    BY DEF Weight
<1>7. ASSUME NEW m \in Nodes, Belongs(t, m), m # n
      PROVE  EvenAt(r, g, Nil, Nil, m)
  <2>1. /\ g[m] = h[m] /\ Weight(r, Nil, m) = Weight(t, Nil, m)
        /\ Due(g, Nil, Nil) = Due(h, Nil, Nil)
        /\ \A x \in Nodes : Belongs(t, x) /\ t.parent[x] = m
                            => Due(g, Nil, x) = Due(h, Nil, x)
    BY <1>2, <1>3, <1>4, <1>5, <1>6, <1>7, TreeAssumption DEF NodeOrNil
  <2>2. r.left[m] = t.left[m] /\ r.right[m] = t.right[m]
    BY <1>4
  <2>3. EvenAt(t, h, Nil, Nil, m)
    BY <1>2, <1>7
  <2> QED BY <1>7, <2>1, <2>2, <2>3, EvenElsewhere
<1>8. EvenAt(r, g, Nil, Nil, n)
  <2>1. /\ t.left[n] \in NodeOrNil /\ t.right[n] \in NodeOrNil
        /\ t.left[n] # n /\ t.right[n] # n
    <3>1. LinkedAt(t, n)
      BY <1>4 DEF Linked, Belongs
    <3> QED BY <1>2, <1>4, <3>1, Fields DEF Links, LinkedAt
  <2>2. /\ Due(g, Nil, t.left[n]) = h[t.left[n]]
        /\ Due(g, Nil, t.right[n]) = h[t.right[n]]
        /\ Due(h, Nil, t.left[n]) = h[t.left[n]]
        /\ Due(h, Nil, t.right[n]) = h[t.right[n]]
    BY <1>3, <2>1 DEF Due
  <2>3. Weight(t, Nil, n) = 0 /\ Weight(r, Nil, n) = 1
    BY <1>2 DEF Weight
  <2>4. /\ h[n] = h[t.left[n]] + 0 /\ h[n] = h[t.right[n]] + 0
    <3>1. EvenAt(t, h, Nil, Nil, n)
      BY <1>2, <1>4 DEF Belongs
    <3> QED BY <2>2, <2>3, <3>1, Zenon DEF EvenAt
  <2>5. h[t.left[n]] \in Nat /\ h[t.right[n]] \in Nat
    BY <1>2, <2>1
  <2>6. g[n] = h[t.left[n]] + 1 /\ g[n] = h[t.right[n]] + 1
    BY <1>3, <2>4, <2>5
  <2> QED BY <1>4, <2>2, <2>3, <2>6, Zenon DEF EvenAt
<1>9. Even(r, g, Nil, Nil)
    BY <1>3, <1>4, <1>7, <1>8, Zenon DEF Even
<1>10. Reds(r, Nil, Nil, Nil)
  <2>1. ASSUME NEW m \in Nodes, Belongs(t, m)
        PROVE  RedAt(r, Nil, Nil, m)
    <3>1. CASE m = n
      BY <3>1 DEF RedAt
    <3>2. CASE m # n
      <4>1. RedAt(t, Nil, Nil, m)
        BY <1>2, <2>1, <3>2, TreeAssumption DEF Reds
      <4>2. t.parent[m] \in NodeOrNil
        BY Fields DEF Links
      <4> QED BY <1>4, <3>2, <4>1, <4>2 DEF RedAt, Black, NodeOrNil
    <3> QED BY <3>1, <3>2
  <2> QED BY <1>4, <2>1 DEF Reds
<1>11. RootBlack(r, Nil, Nil)
    BY <1>4 DEF RootBlack, Black
<1> QED BY <1>9, <1>10, <1>11 DEF Balance

\* Both children of n, red, are painted black, and n red: the exception, which
\* was below, is n.
LEMMA Handed ==
    ASSUME NEW t \in Tree, NEW r \in Tree, NEW n \in Nodes,
           Linked(t), Repainted(t, r), Belongs(t, n),
           t.left[n] # Nil, t.right[n] # Nil,
           t.color[n] = "BLACK",
           t.color[t.left[n]] = "RED", t.color[t.right[n]] = "RED",
           r.color[n] = "RED",
           r.color[t.left[n]] = "BLACK", r.color[t.right[n]] = "BLACK",
           \A m \in Nodes : m \notin {n, t.left[n], t.right[n]}
                            => r.color[m] = t.color[m],
           NEW e \in Nodes, Balance(t, Nil, Nil, e),
           t.parent[e] \in {t.left[n], t.right[n]}
    PROVE  Balance(r, Nil, Nil, n)
<1> DEFINE a == t.left[n]
           b == t.right[n]
<1>1. PICK h : Even(t, h, Nil, Nil)
    BY DEF Balance
<1> DEFINE g == [h EXCEPT ![a] = h[a] + 1, ![b] = h[b] + 1]
<1>2. /\ h \in [NodeOrNil -> Nat] /\ h[Nil] = 0
      /\ \A m \in Nodes : Belongs(t, m) => EvenAt(t, h, Nil, Nil, m)
      /\ Nil \notin Nodes
    BY <1>1, TreeAssumption DEF Even
<1>3. /\ a \in Nodes /\ Belongs(t, a) /\ t.parent[a] = n
      /\ b \in Nodes /\ Belongs(t, b) /\ t.parent[b] = n
      /\ a # b /\ n # a /\ n # b
      /\ a \in NodeOrNil /\ b \in NodeOrNil /\ n \in NodeOrNil
    BY <1>2, Family DEF NodeOrNil
<1>4. /\ \A m : Belongs(r, m) <=> Belongs(t, m)
      /\ r.left = t.left /\ r.right = t.right /\ r.parent = t.parent
      /\ r.root = t.root
    BY DEF Repainted, Belongs
<1>5. /\ t.color[n] = "BLACK" /\ t.color[a] = "RED" /\ t.color[b] = "RED"
      /\ r.color[n] = "RED" /\ r.color[a] = "BLACK" /\ r.color[b] = "BLACK"
      /\ \A m \in Nodes : m # n /\ m # a /\ m # b => r.color[m] = t.color[m]
      /\ t.parent[e] = a \/ t.parent[e] = b
    OBVIOUS
<1>6. /\ g \in [NodeOrNil -> Nat] /\ g[a] = h[a] + 1 /\ g[b] = h[b] + 1
      /\ g[Nil] = 0
      /\ \A m \in NodeOrNil : m # a /\ m # b => g[m] = h[m]
    BY <1>2, <1>3 DEF NodeOrNil
<1> HIDE DEF g
<1>7. /\ \A x \in NodeOrNil : Due(g, Nil, x) = g[x] /\ Due(h, Nil, x) = h[x]
      /\ Weight(t, Nil, n) = 1 /\ Weight(t, Nil, a) = 0 /\ Weight(t, Nil, b) = 0
      /\ Weight(r, Nil, n) = 0 /\ Weight(r, Nil, a) = 1 /\ Weight(r, Nil, b) = 1
      /\ \A m \in Nodes : m # n /\ m # a /\ m # b
                          => Weight(r, Nil, m) = Weight(t, Nil, m)
    BY <1>2, <1>3, <1>5 DEF Due, Weight
<1>8. t.left \in Links /\ t.right \in Links
    BY Fields
<1>9. EvenAt(r, g, Nil, Nil, n)
  <2>1. h[n] = h[a] + 1 /\ h[n] = h[b] + 1
    BY <1>2, <1>3, <1>7, Zenon DEF EvenAt
  <2>2. g[n] = g[a] + 0 /\ g[n] = g[b] + 0
    <3> HIDE DEF a, b
    <3> QED BY <1>2, <1>3, <1>6, <2>1
  <2> QED BY <1>3, <1>4, <1>7, <2>2, Zenon DEF EvenAt
<1>10. ASSUME NEW x \in {a, b} PROVE EvenAt(r, g, Nil, Nil, x)
  <2>1. /\ x \in Nodes /\ Belongs(t, x) /\ t.parent[x] = n
        /\ Weight(t, Nil, x) = 0 /\ Weight(r, Nil, x) = 1
        /\ g[x] = h[x] + 1 /\ EvenAt(t, h, Nil, Nil, x)
    BY <1>2, <1>3, <1>6, <1>7
  <2>2. LinkedAt(t, x)
    BY <2>1 DEF Linked
  <2>3. ASSUME NEW y \in {t.left[x], t.right[x]}
        PROVE  Due(g, Nil, y) = h[y] /\ Due(h, Nil, y) = h[y] /\ h[y] \in Nat
    <3>1. y \in NodeOrNil /\ (y # Nil => t.parent[y] = x)
      BY <1>8, <2>1, <2>2 DEF Links, LinkedAt
    <3>2. y # a /\ y # b
      <4> HIDE DEF a, b
      <4> QED BY <1>2, <1>3, <2>1, <3>1
    <3> QED BY <1>2, <1>6, <1>7, <3>1, <3>2
  <2>4. h[x] = h[t.left[x]] + 0 /\ h[x] = h[t.right[x]] + 0
    BY <2>1, <2>3, Zenon DEF EvenAt
  <2>5. g[x] = Due(g, Nil, t.left[x]) + 1 /\ g[x] = Due(g, Nil, t.right[x]) + 1
    BY <2>1, <2>3, <2>4
  <2> QED BY <1>4, <2>1, <2>5, Zenon DEF EvenAt
<1>11. ASSUME NEW m \in Nodes, Belongs(t, m), m # n, m # a, m # b
       PROVE  EvenAt(r, g, Nil, Nil, m)
  <2>1. /\ g[m] = h[m] /\ Weight(r, Nil, m) = Weight(t, Nil, m)
        /\ Due(g, Nil, Nil) = Due(h, Nil, Nil)
        /\ \A x \in Nodes : Belongs(t, x) /\ t.parent[x] = m
                            => Due(g, Nil, x) = Due(h, Nil, x)
    <3> HIDE DEF a, b
    <3> QED BY <1>2, <1>3, <1>6, <1>7, <1>11 DEF NodeOrNil
  <2>2. r.left[m] = t.left[m] /\ r.right[m] = t.right[m]
    BY <1>4
  <2>3. EvenAt(t, h, Nil, Nil, m)
    BY <1>2, <1>11
  <2> QED BY <1>11, <2>1, <2>2, <2>3, EvenElsewhere
<1>12. Even(r, g, Nil, Nil)
    BY <1>4, <1>6, <1>9, <1>10, <1>11, Zenon DEF Even
<1>13. Reds(r, Nil, Nil, n)
  <2>1. ASSUME NEW m \in Nodes, Belongs(t, m), m # n
        PROVE  RedAt(r, Nil, Nil, m)
    <3>1. CASE m = a \/ m = b
      BY <1>5, <3>1 DEF RedAt
    <3>2. CASE m # a /\ m # b
      <4>1. t.parent[m] # n
        BY <1>2, <2>1, <3>2, Parents
      <4>2. t.parent[m] \in NodeOrNil
        BY Fields DEF Links
      <4>3. CASE m = e
        BY <1>3, <1>4, <1>5, <4>3 DEF RedAt, Black
      <4>4. CASE m # e
        <5>1. RedAt(t, Nil, Nil, m)
          BY <1>2, <2>1, <4>4 DEF Balance, Reds
        <5> QED BY <1>4, <1>5, <2>1, <3>2, <4>1, <4>2, <5>1
                DEF RedAt, Black, NodeOrNil
      <4> QED BY <4>3, <4>4
    <3> QED BY <3>1, <3>2
  <2> QED BY <1>4, <2>1 DEF Reds
<1>14. RootBlack(r, Nil, n)
  <2>1. t.root # a /\ t.root # b /\ t.root # e /\ t.root \in NodeOrNil
    <3>1. t.root # Nil => t.parent[t.root] = Nil
      BY DEF Linked
    <3>2. t.parent[e] # Nil
      BY <1>2, <1>3, <1>5
    <3>3. t.root \in NodeOrNil
      BY Fields
    <3> QED BY <1>2, <1>3, <3>1, <3>2, <3>3
  <2>2. Black(t, t.root)
    BY <2>1 DEF Balance, RootBlack, Black
  <2> QED BY <1>4, <1>5, <2>1, <2>2 DEF RootBlack, Black, NodeOrNil
<1> QED BY <1>12, <1>13, <1>14 DEF Balance

\* d and s are the children of n.
Pair(t, n, d, s) == \/ d = t.left[n] /\ s = t.right[n]
                    \/ d = t.right[n] /\ s = t.left[n]

\* A node has a sibling where a black node is missing below it, and a red
\* sibling has children.
LEMMA SiblingIsThere ==
    ASSUME NEW t \in Tree, NEW n \in Nodes, Linked(t), Belongs(t, n),
           NEW d, NEW s, Pair(t, n, d, s), d # Nil,
           NEW z, NEW e, Balance(t, z, d, e)
    PROVE  /\ s # Nil
           /\ t.color[s] # "BLACK" => t.left[s] # Nil /\ t.right[s] # Nil
<1>1. PICK h : Even(t, h, z, d)
    BY DEF Balance
<1>2. /\ h \in [NodeOrNil -> Nat] /\ h[Nil] = 0
      /\ \A m \in Nodes : Belongs(t, m) => EvenAt(t, h, z, d, m)
    BY <1>1 DEF Even
<1>3. /\ d \in Nodes /\ t.parent[d] = n /\ d \in NodeOrNil /\ s \in NodeOrNil
      /\ s # Nil => s \in Nodes /\ Belongs(t, s) /\ t.parent[s] = n /\ s # d
    BY Fields, TreeAssumption
       DEF Pair, Linked, LinkedAt, Belongs, Links, NodeOrNil
<1>4. Due(h, d, d) = h[d] + 1 /\ h[d] \in Nat /\ Due(h, d, Nil) = 0
      /\ \A x \in NodeOrNil : x # d => Due(h, d, x) = h[x]
    BY <1>2, <1>3 DEF Due
<1>5. Due(h, d, d) + Weight(t, z, n) = Due(h, d, s) + Weight(t, z, n)
    BY <1>2, Zenon DEF EvenAt, Pair
<1>6. Weight(t, z, n) \in Nat
    BY DEF Weight
<1>7. s # Nil
  <2>1. SUFFICES ASSUME s = Nil PROVE FALSE
    OBVIOUS
  <2>2. (h[d] + 1) + Weight(t, z, n) = 0 + Weight(t, z, n)
    BY <1>4, <1>5, <2>1
  <2> QED BY <1>4, <1>6, <2>2
<1>8. ASSUME t.color[s] # "BLACK"
      PROVE  t.left[s] # Nil /\ t.right[s] # Nil
  <2>1. Due(h, d, s) = h[s] /\ h[s] \in Nat
    BY <1>2, <1>3, <1>4, <1>7
  <2>2. h[s] # 0
    BY <1>4, <1>5, <1>6, <2>1
  <2>3. Weight(t, z, s) = 0
    BY <1>8 DEF Weight
  <2>4. h[s] = Due(h, d, t.left[s]) + 0 /\ h[s] = Due(h, d, t.right[s]) + 0
    BY <1>2, <1>3, <1>7, <2>3, Zenon DEF EvenAt
  <2> QED BY <1>4, <2>2, <2>4
<1> QED BY <1>7, <1>8

\* From here on the node n that is to be taken out counts for nothing.  A
\* black one, with a child at most, is missing; it takes its child's colour.
LEMMA WithdrawnBlack ==
    ASSUME NEW t \in Tree, NEW r \in Tree, NEW n \in Nodes,
           Linked(t), Repainted(t, r), Belongs(t, n),
           t.color[n] = "BLACK",
           \A m \in Nodes : m # n => r.color[m] = t.color[m],
           Balance(t, Nil, Nil, Nil)
    PROVE  Balance(r, n, n, Nil)
<1>1. PICK h : Even(t, h, Nil, Nil)
    BY DEF Balance
<1> DEFINE g == [h EXCEPT ![n] = h[n] - 1]
<1>2. /\ h \in [NodeOrNil -> Nat] /\ h[Nil] = 0
      /\ \A m \in Nodes : Belongs(t, m) => EvenAt(t, h, Nil, Nil, m)
      /\ n \in NodeOrNil /\ n # Nil /\ Nil \in NodeOrNil
    BY <1>1, TreeAssumption DEF Even, NodeOrNil
<1>3. /\ \A m : Belongs(r, m) <=> Belongs(t, m)
      /\ r.left = t.left /\ r.right = t.right /\ r.parent = t.parent
      /\ r.root = t.root
    BY DEF Repainted, Belongs
<1>4. /\ t.left[n] \in NodeOrNil /\ t.right[n] \in NodeOrNil
      /\ t.left[n] # n /\ t.right[n] # n
  <2>1. LinkedAt(t, n) /\ t.parent[n] # n
    BY <1>2, Parents DEF Linked
  <2> QED BY <1>2, <2>1, Fields DEF Links, LinkedAt
<1>5. /\ h[n] = h[t.left[n]] + 1 /\ h[n] = h[t.right[n]] + 1
      /\ h[t.left[n]] \in Nat /\ h[t.right[n]] \in Nat
  <2>1. \A x \in NodeOrNil : Due(h, Nil, x) = h[x]
    BY DEF Due
  <2>2. Weight(t, Nil, n) = 1
    BY <1>2 DEF Weight
  <2>3. EvenAt(t, h, Nil, Nil, n)
    BY <1>2
  <2> QED BY <1>2, <1>4, <2>1, <2>2, <2>3, Zenon DEF EvenAt
<1>6. /\ g \in [NodeOrNil -> Nat] /\ g[n] = h[n] - 1 /\ g[Nil] = 0
      /\ \A m \in NodeOrNil : m # n => g[m] = h[m]
    BY <1>2, <1>5
<1> HIDE DEF g
<1>7. \A x \in NodeOrNil : Due(g, n, x) = Due(h, Nil, x)
  <2>1. (h[n] - 1) + 1 = h[n]
    BY <1>5
  <2> QED BY <1>2, <1>6, <2>1 DEF Due
<1>8. EvenAt(r, g, n, n, n)
  <2>1. Due(g, n, t.left[n]) = h[t.left[n]] /\ Due(g, n, t.right[n]) = h[t.right[n]]
    BY <1>4, <1>6 DEF Due
  <2>2. Weight(r, n, n) = 0
    BY DEF Weight
  <2>3. g[n] = h[t.left[n]] + 0 /\ g[n] = h[t.right[n]] + 0
    BY <1>5, <1>6
  <2> QED BY <1>3, <2>1, <2>2, <2>3, Zenon DEF EvenAt
<1>9. ASSUME NEW m \in Nodes, Belongs(t, m), m # n
      PROVE  EvenAt(r, g, n, n, m)
  <2>1. Weight(r, n, m) = Weight(t, Nil, m) /\ g[m] = h[m]
    BY <1>2, <1>6, <1>9, TreeAssumption DEF Weight, NodeOrNil
  <2>2. /\ Due(g, n, Nil) = Due(h, Nil, Nil)
        /\ \A x \in Nodes : Belongs(t, x) /\ t.parent[x] = m
                            => Due(g, n, x) = Due(h, Nil, x)
    BY <1>2, <1>7 DEF NodeOrNil
  <2>3. /\ EvenAt(t, h, Nil, Nil, m)
        /\ r.left[m] = t.left[m] /\ r.right[m] = t.right[m]
    BY <1>2, <1>3, <1>9
  <2> QED BY <1>9, <2>1, <2>2, <2>3, EvenElsewhere
<1>10. Even(r, g, n, n)
    BY <1>3, <1>6, <1>8, <1>9, Zenon DEF Even
<1>11. Reds(r, n, n, Nil)
  <2>1. ASSUME NEW m \in Nodes, Belongs(t, m), m # n
        PROVE  RedAt(r, n, n, m)
    <3>1. RedAt(t, Nil, Nil, m) /\ t.parent[m] \in NodeOrNil
      BY <1>2, <2>1, Parents, TreeAssumption DEF Balance, Reds
    <3> QED BY <1>2, <1>3, <2>1, <3>1 DEF RedAt, Black, NodeOrNil
  <2> QED BY <1>3, <2>1 DEF Reds
<1>12. RootBlack(r, n, Nil)
  <2>1. Black(t, t.root) /\ t.root \in NodeOrNil
    BY Fields DEF Balance, RootBlack, Black
  <2> QED BY <1>3, <2>1 DEF RootBlack, Black, NodeOrNil
<1> QED BY <1>10, <1>11, <1>12 DEF Balance

\* A red one is not missed, and has no red child.
LEMMA WithdrawnRed ==
    ASSUME NEW t \in Tree, NEW n \in Nodes, Linked(t), Belongs(t, n),
           t.color[n] = "RED", Balance(t, Nil, Nil, Nil)
    PROVE  Balance(t, n, Nil, Nil)
<1>1. PICK h : Even(t, h, Nil, Nil)
    BY DEF Balance
<1>2. \A m \in Nodes : Weight(t, n, m) = Weight(t, Nil, m)
    BY TreeAssumption DEF Weight
<1>3. Even(t, h, n, Nil)
  <2>1. /\ h \in [NodeOrNil -> Nat] /\ h[Nil] = 0
        /\ \A m \in Nodes : Belongs(t, m) => EvenAt(t, h, Nil, Nil, m)
    BY <1>1 DEF Even
  <2>2. \A m \in Nodes : EvenAt(t, h, Nil, Nil, m) => EvenAt(t, h, n, Nil, m)
    BY <1>2, Zenon DEF EvenAt
  <2> QED BY <2>1, <2>2, Zenon DEF Even
<1>4. \A m \in Nodes : Belongs(t, m) => RedAt(t, Nil, Nil, m)
    BY TreeAssumption DEF Balance, Reds
<1>5. Reds(t, n, Nil, Nil)
    BY <1>4, TreeAssumption DEF Reds, RedAt, Black
<1>6. RootBlack(t, n, Nil)
    BY DEF Balance, RootBlack, Black
<1> QED BY <1>3, <1>5, <1>6 DEF Balance

\* A node missing on every way is not missed.
LEMMA AtTheRoot ==
    ASSUME NEW t \in Tree, NEW d \in Nodes, Linked(t), Belongs(t, d),
           t.parent[d] = Nil,
           NEW z \in Nodes, Balance(t, z, d, Nil)
    PROVE  Balance(t, z, Nil, Nil)
<1>1. PICK h : Even(t, h, z, d)
    BY DEF Balance
<1>2. /\ h \in [NodeOrNil -> Nat] /\ h[Nil] = 0
      /\ \A m \in Nodes : Belongs(t, m) => EvenAt(t, h, z, d, m)
      /\ Nil \notin Nodes
    BY <1>1, TreeAssumption DEF Even
<1>3. \A x : x # d => Due(h, Nil, x) = Due(h, d, x)
    BY DEF Due
<1>4. ASSUME NEW m \in Nodes, Belongs(t, m)
      PROVE  EvenAt(t, h, z, Nil, m)
  <2>1. EvenAt(t, h, z, d, m)
    BY <1>2, <1>4
  <2>2. /\ Due(h, Nil, Nil) = Due(h, d, Nil)
        /\ \A x \in Nodes : Belongs(t, x) /\ t.parent[x] = m
                            => Due(h, Nil, x) = Due(h, d, x)
    BY <1>2, <1>3, <1>4
  <2> QED BY <1>4, <2>1, <2>2, EvenElsewhere
<1>5. Even(t, h, z, Nil)
    BY <1>2, <1>4 DEF Even
<1>6. Reds(t, z, Nil, Nil)
  <2>1. ASSUME NEW m \in Nodes, Belongs(t, m), m # z
        PROVE  RedAt(t, z, Nil, m)
    <3>1. RedAt(t, z, d, m)
      BY <1>2, <2>1 DEF Balance, Reds
    <3> QED BY <3>1 DEF RedAt, Black
  <2> QED BY <2>1 DEF Reds
<1>7. RootBlack(t, z, Nil)
    BY DEF Balance, RootBlack
<1> QED BY <1>5, <1>6, <1>7 DEF Balance

\* The sibling s of d is painted red, and their parent black: what was missing
\* below d is there again if the parent was red, and is missing below the
\* parent if it was black.
LEMMA Reddened ==
    ASSUME NEW t \in Tree, NEW r \in Tree, NEW n \in Nodes,
           Linked(t), Repainted(t, r), Belongs(t, n),
           NEW d, NEW s, Pair(t, n, d, s), d # Nil, s # Nil,
           t.color[s] = "BLACK", Black(t, t.left[s]), Black(t, t.right[s]),
           r.color[s] = "RED", r.color[n] = "BLACK",
           \A m \in Nodes : m # n /\ m # s => r.color[m] = t.color[m],
           NEW z \in Nodes, z # n, z # s, z = d \/ t.parent[z] # s,
           Balance(t, z, d, Nil),
           NEW f, f = IF t.color[n] = "BLACK" THEN n ELSE Nil
    PROVE  Balance(r, z, f, Nil)
<1>1. PICK h : Even(t, h, z, d)
    BY DEF Balance
<1> DEFINE g == [h EXCEPT ![s] = h[d], ![n] = h[d] + 1]
<1>2. /\ h \in [NodeOrNil -> Nat] /\ h[Nil] = 0
      /\ \A m \in Nodes : Belongs(t, m) => EvenAt(t, h, z, d, m)
      /\ Nil \notin Nodes
    BY <1>1, TreeAssumption DEF Even
<1>3. /\ d \in Nodes /\ Belongs(t, d) /\ t.parent[d] = n
      /\ s \in Nodes /\ Belongs(t, s) /\ t.parent[s] = n
      /\ d # s /\ n # d /\ n # s /\ t.parent[n] # n
      /\ d \in NodeOrNil /\ s \in NodeOrNil /\ n \in NodeOrNil
  <2>1. LinkedAt(t, n) /\ t.parent[n] # n /\ t.left \in Links /\ t.right \in Links
    BY <1>2, Parents, Fields DEF Linked
  <2> QED BY <1>2, <2>1 DEF Pair, LinkedAt, Belongs, Links, NodeOrNil
<1>4. /\ \A m : Belongs(r, m) <=> Belongs(t, m)
      /\ r.left = t.left /\ r.right = t.right /\ r.parent = t.parent
      /\ r.root = t.root
    BY DEF Repainted, Belongs
<1>5. /\ g \in [NodeOrNil -> Nat] /\ g[s] = h[d] /\ g[n] = h[d] + 1
      /\ g[Nil] = 0 /\ h[d] \in Nat /\ h[n] \in Nat /\ h[s] \in Nat
      /\ \A m \in NodeOrNil : m # s /\ m # n => g[m] = h[m]
    BY <1>2, <1>3 DEF NodeOrNil
<1> HIDE DEF g
<1>6. /\ Weight(t, z, s) = 1 /\ Weight(r, z, s) = 0 /\ Weight(r, z, n) = 1
      /\ Weight(t, z, n) = IF t.color[n] = "BLACK" THEN 1 ELSE 0
      /\ \A m \in Nodes : m # n /\ m # s => Weight(r, z, m) = Weight(t, z, m)
    BY <1>3 DEF Weight
<1>7. /\ Due(h, d, d) = h[d] + 1
      /\ \A x \in NodeOrNil : x # d => Due(h, d, x) = h[x]
      /\ \A x \in NodeOrNil : x # n => Due(g, f, x) = g[x]
      /\ Due(g, f, n) = IF t.color[n] = "BLACK" THEN g[n] + 1 ELSE g[n]
    BY <1>2, <1>3 DEF Due
<1>8. /\ h[n] = h[d] + 1 + Weight(t, z, n) /\ h[n] = h[s] + Weight(t, z, n)
      /\ h[s] = h[d] + 1
  <2>1. /\ h[n] = Due(h, d, d) + Weight(t, z, n)
        /\ h[n] = Due(h, d, s) + Weight(t, z, n)
    BY <1>2, Zenon DEF EvenAt, Pair
  <2>2. Due(h, d, s) = h[s]
    BY <1>3, <1>7
  <2> QED BY <1>5, <1>6, <1>7, <2>1, <2>2
<1>9. Due(g, f, n) = h[n]
    BY <1>5, <1>6, <1>7, <1>8
<1>10. EvenAt(r, g, z, f, n)
  <2>1. Due(g, f, d) = h[d] /\ Due(g, f, s) = h[d]
    BY <1>3, <1>5, <1>7
  <2>2. /\ g[n] = Due(g, f, d) + Weight(r, z, n)
        /\ g[n] = Due(g, f, s) + Weight(r, z, n)
    BY <1>5, <1>6, <2>1
  <2> QED BY <1>4, <2>2, Zenon DEF EvenAt, Pair
<1>11. EvenAt(r, g, z, f, s)
  <2>1. LinkedAt(t, s)
    BY <1>3 DEF Linked
  <2>2. ASSUME NEW y \in {t.left[s], t.right[s]}
        PROVE  Due(g, f, y) = h[y] /\ Due(h, d, y) = h[y] /\ h[y] \in Nat
    <3>1. y \in NodeOrNil /\ (y # Nil => t.parent[y] = s)
      BY <1>3, <2>1, Fields DEF Links, LinkedAt
    <3>2. y # n /\ y # s /\ y # d
      <4>1. y # n
        <5>1. SUFFICES ASSUME y = n PROVE FALSE
          OBVIOUS
        <5>2. \A x \in {n, s} : Belongs(t, x) /\ t.parent[x] \in {n, s}
          BY <1>2, <1>3, <3>1, <5>1
        <5> QED BY <1>3, <5>2 DEF Linked, NoCycle
      <4> QED BY <1>2, <1>3, <3>1, <4>1
    <3> QED BY <1>2, <1>5, <1>7, <3>1, <3>2
  <2>3. EvenAt(t, h, z, d, s)
    BY <1>2, <1>3
  <2>4. h[s] = h[t.left[s]] + 1 /\ h[s] = h[t.right[s]] + 1
    BY <1>6, <2>2, <2>3, Zenon DEF EvenAt
  <2>5. /\ g[s] = Due(g, f, t.left[s]) + 0
        /\ g[s] = Due(g, f, t.right[s]) + 0
    BY <1>5, <1>8, <2>2, <2>4
  <2> QED BY <1>4, <1>6, <2>5, Zenon DEF EvenAt
<1>12. ASSUME NEW m \in Nodes, Belongs(t, m), m # n, m # s
       PROVE  EvenAt(r, g, z, f, m)
  <2>1. /\ g[m] = h[m] /\ Weight(r, z, m) = Weight(t, z, m)
        /\ Due(g, f, Nil) = Due(h, d, Nil)
    BY <1>2, <1>3, <1>5, <1>6, <1>7, <1>12 DEF NodeOrNil
  <2>2. ASSUME NEW x \in Nodes, Belongs(t, x), t.parent[x] = m
        PROVE  Due(g, f, x) = Due(h, d, x)
    <3>1. x # d /\ x # s
      BY <1>3, <1>12, <2>2
    <3>2. CASE x = n
      BY <1>3, <1>7, <1>9, <3>2
    <3>3. CASE x # n
      BY <1>5, <1>7, <3>1, <3>3 DEF NodeOrNil
    <3> QED BY <3>2, <3>3
  <2>3. r.left[m] = t.left[m] /\ r.right[m] = t.right[m]
    BY <1>4
  <2>4. EvenAt(t, h, z, d, m)
    BY <1>2, <1>12
  <2> QED BY <1>12, <2>1, <2>2, <2>3, <2>4, EvenElsewhere
<1>13. Even(r, g, z, f)
    BY <1>4, <1>5, <1>10, <1>11, <1>12, Zenon DEF Even
<1>14. Reds(r, z, f, Nil)
  <2>1. ASSUME NEW m \in Nodes, Belongs(t, m), m # z
        PROVE  RedAt(r, z, f, m)
    <3>1. RedAt(t, z, d, m) /\ t.parent[m] \in NodeOrNil /\ t.parent[z] \in NodeOrNil
      BY <1>2, <2>1, Fields DEF Balance, Reds, Links
    <3>2. CASE m = s
      BY <1>3, <1>4, <3>2 DEF RedAt, Black
    <3>3. CASE m # s /\ t.parent[m] = s
      <4>1. m = t.left[s] \/ m = t.right[s]
        BY <1>2, <1>3, <2>1, <3>3, Parents
      <4>2. t.color[m] = "BLACK"
        BY <1>2, <4>1, <2>1 DEF Black
      <4> QED BY <2>1, <3>3, <4>2 DEF RedAt
    <3>4. CASE m # s /\ t.parent[m] # s
      <4>1. CASE r.color[m] = "RED"
        <5>1. m # n /\ t.color[m] = "RED"
          BY <2>1, <3>4, <4>1
        <5>2. CASE t.parent[m] = z /\ z = d
          BY <1>2, <1>3, <1>4, <5>2 DEF RedAt, Black
        <5>3. CASE t.parent[m] = z /\ z # d
          <6>1. Black(t, t.parent[z]) /\ t.parent[z] # s
            BY <1>2, <3>1, <5>1, <5>3 DEF RedAt
          <6>2. Black(r, t.parent[z])
            BY <3>1, <6>1 DEF Black, NodeOrNil
          <6> QED BY <1>2, <1>4, <5>3, <6>2 DEF RedAt
        <5>4. CASE t.parent[m] # z
          <6>1. Black(t, t.parent[m])
            BY <3>1, <5>1, <5>4 DEF RedAt
          <6>2. Black(r, t.parent[m])
            BY <3>1, <3>4, <6>1 DEF Black, NodeOrNil
          <6> QED BY <1>4, <5>4, <6>2 DEF RedAt
        <5> QED BY <5>2, <5>3, <5>4
      <4>2. CASE r.color[m] # "RED"
        BY <4>2 DEF RedAt
      <4> QED BY <4>1, <4>2
    <3> QED BY <3>2, <3>3, <3>4
  <2> QED BY <1>4, <2>1 DEF Reds
<1>15. RootBlack(r, z, Nil)
  <2>1. t.root # s /\ t.root \in NodeOrNil
    BY <1>2, <1>3, Parents, Fields
  <2>2. Black(t, t.root) \/ t.root = z
    BY DEF Balance, RootBlack, Black
  <2> QED BY <1>4, <2>1, <2>2 DEF RootBlack, Black, NodeOrNil
<1> QED BY <1>13, <1>14, <1>15 DEF Balance

\* The node z is taken out, and its child, if any, comes up.
LEMMA Spliced ==
    ASSUME NEW t \in Tree, NEW r \in Tree, NEW z \in Nodes,
           Linked(t), Belongs(t, z), t.left[z] = Nil,
           Removed(t, z, r),
           \A m \in Nodes : Belongs(r, m) <=> Belongs(t, m) /\ m # z,
           r.color = t.color,
           Balance(t, z, Nil, Nil)
    PROVE  /\ \E h : Even(r, h, Nil, Nil)
           /\ Reds(r, Nil, Nil, Nil)
           /\ t.parent[z] # Nil => RootBlack(r, Nil, Nil)
<1> DEFINE c == t.right[z]
           p == t.parent[z]
<1>1. PICK h : Even(t, h, z, Nil)
    BY DEF Balance
<1>2. /\ h \in [NodeOrNil -> Nat] /\ h[Nil] = 0
      /\ \A m \in Nodes : Belongs(t, m) => EvenAt(t, h, z, Nil, m)
      /\ Nil \notin Nodes
    BY <1>1, TreeAssumption DEF Even
<1>3. /\ c \in NodeOrNil /\ t.left \in Links /\ t.right \in Links
      /\ c # Nil => c \in Nodes /\ Belongs(t, c) /\ t.parent[c] = z
      /\ p \in NodeOrNil /\ p # z
      /\ p # Nil => (t.left[p] = z <=> t.right[p] # z)
  <2>1. /\ LinkedAt(t, z) /\ t.left \in Links /\ t.right \in Links
        /\ p \in NodeOrNil /\ p # z
    BY <1>2, Parents, Fields DEF Linked
  <2>2. /\ c \in NodeOrNil
        /\ c # Nil => c \in Nodes /\ Belongs(t, c) /\ t.parent[c] = z
    BY <1>2, <2>1 DEF LinkedAt, Links, Belongs, NodeOrNil
  <2>3. p # Nil => (t.left[p] = z <=> t.right[p] # z)
    BY <1>2, Parents DEF Linked, LinkedAt
  <2> QED BY <2>1, <2>2, <2>3
<1>4. /\ r.root = IF p = Nil THEN c ELSE t.root
      /\ \A m \in Nodes : r.left[m] = IF m = p /\ t.left[p] = z THEN c ELSE t.left[m]
      /\ \A m \in Nodes : r.right[m] = IF m = p /\ t.left[p] # z THEN c ELSE t.right[m]
      /\ \A m \in Nodes : r.parent[m] = IF m = c THEN p ELSE t.parent[m]
    BY DEF Removed
<1> HIDE DEF c, p
\* z counted for no black node: its child has as many.
<1>5. h[z] = h[c] /\ \A x : Due(h, Nil, x) = h[x]
  <2>1. \A x : Due(h, Nil, x) = h[x]
    BY DEF Due
  <2>2. Weight(t, z, z) = 0 /\ h[c] \in Nat
    BY <1>2, <1>3 DEF Weight
  <2>3. EvenAt(t, h, z, Nil, z)
    BY <1>2
  <2>4. h[z] = h[c] + 0
    BY <2>1, <2>2, <2>3 DEF EvenAt, c
  <2> QED BY <2>1, <2>2, <2>4
<1>6. ASSUME NEW m \in Nodes, Belongs(t, m), m # z
      PROVE  EvenAt(r, h, Nil, Nil, m)
  <2>1. Weight(r, Nil, m) = Weight(t, z, m)
    BY <1>2, <1>6 DEF Weight
  <2>2. EvenAt(t, h, z, Nil, m)
    BY <1>2, <1>6
  <2>3. h[r.left[m]] = h[t.left[m]] /\ h[r.right[m]] = h[t.right[m]]
    BY <1>2, <1>3, <1>4, <1>5, <1>6
  <2> QED BY <1>5, <2>1, <2>2, <2>3, Zenon DEF EvenAt
<1>7. Even(r, h, Nil, Nil)
    BY <1>2, <1>6, Zenon DEF Even
<1>8. Reds(r, Nil, Nil, Nil)
  <2>1. ASSUME NEW m \in Nodes, Belongs(t, m), m # z, r.color[m] = "RED"
        PROVE  Black(r, r.parent[m])
    <3>1. RedAt(t, z, Nil, m) /\ t.color[m] = "RED"
      BY <1>2, <2>1 DEF Balance, Reds
    <3>2. CASE m = c
      <4>1. Black(t, p)
        BY <1>2, <1>3, <3>1, <3>2 DEF RedAt, p
      <4> QED BY <1>4, <2>1, <3>2, <4>1 DEF Black
    <3>3. CASE m # c
      <4>1. t.parent[m] # z
        <5>1. SUFFICES ASSUME t.parent[m] = z PROVE FALSE
          OBVIOUS
        <5>2. t.left[z] = m \/ t.right[z] = m
          BY <1>2, <2>1, <5>1, Parents
        <5> QED BY <1>2, <2>1, <3>3, <5>2 DEF c
      <4>2. Black(t, t.parent[m])
        BY <3>1, <4>1 DEF RedAt
      <4> QED BY <1>4, <2>1, <3>3, <4>2 DEF Black
    <3> QED BY <3>2, <3>3
  <2> QED BY <1>2, <2>1 DEF Reds, RedAt
<1>9. p # Nil => RootBlack(r, Nil, Nil)
  <2>1. SUFFICES ASSUME p # Nil PROVE RootBlack(r, Nil, Nil)
    OBVIOUS
  <2>2. r.root = t.root /\ t.root # z
    BY <1>2, <1>4, <2>1, Parents DEF p
  <2>3. Black(t, t.root)
    BY <2>2 DEF Balance, RootBlack, Black
  <2> QED BY <2>2, <2>3 DEF RootBlack, Black
<1> QED BY <1>7, <1>8, <1>9 DEF p

\* A red leaf n adds no black node; it may have a red parent.
LEMMA Sprouted ==
    ASSUME NEW t \in Tree, NEW r \in Tree, NEW n \in Nodes,
           Linked(t), ~Belongs(t, n), t.root # Nil,
           r.left[n] = Nil, r.right[n] = Nil,
           \A m \in Nodes : m # n =>
               /\ r.left[m] = t.left[m] \/ (t.left[m] = Nil /\ r.left[m] = n)
               /\ r.right[m] = t.right[m] \/ (t.right[m] = Nil /\ r.right[m] = n)
               /\ r.parent[m] = t.parent[m] /\ r.color[m] = t.color[m],
           r.color[n] = "RED", r.root = t.root,
           \A m \in Nodes : Belongs(r, m) <=> Belongs(t, m) \/ m = n,
           Balance(t, Nil, Nil, Nil)
    PROVE  Balance(r, Nil, Nil, n)
<1>1. PICK h : Even(t, h, Nil, Nil)
    BY DEF Balance
<1> DEFINE g == [h EXCEPT ![n] = 0]
<1>2. /\ h \in [NodeOrNil -> Nat] /\ h[Nil] = 0
      /\ \A m \in Nodes : Belongs(t, m) => EvenAt(t, h, Nil, Nil, m)
      /\ n # Nil /\ Nil \notin Nodes
    BY <1>1, TreeAssumption DEF Even
<1>3. /\ g \in [NodeOrNil -> Nat] /\ g[n] = 0 /\ g[Nil] = 0
      /\ \A m \in NodeOrNil : m # n => g[m] = h[m]
    BY <1>2 DEF NodeOrNil
<1> HIDE DEF g
<1>4. \A x : Due(g, Nil, x) = g[x] /\ Due(h, Nil, x) = h[x]
    BY DEF Due
<1>5. EvenAt(r, g, Nil, Nil, n)
  <2>1. Weight(r, Nil, n) = 0
    BY DEF Weight
  <2>2. g[n] = 0 + 0 /\ Due(g, Nil, Nil) = 0
    BY <1>3, <1>4
  <2> QED BY <2>1, <2>2, Zenon DEF EvenAt
<1>6. ASSUME NEW m \in Nodes, Belongs(t, m)
      PROVE  EvenAt(r, g, Nil, Nil, m) /\ m # n
  <2>1. /\ m # n /\ LinkedAt(t, m)
        /\ t.left[m] \in NodeOrNil /\ t.right[m] \in NodeOrNil
    BY <1>6, Fields DEF Linked, Links
  <2>2. t.left[m] # n /\ t.right[m] # n
    BY <1>2, <1>6, <2>1 DEF LinkedAt, Belongs, Linked
  <2>3. g[r.left[m]] = h[t.left[m]] /\ g[r.right[m]] = h[t.right[m]]
    BY <1>2, <1>3, <2>1, <2>2
  <2>4. g[m] = h[m] /\ Weight(r, Nil, m) = Weight(t, Nil, m)
    BY <1>3, <2>1 DEF Weight, NodeOrNil
  <2>5. EvenAt(t, h, Nil, Nil, m)
    BY <1>2, <1>6
  <2>6. /\ Due(g, Nil, r.left[m]) = Due(h, Nil, t.left[m])
        /\ Due(g, Nil, r.right[m]) = Due(h, Nil, t.right[m])
    BY <1>4, <2>3
  <2>7. EvenAt(r, g, Nil, Nil, m)
    BY <2>4, <2>5, <2>6, Zenon DEF EvenAt
  <2> QED BY <2>1, <2>7
<1>7. Even(r, g, Nil, Nil)
    BY <1>3, <1>5, <1>6, Zenon DEF Even
<1>8. Reds(r, Nil, Nil, n)
  <2>1. ASSUME NEW m \in Nodes, Belongs(t, m)
        PROVE  RedAt(r, Nil, Nil, m)
    <3>1. RedAt(t, Nil, Nil, m)
      BY <1>2, <2>1 DEF Balance, Reds
    <3>3. m # n /\ t.parent[m] # n
      BY <1>2, <1>6, <2>1, Parents
    <3>2. t.parent[m] \in NodeOrNil
      BY Fields DEF Links
    <3> QED BY <2>1, <3>1, <3>2, <3>3 DEF RedAt, Black, NodeOrNil
  <2> QED BY <2>1 DEF Reds
<1>9. RootBlack(r, Nil, n)
  <2>1. t.root \in Nodes /\ t.root # n /\ Black(t, t.root)
    BY <1>2, Fields DEF Balance, RootBlack, Black, NodeOrNil, Belongs
  <2> QED BY <2>1 DEF RootBlack, Black
<1> QED BY <1>7, <1>8, <1>9 DEF Balance

\* The first node is black.
LEMMA Planted ==
    ASSUME NEW r \in Tree, NEW n \in Nodes,
           r.left[n] = Nil, r.right[n] = Nil, r.root = n,
           r.color[n] = "BLACK",
           \A m \in Nodes : Belongs(r, m) <=> m = n
    PROVE  Balance(r, Nil, Nil, Nil)
<1> DEFINE g == [x \in NodeOrNil |-> IF x = n THEN 1 ELSE 0]
<1>1. g \in [NodeOrNil -> Nat] /\ g[Nil] = 0 /\ g[n] = 1 /\ n # Nil
    BY TreeAssumption DEF NodeOrNil
<1> HIDE DEF g
<1>2. EvenAt(r, g, Nil, Nil, n)
    BY <1>1 DEF EvenAt, Due, Weight
<1>3. Even(r, g, Nil, Nil)
    BY <1>1, <1>2, Zenon DEF Even
<1>4. Reds(r, Nil, Nil, Nil) /\ RootBlack(r, Nil, Nil)
    BY <1>1 DEF Reds, RedAt, RootBlack, Black
<1> QED BY <1>3, <1>4 DEF Balance

\* The links of the five nodes of a rotation, and of the others.
LEMMA BroughtFields ==
    ASSUME NEW t \in Tree, NEW n \in Nodes, NEW r \in Tree,
           Linked(t), Belongs(t, n),
           NEW c, NEW u, NEW i, NEW o, Brings(t, n, c, u, i, o, r), c # Nil
    PROVE  LET p == t.parent[n]
           IN  /\ c \in Nodes /\ Belongs(t, c) /\ t.parent[c] = n
               /\ n # c /\ n # p /\ c # p /\ n # u /\ c # u
               /\ \A m \in Nodes : r.parent[m] = IF m = n THEN c ELSE IF m = c THEN p
                                           ELSE IF m = i THEN n ELSE t.parent[m]
               /\ \A m \in Nodes : m # n /\ m # c /\ m # p
                           => r.left[m] = t.left[m] /\ r.right[m] = t.right[m]
               /\ p # Nil =>
                    /\ r.left[p] = IF t.left[p] = n THEN c ELSE t.left[p]
                    /\ r.right[p] = IF t.right[p] = n THEN c ELSE t.right[p]
               /\ \/ /\ c = t.right[n] /\ u = t.left[n]
                     /\ r.left[n] = u /\ r.right[n] = i
                     /\ r.left[c] = n /\ r.right[c] = o
                  \/ /\ c = t.left[n] /\ u = t.right[n]
                     /\ r.right[n] = u /\ r.left[n] = i
                     /\ r.right[c] = n /\ r.left[c] = o
<1> DEFINE p == t.parent[n]
<1>1. p # Nil => p \in Nodes
    BY Fields DEF Links, NodeOrNil
<1>2. ASSUME NEW v \in Tree, NEW w \in Tree, Linked(v), Belongs(v, n),
             v.parent = t.parent, c = v.right[n],
             u = v.left[n], i = v.left[c], o = v.right[c], Turned(v, n, w)
      PROVE  /\ c \in Nodes /\ Belongs(v, c) /\ v.parent[c] = n
             /\ n # c /\ n # p /\ c # p /\ n # u /\ c # u
             /\ \A m \in Nodes : w.parent[m] = IF m = n THEN c ELSE IF m = c THEN p
                                         ELSE IF m = i THEN n ELSE v.parent[m]
             /\ \A m \in Nodes : m # n /\ m # c /\ m # p
                         => w.left[m] = v.left[m] /\ w.right[m] = v.right[m]
             /\ p # Nil =>
                  /\ w.left[p] = IF v.left[p] = n THEN c ELSE v.left[p]
                  /\ w.right[p] = IF v.right[p] = n THEN c ELSE v.right[p]
             /\ w.left[n] = u /\ w.right[n] = i
             /\ w.left[c] = n /\ w.right[c] = o
  <2>1. /\ c \in Nodes /\ Belongs(v, c) /\ v.parent[c] = n
        /\ n # c /\ n # p /\ c # p /\ n # u /\ c # u
    BY <1>2, Family
  <2>2. p # Nil => (v.left[p] = n <=> v.right[p] # n)
    BY <1>2, Apart
  <2>3. /\ \A m \in Nodes : w.left[m] = IF m = c THEN n
                                  ELSE IF m = p /\ v.left[p] = n THEN c ELSE v.left[m]
        /\ \A m \in Nodes : w.right[m] = IF m = n THEN i
                                  ELSE IF m = p /\ v.left[p] # n THEN c ELSE v.right[m]
        /\ \A m \in Nodes : w.parent[m] = IF m = n THEN c ELSE IF m = c THEN p
                                   ELSE IF m = i THEN n ELSE v.parent[m]
    BY <1>2, Zenon DEF Turned
  <2> HIDE DEF p
  <2>4. /\ \A m \in Nodes : m # n /\ m # c /\ m # p
                => w.left[m] = v.left[m] /\ w.right[m] = v.right[m]
        /\ p # Nil =>
             /\ w.left[p] = IF v.left[p] = n THEN c ELSE v.left[p]
             /\ w.right[p] = IF v.right[p] = n THEN c ELSE v.right[p]
    BY <1>1, <2>1, <2>2, <2>3
  <2>5. /\ w.left[n] = u /\ w.right[n] = i
        /\ w.left[c] = n /\ w.right[c] = o
    BY <1>2, <2>1, <2>3
  <2> QED BY <2>1, <2>3, <2>4, <2>5
<1>3. CASE /\ c = t.right[n] /\ u = t.left[n] /\ i = t.left[c] /\ o = t.right[c]
           /\ Turned(t, n, r)
    BY <1>2, <1>3
<1>4. CASE /\ c = t.left[n] /\ u = t.right[n] /\ i = t.right[c] /\ o = t.left[c]
           /\ Turned(Mirrored(t), n, Mirrored(r))
  <2> DEFINE M == Mirrored(t)
             N == Mirrored(r)
  <2>1. /\ M \in Tree /\ Linked(M) /\ N \in Tree
        /\ \A m : Belongs(M, m) <=> Belongs(t, m)
        /\ M.left = t.right /\ M.right = t.left /\ M.parent = t.parent
        /\ N.left = r.right /\ N.right = r.left /\ N.parent = r.parent
    BY Mirror, MirroredFields
  <2>2. Turned(M, n, N)
    BY <1>4
  <2> HIDE DEF M, N
  <2> QED BY <1>2, <1>4, <2>1, <2>2
<1> QED BY <1>3, <1>4 DEF Brings

\* The rotations of the program, made on a tree just painted.
LEMMA Recoloured ==
    ASSUME NEW t, NEW v, Repainted(t, v)
    PROVE  SameNodes(t, v)
<1>1. /\ v.root = t.root /\ v.parent = t.parent
      /\ v.left = t.left /\ v.right = t.right
      /\ \A m : Belongs(v, m) <=> Belongs(t, m)
    BY DEF Repainted, Belongs
<1>2. ASSUME NEW w, NEW z, Ordered(t, w, z) PROVE Ordered(v, w, z)
  <2>1. PICK lo, hi : Sorted(t, w, z, lo, hi)
    BY <1>2 DEF Ordered
  <2>2. \A n \in Nodes : InPlace(v, w, z, lo, hi, n) <=> InPlace(t, w, z, lo, hi, n)
    BY ONLY <1>1 DEF InPlace
  <2>3. Sorted(v, w, z, lo, hi)
    BY ONLY <1>1, <2>1, <2>2 DEF Sorted
  <2> QED BY <2>3 DEF Ordered
<1> QED BY <1>1, <1>2 DEF SameNodes, SameOrder

LEMMA LeftBrings ==
    ASSUME NEW t \in Tree, NEW v \in Tree, Linked(v), Repainted(t, v),
           NEW n \in Nodes, Belongs(t, n), t.right[n] # Nil,
           NEW r, r = rotate_left(v, n)
    PROVE  /\ r \in Tree /\ Linked(r) /\ SameNodes(t, r) /\ r.color = v.color
           /\ Brings(t, n, t.right[n], t.left[n], t.left[t.right[n]],
                     t.right[t.right[n]], r)
<1>1. /\ v.root = t.root /\ v.parent = t.parent
      /\ v.left = t.left /\ v.right = t.right
      /\ \A m : Belongs(v, m) <=> Belongs(t, m)
    BY DEF Repainted, Belongs
<1>2. /\ r \in Tree /\ Linked(r) /\ SameNodes(v, r)
      /\ Turned(v, n, r) /\ r.color = v.color
    BY <1>1, RotateLeft
<1>3. Turned(t, n, r)
    BY <1>1, <1>2 DEF Turned
<1>4. SameNodes(t, r)
    BY <1>2, Recoloured, Through
<1> QED BY <1>1, <1>2, <1>3, <1>4 DEF SameNodes, Brings

LEMMA RightBrings ==
    ASSUME NEW t \in Tree, NEW v \in Tree, Linked(v), Repainted(t, v),
           NEW n \in Nodes, Belongs(t, n), t.left[n] # Nil,
           NEW r, r = rotate_right(v, n)
    PROVE  /\ r \in Tree /\ Linked(r) /\ SameNodes(t, r) /\ r.color = v.color
           /\ Brings(t, n, t.left[n], t.right[n], t.right[t.left[n]],
                     t.left[t.left[n]], r)
<1>1. /\ v.root = t.root /\ v.parent = t.parent
      /\ v.left = t.left /\ v.right = t.right
      /\ \A m : Belongs(v, m) <=> Belongs(t, m)
    BY DEF Repainted, Belongs
<1>2. /\ r \in Tree /\ Linked(r) /\ SameNodes(v, r)
      /\ Turned(Mirrored(v), n, Mirrored(r)) /\ r.color = v.color
    BY <1>1, RotateRight
<1>3. Turned(Mirrored(t), n, Mirrored(r))
  <2>1. /\ Mirrored(v).root = Mirrored(t).root
        /\ Mirrored(v).parent = Mirrored(t).parent
        /\ Mirrored(v).left = Mirrored(t).left
        /\ Mirrored(v).right = Mirrored(t).right
    BY <1>1, MirroredFields
  <2> QED BY <1>2, <2>1 DEF Turned
<1>4. SameNodes(t, r)
    BY <1>2, Recoloured, Through
<1> QED BY <1>1, <1>2, <1>3, <1>4 DEF SameNodes, Brings

Near(t, d, s) == IF d = t.left[t.parent[d]] THEN t.left[s] ELSE t.right[s]
Far(t, d, s) == IF d = t.left[t.parent[d]] THEN t.right[s] ELSE t.left[s]

LEMMA TowardsBrings ==
    ASSUME NEW t \in Tree, NEW v \in Tree, Linked(t), Linked(v), Repainted(t, v),
           NEW d \in Nodes, Belongs(t, d), t.parent[d] # Nil,
           NEW s, Pair(t, t.parent[d], d, s), s # Nil,
           NEW r, r = RotateTowards(v, d)
    PROVE  /\ r \in Tree /\ Linked(r) /\ SameNodes(t, r) /\ r.color = v.color
           /\ Brings(t, t.parent[d], s, d, Near(t, d, s), Far(t, d, s), r)
<1> DEFINE p == t.parent[d]
<1>1. /\ v.parent = t.parent /\ v.left = t.left /\ v.right = t.right
      /\ p \in Nodes /\ Belongs(t, p) /\ LinkedAt(t, p) /\ d # Nil
    BY Parents, TreeAssumption DEF Repainted, Linked
<1>2. CASE d = t.left[p]
  <2>1. r = rotate_left(v, p) /\ s = t.right[p]
    BY <1>1, <1>2 DEF RotateTowards, Pair, LinkedAt
  <2> QED BY <1>1, <1>2, <2>1, LeftBrings DEF Near, Far
<1>3. CASE d # t.left[p]
  <2>1. r = rotate_right(v, p) /\ s = t.left[p] /\ d = t.right[p]
    BY <1>1, <1>3 DEF RotateTowards, Pair, LinkedAt
  <2> QED BY <1>1, <1>3, <2>1, RightBrings DEF Near, Far
<1> QED BY <1>2, <1>3

\* D is a way up from z to n.
Way(t, z, n, D) ==
    /\ D \in SUBSET Nodes /\ z \in D /\ n \in D
    /\ \A x \in D : Belongs(t, x) /\ (x # n => t.parent[x] \in D)
    /\ t.parent[n] \notin D

\* What is beside the way is not on it; nor is what is above it.
LEMMA Beside ==
    ASSUME NEW t \in Tree, NEW z, NEW n, NEW D, Linked(t), Way(t, z, n, D)
    PROVE  /\ \A x : t.parent[x] \notin D /\ x # n => x \notin D
           /\ t.parent[n] # Nil => t.parent[t.parent[n]] \notin D
<1>1. SUFFICES ASSUME t.parent[n] # Nil, t.parent[t.parent[n]] \in D PROVE FALSE
    BY DEF Way
<1> DEFINE S == D \cup {t.parent[n]}
<1>2. n \in Nodes /\ Belongs(t, n)
    BY DEF Way
<1>3. t.parent[n] \in Nodes /\ Belongs(t, t.parent[n])
    BY <1>1, <1>2, Parents
<1>4. S \in SUBSET Nodes /\ \A x \in S : Belongs(t, x) /\ t.parent[x] \in S
    BY <1>1, <1>3 DEF Way
<1>5. S = {}
    BY <1>4 DEF Linked, NoCycle
<1> QED BY <1>5

LEMMA WayUp ==
    ASSUME NEW t \in Tree, NEW z, NEW n, NEW D, Linked(t), Way(t, z, n, D),
           t.parent[n] # Nil
    PROVE  Way(t, z, t.parent[n], D \cup {t.parent[n]})
<1>1. n \in Nodes /\ Belongs(t, n)
    BY DEF Way
<1>2. /\ t.parent[n] \in Nodes /\ Belongs(t, t.parent[n])
      /\ t.parent[t.parent[n]] # t.parent[n]
  <2>1. t.parent[n] \in Nodes /\ Belongs(t, t.parent[n])
    BY <1>1, Parents
  <2>2. t.parent[t.parent[n]] # Nil => t.parent[t.parent[n]] # t.parent[n]
    BY <2>1, Parents
  <2> QED BY <2>1, <2>2
<1>3. t.parent[t.parent[n]] \notin D
    BY Beside
<1> QED BY <1>2, <1>3 DEF Way

LEMMA WayKept ==
    ASSUME NEW t, NEW r, NEW z, NEW n, NEW D, Way(t, z, n, D), SameNodes(t, r),
           \A x \in D : r.parent[x] = t.parent[x]
    PROVE  Way(r, z, n, D)
BY DEF Way, SameNodes

-----------------------------------------------------------------------------
(* The rules at every step *)

\* The node a delete looks at as gone, the node a black one is missing below,
\* and the one an insertion leaves red below a red parent.
Taken == IF pc \in DeleteCases \cup {"replace_child"} THEN held ELSE Nil
Short == IF pc \in DeleteCases THEN cur ELSE Nil
Odd == IF pc \in InsertCases THEN cur ELSE Nil

\* What the cases an insertion has gone through leave open.
Inserting ==
    pc \in InsertCases =>
        /\ Color(cur) = "RED"
        /\ pc # "insert_case1" => Parent(cur) # Nil
        /\ pc \in {"insert_case3", "insert_case4", "insert_case5"} =>
               Color(Parent(cur)) = "RED"
        /\ pc \in {"insert_case4", "insert_case5"} => Black(tree, uncle(cur))
        /\ pc = "insert_case5" =>
               (cur = Left(Parent(cur)) <=> Parent(cur) = Left(grandparent(cur)))

OneChild ==
    pc \in {"delete_one_child", "replace_child"} \cup DeleteCases =>
        Left(held) = Nil \/ Right(held) = Nil

\* What those of a delete do.  The repair is made at the node to be taken out
\* or at a black one above it.
Repairing ==
    pc \in DeleteCases =>
        /\ \E D : Way(tree, held, cur, D)
        /\ cur # held => Color(cur) = "BLACK"
        /\ pc # "delete_case1" => Parent(cur) # Nil
        /\ pc \notin {"delete_case1", "delete_case2"} =>
               Color(sibling(cur)) = "BLACK"
        /\ pc = "delete_case4" =>
               ~(Color(Parent(cur)) = "BLACK" /\ AllBlack(sibling(cur)))
        /\ pc = "delete_case5" => ~AllBlack(sibling(cur))
        /\ pc = "delete_case6" => node_color(FarNephew(cur)) = "RED"

RuleInv == Balance(tree, Taken, Short, Odd) /\ Inserting /\ OneChild /\ Repairing

\* No repair is under way.
Calm == pc \notin InsertCases \cup DeleteCases \cup {"replace_child"}

LEMMA AtRest == RuleInv /\ Calm => Balance(tree, Nil, Nil, Nil)
BY DEF RuleInv, Calm, Taken, Short, Odd

LEMMA ToRest ==
    ASSUME Balance(tree', Nil, Nil, Nil), Calm',
           pc' = "delete_one_child" => Left(held)' = Nil \/ Right(held)' = Nil
    PROVE  RuleInv'
<1>1. Taken' = Nil /\ Short' = Nil /\ Odd' = Nil
    BY DEF Calm, Taken, Short, Odd
<1>2. Balance(tree, Taken, Short, Odd)'
    BY <1>1
<1>3. Inserting' /\ Repairing' /\ OneChild'
    BY DEF Calm, Inserting, Repairing, OneChild
<1> QED BY <1>2, <1>3 DEF RuleInv

LEMMA RulesInit == Init => RuleInv
<1> SUFFICES ASSUME Init PROVE RuleInv
    OBVIOUS
<1>1. \A n \in Nodes : ~Belongs(tree, n)
    BY TreeAssumption DEF Init, Belongs
<1> DEFINE h == [n \in NodeOrNil |-> 0]
<1>2. h \in [NodeOrNil -> Nat] /\ h[Nil] = 0
    BY DEF NodeOrNil
<1> HIDE DEF h
<1>3. Even(tree, h, Nil, Nil)
    BY <1>1, <1>2 DEF Even
<1>4. Reds(tree, Nil, Nil, Nil) /\ RootBlack(tree, Nil, Nil)
    BY <1>1 DEF Init, Reds, RootBlack, Black
<1>5. pc = "idle"
    BY DEF Init
<1>6. Balance(tree, Taken, Short, Odd)
    BY <1>3, <1>4, <1>5 DEF Balance, Taken, Short, Odd, DeleteCases, InsertCases
<1>7. Inserting /\ OneChild /\ Repairing
    BY <1>5 DEF Inserting, OneChild, Repairing, DeleteCases, InsertCases
<1> QED BY <1>6, <1>7 DEF RuleInv

\* The steps that leave the tree alone, before a repair.
LEMMA CalmRules ==
    ASSUME RuleInv,
           \/ \E k \in Keys : CallInsert(k) \/ \E o \in {"find", "delete"} : CallSearch(o, k)
           \/ rbtree_find \/ binary_find \/ rbtree_delete \/ find_subtree_min
           \/ Return,
           pc = "rbtree_delete" => cur = held
    PROVE  RuleInv'
<1>1. /\ Calm /\ tree' = tree
      /\ pc' \in {"idle", "rbtree_insert", "rbtree_find", "rbtree_delete",
                  "find_subtree_min", "delete_one_child", "return"}
    BY DEF Calm, CallInsert, CallSearch, rbtree_find, binary_find,
           rbtree_delete, find_subtree_min, Return, Goto, InsertCases,
           DeleteCases
<1>2. Balance(tree', Nil, Nil, Nil)
    BY <1>1, AtRest
<1>3. Calm'
    BY <1>1 DEF Calm, InsertCases, DeleteCases
<1>4. pc' = "delete_one_child" => Left(held)' = Nil \/ Right(held)' = Nil
  <2>1. SUFFICES ASSUME pc' = "delete_one_child"
                 PROVE  Left(held)' = Nil \/ Right(held)' = Nil
    OBVIOUS
  <2>2. rbtree_delete \/ find_subtree_min
    BY <2>1 DEF CallInsert, CallSearch, rbtree_find, binary_find, Return, Goto
  <2>3. CASE rbtree_delete
    BY <2>1, <2>3 DEF rbtree_delete, Goto, Left, Right, call
  <2>4. CASE find_subtree_min
    BY <1>1, <2>1, <2>4 DEF find_subtree_min, Goto, Left
  <2> QED BY <2>2, <2>3, <2>4
<1> QED BY <1>2, <1>3, <1>4, ToRest

\* What a step that does not delete leaves, once the rules hold but for a node
\* an insertion case goes on with.
LEMMA ToInsert ==
    ASSUME pc' \in InsertCases, Balance(tree', Nil, Nil, cur'), Inserting'
    PROVE  RuleInv'
<1>1. Taken' = Nil /\ Short' = Nil /\ Odd' = cur'
    BY DEF Taken, Short, Odd, InsertCases, DeleteCases
<1>2. Balance(tree, Taken, Short, Odd)'
    BY <1>1
<1>3. OneChild' /\ Repairing'
    BY DEF OneChild, Repairing, InsertCases, DeleteCases
<1> QED BY <1>2, <1>3 DEF RuleInv

LEMMA InsertRules ==
    ASSUME TreeInv, TakenForGranted, RuleInv,
           rbtree_insert \/ binary_node_insert
    PROVE  RuleInv'
<1> USE TreeAssumption
<1>1. /\ pc = "rbtree_insert" /\ val' = val /\ op = "insert" /\ ~found
      /\ held' = held /\ op' = op
      /\ held \in Nodes /\ ~Belongs(tree, held) /\ Holding
      /\ tree \in Tree /\ Linked(tree)
    BY DEF rbtree_insert, binary_node_insert, call, TreeInv, Shape, Given,
           Allocated, Holding
<1>2. /\ tree.left \in Links /\ tree.right \in Links /\ tree.parent \in Links
      /\ tree.color \in [Nodes -> {"RED", "BLACK"}]
    BY <1>1 DEF Tree
<1>3. Balance(tree, Nil, Nil, Nil)
    BY <1>1, AtRest DEF Calm, InsertCases, DeleteCases
<1>4. TreeInv'
    BY InsertKeeps
<1>5. ASSUME found' = found, pc' # "rbtree_insert"
      PROVE  \A m \in Nodes : Belongs(tree', m) <=> Belongs(tree, m) \/ m = held
  <2>1. \A m \in Nodes : val[m] # NoKey <=> Belongs(tree, m) \/ m = held
    BY <1>1 DEF TreeInv, Allocated
  <2>2. \A m \in Nodes : val[m] # NoKey <=> Belongs(tree', m)
    BY <1>1, <1>4, <1>5 DEF TreeInv, Allocated, Holding
  <2> QED BY <2>1, <2>2
<1>6. CASE rbtree_insert
  <2>2. tree' = [Leaf(tree, held, Nil, "BLACK") EXCEPT !.root = held]
        /\ Goto("return", Nil)
    BY <1>6 DEF rbtree_insert
  <2>3. /\ tree'.left = [tree.left EXCEPT ![held] = Nil]
        /\ tree'.right = [tree.right EXCEPT ![held] = Nil]
        /\ tree'.root = held
        /\ tree'.color = [tree.color EXCEPT ![held] = "BLACK"]
    BY <1>1, <2>2 DEF Leaf, Tree
  <2>4. tree'.left[held] = Nil /\ tree'.right[held] = Nil
    BY <1>1, <1>2, <2>3 DEF Links
  <2>5. \A m \in Nodes : ~Belongs(tree, m)
    BY <1>1, <1>6, Empty DEF rbtree_insert
  <2>6. pc' = "return" /\ found' = found
    BY <1>6, <2>2 DEF Goto, rbtree_insert, call
  <2>7. \A m \in Nodes : Belongs(tree', m) <=> m = held
    BY <1>5, <2>5, <2>6
  <2>8. tree' \in Tree
    BY <1>4 DEF TreeInv, Shape
  <2>9. tree'.color[held] = "BLACK"
    BY <1>1, <1>2, <2>3
  <2>10. Balance(tree', Nil, Nil, Nil)
    BY <1>1, <2>3, <2>4, <2>7, <2>8, <2>9, Planted
  <2> QED BY <2>6, <2>10, ToRest DEF Calm, InsertCases, DeleteCases
<1>7. ASSUME tree' = tree, Goto("return", Nil)
      PROVE  RuleInv'
    BY <1>3, <1>7, ToRest DEF Calm, Goto, InsertCases, DeleteCases
<1>8. ASSUME binary_node_insert, key # val[Reached(key)],
             tree' = LET t == Leaf(tree, held, Reached(key), "RED")
                     IN  IF key < val[Reached(key)]
                           THEN [t EXCEPT !.left[Reached(key)] = held]
                           ELSE [t EXCEPT !.right[Reached(key)] = held],
             Goto("insert_case1", held), found' = found
      PROVE  RuleInv'
  <2> DEFINE p == Reached(key)
  <2>1. /\ p \in Nodes /\ Belongs(tree, p) /\ val[p] \in Keys
        /\ key < val[p] => Left(p) = Nil
        /\ key > val[p] => Right(p) = Nil
        /\ tree.root # Nil
    <3>1. p \in Members /\ (key < val[p] => Left(p) = Nil)
            /\ (key > val[p] => Right(p) = Nil) /\ tree.root # Nil
        BY <1>1, <1>8 DEF TakenForGranted, binary_node_insert
    <3> QED BY <3>1 DEF TreeInv, Shape, Members, Belongs, IsChild, Left,
               Right, Parent
  <2> HIDE DEF p
  <2>2. key \in Int /\ val[p] \in Int
    BY <2>1 DEF TreeInv, Shape
  <2>3. p # held
    BY <1>1, <2>1
  <2> DEFINE r == Leaf(tree, held, p, "RED")
  <2>4. /\ r \in Tree /\ r.root = tree.root
        /\ r.left = [tree.left EXCEPT ![held] = Nil]
        /\ r.right = [tree.right EXCEPT ![held] = Nil]
        /\ r.parent = [tree.parent EXCEPT ![held] = p]
        /\ r.color[held] = "RED"
        /\ \A m \in Nodes : m # held => r.color[m] = tree.color[m]
    <3>1. p \in NodeOrNil /\ "RED" \in {"RED", "BLACK"}
      BY <2>1 DEF NodeOrNil
    <3>2. r = Leaf(tree, held, p, "RED")
      OBVIOUS
    <3> HIDE DEF r
    <3> QED BY <1>1, <3>1, <3>2, Leaves
  <2>5. tree' = IF key < val[p] THEN [r EXCEPT !.left[p] = held]
                                ELSE [r EXCEPT !.right[p] = held]
    BY <1>8 DEF p, r
  <2> HIDE DEF r
  <2>6. /\ tree'.root = tree.root /\ tree'.color = r.color
        /\ tree'.left[held] = Nil /\ tree'.right[held] = Nil
        /\ \A m \in Nodes : m # held =>
              /\ \/ tree'.left[m] = tree.left[m]
                 \/ tree.left[m] = Nil /\ tree'.left[m] = held
              /\ \/ tree'.right[m] = tree.right[m]
                 \/ tree.right[m] = Nil /\ tree'.right[m] = held
              /\ tree'.parent[m] = tree.parent[m]
    <3>1. CASE key < val[p]
      <4>1. tree' = [r EXCEPT !.left[p] = held]
        BY <2>5, <3>1
      <4>2. /\ tree'.root = r.root /\ tree'.color = r.color
            /\ tree'.left = [r.left EXCEPT ![p] = held]
            /\ tree'.right = r.right /\ tree'.parent = r.parent
        BY <2>4, <4>1 DEF Tree
      <4>3. tree.left[p] = Nil
        BY <2>1, <3>1 DEF Left
      <4> QED BY <1>1, <1>2, <2>1, <2>3, <2>4, <4>2, <4>3 DEF Links
    <3>2. CASE ~(key < val[p])
      <4>1. tree' = [r EXCEPT !.right[p] = held]
        BY <2>5, <3>2
      <4>2. /\ tree'.root = r.root /\ tree'.color = r.color
            /\ tree'.right = [r.right EXCEPT ![p] = held]
            /\ tree'.left = r.left /\ tree'.parent = r.parent
        BY <2>4, <4>1 DEF Tree
      <4>3. key > val[p]
        BY <1>8, <2>2, <3>2 DEF p
      <4>4. tree.right[p] = Nil
        BY <2>1, <4>3 DEF Right
      <4> QED BY <1>1, <1>2, <2>1, <2>3, <2>4, <4>2, <4>4 DEF Links
    <3> QED BY <3>1, <3>2
  <2>7. pc' = "insert_case1" /\ cur' = held
    BY <1>8 DEF Goto
  <2>8. /\ \A m \in Nodes : Belongs(tree', m) <=> Belongs(tree, m) \/ m = held
        /\ tree' \in Tree
    BY <1>4, <1>5, <1>8, <2>7 DEF TreeInv, Shape
  <2>9. /\ tree'.color[held] = "RED"
        /\ \A m \in Nodes : m # held => tree'.color[m] = tree.color[m]
    BY <2>4, <2>6
  <2>10. Balance(tree', Nil, Nil, held)
    BY <1>1, <1>3, <2>1, <2>6, <2>8, <2>9, Sprouted
  <2>11. Inserting'
    BY <2>7, <2>9 DEF Inserting, Color
  <2> QED BY <2>7, <2>10, <2>11, ToInsert DEF InsertCases
<1> QED BY <1>6, <1>7, <1>8 DEF binary_node_insert

\* A red node that has a red parent has a black grandparent, and its sibling
\* is black.
LEMMA InsertFamily ==
    ASSUME TreeInv, RuleInv, pc \in InsertCases
    PROVE  LET p == Parent(cur)
               g == grandparent(cur)
               u == uncle(cur)
           IN  /\ tree \in Tree /\ Linked(tree)
               /\ cur \in Nodes /\ Belongs(tree, cur) /\ tree.color[cur] = "RED"
               /\ Balance(tree, Nil, Nil, cur)
               /\ p # Nil =>
                     /\ p \in Nodes /\ Belongs(tree, p) /\ p # cur
                     /\ tree.color[p] \in {"RED", "BLACK"}
                     /\ cur = Left(p) \/ cur = Right(p)
                     /\ Left(p) # Right(p)
                     /\ tree.root # cur
               /\ p # Nil /\ tree.color[p] = "RED" =>
                     /\ g \in Nodes /\ Belongs(tree, g) /\ g # p /\ g # cur
                     /\ tree.color[g] = "BLACK"
                     /\ p = Left(g) \/ p = Right(g)
                     /\ Left(g) # Right(g)
                     /\ cur # Left(p) => Black(tree, Left(p))
                     /\ cur # Right(p) => Black(tree, Right(p))
                     /\ u # Nil => u \in Nodes /\ u # g /\ u # p /\ u # cur
                     /\ tree.parent[cur] \in {tree.left[g], tree.right[g]}
                     /\ p = Left(g) => u = Right(g)
                     /\ p # Left(g) => u = Left(g)
<1> USE TreeAssumption
<1> DEFINE p == Parent(cur)
           g == grandparent(cur)
           u == uncle(cur)
<1>1. /\ tree \in Tree /\ Linked(tree)
      /\ cur \in Nodes /\ Belongs(tree, cur) /\ tree.color[cur] = "RED"
      /\ Balance(tree, Nil, Nil, cur)
    BY DEF TreeInv, Shape, Given, RuleInv, Inserting, Color, Taken, Short, Odd,
           InsertCases, DeleteCases
<1>2. /\ tree.left \in Links /\ tree.right \in Links /\ tree.parent \in Links
      /\ tree.color \in [Nodes -> {"RED", "BLACK"}]
    BY <1>1 DEF Tree
<1>3. ASSUME NEW m \in Nodes, Belongs(tree, m), Parent(m) # Nil
      PROVE  /\ Parent(m) \in Nodes /\ Belongs(tree, Parent(m)) /\ Parent(m) # m
             /\ m = Left(Parent(m)) \/ m = Right(Parent(m))
             /\ Left(Parent(m)) # Right(Parent(m))
             /\ tree.root # m
  <2>1. /\ Parent(m) \in Nodes /\ Belongs(tree, Parent(m)) /\ Parent(m) # m
        /\ tree.root # m
        /\ m = Left(Parent(m)) \/ m = Right(Parent(m))
    BY <1>1, <1>3, Parents DEF Parent, Left, Right
  <2>2. LinkedAt(tree, Parent(m))
    BY <1>1, <2>1 DEF Linked
  <2> QED BY <2>1, <2>2 DEF LinkedAt, Left, Right
<1>4. ASSUME NEW m \in Nodes, Belongs(tree, m), m # cur, Parent(m) # Nil,
             tree.color[Parent(m)] # "BLACK"
      PROVE  tree.color[m] # "RED"
    BY <1>1, <1>4 DEF Balance, Reds, RedAt, Black, Parent
<1>5. ASSUME p # Nil
      PROVE  /\ p \in Nodes /\ Belongs(tree, p) /\ p # cur
             /\ tree.color[p] \in {"RED", "BLACK"}
             /\ cur = Left(p) \/ cur = Right(p)
             /\ Left(p) # Right(p)
             /\ tree.root # cur
    BY <1>1, <1>2, <1>3, <1>5
<1>6. ASSUME p # Nil, tree.color[p] = "RED"
      PROVE  /\ g \in Nodes /\ Belongs(tree, g) /\ g # p /\ g # cur
             /\ tree.color[g] = "BLACK"
             /\ p = Left(g) \/ p = Right(g)
             /\ Left(g) # Right(g)
             /\ cur # Left(p) => Black(tree, Left(p))
             /\ cur # Right(p) => Black(tree, Right(p))
             /\ u # Nil => u \in Nodes /\ u # g /\ u # p /\ u # cur
             /\ tree.parent[cur] \in {tree.left[g], tree.right[g]}
             /\ p = Left(g) => u = Right(g)
             /\ p # Left(g) => u = Left(g)
  <2>1. p \in Nodes /\ Belongs(tree, p) /\ p # cur /\ tree.root # cur
    BY <1>5, <1>6
  <2>2. Parent(p) # Nil
    <3>1. tree.root # p
      BY <1>1, <1>6, <2>1 DEF Balance, RootBlack, Black
    <3> QED BY <1>1, <2>1, <3>1, Parents DEF Parent
  <2>3. g = Parent(p)
    BY DEF grandparent
  <2>4. /\ g \in Nodes /\ Belongs(tree, g) /\ g # p
        /\ p = Left(g) \/ p = Right(g)
        /\ Left(g) # Right(g)
    BY <1>3, <2>1, <2>2, <2>3
  <2>5. g # cur
    <3>1. ASSUME g = cur PROVE FALSE
      <4>1. \A m \in {cur, p} : Belongs(tree, m) /\ tree.parent[m] \in {cur, p}
        BY <1>1, <2>1, <2>3, <3>1 DEF Parent
      <4> QED BY <1>1, <2>1, <4>1 DEF Linked, NoCycle
    <3> QED BY <3>1
  <2>6. tree.color[g] = "BLACK"
    <3>1. RedAt(tree, Nil, Nil, p)
      BY <1>1, <2>1 DEF Balance, Reds
    <3> QED BY <1>6, <2>2, <2>3, <3>1 DEF RedAt, Black, Parent
  <2>7. LinkedAt(tree, p) /\ LinkedAt(tree, g)
    BY <1>1, <2>1, <2>4 DEF Linked
  <2>8. cur # Left(p) => Black(tree, Left(p))
    <3>1. Left(p) # Nil => /\ Left(p) \in Nodes /\ Parent(Left(p)) = p
                           /\ Belongs(tree, Left(p))
      BY <1>2, <2>1, <2>7 DEF LinkedAt, Belongs, Left, Parent, Links, NodeOrNil
    <3> QED BY <1>2, <1>4, <1>6, <2>1, <3>1 DEF Black
  <2>9. cur # Right(p) => Black(tree, Right(p))
    <3>1. Right(p) # Nil => /\ Right(p) \in Nodes /\ Parent(Right(p)) = p
                            /\ Belongs(tree, Right(p))
      BY <1>2, <2>1, <2>7 DEF LinkedAt, Belongs, Right, Parent, Links, NodeOrNil
    <3> QED BY <1>2, <1>4, <1>6, <2>1, <3>1 DEF Black
  <2>10. (p = Left(g) => u = Right(g)) /\ (p # Left(g) => u = Left(g))
    BY DEF uncle
  <2>11. u # Nil => /\ u \in Nodes /\ u # p /\ Parent(u) = g
    BY <1>2, <2>4, <2>7, <2>10 DEF LinkedAt, Left, Right, Parent, Links, NodeOrNil
  <2>12. Parent(g) # g
    <3>1. Parent(g) # Nil => Parent(g) # g
      BY <1>3, <2>4
    <3> QED BY <2>4, <3>1
  <2>13. u # Nil => u # g /\ u # cur
    BY <2>3, <2>4, <2>11, <2>12
  <2>14. tree.parent[cur] \in {tree.left[g], tree.right[g]}
    BY <2>4 DEF Parent, Left, Right
  <2> QED BY <2>4, <2>5, <2>6, <2>8, <2>9, <2>10, <2>11, <2>13, <2>14
<1> QED BY <1>1, <1>5, <1>6

\* Cases 1 to 3.
LEMMA InsertColours ==
    ASSUME TreeInv, RuleInv, insert_case1 \/ insert_case2 \/ insert_case3
    PROVE  RuleInv'
<1> USE TreeAssumption
<1> DEFINE p == Parent(cur)
           g == grandparent(cur)
           u == uncle(cur)
<1>1. pc \in InsertCases
    BY DEF insert_case1, insert_case2, insert_case3, InsertCases
<1>2. /\ tree \in Tree /\ Linked(tree)
      /\ cur \in Nodes /\ Belongs(tree, cur) /\ tree.color[cur] = "RED"
      /\ Balance(tree, Nil, Nil, cur)
      /\ p # Nil => /\ p \in Nodes /\ Belongs(tree, p) /\ p # cur
                    /\ tree.color[p] \in {"RED", "BLACK"}
                    /\ tree.root # cur
    BY <1>1, InsertFamily
<1>3. ASSUME tree' = tree, cur' = cur, pc' \in InsertCases, pc' # "insert_case5",
             p # Nil,
             pc' \in {"insert_case3", "insert_case4"} => tree.color[p] = "RED",
             pc' = "insert_case4" => Black(tree, u)
      PROVE  RuleInv'
  <2>1. Inserting'
    BY <1>2, <1>3 DEF Inserting, Color, Parent, uncle, grandparent, Left, Right
  <2> QED BY <1>2, <1>3, <2>1, ToInsert
<1>4. ASSUME Balance(tree', Nil, Nil, Nil), Goto("return", Nil)
      PROVE  RuleInv'
    BY <1>4, ToRest DEF Goto, Calm, InsertCases, DeleteCases
<1>5. CASE insert_case1
  <2>1. CASE p = Nil
    <3>1. tree' = Paint(tree, cur, "BLACK") /\ Goto("return", Nil)
      BY <1>5, <2>1 DEF insert_case1
    <3> DEFINE r == Paint(tree, cur, "BLACK")
    <3>2. /\ r \in Tree /\ Repainted(tree, r)
          /\ r.color[cur] = "BLACK"
          /\ \A m \in Nodes : m # cur => r.color[m] = tree.color[m]
      BY <1>2, Painted DEF Repainted
    <3> HIDE DEF r
    <3>3. tree.root = cur
      BY <1>2, <2>1 DEF Parent, Linked, Belongs
    <3>4. (\E h : Even(tree, h, Nil, Nil)) /\ Reds(tree, Nil, Nil, cur)
      BY <1>2 DEF Balance
    <3>5. Balance(r, Nil, Nil, Nil)
      BY <1>2, <3>2, <3>3, <3>4, RootPainted
    <3>6. tree' = r
      BY <3>1 DEF r
    <3> QED BY <1>4, <3>1, <3>5, <3>6
  <2>2. CASE p # Nil
    <3>1. tree' = tree /\ pc' = "insert_case2" /\ cur' = cur
      BY <1>5, <2>2 DEF insert_case1, Goto
    <3> QED BY <1>3, <2>2, <3>1 DEF InsertCases
  <2> QED BY <2>1, <2>2
<1>6. CASE insert_case2
  <2>1. p # Nil /\ tree' = tree
    BY <1>6 DEF insert_case2, RuleInv, Inserting, InsertCases
  <2>2. CASE tree.color[p] = "BLACK"
    <3>1. Goto("return", Nil)
      BY <1>6, <2>2 DEF insert_case2, Color
    <3>2. Reds(tree, Nil, Nil, Nil)
      <4>1. RedAt(tree, Nil, Nil, cur)
        BY <2>2 DEF RedAt, Black, Parent
      <4> QED BY <1>2, <4>1 DEF Balance, Reds
    <3>3. Balance(tree, Nil, Nil, Nil)
      BY <1>2, <2>1, <3>2 DEF Balance, RootBlack
    <3> QED BY <1>4, <2>1, <3>1, <3>3
  <2>3. CASE tree.color[p] # "BLACK"
    <3>1. pc' = "insert_case3" /\ cur' = cur
      BY <1>6, <2>3 DEF insert_case2, Goto, Color
    <3> QED BY <1>2, <1>3, <2>1, <2>3, <3>1 DEF InsertCases
  <2> QED BY <2>2, <2>3
<1>7. CASE insert_case3
  <2>1. p # Nil /\ tree.color[p] = "RED"
    BY <1>7 DEF insert_case3, RuleInv, Inserting, InsertCases, Color
  <2>2. /\ g \in Nodes /\ Belongs(tree, g) /\ g # p
        /\ tree.color[g] = "BLACK"
        /\ p = Left(g) \/ p = Right(g)
        /\ u # Nil => u \in Nodes /\ u # g /\ u # p
        /\ tree.parent[cur] \in {tree.left[g], tree.right[g]}
        /\ p = Left(g) => u = Right(g)
        /\ p # Left(g) => u = Left(g)
    BY <1>1, <2>1, InsertFamily
  <2>3. CASE node_color(u) = "RED"
    <3>1. u \in Nodes /\ tree.color[u] = "RED"
      BY <2>2, <2>3 DEF node_color, Color
    <3> DEFINE t1 == Paint(tree, p, "BLACK")
               t2 == Paint(t1, u, "BLACK")
               t3 == Paint(t2, g, "RED")
    <3>2. /\ t1 \in Tree /\ Linked(t1) /\ Repainted(tree, t1)
          /\ t1.color[p] = "BLACK"
          /\ \A m \in Nodes : m # p => t1.color[m] = tree.color[m]
      BY <1>2, <2>1, Painted DEF Repainted
    <3> HIDE DEF t1
    <3>3. /\ t2 \in Tree /\ Linked(t2) /\ Repainted(t1, t2)
          /\ t2.color[u] = "BLACK"
          /\ \A m \in Nodes : m # u => t2.color[m] = t1.color[m]
      BY <3>1, <3>2, Painted DEF Repainted
    <3> HIDE DEF t2
    <3>4. /\ t3 \in Tree /\ Repainted(t2, t3)
          /\ t3.color[g] = "RED"
          /\ \A m \in Nodes : m # g => t3.color[m] = t2.color[m]
      BY <2>2, <3>3, Painted DEF Repainted
    <3> HIDE DEF t3
    <3>5. tree' = t3 /\ pc' = "insert_case1" /\ cur' = g
      BY <1>7, <2>3 DEF insert_case3, Goto, t1, t2, t3
    <3>6. Repainted(tree, tree')
      BY <3>2, <3>3, <3>4, <3>5 DEF Repainted
    <3>7. /\ tree'.color[g] = "RED"
          /\ tree'.color[p] = "BLACK" /\ tree'.color[u] = "BLACK"
          /\ \A m \in Nodes : m \notin {g, p, u}
                              => tree'.color[m] = tree.color[m]
      BY <1>2, <2>1, <2>2, <3>1, <3>2, <3>3, <3>4, <3>5
    <3>8. \/ p = tree.left[g] /\ u = tree.right[g]
          \/ u = tree.left[g] /\ p = tree.right[g]
      BY <2>2 DEF Left, Right
    <3>9. Balance(tree', Nil, Nil, g)
      <4>1. /\ tree' \in Tree /\ tree.left[g] # Nil /\ tree.right[g] # Nil
            /\ tree.color[tree.left[g]] = "RED"
            /\ tree.color[tree.right[g]] = "RED"
            /\ tree'.color[tree.left[g]] = "BLACK"
            /\ tree'.color[tree.right[g]] = "BLACK"
            /\ \A m \in Nodes : m \notin {g, tree.left[g], tree.right[g]}
                                => tree'.color[m] = tree.color[m]
        BY <1>2, <2>1, <3>1, <3>4, <3>5, <3>7, <3>8
      <4> QED BY <1>2, <2>2, <3>6, <3>7, <4>1, Handed
    <3>10. Inserting'
      BY <3>5, <3>7 DEF Inserting, Color
    <3> QED BY <3>5, <3>9, <3>10, ToInsert DEF InsertCases
  <2>4. CASE node_color(u) # "RED"
    <3>1. tree' = tree /\ pc' = "insert_case4" /\ cur' = cur
      BY <1>7, <2>4 DEF insert_case3, Goto
    <3>2. Black(tree, u)
      <4>1. u = Nil \/ tree.color[u] \in {"RED", "BLACK"}
        BY <1>2, <2>2 DEF Tree
      <4> QED BY <2>4, <4>1 DEF Black, node_color, Color
    <3> QED BY <1>3, <2>1, <3>1, <3>2 DEF InsertCases
  <2> QED BY <2>3, <2>4
<1> QED BY <1>5, <1>6, <1>7

\* Cases 4 and 5.
LEMMA InsertRotations ==
    ASSUME TreeInv, RuleInv, insert_case4 \/ insert_case5
    PROVE  RuleInv'
<1> USE TreeAssumption
<1> DEFINE p == Parent(cur)
           g == grandparent(cur)
           u == uncle(cur)
<1>1. pc \in {"insert_case4", "insert_case5"}
    BY DEF insert_case4, insert_case5
<1>2. p # Nil /\ tree.color[p] = "RED" /\ Black(tree, u)
    BY <1>1 DEF RuleInv, Inserting, InsertCases, Color
<1>3. /\ tree \in Tree /\ Linked(tree)
      /\ cur \in Nodes /\ Belongs(tree, cur) /\ tree.color[cur] = "RED"
      /\ Balance(tree, Nil, Nil, cur)
      /\ p \in Nodes /\ Belongs(tree, p) /\ p # cur
      /\ cur = Left(p) \/ cur = Right(p)
      /\ Left(p) # Right(p)
      /\ g \in Nodes /\ Belongs(tree, g) /\ g # p /\ g # cur
      /\ tree.color[g] = "BLACK"
      /\ p = Left(g) \/ p = Right(g)
      /\ Left(g) # Right(g)
      /\ cur # Left(p) => Black(tree, Left(p))
      /\ cur # Right(p) => Black(tree, Right(p))
      /\ u # Nil => u \in Nodes /\ u # g /\ u # p /\ u # cur
      /\ p = Left(g) => u = Right(g)
      /\ p # Left(g) => u = Left(g)
    BY <1>1, <1>2, InsertFamily DEF InsertCases
<1>4. g = tree.parent[p] /\ p = tree.parent[cur]
    BY DEF grandparent, Parent
<1>5. CASE insert_case4
  \* A rotation brings cur above its parent, on the side its parent was on.
  <2>1. ASSUME tree' \in Tree, tree'.color = tree.color,
               NEW w, NEW i, NEW o, Brings(tree, p, cur, w, i, o, tree'),
               Black(tree, w), Goto("insert_case5", p),
               tree.left[g] = p <=> cur = tree.right[p]
        PROVE  RuleInv'
    <3>1. Balance(tree', Nil, Nil, p)
      BY <1>2, <1>3, <2>1, Swap
    <3>2. /\ p # cur /\ cur # g
          /\ \A m \in Nodes : tree'.parent[m] = IF m = p THEN cur ELSE IF m = cur THEN g
                                      ELSE IF m = i THEN p ELSE tree.parent[m]
          /\ tree'.left[g] = IF tree.left[g] = p THEN cur ELSE tree.left[g]
          /\ tree'.right[g] = IF tree.right[g] = p THEN cur ELSE tree.right[g]
          /\ \/ cur = tree.right[p] /\ tree'.left[cur] = p
             \/ cur = tree.left[p] /\ tree'.right[cur] = p
                /\ tree'.left[cur] = o
      BY <1>3, <1>4, <2>1, BroughtFields
    <3>3. /\ pc' = "insert_case5" /\ cur' = p
          /\ Parent(cur)' = cur /\ grandparent(cur)' = g
      BY <1>3, <2>1, <3>2 DEF Goto, Parent, grandparent
    <3>4. tree.left[g] # tree.right[g] /\ tree.left[p] # tree.right[p]
      BY <1>3 DEF Left, Right
    <3>5. tree'.right[cur] = p /\ cur # tree.right[p] => tree'.left[cur] # p
      <4>1. SUFFICES ASSUME cur = tree.left[p], o = p PROVE FALSE
        BY <3>2
      <4>2. o = tree.left[cur]
        BY <1>3, <2>1, <3>4, <4>1 DEF Brings
      <4>3. LinkedAt(tree, cur)
        BY <1>3 DEF Linked
      <4>4. tree.parent[p] = cur
        BY <1>3, <4>1, <4>2, <4>3 DEF LinkedAt
      <4> QED BY <1>3, <1>4, <4>4
    <3>6. p = tree'.left[cur] <=> cur = tree'.left[g]
      <4>1. CASE tree.left[g] = p
        BY <2>1, <3>2, <3>4, <4>1
      <4>2. CASE tree.left[g] # p
        <5>1. cur # tree.left[g]
          <6>1. LinkedAt(tree, g)
            BY <1>3 DEF Linked
          <6> QED BY <1>3, <1>4, <6>1 DEF LinkedAt
        <5> QED BY <2>1, <3>2, <3>4, <3>5, <4>2, <5>1
      <4> QED BY <4>1, <4>2
    <3>7. uncle(cur)' = u
      <4>1. uncle(cur)' = IF cur = tree'.left[g] THEN tree'.right[g]
                                                 ELSE tree'.left[g]
        BY <3>3 DEF uncle, Left, Right
      <4>2. CASE tree.left[g] = p
        BY <1>3, <3>2, <3>4, <4>1, <4>2 DEF Left, Right
      <4>3. CASE tree.left[g] # p
        <5>1. cur # tree.left[g]
          <6>1. LinkedAt(tree, g)
            BY <1>3 DEF Linked
          <6> QED BY <1>3, <1>4, <6>1 DEF LinkedAt
        <5> QED BY <1>3, <3>2, <3>4, <4>1, <4>3, <5>1 DEF Left, Right
      <4> QED BY <4>2, <4>3
    <3>8. Inserting'
      <4>1. Color(cur)' = "RED" /\ Color(Parent(cur))' = "RED" /\ Parent(cur)' # Nil
        BY <1>2, <1>3, <2>1, <3>3 DEF Color
      <4>2. Black(tree', uncle(cur)')
        BY <1>2, <2>1, <3>7 DEF Black
      <4>3. (cur = Left(Parent(cur)))' <=> (Parent(cur) = Left(grandparent(cur)))'
        BY <3>3, <3>6 DEF Left
      <4> QED BY <4>1, <4>2, <4>3 DEF Inserting
    <3> QED BY <3>1, <3>3, <3>8, ToInsert DEF InsertCases
  <2>2. CASE cur = Right(p) /\ p = Left(g)
    <3>1. tree' = rotate_left(tree, p) /\ Goto("insert_case5", p)
      BY <1>5, <2>2 DEF insert_case4
    <3>2. cur = tree.right[p] /\ tree.left[g] = p /\ Black(tree, tree.left[p])
      BY <1>3, <2>2 DEF Left, Right
    <3>3. Repainted(tree, tree)
      BY DEF Repainted
    <3>4. /\ tree' \in Tree /\ tree'.color = tree.color
          /\ Brings(tree, p, cur, tree.left[p], tree.left[cur], tree.right[cur], tree')
      BY <1>3, <3>1, <3>2, <3>3, LeftBrings
    <3> QED BY <2>1, <3>1, <3>2, <3>4
  <2>3. CASE ~(cur = Right(p) /\ p = Left(g)) /\ cur = Left(p) /\ p = Right(g)
    <3>1. tree' = rotate_right(tree, p) /\ Goto("insert_case5", p)
      BY <1>5, <2>3 DEF insert_case4
    <3>2. /\ cur = tree.left[p] /\ tree.left[g] # p /\ Black(tree, tree.right[p])
          /\ cur # tree.right[p]
      BY <1>3, <2>3 DEF Left, Right
    <3>3. Repainted(tree, tree)
      BY DEF Repainted
    <3>4. /\ tree' \in Tree /\ tree'.color = tree.color
          /\ Brings(tree, p, cur, tree.right[p], tree.right[cur], tree.left[cur], tree')
      BY <1>3, <3>1, <3>2, <3>3, RightBrings
    <3> QED BY <2>1, <3>1, <3>2, <3>4
  <2>4. CASE ~(cur = Right(p) /\ p = Left(g)) /\ ~(cur = Left(p) /\ p = Right(g))
    <3>1. tree' = tree /\ pc' = "insert_case5" /\ cur' = cur
      BY <1>5, <2>4 DEF insert_case4, Goto
    <3>2. cur = Left(p) <=> p = Left(g)
      BY <1>3, <2>4
    <3>3. Inserting'
      BY <1>2, <1>3, <3>1, <3>2
         DEF Inserting, Color, Parent, uncle, grandparent, Left, Right
    <3> QED BY <1>3, <3>1, <3>3, ToInsert DEF InsertCases
  <2> QED BY <2>2, <2>3, <2>4
<1>6. CASE insert_case5
  <2>1. cur = Left(p) <=> p = Left(g)
    BY <1>6 DEF insert_case5, RuleInv, Inserting, InsertCases
  <2> DEFINE t1 == Paint(tree, p, "BLACK")
             t2 == Paint(t1, g, "RED")
  <2>2. /\ t1 \in Tree /\ Linked(t1) /\ Repainted(tree, t1)
        /\ t1.color[p] = "BLACK"
        /\ \A m \in Nodes : m # p => t1.color[m] = tree.color[m]
    BY <1>3, Painted DEF Repainted
  <2> HIDE DEF t1
  <2>3. /\ t2 \in Tree /\ Linked(t2) /\ Repainted(t1, t2)
        /\ t2.color[g] = "RED"
        /\ \A m \in Nodes : m # g => t2.color[m] = t1.color[m]
    BY <1>3, <2>2, Painted DEF Repainted
  <2> HIDE DEF t2
  <2>4. /\ tree' = IF cur = Left(p) /\ p = Left(g) THEN rotate_right(t2, g)
                                                 ELSE rotate_left(t2, g)
        /\ Goto("return", Nil)
    BY <1>6 DEF insert_case5, t1, t2
  <2>5. Repainted(tree, t2)
    BY <2>2, <2>3 DEF Repainted
  <2>6. ASSUME tree' \in Tree, tree'.color = t2.color, NEW i,
               Brings(tree, g, p, u, i, cur, tree')
        PROVE  RuleInv'
    <3>1. /\ tree'.color[g] = "RED" /\ tree'.color[p] = tree.color[g]
          /\ \A m \in Nodes : m # g /\ m # p => tree'.color[m] = tree.color[m]
      BY <1>3, <2>2, <2>3, <2>6
    <3>2. Balance(tree', Nil, Nil, Nil)
      BY <1>2, <1>3, <2>6, <3>1, Swap
    <3> QED BY <2>4, <3>2, ToRest DEF Goto, Calm, InsertCases, DeleteCases
  <2>7. CASE cur = Left(p)
    <3>1. /\ tree' = rotate_right(t2, g)
          /\ p = tree.left[g] /\ u = tree.right[g] /\ cur = tree.left[p]
      BY <1>3, <2>1, <2>4, <2>7 DEF Left, Right
    <3>2. /\ tree' \in Tree /\ tree'.color = t2.color
          /\ Brings(tree, g, p, u, tree.right[p], cur, tree')
      BY <1>3, <2>3, <2>5, <3>1, RightBrings
    <3> QED BY <2>6, <3>2
  <2>8. CASE cur # Left(p)
    <3>1. /\ tree' = rotate_left(t2, g)
          /\ p = tree.right[g] /\ u = tree.left[g] /\ cur = tree.right[p]
      BY <1>3, <2>1, <2>4, <2>8 DEF Left, Right
    <3>2. /\ tree' \in Tree /\ tree'.color = t2.color
          /\ Brings(tree, g, p, u, tree.left[p], cur, tree')
      BY <1>3, <2>3, <2>5, <3>1, LeftBrings
    <3> QED BY <2>6, <3>2
  <2> QED BY <2>7, <2>8
<1> QED BY <1>5, <1>6

\* What a step of a delete leaves, once the rules hold but for what is missing.
LEMMA ToReplace ==
    ASSUME Balance(tree', held, Nil, Nil), Goto("replace_child", held),
           held' = held, Left(held)' = Nil \/ Right(held)' = Nil
    PROVE  RuleInv'
<1>1. Taken' = held /\ Short' = Nil /\ Odd' = Nil
    BY DEF Goto, Taken, Short, Odd, DeleteCases, InsertCases
<1>2. Balance(tree, Taken, Short, Odd)'
    BY <1>1
<1>3. Inserting' /\ Repairing' /\ OneChild'
    BY DEF Goto, Inserting, Repairing, OneChild, InsertCases, DeleteCases
<1> QED BY <1>2, <1>3 DEF RuleInv

LEMMA ToRepair ==
    ASSUME pc' \in DeleteCases, Balance(tree', held, cur', Nil), held' = held,
           Left(held)' = Nil \/ Right(held)' = Nil, Repairing'
    PROVE  RuleInv'
<1>1. Taken' = held /\ Short' = cur' /\ Odd' = Nil
    BY DEF Taken, Short, Odd, InsertCases, DeleteCases
<1>2. Balance(tree, Taken, Short, Odd)'
    BY <1>1
<1>3. OneChild' /\ Inserting'
    BY DEF OneChild, Inserting, InsertCases, DeleteCases
<1> QED BY <1>2, <1>3 DEF RuleInv

\* The node a black one is missing below has a sibling, which is beside the
\* way up from the node that is to be taken out, with its children.
LEMMA RepairFamily ==
    ASSUME TreeInv, RuleInv, pc \in DeleteCases
    PROVE  LET p == Parent(cur)
               s == sibling(cur)
           IN  /\ tree \in Tree /\ Linked(tree)
               /\ cur \in Nodes /\ Belongs(tree, cur)
               /\ held \in Nodes /\ Belongs(tree, held)
               /\ Balance(tree, held, cur, Nil)
               /\ Left(held) = Nil \/ Right(held) = Nil
               /\ cur = held \/ Black(tree, cur)
               /\ p # Nil =>
                     /\ p \in Nodes /\ Belongs(tree, p) /\ p # cur
                     /\ s \in Nodes /\ Belongs(tree, s) /\ tree.parent[s] = p
                     /\ s # cur /\ s # p /\ cur # Nil /\ s # Nil
                     /\ Pair(tree, p, cur, s) /\ Left(p) # Right(p)
                     /\ tree.color[s] # "BLACK" => Left(s) # Nil /\ Right(s) # Nil
               /\ \E D : /\ Way(tree, held, cur, D)
                         /\ \A x : tree.parent[x] \notin D /\ x # cur => x \notin D
                         /\ held \in D /\ (held # cur => Parent(held) \in D)
                         /\ p # Nil => /\ p \notin D /\ s \notin D
                                       /\ tree.parent[p] \notin D
<1> USE TreeAssumption
<1> DEFINE p == Parent(cur)
           s == sibling(cur)
<1>1. /\ tree \in Tree /\ Linked(tree)
      /\ cur \in Nodes /\ Belongs(tree, cur)
      /\ held \in Nodes /\ Belongs(tree, held)
      /\ Balance(tree, held, cur, Nil)
      /\ Left(held) = Nil \/ Right(held) = Nil
      /\ cur = held \/ Black(tree, cur)
    BY DEF TreeInv, Shape, Given, Deleting, RuleInv, Repairing, OneChild, Color,
           Black, Taken, Short, Odd, InsertCases, DeleteCases
<1>2. PICK D : Way(tree, held, cur, D)
    BY DEF RuleInv, Repairing
<1>3. /\ \A x : tree.parent[x] \notin D /\ x # cur => x \notin D
      /\ p # Nil => tree.parent[p] \notin D
    BY <1>1, <1>2, Beside DEF Parent
<1>4. held \in D /\ (held # cur => Parent(held) \in D) /\ p \notin D
    BY <1>2 DEF Way, Parent
<1>5. ASSUME p # Nil
      PROVE  /\ p \in Nodes /\ Belongs(tree, p) /\ p # cur
             /\ s \in Nodes /\ Belongs(tree, s) /\ tree.parent[s] = p
             /\ s # cur /\ s # p /\ cur # Nil /\ s # Nil
             /\ Pair(tree, p, cur, s) /\ Left(p) # Right(p)
             /\ tree.color[s] # "BLACK" => Left(s) # Nil /\ Right(s) # Nil
  <2>1. /\ p \in Nodes /\ Belongs(tree, p) /\ p # cur
        /\ cur = Left(p) \/ cur = Right(p)
    BY <1>1, <1>5, Parents DEF Parent, Left, Right
  <2>2. LinkedAt(tree, p) /\ tree.left \in Links /\ tree.right \in Links
    BY <1>1, <2>1, Fields DEF Linked
  <2>3. Pair(tree, p, cur, s) /\ Left(p) # Right(p)
    BY <1>1, <2>1, <2>2 DEF Pair, sibling, Parent, Left, Right, LinkedAt
  <2>4. /\ s # Nil
        /\ tree.color[s] # "BLACK" => Left(s) # Nil /\ Right(s) # Nil
    BY <1>1, <2>1, <2>3, SiblingIsThere DEF Left, Right
  <2>5. /\ s \in Nodes /\ Belongs(tree, s) /\ tree.parent[s] = p
    BY <2>1, <2>2, <2>3, <2>4 DEF Pair, LinkedAt, Belongs, Links, NodeOrNil
  <2>6. s # cur
    BY <2>3 DEF Pair, Left, Right
  <2>7. s # p
    BY <1>1, <2>1, <2>5, Parents
  <2> QED BY <1>1, <2>1, <2>3, <2>4, <2>5, <2>6, <2>7
<1>6. p # Nil => s \notin D
    BY <1>3, <1>4, <1>5
<1> QED BY <1>1, <1>2, <1>3, <1>4, <1>5, <1>6

LEMMA RepairBegins ==
    ASSUME TreeInv, RuleInv, delete_one_child
    PROVE  RuleInv'
<1> USE TreeAssumption
<1>1. /\ pc = "delete_one_child" /\ held' = held /\ cur = held
      /\ held \in Nodes /\ Belongs(tree, held)
      /\ tree \in Tree /\ Linked(tree)
      /\ tree.left \in Links /\ tree.right \in Links /\ tree.parent \in Links
      /\ tree.color \in [Nodes -> {"RED", "BLACK"}]
    BY DEF delete_one_child, call, TreeInv, Shape, Given, Deleting, Tree
<1>2. Left(held) = Nil \/ Right(held) = Nil
    BY <1>1 DEF RuleInv, OneChild
<1>3. Balance(tree, Nil, Nil, Nil)
    BY <1>1, AtRest DEF Calm, InsertCases, DeleteCases
<1>4. CASE Color(cur) = "BLACK"
  <2> DEFINE c == node_color(OnlyChild(cur))
             r == Paint(tree, held, c)
  <2>1. tree' = r /\ pc' = "delete_case1" /\ cur' = held
    BY <1>1, <1>4 DEF delete_one_child, Goto
  <2>2. c \in {"RED", "BLACK"}
    BY <1>1 DEF node_color, OnlyChild, Color, Left, Right, Links, NodeOrNil
  <2> HIDE DEF c
  <2>3. /\ r \in Tree /\ Repainted(tree, r) /\ SameNodes(tree, r)
        /\ \A m \in Nodes : m # held => r.color[m] = tree.color[m]
    <3>1. tree \in Tree /\ Linked(tree) /\ held \in Nodes
      BY <1>1
    <3>2. /\ r \in Tree /\ Linked(r) /\ SameNodes(tree, r) /\ r.count = tree.count
          /\ r.root = tree.root /\ r.left = tree.left
          /\ r.right = tree.right /\ r.parent = tree.parent
      BY ONLY <2>2, <3>1, Painted
    <3>3. \A m \in Nodes : m # held => r.color[m] = tree.color[m]
      BY ONLY <2>2, <3>1 DEF Paint, Tree
    <3> QED BY <3>2, <3>3 DEF Repainted
  <2> HIDE DEF r
  <2>4. Balance(r, held, held, Nil)
    BY <1>1, <1>3, <1>4, <2>3, WithdrawnBlack DEF Color
  <2>5. Way(r, held, held, {held})
    <3>1. tree.parent[held] # held
      <4>1. tree.parent[held] # Nil => tree.parent[held] # held
        BY <1>1, Parents
      <4> QED BY <1>1, <4>1
    <3> QED BY <1>1, <2>3, <3>1 DEF Way, SameNodes, Repainted
  <2>6. Repairing'
    BY <1>1, <2>1, <2>5 DEF Repairing
  <2>7. Left(held)' = Nil \/ Right(held)' = Nil
    BY <1>1, <1>2, <2>1, <2>3 DEF Repainted, Left, Right
  <2> QED BY <1>1, <2>1, <2>4, <2>6, <2>7, ToRepair DEF DeleteCases
<1>5. CASE Color(cur) # "BLACK"
  <2>1. tree' = tree /\ Goto("replace_child", held)
    BY <1>1, <1>5 DEF delete_one_child
  <2>2. tree.color[held] = "RED"
    BY <1>1, <1>5 DEF Color
  <2>3. Balance(tree, held, Nil, Nil)
    BY <1>1, <1>3, <2>2, WithdrawnRed
  <2> QED BY <1>1, <1>2, <2>1, <2>3, ToReplace DEF Left, Right
<1> QED BY <1>4, <1>5

\* Cases 1, 3 and 4.
LEMMA RepairColours ==
    ASSUME TreeInv, RuleInv, delete_case1 \/ delete_case3 \/ delete_case4
    PROVE  RuleInv'
<1> USE TreeAssumption
<1> DEFINE p == Parent(cur)
           s == sibling(cur)
<1>1. pc \in DeleteCases /\ held' = held
    BY DEF delete_case1, delete_case3, delete_case4, DeleteCases, call
<1>2. /\ tree \in Tree /\ Linked(tree)
      /\ cur \in Nodes /\ Belongs(tree, cur)
      /\ held \in Nodes /\ Belongs(tree, held)
      /\ Balance(tree, held, cur, Nil)
      /\ Left(held) = Nil \/ Right(held) = Nil
      /\ cur = held \/ Black(tree, cur)
      /\ p # Nil =>
            /\ p \in Nodes /\ Belongs(tree, p) /\ p # cur
            /\ s \in Nodes /\ Belongs(tree, s) /\ tree.parent[s] = p
            /\ s # cur /\ s # p /\ cur # Nil /\ s # Nil
            /\ Pair(tree, p, cur, s)
    BY <1>1, RepairFamily
<1>3. PICK D : /\ Way(tree, held, cur, D)
               /\ held \in D /\ (held # cur => Parent(held) \in D)
               /\ p # Nil => p \notin D /\ s \notin D
    BY <1>1, RepairFamily, Zenon
<1>4. tree.color \in [Nodes -> {"RED", "BLACK"}]
    BY <1>2 DEF Tree
<1>5. cur # held => Color(cur) = "BLACK"
    BY <1>2 DEF Black, Color
<1>6. CASE delete_case1
  <2>1. CASE p # Nil
    <3>1. tree' = tree /\ pc' = "delete_case2" /\ cur' = cur
      BY <1>6, <2>1 DEF delete_case1, Goto
    <3>2. Repairing'
      BY <1>1, <1>3, <1>5, <2>1, <3>1 DEF Repairing, Color, Parent
    <3> QED BY <1>1, <1>2, <3>1, <3>2, ToRepair DEF DeleteCases, Left, Right
  <2>2. CASE p = Nil
    <3>1. tree' = tree /\ Goto("replace_child", held)
      BY <1>6, <2>2 DEF delete_case1
    <3>2. Balance(tree, held, Nil, Nil)
      BY <1>2, <2>2, AtTheRoot DEF Parent
    <3> QED BY <1>1, <1>2, <3>1, <3>2, ToReplace DEF Left, Right
  <2> QED BY <2>1, <2>2
<1>7. ASSUME p # Nil, AllBlack(s),
             tree' \in Tree, Repainted(tree, tree'),
             tree'.color[s] = "RED", tree'.color[p] = "BLACK",
             \A m \in Nodes : m # p /\ m # s => tree'.color[m] = tree.color[m]
      PROVE  /\ Balance(tree', held, IF tree.color[p] = "BLACK" THEN p ELSE Nil, Nil)
             /\ Left(held)' = Nil \/ Right(held)' = Nil
  <2>1. /\ tree.color[s] = "BLACK"
        /\ Black(tree, tree.left[s]) /\ Black(tree, tree.right[s])
    BY <1>7 DEF AllBlack, Color, node_color, Black, Left, Right
  <2>2. held # p /\ held # s /\ (held = cur \/ tree.parent[held] # s)
    BY <1>3, <1>7 DEF Parent
  <2> DEFINE f == IF tree.color[p] = "BLACK" THEN p ELSE Nil
  <2>3. f = IF tree.color[p] = "BLACK" THEN p ELSE Nil
    OBVIOUS
  <2>4. /\ p \in Nodes /\ Belongs(tree, p)
        /\ cur # Nil /\ s # Nil /\ Pair(tree, p, cur, s)
    BY <1>2, <1>7
  <2> HIDE DEF f, p, s
  <2>5. Balance(tree', held, f, Nil)
    BY <1>2, <1>7, <2>1, <2>2, <2>3, <2>4, Reddened
  <2>6. Left(held)' = Left(held) /\ Right(held)' = Right(held)
    BY <1>1, <1>7 DEF Repainted, Left, Right
  <2> QED BY <1>2, <2>3, <2>5, <2>6
<1>8. CASE delete_case3
  <2>1. p # Nil /\ Color(s) = "BLACK"
    BY <1>8 DEF delete_case3, RuleInv, Repairing, DeleteCases
  <2>2. CASE Color(p) = "BLACK" /\ AllBlack(s)
    <3> DEFINE r == Paint(tree, s, "RED")
    <3>1. /\ r \in Tree /\ Repainted(tree, r) /\ SameNodes(tree, r)
          /\ r.color[s] = "RED"
          /\ \A m \in Nodes : m # s => r.color[m] = tree.color[m]
      BY <1>2, <2>1, Painted DEF Repainted
    <3> HIDE DEF r
    <3>2. tree' = r /\ pc' = "delete_case1" /\ cur' = p
      BY <1>8, <2>2 DEF delete_case3, Goto, r
    <3>3. /\ Balance(tree', held, p, Nil)
          /\ Left(held)' = Nil \/ Right(held)' = Nil
      BY <1>2, <1>7, <2>1, <2>2, <3>1, <3>2 DEF Color
    <3>4. Way(tree, held, p, D \cup {p})
      BY <1>2, <1>3, <2>1, WayUp DEF Parent
    <3>5. Way(tree', held, p, D \cup {p})
      BY <3>1, <3>2, <3>4, WayKept DEF Repainted
    <3>6. tree'.color[p] = "BLACK"
      BY <1>2, <2>1, <2>2, <3>1, <3>2 DEF Color
    <3>7. Repairing'
      BY <1>1, <3>2, <3>5, <3>6 DEF Repairing, Color
    <3> QED BY <1>1, <3>2, <3>3, <3>7, ToRepair DEF DeleteCases
  <2>3. CASE ~(Color(p) = "BLACK" /\ AllBlack(s))
    <3>1. tree' = tree /\ pc' = "delete_case4" /\ cur' = cur
      BY <1>8, <2>3 DEF delete_case3, Goto
    <3>2. Repairing'
      BY <1>1, <1>3, <1>5, <2>1, <2>3, <3>1
         DEF Repairing, Color, Parent, sibling, AllBlack, node_color, Left, Right
    <3> QED BY <1>1, <1>2, <3>1, <3>2, ToRepair DEF DeleteCases, Left, Right
  <2> QED BY <2>2, <2>3
<1>9. CASE delete_case4
  <2>1. /\ p # Nil /\ Color(s) = "BLACK"
        /\ ~(Color(p) = "BLACK" /\ AllBlack(s))
    BY <1>9 DEF delete_case4, RuleInv, Repairing, DeleteCases
  <2>2. CASE Color(p) = "RED" /\ AllBlack(s)
    <3> DEFINE t1 == Paint(tree, s, "RED")
               r == Paint(t1, p, "BLACK")
    <3>1. /\ t1 \in Tree /\ Linked(t1) /\ Repainted(tree, t1)
          /\ t1.color[s] = "RED"
          /\ \A m \in Nodes : m # s => t1.color[m] = tree.color[m]
      BY <1>2, <2>1, Painted DEF Repainted
    <3> HIDE DEF t1
    <3>2. /\ r \in Tree /\ Repainted(t1, r)
          /\ r.color[p] = "BLACK"
          /\ \A m \in Nodes : m # p => r.color[m] = t1.color[m]
      BY <1>2, <2>1, <3>1, Painted DEF Repainted
    <3> HIDE DEF r
    <3>3. tree' = r /\ Goto("replace_child", held)
      BY <1>9, <2>2 DEF delete_case4, t1, r
    <3>4. /\ Balance(tree', held, Nil, Nil)
          /\ Left(held)' = Nil \/ Right(held)' = Nil
      <4>1. /\ Repainted(tree, r) /\ r.color[s] = "RED"
            /\ \A m \in Nodes : m # p /\ m # s => r.color[m] = tree.color[m]
        BY <1>2, <2>1, <3>1, <3>2 DEF Repainted
      <4> QED BY <1>7, <2>1, <2>2, <3>2, <3>3, <4>1 DEF Color
    <3> QED BY <1>1, <3>3, <3>4, ToReplace
  <2>3. CASE ~(Color(p) = "RED" /\ AllBlack(s))
    <3>1. tree' = tree /\ pc' = "delete_case5" /\ cur' = cur
      BY <1>9, <2>3 DEF delete_case4, Goto
    <3>2. ~AllBlack(s)
      BY <1>2, <1>4, <2>1, <2>3 DEF Color
    <3>3. Repairing'
      BY <1>1, <1>3, <1>5, <2>1, <3>1, <3>2
         DEF Repairing, Color, Parent, sibling, AllBlack, node_color, Left, Right
    <3> QED BY <1>1, <1>2, <3>1, <3>3, ToRepair DEF DeleteCases, Left, Right
  <2> QED BY <2>2, <2>3
<1> QED BY <1>6, <1>8, <1>9

\* Cases 2, 5 and 6.
LEMMA RepairRotations ==
    ASSUME TreeInv, RuleInv, delete_case2 \/ delete_case5 \/ delete_case6
    PROVE  RuleInv'
<1> USE TreeAssumption
<1> DEFINE p == Parent(cur)
           s == sibling(cur)
           i == Near(tree, cur, s)
           o == Far(tree, cur, s)
<1>1. pc \in DeleteCases /\ held' = held
    BY DEF delete_case2, delete_case5, delete_case6, DeleteCases, call
<1>2. p # Nil
    BY DEF delete_case2, delete_case5, delete_case6, RuleInv, Repairing, DeleteCases
<1>3. /\ tree \in Tree /\ Linked(tree)
      /\ cur \in Nodes /\ Belongs(tree, cur)
      /\ held \in Nodes /\ Belongs(tree, held)
      /\ Balance(tree, held, cur, Nil)
      /\ Left(held) = Nil \/ Right(held) = Nil
      /\ cur = held \/ Black(tree, cur)
      /\ p \in Nodes /\ Belongs(tree, p) /\ p # cur
      /\ s \in Nodes /\ Belongs(tree, s) /\ tree.parent[s] = p
      /\ s # cur /\ s # p /\ cur # Nil /\ s # Nil
      /\ Pair(tree, p, cur, s) /\ Left(p) # Right(p)
      /\ tree.color[s] # "BLACK" => Left(s) # Nil /\ Right(s) # Nil
    BY <1>1, <1>2, RepairFamily
<1>4. PICK D : /\ Way(tree, held, cur, D)
               /\ \A x : tree.parent[x] \notin D /\ x # cur => x \notin D
               /\ held \in D /\ (held # cur => Parent(held) \in D)
               /\ p # Nil => /\ p \notin D /\ s \notin D
                             /\ tree.parent[p] \notin D
    BY <1>1, RepairFamily, Zenon
<1>5. /\ tree.color \in [Nodes -> {"RED", "BLACK"}]
      /\ tree.left \in Links /\ tree.right \in Links
    BY <1>3 DEF Tree
<1>6. cur # held => Color(cur) = "BLACK"
    BY <1>3 DEF Black, Color
<1>7. p = tree.parent[cur] /\ LinkedAt(tree, p) /\ LinkedAt(tree, s)
    BY <1>3 DEF Parent, Linked
<1>8. /\ i # Nil => i \in Nodes /\ Belongs(tree, i) /\ tree.parent[i] = s
                    /\ i \notin D /\ i # cur /\ i # s /\ i # p
      /\ o # Nil => o \in Nodes /\ Belongs(tree, o) /\ tree.parent[o] = s
                    /\ o \notin D /\ o # cur /\ o # s /\ o # p
      /\ i # Nil => i # o
  <2>1. /\ i # Nil => i \in Nodes /\ Belongs(tree, i) /\ tree.parent[i] = s
        /\ o # Nil => o \in Nodes /\ Belongs(tree, o) /\ tree.parent[o] = s
        /\ i # Nil => i # o
    BY <1>3, <1>5, <1>7 DEF Near, Far, LinkedAt, Belongs, Links, NodeOrNil
  <2>2. \A x \in Nodes : tree.parent[x] = s => x # cur /\ x # s /\ x \notin D
    <3>1. tree.parent[s] # s
      BY <1>3
    <3> QED BY <1>2, <1>3, <1>4, <1>7, <3>1
  <2>3. \A x \in Nodes : tree.parent[x] = s /\ x = p => FALSE
    <3>1. ASSUME tree.parent[p] = s PROVE FALSE
      <4>1. \A m \in {p, s} : Belongs(tree, m) /\ tree.parent[m] \in {p, s}
        BY <1>3, <3>1
      <4> QED BY <1>3, <4>1 DEF Linked, NoCycle
    <3> QED BY <3>1
  <2> HIDE DEF i, o
  <2> QED BY <2>1, <2>2, <2>3
\* A node that is on the way, or beside those of the rotation, keeps its links.
<1>9. held # p /\ held # s /\ held # tree.parent[p]
    BY <1>2, <1>4
<1>10. Off(tree, p, s, i, held, cur)
  <2>1. held # i
    BY <1>3, <1>4, <1>8
  <2>2. held = cur \/ (tree.parent[held] # p /\ tree.parent[held] # s)
    BY <1>2, <1>4 DEF Parent
  <2> QED BY <1>9, <2>1, <2>2 DEF Off
<1>11. ASSUME tree' \in Tree, Brings(tree, p, s, cur, i, o, tree')
       PROVE  /\ \A x \in D : tree'.parent[x] = tree.parent[x]
              /\ Left(held)' = Nil \/ Right(held)' = Nil
              /\ tree'.parent[cur] = p
              /\ \/ tree'.left[p] = cur /\ tree'.right[p] = i
                 \/ tree'.right[p] = cur /\ tree'.left[p] = i
  <2>1. /\ \A m \in Nodes : tree'.parent[m] = IF m = p THEN s
                  ELSE IF m = s THEN tree.parent[p]
                  ELSE IF m = i THEN p ELSE tree.parent[m]
        /\ \A m \in Nodes : m # p /\ m # s /\ m # tree.parent[p]
             => tree'.left[m] = tree.left[m] /\ tree'.right[m] = tree.right[m]
        /\ \/ /\ s = tree.right[p] /\ cur = tree.left[p]
              /\ tree'.left[p] = cur /\ tree'.right[p] = i
           \/ /\ s = tree.left[p] /\ cur = tree.right[p]
              /\ tree'.right[p] = cur /\ tree'.left[p] = i
    BY <1>3, <1>11, BroughtFields
  <2>2. D \in SUBSET Nodes
    BY <1>4 DEF Way
  <2>3. \A x \in D : tree'.parent[x] = tree.parent[x]
    BY <1>2, <1>3, <1>4, <1>8, <2>1, <2>2
  <2>4. Left(held)' = Left(held) /\ Right(held)' = Right(held)
    BY <1>1, <1>3, <1>9, <2>1 DEF Left, Right
  <2>5. tree'.parent[cur] = p
    BY <1>3, <1>7, <1>8, <2>1
  <2> QED BY <1>3, <2>1, <2>3, <2>4, <2>5
<1>12. CASE delete_case2
  <2>1. pc' = "delete_case3" /\ cur' = cur
    BY <1>12 DEF delete_case2, Goto
  <2>2. CASE Color(s) = "RED"
    <3> DEFINE t1 == Paint(tree, p, "RED")
               t2 == Paint(t1, s, "BLACK")
    <3>1. /\ t1 \in Tree /\ Linked(t1) /\ Repainted(tree, t1)
          /\ t1.color[p] = "RED"
          /\ \A m \in Nodes : m # p => t1.color[m] = tree.color[m]
      BY <1>3, Painted DEF Repainted
    <3> HIDE DEF t1
    <3>2. /\ t2 \in Tree /\ Linked(t2) /\ Repainted(t1, t2)
          /\ t2.color[s] = "BLACK"
          /\ \A m \in Nodes : m # s => t2.color[m] = t1.color[m]
      BY <1>3, <3>1, Painted DEF Repainted
    <3> HIDE DEF t2
    <3>3. tree' = RotateTowards(t2, cur)
      BY <1>12, <2>2 DEF delete_case2, t1, t2
    <3>4. Repainted(tree, t2)
      BY <3>1, <3>2 DEF Repainted
    <3>5. /\ tree' \in Tree /\ SameNodes(tree, tree') /\ tree'.color = t2.color
          /\ Brings(tree, p, s, cur, i, o, tree')
      BY <1>2, <1>3, <1>7, <3>2, <3>3, <3>4, TowardsBrings
    <3>6. tree.color[p] = "BLACK" /\ i # Nil /\ tree.color[i] = "BLACK"
      <4>1. RedAt(tree, held, cur, s)
        BY <1>3, <1>9 DEF Balance, Reds
      <4>2. tree.color[p] = "BLACK"
        BY <1>3, <1>9, <2>2, <4>1 DEF RedAt, Black, Color
      <4>3. i # Nil
        BY <1>3, <2>2 DEF Near, Left, Right, Color
      <4>4. RedAt(tree, held, cur, i)
        BY <1>3, <1>4, <1>8, <4>3 DEF Balance, Reds
      <4>5. tree.color[i] # "RED"
        BY <1>3, <1>8, <1>9, <2>2, <4>3, <4>4 DEF RedAt, Black, Color
      <4> QED BY <1>5, <1>8, <4>2, <4>3, <4>5
    <3>7. /\ tree'.color[p] = "RED" /\ tree'.color[s] = tree.color[p]
          /\ \A m \in Nodes : m # p /\ m # s => tree'.color[m] = tree.color[m]
      BY <1>3, <3>1, <3>2, <3>5, <3>6
    <3>8. Balance(tree', held, cur, Nil)
      <4>1. tree.color[s] = "RED" /\ (cur = held \/ Black(tree, cur))
        BY <1>3, <2>2 DEF Color
      <4> QED BY <1>3, <1>10, <3>5, <3>6, <3>7, <4>1, Swap
    <3>9. Way(tree', held, cur, D)
      BY <1>4, <1>11, <3>5, WayKept
    <3>10. Parent(cur)' = p
      BY <1>11, <2>1, <3>5 DEF Parent
    <3>11. sibling(cur)' = i
      <4>1. sibling(cur)' = IF cur = tree'.left[p] THEN tree'.right[p]
                                                   ELSE tree'.left[p]
        BY <2>1, <3>10 DEF sibling, Left, Right
      <4> QED BY <1>8, <1>11, <3>5, <3>6, <4>1
    <3>12. tree'.color[i] = "BLACK" /\ (cur # held => tree'.color[cur] = "BLACK")
      BY <1>3, <1>6, <1>8, <3>6, <3>7 DEF Color
    <3>13. Repairing'
      BY <1>1, <1>2, <2>1, <3>9, <3>10, <3>11, <3>12 DEF Repairing, Color
    <3> QED BY <1>1, <1>11, <2>1, <3>5, <3>8, <3>13, ToRepair DEF DeleteCases
  <2>3. CASE Color(s) # "RED"
    <3>1. tree' = tree
      BY <1>12, <2>3 DEF delete_case2
    <3>2. Color(s) = "BLACK"
      BY <1>3, <1>5, <2>3 DEF Color
    <3>3. Repairing'
      BY <1>1, <1>2, <1>4, <1>6, <2>1, <3>1, <3>2
         DEF Repairing, Color, Parent, sibling, Left, Right
    <3> QED BY <1>1, <1>3, <2>1, <3>1, <3>3, ToRepair DEF DeleteCases, Left, Right
  <2> QED BY <2>2, <2>3
<1>13. CASE delete_case6
  <2>1. Color(s) = "BLACK" /\ node_color(o) = "RED" /\ o = FarNephew(cur)
    <3>1. o = FarNephew(cur)
      BY DEF Far, FarNephew, Parent, Left, Right
    <3> QED BY <1>13, <3>1 DEF delete_case6, RuleInv, Repairing, DeleteCases
  <2>2. o # Nil /\ tree.color[o] = "RED"
    BY <2>1 DEF node_color, Color
  <2> DEFINE t1 == Paint(tree, s, Color(p))
             t2 == Paint(t1, p, "BLACK")
             t3 == Paint(t2, o, "BLACK")
  <2>3. /\ t1 \in Tree /\ Linked(t1) /\ Repainted(tree, t1)
        /\ t1.color[s] = tree.color[p]
        /\ \A m \in Nodes : m # s => t1.color[m] = tree.color[m]
    <3> DEFINE c == Color(p)
    <3>1. c \in {"RED", "BLACK"} /\ t1 = Paint(tree, s, c) /\ c = tree.color[p]
      BY <1>3, <1>5 DEF Color
    <3>2. s \in Nodes /\ tree \in Tree /\ Linked(tree)
      BY <1>3
    <3> HIDE DEF c, t1
    <3>3. /\ t1 \in Tree /\ Linked(t1) /\ SameNodes(tree, t1) /\ t1.count = tree.count
          /\ t1.root = tree.root /\ t1.left = tree.left
          /\ t1.right = tree.right /\ t1.parent = tree.parent
      BY ONLY <3>1, <3>2, Painted
    <3>4. t1.color[s] = c /\ \A m \in Nodes : m # s => t1.color[m] = tree.color[m]
      BY ONLY <3>1, <3>2 DEF Paint, Tree
    <3> QED BY <3>1, <3>3, <3>4 DEF Repainted
  <2> HIDE DEF t1
  <2>4. /\ t2 \in Tree /\ Linked(t2) /\ Repainted(t1, t2)
        /\ t2.color[p] = "BLACK"
        /\ \A m \in Nodes : m # p => t2.color[m] = t1.color[m]
    BY <1>3, <2>3, Painted DEF Repainted
  <2> HIDE DEF t2
  <2>5. /\ t3 \in Tree /\ Linked(t3) /\ Repainted(t2, t3)
        /\ t3.color[o] = "BLACK"
        /\ \A m \in Nodes : m # o => t3.color[m] = t2.color[m]
    BY <1>8, <2>2, <2>4, Painted DEF Repainted
  <2> HIDE DEF t3
  <2>6. tree' = RotateTowards(t3, cur) /\ Goto("replace_child", held)
    BY <1>13, <2>1 DEF delete_case6, t1, t2, t3
  <2>7. Repainted(tree, t3)
    BY <2>3, <2>4, <2>5 DEF Repainted
  <2>8. /\ tree' \in Tree /\ SameNodes(tree, tree') /\ tree'.color = t3.color
        /\ Brings(tree, p, s, cur, i, o, tree')
    BY <1>2, <1>3, <1>7, <2>5, <2>6, <2>7, TowardsBrings
  <2>9. /\ tree'.color[p] = "BLACK" /\ tree'.color[s] = tree.color[p]
        /\ tree'.color[o] = "BLACK"
        /\ \A m \in Nodes : m # p /\ m # s /\ m # o => tree'.color[m] = tree.color[m]
    BY <1>3, <1>8, <2>2, <2>3, <2>4, <2>5, <2>8
  <2>10. tree.color[s] = "BLACK" /\ held # Nil /\ held # o
    BY <1>3, <1>4, <1>8, <2>1, <2>2 DEF Color
  <2>11. Balance(tree', held, Nil, Nil)
    BY <1>3, <1>10, <2>2, <2>8, <2>9, <2>10, Level
  <2> QED BY <1>1, <1>11, <2>6, <2>8, <2>11, ToReplace
<1>14. CASE delete_case5
  <2>1. /\ Color(s) = "BLACK" /\ ~AllBlack(s)
        /\ pc' = "delete_case6" /\ cur' = cur
    BY <1>14 DEF delete_case5, RuleInv, Repairing, DeleteCases, Goto
  <2>2. /\ i = IF cur = Left(p) THEN Left(s) ELSE Right(s)
        /\ o = IF cur = Left(p) THEN Right(s) ELSE Left(s)
    BY DEF Near, Far, Parent, Left, Right
  <2>3. CASE node_color(o) = "BLACK" /\ node_color(i) = "RED"
    <3>1. i # Nil /\ tree.color[i] = "RED" /\ Black(tree, o)
      BY <2>3 DEF node_color, Color, Black
    <3> DEFINE t1 == Paint(tree, s, "RED")
               t2 == Paint(t1, i, "BLACK")
    <3>2. /\ t1 \in Tree /\ Linked(t1) /\ Repainted(tree, t1)
          /\ t1.color[s] = "RED"
          /\ \A m \in Nodes : m # s => t1.color[m] = tree.color[m]
      BY <1>3, Painted DEF Repainted
    <3> HIDE DEF t1
    <3>3. /\ t2 \in Tree /\ Linked(t2) /\ Repainted(t1, t2)
          /\ t2.color[i] = "BLACK"
          /\ \A m \in Nodes : m # i => t2.color[m] = t1.color[m]
      BY <1>8, <3>1, <3>2, Painted DEF Repainted
    <3> HIDE DEF t2
    <3>4. tree' = IF cur = Left(p) THEN rotate_right(t2, s) ELSE rotate_left(t2, s)
      BY <1>14, <2>1, <2>2, <2>3 DEF delete_case5, t1, t2
    <3>5. Repainted(tree, t2)
      BY <3>2, <3>3 DEF Repainted
    <3> DEFINE j == IF cur = Left(p) THEN tree.right[i] ELSE tree.left[i]
               k == IF cur = Left(p) THEN tree.left[i] ELSE tree.right[i]
    <3>6. /\ tree' \in Tree /\ SameNodes(tree, tree') /\ tree'.color = t2.color
          /\ Brings(tree, s, i, o, j, k, tree')
      <4>1. CASE cur = Left(p)
        <5>1. /\ tree' = rotate_right(t2, s) /\ i = tree.left[s] /\ o = tree.right[s]
              /\ j = tree.right[i] /\ k = tree.left[i]
          BY <2>2, <3>4, <4>1 DEF Left, Right
        <5> HIDE DEF j, k, i, o
        <5> QED BY <1>3, <3>1, <3>3, <3>5, <5>1, RightBrings
      <4>2. CASE cur # Left(p)
        <5>1. /\ tree' = rotate_left(t2, s) /\ i = tree.right[s] /\ o = tree.left[s]
              /\ j = tree.left[i] /\ k = tree.right[i]
          BY <2>2, <3>4, <4>2 DEF Left, Right
        <5> HIDE DEF j, k, i, o
        <5> QED BY <1>3, <3>1, <3>3, <3>5, <5>1, LeftBrings
      <4> QED BY <4>1, <4>2
    <3>7. j # held /\ j \notin D /\ j # p
      <4>1. LinkedAt(tree, i) /\ i # p /\ i # cur /\ i # s /\ i \notin D /\ i \in Nodes
        BY <1>3, <1>8, <3>1 DEF Linked
      <4>2. j # Nil => j \in Nodes /\ tree.parent[j] = i
        BY <1>5, <4>1 DEF LinkedAt, Links, NodeOrNil
      <4>3. j # Nil => j # cur
        BY <1>7, <4>1, <4>2
      <4>4. j # Nil => j \notin D
        BY <1>4, <4>1, <4>2, <4>3
      <4>5. j # Nil => j # p
        <5>1. ASSUME tree.parent[p] = i PROVE FALSE
          <6>1. \A m \in {p, s, i} : Belongs(tree, m) /\ tree.parent[m] \in {p, s, i}
            BY <1>3, <1>8, <3>1, <5>1
          <6> QED BY <1>3, <4>1, <6>1 DEF Linked, NoCycle
        <5> QED BY <4>2, <5>1
      <4>6. D \in SUBSET Nodes
        BY <1>4 DEF Way
      <4> HIDE DEF j
      <4> QED BY <1>3, <1>4, <4>4, <4>5, <4>6
    <3> HIDE DEF j, k
    <3>8. Off(tree, s, i, j, held, cur)
      BY <1>3, <1>4, <1>8, <1>9, <3>1, <3>7 DEF Off, Parent
    <3>9. /\ tree'.color[s] = "RED" /\ tree'.color[i] = tree.color[s]
          /\ \A m \in Nodes : m # s /\ m # i => tree'.color[m] = tree.color[m]
          /\ tree.color[s] = "BLACK"
      BY <1>3, <1>8, <2>1, <3>1, <3>2, <3>3, <3>6 DEF Color
    <3>10. Balance(tree', held, cur, Nil)
      BY <1>3, <1>8, <3>1, <3>6, <3>8, <3>9, Swap
    <3>11. /\ \A m \in Nodes : tree'.parent[m] = IF m = s THEN i ELSE IF m = i THEN p
                                      ELSE IF m = j THEN s ELSE tree.parent[m]
           /\ \A m \in Nodes : m # s /\ m # i /\ m # p
                => tree'.left[m] = tree.left[m] /\ tree'.right[m] = tree.right[m]
           /\ tree'.left[p] = IF tree.left[p] = s THEN i ELSE tree.left[p]
           /\ tree'.right[p] = IF tree.right[p] = s THEN i ELSE tree.right[p]
           /\ \/ i = tree.right[s] /\ o = tree.left[s] /\ tree'.left[i] = s
              \/ i = tree.left[s] /\ o = tree.right[s] /\ tree'.right[i] = s
      BY <1>2, <1>3, <3>1, <3>6, BroughtFields
    <3>12. D \in SUBSET Nodes
      BY <1>4 DEF Way
    <3>13. \A x \in D : tree'.parent[x] = tree.parent[x]
      BY <1>2, <1>4, <1>8, <3>1, <3>7, <3>11, <3>12
    <3>14. Way(tree', held, cur, D)
      BY <1>4, <3>6, <3>13, WayKept
    <3>15. Left(held)' = Left(held) /\ Right(held)' = Right(held)
      BY <1>1, <1>3, <1>4, <1>8, <1>9, <3>1, <3>11 DEF Left, Right
    <3>16. cur \in D
      BY <1>4 DEF Way
    <3>17. Parent(cur)' = p
      BY <1>7, <2>1, <3>13, <3>16 DEF Parent
    <3>18. /\ tree'.left[p] = cur <=> tree.left[p] = cur
           /\ sibling(cur)' = i
      <4>1. sibling(cur)' = IF cur = tree'.left[p] THEN tree'.right[p]
                                                   ELSE tree'.left[p]
        BY <2>1, <3>17 DEF sibling, Left, Right
      <4>2. \/ cur = tree.left[p] /\ s = tree.right[p]
            \/ cur = tree.right[p] /\ s = tree.left[p]
        BY <1>3 DEF Pair
      <4> QED BY <1>3, <1>8, <3>1, <3>11, <4>1, <4>2
    <3>19. FarNephew(cur)' = s
      <4>1. FarNephew(cur)' = IF cur = tree'.left[p] THEN tree'.right[i]
                                                     ELSE tree'.left[i]
        BY <2>1, <3>17, <3>18 DEF FarNephew, Left, Right
      <4>2. /\ cur = tree.left[p] => i = tree.left[s]
            /\ cur # tree.left[p] => i = tree.right[s]
        BY <2>2 DEF Left, Right
      <4>3. tree.left[s] = tree.right[s] => tree.left[s] = Nil
        BY <1>7 DEF LinkedAt
      <4> QED BY <3>1, <3>11, <3>18, <4>1, <4>2, <4>3
    <3>20. Repairing'
      <4>1. tree'.color[i] = "BLACK" /\ (cur # held => tree'.color[cur] = "BLACK")
        BY <1>3, <1>6, <1>8, <3>1, <3>9 DEF Color
      <4>2. node_color(FarNephew(cur))' = "RED"
        BY <1>3, <3>9, <3>19 DEF node_color, Color
      <4> QED BY <1>1, <1>2, <2>1, <3>14, <3>17, <3>18, <4>1, <4>2
              DEF Repairing, Color
    <3> QED BY <1>1, <1>3, <2>1, <3>10, <3>15, <3>20, ToRepair DEF DeleteCases
  <2>4. CASE ~(node_color(o) = "BLACK" /\ node_color(i) = "RED")
    <3>1. tree' = tree
      BY <1>14, <2>1, <2>2, <2>4 DEF delete_case5
    <3>2. node_color(o) = "RED"
      <4>1. node_color(i) \in {"RED", "BLACK"} /\ node_color(o) \in {"RED", "BLACK"}
        BY <1>5, <1>8 DEF node_color, Color
      <4>2. ~(node_color(i) = "BLACK" /\ node_color(o) = "BLACK")
        BY <2>1, <2>2 DEF AllBlack
      <4> QED BY <2>4, <4>1, <4>2
    <3>3. FarNephew(cur) = o
      BY DEF Far, FarNephew, Parent, Left, Right
    <3>4. Repairing'
      BY <1>1, <1>2, <1>4, <1>6, <2>1, <3>1, <3>2, <3>3
         DEF Repairing, Color, Parent, sibling, Left, Right, FarNephew, node_color
    <3> QED BY <1>1, <1>3, <2>1, <3>1, <3>4, ToRepair DEF DeleteCases, Left, Right
  <2> QED BY <2>3, <2>4
<1> QED BY <1>12, <1>13, <1>14

\* The node is taken out; a child that comes up to the root is painted black.
LEMMA ReplaceRules ==
    ASSUME TreeInv, RuleInv, replace_child
    PROVE  RuleInv'
<1> USE TreeAssumption
<1> DEFINE c == OnlyChild(cur)
           p == Parent(cur)
           a == Adopt(tree, c, p)
           h == Hang(a, p, cur, c)
           b == IF p = Nil /\ c # Nil THEN Paint(h, c, "BLACK") ELSE h
<1>1. /\ cur = held /\ cur \in Nodes /\ Belongs(tree, cur)
      /\ tree \in Tree /\ Linked(tree)
      /\ Left(cur) = Nil \/ Right(cur) = Nil
      /\ Balance(tree, cur, Nil, Nil)
    BY DEF TreeInv, Shape, Given, Deleting, replace_child, RuleInv, OneChild,
           Taken, Short, Odd, InsertCases, DeleteCases
<1>2. /\ tree.left \in Links /\ tree.right \in Links /\ tree.parent \in Links
      /\ tree.root \in NodeOrNil /\ tree.count \in Int
      /\ tree.color \in [Nodes -> {"RED", "BLACK"}]
    BY <1>1 DEF Tree
<1>3. p \in NodeOrNil /\ c \in NodeOrNil
    BY <1>1, <1>2 DEF Parent, OnlyChild, Left, Right, Links
<1>4. tree' = [b EXCEPT !.count = @ - 1] /\ Goto("return", Nil)
    BY DEF replace_child
<1>5. /\ a \in Tree
      /\ a.root = tree.root /\ a.color = tree.color
      /\ a.left = tree.left /\ a.right = tree.right
      /\ \A m \in Nodes : a.parent[m] = IF m = c THEN p ELSE tree.parent[m]
    BY <1>1, <1>2, <1>3 DEF Adopt, Tree, Links, NodeOrNil
<1>6. /\ h \in Tree
      /\ h.parent = a.parent
      /\ h.root = IF p = Nil THEN c ELSE a.root
      /\ \A m \in Nodes : h.left[m] =
              IF m = p /\ a.left[p] = cur THEN c ELSE a.left[m]
      /\ \A m \in Nodes : h.right[m] =
              IF m = p /\ a.left[p] # cur THEN c ELSE a.right[m]
      /\ h.color = a.color
  <2>1. a \in Tree /\ cur \in Nodes /\ p \in NodeOrNil /\ c \in NodeOrNil
    BY <1>1, <1>3, <1>5
  <2>2. h = Hang(a, p, cur, c)
    OBVIOUS
  <2> HIDE DEF h, p, c, a
  <2>3. h.color = a.color
    BY <2>1, <2>2 DEF Hang, Tree
  <2> QED BY <2>1, <2>2, <2>3, Hangs
<1> HIDE DEF a, h
<1>7. /\ h.root = IF p = Nil THEN c ELSE tree.root
      /\ \A m \in Nodes : h.left[m] =
              IF m = p /\ tree.left[p] = cur THEN c ELSE tree.left[m]
      /\ \A m \in Nodes : h.right[m] =
              IF m = p /\ tree.left[p] # cur THEN c ELSE tree.right[m]
      /\ \A m \in Nodes : h.parent[m] =
              IF m = c THEN p ELSE tree.parent[m]
      /\ h.color = tree.color
    BY <1>5, <1>6
\* Whether the child is on the left or on the right.
<1>8. /\ Linked(h)
      /\ \A m \in Nodes : Belongs(h, m) <=> Belongs(tree, m) /\ m # cur
      /\ \E k : Even(h, k, Nil, Nil)
      /\ Reds(h, Nil, Nil, Nil)
      /\ p # Nil => RootBlack(h, Nil, Nil)
  <2>1. CASE Left(cur) = Nil
    <3>1. c = tree.right[cur] /\ p = tree.parent[cur] /\ tree.left[cur] = Nil
      BY <2>1 DEF OnlyChild, Left, Right, Parent
    <3>2. Removed(tree, cur, h)
      BY <1>7, <3>1 DEF Removed
    <3>3. /\ Linked(h)
          /\ \A m \in Nodes : Belongs(h, m) <=> Belongs(tree, m) /\ m # cur
      BY <1>1, <1>6, <3>1, <3>2, Removal
    <3>4. /\ \E k : Even(h, k, Nil, Nil)
          /\ Reds(h, Nil, Nil, Nil)
          /\ tree.parent[cur] # Nil => RootBlack(h, Nil, Nil)
      BY <1>1, <1>6, <1>7, <3>1, <3>2, <3>3, Spliced
    <3> QED BY <3>1, <3>3, <3>4
  <2>2. CASE Left(cur) # Nil
    <3> DEFINE M == Mirrored(tree)
               N == Mirrored(h)
    <3>1. /\ c = tree.left[cur] /\ p = tree.parent[cur]
          /\ tree.right[cur] = Nil
      BY <1>1, <2>2 DEF OnlyChild, Left, Right, Parent
    <3>2. /\ M \in Tree /\ Linked(M) /\ \A n : Belongs(M, n) <=> Belongs(tree, n)
          /\ M.root = tree.root /\ M.parent = tree.parent
          /\ M.left = tree.right /\ M.right = tree.left
          /\ M.color = tree.color
          /\ Balance(M, cur, Nil, Nil)
      BY <1>1, Mirror, MirroredFields, MirroredBalance
    <3>3. /\ N \in Tree /\ (Linked(N) <=> Linked(h))
          /\ \A n : Belongs(N, n) <=> Belongs(h, n)
          /\ N.root = h.root /\ N.parent = h.parent
          /\ N.left = h.right /\ N.right = h.left
          /\ N.color = h.color
      BY <1>6, Mirror, MirroredFields
    <3>4. /\ \A k : Even(N, k, Nil, Nil) <=> Even(h, k, Nil, Nil)
          /\ Reds(N, Nil, Nil, Nil) <=> Reds(h, Nil, Nil, Nil)
          /\ RootBlack(N, Nil, Nil) <=> RootBlack(h, Nil, Nil)
      BY <1>6, MirroredBalance
    <3> HIDE DEF M, N
    <3>5. p # Nil => (tree.left[p] = cur <=> tree.right[p] # cur)
      BY <1>1, <1>2, <3>1 DEF Linked, LinkedAt, Belongs, Links, NodeOrNil
    <3>6. p # Nil => p \in Nodes
      BY <1>3 DEF NodeOrNil
    <3>7. Removed(M, cur, N)
      BY <1>7, <3>1, <3>2, <3>3, <3>5, <3>6 DEF Removed
    <3>8. /\ Linked(N)
          /\ \A m \in Nodes : Belongs(N, m) <=> Belongs(M, m) /\ m # cur
      BY <1>1, <3>1, <3>2, <3>3, <3>7, Removal
    <3>9. /\ \E k : Even(N, k, Nil, Nil)
          /\ Reds(N, Nil, Nil, Nil)
          /\ M.parent[cur] # Nil => RootBlack(N, Nil, Nil)
      <4>1. M.left[cur] = Nil /\ Belongs(M, cur) /\ N.color = M.color
        BY <1>1, <1>7, <3>1, <3>2, <3>3
      <4> QED BY <1>1, <3>2, <3>3, <3>7, <3>8, <4>1, Spliced
    <3> QED BY <3>1, <3>2, <3>3, <3>4, <3>8, <3>9
  <2> QED BY <2>1, <2>2
<1>9. b \in Tree /\ Balance(b, Nil, Nil, Nil)
  <2>1. CASE p = Nil /\ c # Nil
    <3>1. b = Paint(h, c, "BLACK") /\ c \in Nodes /\ h.root = c
      BY <1>3, <1>7, <2>1 DEF NodeOrNil
    <3> HIDE DEF b, c, p
    <3>2. /\ b \in Tree /\ Repainted(h, b) /\ b.color[c] = "BLACK"
          /\ \A m \in Nodes : m # c => b.color[m] = h.color[m]
      <4>1. h \in Tree
        BY <1>6
      <4>2. b.color[c] = "BLACK" /\ \A m \in Nodes : m # c => b.color[m] = h.color[m]
        BY ONLY <3>1, <4>1 DEF Paint, Tree
      <4>3. /\ b \in Tree /\ b.root = h.root /\ b.left = h.left
            /\ b.right = h.right /\ b.parent = h.parent
        BY ONLY <3>1, <4>1, Colours
      <4> QED BY <4>2, <4>3 DEF Repainted
    <3>3. CASE h.color[c] = "RED"
      <4>1. Balance(b, Nil, Nil, Nil)
        BY <1>6, <1>8, <3>1, <3>2, <3>3, RootPainted
      <4> QED BY <3>2, <4>1
    <3>4. CASE h.color[c] # "RED"
      <4>1. h.color \in [Nodes -> {"RED", "BLACK"}]
        BY <1>6 DEF Tree
      <4>2. h.color[c] = "BLACK" /\ b.color = h.color
        <5>1. h.color[c] = "BLACK"
          BY <3>1, <3>4, <4>1
        <5>2. b.color \in [Nodes -> {"RED", "BLACK"}]
          BY <3>2 DEF Tree
        <5> QED BY <3>1, <3>2, <4>1, <5>1, <5>2
      <4>3. RootBlack(h, Nil, Nil)
        BY <3>1, <4>2 DEF RootBlack, Black
      <4>4. b = h
        BY <1>6, <3>2, <4>2, <3>1 DEF Paint, Tree
      <4> QED BY <1>6, <1>8, <4>3, <4>4 DEF Balance
    <3> QED BY <3>3, <3>4
  <2>2. CASE p # Nil
    <3>1. b = h
      BY <2>2
    <3> QED BY <1>6, <1>8, <2>2, <3>1 DEF Balance
  <2>3. CASE p = Nil /\ c = Nil
    <3>1. b = h /\ h.root = Nil
      BY <1>7, <2>3
    <3>2. RootBlack(h, Nil, Nil)
      BY <3>1 DEF RootBlack, Black
    <3> QED BY <1>6, <1>8, <3>1, <3>2 DEF Balance
  <2> QED BY <2>1, <2>2, <2>3
<1> HIDE DEF b
<1>10. Balance(tree', Nil, Nil, Nil)
  <2>1. /\ tree'.root = b.root /\ tree'.left = b.left /\ tree'.right = b.right
        /\ tree'.parent = b.parent /\ tree'.color = b.color
    BY <1>4, <1>9 DEF Tree
  <2>2. \A m : Belongs(tree', m) <=> Belongs(b, m)
    BY <2>1 DEF Belongs
  <2>3. Reds(tree', Nil, Nil, Nil) /\ RootBlack(tree', Nil, Nil)
    BY <1>9, <2>1, <2>2, Zenon DEF Balance, Reds, RedAt, RootBlack, Black
  <2>4. \A k : Even(b, k, Nil, Nil) => Even(tree', k, Nil, Nil)
    BY <2>1, <2>2, Zenon DEF Even, EvenAt, Weight
  <2> QED BY <1>9, <2>3, <2>4 DEF Balance
<1> QED BY <1>4, <1>10, ToRest DEF Goto, Calm, InsertCases, DeleteCases

-----------------------------------------------------------------------------
(* Where a search ends *)

Onward(k, n) == IF k < val[n] THEN Left(n) ELSE Right(n)

Ends(k, n) == val[n] = k \/ Onward(k, n) = Nil

Search(k, f) ==
    f = [n \in Nodes |-> IF Ends(k, n) THEN n ELSE f[Onward(k, n)]]

LEMMA ReachedBySearch ==
    ASSUME NEW k
    PROVE  Reached(k) = (CHOOSE f : Search(k, f))[tree.root]
BY DEF Reached, Search, Ends, Onward

\* The nodes a search that has come to n may come to.
Ahead(k, n) ==
    {m \in Nodes : \A S \in SUBSET Nodes :
        n \in S /\ (\A x \in S : ~Ends(k, x) => Onward(k, x) \in S) => m \in S}

\* There is a function that goes on until the search ends.
LEMMA SearchExists ==
    ASSUME NEW k, \A n \in Nodes : ~Ends(k, n) => Onward(k, n) \in Nodes
    PROVE  \E f : Search(k, f)
<1> DEFINE E(n) == {m \in Ahead(k, n) : Ends(k, m)}
           f == [n \in Nodes |-> CHOOSE m : m \in E(n)]
<1>1. ASSUME NEW n \in Nodes, Ends(k, n) PROVE f[n] = n
  <2>1. n \in Ahead(k, n)
    BY DEF Ahead
  <2>2. ASSUME NEW m \in Ahead(k, n) PROVE m = n
    <3>1. {n} \in SUBSET Nodes /\ \A x \in {n} : ~Ends(k, x) => Onward(k, x) \in {n}
      BY <1>1
    <3> QED BY <3>1 DEF Ahead
  <2>3. E(n) = {n}
    BY <1>1, <2>1, <2>2
  <2>4. f[n] \in {n}
    BY <2>3
  <2> QED BY <2>4
<1>2. ASSUME NEW n \in Nodes, ~Ends(k, n) PROVE f[n] = f[Onward(k, n)]
  <2> DEFINE o == Onward(k, n)
  <2>1. o \in Nodes
    BY <1>2
  <2>2. ASSUME NEW m \in Ahead(k, n), Ends(k, m) PROVE m \in Ahead(k, o)
    <3>1. SUFFICES ASSUME NEW S \in SUBSET Nodes, o \in S,
                          \A x \in S : ~Ends(k, x) => Onward(k, x) \in S
                   PROVE  m \in S
      BY DEF Ahead
    <3>2. S \cup {n} \in SUBSET Nodes
          /\ \A x \in S \cup {n} : ~Ends(k, x) => Onward(k, x) \in S \cup {n}
      BY <3>1
    <3>3. m \in S \cup {n}
      BY <3>2 DEF Ahead
    <3> QED BY <1>2, <2>2, <3>3
  <2>3. ASSUME NEW m \in Ahead(k, o) PROVE m \in Ahead(k, n)
    BY <1>2, <2>3 DEF Ahead
  <2>4. E(n) = E(o)
    BY <2>2, <2>3
  <2> HIDE DEF E
  <2>5. (CHOOSE m : m \in E(n)) = (CHOOSE m : m \in E(o))
    BY <2>4
  <2> QED BY <2>1, <2>5
<1>3. f = [n \in Nodes |-> IF Ends(k, n) THEN n ELSE f[Onward(k, n)]]
  <2>1. \A n \in Nodes : f[n] = IF Ends(k, n) THEN n ELSE f[Onward(k, n)]
    BY <1>1, <1>2
  <2> QED BY <2>1
<1> HIDE DEF f
<1> QED BY <1>3 DEF Search

\* An injection of a finite set into itself reaches all of it.
LEMMA Onto ==
    ASSUME NEW B, IsFiniteSet(B), NEW g \in [B -> B],
           \A x, y \in B : g[x] = g[y] => x = y
    PROVE  \A y \in B : \E x \in B : g[x] = y
<1>1. g \in Injection(B, B)
    BY DEF Injection, IsInjective
<1>2. g \in Surjection(B, B)
    BY <1>1, FS_Injection
<1> QED BY <1>2 DEF Surjection

\* No set of nodes of the tree has a child of each of them in it: the children
\* are as many as the nodes, so each node has its parent there too.
LEMMA NoDescent ==
    ASSUME NEW t, Linked(t), NEW B \in SUBSET Nodes,
           \A n \in B : Belongs(t, n) /\ \E c \in B : t.parent[c] = n
    PROVE  B = {}
<1> DEFINE g == [n \in B |-> CHOOSE c \in B : t.parent[c] = n]
<1>1. \A n \in B : g[n] \in B /\ t.parent[g[n]] = n
    OBVIOUS
<1>2. g \in [B -> B]
    OBVIOUS
<1> HIDE DEF g
<1>3. \A x, y \in B : g[x] = g[y] => x = y
    BY <1>1
<1>4. IsFiniteSet(B)
    BY TreeAssumption, FS_Subset
<1>5. \A y \in B : \E x \in B : g[x] = y
    BY <1>2, <1>3, <1>4, Onto
<1>6. \A y \in B : Belongs(t, y) /\ t.parent[y] \in B
    BY <1>1, <1>5
<1> QED BY <1>6 DEF Linked, NoCycle

\* A search ends in the tree, at the key or where its node would hang: down a
\* tree without cycles there is no other way.
LEMMA SearchEnds ==
    ASSUME TreeInv, NEW k \in Keys, tree.root # Nil
    PROVE  /\ Reached(k) \in Nodes /\ Belongs(tree, Reached(k))
           /\ val[Reached(k)] \in Keys
           /\ Ends(k, Reached(k))
<1> USE TreeAssumption
<1>1. /\ tree \in Tree /\ Linked(tree)
      /\ tree.left \in Links /\ tree.right \in Links /\ tree.root \in NodeOrNil
    BY DEF TreeInv, Shape, Tree
<1>2. \A n \in Nodes : ~Ends(k, n) => Onward(k, n) \in Nodes
    BY <1>1 DEF Ends, Onward, Left, Right, Links, NodeOrNil
<1> DEFINE f == CHOOSE g : Search(k, g)
<1>3. Search(k, f)
  <2>1. \E g : Search(k, g)
    BY <1>2, SearchExists
  <2> QED BY <2>1
<1>4. Reached(k) = f[tree.root]
    BY ReachedBySearch
<1> HIDE DEF f
<1>5. \A n \in Nodes : f[n] = IF Ends(k, n) THEN n ELSE f[Onward(k, n)]
    BY <1>3 DEF Search
<1> DEFINE Good(m) == m \in Nodes /\ Belongs(tree, m) /\ Ends(k, m)
           B == {n \in Nodes : Belongs(tree, n) /\ ~Good(f[n])}
<1>6. ASSUME NEW n \in B
      PROVE  Onward(k, n) \in B /\ tree.parent[Onward(k, n)] = n
  <2>1. n \in Nodes /\ Belongs(tree, n) /\ ~Good(f[n])
    OBVIOUS
  <2>2. ~Ends(k, n)
    BY <1>5, <2>1
  <2>3. f[n] = f[Onward(k, n)] /\ Onward(k, n) \in Nodes /\ Onward(k, n) # Nil
    BY <1>2, <1>5, <2>1, <2>2
  <2>4. LinkedAt(tree, n)
    BY <1>1, <2>1 DEF Linked
  <2>5. Onward(k, n) = tree.left[n] \/ Onward(k, n) = tree.right[n]
    BY DEF Onward, Left, Right
  <2>6. tree.parent[Onward(k, n)] = n /\ Belongs(tree, Onward(k, n))
    BY <2>1, <2>3, <2>4, <2>5 DEF LinkedAt, Belongs
  <2> HIDE DEF Good
  <2> QED BY <2>1, <2>3, <2>6
<1>7. B = {}
  <2>1. B \in SUBSET Nodes /\ \A n \in B : Belongs(tree, n)
    OBVIOUS
  <2> HIDE DEF B
  <2> QED BY <1>1, <1>6, <2>1, NoDescent
<1>8. Good(f[tree.root])
  <2>1. tree.root \in Nodes /\ Belongs(tree, tree.root)
    BY <1>1 DEF NodeOrNil, Belongs
  <2> QED BY <1>7, <2>1
<1>9. ASSUME NEW m \in Nodes, Belongs(tree, m) PROVE val[m] \in Keys
    BY <1>9 DEF TreeInv, Shape, Allocated
<1> QED BY <1>4, <1>8, <1>9

-----------------------------------------------------------------------------
(* What the functions take for granted *)

LEMMA MembersHang == TreeInv => Members = InTree
BY DEF TreeInv, Allocated, Members, InTree, Belongs, IsChild, Left, Right,
   Parent

LEMMA Granted == TreeInv /\ RuleInv => TakenForGranted
<1> SUFFICES ASSUME TreeInv, RuleInv PROVE TakenForGranted
    OBVIOUS
<1> USE TreeAssumption
<1>1. ASSUME pc \in {"rbtree_insert", "rbtree_find"}, tree.root # Nil
      PROVE  /\ Reached(key) \in Members
             /\ key < val[Reached(key)] => Left(Reached(key)) = Nil
             /\ key > val[Reached(key)] => Right(Reached(key)) = Nil
  <2> DEFINE r == Reached(key)
  <2>1. key \in Keys
    BY DEF TreeInv, Shape
  <2>2. r \in Nodes /\ Belongs(tree, r) /\ val[r] \in Keys /\ Ends(key, r)
    BY <1>1, <2>1, SearchEnds
  <2>3. r \in Members
    BY <2>2, MembersHang DEF InTree
  <2> HIDE DEF r
  <2>4. key \in Int /\ val[r] \in Int
    BY <2>1, <2>2
  <2>5. /\ key < val[r] => Left(r) = Nil
        /\ key > val[r] => Right(r) = Nil
    BY <2>2, <2>4 DEF Ends, Onward
  <2> QED BY <2>3, <2>5 DEF r
<1>2. ASSUME pc \in {"insert_case3", "insert_case4", "insert_case5"}
      PROVE  /\ Parent(cur) # Nil /\ grandparent(cur) # Nil
             /\ pc = "insert_case5" =>
                    (cur = Left(Parent(cur)) <=> Parent(cur) = Left(grandparent(cur)))
  <2>1. /\ pc \in InsertCases
        /\ Parent(cur) # Nil /\ tree.color[Parent(cur)] = "RED"
        /\ pc = "insert_case5" =>
               (cur = Left(Parent(cur)) <=> Parent(cur) = Left(grandparent(cur)))
    BY <1>2 DEF RuleInv, Inserting, InsertCases, Color
  <2>2. grandparent(cur) \in Nodes
    BY <2>1, InsertFamily
  <2> QED BY <2>1, <2>2
<1>3. ASSUME pc \in {"delete_case2", "delete_case3", "delete_case4",
                     "delete_case5", "delete_case6"}
      PROVE  /\ Parent(cur) # Nil /\ sibling(cur) # Nil
             /\ pc = "delete_case2" /\ Color(sibling(cur)) = "RED" =>
                    Left(sibling(cur)) # Nil /\ Right(sibling(cur)) # Nil
             /\ pc = "delete_case6" => FarNephew(cur) # Nil
  <2>1. /\ pc \in DeleteCases
        /\ Parent(cur) # Nil
        /\ pc = "delete_case6" => node_color(FarNephew(cur)) = "RED"
    BY <1>3 DEF RuleInv, Repairing, DeleteCases
  <2>2. /\ sibling(cur) # Nil
        /\ tree.color[sibling(cur)] # "BLACK" =>
               Left(sibling(cur)) # Nil /\ Right(sibling(cur)) # Nil
    BY <2>1, RepairFamily
  <2>3. pc = "delete_case6" => FarNephew(cur) # Nil
    BY <2>1 DEF node_color
  <2> QED BY <2>1, <2>2, <2>3 DEF Color
<1>4. pc = "replace_child" => Left(cur) = Nil \/ Right(cur) = Nil
    BY DEF TreeInv, Given, RuleInv, OneChild
<1> QED BY <1>1, <1>2, <1>3, <1>4 DEF TakenForGranted

-----------------------------------------------------------------------------
(* Theorems *)

Inv == TreeInv /\ RuleInv

LEMMA RulesStutter ==
    ASSUME RuleInv, UNCHANGED vars
    PROVE  RuleInv'
<1>1. Taken' = Taken /\ Short' = Short /\ Odd' = Odd /\ tree' = tree
    BY DEF vars, Taken, Short, Odd
<1>2. Inserting' /\ OneChild'
    BY DEF vars, RuleInv, Inserting, OneChild, Color, Parent, Left, Right,
           uncle, grandparent
<1>3. Repairing'
    BY DEF vars, RuleInv, Repairing, Color, Parent, Left, Right, sibling,
           AllBlack, node_color, FarNephew
<1> QED BY <1>1, <1>2, <1>3 DEF RuleInv

LEMMA InvNext == Inv /\ [Next]_vars => Inv'
<1> SUFFICES ASSUME TreeInv, RuleInv, [Next]_vars PROVE TreeInv' /\ RuleInv'
    BY DEF Inv
<1> USE Granted
<1>1. CASE \E k \in Keys : \/ CallInsert(k)
                           \/ \E o \in {"find", "delete"} : CallSearch(o, k)
  <2>1. pc # "rbtree_delete"
    BY <1>1 DEF CallInsert, CallSearch
  <2> QED BY <1>1, <2>1, CallerKeeps, CalmRules
<1>2. CASE Return
  <2>1. pc # "rbtree_delete"
    BY <1>2 DEF Return
  <2> QED BY <1>2, <2>1, CallerKeeps, CalmRules
<1>3. CASE rbtree_find \/ binary_find
  <2>1. pc # "rbtree_delete"
    BY <1>3 DEF rbtree_find, binary_find
  <2> QED BY <1>3, <2>1, SearchKeeps, CalmRules
<1>4. CASE rbtree_insert \/ binary_node_insert
    BY <1>4, InsertKeeps, InsertRules
<1>5. CASE insert_case1 \/ insert_case2 \/ insert_case3
    BY <1>5, InsertCasesKeep, InsertColours
<1>6. CASE insert_case4 \/ insert_case5
    BY <1>6, InsertCasesKeep, InsertRotations
<1>7. CASE rbtree_delete \/ find_subtree_min
  <2>1. pc = "rbtree_delete" => cur = held
    BY DEF TreeInv, Given
  <2> QED BY <1>7, <2>1, DescentKeeps, CalmRules
<1>8. CASE delete_one_child
    BY <1>8, DeleteCasesKeep, RepairBegins
<1>9. CASE delete_case1 \/ delete_case3 \/ delete_case4
    BY <1>9, DeleteCasesKeep, RepairColours
<1>10. CASE delete_case2 \/ delete_case5 \/ delete_case6
    BY <1>10, DeleteCasesKeep, RepairRotations
<1>11. CASE replace_child
    BY <1>11, ReplaceChildKeeps, ReplaceRules
<1>12. CASE UNCHANGED vars
  <2>1. TreeInv'
    BY <1>12 DEF vars, TreeInv, Shape, Counted, InTree, Allocated, Holding, Given
  <2> QED BY <1>12, <2>1, RulesStutter
<1> QED BY <1>1, <1>2, <1>3, <1>4, <1>5, <1>6, <1>7, <1>8, <1>9, <1>10, <1>11,
           <1>12 DEF Next

LEMMA InvLinks == TreeInv => LinksAgree
<1> SUFFICES ASSUME TreeInv PROVE LinksAgree
    OBVIOUS
<1>1. Members = InTree
    BY MembersHang
<1>2. /\ tree.left \in Links /\ tree.right \in Links /\ tree.parent \in Links
      /\ tree.root \in NodeOrNil /\ Linked(tree)
    BY Fields DEF TreeInv, Shape
<1>3. tree.root # Nil => tree.root \in InTree /\ Parent(tree.root) = Nil
    BY <1>2 DEF InTree, Belongs, Linked, Parent, NodeOrNil
<1>4. ASSUME NEW n \in InTree
      PROVE  /\ Left(n) # Nil => Left(n) \in InTree /\ Parent(Left(n)) = n
             /\ Right(n) # Nil => Right(n) \in InTree /\ Parent(Right(n)) = n
             /\ Left(n) = Right(n) => Left(n) = Nil
             /\ n # tree.root => Parent(n) \in InTree
  <2>1. n \in Nodes /\ Belongs(tree, n) /\ LinkedAt(tree, n)
    BY <1>2 DEF InTree, Linked
  <2>2. /\ Left(n) # Nil => Left(n) \in InTree
        /\ Right(n) # Nil => Right(n) \in InTree
        /\ Parent(n) # Nil => Parent(n) \in InTree
    BY <2>1, Relatives DEF InTree
  <2>3. n # tree.root => Parent(n) # Nil
    BY <2>1 DEF Belongs, Parent
  <2> QED BY <2>1, <2>2, <2>3 DEF LinkedAt, Left, Right, Parent
<1> QED BY <1>1, <1>3, <1>4 DEF LinksAgree

LEMMA InvCounted == TreeInv => AllCounted
<1> SUFFICES ASSUME TreeInv PROVE AllCounted
    OBVIOUS
<1>1. Members = InTree
    BY MembersHang
<1>2. pc = "idle" => InTree = {n \in Nodes : val[n] # NoKey}
    BY DEF TreeInv, Allocated, Holding, InTree
<1> QED BY <1>1, <1>2 DEF AllCounted, TreeInv, Counted

LEMMA InvType == TreeInv => TypeOK
<1> SUFFICES ASSUME TreeInv PROVE TypeOK
    OBVIOUS
<1>1. tree.count \in 0 .. Cardinality(Nodes)
  <2>1. InTree \subseteq Nodes /\ IsFiniteSet(Nodes)
    BY TreeAssumption DEF InTree
  <2>2. /\ Cardinality(InTree) \in Nat /\ Cardinality(Nodes) \in Nat
        /\ Cardinality(InTree) <= Cardinality(Nodes)
    BY <2>1, FS_Subset, FS_CardinalityType
  <2> QED BY <2>2 DEF TreeInv, Counted
<1>2. tree \in [root : Nodes \cup {Nil},
                count : 0 .. Cardinality(Nodes),
                left : [Nodes -> Nodes \cup {Nil}],
                right : [Nodes -> Nodes \cup {Nil}],
                parent : [Nodes -> Nodes \cup {Nil}],
                color : [Nodes -> {"RED", "BLACK"}]]
    BY <1>1 DEF TreeInv, Shape, Tree, Links, NodeOrNil
<1> QED BY <1>2 DEF TreeInv, Shape, TypeOK, Pcs, NodeOrNil

-----------------------------------------------------------------------------
(* The nodes the root leads to *)

Fall(f) == f = [n \in NodeOrNil |->
                  IF n = Nil THEN {} ELSE {n} \cup f[Left(n)] \cup f[Right(n)]]

LEMMA NoneLostByFall ==
    NoneLost <=> (CHOOSE f : Fall(f))[tree.root] = Members /\ AllCounted
BY DEF NoneLost, Fall

\* A set of nodes with the children of each of them.
Downward(S) == \A x \in S : /\ Left(x) # Nil => Left(x) \in S
                            /\ Right(x) # Nil => Right(x) \in S

Under(n) == {m \in Nodes : \A S \in SUBSET Nodes : n \in S /\ Downward(S) => m \in S}

LEMMA UnderIsFall ==
    ASSUME tree \in Tree
    PROVE  Fall([n \in NodeOrNil |-> IF n = Nil THEN {} ELSE Under(n)])
<1> USE TreeAssumption
<1> DEFINE f == [n \in NodeOrNil |-> IF n = Nil THEN {} ELSE Under(n)]
<1>1. \A n \in Nodes : Left(n) \in NodeOrNil /\ Right(n) \in NodeOrNil
    BY Fields DEF Left, Right, Links
<1>2. ASSUME NEW n \in Nodes
      PROVE  Under(n) = {n} \cup f[Left(n)] \cup f[Right(n)]
  <2> DEFINE U == {n} \cup f[Left(n)] \cup f[Right(n)]
  <2>1. /\ f[Left(n)] = IF Left(n) = Nil THEN {} ELSE Under(Left(n))
        /\ f[Right(n)] = IF Right(n) = Nil THEN {} ELSE Under(Right(n))
    BY <1>1
  <2> HIDE DEF f
  <2>2. \A m \in Nodes : m \in Under(m)
    BY DEF Under
  <2>3. ASSUME NEW x \in Nodes PROVE Downward(Under(x))
    <3>1. ASSUME NEW y \in Under(x), NEW z \in Nodes, z = Left(y) \/ z = Right(y)
          PROVE  z \in Under(x)
      BY <3>1 DEF Under, Downward
    <3>2. Under(x) \subseteq Nodes
      BY DEF Under
    <3> QED BY <1>1, <3>1, <3>2 DEF Downward, NodeOrNil
  <2>4. U \in SUBSET Nodes
    BY <2>1 DEF Under
  <2>5. n \in U /\ Downward(U)
    <3>1. \A x \in U : x = n \/ (Left(n) # Nil /\ x \in Under(Left(n)))
                             \/ (Right(n) # Nil /\ x \in Under(Right(n)))
      BY <2>1
    <3>2. /\ Left(n) # Nil => Left(n) \in U /\ Under(Left(n)) \subseteq U
                              /\ Downward(Under(Left(n)))
          /\ Right(n) # Nil => Right(n) \in U /\ Under(Right(n)) \subseteq U
                               /\ Downward(Under(Right(n)))
      BY <1>1, <2>1, <2>2, <2>3 DEF NodeOrNil
    <3>3. n \in U
      OBVIOUS
    <3> HIDE DEF U
    <3> QED BY <3>1, <3>2, <3>3 DEF Downward
  <2>6. Under(n) \subseteq U
    <3> HIDE DEF U
    <3> QED BY <2>4, <2>5 DEF Under
  <2>7. ASSUME NEW z \in Nodes, z = Left(n) \/ z = Right(n)
        PROVE  Under(z) \subseteq Under(n)
    <3>1. z \in Under(n)
      BY <2>2, <2>3, <2>7, TreeAssumption DEF Downward
    <3>2. Under(n) \in SUBSET Nodes /\ Downward(Under(n))
      BY <2>3 DEF Under
    <3> QED BY <3>1, <3>2 DEF Under
  <2>8. U \subseteq Under(n)
    BY <1>1, <2>1, <2>2, <2>7 DEF NodeOrNil
  <2> HIDE DEF U
  <2>9. Under(n) = U
    BY <2>6, <2>8
  <2> QED BY <2>9 DEF U
<1>3. \A n \in NodeOrNil :
         f[n] = IF n = Nil THEN {} ELSE {n} \cup f[Left(n)] \cup f[Right(n)]
  <2>1. \A n \in NodeOrNil : f[n] = IF n = Nil THEN {} ELSE Under(n)
    OBVIOUS
  <2> HIDE DEF f
  <2> QED BY <1>2, <2>1 DEF NodeOrNil
<1>4. f = [n \in NodeOrNil |-> f[n]]
    OBVIOUS
<1> HIDE DEF f
<1>5. Fall(f)
    BY <1>3, <1>4 DEF Fall
<1> QED BY <1>5 DEF f

\* Going down, every function the equation holds of finds the same nodes.
LEMMA InvNoneLost == TreeInv => NoneLost
<1> SUFFICES ASSUME TreeInv PROVE NoneLost
    OBVIOUS
<1> USE TreeAssumption
<1>1. /\ tree \in Tree /\ Linked(tree) /\ Members = InTree
      /\ tree.root \in NodeOrNil
    BY MembersHang, Fields DEF TreeInv, Shape
<1> DEFINE f == CHOOSE g : Fall(g)
<1>2. Fall(f)
  <2>1. \E g : Fall(g)
    BY <1>1, UnderIsFall
  <2> QED BY <2>1
<1> HIDE DEF f
<1>3. /\ f[Nil] = {}
      /\ \A n \in Nodes : f[n] = {n} \cup f[Left(n)] \cup f[Right(n)]
    BY <1>2 DEF Fall, NodeOrNil
<1>4. ASSUME NEW n \in InTree
      PROVE  /\ n \in Nodes
             /\ Left(n) # Nil => Left(n) \in InTree /\ tree.parent[Left(n)] = n
             /\ Right(n) # Nil => Right(n) \in InTree /\ tree.parent[Right(n)] = n
  <2>1. n \in Nodes /\ Belongs(tree, n) /\ LinkedAt(tree, n)
    BY <1>1 DEF InTree, Linked
  <2> QED BY <2>1, Relatives DEF InTree, LinkedAt, Left, Right
\* It finds nodes of the tree only ...
<1>5. \A n \in InTree : f[n] \subseteq InTree
  <2> DEFINE B == {n \in InTree : ~(f[n] \subseteq InTree)}
  <2>1. ASSUME NEW n \in B PROVE \E c \in B : tree.parent[c] = n
    <3>1. n \in InTree /\ ~(f[n] \subseteq InTree) /\ n \in Nodes
      BY <1>4
    <3>2. ~(f[Left(n)] \subseteq InTree) \/ ~(f[Right(n)] \subseteq InTree)
      BY <1>3, <3>1
    <3>3. PICK c \in {Left(n), Right(n)} : ~(f[c] \subseteq InTree)
      BY <3>2
    <3>4. c # Nil
      BY <1>3, <3>3
    <3>5. c \in InTree /\ tree.parent[c] = n
      BY <1>4, <3>1, <3>4
    <3> QED BY <3>3, <3>5
  <2>2. B \in SUBSET Nodes /\ \A n \in B : Belongs(tree, n)
    BY DEF InTree
  <2> HIDE DEF B
  <2>3. B = {}
    BY <1>1, <2>1, <2>2, NoDescent
  <2> QED BY <2>3 DEF B
\* ... with all that is below each of them.
<1>6. \A n \in InTree : /\ n \in f[n]
                        /\ \A x \in f[n] : /\ Left(x) # Nil => Left(x) \in f[n]
                                           /\ Right(x) # Nil => Right(x) \in f[n]
  <2>1. \A n \in InTree : n \in f[n]
    BY <1>3, <1>4
  <2> DEFINE B == {n \in InTree : ~Downward(f[n])}
  <2>2. ASSUME NEW n \in B PROVE \E c \in B : tree.parent[c] = n
    <3>1. n \in InTree /\ ~Downward(f[n]) /\ n \in Nodes
      BY <1>4
    <3>2. f[n] = {n} \cup f[Left(n)] \cup f[Right(n)]
      BY <1>3, <3>1
    <3>3. /\ Left(n) # Nil => Left(n) \in f[Left(n)] /\ Left(n) \in InTree
          /\ Right(n) # Nil => Right(n) \in f[Right(n)] /\ Right(n) \in InTree
      BY <1>4, <2>1, <3>1
    <3>4. ~Downward(f[Left(n)]) \/ ~Downward(f[Right(n)])
      <4>1. SUFFICES ASSUME Downward(f[Left(n)]), Downward(f[Right(n)])
                     PROVE  Downward(f[n])
        BY <3>1
      <4>2. ASSUME NEW x \in f[n], NEW z, z = Left(x) \/ z = Right(x), z # Nil
            PROVE  z \in f[n]
        <5>1. CASE x = n
          BY <3>2, <3>3, <4>2, <5>1
        <5>2. CASE x \in f[Left(n)] \/ x \in f[Right(n)]
          BY <3>2, <4>1, <4>2, <5>2 DEF Downward
        <5> QED BY <3>2, <5>1, <5>2
      <4> QED BY <4>2 DEF Downward
    <3>5. PICK c \in {Left(n), Right(n)} : ~Downward(f[c])
      BY <3>4
    <3>6. c # Nil
      BY <1>3, <3>5 DEF Downward
    <3>7. c \in InTree /\ tree.parent[c] = n
      BY <1>4, <3>1, <3>6
    <3> QED BY <3>5, <3>7
  <2>3. B \in SUBSET Nodes /\ \A n \in B : Belongs(tree, n)
    BY DEF InTree
  <2> HIDE DEF B
  <2>4. B = {}
    BY <1>1, <2>2, <2>3, NoDescent
  <2> QED BY <2>1, <2>4 DEF B, Downward
<1>7. f[tree.root] = InTree
  <2>1. CASE tree.root = Nil
    <3>1. InTree = {}
      <4>1. \A m \in Nodes : ~Belongs(tree, m)
        BY <1>1, <2>1, Empty
      <4> QED BY <4>1 DEF InTree
    <3> QED BY <1>3, <2>1, <3>1
  <2>2. CASE tree.root # Nil
    <3>1. tree.root \in InTree
      BY <1>1, <2>2 DEF InTree, Belongs, NodeOrNil
    <3> DEFINE B == InTree \ f[tree.root]
    <3>2. ASSUME NEW n \in B PROVE Belongs(tree, n) /\ tree.parent[n] \in B
      <4>1. n \in Nodes /\ Belongs(tree, n) /\ n \notin f[tree.root]
        BY DEF InTree
      <4>2. n # tree.root
        BY <1>6, <3>1, <4>1
      <4>3. tree.parent[n] # Nil
        BY <4>1, <4>2 DEF Belongs
      <4>4. /\ tree.parent[n] \in InTree
            /\ n = Left(tree.parent[n]) \/ n = Right(tree.parent[n])
        BY <1>1, <4>1, <4>3, Parents DEF InTree, Left, Right
      <4>5. tree.parent[n] \notin f[tree.root]
        BY <1>6, <3>1, <4>1, <4>4
      <4> QED BY <4>1, <4>4, <4>5
    <3>3. B \in SUBSET Nodes
      BY DEF InTree
    <3> HIDE DEF B
    <3>4. B = {}
      BY <1>1, <3>2, <3>3 DEF Linked, NoCycle
    <3>5. InTree \subseteq f[tree.root]
      BY <3>4 DEF B
    <3> QED BY <1>5, <3>1, <3>5
  <2> QED BY <2>1, <2>2
<1>8. AllCounted
    BY InvCounted
<1> QED BY <1>1, <1>7, <1>8, NoneLostByFall DEF f

-----------------------------------------------------------------------------
(* Ways through the tree *)

Dark(n) == IF Color(n) = "BLACK" THEN 1 ELSE 0

\* The links g stay among the nodes D, and in no part of D for good.
Leads(g, D) ==
    /\ D \subseteq Nodes
    /\ \A n \in D : g[n] # Nil => g[n] \in D
    /\ \A S \in SUBSET D : (\A n \in S : g[n] \in S) => S = {}

\* n and the nodes g leads to from it.
Chain(g, n) ==
    {m \in Nodes : \A S \in SUBSET Nodes :
        n \in S /\ (\A x \in S : g[x] # Nil => g[x] \in S) => m \in S}

LEMMA ChainStep ==
    ASSUME NEW g, NEW D, Leads(g, D), NEW n \in D
    PROVE  /\ g[n] = Nil => Chain(g, n) = {n}
           /\ g[n] # Nil => /\ g[n] \in D
                            /\ Chain(g, n) = Chain(g, g[n]) \cup {n}
                            /\ n \notin Chain(g, g[n])
<1> USE TreeAssumption
<1>3. ASSUME NEW m \in D, g[m] # Nil
      PROVE  g[m] \in D
    BY <1>3 DEF Leads
<1>4. ASSUME NEW m \in D, g[m] = Nil PROVE Chain(g, m) = {m}
  <2>1. m \in Nodes
    BY DEF Leads
  <2>2. m \in Chain(g, m)
    BY <2>1 DEF Chain
  <2>3. ASSUME NEW x \in Chain(g, m) PROVE x = m
    <3>1. {m} \in SUBSET Nodes /\ \A y \in {m} : g[y] # Nil => g[y] \in {m}
      BY <1>4, <2>1
    <3> QED BY <3>1 DEF Chain
  <2> QED BY <2>2, <2>3
<1>5. ASSUME NEW m \in D, g[m] # Nil
      PROVE  Chain(g, m) = Chain(g, g[m]) \cup {m}
  <2> DEFINE p == g[m]
  <2>1. m \in Nodes /\ p \in Nodes
    BY <1>3, <1>5 DEF Leads
  <2>2. m \in Chain(g, m)
    BY <2>1 DEF Chain
  <2>3. ASSUME NEW x \in Chain(g, p) PROVE x \in Chain(g, m)
    <3>1. SUFFICES ASSUME NEW S \in SUBSET Nodes, m \in S,
                          \A y \in S : g[y] # Nil => g[y] \in S
                   PROVE  x \in S
      BY DEF Chain
    <3>2. p \in S
      BY <1>5, <3>1
    <3> QED BY <3>1, <3>2 DEF Chain
  <2>4. ASSUME NEW x \in Chain(g, m), x # m PROVE x \in Chain(g, p)
    <3>1. SUFFICES ASSUME NEW S \in SUBSET Nodes, p \in S,
                          \A y \in S : g[y] # Nil => g[y] \in S
                   PROVE  x \in S
      BY DEF Chain
    <3>2. /\ S \cup {m} \in SUBSET Nodes
          /\ \A y \in S \cup {m} : g[y] # Nil => g[y] \in S \cup {m}
      BY <2>1, <3>1
    <3>3. x \in S \cup {m}
      BY <3>2 DEF Chain
    <3> QED BY <2>4, <3>3
  <2> QED BY <2>2, <2>3, <2>4
<1> DEFINE B == {m \in D : g[m] # Nil /\ m \in Chain(g, g[m])}
<1>6. ASSUME NEW m \in B PROVE g[m] \in B
  <2>1. m \in D /\ g[m] # Nil /\ m \in Chain(g, g[m])
    OBVIOUS
  <2> DEFINE p == g[m]
  <2>2. p \in D
    BY <1>3, <2>1
  <2>3. g[p] # Nil
    <3>1. SUFFICES ASSUME g[p] = Nil PROVE FALSE
      OBVIOUS
    <3>2. m = p
      BY <1>4, <2>1, <2>2, <3>1
    <3> QED BY <2>1, <3>1, <3>2
  <2>4. m \in Chain(g, g[p]) \/ m = p
    BY <1>5, <2>1, <2>2, <2>3
  <2>5. p \in Chain(g, g[p])
    <3>1. CASE m = p
      BY <2>1, <3>1
    <3>2. CASE m \in Chain(g, g[p])
      <4>1. p \in Nodes
        BY <2>2 DEF Leads
      <4> QED BY <2>1, <3>2, <4>1 DEF Chain
    <3> QED BY <2>4, <3>1, <3>2
  <2> QED BY <2>2, <2>3, <2>5
<1>7. B = {}
  <2>1. B \in SUBSET D
    OBVIOUS
  <2> HIDE DEF B
  <2> QED BY <1>6, <2>1 DEF Leads
<1> QED BY <1>3, <1>4, <1>5, <1>7

\* f counts the black nodes on the way.
CountsOn(f, g, D) ==
    f = [n \in D \cup {Nil} |-> IF n = Nil THEN 0 ELSE f[g[n]] + Dark(n)]

LEMMA Counts ==
    ASSUME NEW g, NEW D, Leads(g, D)
    PROVE  \E f : CountsOn(f, g, D)
<1> USE TreeAssumption
<1> DEFINE E(n) == {m \in Chain(g, n) : Color(m) = "BLACK"}
           f == [n \in D \cup {Nil} |-> IF n = Nil THEN 0 ELSE Cardinality(E(n))]
<1>1. D \subseteq Nodes
    BY DEF Leads
<1>2. \A n : IsFiniteSet(E(n))
    BY FS_Subset DEF Chain
<1>3. ASSUME NEW n \in D PROVE f[n] = f[g[n]] + Dark(n)
  <2>1. n # Nil /\ f[n] = Cardinality(E(n))
    BY <1>1
  <2>2. CASE g[n] = Nil
    <3>1. Chain(g, n) = {n} /\ f[g[n]] = 0
      BY <2>2, ChainStep
    <3>2. CASE Color(n) = "BLACK"
      <4>1. E(n) = {n}
        BY <3>1, <3>2
      <4>2. Cardinality(E(n)) = 1
        BY <4>1, FS_Singleton
      <4> QED BY <2>1, <3>1, <3>2, <4>2 DEF Dark
    <3>3. CASE Color(n) # "BLACK"
      <4>1. E(n) = {}
        BY <3>1, <3>3
      <4>2. Cardinality(E(n)) = 0
        BY <4>1, FS_EmptySet
      <4> QED BY <2>1, <3>1, <3>3, <4>2 DEF Dark
    <3> QED BY <3>2, <3>3
  <2>3. CASE g[n] # Nil
    <3> DEFINE p == g[n]
    <3>1. p \in D /\ Chain(g, n) = Chain(g, p) \cup {n} /\ n \notin Chain(g, p)
      BY <2>3, ChainStep
    <3>2. f[p] = Cardinality(E(p)) /\ IsFiniteSet(E(p)) /\ n \notin E(p)
      BY <1>1, <1>2, <2>3, <3>1
    <3>3. Cardinality(E(p)) \in Nat
      BY <3>2, FS_CardinalityType
    <3>4. CASE Color(n) = "BLACK"
      <4>1. E(n) = E(p) \cup {n}
        BY <3>1, <3>4
      <4> HIDE DEF E
      <4>2. Cardinality(E(n)) = Cardinality(E(p)) + 1
        BY <3>2, <4>1, FS_AddElement
      <4> QED BY <2>1, <3>2, <3>4, <4>2 DEF Dark
    <3>5. CASE Color(n) # "BLACK"
      <4>1. E(n) = E(p)
        BY <3>1, <3>5
      <4> HIDE DEF E
      <4> QED BY <2>1, <3>2, <3>3, <3>5, <4>1 DEF Dark
    <3> QED BY <3>4, <3>5
  <2> QED BY <2>2, <2>3
<1>4. f[Nil] = 0 /\ \A n \in D \cup {Nil} : n = Nil \/ n \in D
    OBVIOUS
<1>5. f = [n \in D \cup {Nil} |-> f[n]]
    OBVIOUS
<1>6. Nil \notin D
    BY <1>1
<1> HIDE DEF f
<1>7. \A n \in D \cup {Nil} : f[n] = IF n = Nil THEN 0 ELSE f[g[n]] + Dark(n)
    BY <1>3, <1>4, <1>6
<1>8. CountsOn(f, g, D)
    BY <1>5, <1>7 DEF CountsOn
<1> QED BY <1>8

LEMMA UpLeads == TreeInv => Leads(tree.parent, InTree)
BY Parents DEF TreeInv, Shape, InTree, Leads, Linked, NoCycle

LEMMA LeftLeads == TreeInv => Leads(tree.left, InTree)
<1> SUFFICES ASSUME TreeInv PROVE Leads(tree.left, InTree)
    OBVIOUS
<1> USE TreeAssumption
<1>1. Linked(tree)
    BY DEF TreeInv, Shape
<1>2. \A n \in InTree : tree.left[n] # Nil =>
         tree.left[n] \in InTree /\ tree.parent[tree.left[n]] = n
    BY <1>1, Relatives DEF InTree, Linked, LinkedAt, Left
<1>3. ASSUME NEW S \in SUBSET InTree, \A n \in S : tree.left[n] \in S PROVE S = {}
  <2>1. S \in SUBSET Nodes /\ Nil \notin S /\ \A n \in S : Belongs(tree, n)
    BY DEF InTree
  <2>2. \A n \in S : \E c \in S : tree.parent[c] = n
    BY <1>2, <1>3, <2>1
  <2> QED BY <1>1, <2>1, <2>2, NoDescent
<1> QED BY <1>2, <1>3 DEF Leads, InTree

Rise(f) == f = [n \in Members \cup {Nil} |->
                  IF n = Nil THEN 0 ELSE f[Parent(n)] + Dark(n)]

Open == {n \in Members : Left(n) = Nil \/ Right(n) = Nil}

LEMMA BalancedByRise ==
    ASSUME NEW f, f = CHOOSE g : Rise(g)
    PROVE  Balanced <=> /\ node_color(tree.root) = "BLACK"
                        /\ \A n \in Members : Color(n) = "RED"
                                              => node_color(Parent(n)) = "BLACK"
                        /\ Cardinality({f[n] : n \in Open}) <= 1
BY DEF Balanced, Rise, Dark, Open

\* black of Balanced counts up the parents.
LEMMA RiseFound ==
    ASSUME TreeInv, NEW f, f = CHOOSE g : Rise(g)
    PROVE  /\ f[Nil] = 0
           /\ \A n \in InTree : f[n] = f[Parent(n)] + Dark(n)
<1>1. \E g : Rise(g)
  <2>1. Leads(tree.parent, InTree) /\ Members = InTree
    BY MembersHang, UpLeads
  <2>2. \A g : CountsOn(g, tree.parent, InTree) <=> Rise(g)
    BY <2>1 DEF CountsOn, Rise, Parent
  <2> QED BY <2>1, <2>2, Counts
<1>2. Rise(f)
    BY <1>1
<1>3. Members = InTree /\ Nil \notin InTree
    BY MembersHang, TreeAssumption DEF InTree
<1> QED BY <1>2, <1>3 DEF Rise

\* With as many black nodes on every way down, the ways up have as many, too:
\* what is above a node and what is below it add up to the same.
LEMMA InvBalanced == Inv => BalancedAtRest
<1> SUFFICES ASSUME TreeInv, RuleInv, pc = "return" PROVE Balanced
    BY DEF Inv, BalancedAtRest
<1> USE TreeAssumption
<1>1. /\ tree \in Tree /\ Linked(tree) /\ Members = InTree
      /\ tree.root \in NodeOrNil
      /\ tree.left \in Links /\ tree.right \in Links
    BY MembersHang, Fields DEF TreeInv, Shape
<1>2. Balance(tree, Nil, Nil, Nil)
    BY AtRest DEF Calm, InsertCases, DeleteCases
<1>3. PICK h : Even(tree, h, Nil, Nil)
    BY <1>2 DEF Balance
<1> DEFINE f == CHOOSE g : Rise(g)
<1>4. f = CHOOSE g : Rise(g)
    OBVIOUS
<1> HIDE DEF f
<1>5. /\ f[Nil] = 0
      /\ \A n \in InTree : f[n] = f[Parent(n)] + Dark(n)
    BY <1>4, RiseFound
<1>6. /\ h \in [NodeOrNil -> Nat] /\ h[Nil] = 0
      /\ \A n \in InTree : /\ h[n] = h[Left(n)] + Dark(n)
                           /\ h[n] = h[Right(n)] + Dark(n)
  <2>1. /\ h \in [NodeOrNil -> Nat] /\ h[Nil] = 0
        /\ \A n \in InTree : EvenAt(tree, h, Nil, Nil, n) /\ n # Nil
    BY <1>3 DEF Even, InTree
  <2>2. \A n \in InTree : Weight(tree, Nil, n) = Dark(n)
    BY <2>1 DEF Weight, Dark, Color
  <2>3. \A n : Due(h, Nil, n) = h[n]
    BY DEF Due
  <2> QED BY <2>1, <2>2, <2>3 DEF EvenAt, Left, Right
<1> DEFINE B == {n \in InTree : f[n] # (h[tree.root] - h[n]) + Dark(n)}
<1>7. ASSUME NEW n \in B PROVE Belongs(tree, n) /\ tree.parent[n] \in B
  <2>1. /\ n \in InTree /\ f[n] # (h[tree.root] - h[n]) + Dark(n)
        /\ n \in Nodes /\ Belongs(tree, n)
    BY DEF InTree
  <2>2. h[tree.root] \in Nat /\ h[n] \in Nat /\ Dark(n) \in Nat
    BY <1>1, <1>6, <2>1 DEF Dark, NodeOrNil
  <2> DEFINE p == Parent(n)
  <2>3. p # Nil
    <3>1. SUFFICES ASSUME p = Nil PROVE FALSE
      OBVIOUS
    <3>2. n = tree.root
      BY <2>1, <3>1 DEF Belongs, Parent
    <3>3. f[n] = 0 + Dark(n)
      BY <1>5, <2>1, <3>1
    <3> QED BY <2>1, <2>2, <3>2, <3>3
  <2>4. p \in InTree /\ (n = Left(p) \/ n = Right(p))
    BY <2>1, <2>3, Relatives DEF InTree
  <2>5. h[p] = h[n] + Dark(p) /\ h[p] \in Nat /\ Dark(p) \in Nat
    BY <1>6, <2>4 DEF Dark, NodeOrNil, InTree
  <2>6. f[n] = f[p] + Dark(n)
    BY <1>5, <2>1
  <2>7. ASSUME f[p] = (h[tree.root] - h[p]) + Dark(p) PROVE FALSE
    <3>1. f[p] = h[tree.root] - h[n]
      BY <2>2, <2>5, <2>7
    <3> QED BY <2>1, <2>2, <2>6, <3>1
  <2> QED BY <2>1, <2>4, <2>7 DEF Parent
<1>8. B = {}
  <2>1. B \in SUBSET Nodes
    BY DEF InTree
  <2> HIDE DEF B
  <2> QED BY <1>1, <1>7, <2>1 DEF Linked, NoCycle
<1>9. \A n \in Open : f[n] = h[tree.root]
  <2> SUFFICES ASSUME NEW n \in Open PROVE f[n] = h[tree.root]
    OBVIOUS
  <2>1. n \in InTree /\ (Left(n) = Nil \/ Right(n) = Nil)
    BY <1>1 DEF Open
  <2>2. h[n] = Dark(n)
    <3>1. h[n] = 0 + Dark(n)
      BY <1>6, <2>1
    <3> QED BY <3>1 DEF Dark
  <2>3. f[n] = (h[tree.root] - h[n]) + Dark(n)
    BY <1>8, <2>1
  <2>4. h[tree.root] \in Nat /\ Dark(n) \in Nat
    BY <1>1, <1>6 DEF Dark
  <2> QED BY <2>2, <2>3, <2>4
<1>10. Cardinality({f[n] : n \in Open}) <= 1
  <2> DEFINE k == h[tree.root]
  <2>1. {f[n] : n \in Open} \subseteq {k}
    BY <1>9
  <2> HIDE DEF k
  <2>2. IsFiniteSet({k}) /\ Cardinality({k}) = 1
    BY FS_Singleton
  <2>3. /\ Cardinality({f[n] : n \in Open}) <= Cardinality({k})
        /\ Cardinality({f[n] : n \in Open}) \in Nat
    BY <2>1, <2>2, FS_Subset, FS_CardinalityType
  <2> QED BY <2>2, <2>3
<1>11. node_color(tree.root) = "BLACK"
    BY <1>2 DEF Balance, RootBlack, Black, node_color, Color
<1>12. ASSUME NEW n \in InTree, Color(n) = "RED"
       PROVE  node_color(Parent(n)) = "BLACK"
  <2>1. RedAt(tree, Nil, Nil, n)
    BY <1>2 DEF Balance, Reds, InTree
  <2> QED BY <1>12, <2>1 DEF RedAt, Black, node_color, Color, Parent
<1> QED BY <1>1, <1>4, <1>10, <1>11, <1>12, BalancedByRise
-----------------------------------------------------------------------------
(* What rbtree_verify finds *)

LEMMA Kin ==
    ASSUME TreeInv, NEW n \in InTree
    PROVE  /\ n \in Nodes /\ n # Nil /\ Left(n) \in NodeOrNil /\ Right(n) \in NodeOrNil
           /\ Left(n) # Nil => Left(n) \in InTree /\ Parent(Left(n)) = n
           /\ Right(n) # Nil => Right(n) \in InTree /\ Parent(Right(n)) = n
           /\ Parent(n) # Nil => /\ Parent(n) \in InTree
                                 /\ n = Left(Parent(n)) \/ n = Right(Parent(n))
           /\ Parent(n) = Nil => n = tree.root
<1>1. /\ n \in Nodes /\ n # Nil /\ Belongs(tree, n) /\ LinkedAt(tree, n)
      /\ tree.left \in Links /\ tree.right \in Links
    BY TreeAssumption, Fields DEF TreeInv, Shape, Linked, InTree
<1>2. Left(n) \in NodeOrNil /\ Right(n) \in NodeOrNil
    BY <1>1 DEF Links, Left, Right
<1>3. /\ Left(n) # Nil => Left(n) \in InTree
      /\ Right(n) # Nil => Right(n) \in InTree
      /\ Parent(n) # Nil => /\ Parent(n) \in InTree
                            /\ n = Left(Parent(n)) \/ n = Right(Parent(n))
    BY <1>1, Relatives DEF InTree
<1>4. /\ Left(n) # Nil => Parent(Left(n)) = n
      /\ Right(n) # Nil => Parent(Right(n)) = n
    BY <1>1 DEF LinkedAt, Left, Right, Parent
<1>5. Parent(n) = Nil => n = tree.root
    BY <1>1 DEF Belongs, Parent
<1> QED BY <1>1, <1>2, <1>3, <1>4, <1>5

\* What holds of a node when it holds of its children holds of every node.
LEMMA FromBelow ==
    ASSUME TreeInv, NEW S,
           \A n \in InTree :
              (Left(n) = Nil \/ Left(n) \in S) /\ (Right(n) = Nil \/ Right(n) \in S)
                 => n \in S
    PROVE  InTree \subseteq S
<1> DEFINE B == InTree \ S
<1>1. ASSUME NEW n \in B PROVE Belongs(tree, n) /\ \E c \in B : tree.parent[c] = n
  <2>1. n \in InTree /\ n \notin S /\ Belongs(tree, n)
    BY DEF InTree
  <2>2. \/ Left(n) # Nil /\ Left(n) \notin S
        \/ Right(n) # Nil /\ Right(n) \notin S
    BY <2>1
  <2>3. /\ Left(n) # Nil => Left(n) \in InTree /\ tree.parent[Left(n)] = n
        /\ Right(n) # Nil => Right(n) \in InTree /\ tree.parent[Right(n)] = n
    BY <2>1, Kin DEF Parent
  <2> QED BY <2>1, <2>2, <2>3
<1>2. Linked(tree) /\ B \in SUBSET Nodes
    BY DEF TreeInv, Shape, InTree
<1> HIDE DEF B
<1>3. B = {}
    BY <1>1, <1>2, NoDescent
<1> QED BY <1>3 DEF B

\* What holds of a node when it holds of its parent holds of every node.
LEMMA FromAbove ==
    ASSUME TreeInv, NEW S,
           \A n \in InTree : Parent(n) = Nil \/ Parent(n) \in S => n \in S
    PROVE  InTree \subseteq S
<1> DEFINE B == InTree \ S
<1>1. ASSUME NEW n \in B PROVE Belongs(tree, n) /\ tree.parent[n] \in B
  <2>1. n \in InTree /\ n \notin S /\ Belongs(tree, n)
    BY DEF InTree
  <2>2. Parent(n) # Nil /\ Parent(n) \notin S
    BY <2>1
  <2>3. Parent(n) \in InTree
    BY <2>1, <2>2, Kin
  <2> QED BY <2>1, <2>2, <2>3 DEF Parent
<1>2. Linked(tree) /\ B \in SUBSET Nodes
    BY DEF TreeInv, Shape, InTree
<1> HIDE DEF B
<1>3. B = {}
    BY <1>1, <1>2 DEF Linked, NoCycle
<1> QED BY <1>3 DEF B

Below(n) == IF n = Nil THEN {} ELSE Under(n)

LEMMA BelowStep ==
    ASSUME TreeInv
    PROVE  /\ Below(Nil) = {}
           /\ \A n \in InTree :
                 Below(n) = {n} \cup Below(Left(n)) \cup Below(Right(n))
           /\ \A n \in InTree : n \in Below(n)
<1>1. tree \in Tree
    BY DEF TreeInv, Shape
<1> DEFINE f == [n \in NodeOrNil |-> IF n = Nil THEN {} ELSE Under(n)]
<1>2. Fall(f)
    BY <1>1, UnderIsFall
<1>3. \A n \in NodeOrNil : f[n] = Below(n)
    BY DEF Below
<1> HIDE DEF f
<1>4. \A n \in Nodes : f[n] = {n} \cup f[Left(n)] \cup f[Right(n)]
    BY <1>2, TreeAssumption DEF Fall, NodeOrNil
<1>5. ASSUME NEW n \in InTree
      PROVE  Below(n) = {n} \cup Below(Left(n)) \cup Below(Right(n))
  <2>1. n \in Nodes /\ n \in NodeOrNil /\ Left(n) \in NodeOrNil /\ Right(n) \in NodeOrNil
    BY Kin DEF NodeOrNil
  <2> QED BY <1>3, <1>4, <2>1
<1> QED BY <1>5 DEF Below


LEMMA BelowRoot ==
    ASSUME TreeInv, tree.root # Nil
    PROVE  tree.root \in InTree /\ Below(tree.root) = InTree
<1>1. tree \in Tree /\ Linked(tree) /\ tree.root \in NodeOrNil
    BY Fields DEF TreeInv, Shape
<1>2. tree.root \in InTree
    BY <1>1 DEF InTree, Belongs, NodeOrNil
<1>3. \A n \in InTree : n \in Below(n)
    BY BelowStep
<1> DEFINE T == {n \in InTree : Below(n) \subseteq InTree}
<1>4. InTree \subseteq T
  <2>1. ASSUME NEW n \in InTree, Left(n) = Nil \/ Left(n) \in T,
               Right(n) = Nil \/ Right(n) \in T
        PROVE  n \in T
    <3>1. Below(n) = {n} \cup Below(Left(n)) \cup Below(Right(n)) /\ Below(Nil) = {}
      BY BelowStep
    <3>2. Below(Left(n)) \subseteq InTree /\ Below(Right(n)) \subseteq InTree
      BY <2>1, <3>1
    <3> QED BY <3>1, <3>2
  <2> HIDE DEF T
  <2> QED BY <2>1, FromBelow
<1> DEFINE D == Below(tree.root)
<1>5. ASSUME NEW x \in InTree, x \in D
      PROVE  /\ Left(x) # Nil => Left(x) \in D
             /\ Right(x) # Nil => Right(x) \in D
  <2>1. \A S \in SUBSET Nodes : tree.root \in S /\ Downward(S) => x \in S
    BY <1>2, <1>5, TreeAssumption DEF Below, Under, InTree
  <2>2. D = {m \in Nodes : \A S \in SUBSET Nodes :
                tree.root \in S /\ Downward(S) => m \in S}
    BY <1>2, TreeAssumption DEF Below, Under, InTree
  <2>3. ASSUME NEW c \in Nodes, c = Left(x) \/ c = Right(x), c # Nil
        PROVE  c \in D
    <3>1. ASSUME NEW S \in SUBSET Nodes, tree.root \in S, Downward(S)
          PROVE  c \in S
      BY <2>1, <2>3, <3>1 DEF Downward
    <3> QED BY <2>2, <3>1
  <2>4. Left(x) \in NodeOrNil /\ Right(x) \in NodeOrNil
    BY Kin
  <2> HIDE DEF D
  <2> QED BY <2>3, <2>4 DEF NodeOrNil
<1>6. InTree \subseteq D
  <2>1. ASSUME NEW n \in InTree, Parent(n) = Nil \/ Parent(n) \in D
        PROVE  n \in D
    <3>1. CASE Parent(n) = Nil
      BY <1>2, <1>3, <3>1, Kin
    <3>2. CASE Parent(n) # Nil
      <4>1. /\ Parent(n) \in InTree /\ Parent(n) \in D /\ n # Nil
            /\ n = Left(Parent(n)) \/ n = Right(Parent(n))
        BY <2>1, <3>2, Kin
      <4> QED BY <1>5, <4>1
    <3> QED BY <3>1, <3>2
  <2> HIDE DEF D
  <2> QED BY <2>1, FromAbove
<1> QED BY <1>2, <1>4, <1>6

\* f says of every node whether all the nodes below it are in W.
Whole(f, W) ==
    f = [n \in Members \cup {Nil} |->
            \/ n = Nil
            \/ n \in W /\ f[Left(n)] /\ f[Right(n)]]

LEMMA WholeBelow ==
    ASSUME TreeInv, NEW W, NEW f, Whole(f, W)
    PROVE  \A n \in InTree : f[n] <=> Below(n) \subseteq W
<1> USE TreeAssumption
<1>1. Members = InTree /\ Nil \notin InTree
    BY MembersHang DEF InTree
<1>2. f[Nil] /\ \A n \in InTree : f[n] <=> n \in W /\ f[Left(n)] /\ f[Right(n)]
    BY <1>1 DEF Whole
<1> DEFINE T == {n \in InTree : f[n] <=> Below(n) \subseteq W}
<1>3. ASSUME NEW n \in InTree, Left(n) = Nil \/ Left(n) \in T,
             Right(n) = Nil \/ Right(n) \in T
      PROVE  n \in T
  <2>1. Below(n) = {n} \cup Below(Left(n)) \cup Below(Right(n)) /\ Below(Nil) = {}
    BY BelowStep
  <2>2. /\ f[Left(n)] <=> Below(Left(n)) \subseteq W
        /\ f[Right(n)] <=> Below(Right(n)) \subseteq W
    BY <1>2, <1>3, <2>1
  <2> QED BY <1>2, <2>1, <2>2
<1> HIDE DEF T
<1>4. InTree \subseteq T
    BY <1>3, FromBelow
<1> QED BY <1>4 DEF T

LEMMA WholeExists ==
    ASSUME TreeInv, NEW W
    PROVE  \E f : Whole(f, W)
<1> DEFINE f == [n \in Members \cup {Nil} |-> Below(n) \subseteq W]
<1>1. Members = InTree /\ Nil \notin InTree
    BY MembersHang, TreeAssumption DEF InTree
<1>2. ASSUME NEW n \in Members \cup {Nil}
      PROVE  f[n] = (\/ n = Nil
                     \/ n \in W /\ f[Left(n)] /\ f[Right(n)])
  <2>1. CASE n = Nil
    BY <2>1, BelowStep
  <2>2. CASE n # Nil
    <3>1. n \in InTree
      BY <1>1, <2>2
    <3>2. Left(n) \in Members \cup {Nil} /\ Right(n) \in Members \cup {Nil}
      BY <1>1, <3>1, Kin
    <3>3. Below(n) = {n} \cup Below(Left(n)) \cup Below(Right(n))
      BY <3>1, BelowStep
    <3> QED BY <2>2, <3>2, <3>3
  <2> QED BY <2>1, <2>2
<1>3. f = [n \in Members \cup {Nil} |-> f[n]]
    OBVIOUS
<1> HIDE DEF f
<1>4. Whole(f, W)
    BY <1>2, <1>3 DEF Whole
<1> QED BY <1>4


Fair == {n \in Nodes : \/ Color(n) = "BLACK"
                       \/ /\ node_color(Left(n)) = "BLACK"
                          /\ node_color(Right(n)) = "BLACK"}

LEMMA RedNodes ==
    ASSUME TreeInv, tree.root # Nil
    PROVE  verify_rednode(tree.root) <=> InTree \subseteq Fair
<1> DEFINE A(f) == f = [n \in Members \cup {Nil} |->
            \/ n = Nil
            \/ /\ \/ Color(n) = "BLACK"
                  \/ /\ node_color(Left(n)) = "BLACK"
                     /\ node_color(Right(n)) = "BLACK"
               /\ f[Left(n)]
               /\ f[Right(n)]]
           ok == CHOOSE f : A(f)
<1>1. verify_rednode(tree.root) <=> ok[tree.root]
    BY DEF verify_rednode
<1>2. \A f : A(f) <=> Whole(f, Fair)
  <2>1. \A n \in Members : n \in Fair <=>
            \/ Color(n) = "BLACK"
            \/ /\ node_color(Left(n)) = "BLACK"
               /\ node_color(Right(n)) = "BLACK"
    BY DEF Fair, Members
  <2> QED BY <2>1 DEF Whole
<1>3. Whole(ok, Fair)
  <2>1. \E f : A(f)
    BY <1>2, WholeExists
  <2>2. A(ok)
    BY <2>1
  <2> QED BY <1>2, <2>2
<1> HIDE DEF ok
<1>4. ok[tree.root] <=> Below(tree.root) \subseteq Fair
    BY <1>3, WholeBelow, BelowRoot
<1> QED BY <1>1, <1>4, BelowRoot

\* The nodes below which the ways have as many black nodes as on the left.
Alike == {n \in Nodes : node_black_walk(n, path_black_count[n])}

LEMMA VerifyNode ==
    ASSUME TreeInv, tree.root # Nil
    PROVE  verify_node(tree.root) <=> InTree \subseteq Alike
<1> DEFINE A(f) == f = [n \in Members \cup {Nil} |->
            \/ n = Nil
            \/ /\ node_black_walk(n, path_black_count[n])
               /\ f[Left(n)]
               /\ f[Right(n)]]
           ok == CHOOSE f : A(f)
<1>1. verify_node(tree.root) <=> ok[tree.root]
    BY DEF verify_node
<1>2. \A f : A(f) <=> Whole(f, Alike)
  <2>1. \A n \in Members : n \in Alike <=> node_black_walk(n, path_black_count[n])
    BY DEF Alike, Members
  <2> QED BY <2>1 DEF Whole
<1>3. Whole(ok, Alike)
  <2>1. \E f : A(f)
    BY <1>2, WholeExists
  <2>2. A(ok)
    BY <2>1
  <2> QED BY <1>2, <2>2
<1> HIDE DEF ok
<1>4. ok[tree.root] <=> Below(tree.root) \subseteq Alike
    BY <1>3, WholeBelow, BelowRoot
<1> QED BY <1>1, <1>4, BelowRoot

LeftCount(f) == f = [n \in Members \cup {Nil} |->
                       IF n = Nil THEN 0 ELSE f[Left(n)] + Dark(n)]

LEMMA LeftFound ==
    ASSUME TreeInv
    PROVE  /\ path_black_count[Nil] = 0
           /\ \A n \in InTree :
                 path_black_count[n] = path_black_count[Left(n)] + Dark(n)
<1>1. path_black_count = CHOOSE f : LeftCount(f)
    BY DEF path_black_count, LeftCount, Dark
<1>2. \E f : LeftCount(f)
  <2>1. Leads(tree.left, InTree) /\ Members = InTree
    BY MembersHang, LeftLeads
  <2>2. \A f : CountsOn(f, tree.left, InTree) <=> LeftCount(f)
    BY <2>1 DEF CountsOn, LeftCount, Left
  <2> QED BY <2>1, <2>2, Counts
<1>3. LeftCount(path_black_count)
    BY <1>1, <1>2
<1>4. Members = InTree /\ Nil \notin InTree
    BY MembersHang, TreeAssumption DEF InTree
<1> QED BY <1>3, <1>4 DEF LeftCount


\* node_black_walk finds w.
Walks(w, count) ==
    w = [n \in Members \cup {Nil} |->
            [find \in Nat |->
                IF n = Nil THEN find = count
                ELSE w[Left(n)][find + Dark(n)] /\ w[Right(n)][find + Dark(n)]]]

\* On the ways from n to the places below it where a leaf could be added,
\* there are count - find black nodes, if there are b[x] on the way up from x.
AsMany(b, n, find, count) ==
    IF n = Nil THEN find = count
    ELSE \A x \in Below(n) : x \in Open => find + (b[x] - b[Parent(n)]) = count

LEMMA WalkIs ==
    ASSUME NEW top, NEW count
    PROVE  node_black_walk(top, count) = (CHOOSE w : Walks(w, count))[top][0]
BY ZenonT(30) DEF node_black_walk, Walks, Dark

LEMMA RiseType ==
    ASSUME TreeInv, NEW b, b[Nil] = 0,
           \A n \in InTree : b[n] = b[Parent(n)] + Dark(n)
    PROVE  \A n \in InTree : b[n] \in Nat /\ b[Parent(n)] \in Nat
<1> DEFINE T == {n \in InTree : b[n] \in Nat}
<1>1. ASSUME NEW n \in InTree, Parent(n) = Nil \/ Parent(n) \in T
      PROVE  n \in T
  <2>1. b[Parent(n)] \in Nat /\ Dark(n) \in Nat
    BY <1>1 DEF Dark
  <2> QED BY <2>1
<1> HIDE DEF T
<1>2. InTree \subseteq T
    BY <1>1, FromAbove
<1>3. \A n \in InTree : Parent(n) = Nil \/ Parent(n) \in InTree
    BY Kin
<1> QED BY <1>2, <1>3 DEF T

LEMMA AsManyStep ==
    ASSUME TreeInv, NEW b, b[Nil] = 0,
           \A n \in InTree : b[n] = b[Parent(n)] + Dark(n),
           NEW n \in InTree, NEW find \in Nat, NEW count
    PROVE  AsMany(b, n, find, count)
              <=> /\ AsMany(b, Left(n), find + Dark(n), count)
                  /\ AsMany(b, Right(n), find + Dark(n), count)
<1>1. Below(n) = {n} \cup Below(Left(n)) \cup Below(Right(n)) /\ Below(Nil) = {}
    BY BelowStep
<1>2. /\ \A x \in InTree : b[x] \in Nat
      /\ b[Parent(n)] \in Nat /\ b[n] = b[Parent(n)] + Dark(n)
      /\ Dark(n) \in Nat
    BY RiseType DEF Dark
<1>3. /\ Left(n) # Nil => Parent(Left(n)) = n
      /\ Right(n) # Nil => Parent(Right(n)) = n
      /\ n # Nil
    BY Kin
<1>4. Open \subseteq InTree /\ (n \in Open <=> Left(n) = Nil \/ Right(n) = Nil)
    BY MembersHang DEF Open
\* What is added to find is left out of the ways of the children.
<1>5. \A x \in Open : (find + Dark(n)) + (b[x] - b[n]) = find + (b[x] - b[Parent(n)])
  <2>1. ASSUME NEW x \in Open
        PROVE  (find + Dark(n)) + (b[x] - b[n]) = find + (b[x] - b[Parent(n)])
    <3>1. b[x] \in Nat
      BY <1>2, <1>4
    <3> QED BY <1>2, <3>1
  <2> QED BY <2>1
<1>6. n \in Open => find + (b[n] - b[Parent(n)]) = find + Dark(n)
    BY <1>2
<1>7. AsMany(b, n, find, count)
        <=> /\ n \in Open => find + Dark(n) = count
            /\ \A x \in Below(Left(n)) : x \in Open =>
                  find + (b[x] - b[Parent(n)]) = count
            /\ \A x \in Below(Right(n)) : x \in Open =>
                  find + (b[x] - b[Parent(n)]) = count
    BY <1>1, <1>3, <1>6 DEF AsMany
<1>8. AsMany(b, Left(n), find + Dark(n), count)
        <=> /\ Left(n) = Nil => find + Dark(n) = count
            /\ \A x \in Below(Left(n)) : x \in Open =>
                  find + (b[x] - b[Parent(n)]) = count
    BY <1>1, <1>3, <1>5 DEF AsMany
<1>9. AsMany(b, Right(n), find + Dark(n), count)
        <=> /\ Right(n) = Nil => find + Dark(n) = count
            /\ \A x \in Below(Right(n)) : x \in Open =>
                  find + (b[x] - b[Parent(n)]) = count
    BY <1>1, <1>3, <1>5 DEF AsMany
<1> QED BY <1>4, <1>7, <1>8, <1>9

LEMMA WalkFound ==
    ASSUME TreeInv, NEW b, b[Nil] = 0,
           \A n \in InTree : b[n] = b[Parent(n)] + Dark(n),
           NEW n \in InTree, NEW count
    PROVE  node_black_walk(n, count) <=> AsMany(b, n, 0, count)
<1> USE TreeAssumption
<1>1. Members = InTree /\ Nil \notin InTree
    BY MembersHang DEF InTree
<1>2. \A m \in InTree : /\ Left(m) \in InTree \cup {Nil}
                        /\ Right(m) \in InTree \cup {Nil}
    BY Kin
<1>3. \A m \in InTree, find \in Nat : find + Dark(m) \in Nat
    BY DEF Dark
<1> DEFINE e == [m \in Members \cup {Nil} |->
                    [find \in Nat |-> AsMany(b, m, find, count)]]
<1>4. Walks(e, count)
  <2>1. \A m \in InTree \cup {Nil}, find \in Nat : e[m][find] = AsMany(b, m, find, count)
    BY <1>1
  <2>2. ASSUME NEW m \in InTree, NEW find \in Nat
        PROVE  AsMany(b, m, find, count) = (/\ e[Left(m)][find + Dark(m)]
                                           /\ e[Right(m)][find + Dark(m)])
    <3>1. /\ e[Left(m)][find + Dark(m)] = AsMany(b, Left(m), find + Dark(m), count)
          /\ e[Right(m)][find + Dark(m)] = AsMany(b, Right(m), find + Dark(m), count)
      BY <1>2, <1>3, <2>1
    <3>2. /\ AsMany(b, m, find, count) \in BOOLEAN
          /\ AsMany(b, Left(m), find + Dark(m), count) \in BOOLEAN
          /\ AsMany(b, Right(m), find + Dark(m), count) \in BOOLEAN
      BY DEF AsMany
    <3> QED BY <3>1, <3>2, AsManyStep
  <2>3. \A find \in Nat : AsMany(b, Nil, find, count) = (find = count)
    BY DEF AsMany
  <2> DEFINE V(m, find) ==
                IF m = Nil THEN find = count
                ELSE e[Left(m)][find + Dark(m)] /\ e[Right(m)][find + Dark(m)]
  <2>4. \A m \in Members \cup {Nil} : \A find \in Nat :
           AsMany(b, m, find, count) = V(m, find)
    BY <1>1, <2>2, <2>3
  <2>5. e = [m \in Members \cup {Nil} |-> [find \in Nat |-> V(m, find)]]
    BY <2>4
  <2> HIDE DEF e
  <2> QED BY <2>5 DEF Walks
<1> HIDE DEF e
<1> DEFINE w == CHOOSE f : Walks(f, count)
<1>5. Walks(w, count)
    BY <1>4
<1>6. node_black_walk(n, count) <=> w[n][0]
    BY WalkIs
<1> HIDE DEF w
<1>7. /\ \A find \in Nat : w[Nil][find] <=> find = count
      /\ \A m \in InTree, find \in Nat :
            w[m][find] <=> /\ w[Left(m)][find + Dark(m)]
                           /\ w[Right(m)][find + Dark(m)]
  <2> DEFINE V(m, find) ==
                IF m = Nil THEN find = count
                ELSE w[Left(m)][find + Dark(m)] /\ w[Right(m)][find + Dark(m)]
  <2>1. w = [m \in Members \cup {Nil} |-> [find \in Nat |-> V(m, find)]]
    BY <1>5 DEF Walks
  <2> HIDE DEF V
  <2>2. \A m \in InTree \cup {Nil} : w[m] = [find \in Nat |-> V(m, find)]
    BY <1>1, <2>1
  <2>3. \A m \in InTree \cup {Nil}, find \in Nat : w[m][find] = V(m, find)
    BY <2>2
  <2> QED BY <1>1, <2>3 DEF V
<1> DEFINE T == {m \in InTree : \A find \in Nat :
                                   w[m][find] <=> AsMany(b, m, find, count)}
<1>8. ASSUME NEW m \in InTree, Left(m) = Nil \/ Left(m) \in T,
             Right(m) = Nil \/ Right(m) \in T
      PROVE  m \in T
  <2>1. ASSUME NEW find \in Nat
        PROVE  w[m][find] <=> AsMany(b, m, find, count)
    <3>1. find + Dark(m) \in Nat
      BY <1>3
    <3>2. \A k \in Nat : AsMany(b, Nil, k, count) <=> k = count
      BY DEF AsMany
    <3>3. /\ w[Left(m)][find + Dark(m)] <=> AsMany(b, Left(m), find + Dark(m), count)
          /\ w[Right(m)][find + Dark(m)] <=> AsMany(b, Right(m), find + Dark(m), count)
      BY <1>7, <1>8, <3>1, <3>2
    <3> QED BY <1>7, <3>3, AsManyStep
  <2> QED BY <2>1
<1> HIDE DEF T
<1>9. InTree \subseteq T
    BY <1>8, FromBelow
<1>10. w[n][0] <=> AsMany(b, n, 0, count)
    BY <1>9 DEF T
<1> QED BY <1>6, <1>10


\* As many black nodes on every way down, when there are as many on every way
\* up: what is above a node has the same part in all of them.
LEMMA EvenIsAlike ==
    ASSUME TreeInv, NEW b, b[Nil] = 0,
           \A n \in InTree : b[n] = b[Parent(n)] + Dark(n),
           NEW k, \A x \in Open : b[x] = k
    PROVE  InTree \subseteq Alike
<1>1. Open \subseteq InTree
    BY MembersHang DEF Open
<1>2. \A n \in InTree : /\ b[n] \in Nat /\ b[Parent(n)] \in Nat
                        /\ b[n] = b[Parent(n)] + Dark(n) /\ Dark(n) \in Nat
    BY RiseType DEF Dark
<1> DEFINE T == {n \in InTree : path_black_count[n] = k - b[Parent(n)] /\ k \in Int}
<1>3. ASSUME NEW n \in InTree, Left(n) = Nil \/ Left(n) \in T
      PROVE  n \in T
  <2>1. /\ path_black_count[n] = path_black_count[Left(n)] + Dark(n)
        /\ path_black_count[Nil] = 0
    BY LeftFound
  <2>2. CASE Left(n) = Nil
    <3>1. n \in Open
      BY <2>2, MembersHang DEF Open
    <3>2. path_black_count[n] = 0 + Dark(n) /\ b[n] = k
      BY <2>1, <2>2, <3>1
    <3> QED BY <1>2, <3>2
  <2>3. CASE Left(n) # Nil
    <3>1. /\ path_black_count[Left(n)] = k - b[Parent(Left(n))] /\ k \in Int
          /\ Parent(Left(n)) = n
      BY <1>3, <2>3, Kin
    <3>2. path_black_count[n] = (k - b[n]) + Dark(n)
      BY <2>1, <3>1
    <3>3. path_black_count[n] = k - b[Parent(n)]
      BY <1>2, <3>1, <3>2
    <3> QED BY <3>1, <3>3
  <2> QED BY <2>2, <2>3
<1> HIDE DEF T
<1>4. InTree \subseteq T
    BY <1>3, FromBelow
<1>5. ASSUME NEW n \in InTree PROVE n \in Alike
  <2>1. path_black_count[n] = k - b[Parent(n)] /\ k \in Int
    BY <1>4 DEF T
  <2>2. AsMany(b, n, 0, path_black_count[n])
    <3>1. ASSUME NEW x \in Below(n), x \in Open
          PROVE  0 + (b[x] - b[Parent(n)]) = path_black_count[n]
      BY <1>2, <2>1, <3>1
    <3>2. n # Nil
      BY Kin
    <3> QED BY <3>1, <3>2 DEF AsMany
  <2>3. n \in Nodes
    BY Kin
  <2> QED BY <2>2, <2>3, WalkFound DEF Alike
<1> QED BY <1>5

\* A red node has no red child where no red node has a red parent.
LEMMA FairIsRule ==
    ASSUME TreeInv
    PROVE  InTree \subseteq Fair <=>
              \A n \in InTree : Color(n) = "RED" => node_color(Parent(n)) = "BLACK"
<1>1. \A n \in InTree : Color(n) \in {"RED", "BLACK"}
    BY DEF TreeInv, Shape, Tree, Color, InTree
<1>2. ASSUME InTree \subseteq Fair, NEW n \in InTree, Color(n) = "RED"
      PROVE  node_color(Parent(n)) = "BLACK"
  <2>1. CASE Parent(n) = Nil
    BY <2>1 DEF node_color
  <2>2. CASE Parent(n) # Nil
    <3>1. /\ Parent(n) \in InTree /\ n # Nil
          /\ n = Left(Parent(n)) \/ n = Right(Parent(n))
      BY <2>2, Kin
    <3>2. node_color(n) = "RED"
      BY <1>2, <3>1 DEF node_color
    <3>3. Color(Parent(n)) = "BLACK"
      BY <1>2, <3>1, <3>2 DEF Fair
    <3> QED BY <3>3 DEF node_color
  <2> QED BY <2>1, <2>2
<1>3. ASSUME \A n \in InTree : Color(n) = "RED" => node_color(Parent(n)) = "BLACK",
             NEW n \in InTree
      PROVE  n \in Fair
  <2>1. CASE Color(n) = "BLACK"
    BY <2>1 DEF Fair, InTree
  <2>2. CASE Color(n) = "RED"
    <3>1. n # Nil /\ n \in Nodes
      BY Kin
    <3>2. ASSUME NEW c, c = Left(n) \/ c = Right(n)
          PROVE  node_color(c) = "BLACK"
      <4>1. CASE c = Nil
        BY <4>1 DEF node_color
      <4>2. CASE c # Nil
        <5>1. c \in InTree /\ Parent(c) = n
          BY <3>2, <4>2, Kin
        <5>2. Color(c) # "RED"
          <6>1. node_color(n) = "RED"
            BY <2>2, <3>1 DEF node_color
          <6> QED BY <1>3, <5>1, <6>1
        <5> QED BY <1>1, <4>2, <5>1, <5>2 DEF node_color
      <4> QED BY <4>1, <4>2
    <3> QED BY <3>1, <3>2 DEF Fair
  <2> QED BY <1>1, <2>1, <2>2
<1> QED BY <1>2, <1>3

LEMMA InvVerify == TreeInv => VerifyIsExact
<1> SUFFICES ASSUME TreeInv PROVE rbtree_verify <=> Balanced
    BY DEF VerifyIsExact
<1> USE TreeAssumption
<1>1. /\ tree \in Tree /\ Linked(tree) /\ tree.root \in NodeOrNil
      /\ Members = InTree
    BY MembersHang, Fields DEF TreeInv, Shape
<1> DEFINE b == CHOOSE f : Rise(f)
<1>2. b = CHOOSE f : Rise(f)
    OBVIOUS
<1> HIDE DEF b
<1>3. /\ b[Nil] = 0
      /\ \A n \in InTree : b[n] = b[Parent(n)] + Dark(n)
    BY <1>2, RiseFound
<1>4. Balanced <=> /\ node_color(tree.root) = "BLACK"
                   /\ InTree \subseteq Fair
                   /\ Cardinality({b[x] : x \in Open}) <= 1
    BY <1>1, <1>2, BalancedByRise, FairIsRule
<1>5. CASE tree.root = Nil
  <2>1. InTree = {}
    <3>1. \A m \in Nodes : ~Belongs(tree, m)
      BY <1>1, <1>5, Empty
    <3> QED BY <3>1 DEF InTree
  <2>2. {b[x] : x \in Open} = {}
    BY <1>1, <2>1 DEF Open
  <2>3. Cardinality({b[x] : x \in Open}) = 0
    BY <2>2, FS_EmptySet
  <2>4. Balanced
    BY <1>4, <1>5, <2>1, <2>3 DEF node_color
  <2> QED BY <1>5, <2>4 DEF rbtree_verify
<1>6. CASE tree.root # Nil
  <2>1. rbtree_verify <=> /\ node_color(tree.root) = "BLACK"
                          /\ InTree \subseteq Fair
                          /\ InTree \subseteq Alike
    BY <1>6, RedNodes, VerifyNode DEF rbtree_verify, node_color
  <2>2. ASSUME InTree \subseteq Alike
        PROVE  Cardinality({b[x] : x \in Open}) <= 1
    <3> DEFINE c == path_black_count[tree.root]
    <3>1. /\ tree.root \in InTree /\ Below(tree.root) = InTree
          /\ Parent(tree.root) = Nil
      BY <1>1, <1>6, BelowRoot DEF Linked, Parent
    <3>2. AsMany(b, tree.root, 0, c)
      BY <1>3, <2>2, <3>1, WalkFound DEF Alike
    <3>3. ASSUME NEW x \in Open PROVE b[x] = c
      <4>1. x \in InTree /\ b[x] \in Nat
        BY <1>1, <1>3, RiseType DEF Open
      <4>2. 0 + (b[x] - b[Nil]) = c
        BY <1>6, <3>1, <3>2, <4>1 DEF AsMany
      <4> QED BY <1>3, <4>1, <4>2
    <3> HIDE DEF c
    <3>4. {b[x] : x \in Open} \subseteq {c}
      BY <3>3
    <3>5. IsFiniteSet({c}) /\ Cardinality({c}) = 1
      BY FS_Singleton
    <3>6. /\ Cardinality({b[x] : x \in Open}) <= Cardinality({c})
          /\ Cardinality({b[x] : x \in Open}) \in Nat
      BY <3>4, <3>5, FS_Subset, FS_CardinalityType
    <3> QED BY <3>5, <3>6
  <2>3. ASSUME Cardinality({b[x] : x \in Open}) <= 1
        PROVE  InTree \subseteq Alike
    <3> DEFINE V == {b[x] : x \in Open}
    <3>1. IsFiniteSet(V)
      <4>1. IsFiniteSet(Open)
        BY <1>1, FS_Subset DEF Open, InTree
      <4> DEFINE g == [x \in Open |-> b[x]]
      <4>2. g \in Surjection(Open, V)
        BY DEF Surjection
      <4> HIDE DEF g
      <4> QED BY <4>1, <4>2, FS_Surjection
    <3>2. ASSUME NEW x \in Open, NEW y \in Open PROVE b[x] = b[y]
      <4>1. b[x] \in V /\ b[y] \in V
        OBVIOUS
      <4> HIDE DEF V
      <4>2. Cardinality(V) \in Nat /\ Cardinality(V) <= 1
        BY <2>3, <3>1, FS_CardinalityType DEF V
      <4>3. Cardinality(V) # 0
        BY <3>1, <4>1, FS_EmptySet
      <4>4. Cardinality(V) = 1
        BY <4>2, <4>3
      <4>5. \E z : V = {z}
        BY <3>1, <4>4, FS_Singleton
      <4> QED BY <4>1, <4>5
    <3>3. \E k : \A x \in Open : b[x] = k
      BY <3>2
    <3> QED BY <1>3, <3>3, EvenIsAlike
  <2> QED BY <1>4, <2>1, <2>2, <2>3
<1> QED BY <1>5, <1>6

-----------------------------------------------------------------------------
(* The keys of the tree *)

\* The node that is about to be taken out.
Leaving == IF pc \in {"delete_one_child", "replace_child"} \cup DeleteCases
             THEN held ELSE Nil

\* The keys are in order, but for that of the node that leaves, which stands in
\* some place of its own; and it alone has the key that is deleted.
KeyInv ==
    /\ \E w : /\ Ordered(tree, w, Leaving)
              /\ \A n \in InTree : n # Leaving => w[n] = val[n]
    /\ pc \in Deleting => /\ val[held] = key
                          /\ \A n \in InTree : n # held => val[n] # key
    /\ pc = "rbtree_insert" => val[held] = key
    /\ pc = "find_subtree_min" => Following(tree, val, held, cur)

LEMMA OrderedAlike ==
    ASSUME NEW t, NEW w, NEW z, Ordered(t, w, z),
           NEW v, \A n \in Nodes : Belongs(t, n) => v[n] = w[n]
    PROVE  Ordered(t, v, z)
<1>1. PICK lo, hi : Sorted(t, w, z, lo, hi)
    BY DEF Ordered
<1>2. Sorted(t, v, z, lo, hi)
    BY <1>1 DEF Sorted, InPlace
<1> QED BY <1>2 DEF Ordered

LEMMA KeysOrdered ==
    ASSUME TreeInv, KeyInv, Leaving = Nil
    PROVE  Ordered(tree, val, Nil)
<1>1. PICK w : /\ Ordered(tree, w, Nil)
               /\ \A n \in InTree : n # Nil => w[n] = val[n]
    BY DEF KeyInv
<1>2. \A n \in Nodes : Belongs(tree, n) => val[n] = w[n]
    BY <1>1, TreeAssumption DEF InTree
<1> QED BY <1>1, <1>2, OrderedAlike

\* The keys of the nodes below n are within its bounds.
LEMMA Between ==
    ASSUME TreeInv, NEW lo, NEW hi, Sorted(tree, val, Nil, lo, hi)
    PROVE  \A n \in InTree : \A x \in Below(n) :
              /\ val[x] \in Int /\ lo[n] <= val[x] /\ val[x] < hi[n]
<1> DEFINE S == {n \in InTree : \A x \in Below(n) :
                    /\ val[x] \in Int /\ lo[n] <= val[x] /\ val[x] < hi[n]}
<1>1. ASSUME NEW n \in InTree, Left(n) = Nil \/ Left(n) \in S,
             Right(n) = Nil \/ Right(n) \in S
      PROVE  n \in S
  <2>1. /\ InPlace(tree, val, Nil, lo, hi, n) /\ n \in Nodes /\ Room(Nil, n) = 1
        /\ lo \in [Nodes -> Int] /\ hi \in [Nodes -> Int]
    BY TreeAssumption DEF Sorted, InTree, Room
  <2>2. /\ Below(Nil) = {}
        /\ Below(n) = {n} \cup Below(Left(n)) \cup Below(Right(n))
    BY BelowStep
  <2>3. val[n] \in Int /\ lo[n] \in Int /\ hi[n] \in Int
        /\ lo[n] <= val[n] /\ val[n] < hi[n]
    BY <2>1 DEF InPlace
  <2>4. ASSUME NEW x \in Below(Left(n))
        PROVE  val[x] \in Int /\ lo[n] <= val[x] /\ val[x] < hi[n]
    <3>1. Left(n) # Nil /\ Left(n) \in S
      BY <1>1, <2>2, <2>4
    <3>2. /\ val[x] \in Int /\ lo[Left(n)] <= val[x] /\ val[x] < hi[Left(n)]
          /\ Left(n) \in Nodes
      BY <2>4, <3>1 DEF InTree
    <3>3. lo[n] <= lo[Left(n)] /\ hi[Left(n)] <= val[n]
      BY <2>1, <3>1 DEF InPlace, Left
    <3>4. lo[Left(n)] \in Int /\ hi[Left(n)] \in Int
      BY <2>1, <3>2
    <3> QED BY <2>3, <3>2, <3>3, <3>4
  <2>5. ASSUME NEW x \in Below(Right(n))
        PROVE  val[x] \in Int /\ lo[n] <= val[x] /\ val[x] < hi[n]
    <3>1. Right(n) # Nil /\ Right(n) \in S
      BY <1>1, <2>2, <2>5
    <3>2. /\ val[x] \in Int /\ lo[Right(n)] <= val[x] /\ val[x] < hi[Right(n)]
          /\ Right(n) \in Nodes
      BY <2>5, <3>1 DEF InTree
    <3>3. val[n] + 1 <= lo[Right(n)] /\ hi[Right(n)] <= hi[n]
      BY <2>1, <3>1 DEF InPlace, Right
    <3>4. lo[Right(n)] \in Int /\ hi[Right(n)] \in Int
      BY <2>1, <3>2
    <3> QED BY <2>3, <3>2, <3>3, <3>4
  <2> QED BY <2>2, <2>3, <2>4, <2>5
<1> HIDE DEF S
<1>2. InTree \subseteq S
    BY <1>1, FromBelow
<1> QED BY <1>2 DEF S

\* A search for a key of the tree ends at its node.
LEMMA SearchFinds ==
    ASSUME TreeInv, Ordered(tree, val, Nil), NEW x \in InTree
    PROVE  tree.root # Nil /\ Reached(val[x]) = x
<1> USE TreeAssumption
<1> DEFINE k == val[x]
           f == CHOOSE g : Search(k, g)
<1>1. PICK lo, hi : Sorted(tree, val, Nil, lo, hi)
    BY DEF Ordered
<1>2. tree \in Tree /\ Linked(tree) /\ x \in Nodes /\ Belongs(tree, x)
    BY DEF TreeInv, Shape, InTree
<1>3. tree.root # Nil
    BY <1>2, Empty
<1>4. tree.root \in InTree /\ x \in Below(tree.root)
    BY <1>3, BelowRoot
<1>5. \A n \in Nodes : ~Ends(k, n) => Onward(k, n) \in Nodes
    BY <1>2, Fields DEF Ends, Onward, Left, Right, Links, NodeOrNil
<1>6. Search(k, f)
  <2>1. \E g : Search(k, g)
    BY <1>5, SearchExists
  <2> QED BY <2>1
<1>7. Reached(k) = f[tree.root]
    BY ReachedBySearch
<1> HIDE DEF f
<1>8. \A n \in Nodes : f[n] = IF Ends(k, n) THEN n ELSE f[Onward(k, n)]
    BY <1>6 DEF Search
<1> DEFINE S == {n \in InTree : x \in Below(n) => f[n] = x}
<1>9. ASSUME NEW n \in InTree, Left(n) = Nil \/ Left(n) \in S,
             Right(n) = Nil \/ Right(n) \in S
      PROVE  n \in S
  <2>1. SUFFICES ASSUME x \in Below(n) PROVE f[n] = x
    OBVIOUS
  <2>2. /\ Below(Nil) = {}
        /\ Below(n) = {n} \cup Below(Left(n)) \cup Below(Right(n))
        /\ \A m \in InTree : m \in Below(m)
    BY BelowStep
  <2>3. /\ InPlace(tree, val, Nil, lo, hi, n) /\ n \in Nodes /\ Room(Nil, n) = 1
        /\ lo \in [Nodes -> Int] /\ hi \in [Nodes -> Int]
        /\ val[n] \in Int
    BY <1>1 DEF Sorted, InTree, Room, InPlace
  <2>4. CASE x = n
    <3>1. Ends(k, n)
      BY <2>4 DEF Ends
    <3> QED BY <1>8, <2>3, <2>4, <3>1
  <2>5. CASE x \in Below(Left(n))
    <3>1. Left(n) # Nil /\ Left(n) \in S
      BY <1>9, <2>2, <2>5
    <3>2. /\ k \in Int /\ k < hi[Left(n)] /\ hi[Left(n)] <= val[n]
          /\ hi[Left(n)] \in Int
      <4>1. Left(n) \in InTree /\ Left(n) \in Nodes
        BY <3>1 DEF InTree
      <4>2. k \in Int /\ k < hi[Left(n)]
        BY <1>1, <2>5, <4>1, Between
      <4>3. hi[Left(n)] <= val[n]
        BY <2>3, <3>1 DEF InPlace, Left
      <4> QED BY <2>3, <4>1, <4>2, <4>3
    <3>3. k < val[n] /\ k # val[n]
      BY <2>3, <3>2
    <3>4. Onward(k, n) = Left(n) /\ ~Ends(k, n)
      BY <3>1, <3>3 DEF Onward, Ends
    <3> QED BY <1>8, <2>3, <2>5, <3>1, <3>4
  <2>6. CASE x \in Below(Right(n))
    <3>1. Right(n) # Nil /\ Right(n) \in S
      BY <1>9, <2>2, <2>6
    <3>2. /\ k \in Int /\ lo[Right(n)] <= k /\ val[n] + 1 <= lo[Right(n)]
          /\ lo[Right(n)] \in Int
      <4>1. Right(n) \in InTree /\ Right(n) \in Nodes
        BY <3>1 DEF InTree
      <4>2. k \in Int /\ lo[Right(n)] <= k
        BY <1>1, <2>6, <4>1, Between
      <4>3. val[n] + 1 <= lo[Right(n)]
        BY <2>3, <3>1 DEF InPlace, Right
      <4> QED BY <2>3, <4>1, <4>2, <4>3
    <3>3. ~(k < val[n]) /\ k # val[n]
      BY <2>3, <3>2
    <3>4. Onward(k, n) = Right(n) /\ ~Ends(k, n)
      BY <3>1, <3>3 DEF Onward, Ends
    <3> QED BY <1>8, <2>3, <2>6, <3>1, <3>4
  <2> QED BY <2>1, <2>2, <2>4, <2>5, <2>6
<1> HIDE DEF S
<1>10. InTree \subseteq S
    BY <1>9, FromBelow
<1>11. f[tree.root] = x
    BY <1>4, <1>10 DEF S
<1> QED BY <1>3, <1>7, <1>11

\* The nodes a search goes through lead to where it ends, each to the next.
LEMMA Trail ==
    ASSUME TreeInv, NEW k \in Keys, tree.root # Nil
    PROVE  /\ Reached(k) \in Ahead(k, tree.root)
           /\ \A m \in InTree, c \in Nodes :
                 c \in {Left(m), Right(m)} /\ c \in Ahead(k, tree.root) =>
                    m \in Ahead(k, tree.root) /\ ~Ends(k, m) /\ c = Onward(k, m)
<1> USE TreeAssumption
<1> DEFINE f == CHOOSE g : Search(k, g)
           W == Ahead(k, tree.root)
<1>1. tree \in Tree /\ Linked(tree) /\ tree.root \in InTree /\ Parent(tree.root) = Nil
    BY BelowRoot DEF TreeInv, Shape, Linked, Parent
<1>2. \A n \in Nodes : ~Ends(k, n) => Onward(k, n) \in Nodes
    BY <1>1, Fields DEF Ends, Onward, Left, Right, Links, NodeOrNil
<1>3. Search(k, f)
  <2>1. \E g : Search(k, g)
    BY <1>2, SearchExists
  <2> QED BY <2>1
<1>4. Reached(k) = f[tree.root]
    BY ReachedBySearch
<1> HIDE DEF f
<1>5. \A n \in Nodes : f[n] = IF Ends(k, n) THEN n ELSE f[Onward(k, n)]
    BY <1>3 DEF Search
<1>6. ASSUME NEW n \in InTree, ~Ends(k, n)
      PROVE  /\ Onward(k, n) \in InTree /\ Parent(Onward(k, n)) = n
             /\ Onward(k, n) \in {Left(n), Right(n)} /\ Onward(k, n) # Nil
  <2>1. Onward(k, n) \in {Left(n), Right(n)} /\ Onward(k, n) # Nil
    BY <1>6 DEF Onward, Ends
  <2> QED BY <2>1, Kin
<1>7. /\ tree.root \in W
      /\ \A n \in W : ~Ends(k, n) => Onward(k, n) \in W
      /\ \A S \in SUBSET Nodes :
            tree.root \in S /\ (\A n \in S : ~Ends(k, n) => Onward(k, n) \in S)
               => W \subseteq S
  <2>1. tree.root \in Nodes /\ tree.root \in W
    BY <1>1 DEF Ahead, InTree
  <2>2. ASSUME NEW n \in W, ~Ends(k, n) PROVE Onward(k, n) \in W
    <3>1. Onward(k, n) \in Nodes
      BY <1>2, <2>2 DEF Ahead
    <3>2. ASSUME NEW S \in SUBSET Nodes, tree.root \in S,
                 \A m \in S : ~Ends(k, m) => Onward(k, m) \in S
          PROVE  Onward(k, n) \in S
      <4>1. n \in S
        BY <3>2 DEF Ahead
      <4> QED BY <2>2, <3>2, <4>1
    <3> QED BY <3>1, <3>2 DEF Ahead
  <2>3. ASSUME NEW S \in SUBSET Nodes, tree.root \in S,
               \A n \in S : ~Ends(k, n) => Onward(k, n) \in S
        PROVE  W \subseteq S
    BY <2>3 DEF Ahead
  <2> QED BY <2>1, <2>2, <2>3
<1> HIDE DEF W
<1> DEFINE S == {n \in InTree : n \in W => f[n] \in W}
<1>8. ASSUME NEW n \in InTree, Left(n) = Nil \/ Left(n) \in S,
             Right(n) = Nil \/ Right(n) \in S
      PROVE  n \in S
  <2>1. SUFFICES ASSUME n \in W PROVE f[n] \in W
    OBVIOUS
  <2>2. n \in Nodes
    BY DEF InTree
  <2>3. CASE Ends(k, n)
    BY <1>5, <2>1, <2>2, <2>3
  <2>4. CASE ~Ends(k, n)
    <3>1. Onward(k, n) \in S /\ Onward(k, n) \in W
      BY <1>6, <1>7, <1>8, <2>1, <2>4
    <3> QED BY <1>5, <2>2, <2>4, <3>1
  <2> QED BY <2>3, <2>4
<1> HIDE DEF S
<1>9. InTree \subseteq S
    BY <1>8, FromBelow
<1>10. Reached(k) \in W
    BY <1>1, <1>4, <1>7, <1>9 DEF S
<1>11. ASSUME NEW m \in InTree, NEW c \in Nodes, c \in {Left(m), Right(m)},
              c \in W, ~(m \in W /\ ~Ends(k, m) /\ c = Onward(k, m))
       PROVE  FALSE
  <2> DEFINE V == (W \cap InTree) \ {c}
  <2>1. c \in InTree /\ Parent(c) = m /\ m # Nil
    BY <1>11, Kin
  <2>2. V \in SUBSET Nodes /\ tree.root \in V
    BY <1>1, <1>7, <2>1 DEF InTree
  <2>3. ASSUME NEW n \in V, ~Ends(k, n) PROVE Onward(k, n) \in V
    <3>1. Onward(k, n) \in W /\ Onward(k, n) \in InTree /\ Parent(Onward(k, n)) = n
      BY <1>6, <1>7, <2>3
    <3>2. Onward(k, n) = c => n = m
      BY <2>1, <3>1
    <3> QED BY <1>11, <2>3, <3>1, <3>2
  <2>4. W \subseteq V
    BY <1>7, <2>2, <2>3
  <2> QED BY <1>11, <2>4
<1> QED BY <1>10, <1>11 DEF W

LEMMA KeysInit == Init => KeyInv
<1> SUFFICES ASSUME Init PROVE KeyInv
    OBVIOUS
<1>1. \A n \in Nodes : ~Belongs(tree, n)
    BY TreeAssumption DEF Init, Belongs
<1> DEFINE z == [n \in Nodes |-> 0]
<1>2. Sorted(tree, val, Nil, z, z)
    BY <1>1 DEF Sorted
<1>3. Ordered(tree, val, Nil)
    BY <1>2 DEF Ordered
<1>4. pc = "idle" /\ Leaving = Nil
    BY DEF Init, Leaving, DeleteCases
<1> QED BY <1>3, <1>4 DEF KeyInv, Deleting, DeleteCases

\* Where no node leaves, the keys themselves are in order.
LEMMA ToOrder ==
    ASSUME Ordered(tree', val', Nil),
           pc' \notin Deleting \cup {"rbtree_insert"}
    PROVE  KeyInv'
<1>1. Leaving' = Nil
    BY DEF Leaving, Deleting, DeleteCases
<1>2. (\E w : /\ Ordered(tree, w, Leaving)
              /\ \A n \in InTree : n # Leaving => w[n] = val[n])'
    BY <1>1
<1> QED BY <1>2 DEF KeyInv, Deleting

LEMMA CallerOrders ==
    ASSUME TreeInv, KeyInv,
           \/ \E k \in Keys : CallInsert(k) \/ \E o \in {"find", "delete"} : CallSearch(o, k)
           \/ Return
    PROVE  KeyInv'
<1>1. tree' = tree /\ Leaving = Nil /\ pc \in {"idle", "return"}
    BY DEF CallInsert, CallSearch, Return, Leaving, DeleteCases
<1>2. Ordered(tree, val, Nil)
    BY <1>1, KeysOrdered
<1>3. val \in [Nodes -> Keys \cup {NoKey}]
    BY DEF TreeInv, Shape
<1>4. ASSUME NEW k \in Keys, CallInsert(k) PROVE KeyInv'
  <2>1. PICK n \in Nodes : /\ val[n] = NoKey
                           /\ val' = [val EXCEPT ![n] = k]
                           /\ held' = n
    BY <1>4 DEF CallInsert
  <2>2. \A m \in Nodes : Belongs(tree, m) => val'[m] = val[m]
    BY <1>3, <2>1 DEF TreeInv, Allocated
  <2>3. Ordered(tree', val', Nil)
    BY <1>1, <1>2, <2>2, OrderedAlike
  <2>4. pc' = "rbtree_insert" /\ val'[held'] = key'
    BY <1>3, <1>4, <2>1 DEF CallInsert, Goto
  <2>5. Leaving' = Nil
    BY <2>4 DEF Leaving, DeleteCases
  <2>6. (\E w : /\ Ordered(tree, w, Leaving)
                /\ \A n0 \in InTree : n0 # Leaving => w[n0] = val[n0])'
    BY <2>3, <2>5
  <2> QED BY <2>4, <2>6 DEF KeyInv, Deleting, DeleteCases
<1>5. ASSUME NEW k \in Keys, NEW o \in {"find", "delete"}, CallSearch(o, k)
      PROVE  KeyInv'
  <2>1. val' = val /\ pc' = "rbtree_find"
    BY <1>5 DEF CallSearch, Goto
  <2> QED BY <1>1, <1>2, <2>1, ToOrder DEF Deleting, DeleteCases
<1>6. CASE Return
  <2>1. pc' = "idle"
    BY <1>6 DEF Return, Goto
  <2>2. \A m \in Nodes : Belongs(tree, m) => val'[m] = val[m]
    <3>1. op \in Ops /\ found \in BOOLEAN
      BY DEF TreeInv, Shape
    <3>2. CASE found /\ op # "find"
      <4>1. ~Belongs(tree, held) /\ val' = [val EXCEPT ![held] = NoKey]
        BY <1>6, <3>1, <3>2 DEF TreeInv, Allocated, Holding, Return, Ops
      <4> QED BY <1>3, <4>1
    <3>3. CASE ~(found /\ op # "find")
      BY <1>6, <3>1, <3>3 DEF Return, Ops
    <3> QED BY <3>2, <3>3
  <2>3. Ordered(tree', val', Nil)
    BY <1>1, <1>2, <2>2, OrderedAlike
  <2> QED BY <2>1, <2>3, ToOrder DEF Deleting, DeleteCases
<1> QED BY <1>4, <1>5, <1>6

\* A node is inserted where the search for its key ends.
LEMMA InsertOrders ==
    ASSUME TreeInv, KeyInv, rbtree_insert \/ binary_node_insert, Growing
    PROVE  KeyInv'
<1> USE TreeAssumption
<1>1. /\ pc = "rbtree_insert" /\ val' = val /\ key \in Keys
      /\ held \in Nodes /\ ~Belongs(tree, held) /\ val[held] = key /\ key \in Int
      /\ tree \in Tree /\ Linked(tree)
    BY DEF rbtree_insert, binary_node_insert, call, TreeInv, Shape, Allocated,
           Holding, KeyInv
<1>2. /\ Leaving = Nil /\ pc' \in {"return", "insert_case1"}
    BY <1>1 DEF rbtree_insert, binary_node_insert, Goto, Leaving, DeleteCases
<1>3. Ordered(tree, val, Nil)
    BY <1>2, KeysOrdered
<1>4. Ordered(tree', val', Nil)
  <2>1. CASE rbtree_insert /\ Grew(tree, held, Nil, TRUE, tree')
    <3>1. tree.root = Nil
      BY <2>1 DEF rbtree_insert
    <3>2. \A m \in Nodes : ~Belongs(tree, m)
      BY <1>1, <3>1, Empty
    <3> QED BY <1>1, <1>3, <2>1, <3>2, GrowSorts
  <2>2. CASE tree' = tree
    BY <1>1, <1>3, <2>2
  <2>3. CASE /\ binary_node_insert /\ key # val[Reached(key)]
             /\ Grew(tree, held, Reached(key), key < val[Reached(key)], tree')
    <3> DEFINE p == Reached(key)
               W == Ahead(key, tree.root)
    <3>1. tree.root # Nil
      BY <2>3 DEF binary_node_insert
    <3>2. p \in Nodes /\ Belongs(tree, p) /\ val[p] \in Int /\ Ends(key, p)
      BY <1>1, <3>1, SearchEnds
    <3>3. /\ p \in W
          /\ \A m \in InTree, c \in Nodes : c \in {Left(m), Right(m)} /\ c \in W =>
                m \in W /\ ~Ends(key, m) /\ c = Onward(key, m)
      BY <1>1, <3>1, Trail
    <3> HIDE DEF p, W
    <3>4. ASSUME NEW m \in Nodes, Belongs(tree, m)
          PROVE  /\ tree.left[m] # Nil /\ tree.left[m] \in W => m \in W /\ key < val[m]
                 /\ tree.right[m] # Nil /\ tree.right[m] \in W => m \in W /\ val[m] < key
      <4>1. /\ m \in InTree /\ LinkedAt(tree, m) /\ val[m] \in Int
            /\ tree.left[m] # Nil => tree.left[m] \in Nodes
            /\ tree.right[m] # Nil => tree.right[m] \in Nodes
        BY <1>1, <3>4, Fields
           DEF InTree, Linked, Links, NodeOrNil, TreeInv, Shape, Allocated
      <4>2. ASSUME tree.left[m] # Nil, tree.left[m] \in W
            PROVE  m \in W /\ key < val[m]
        <5>1. m \in W /\ tree.left[m] = Onward(key, m)
          BY <3>3, <4>1, <4>2 DEF Left
        <5> QED BY <4>1, <4>2, <5>1 DEF Onward, LinkedAt, Right
      <4>3. ASSUME tree.right[m] # Nil, tree.right[m] \in W
            PROVE  m \in W /\ val[m] < key
        <5>1. m \in W /\ tree.right[m] = Onward(key, m) /\ ~Ends(key, m)
          BY <3>3, <4>1, <4>3 DEF Right
        <5>2. ~(key < val[m]) /\ val[m] # key
          BY <4>1, <4>3, <5>1 DEF Onward, LinkedAt, Left, Ends
        <5>3. key \in Int /\ val[m] \in Int
          BY <1>1, <4>1
        <5>4. val[m] < key
          BY ONLY <5>2, <5>3
        <5> QED BY <5>1, <5>4
      <4> QED BY <4>2, <4>3
    <3>5. /\ key < val[p] => tree.left[p] = Nil
          /\ ~(key < val[p]) => val[p] < key /\ tree.right[p] = Nil
      <4>1. key # val[p]
        BY <2>3 DEF p
      <4> QED BY <1>1, <3>2, <4>1 DEF Ends, Onward, Left, Right
    <3>6. Grew(tree, held, p, key < val[p], tree') /\ (key < val[p]) \in BOOLEAN
      BY <2>3 DEF p
    <3> QED BY <1>1, <1>3, <3>2, <3>3, <3>4, <3>5, <3>6, GrowSorts
  <2> QED BY <2>1, <2>2, <2>3 DEF Growing
<1> QED BY <1>2, <1>4, ToOrder DEF Deleting, DeleteCases

\* A step that changes links and colours alone keeps the order.
LEMMA RepairOrders ==
    ASSUME KeyInv, SameNodes(tree, tree'),
           UNCHANGED <<val, call>>,
           \/ pc \in InsertCases /\ pc' \in InsertCases \cup {"return"}
           \/ /\ pc \in {"delete_one_child"} \cup DeleteCases
              /\ pc' \in {"replace_child"} \cup DeleteCases
    PROVE  KeyInv'
<1>1. /\ Leaving' = Leaving /\ held' = held /\ key' = key
      /\ InTree' = InTree /\ SameOrder(tree, tree')
    BY DEF Leaving, call, InsertCases, DeleteCases, InTree, SameNodes
<1>2. PICK w : /\ Ordered(tree, w, Leaving)
               /\ \A n \in InTree : n # Leaving => w[n] = val[n]
    BY DEF KeyInv
<1>3. /\ Ordered(tree', w, Leaving')
      /\ \A n \in InTree' : n # Leaving' => w[n] = val'[n]
    BY <1>1, <1>2 DEF SameOrder
<1>4. (\E v : /\ Ordered(tree, v, Leaving)
              /\ \A n \in InTree : n # Leaving => v[n] = val[n])'
    BY <1>3
<1>5. pc' \in Deleting => /\ val'[held'] = key'
                          /\ \A n \in InTree' : n # held' => val'[n] # key'
    BY <1>1 DEF KeyInv, Deleting, DeleteCases, InsertCases
<1> QED BY <1>4, <1>5 DEF KeyInv, InsertCases, DeleteCases

\* The node a search has found is the only one with the key.
LEMMA SearchOrders ==
    ASSUME TreeInv, KeyInv, TakenForGranted, rbtree_find \/ binary_find
    PROVE  KeyInv'
<1>1. /\ tree' = tree /\ val' = val /\ key' = key /\ Leaving = Nil
      /\ pc = "rbtree_find"
    BY DEF rbtree_find, binary_find, call, Leaving, DeleteCases
<1>2. Ordered(tree, val, Nil)
    BY <1>1, KeysOrdered
<1>3. CASE rbtree_find
  <2>1. pc' = "return"
    BY <1>3 DEF rbtree_find, Goto
  <2> QED BY <1>1, <1>2, <2>1, ToOrder DEF Deleting, DeleteCases
<1>4. CASE binary_find
  <2>1. /\ pc' \in {"rbtree_delete", "return"}
        /\ held' = Reached(key) /\ key = val[Reached(key)]
    BY <1>4 DEF binary_find, Goto
  <2>2. Leaving' = Nil
    BY <2>1 DEF Leaving, DeleteCases
  <2>3. \A n \in InTree : val[n] = key => Reached(key) = n
    BY <1>2, SearchFinds
  <2>4. val'[held'] = key' /\ \A n \in InTree' : n # held' => val'[n] # key'
    BY <1>1, <2>1, <2>3 DEF InTree
  <2>5. (\E w : /\ Ordered(tree, w, Leaving)
                /\ \A n \in InTree : n # Leaving => w[n] = val[n])'
    BY <1>1, <1>2, <2>2
  <2> QED BY <2>1, <2>4, <2>5 DEF KeyInv
<1> QED BY <1>3, <1>4

\* The node that leaves has one child, or gives its place to the one after it.
LEMMA DescentOrders ==
    ASSUME TreeInv, KeyInv, rbtree_delete \/ find_subtree_min
    PROVE  KeyInv'
<1> USE TreeAssumption
<1>1. /\ tree' = tree /\ key' = key /\ Leaving = Nil
      /\ tree \in Tree /\ Linked(tree) /\ held \in Nodes /\ Belongs(tree, held)
      /\ cur \in Nodes /\ Belongs(tree, cur)
      /\ val \in [Nodes -> Keys \cup {NoKey}]
      /\ \A n \in InTree : val[n] \in Int
      /\ val[held] = key /\ \A n \in InTree : n # held => val[n] # key
    BY DEF rbtree_delete, find_subtree_min, call, Leaving, DeleteCases, Deleting,
           TreeInv, Shape, Given, Allocated, KeyInv, InTree
<1>2. Ordered(tree, val, Nil)
    BY <1>1, KeysOrdered
<1>3. InTree' = InTree
    BY <1>1 DEF InTree
<1>4. CASE rbtree_delete
  <2>1. val' = val /\ held' = held /\ cur = held
    BY <1>4 DEF rbtree_delete, call, TreeInv, Given
  <2>2. CASE Left(cur) # Nil /\ Right(cur) # Nil
    <3>1. pc' = "find_subtree_min" /\ cur' = tree.right[held]
      BY <1>4, <2>1, <2>2 DEF rbtree_delete, Goto, Right
    <3>2. Following(tree, val, held, tree.right[held])
      BY <1>1, <1>2, <2>1, <2>2, FollowingBegins DEF Right
    <3>3. Leaving' = Nil
      BY <3>1 DEF Leaving, DeleteCases
    <3>4. (\E w : /\ Ordered(tree, w, Leaving)
                  /\ \A n \in InTree : n # Leaving => w[n] = val[n])'
      BY <1>1, <1>2, <2>1, <3>3
    <3> QED BY <1>1, <1>3, <2>1, <3>1, <3>2, <3>4 DEF KeyInv
  <2>3. CASE ~(Left(cur) # Nil /\ Right(cur) # Nil)
    <3>1. pc' = "delete_one_child" /\ Leaving' = held
      BY <1>4, <2>1, <2>3 DEF rbtree_delete, Goto, Leaving
    <3>2. Ordered(tree, val, held)
      BY <1>1, <1>2, LeavingSorts
    <3>3. (\E w : /\ Ordered(tree, w, Leaving)
                  /\ \A n \in InTree : n # Leaving => w[n] = val[n])'
      BY <1>1, <2>1, <3>1, <3>2
    <3> QED BY <1>1, <1>3, <2>1, <3>1, <3>3 DEF KeyInv
  <2> QED BY <2>2, <2>3
<1>5. CASE find_subtree_min
  <2>0. Following(tree, val, held, cur)
    BY <1>5 DEF find_subtree_min, KeyInv
  <2>1. CASE Left(cur) # Nil
    <3>1. /\ pc' = "find_subtree_min" /\ cur' = tree.left[cur]
          /\ val' = val /\ held' = held
      BY <1>5, <2>1 DEF find_subtree_min, Goto, Left
    <3>2. Following(tree, val, held, tree.left[cur])
      BY <1>1, <2>0, <2>1, FollowingGoesOn DEF Left
    <3>3. Leaving' = Nil
      BY <3>1 DEF Leaving, DeleteCases
    <3>4. (\E w : /\ Ordered(tree, w, Leaving)
                  /\ \A n \in InTree : n # Leaving => w[n] = val[n])'
      BY <1>1, <1>2, <3>1, <3>3
    <3> QED BY <1>1, <1>3, <3>1, <3>2, <3>4 DEF KeyInv
  <2>2. CASE Left(cur) = Nil
    <3>1. /\ val' = [val EXCEPT ![held] = val[cur], ![cur] = val[held]]
          /\ held' = cur /\ pc' = "delete_one_child"
      BY <1>5, <2>2 DEF find_subtree_min, Goto
    <3>2. cur # held /\ cur \in InTree /\ held \in InTree
      BY <1>1, <2>0 DEF Following, Leftward, InTree
    <3>3. /\ val'[held] = val[cur] /\ val'[cur] = key
          /\ \A n \in Nodes : n # held /\ n # cur => val'[n] = val[n]
      BY <1>1, <3>1, <3>2
    <3> DEFINE v == [n \in Nodes |-> IF n = cur THEN val[cur] + 1 ELSE val'[n]]
    <3>4. /\ v[held] = val[cur] /\ v[cur] = val[cur] + 1
          /\ \A n \in Nodes : n # held /\ n # cur => v[n] = val[n]
          /\ \A n \in Nodes : n # cur => v[n] = val'[n]
      BY <1>1, <3>2, <3>3
    <3> HIDE DEF v
    <3>5. Ordered(tree, v, cur)
      BY <1>1, <2>0, <2>2, <3>4, SwapSorts DEF Left
    <3>6. Leaving' = cur
      BY <3>1 DEF Leaving
    <3>7. \A n \in InTree' : n # Leaving' => v[n] = val'[n]
      BY <1>3, <3>4, <3>6 DEF InTree
    <3>8. (\E w : /\ Ordered(tree, w, Leaving)
                  /\ \A n \in InTree : n # Leaving => w[n] = val[n])'
      BY <1>1, <3>5, <3>6, <3>7
    <3>9. val'[held'] = key' /\ \A n \in InTree' : n # held' => val'[n] # key'
      BY <1>1, <1>3, <3>1, <3>2, <3>3 DEF InTree
    <3> QED BY <3>1, <3>8, <3>9 DEF KeyInv
  <2> QED BY <2>1, <2>2
<1> QED BY <1>4, <1>5

LEMMA ReplaceChildOrders ==
    ASSUME TreeInv, KeyInv, replace_child, Cut(tree, cur, OnlyChild(cur), tree')
    PROVE  KeyInv'
<1>1. /\ pc = "replace_child" /\ pc' = "return" /\ val' = val
      /\ cur = held /\ held \in Nodes /\ Belongs(tree, held)
      /\ tree \in Tree /\ Linked(tree)
    BY DEF replace_child, Goto, TreeInv, Shape, Given, Deleting
<1>2. Leaving = held
    BY <1>1 DEF Leaving
<1>3. PICK w : /\ Ordered(tree, w, held)
               /\ \A n \in InTree : n # held => w[n] = val[n]
    BY <1>2 DEF KeyInv
<1>4. Ordered(tree', w, Nil)
    BY <1>1, <1>3, CutSorts DEF OnlyChild, Left, Right
<1>5. \A n \in Nodes : Belongs(tree', n) => val[n] = w[n]
    BY <1>1, <1>3 DEF Cut, InTree
<1>6. Ordered(tree', val', Nil)
    BY <1>1, <1>4, <1>5, OrderedAlike
<1> QED BY <1>1, <1>6, ToOrder DEF Deleting, DeleteCases

LEMMA KeysNext == Inv /\ KeyInv /\ [Next]_vars => KeyInv'
<1> SUFFICES ASSUME TreeInv, RuleInv, KeyInv, [Next]_vars PROVE KeyInv'
    BY DEF Inv
<1> USE Granted
<1>1. CASE \/ \E k \in Keys : \/ CallInsert(k)
                              \/ \E o \in {"find", "delete"} : CallSearch(o, k)
           \/ Return
    BY <1>1, CallerOrders
<1>2. CASE rbtree_find \/ binary_find
    BY <1>2, SearchOrders
<1>3. CASE rbtree_insert \/ binary_node_insert
    BY <1>3, InsertKeeps, InsertOrders
<1>4. CASE \/ insert_case1 \/ insert_case2 \/ insert_case3
           \/ insert_case4 \/ insert_case5
  <2>1. SameNodes(tree, tree')
    BY <1>4, InsertCasesKeep
  <2>2. /\ UNCHANGED <<val, call>>
        /\ pc \in InsertCases /\ pc' \in InsertCases \cup {"return"}
    BY <1>4 DEF insert_case1, insert_case2, insert_case3, insert_case4,
       insert_case5, Goto, InsertCases
  <2> QED BY <2>1, <2>2, RepairOrders
<1>5. CASE rbtree_delete \/ find_subtree_min
    BY <1>5, DescentOrders
<1>6. CASE \/ delete_one_child \/ delete_case1 \/ delete_case2 \/ delete_case3
           \/ delete_case4 \/ delete_case5 \/ delete_case6
  <2>1. SameNodes(tree, tree')
    BY <1>6, DeleteCasesKeep
  <2>2. /\ UNCHANGED <<val, call>>
        /\ pc \in {"delete_one_child"} \cup DeleteCases
        /\ pc' \in {"replace_child"} \cup DeleteCases
    BY <1>6 DEF delete_one_child, delete_case1, delete_case2, delete_case3,
       delete_case4, delete_case5, delete_case6, Goto, DeleteCases
  <2> QED BY <2>1, <2>2, RepairOrders
<1>7. CASE replace_child
    BY <1>7, ReplaceChildKeeps, ReplaceChildOrders
<1>8. CASE UNCHANGED vars
    BY <1>8 DEF vars, KeyInv, Leaving, InTree
<1> QED BY <1>1, <1>2, <1>3, <1>4, <1>5, <1>6, <1>7, <1>8 DEF Next

-----------------------------------------------------------------------------
(* The dictionary *)

Stored == {val[n] : n \in InTree}

\* What the dictionary sees of the result.
Result == Phase # "called" /\ found

LEMMA PhaseIs ==
    ASSUME TreeInv
    PROVE  /\ pc = "idle" => Phase = "idle"
           /\ pc \in InsertCases \cup {"return"} => Phase = "done"
           /\ pc \in {"rbtree_insert", "rbtree_find"} \cup Deleting => Phase = "called"
<1>1. pc = "idle" => Phase = "idle"
    BY DEF Phase, InsertCases
<1>2. pc \in InsertCases \cup {"return"} => Phase = "done"
    BY DEF Phase, InsertCases
<1>3. pc \in {"rbtree_insert", "rbtree_find"} \cup Deleting => Phase = "called"
    BY DEF Phase, InsertCases, Deleting, DeleteCases
<1> QED BY <1>1, <1>2, <1>3

LEMMA NextPhase ==
           /\ pc' = "idle" => Phase' = "idle"
           /\ pc' \in InsertCases \cup {"return"} => Phase' = "done"
           /\ pc' \in {"rbtree_insert", "rbtree_find"} \cup Deleting => Phase' = "called"
<1>1. pc' = "idle" => Phase' = "idle"
    BY DEF Phase, InsertCases
<1>2. pc' \in InsertCases \cup {"return"} => Phase' = "done"
    BY DEF Phase, InsertCases
<1>3. pc' \in {"rbtree_insert", "rbtree_find"} \cup Deleting => Phase' = "called"
    BY DEF Phase, InsertCases, Deleting, DeleteCases
<1> QED BY <1>1, <1>2, <1>3

\* A step of the tree is one of the dictionary's, or none.
DictStep ==
    \/ /\ Phase = "idle" /\ Phase' = "called"
       /\ op' \in Ops /\ key' \in Keys /\ ~Result' /\ Stored' = Stored
    \/ /\ Phase = "called" /\ Phase' = "done"
       /\ Result' = (key \in Stored)
       /\ Stored' = CASE op = "insert" -> Stored \cup {key}
                      [] op = "delete" -> Stored \ {key}
                      [] OTHER         -> Stored
       /\ UNCHANGED <<op, key>>
    \/ /\ Phase = "done" /\ Phase' = "idle"
       /\ UNCHANGED <<Stored, op, key, Result>>
    \/ UNCHANGED <<Stored, Phase, op, key, Result>>

\* A search that does not find its key shows that it is not there.
LEMMA NotFound ==
    ASSUME TreeInv, Ordered(tree, val, Nil), NEW k \in Keys,
           tree.root # Nil => k # val[Reached(k)]
    PROVE  k \notin Stored
<1>1. SUFFICES ASSUME NEW x \in InTree, k = val[x] PROVE FALSE
    BY DEF Stored
<1> QED BY <1>1, SearchFinds

LEMMA CallerSteps ==
    ASSUME TreeInv,
           \/ \E k \in Keys : CallInsert(k) \/ \E o \in {"find", "delete"} : CallSearch(o, k)
           \/ Return
    PROVE  DictStep
<1>1. tree' = tree /\ InTree' = InTree /\ val \in [Nodes -> Keys \cup {NoKey}]
    BY DEF CallInsert, CallSearch, Return, InTree, TreeInv, Shape
<1>2. ASSUME NEW k \in Keys, CallInsert(k) \/ \E o \in {"find", "delete"} : CallSearch(o, k)
      PROVE  DictStep
  <2>1. pc = "idle" /\ pc' \in {"rbtree_insert", "rbtree_find"}
    BY <1>2 DEF CallInsert, CallSearch, Goto
  <2>2. Phase = "idle" /\ Phase' = "called"
    BY <2>1, PhaseIs, NextPhase
  <2>3. op' \in Ops /\ key' \in Keys
    BY <1>2 DEF CallInsert, CallSearch, Ops
  <2>4. \A n \in InTree : val'[n] = val[n]
    BY <1>1, <1>2 DEF CallInsert, CallSearch, InTree, TreeInv, Allocated
  <2>5. Stored' = Stored
    BY <1>1, <2>4 DEF Stored
  <2> QED BY <2>2, <2>3, <2>5 DEF DictStep, Result
<1>3. CASE Return
  <2>1. pc = "return" /\ pc' = "idle" /\ op' = op /\ key' = key /\ found' = found
    BY <1>3 DEF Return, Goto
  <2>2. Phase = "done" /\ Phase' = "idle"
    BY <2>1, PhaseIs, NextPhase
  <2>3. \A n \in InTree : val'[n] = val[n]
    <3>1. op \in Ops /\ found \in BOOLEAN
      BY DEF TreeInv, Shape
    <3>2. CASE found /\ op # "find"
      <4>1. ~Belongs(tree, held) /\ val' = [val EXCEPT ![held] = NoKey]
        BY <1>3, <3>1, <3>2 DEF TreeInv, Allocated, Holding, Return, Ops
      <4> QED BY <1>1, <4>1 DEF InTree
    <3>3. CASE ~(found /\ op # "find")
      BY <1>3, <3>1, <3>3 DEF Return, Ops
    <3> QED BY <3>2, <3>3
  <2>4. Stored' = Stored
    BY <1>1, <2>3 DEF Stored
  <2>5. Result' = Result
    BY <2>1, <2>2 DEF Result
  <2> QED BY <2>1, <2>2, <2>4, <2>5 DEF DictStep
<1> QED BY <1>2, <1>3

LEMMA InsertTakesEffect ==
    ASSUME TreeInv, KeyInv, TakenForGranted, rbtree_insert \/ binary_node_insert,
           Growing
    PROVE  DictStep
<1> USE TreeAssumption
<1>1. /\ pc = "rbtree_insert" /\ val' = val /\ key \in Keys
      /\ held \in Nodes /\ val[held] = key /\ op = "insert" /\ found = FALSE
      /\ op' = op /\ key' = key
      /\ tree \in Tree /\ Linked(tree)
    BY DEF rbtree_insert, binary_node_insert, call, TreeInv, Shape, Allocated,
           Holding, KeyInv, Given
<1>2. Leaving = Nil /\ pc' \in InsertCases \cup {"return"}
    BY <1>1 DEF rbtree_insert, binary_node_insert, Goto, Leaving, DeleteCases,
       InsertCases
<1>3. Ordered(tree, val, Nil)
    BY <1>2, KeysOrdered
<1>4. Phase = "called" /\ Phase' = "done"
    BY <1>1, <1>2, PhaseIs, NextPhase
<1>5. Result' = found'
    BY <1>1, <1>4 DEF Result, rbtree_insert, binary_node_insert, call
<1>6. found' = (key \in Stored) /\ Stored' = Stored \cup {key}
  <2>1. CASE rbtree_insert /\ Grew(tree, held, Nil, TRUE, tree')
    <3>1. tree.root = Nil /\ found' = FALSE
      BY <1>1, <2>1 DEF rbtree_insert, call
    <3>2. InTree' = InTree \cup {held}
      BY <1>1, <2>1 DEF Grew, InTree
    <3>3. key \notin Stored
      <4>1. key \in Keys
        BY <1>1
      <4> QED BY <1>3, <3>1, <4>1, NotFound
    <3>4. Stored' = Stored \cup {key}
      BY <1>1, <3>2 DEF Stored
    <3>5. (key \in Stored) = FALSE
      BY ONLY <3>3
    <3> QED BY ONLY <3>1, <3>4, <3>5
  <2>2. CASE binary_node_insert /\ key = val[Reached(key)] /\ tree' = tree
    <3>1. found' = TRUE
      BY <2>2 DEF binary_node_insert
    <3>2. Reached(key) \in InTree
      <4>1. tree.root # Nil
        BY <2>2 DEF binary_node_insert
      <4> QED BY <1>1, <4>1, SearchEnds DEF InTree
    <3>3. key \in Stored
      BY <2>2, <3>2 DEF Stored
    <3>4. Stored' = Stored
      BY <1>1, <2>2 DEF Stored, InTree
    <3> QED BY <3>1, <3>3, <3>4
  <2>3. CASE /\ binary_node_insert /\ key # val[Reached(key)]
             /\ Grew(tree, held, Reached(key), key < val[Reached(key)], tree')
    <3>1. found' = FALSE
      BY <1>1, <2>3 DEF binary_node_insert
    <3>2. InTree' = InTree \cup {held}
      BY <1>1, <2>3 DEF Grew, InTree
    <3>3. key \notin Stored
      <4>1. key \in Keys
        BY <1>1
      <4> QED BY <1>3, <2>3, <4>1, NotFound
    <3>4. Stored' = Stored \cup {key}
      BY <1>1, <3>2 DEF Stored
    <3>5. (key \in Stored) = FALSE
      BY ONLY <3>3
    <3> QED BY ONLY <3>1, <3>4, <3>5
  <2> QED BY <2>1, <2>2, <2>3 DEF Growing
<1> QED BY <1>1, <1>4, <1>5, <1>6 DEF DictStep

LEMMA SearchTakesEffect ==
    ASSUME TreeInv, KeyInv, rbtree_find \/ binary_find
    PROVE  DictStep
<1>1. /\ pc = "rbtree_find" /\ tree' = tree /\ val' = val /\ key' = key /\ op' = op
      /\ key \in Keys /\ op \in {"find", "delete"} /\ found = FALSE
      /\ Leaving = Nil
    BY DEF rbtree_find, binary_find, call, Leaving, DeleteCases, TreeInv, Shape,
       Given, Ops
<1>2. Ordered(tree, val, Nil)
    BY <1>1, KeysOrdered
<1>3. Phase = "called" /\ Stored' = Stored
    BY <1>1, PhaseIs DEF Stored, InTree
<1>4. CASE rbtree_find
  <2>1. pc' = "return" /\ found' = FALSE
    BY <1>1, <1>4 DEF rbtree_find, Goto, call
  <2>2. Phase' = "done" /\ ~Result'
    BY <2>1, NextPhase DEF Result
  <2>3. key \notin Stored
    BY <1>1, <1>2, <1>4, NotFound DEF rbtree_find
  <2> QED BY <1>1, <1>3, <2>2, <2>3 DEF DictStep, Result
<1>5. CASE binary_find
  <2>1. tree.root # Nil /\ key = val[Reached(key)] /\ found' = TRUE
    BY <1>5 DEF binary_find
  <2>2. key \in Stored
    BY <1>1, <2>1, SearchEnds DEF Stored, InTree
  <2>3. CASE op = "delete"
    <3>1. pc' = "rbtree_delete"
      BY <1>5, <2>3 DEF binary_find, Goto
    <3>2. Phase' = "called"
      BY <3>1, NextPhase DEF Deleting
    <3> QED BY <1>1, <1>3, <3>2 DEF DictStep, Result
  <2>4. CASE op = "find"
    <3>1. pc' = "return"
      BY <1>5, <2>4 DEF binary_find, Goto
    <3>2. Phase' = "done"
      BY <3>1, NextPhase
    <3> QED BY <1>1, <1>3, <2>1, <2>2, <2>4, <3>2 DEF DictStep, Result
  <2> QED BY <1>1, <2>3, <2>4
<1> QED BY <1>4, <1>5

\* The cases of an insertion, after it takes effect, and those of a deletion,
\* before it does, are none of the dictionary's steps.
LEMMA RepairsAreNone ==
    ASSUME TreeInv, SameNodes(tree, tree'), UNCHANGED <<val, op, key, found>>,
           \/ pc \in InsertCases /\ pc' \in InsertCases \cup {"return"}
           \/ pc \in Deleting /\ pc' \in Deleting
    PROVE  DictStep
<1>1. InTree' = InTree
    BY DEF SameNodes, InTree
<1>2. Phase' = Phase
    BY PhaseIs, NextPhase
<1> QED BY <1>1, <1>2 DEF DictStep, Stored, Result

LEMMA DescentIsNone ==
    ASSUME TreeInv, KeyInv, rbtree_delete \/ find_subtree_min
    PROVE  DictStep
<1>1. /\ tree' = tree /\ InTree' = InTree /\ op' = op /\ key' = key /\ found' = found
      /\ pc \in Deleting /\ pc' \in Deleting
      /\ val \in [Nodes -> Keys \cup {NoKey}]
    BY DEF rbtree_delete, find_subtree_min, call, Goto, Deleting, InTree,
       TreeInv, Shape
<1>2. Phase' = "called" /\ Phase = "called"
    BY <1>1, PhaseIs, NextPhase
<1>3. Stored' = Stored
  <2>1. CASE val' = val
    BY <1>1, <2>1 DEF Stored
  <2>2. CASE val' = [val EXCEPT ![held] = val[cur], ![cur] = val[held]]
    <3>1. held \in InTree /\ cur \in InTree
      BY <1>1 DEF TreeInv, Given, InTree
    <3>2. /\ val'[held] = val[cur] /\ val'[cur] = val[held]
          /\ \A n \in InTree : n # held /\ n # cur => val'[n] = val[n]
      BY <1>1, <2>2, <3>1 DEF InTree
    <3>3. ASSUME NEW x \in Stored PROVE x \in Stored'
      <4>1. PICK n \in InTree : x = val[n]
        BY DEF Stored
      <4> QED BY <1>1, <3>1, <3>2, <4>1 DEF Stored
    <3>4. ASSUME NEW x \in Stored' PROVE x \in Stored
      <4>1. PICK n \in InTree : x = val'[n]
        BY <1>1 DEF Stored
      <4> QED BY <3>1, <3>2, <4>1 DEF Stored
    <3> QED BY <3>3, <3>4
  <2> QED BY <2>1, <2>2 DEF rbtree_delete, find_subtree_min
<1> QED BY <1>1, <1>2, <1>3 DEF DictStep, Result

LEMMA DeleteTakesEffect ==
    ASSUME TreeInv, KeyInv, replace_child, Cut(tree, cur, OnlyChild(cur), tree')
    PROVE  DictStep
<1>1. /\ pc = "replace_child" /\ pc' = "return" /\ val' = val /\ cur = held
      /\ op = "delete" /\ found = TRUE /\ op' = op /\ key' = key /\ found' = found
      /\ held \in InTree /\ val[held] = key
      /\ \A n \in InTree : n # held => val[n] # key
    BY DEF replace_child, Goto, call, TreeInv, Shape, Given, Deleting, KeyInv, InTree
<1>2. Phase = "called" /\ Phase' = "done" /\ Result' = TRUE
    BY <1>1, PhaseIs, NextPhase DEF Deleting, Result
<1>3. InTree' = InTree \ {held}
    BY <1>1 DEF Cut, InTree
<1>4. key \in Stored /\ Stored' = Stored \ {key}
    BY <1>1, <1>3 DEF Stored
<1> QED BY <1>1, <1>2, <1>4 DEF DictStep

LEMMA DictNext == Inv /\ KeyInv /\ [Next]_vars => DictStep
<1> SUFFICES ASSUME TreeInv, RuleInv, KeyInv, [Next]_vars PROVE DictStep
    BY DEF Inv
<1> USE Granted
<1>1. CASE \/ \E k \in Keys : \/ CallInsert(k)
                              \/ \E o \in {"find", "delete"} : CallSearch(o, k)
           \/ Return
    BY <1>1, CallerSteps
<1>2. CASE rbtree_find \/ binary_find
    BY <1>2, SearchTakesEffect
<1>3. CASE rbtree_insert \/ binary_node_insert
    BY <1>3, InsertKeeps, InsertTakesEffect
<1>4. CASE \/ insert_case1 \/ insert_case2 \/ insert_case3
           \/ insert_case4 \/ insert_case5
  <2>1. SameNodes(tree, tree')
    BY <1>4, InsertCasesKeep
  <2>2. /\ UNCHANGED <<val, op, key, found>>
        /\ pc \in InsertCases /\ pc' \in InsertCases \cup {"return"}
    BY <1>4 DEF insert_case1, insert_case2, insert_case3, insert_case4,
       insert_case5, Goto, InsertCases, call
  <2> QED BY <2>1, <2>2, RepairsAreNone
<1>5. CASE rbtree_delete \/ find_subtree_min
    BY <1>5, DescentIsNone
<1>6. CASE \/ delete_one_child \/ delete_case1 \/ delete_case2 \/ delete_case3
           \/ delete_case4 \/ delete_case5 \/ delete_case6
  <2>1. SameNodes(tree, tree')
    BY <1>6, DeleteCasesKeep
  <2>2. /\ UNCHANGED <<val, op, key, found>>
        /\ pc \in Deleting /\ pc' \in Deleting
    BY <1>6 DEF delete_one_child, delete_case1, delete_case2, delete_case3,
       delete_case4, delete_case5, delete_case6, Goto, DeleteCases, Deleting, call
  <2> QED BY <2>1, <2>2, RepairsAreNone
<1>7. CASE replace_child
    BY <1>7, ReplaceChildKeeps, DeleteTakesEffect
<1>8. CASE UNCHANGED vars
  <2>1. UNCHANGED <<tree, val, pc, op, key, found>>
    BY <1>8 DEF vars
  <2> QED BY <2>1 DEF DictStep, Stored, InTree, Phase, Result
<1> QED BY <1>1, <1>2, <1>3, <1>4, <1>5, <1>6, <1>7, <1>8 DEF Next

LEMMA DictInit == Init => Dict!DInit
<1> SUFFICES ASSUME Init PROVE Dict!DInit
    OBVIOUS
<1>1. Members = {}
    BY DEF Init, Members
<1>2. {val[n] : n \in Members} = {}
    BY <1>1
<1>3. Phase = "idle"
    BY DEF Init, Phase, InsertCases
<1>4. op \in Ops /\ key \in Keys /\ found = FALSE
    BY DEF Init, Ops
<1>5. (Phase # "called" /\ found) = FALSE
    BY ONLY <1>4
<1> QED BY <1>2, <1>3, <1>4, <1>5 DEF Dict!DInit

LEMMA DictMapped ==
    TreeInv /\ TreeInv' /\ DictStep => [Dict!DNext]_(Dict!vars)
<1> SUFFICES ASSUME TreeInv, TreeInv', DictStep PROVE [Dict!DNext]_(Dict!vars)
    OBVIOUS
<1>1. {val[n] : n \in Members} = Stored
    BY MembersHang DEF Stored
<1>2. Members' = InTree'
    BY DEF TreeInv, Allocated, Members, InTree, Belongs, IsChild, Left, Right,
       Parent
<1>3. {val[n] : n \in Members}' = Stored'
    BY <1>2 DEF Stored
<1>4. CASE /\ Phase = "idle" /\ Phase' = "called"
           /\ op' \in Ops /\ key' \in Keys /\ ~Result' /\ Stored' = Stored
  <2>1. (Phase # "called" /\ found)' = FALSE
    BY ONLY <1>4 DEF Result
  <2>2. Dict!Call
    BY ONLY <1>1, <1>3, <1>4, <2>1 DEF Dict!Call
  <2> QED BY ONLY <2>2 DEF Dict!DNext
<1>5. CASE /\ Phase = "called" /\ Phase' = "done"
           /\ Result' = (key \in Stored)
           /\ Stored' = CASE op = "insert" -> Stored \cup {key}
                          [] op = "delete" -> Stored \ {key}
                          [] OTHER         -> Stored
           /\ UNCHANGED <<op, key>>
  <2>1. (Phase # "called" /\ found)' = (key \in {val[n] : n \in Members})
    BY ONLY <1>1, <1>5 DEF Result
  <2>2. {val[n] : n \in Members}' =
            CASE op = "insert" -> {val[n] : n \in Members} \cup {key}
              [] op = "delete" -> {val[n] : n \in Members} \ {key}
              [] OTHER         -> {val[n] : n \in Members}
    BY ONLY <1>1, <1>3, <1>5
  <2>3. Dict!TakeEffect
    BY ONLY <1>5, <2>1, <2>2 DEF Dict!TakeEffect
  <2> QED BY ONLY <2>3 DEF Dict!DNext
<1>6. CASE /\ Phase = "done" /\ Phase' = "idle"
           /\ UNCHANGED <<Stored, op, key, Result>>
  <2>1. (Phase # "called" /\ found)' = (Phase # "called" /\ found)
    BY ONLY <1>6 DEF Result
  <2>2. Dict!Return
    BY ONLY <1>1, <1>3, <1>6, <2>1 DEF Dict!Return
  <2> QED BY ONLY <2>2 DEF Dict!DNext
<1>7. CASE UNCHANGED <<Stored, Phase, op, key, Result>>
  <2>1. (Phase # "called" /\ found)' = (Phase # "called" /\ found)
    BY ONLY <1>7 DEF Result
  <2> QED BY ONLY <1>1, <1>3, <1>7, <2>1 DEF Dict!vars
<1> QED BY <1>4, <1>5, <1>6, <1>7 DEF DictStep


LEMMA InvHolds == Spec => []Inv
<1>1. Init => Inv
    BY InvInit, RulesInit DEF Inv
<1>2. Inv /\ [Next]_vars => Inv'
    BY InvNext
<1> QED BY <1>1, <1>2, PTL DEF Spec

\* In a tree of any size, whatever calls are made, no function of src/rbtree.c
\* meets NULL where it does not test for it: searches end in the tree, a red
\* node has the grandparent and a short one the sibling and the nephew its
\* case reads, and the node that is taken out has one child at most.
THEOREM GrantedHolds == Spec => []TakenForGranted
<1>1. Inv => TakenForGranted
    BY Granted DEF Inv
<1> QED BY <1>1, InvHolds, PTL

\* Through every insertion, rotation, exchange and removal, the parent and
\* child links agree.
THEOREM LinksKept == Spec => []LinksAgree
<1>1. Inv => LinksAgree
    BY InvLinks DEF Inv
<1> QED BY <1>1, InvHolds, PTL

\* No rotation, exchange or removal leaves a subtree behind: the members,
\* whom their own links keep in the tree, are the nodes a walk down from the
\* root meets, at every step of a call as between calls.
THEOREM NodesAreReached == Spec => []NoneLost
<1>1. Inv => NoneLost
    BY InvNoneLost DEF Inv
<1> QED BY <1>1, InvHolds, PTL

\* Between calls the tree is a red-black tree by the textbook's definition:
\* the root is black, no red node has a red parent, and every way up from a
\* node that misses a child passes as many black nodes, which is what
\* keeps a search short.
THEOREM TreeStaysBalanced == Spec => []BalancedAtRest
<1>1. Inv => BalancedAtRest
    BY InvBalanced
<1> QED BY <1>1, InvHolds, PTL

\* At every step of a repair, in a good tree and a bad one, rbtree_verify
\* answers 0 exactly when the tree is red-black.
THEOREM VerifierIsExact == Spec => []VerifyIsExact
<1>1. Inv => VerifyIsExact
    BY InvVerify DEF Inv
<1> QED BY <1>1, InvHolds, PTL

\* count is the number of nodes in the tree, and no allocated node is outside
\* the tree when no call is under way: the node an insert refuses or a delete
\* gives back is the only one its caller may free.
THEOREM CountKept == Spec => []AllCounted
<1>1. Inv => AllCounted
    BY InvCounted DEF Inv
<1> QED BY <1>1, InvHolds, PTL

\* The three calls do to the set of stored keys what src/rbtree.h promises,
\* once, between the call and its return: an insert adds its key or answers
\* that it is there, a delete takes its key and no other out, and a search
\* answers whether its key is there. Rotations, exchanges of values and
\* repaints are none of it.
THEOREM TreeIsDictionary == Spec => ImplementsDictionary
<1>1. Init => Inv /\ KeyInv /\ Dict!DInit
    BY InvInit, RulesInit, KeysInit, DictInit DEF Inv
<1>2. Inv /\ KeyInv /\ [Next]_vars => Inv' /\ KeyInv' /\ [Dict!DNext]_(Dict!vars)
  <2>1. Inv /\ KeyInv /\ [Next]_vars => Inv' /\ KeyInv' /\ DictStep
    BY InvNext, KeysNext, DictNext
  <2>2. Inv /\ Inv' => TreeInv /\ TreeInv'
    BY DEF Inv
  <2> QED BY <2>1, <2>2, DictMapped
<1> QED BY <1>1, <1>2, PTL DEF Spec, ImplementsDictionary, Dict!DSpec

\* The state of the tree stays within its type.
THEOREM TreeTypeCorrect == Spec => []TypeOK
<1>1. Inv => TypeOK
    BY InvType DEF Inv
<1> QED BY <1>1, InvHolds, PTL
=============================================================================
