----------------------------- MODULE Dictionary -----------------------------
(***************************************************************************)
(* What src/rbtree.h promises of insert, find and delete: a set of keys,   *)
(* and a call that takes effect once, between its start and its return.    *)
(***************************************************************************)

CONSTANTS Keys, Ops

VARIABLES
    keys,    \* the keys in the tree
    phase,   \* "idle", "called" or "done"
    op, key, \* the latest call
    found    \* its result: the key was in the tree when it took effect

vars == <<keys, phase, op, key, found>>

DInit ==
    /\ keys = {}
    /\ phase = "idle"
    /\ op \in Ops
    /\ key \in Keys
    /\ found = FALSE

Call ==
    /\ phase = "idle"
    /\ phase' = "called"
    /\ op' \in Ops
    /\ key' \in Keys
    /\ found' = FALSE
    /\ UNCHANGED keys

TakeEffect ==
    /\ phase = "called"
    /\ phase' = "done"
    /\ found' = (key \in keys)
    /\ keys' = CASE op = "insert" -> keys \cup {key}
                 [] op = "delete" -> keys \ {key}
                 [] OTHER         -> keys
    /\ UNCHANGED <<op, key>>

Return ==
    /\ phase = "done"
    /\ phase' = "idle"
    /\ UNCHANGED <<keys, op, key, found>>

DNext == Call \/ TakeEffect \/ Return

DSpec == DInit /\ [][DNext]_vars
=============================================================================
