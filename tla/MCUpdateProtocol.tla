-------------------------- MODULE MCUpdateProtocol --------------------------
(***************************************************************************)
(* Small instances of UpdateProtocol.                                      *)
(***************************************************************************)
EXTENDS UpdateProtocol, TLC

CONSTANTS c1, c2,        \* clients
          d1, d2,        \* domains
          a1, a2, a3     \* addresses

\* Each client has a domain of its own, or both update the same one.
OwnDomains == (c1 :> d1) @@ (c2 :> d2)
OneDomain  == [c \in Clients |-> d1]

\* No client is given [ip]; c2 is given a3.
NoArgs  == [c \in Clients |-> NoIp]
ArgA3   == [c \in Clients |-> IF c = c2 THEN a3 ELSE NoIp]

SameKeys == [c \in Clients |-> ServerKey]
C2Stranger == [c \in Clients |->
                  IF c = c2 THEN CHOOSE k \in Keys : k # ServerKey ELSE ServerKey]

InStep  == [c \in Clients |-> 0]
C1Ahead == [c \in Clients |-> IF c = c1 THEN 1 ELSE 0]

\* Clients are interchangeable when their arguments and clocks are the same.
PortSymmetry == Permutations(Ports)
FullSymmetry == Permutations(Ports) \cup Permutations(Clients)
                    \cup Permutations(DottedIps)
=============================================================================
