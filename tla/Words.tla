------------------------------- MODULE Words --------------------------------
(***************************************************************************)
(* The bytes and the words of 32 bits that src/aes.c and src/crc32.c work  *)
(* on.  A word is its four bytes, the least significant one first: so they *)
(* are read by GET_ULONG_LE, and taken out by w & 0xFF, (w >> 8) & 0xFF    *)
(* and so on.                                                              *)
(***************************************************************************)
EXTENDS Integers, Sequences

Byte == 0 .. 255
Word == [1 .. 4 -> Byte]

Bit(a, i) == (a \div 2^i) % 2

\* a ^ b
XorBytes ==
    [a \in Byte |-> [b \in Byte |->
        LET x(i) == 2^i * ((Bit(a, i) + Bit(b, i)) % 2)
        IN  x(0) + x(1) + x(2) + x(3) + x(4) + x(5) + x(6) + x(7)]]

\* v ^ w
v (+) w == [k \in 1 .. 4 |-> XorBytes[v[k]][w[k]]]
=============================================================================
