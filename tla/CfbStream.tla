----------------------------- MODULE CfbStream ------------------------------
(***************************************************************************)
(* How a packet is encrypted and decrypted: the loops of pack_update_pkg   *)
(* and unpack_update_pkg (src/util.c) over aes_crypt_cfb128 (src/aes.c).   *)
(* The packet is taken in chunks of the size of a buffer, and a call       *)
(* leaves in iv and iv_off how far it got in a block.  AES itself is any   *)
(* function on blocks, and the initial iv, md5 of the password, any block; *)
(* the two sides have the same ones.                                       *)
(***************************************************************************)
EXTENDS Integers

CONSTANTS
    Bytes,      \* the values of a byte
    Xor(_, _),
    BlockSize,  \* bytes of an AES block
    Ciphers,    \* AES under each key, as functions on blocks
    ChunkSize,  \* sizeof(tmp), the bytes given to a call at most
    MaxLen      \* bound: bytes of a packet

Block == [0 .. (BlockSize - 1) -> Bytes]

ASSUME CfbAssumption ==
    /\ \A k, p \in Bytes : Xor(k, p) \in Bytes /\ Xor(Xor(k, p), k) = p
    /\ BlockSize \in Nat \ {0}
    /\ Ciphers \subseteq [Block -> Block]
    /\ ChunkSize \in Nat \ {0}
    /\ MaxLen \in Nat

VARIABLES
    cipher,  \* aes_crypt_ecb under the key of the two sides
    iv0,     \* the iv both begin with
    size,    \* bytes of the packet
    msg,     \* the packet the sender has
    pc,      \* "pack", "encrypt", "unpack", "decrypt" or "done"
    buf,     \* the packet's buffer, at the sender and then at the receiver
    offset,  \* bytes done
    length,  \* bytes the present call has still to do
    iv, n,   \* the block register and the position in it
    iv_off,  \* n as the latest call left it
    trace    \* ghost: the sender's iv and n before each byte

vars == <<cipher, iv0, size, msg, pc, buf, offset, length, iv, n, iv_off, trace>>

Given == <<cipher, iv0, size, msg>>

Packet == [0 .. (size - 1) -> Bytes]

Register == [iv : Block, n : 0 .. (BlockSize - 1)]

TypeOK ==
    /\ cipher \in Ciphers
    /\ iv0 \in Block
    /\ size \in 1 .. MaxLen
    /\ msg \in Packet
    /\ pc \in {"pack", "encrypt", "unpack", "decrypt", "done"}
    /\ buf \in Packet
    /\ offset \in 0 .. size
    /\ length \in 0 .. ChunkSize
    /\ offset + length <= size
    /\ iv \in Block
    /\ n \in 0 .. (BlockSize - 1)
    /\ iv_off \in 0 .. (BlockSize - 1)
    /\ trace \in [0 .. (size - 1) -> Register]

\* The key schedule: the key of the two sides selects one of the ciphers.
aes_setkey_enc == cipher \in Ciphers

Init ==
    /\ aes_setkey_enc
    /\ iv0 \in Block
    /\ size \in 1 .. MaxLen
    /\ msg \in Packet
    /\ pc = "pack"
    /\ buf = msg
    /\ offset = 0
    /\ length = 0
    /\ iv = iv0
    /\ n = 0
    /\ iv_off = 0
    /\ trace = [i \in 0 .. (size - 1) |-> [iv |-> iv0, n |-> 0]]

-----------------------------------------------------------------------------
Smaller(a, b) == IF a < b THEN a ELSE b

\* The loop gives the next chunk to aes_crypt_cfb128.
Call(loop, function) ==
    /\ pc = loop
    /\ offset < size
    /\ pc' = function
    /\ length' = Smaller(size - offset, ChunkSize)
    /\ n' = iv_off
    /\ UNCHANGED <<Given, buf, offset, iv, iv_off, trace>>

\* Variant: the position in the block is not handed on to the next chunk.
Finish_ForgetsOffset(function, loop) ==
    /\ pc = function
    /\ length = 0
    /\ pc' = loop
    /\ iv_off' = IF loop = "pack" THEN n ELSE 0
    /\ UNCHANGED <<Given, buf, offset, length, iv, n, trace>>

\* The call returns.
Finish(function, loop) ==
    /\ pc = function
    /\ length = 0
    /\ pc' = loop
    /\ iv_off' = n
    /\ UNCHANGED <<Given, buf, offset, length, iv, n, trace>>

\* The rounds.
aes_crypt_ecb(block) == cipher[block]

\* The register once the block it holds has been encrypted, if it is used up.
Refreshed(v, i) == IF i = 0 THEN aes_crypt_ecb(v) ELSE v

\* Variant: n is not kept below the size of a block.
NextPlace_Unmasked(i) == i + 1

NextPlace(i) == (i + 1) % BlockSize

\* A byte goes out and the ciphertext byte c into the register.
Step(out, c) ==
    /\ buf' = [buf EXCEPT ![offset] = out]
    /\ iv' = [Refreshed(iv, n) EXCEPT ![n] = c]
    /\ n' = NextPlace(n)
    /\ offset' = offset + 1
    /\ length' = length - 1
    /\ UNCHANGED <<Given, pc, iv_off>>

EncryptByte ==
    /\ pc = "encrypt"
    /\ length > 0
    /\ LET c == Xor(Refreshed(iv, n)[n], buf[offset]) IN Step(c, c)
    /\ trace' = [trace EXCEPT ![offset] = [iv |-> iv, n |-> n]]

\* AES is run forwards here too.
DecryptByte ==
    /\ pc = "decrypt"
    /\ length > 0
    /\ LET c == buf[offset] IN Step(Xor(c, Refreshed(iv, n)[n]), c)
    /\ UNCHANGED trace

\* The packet is complete, and arrives: the receiver derives key and iv.
Send ==
    /\ pc = "pack"
    /\ offset = size
    /\ pc' = "unpack"
    /\ offset' = 0
    /\ iv' = iv0
    /\ n' = 0
    /\ iv_off' = 0
    /\ UNCHANGED <<Given, buf, length, trace>>

Accept ==
    /\ pc = "unpack"
    /\ offset = size
    /\ pc' = "done"
    /\ UNCHANGED <<Given, buf, offset, length, iv, n, iv_off, trace>>

Next ==
    \/ Call("pack", "encrypt")
    \/ Finish("encrypt", "pack")
    \/ EncryptByte
    \/ Send
    \/ Call("unpack", "decrypt")
    \/ Finish("decrypt", "unpack")
    \/ DecryptByte
    \/ Accept

Spec == Init /\ [][Next]_vars

-----------------------------------------------------------------------------
(* Properties *)

\* The receiver's loop gives back the packet the sender's loop was given,
\* whatever AES does and wherever chunks and blocks end.
RoundTrip == pc = "done" => buf = msg
=============================================================================
