----------------------------- MODULE MCSealing ------------------------------
(***************************************************************************)
(* How a packet is sealed, for TLC: Md5Key, CfbStream, Crc32 and Aes, as   *)
(* pack_update_pkg and unpack_update_pkg use them.  Key and iv are made,   *)
(* and the packet sealed and opened, with bytes of one bit, under any      *)
(* cipher and iv; checksum and cipher are made of bytes as they are.       *)
(***************************************************************************)
EXTENDS Md5Key, CfbStream, Crc32, Aes

BitXor(a, b) == (a + b) % 2

\* AES under a key is a permutation of the blocks.
Permutations ==
    {f \in [Block -> Block] : \A a, b \in Block : a # b => f[a] # f[b]}

Upwards(n_) == [i \in 1 .. n_ |-> i - 1]
AllOnes(n_) == [i \in 1 .. n_ |-> 255]

\* The examples of FIPS 197, and keys whose schedule is full of carries.
KeysOfAes   == {Upwards(size_) : size_ \in {16, 24, 32}}
               \cup {AllOnes(size_) : size_ \in {16, 24, 32}}
BlocksOfAes == {[i \in 1 .. 16 |-> 17 * (i - 1)], AllOnes(16)}

\* Every byte alone, and packets shorter and longer than a checksum.
PacketsOfCrc == {<<v>> : v \in Byte} \cup {Upwards(n_) : n_ \in 0 .. 9}
                \cup [1 .. 3 -> {0, 1, 129}]

\* To keep it small: only under the empty password is every packet taken, with
\* every cipher and iv, and under the others just one.
Zeros(size_) == [i \in 0 .. (size_ - 1) |-> 0]

OnePacket ==
    /\ cipher = [b \in Block |-> b]
    /\ iv0 = Zeros(BlockSize)
    /\ size = 1
    /\ msg = Zeros(1)

SealingInit ==
    /\ KeyInit /\ Init /\ CrcInit /\ AesInit
    /\ passLen = 0 \/ OnePacket

\* And only with one packet is a checksum made, or a block encrypted.
Arithmetic ==
    /\ passLen = 0 /\ OnePacket /\ stage = "derive"
    /\ UNCHANGED <<keyVars, vars>>
    /\ \/ crypting = "none" /\ CrcNext /\ UNCHANGED aesVars
       \/ summing = "no" /\ AesNext /\ UNCHANGED crcVars

SealingNext ==
    \/ summing = "no" /\ crypting = "none" /\ UNCHANGED <<crcVars, aesVars>>
        /\ \/ KeyNext /\ UNCHANGED vars
           \/ stage = "done" /\ Next /\ UNCHANGED keyVars
    \/ Arithmetic

SealingSpec ==
    /\ SealingInit
    /\ [][SealingNext]_<<keyVars, vars, crcVars, aesVars>>
=============================================================================
