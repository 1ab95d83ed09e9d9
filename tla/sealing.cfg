\* Md5: blocks of 8 bytes, words of 32: with a long password the length carries
\* into the second word; and the key ends inside the third digest.
\* Packets: blocks of two bytes, chunks of three, packets of up to five.
CONSTANTS
    BufferSize = 8
    LengthSize = 2
    WordModulus = 32
    DigestSize = 3
    KeyLen = 8
    MaxPass = 31
    Bytes = {0, 1}
    Xor <- BitXor
    BlockSize = 2
    Ciphers <- Permutations
    ChunkSize = 3
    MaxLen = 5
    CrcPackets <- PacketsOfCrc
    CryptKeys <- KeysOfAes
    CryptBlocks <- BlocksOfAes
SPECIFICATION SealingSpec
INVARIANTS KeyTypeOK NothingSkipped StaysInBuffer KeyIsDerived TypeOK RoundTrip
INVARIANTS CrcIsRemainder
PROPERTIES AesIsStandard
\* The receiver stops when it has the packet.
CHECK_DEADLOCK FALSE
