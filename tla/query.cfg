\* Names of up to 7 characters and their last dot, in datagrams of up to 31 bytes.
CONSTANTS
    HdrSize = 2
    BufSize = 31
    MAX_DOMAIN = 8
    MaxLabel = 8
    Chars = {46, 65, 97}
SPECIFICATION Spec
INVARIANTS TypeOK StaysInBuffers StaleOnlyWhenFull EchoesQuestion
