------------------------------- MODULE Crc32 --------------------------------
(***************************************************************************)
(* crc32 (src/crc32.c): the checksum in the header of a packet, a byte at  *)
(* a time with a table.  The property compares it with division in the     *)
(* polynomials over GF(2), which is what makes a checksum of it.           *)
(***************************************************************************)
EXTENDS Words

CONSTANTS CrcPackets  \* packets, as sequences of bytes

ASSUME CrcAssumption == CrcPackets \subseteq Seq(Byte)

VARIABLES
    summed,  \* the packet
    place,   \* bytes of it done
    crc,
    summing  \* "no", "yes" or "done"

crcVars == <<summed, place, crc, summing>>

-----------------------------------------------------------------------------
\* The entries at 1, 2, 4 and so on to 128.  The table is made of them: an
\* entry is the ^ of those for its bits.
Powers == <<<<150, 48, 7, 119>>, <<44, 97, 14, 238>>,
            <<25, 196, 109, 7>>, <<50, 136, 219, 14>>,
            <<100, 16, 183, 29>>, <<200, 32, 110, 59>>,
            <<144, 65, 220, 118>>, <<32, 131, 184, 237>>>>

crc32_tab ==
    [v \in Byte |->
        LET x(i) == IF Bit(v, i) = 1 THEN Powers[i + 1] ELSE <<0, 0, 0, 0>>
        IN  x(0) (+) x(1) (+) x(2) (+) x(3) (+) x(4) (+) x(5) (+) x(6) (+) x(7)]

Inverted(w) == w (+) <<255, 255, 255, 255>>

CrcInit ==
    /\ summed = <<>>
    /\ place = 0
    /\ crc = <<0, 0, 0, 0>>
    /\ summing = "no"

\* crc32(0, buf, size)
crc32(buf) ==
    /\ summing = "no"
    /\ summed' = buf
    /\ crc' = Inverted(crc)
    /\ summing' = "yes"
    /\ UNCHANGED place

\* Variant: the byte is not mixed into crc before it is looked up.
NextCrc_Plain(byte) == crc32_tab[byte] (+) Append(Tail(crc), 0)

NextCrc(byte) == crc32_tab[XorBytes[crc[1]][byte]] (+) Append(Tail(crc), 0)

CrcByte ==
    /\ summing = "yes"
    /\ place < Len(summed)
    /\ crc' = NextCrc(summed[place + 1])
    /\ place' = place + 1
    /\ UNCHANGED <<summed, summing>>

CrcReturn ==
    /\ summing = "yes"
    /\ place = Len(summed)
    /\ crc' = Inverted(crc)
    /\ summing' = "done"
    /\ UNCHANGED <<summed, place>>

CrcNext == (\E p \in CrcPackets : crc32(p)) \/ CrcByte \/ CrcReturn

CrcSpec == CrcInit /\ [][CrcNext]_crcVars

-----------------------------------------------------------------------------
(* Properties.  A polynomial is the set of its exponents. *)

Generator == {32, 26, 23, 22, 16, 12, 11, 10, 8, 7, 5, 4, 2, 1, 0}

Plus(p, q) == (p \ q) \cup (q \ p)

\* The bits of a sequence of bytes, the least significant one of each first,
\* as exponents that go down to lowest.
Polynomial(s, lowest) ==
    {e \in lowest .. (lowest + 8 * Len(s) - 1) :
        LET i == lowest + 8 * Len(s) - 1 - e
        IN  Bit(s[(i \div 8) + 1], i % 8) = 1}

\* The long division of p, whose exponents are at most top: what is left of it
\* when the exponents from e on are gone.
Division(p, top) ==
    LET rest[e \in 32 .. (top + 1)] ==
            IF e > top THEN p
            ELSE LET r == rest[e + 1]
                 IN  IF e \in r THEN Plus(r, {e - 32 + g : g \in Generator}) ELSE r
    IN  rest

Remainder(p, top) == Division(p, top)[32]

\* The checksum is the remainder of the packet, shifted up by 32, when it is
\* divided by the generator, with the first 32 bits and the result inverted:
\* any change within 32 bits that follow one another is found.
CrcIsRemainder ==
    summing = "done" =>
        LET top  == 8 * Len(summed) + 31
            ones == (top - 31) .. top
        IN  Polynomial(crc, 0)
                = Plus(0 .. 31, Remainder(Plus(Polynomial(summed, 32), ones), top))
=============================================================================
