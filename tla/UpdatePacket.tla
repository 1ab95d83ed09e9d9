---------------------------- MODULE UpdatePacket ----------------------------
(***************************************************************************)
(* The sealed packets dns_update and dns_srv exchange (src/util.c,         *)
(* pack_update_pkg and unpack_update_pkg).  A packet is kept as what the   *)
(* receiver can tell about it: the key it was encrypted under and the      *)
(* sender's clock at the time.  A packet decrypted under another key fails *)
(* its CRC; the chance collision of a 32-bit CRC is left out.              *)
(*                                                                         *)
(* The clock test is C arithmetic: curtime and timestamp are unsigned int, *)
(* their difference wraps, and abs() takes the wrapped value as an int.    *)
(* abs(INT_MIN) is undefined: the build may yield INT_MIN again (below any *)
(* bound) or fold the comparison into a range test (above every bound).    *)
(***************************************************************************)
EXTENDS Integers

CONSTANTS
    UIntModulus,  \* 2^32 in the program: the number of unsigned int values
    TIME_DIFF     \* largest clock difference a receiver tolerates, seconds

ASSUME PacketAssumption ==
    /\ UIntModulus \in Nat \ {0}
    /\ UIntModulus % 2 = 0
    /\ TIME_DIFF \in Nat
    /\ 2 * TIME_DIFF < UIntModulus

UInt == 0 .. (UIntModulus - 1)

\* Variant: the clock is not unsigned, and does not wrap.
UAdd_NoWrap(a, b) == a + b

\* Addition and subtraction of unsigned int.
UAdd(a, b) == (a + b) % UIntModulus
USub(a, b) == (a - b) % UIntModulus

\* The int that has the representation of the unsigned int u.
ToInt(u) == IF 2 * u < UIntModulus THEN u ELSE u - UIntModulus

\* The results abs(i) can have; undefined for the least int.
AbsResults(i) ==
    IF 2 * i = -UIntModulus THEN {i, -i}
    ELSE IF i < 0 THEN {-i} ELSE {i}

\* Variant: the bound is off by one.
InTime_OffByOne(curtime, timestamp) ==
    {a <= TIME_DIFF + 1 : a \in AbsResults(ToInt(USub(curtime, timestamp)))}

\* The answers the clock test can give: TRUE when the packet is in time.
InTime(curtime, timestamp) ==
    {a <= TIME_DIFF : a \in AbsResults(ToInt(USub(curtime, timestamp)))}

Pack(passwd, curtime) == [key |-> passwd, ts |-> curtime]

\* The answers unpack_update_pkg can give: TRUE when it returns 0.
Unpack(passwd, curtime, seal) ==
    IF seal.key # passwd THEN {FALSE} ELSE InTime(curtime, seal.ts)

-----------------------------------------------------------------------------
\* The distance of two clocks on the circle of unsigned values.
ClockDistance(a, b) ==
    LET d == IF a >= b THEN a - b ELSE b - a
    IN  IF 2 * d <= UIntModulus THEN d ELSE UIntModulus - d

\* The unsigned difference of the two clocks is that of INT_MIN.
Antipodal(a, b) == 2 * ClockDistance(a, b) = UIntModulus

\* The clock test gives one answer, and it is the one meant: the clocks are
\* at most TIME_DIFF apart, on whichever side and across a wrap of time().
\* Only two clocks half the circle apart, 68 years, are left to chance.
ExactWindow(a, b) ==
    \/ Antipodal(a, b)
    \/ InTime(a, b) = {ClockDistance(a, b) <= TIME_DIFF}
=============================================================================
