-------------------------------- MODULE Crc ---------------------------------
(***************************************************************************)
(* The checksums of crc.c that the applications use.  A table has what     *)
(* eight shifts of a register by the polynomial make of an octet at its    *)
(* upper end, which is how it is defined here.  A register of 32 bits is a *)
(* pair of numbers of 16, the upper one first.                             *)
(***************************************************************************)
EXTENDS Integers, Sequences

Word == 2 ^ 16

\* The same sequence; TLC computes the elements of it once, not at each use.
Computed(s) == s \o <<>>

\* Exclusive or, of numbers of one bit, of two bits, and so on.
Xor1(a, b) == (a + b) % 2

Xor2(a, b) == 2 * Xor1(a \div 2, b \div 2) + Xor1(a % 2, b % 2)

Xor4Table ==
    Computed([i \in 1 .. 256 |->
        LET a == (i - 1) \div 16
            b == (i - 1) % 16
        IN  4 * Xor2(a \div 4, b \div 4) + Xor2(a % 4, b % 4)])

Xor4(a, b) == Xor4Table[16 * a + b + 1]

Xor8(a, b) == 16 * Xor4(a \div 16, b \div 16) + Xor4(a % 16, b % 16)

Xor16(a, b) == 256 * Xor8(a \div 256, b \div 256) + Xor8(a % 256, b % 256)

\* One bit out of the upper end of a register, and the polynomial, 0x1021, to
\* the rest if it was set.
Shift16(register) ==
    IF 2 * register >= Word THEN Xor16(2 * register - Word, 4129) ELSE 2 * register

\* The same with 0x04C11DB7.
Shift32(register) ==
    LET low == 2 * register[2]
        high == 2 * register[1] + (low \div Word)
    IN  IF high >= Word
        THEN <<Xor16(high - Word, 1217), Xor16(low % Word, 7607)>>
        ELSE <<high, low % Word>>

EightShifts(Shift(_), register) ==
    LET four(r) == Shift(Shift(Shift(Shift(r))))
    IN  four(four(register))

\* The entry of an octet is the one after as many.
CrcTable16 == Computed([i \in 1 .. 256 |-> EightShifts(Shift16, 256 * (i - 1))])

CrcTable32 == Computed([i \in 1 .. 256 |-> EightShifts(Shift32, <<256 * (i - 1), 0>>)])

\* The register after one more octet: the lower one of the register moves up, and
\* the entry of the upper one is added.
Shifted16(register, octet) ==
    Xor16(256 * (register % 256), CrcTable16[Xor8(register \div 256, octet) + 1])

\* The loop over the octets from the n-th one on, for each register.
la_crc16_arinc(octets) ==
    LET crc[n \in 1 .. Len(octets) + 1] ==
            [register \in 0 .. Word - 1 |->
                IF n > Len(octets) THEN register
                ELSE crc[n + 1][Shifted16(register, octets[n])]]
    IN  crc[1][Word - 1]

\* An octet less at the upper end, one more at the lower, and the table's entry.
Shifted32(upper, lower, entry) ==
    <<Xor16(256 * (upper % 256) + (lower \div 256), entry[1]), Xor16(256 * (lower % 256), entry[2])>>

Crc32(octets) ==
    LET crc[register \in (0 .. Word - 1) \X (0 .. Word - 1), n \in 1 .. Len(octets) + 1] ==
            IF n > Len(octets) THEN register
            ELSE crc[Shifted32(register[1], register[2],
                               CrcTable32[Xor8(register[1] \div 256, octets[n]) + 1]),
                     n + 1]
    IN  crc[<<Word - 1, Word - 1>>, 1]

\* As its four octets.
la_crc32_arinc665(octets) ==
    LET crc == Crc32(octets)
    IN  <<crc[1] \div 256, crc[1] % 256, crc[2] \div 256, crc[2] % 256>>
=============================================================================
