-------------------------------- MODULE Word ---------------------------------
(***************************************************************************)
(* The uint32_t of the simulators: four bytes of BYTE_BITS bits each, with *)
(* arithmetic modulo WORD.  BYTE_BITS is 8 in the code; an instance with   *)
(* narrower bytes keeps wrapping, signs and byte order within TLC's reach. *)
(***************************************************************************)
EXTENDS Integers

CONSTANT BYTE_BITS

ASSUME ByteAssumption == BYTE_BITS \in 1 .. 8

BYTE == 2 ^ BYTE_BITS
HALF == BYTE * BYTE
WORD == HALF * HALF
BITS == 4 * BYTE_BITS
Words == 0 .. WORD - 1

plus(a, b) == (a + b) % WORD
minus(a, b) == (a - b) % WORD

\* (int32_t)a
signed(a) == IF 2 * a < WORD THEN a ELSE a - WORD

\* (int32_t)(int16_t)h and (int32_t)(int8_t)b, stored in a uint32_t again
sext_half(h) == IF 2 * h < HALF THEN h ELSE (h - HALF) % WORD
sext_byte(b) == IF 2 * b < BYTE THEN b ELSE (b - BYTE) % WORD

\* Byte k of a word, the least significant first.
byte_of(a, k) == (a \div BYTE ^ k) % BYTE
=============================================================================
