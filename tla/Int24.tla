------------------------------- MODULE Int24 -------------------------------
(***************************************************************************)
(* int24_t, the value of a stack: a signed bit-field of Bits bits, computed *)
(* with in the int of the host, which is HostBits wide.  The operators are  *)
(* defined for every width, the code has Bits = 24 and HostBits = 32.       *)
(***************************************************************************)
EXTENDS Integers

CONSTANTS Bits, HostBits

ASSUME WidthsAssumption == Bits \in Nat \ {0, 1} /\ HostBits \in Nat /\ HostBits > Bits

Signed(n, bits) == ((n + 2^(bits - 1)) % 2^bits) - 2^(bits - 1)

INT24_MIN == -(2^(Bits - 1))
INT24_MAX == 2^(Bits - 1) - 1
Int24s    == INT24_MIN .. INT24_MAX

\* The values of an int of the host.
Ints == -(2^(HostBits - 1)) .. 2^(HostBits - 1) - 1

\* What is left of a value stored in the bit-field.
Wrap(n) == Signed(n, Bits)

\* The value read as unsigned: & 0x00ffffff.
Unsigned(n) == n % 2^Bits

\* is_overflow: the range of either reading, signed or unsigned.
Overflow(n) == n < INT24_MIN \/ n > 2^Bits - 1

-----------------------------------------------------------------------------
(* Operators of the language.                                              *)

\* Integer division of C: towards zero, the remainder has the sign of a.
Magnitude(n) == IF n < 0 THEN -n ELSE n
Quotient(a, b) == LET q == Magnitude(a) \div Magnitude(b)
                  IN IF (a < 0) = (b < 0) THEN q ELSE -q
Remainder(a, b) == a - b * Quotient(a, b)

\* Bit i of the two's complement of n.
Bit(n, i) == (n \div 2^i) % 2

BitPlaces == 0 .. HostBits - 1

\* The int that has these bits.
FromBits(bits) == CHOOSE n \in Ints : \A i \in BitPlaces : Bit(n, i) = bits[i]

BitAnd(a, b) == FromBits([i \in BitPlaces |-> Bit(a, i) * Bit(b, i)])
BitOr(a, b)  == FromBits([i \in BitPlaces |-> IF Bit(a, i) = 1 THEN 1 ELSE Bit(b, i)])
BitXor(a, b) == FromBits([i \in BitPlaces |-> (Bit(a, i) + Bit(b, i)) % 2])
BitNot(a)    == -a - 1
=============================================================================
