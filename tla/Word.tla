-------------------------------- MODULE Word --------------------------------
(***************************************************************************)
(* Machine words of a scaled RV64: a register has XLEN bits where the      *)
(* program has 64, and every narrower quantity keeps its proportion (the   *)
(* 32-bit half of a register is WLEN = XLEN/2 bits, a byte XLEN/8 bits).   *)
(* The arithmetic of the program depends on the proportions and not on the *)
(* value 64, so TLC can run through all its edge cases at a small XLEN.    *)
(***************************************************************************)
EXTENDS Integers, Bitwise

CONSTANT XLEN

\* A register splits into eight bytes, so that every C++ type it holds has one.
ASSUME XlenAssumption == XLEN \in {8, 16}

WLEN == XLEN \div 2
BYTE == XLEN \div 8
Word == 0 .. 2^XLEN - 1
Ones == 2^XLEN - 1

Wrap(n) == n % 2^XLEN
Low(x, w) == x % 2^w

\* (int64_t) and (int32_t) of a word: its value in two's complement.
Signed(x, w) == LET l == Low(x, w) IN IF l >= 2^(w - 1) THEN l - 2^w ELSE l
Sext(x, w) == Wrap(Signed(x, w))

Shl(x, k, w) == Low(Low(x, w) * 2^k, w)
Shr(x, k, w) == Low(x, w) \div 2^k
Sar(x, k, w) == Low(Signed(x, w) \div 2^k, w)

Bit(x, i) == (x \div 2^i) % 2
Inv(x) == Ones - x
Flag(b) == IF b THEN 1 ELSE 0

\* C++ division: truncated towards zero, the remainder with the dividend's sign.
Abs(n) == IF n < 0 THEN -n ELSE n
Quot(a, b) == IF (a < 0) = (b < 0) THEN Abs(a) \div Abs(b) ELSE -(Abs(a) \div Abs(b))
Rem(a, b) == a - b * Quot(a, b)
=============================================================================
