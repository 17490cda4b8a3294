----------------------------------- MODULE Words -----------------------------------
(*****************************************************************************)
(* Words of the cipher as sets: the positions of the bits that are one,      *)
(* position 0 being the least significant.  The operators are those of C on  *)
(* unsigned integers; | of words that have no bit in common is \cup.         *)
(*****************************************************************************)
EXTENDS Integers

\* The positions of a word of n bits.
Below(n) == {b \in Nat : b < n}
Word(n) == SUBSET Below(n)

\* x ^ y
Xor(x, y) == (x \ y) \cup (y \ x)

\* x << n in an integer of width bits, x >> n
Shl(x, n, width) == {b \in Below(width) : b >= n /\ b - n \in x}
Shr(x, n) == {b \in Nat : b + n \in x}

\* x & mask for a mask of ones in the positions from lo to hi - 1.
Mask(x, lo, hi) == {b \in x : lo <= b /\ b < hi}

\* The byte at position lo: (x >> lo) & 0xff, or the cast to u8.
ByteAt(x, lo) == Mask(Shr(x, lo), 0, 8)
=============================================================================
