-------------------------------- MODULE KeySchedule --------------------------------
(*****************************************************************************)
(* The key schedule of HALFLOOP-24 and what the attacks derive from it: the  *)
(* difference that a tweak makes in a round key, and the reversal of the key *)
(* schedule from the last round keys.                                        *)
(*                                                                           *)
(* SBOX is any function from bytes to bytes.                                 *)
(*****************************************************************************)
EXTENDS Words

CONSTANT SBOX

SboxType == SBOX \in [Word(8) -> Word(8)]

Keys == [hi : Word(64), lo : Word(64)]

\* key_schedule_g; the round constant rc is a byte.
G(word, rc) ==
  Xor(Xor(Shl(Xor(SBOX[ByteAt(word, 16)], rc), 24, 32), Shl(SBOX[ByteAt(word, 8)], 16, 32)),
      Xor(Shl(SBOX[ByteAt(word, 0)], 8, 32), SBOX[ByteAt(word, 24)]))

-----------------------------------------------------------------------------
(* key_schedule: the values of key.hi and key.lo in the course of it.        *)

\* half ^= word << 32; half ^= half >> 32;
Mixed(half, word) ==
  LET x == Xor(half, Shl(word, 32, 64)) IN Xor(x, Shr(x, 32))

Hi0(key, tweak) == Xor(key.hi, tweak)
Hi1(key, tweak) == Mixed(Hi0(key, tweak), G(Mask(key.lo, 0, 32), {0}))
Lo1(key, tweak) == Mixed(key.lo, Mask(Hi1(key, tweak), 0, 32))
Hi2(key, tweak) ==
  Xor(Hi1(key, tweak), Shl(G(Mask(Lo1(key, tweak), 0, 32), {1}), 32, 64))

\* rk[r]
RoundKey(key, tweak, r) ==
  CASE r = 0  -> Mask(Shr(Hi0(key, tweak), 40), 0, 24)
    [] r = 1  -> Mask(Shr(Hi0(key, tweak), 16), 0, 24)
    [] r = 2  -> Mask(Shl(Hi0(key, tweak), 8, 64), 8, 24) \cup Shr(key.lo, 56)
    [] r = 3  -> Mask(Shr(key.lo, 32), 0, 24)
    [] r = 4  -> Mask(Shr(key.lo, 8), 0, 24)
    [] r = 5  -> Shl(Mask(key.lo, 0, 8), 16, 32) \cup Shr(Hi1(key, tweak), 48)
    [] r = 6  -> Mask(Shr(Hi1(key, tweak), 24), 0, 24)
    [] r = 7  -> Mask(Hi1(key, tweak), 0, 24)
    [] r = 8  -> Shr(Lo1(key, tweak), 40)
    [] r = 9  -> Mask(Shr(Lo1(key, tweak), 16), 0, 24)
    [] r = 10 -> Mask(Shl(Lo1(key, tweak), 8, 64), 8, 24) \cup Shr(Hi2(key, tweak), 56)

-----------------------------------------------------------------------------
(* halfloop_round_tweak, for the rounds 0 to 9, and halfloop_round10_tweak.  *)

RoundTweak(tweak, r) ==
  CASE r = 0 -> Mask(Shr(tweak, 40), 0, 24)
    [] r = 1 -> Mask(Shr(tweak, 16), 0, 24)
    [] r = 2 -> Mask(Shl(tweak, 8, 64), 8, 24)
    [] r = 3 -> {}
    [] r = 4 -> {}
    [] r = 5 -> Shr(tweak, 48)
    [] r = 6 -> Xor(Mask(Shr(tweak, 24), 0, 24), Shr(tweak, 56))
    [] r = 7 -> Mask(Xor(tweak, Shr(tweak, 32)), 0, 24)
    [] r = 8 -> Mask(Xor(Shr(tweak, 8), Shr(tweak, 40)), 0, 24)
    [] r = 9 -> Xor(Mask(Shl(tweak, 16, 64), 16, 24) \cup Mask(Shr(tweak, 48), 0, 16),
                    Mask(Shr(tweak, 16), 0, 24))

Round10Tweak(tweak, rk9lsb) ==
  Mask(Xor(Shl(tweak, 8, 64), Shr(tweak, 24)), 8, 24)
  \cup Xor(Xor(Shr(tweak, 56), SBOX[rk9lsb]),
           SBOX[Mask(Xor(Xor(rk9lsb, Shr(tweak, 16)), Shr(tweak, 48)), 0, 8)])

-----------------------------------------------------------------------------
(* halfloop_bitslice_revert_key.  rk56 is the low byte of round key 5, in    *)
(* the upper eight bits, and round key 6.                                    *)

Key1Lo(rk8, rk9, rk10) ==
  Shl(rk8, 40, 64) \cup Shl(rk9, 16, 64) \cup Shr(rk10, 8)

Key1Hi(rk56, rk7, rk8, rk9, rk10) ==
  LET g == G(Mask(Key1Lo(rk8, rk9, rk10), 0, 32), {1})
  IN  Shl(Xor(Shr(g, 24), rk10), 56, 64) \cup Shl(rk56, 24, 64) \cup rk7

\* (half >> 32) ^ (u32)half, and ((half >> 32) ^ word) << 32 above it.
Unmixed(half, word) ==
  Xor(Shr(half, 32), Mask(half, 0, 32)) \cup Shl(Xor(Shr(half, 32), word), 32, 64)

RevertKey(rk56, rk7, rk8, rk9, rk10) ==
  LET hi == Key1Hi(rk56, rk7, rk8, rk9, rk10)
      lo == Key1Lo(rk8, rk9, rk10)
      lo0 == Unmixed(lo, hi)
  IN  [hi |-> Unmixed(hi, G(Mask(lo0, 0, 32), {0})), lo |-> lo0]

\* What the search knows of a key: the argument rk56 for its round keys.
Rk56(key) == Shl(ByteAt(RoundKey(key, {}, 5), 0), 24, 32) \cup RoundKey(key, {}, 6)
=============================================================================
