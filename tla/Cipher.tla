---------------------------------- MODULE Cipher ----------------------------------
(*****************************************************************************)
(* HALFLOOP-24: the operations of a round and their inverses, encryption and *)
(* decryption of a 24-bit word.                                              *)
(*                                                                           *)
(* A state is a word of three bytes, a0 the most significant.  inv_SBOX is   *)
(* the inverse of SBOX; nothing else is assumed of the two tables.  The      *)
(* tables of finite field products, which init_halfloop fills with ffmul,    *)
(* are the functions Times2 to Times39.                                      *)
(*****************************************************************************)
EXTENDS KeySchedule

CONSTANT inv_SBOX

Byte == Word(8)
State == Word(24)

SboxesInverse ==
  /\ SboxType
  /\ inv_SBOX \in [Byte -> Byte]
  /\ \A x \in Byte : inv_SBOX[SBOX[x]] = x /\ SBOX[inv_SBOX[x]] = x

\* The bytes of a state, and a state of three bytes.
A0(state) == ByteAt(state, 16)
A1(state) == ByteAt(state, 8)
A2(state) == ByteAt(state, 0)
Join(a0, a1, a2) == Shl(a0, 16, 24) \cup Shl(a1, 8, 24) \cup a2

-----------------------------------------------------------------------------
(* ffmul: products of polynomials over GF(2), reduced by 0x11b.              *)

Times2(x) == Xor(Shl(x, 1, 8), IF 7 \in x THEN {0, 1, 3, 4} ELSE {})
Times4(x) == Times2(Times2(x))
Times8(x) == Times2(Times4(x))
Times6(x) == Xor(Times4(x), Times2(x))
Times9(x) == Xor(Times8(x), x)
Times39(x) == Xor(Xor(Times2(Times2(Times8(x))), Times4(x)), Xor(Times2(x), x))

-----------------------------------------------------------------------------
(* The operations of a round.                                                *)

sub_bytes(state) == Join(SBOX[A0(state)], SBOX[A1(state)], SBOX[A2(state)])

inv_sub_bytes(state) ==
  Join(inv_SBOX[A0(state)], inv_SBOX[A1(state)], inv_SBOX[A2(state)])

\* (u8)((x << n) | (x >> (8 - n)))
Rotl8(x, n) == Shl(x, n, 8) \cup Shr(x, 8 - n)

rotate_rows(state) == Join(A0(state), Rotl8(A1(state), 6), Rotl8(A2(state), 4))
inv_rotate_rows(state) == Join(A0(state), Rotl8(A1(state), 2), Rotl8(A2(state), 4))

Xor3(x, y, z) == Xor(Xor(x, y), z)

mix_columns(state) ==
  LET a == A0(state)  b == A1(state)  c == A2(state)
  IN  Join(Xor3(Times9(a), b, Times2(c)),
           Xor3(Times2(a), Times9(b), c),
           Xor3(a, Times2(b), Times9(c)))

inv_mix_columns(state) ==
  LET a == A0(state)  b == A1(state)  c == A2(state)
  IN  Join(Xor3(Times6(a), Times8(b), Times39(c)),
           Xor3(Times39(a), Times6(b), Times8(c)),
           Xor3(Times8(a), Times39(b), Times6(c)))

EncryptRound(state, rk) == Xor(mix_columns(rotate_rows(sub_bytes(state))), rk)
EncryptLast(state, rk) == Xor(rotate_rows(sub_bytes(state)), rk)
DecryptRound(state, rk) ==
  inv_sub_bytes(inv_rotate_rows(inv_mix_columns(Xor(state, rk))))
DecryptLast(state, rk) == inv_sub_bytes(inv_rotate_rows(Xor(state, rk)))

-----------------------------------------------------------------------------
(* halfloop_encrypt and halfloop_decrypt: rounds 1 to 9 are alike, and four  *)
(* of them make a step of the chains below.                                  *)

Encrypt4(state, key, tweak, r) ==
  EncryptRound(EncryptRound(EncryptRound(EncryptRound(state,
    RoundKey(key, tweak, r)), RoundKey(key, tweak, r + 1)),
    RoundKey(key, tweak, r + 2)), RoundKey(key, tweak, r + 3))

halfloop_encrypt(pt, key, tweak) ==
  LET x0 == Xor(pt, RoundKey(key, tweak, 0))
      x1 == EncryptRound(x0, RoundKey(key, tweak, 1))
      x9 == Encrypt4(Encrypt4(x1, key, tweak, 2), key, tweak, 6)
  IN  EncryptLast(x9, RoundKey(key, tweak, 10))

Decrypt4(state, key, tweak, r) ==
  DecryptRound(DecryptRound(DecryptRound(DecryptRound(state,
    RoundKey(key, tweak, r + 3)), RoundKey(key, tweak, r + 2)),
    RoundKey(key, tweak, r + 1)), RoundKey(key, tweak, r))

\* The state after rounds 10 to 2 have been undone.
DecryptTo2(ct, key, tweak) ==
  LET x9 == DecryptLast(ct, RoundKey(key, tweak, 10))
  IN  Decrypt4(Decrypt4(x9, key, tweak, 6), key, tweak, 2)

halfloop_decrypt(ct, key, tweak) ==
  Xor(DecryptRound(DecryptTo2(ct, key, tweak), RoundKey(key, tweak, 1)),
      RoundKey(key, tweak, 0))
=============================================================================
