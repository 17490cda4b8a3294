------------------------------- MODULE BitsliceSearch -------------------------------
(*****************************************************************************)
(* The search for the rest of a key: halfloop_bitslice, and                  *)
(* halfloop_cuda_bitslice with bitslice_kernel, which derive the same values *)
(* in the same way.  Given two ciphertexts cta and ctb, whose tweaks tw and  *)
(* tw ^ (1 << 30) differ in one bit, and the round keys 7 to 10 without      *)
(* tweak, the search tries all values of round key 6 and, in the lanes of    *)
(* the bitsliced part, all values of the low byte of round key 5.            *)
(*                                                                           *)
(* One lane is modelled: KeyPartition says which lane tries which values.    *)
(* The inverse S-box of the lanes, a network of gates in the code, is        *)
(* inv_SBOX here.                                                            *)
(*****************************************************************************)
EXTENDS Cipher

CONSTANT ValidPlaintexts   \* those that halfloop_valid_plaintext accepts

\* The arguments of halfloop_bitslice.
Arguments ==
  [cta : State, ctb : State, tw : Word(64),
   rk7n : State, rk8n : State, rk9n : State, rk10n : State]

-----------------------------------------------------------------------------
(* The bitsliced round in a lane.  Of an eightbits, the lane has a byte,     *)
(* with b0 in position 7 and b7 in position 0.                               *)

Lane(state) == [msb |-> A0(state), mid |-> A1(state), lsb |-> A2(state)]

xor24(x, y) ==
  [msb |-> Xor(x.msb, y.msb), mid |-> Xor(x.mid, y.mid), lsb |-> Xor(x.lsb, y.lsb)]

\* A gate, bit b[i] of an eightbits, and the eightbits of the given bits.
xor(p, q) == ~(p <=> q)
B(x, i) == 7 - i \in x
Eightbits(b0, b1, b2, b3, b4, b5, b6, b7) ==
  {p \in Below(8) : \/ p = 7 /\ b0
                    \/ p = 6 /\ b1
                    \/ p = 5 /\ b2
                    \/ p = 4 /\ b3
                    \/ p = 3 /\ b4
                    \/ p = 2 /\ b5
                    \/ p = 1 /\ b6
                    \/ p = 0 /\ b7}

bitslice_inv_rotate_rows_6(x) ==
  Eightbits(B(x, 2), B(x, 3), B(x, 4), B(x, 5), B(x, 6), B(x, 7), B(x, 0), B(x, 1))
bitslice_inv_rotate_rows_4(x) ==
  Eightbits(B(x, 4), B(x, 5), B(x, 6), B(x, 7), B(x, 0), B(x, 1), B(x, 2), B(x, 3))

multiply6(x) ==
  Eightbits(xor(B(x, 1), B(x, 2)),
            xor(B(x, 2), B(x, 3)),
            xor(xor(B(x, 0), B(x, 3)), B(x, 4)),
            xor(xor(B(x, 1), B(x, 4)), B(x, 5)),
            xor(xor(B(x, 0), B(x, 1)), xor(B(x, 5), B(x, 6))),
            xor(xor(B(x, 0), B(x, 6)), B(x, 7)),
            xor(B(x, 1), B(x, 7)),
            xor(B(x, 0), B(x, 1)))

multiply8(x) ==
  Eightbits(B(x, 3),
            xor(B(x, 0), B(x, 4)),
            xor(xor(B(x, 0), B(x, 1)), B(x, 5)),
            xor(xor(B(x, 1), B(x, 2)), B(x, 6)),
            xor(xor(B(x, 0), B(x, 2)), B(x, 7)),
            xor(B(x, 0), B(x, 1)),
            xor(B(x, 1), B(x, 2)),
            B(x, 2))

multiply39(x) ==
  Eightbits(xor(B(x, 2), B(x, 5)),
            xor(B(x, 3), B(x, 6)),
            xor(B(x, 4), B(x, 7)),
            B(x, 5),
            xor(xor(B(x, 2), B(x, 5)), B(x, 6)),
            xor(xor(xor(B(x, 0), B(x, 2)), xor(B(x, 3), B(x, 5))), xor(B(x, 6), B(x, 7))),
            xor(xor(xor(B(x, 0), B(x, 1)), xor(B(x, 3), B(x, 4))), xor(B(x, 6), B(x, 7))),
            xor(xor(B(x, 1), B(x, 4)), B(x, 7)))

bitslice_inv_mix_columns(x) ==
  [msb |-> Xor3(multiply6(x.msb), multiply8(x.mid), multiply39(x.lsb)),
   mid |-> Xor3(multiply39(x.msb), multiply6(x.mid), multiply8(x.lsb)),
   lsb |-> Xor3(multiply8(x.msb), multiply39(x.mid), multiply6(x.lsb))]

bitslice_inv_round(state, rk) ==
  LET x == bitslice_inv_mix_columns(xor24(state, rk))
  IN  [msb |-> inv_SBOX[x.msb],
       mid |-> inv_SBOX[bitslice_inv_rotate_rows_6(x.mid)],
       lsb |-> inv_SBOX[bitslice_inv_rotate_rows_4(x.lsb)]]

-----------------------------------------------------------------------------
(* What is the same for all lanes.  In the definitions, a is the set of      *)
(* arguments.                                                                *)

ZeroKey == [hi |-> {}, lo |-> {}]

TweakA(a) == a.tw
TweakB(a) == Xor(a.tw, {30})

\* twa[r] and twb[r]
RoundTweakOf(a, tweak, r) ==
  IF r = 10 THEN Round10Tweak(tweak, ByteAt(a.rk9n, 0))
            ELSE Xor(RoundKey(ZeroKey, tweak, r), RoundKey(ZeroKey, {}, r))

Rk10(a) == Xor(a.rk10n, RoundTweakOf(a, TweakA(a), 10))
Rk9(a, tweak) == Xor(a.rk9n, RoundTweakOf(a, tweak, 9))
Rk8(a, tweak) == Xor(a.rk8n, RoundTweakOf(a, tweak, 8))
Rk7(a) == Xor(a.rk7n, RoundTweakOf(a, TweakA(a), 7))

\* x6a and x6b
X6(a, ct, tweak) ==
  DecryptRound(DecryptRound(DecryptRound(DecryptLast(ct,
    Rk10(a)), Rk9(a, tweak)), Rk8(a, tweak)), Rk7(a))

Rk3(a) ==
  Xor(Mask(Shl(Rk8(a, TweakA(a)), 8, 32), 8, 24) \cup Shr(Rk9(a, TweakA(a)), 16), Rk7(a))
Rk4(a) ==
  Xor(Mask(Shl(Rk9(a, TweakA(a)), 8, 32), 8, 24) \cup Shr(Rk10(a), 16), Rk8(a, TweakA(a)))
\* rk5, but for its low byte
Rk5(a) ==
  Mask(Xor(Shl(Rk10(a), 8, 32), Rk9(a, TweakA(a))), 16, 24)
  \cup Shl(Xor(Xor(Mask(Rk10(a), 0, 8), {1}), SBOX[Mask(Rk9(a, TweakA(a)), 0, 8)]), 8, 32)

-----------------------------------------------------------------------------
(* A lane, which tries byte as the low byte of round key 5, for a value of   *)
(* round key 6.                                                              *)

Rk6(a, rk6, tweak) == Xor(rk6, RoundTweakOf(a, tweak, 6))

LaneRk5(a, byte) ==
  [msb |-> A0(Rk5(a)), mid |-> A1(Rk5(a)),
   lsb |-> Xor(ByteAt(RoundTweakOf(a, TweakA(a), 5), 0), byte)]

LaneRk2(a, rk6) ==
  LET rk6a == Rk6(a, rk6, TweakA(a))
  IN  [msb |-> ByteAt(Xor(Shr(Rk7(a), 8), Shr(rk6a, 16)), 0),
       mid |-> ByteAt(Xor(Rk7(a), Shr(rk6a, 8)), 0),
       lsb |-> ByteAt(Xor(Shr(Rk8(a, TweakA(a)), 16), rk6a), 0)]

\* statea and stateb after the last round
LaneState(a, ct, tweak, byte, rk6) ==
  LET x5 == DecryptRound(X6(a, ct, tweak), Rk6(a, rk6, tweak))
  IN  bitslice_inv_round(bitslice_inv_round(bitslice_inv_round(bitslice_inv_round(
        Lane(x5), LaneRk5(a, byte)), Lane(Rk4(a))), Lane(Rk3(a))), LaneRk2(a, rk6))

\* The lane's bit of cmp: b1 of the middle byte of stateb is flipped before the
\* comparison.
LaneMatches(a, byte, rk6) ==
  LET statea == LaneState(a, a.cta, TweakA(a), byte, rk6)
      stateb == LaneState(a, a.ctb, TweakB(a), byte, rk6)
  IN  xor24(statea, [stateb EXCEPT !.mid = Xor(@, {6})])
        = [msb |-> {}, mid |-> {}, lsb |-> {}]

\* The keys of the lanes that match.
KeyOfLane(a, byte, rk6) ==
  RevertKey(Shl(byte, 24, 32) \cup rk6, a.rk7n, a.rk8n, a.rk9n, a.rk10n)

\* What halfloop_bitslice returns in found.
halfloop_bitslice(a) ==
  {key \in {KeyOfLane(a, p[1], p[2]) :
              p \in {q \in Byte \X State : LaneMatches(a, q[1], q[2])}} :
     halfloop_decrypt(a.cta, key, a.tw) \in ValidPlaintexts}

\* What it is to find.
KeysToFind(a) ==
  {key \in Keys :
     /\ RoundKey(key, {}, 7) = a.rk7n
     /\ RoundKey(key, {}, 8) = a.rk8n
     /\ RoundKey(key, {}, 9) = a.rk9n
     /\ RoundKey(key, {}, 10) = a.rk10n
     /\ halfloop_decrypt(a.cta, key, TweakA(a)) = halfloop_decrypt(a.ctb, key, TweakB(a))
     /\ halfloop_decrypt(a.cta, key, TweakA(a)) \in ValidPlaintexts}
=============================================================================
