------------------------------- MODULE KeyPartition -------------------------------
(*****************************************************************************)
(* How the two bitsliced searches divide the values of round key 6 and of    *)
(* the low byte of round key 5 among threads, loop iterations and lanes, and *)
(* how they put the values that match together again.                        *)
(*                                                                           *)
(* bitslice_kernel on the GPU: 65536 threads, each with 2048 iterations over *)
(* rk6 and 32 lanes of a u32.  halfloop_bitslice on the CPU: 2^24 iterations *)
(* and 256 lanes of a u256, stored as four words of 64 bits.                 *)
(*                                                                           *)
(* The rounds are those of BitsliceSearch: they operate on each lane alone,  *)
(* so whether a lane ends with equal plaintexts depends on the rk6 and the   *)
(* byte it tries.  Equal is the set of the pairs for which it does.          *)
(*****************************************************************************)
EXTENDS Words

Pow24 == 16777216      \* 1 << 24
Rk6s == Below(Pow24)
LowByte == Below(256)
KeyParts == LowByte \X Rk6s

\* Bit of n with the weight w: a mask of lanes like 0xFFFF0000 (weight 16) or
\* 0xAAAAAAAA (weight 1) has the bit of lane l set iff l has the bit w set.
Bit(n, w) == (n \div w) % 2

-----------------------------------------------------------------------------
(* bitslice_kernel.                                                          *)

Index == Below(65536)       \* blockIdx.x * blockDim.x + threadIdx.x
Iteration == Below(2048)    \* of the loop over rk6, in steps of 8192
GpuLane == Below(32)

\* rk6 | (idx >> 3): the low 13 bits of rk6 are 0, idx >> 3 has no others.
KernelRk6(idx, it) == 8192 * it + idx \div 8

\* rk.lsb without the tweak's bits, b0 (the most significant bit) to b7.
KernelByte(idx, lane) ==
  128 * Bit(idx, 4) + 64 * Bit(idx, 2) + 32 * Bit(idx, 1)
  + 16 * Bit(lane, 16) + 8 * Bit(lane, 8) + 4 * Bit(lane, 4)
  + 2 * Bit(lane, 2) + Bit(lane, 1)

\* hi3 | (low5 << 24) | (rk6a ^ twa[6]): the three have no bit in common.
KernelWord(idx, it, lane) ==
  32 * Pow24 * (idx % 8) + Pow24 * lane + KernelRk6(idx, it)

\* What the kernel puts into found, in whatever order.
KernelFound(Equal) ==
  {KernelWord(s[1], s[2], s[3]) :
     s \in {r \in Index \X Iteration \X GpuLane :
              <<KernelByte(r[1], r[3]), KernelRk6(r[1], r[2])>> \in Equal}}

-----------------------------------------------------------------------------
(* halfloop_bitslice.                                                        *)

CmpWord == Below(4)         \* cmpa[0 .. 3], the lanes 64 * i to 64 * i + 63
Position == Below(64)       \* FFSL(cmpa[i]) - 1

\* rk.lsb: the masks of b0 and b1 are whole words, of b2 to b7 the same for all.
CpuByte(i, low6) ==
  128 * Bit(i, 2) + 64 * Bit(i, 1)
  + 32 * Bit(low6, 32) + 16 * Bit(low6, 16) + 8 * Bit(low6, 8)
  + 4 * Bit(low6, 4) + 2 * Bit(low6, 2) + Bit(low6, 1)

\* (((i << 6) | low6) << 24) | rk6
CpuWord(i, low6, rk6) == Pow24 * (64 * i + low6) + rk6

\* The rk56 that halfloop_bitslice reverts to keys, in ascending order of rk6.
CpuFound(Equal) ==
  {CpuWord(s[1], s[2], s[3]) :
     s \in {r \in CmpWord \X Position \X Rk6s : <<CpuByte(r[1], r[2]), r[3]>> \in Equal}}

-----------------------------------------------------------------------------
(* halfloop_bitslice_revert_key: rk56 << 24 | rk7 are the low 56 bits of     *)
(* key1.hi; the upper eight of rk56 are the low byte of round key 5.         *)

ByteOf(rk56) == rk56 \div Pow24
Rk6Of(rk56) == rk56 % Pow24
Rk56Of(part) == Pow24 * part[1] + part[2]
=============================================================================
