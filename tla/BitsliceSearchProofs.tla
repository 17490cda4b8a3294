---------------------------- MODULE BitsliceSearchProofs ----------------------------
(*****************************************************************************)
(* Proofs about the key schedule, the cipher and the bitsliced search, for   *)
(* all S-boxes that are inverse to each other, all keys and all tweaks:      *)
(*                                                                           *)
(* - the round tweaks are the differences that a tweak makes, and a key      *)
(*   schedule and its reversal are inverse to each other;                    *)
(* - decryption undoes encryption;                                           *)
(* - the search for the rest of a key finds exactly the keys that it should, *)
(*   and the threads, iterations and lanes divide the values of round key 6  *)
(*   and of a byte of round key 5 among them.                                *)
(*                                                                           *)
(* Words are shown to be equal bit by bit.  Each operator on words is        *)
(* expanded where a bit of its result is needed, and nowhere else.           *)
(*****************************************************************************)
EXTENDS BitsliceSearch, KeyPartition, TLAPS

-----------------------------------------------------------------------------
(* The key schedule.                                                         *)

\* Words are equal if they have the same bits.
LEMMA SameBits ==
  ASSUME NEW w \in Nat, NEW x \in Word(w), NEW y \in Word(w),
         \A b \in Below(w) : b \in x <=> b \in y
  PROVE  x = y
BY DEF Word

\* The operators keep the width of a word.
LEMMA Closed ==
  ASSUME NEW w \in Nat, NEW x \in Word(w)
  PROVE  /\ \A y \in Word(w) : Xor(x, y) \in Word(w)
         /\ \A n \in Nat : Shr(x, n) \in Word(w)
         /\ \A lo, hi \in Nat : Mask(x, lo, hi) \in Word(w)
<1>1. \A y \in Word(w) : Xor(x, y) \in Word(w)
  BY DEF Xor, Word
<1>2. ASSUME NEW n \in Nat, NEW b \in Shr(x, n)
      PROVE  b \in Below(w)
  <2>1. b \in Nat /\ b + n \in Below(w)
    BY <1>2 DEF Shr, Word
  <2> QED
    BY <2>1, SMT DEF Below
<1>3. \A lo, hi \in Nat : Mask(x, lo, hi) \in Word(w)
  BY DEF Mask, Word
<1> QED
  BY <1>1, <1>2, <1>3 DEF Word

\* The cast to the width bounds a shift to the left.
LEMMA ShlClosed ==
  \A x, n : \A width \in Nat : Shl(x, n, width) \in Word(width)
BY DEF Shl, Word

\* key_schedule_g returns a word of 32 bits.
LEMMA GType ==
  ASSUME SboxType, NEW word, NEW rc \in Word(8)
  PROVE  G(word, rc) \in Word(32)
<1>1. \A lo \in Nat : ByteAt(word, lo) \in Word(8)
  BY DEF ByteAt, Mask, Shr, Word, Below
<1>2. \A lo \in Nat : SBOX[ByteAt(word, lo)] \in Word(8)
  BY <1>1 DEF SboxType
<1>3. SBOX[ByteAt(word, 24)] \in Word(32)
  BY <1>2, SMT DEF Word, Below
<1> QED
  BY <1>3, SMT DEF G, Xor, Shl, Word, Below

\* The same for the two round constants.
LEMMA GBits ==
  ASSUME SboxType, NEW word
  PROVE  G(word, {0}) \in Word(32) /\ G(word, {1}) \in Word(32)
<1>1. {0} \in Word(8) /\ {1} \in Word(8)
  BY SMT DEF Word, Below
<1> QED
  BY <1>1, GType

\* The upper byte of what key_schedule_g returns.
LEMMA GTop ==
  ASSUME SboxType, NEW word, NEW rc \in Word(8), NEW b \in Nat
  PROVE  b \in Shr(G(word, rc), 24) <=> b \in Xor(SBOX[ByteAt(word, 16)], rc)
<1>1. \A lo \in Nat : ByteAt(word, lo) \in Word(8)
  BY DEF ByteAt, Mask, Shr, Word, Below
<1>2. \A lo \in Nat : SBOX[ByteAt(word, lo)] \in Word(8)
  BY <1>1 DEF SboxType
<1> DEFINE s0 == SBOX[ByteAt(word, 0)]  s1 == SBOX[ByteAt(word, 8)]
           s2 == SBOX[ByteAt(word, 16)] s3 == SBOX[ByteAt(word, 24)]
<1>3. s0 \in Word(8) /\ s1 \in Word(8) /\ s2 \in Word(8) /\ s3 \in Word(8)
  BY <1>2
<1>4. G(word, rc) = Xor(Xor(Shl(Xor(s2, rc), 24, 32), Shl(s1, 16, 32)),
                        Xor(Shl(s0, 8, 32), s3))
  BY DEF G
<1> HIDE DEF s0, s1, s2, s3
<1>5. b \in Shr(G(word, rc), 24) <=> b \in Xor(s2, rc)
  BY <1>3, <1>4, SMT DEF Xor, Shl, Shr, Word, Below
<1> QED
  BY <1>5 DEF s2

-----------------------------------------------------------------------------
(* Mixed and Unmixed, bit by bit.                                            *)

\* The bits of key.hi or key.lo after key_schedule has mixed it.
LEMMA MixedBits ==
  ASSUME NEW half \in Word(64), NEW word \in Word(64)
  PROVE  LET m == Mixed(half, Mask(word, 0, 32))
         IN  /\ m \in Word(64)
             /\ \A b \in Nat : b < 32 =>
                  (b \in m <=> ~(b \in half <=> ~(b + 32 \in half <=> b \in word)))
             /\ \A b \in Nat : 32 <= b /\ b < 64 =>
                  (b \in m <=> ~(b \in half <=> b - 32 \in word))
<1> DEFINE f == Mask(word, 0, 32)
           x == Xor(half, Shl(f, 32, 64))
<1>1. x \in Word(64)
  BY Closed, ShlClosed
<1>2. \A b \in Nat : b < 32 => (b \in x <=> b \in half)
  BY SMT DEF Xor, Shl, Below
<1>3. \A b \in Nat : 32 <= b /\ b < 64 => (b \in x <=> ~(b \in half <=> b - 32 \in f))
  BY SMT DEF Xor, Shl, Below
<1>4. \A b \in Nat : b < 32 => (b \in f <=> b \in word)
  BY SMT DEF Mask
<1>5. Mixed(half, f) = Xor(x, Shr(x, 32))
  BY DEF Mixed
<1> HIDE DEF x, f
<1>6. Mixed(half, f) \in Word(64)
  BY <1>1, <1>5, Closed
<1>7. \A b \in Nat : b \in Mixed(half, f) <=> ~(b \in x <=> b + 32 \in x)
  BY <1>5, SMT DEF Xor, Shr
<1>8. ASSUME NEW b \in Nat, b < 32
      PROVE  b \in Mixed(half, f) <=> ~(b \in half <=> ~(b + 32 \in half <=> b \in word))
  <2>1. b + 32 \in x <=> ~(b + 32 \in half <=> b \in f)
    BY <1>3, <1>8, SMT
  <2> QED
    BY <1>2, <1>4, <1>7, <1>8, <2>1
<1>9. ASSUME NEW b \in Nat, 32 <= b, b < 64
      PROVE  b \in Mixed(half, f) <=> ~(b \in half <=> b - 32 \in word)
  <2>1. b + 32 \notin x
    BY <1>1, <1>9, SMT DEF Word, Below
  <2>2. b - 32 \in f <=> b - 32 \in word
    BY <1>4, <1>9, SMT
  <2> QED
    BY <1>3, <1>7, <1>9, <2>1, <2>2
<1> QED
  BY <1>6, <1>8, <1>9 DEF f

\* The bits of what halfloop_bitslice_revert_key computes of a half.
LEMMA UnmixedBits ==
  ASSUME NEW half \in Word(64), NEW word \in Word(64)
  PROVE  LET u == Unmixed(half, word)
         IN  /\ u \in Word(64)
             /\ \A b \in Nat : b < 32 =>
                  (b \in u <=> ~(b \in half <=> b + 32 \in half))
             /\ \A b \in Nat : 32 <= b /\ b < 64 =>
                  (b \in u <=> ~(b \in half <=> b - 32 \in word))
<1> DEFINE x == Xor(Shr(half, 32), Mask(half, 0, 32))
           y == Shl(Xor(Shr(half, 32), word), 32, 64)
<1>1. x \in Word(64) /\ y \in Word(64)
  BY Closed, ShlClosed
<1>2. \A b \in Nat : b \in x <=> b < 32 /\ ~(b \in half <=> b + 32 \in half)
  BY SMT DEF Xor, Shr, Mask, Word, Below
<1>3. \A b \in Nat : b \in y <=> 32 <= b /\ b < 64 /\ ~(b \in half <=> b - 32 \in word)
  BY SMT DEF Xor, Shr, Shl, Below
<1>4. Unmixed(half, word) = x \cup y
  BY DEF Unmixed
<1> HIDE DEF x, y
<1> QED
  BY <1>1, <1>2, <1>3, <1>4, SMT DEF Word

\* The reversal of a half undoes what key_schedule has mixed into it.
LEMMA UnmixedMixed ==
  ASSUME NEW half \in Word(64), NEW word \in Word(64)
  PROVE  Unmixed(Mixed(half, Mask(word, 0, 32)), word) = half
<1> DEFINE m == Mixed(half, Mask(word, 0, 32))
           u == Unmixed(m, word)
<1>1. /\ m \in Word(64)
      /\ \A b \in Nat : b < 32 =>
            (b \in m <=> ~(b \in half <=> ~(b + 32 \in half <=> b \in word)))
      /\ \A b \in Nat : 32 <= b /\ b < 64 => (b \in m <=> ~(b \in half <=> b - 32 \in word))
  BY MixedBits
<1> HIDE DEF m
<1>2. /\ u \in Word(64)
      /\ \A b \in Nat : b < 32 => (b \in u <=> ~(b \in m <=> b + 32 \in m))
      /\ \A b \in Nat : 32 <= b /\ b < 64 => (b \in u <=> ~(b \in m <=> b - 32 \in word))
  BY <1>1, UnmixedBits
<1> HIDE DEF u
<1>3. ASSUME NEW b \in Nat, b < 32
      PROVE  b \in u <=> b \in half
  <2>1. b + 32 \in m <=> ~(b + 32 \in half <=> b \in word)
    BY <1>1, <1>3, SMT
  <2> QED
    BY <1>1, <1>2, <1>3, <2>1
<1>4. ASSUME NEW b \in Nat, 32 <= b, b < 64
      PROVE  b \in u <=> b \in half
  BY <1>1, <1>2, <1>4
<1>5. \A b \in Below(64) : b \in u <=> b \in half
  BY <1>3, <1>4, SMT DEF Below
<1> QED
  BY <1>2, <1>5, SameBits DEF u, m

\* And the other way round.
LEMMA MixedUnmixed ==
  ASSUME NEW half \in Word(64), NEW word \in Word(64)
  PROVE  Mixed(Unmixed(half, word), Mask(word, 0, 32)) = half
<1> DEFINE u == Unmixed(half, word)
           m == Mixed(u, Mask(word, 0, 32))
<1>1. /\ u \in Word(64)
      /\ \A b \in Nat : b < 32 => (b \in u <=> ~(b \in half <=> b + 32 \in half))
      /\ \A b \in Nat : 32 <= b /\ b < 64 => (b \in u <=> ~(b \in half <=> b - 32 \in word))
  BY UnmixedBits
<1> HIDE DEF u
<1>2. /\ m \in Word(64)
      /\ \A b \in Nat : b < 32 =>
            (b \in m <=> ~(b \in u <=> ~(b + 32 \in u <=> b \in word)))
      /\ \A b \in Nat : 32 <= b /\ b < 64 => (b \in m <=> ~(b \in u <=> b - 32 \in word))
  BY <1>1, MixedBits
<1> HIDE DEF m
<1>3. ASSUME NEW b \in Nat, b < 32
      PROVE  b \in m <=> b \in half
  <2>1. b + 32 \in u <=> ~(b + 32 \in half <=> b \in word)
    BY <1>1, <1>3, SMT
  <2> QED
    BY <1>1, <1>2, <1>3, <2>1
<1>4. ASSUME NEW b \in Nat, 32 <= b, b < 64
      PROVE  b \in m <=> b \in half
  BY <1>1, <1>2, <1>4
<1>5. \A b \in Below(64) : b \in m <=> b \in half
  BY <1>3, <1>4, SMT DEF Below
<1> QED
  BY <1>2, <1>5, SameBits DEF u, m

\* A word of 32 bits is its lower 32 bits, and is a word of 64 bits too.
LEMMA Narrow ==
  ASSUME NEW w \in Word(32)
  PROVE  w \in Word(64) /\ Mask(w, 0, 32) = w
<1>1. \A b \in w : b \in Nat /\ b < 32
  BY DEF Word, Below
<1>2. w \in Word(64)
  BY <1>1, SMT DEF Word, Below
<1> QED
  BY <1>1, <1>2, SMT DEF Mask

-----------------------------------------------------------------------------
(* The difference that a tweak makes in key.hi and key.lo, where the S-box   *)
(* is not applied.                                                           *)

TweakHi(tweak) == Xor(tweak, Shr(tweak, 32))
TweakLo(tweak) ==
  LET lo == Shl(Mask(TweakHi(tweak), 0, 32), 32, 64) IN Xor(lo, Shr(lo, 32))

\* A difference in a half and in the word mixed into it.
LEMMA MixedDifference ==
  ASSUME NEW half \in Word(64), NEW word \in Word(64),
         NEW dhalf \in Word(64), NEW dword \in Word(64)
  PROVE  Mixed(Xor(half, dhalf), Mask(Xor(word, dword), 0, 32))
           = Xor(Mixed(half, Mask(word, 0, 32)), Mixed(dhalf, Mask(dword, 0, 32)))
<1> DEFINE x == Mixed(Xor(half, dhalf), Mask(Xor(word, dword), 0, 32))
           m == Mixed(half, Mask(word, 0, 32))
           d == Mixed(dhalf, Mask(dword, 0, 32))
<1>1. Xor(half, dhalf) \in Word(64) /\ Xor(word, dword) \in Word(64)
  BY Closed
<1>2. x \in Word(64) /\ m \in Word(64) /\ d \in Word(64)
  BY <1>1, MixedBits
<1>3. Xor(m, d) \in Word(64)
  <2> HIDE DEF m, d
  <2> QED BY <1>2, Closed
<1>4. ASSUME NEW b \in Nat, b < 32
      PROVE  b \in x <=> ~(b \in m <=> b \in d)
  <2>1. /\ b \in x <=> ~(b \in Xor(half, dhalf)
                           <=> ~(b + 32 \in Xor(half, dhalf) <=> b \in Xor(word, dword)))
        /\ b \in m <=> ~(b \in half <=> ~(b + 32 \in half <=> b \in word))
        /\ b \in d <=> ~(b \in dhalf <=> ~(b + 32 \in dhalf <=> b \in dword))
    BY <1>1, <1>4, MixedBits
  <2> HIDE DEF x, m, d
  <2> QED
    BY <2>1 DEF Xor
<1>5. ASSUME NEW b \in Nat, 32 <= b, b < 64
      PROVE  b \in x <=> ~(b \in m <=> b \in d)
  <2>1. /\ b \in x <=> ~(b \in Xor(half, dhalf) <=> b - 32 \in Xor(word, dword))
        /\ b \in m <=> ~(b \in half <=> b - 32 \in word)
        /\ b \in d <=> ~(b \in dhalf <=> b - 32 \in dword)
    BY <1>1, <1>5, MixedBits
  <2> HIDE DEF x, m, d
  <2> QED
    BY <2>1 DEF Xor
<1> HIDE DEF x, m, d
<1>6. \A b \in Below(64) : b \in x <=> b \in Xor(m, d)
  <2>1. \A b \in Below(64) : b \in x <=> ~(b \in m <=> b \in d)
    BY <1>4, <1>5, SMT DEF Below
  <2> QED
    BY <2>1 DEF Xor
<1> QED
  BY <1>2, <1>3, <1>6, SameBits DEF x, m, d

\* key.hi after the first of its two changes.
LEMMA TweakedHi ==
  ASSUME NEW key \in Keys, NEW tweak \in Word(64), SboxType
  PROVE  /\ Hi1(key, tweak) \in Word(64)
         /\ Hi1(key, tweak) = Xor(Hi1(key, {}), TweakHi(tweak))
<1> DEFINE g == G(Mask(key.lo, 0, 32), {0})
<1>1. key.hi \in Word(64) /\ g \in Word(32) /\ {} \in Word(64)
  BY GBits DEF Keys, Word
<1>2. g \in Word(64) /\ Mask(g, 0, 32) = g
  <2> HIDE DEF g
  <2> QED BY <1>1, Narrow
<1>3. \A t \in Word(64) : Hi1(key, t) = Mixed(Xor(key.hi, t), Mask(g, 0, 32))
  BY <1>2 DEF Hi1, Hi0
<1> HIDE DEF g
<1>4. \A x : Xor(x, {}) = x
  BY DEF Xor
<1>5. Hi1(key, tweak) = Xor(Mixed(key.hi, Mask(g, 0, 32)), Mixed(tweak, Mask({}, 0, 32)))
  <2>1. Mixed(Xor(key.hi, tweak), Mask(Xor(g, {}), 0, 32))
          = Xor(Mixed(key.hi, Mask(g, 0, 32)), Mixed(tweak, Mask({}, 0, 32)))
    BY <1>1, <1>2, MixedDifference
  <2> QED
    BY <1>3, <1>4, <2>1
<1>6. Hi1(key, {}) = Mixed(key.hi, Mask(g, 0, 32))
  BY <1>1, <1>3, <1>4
<1>7. Mixed(tweak, Mask({}, 0, 32)) = TweakHi(tweak)
  <2>1. Shl(Mask({}, 0, 32), 32, 64) = {}
    BY DEF Shl, Mask
  <2> QED
    BY <1>4, <2>1 DEF Mixed, TweakHi
<1>8. Xor(key.hi, tweak) \in Word(64)
  BY <1>1, Closed
<1> QED
  BY <1>2, <1>3, <1>5, <1>6, <1>7, <1>8, MixedBits

\* key.lo after its change.
LEMMA TweakedLo ==
  ASSUME NEW key \in Keys, NEW tweak \in Word(64), SboxType
  PROVE  /\ Lo1(key, tweak) \in Word(64)
         /\ Lo1(key, tweak) = Xor(Lo1(key, {}), TweakLo(tweak))
<1> DEFINE h == Hi1(key, {})
           d == TweakHi(tweak)
<1>1. key.lo \in Word(64) /\ h \in Word(64) /\ {} \in Word(64)
  BY TweakedHi DEF Keys, Word
<1>2. Hi1(key, tweak) \in Word(64) /\ Hi1(key, tweak) = Xor(h, d)
  BY TweakedHi
<1>3. d \in Word(64)
  BY Closed DEF TweakHi
<1>4. Lo1(key, tweak) = Mixed(key.lo, Mask(Xor(h, d), 0, 32))
  BY <1>2 DEF Lo1
<1>5. Lo1(key, {}) = Mixed(key.lo, Mask(h, 0, 32))
  BY DEF Lo1
<1>6. Lo1(key, tweak) \in Word(64)
  BY <1>1, <1>2, MixedBits DEF Lo1
<1> HIDE DEF h, d
<1>7. /\ \A x : Xor(x, {}) = x
      /\ \A x : Xor({}, x) = x
  BY DEF Xor
<1>8. Lo1(key, tweak) = Xor(Lo1(key, {}), Mixed({}, Mask(d, 0, 32)))
  <2>1. Mixed(Xor(key.lo, {}), Mask(Xor(h, d), 0, 32))
          = Xor(Mixed(key.lo, Mask(h, 0, 32)), Mixed({}, Mask(d, 0, 32)))
    BY <1>1, <1>3, MixedDifference
  <2> QED
    BY <1>4, <1>5, <1>7, <2>1
<1>9. Mixed({}, Mask(d, 0, 32)) = TweakLo(tweak)
  BY <1>7 DEF Mixed, TweakLo, d
<1> QED
  BY <1>6, <1>8, <1>9

-----------------------------------------------------------------------------
(* The tweaks of the rounds.                                                 *)

\* What a tweak changes in a round key does not depend on the key: for the
\* rounds 0 to 9, halfloop_round_tweak is the difference that key_schedule makes.
THEOREM RoundTweakCorrect ==
  ASSUME SboxType, NEW key \in Keys, NEW tweak \in Word(64), NEW r \in 0 .. 9
  PROVE  RoundKey(key, tweak, r) = Xor(RoundKey(key, {}, r), RoundTweak(tweak, r))
<1> DEFINE h == Hi1(key, {})
           l == Lo1(key, {})
<1>1. Hi1(key, tweak) = Xor(h, TweakHi(tweak)) /\ Lo1(key, tweak) = Xor(l, TweakLo(tweak))
  BY TweakedHi, TweakedLo
<1>2. h \in Word(64) /\ l \in Word(64) /\ key.hi \in Word(64) /\ key.lo \in Word(64)
  BY TweakedHi, TweakedLo DEF Keys, Word
<1> HIDE DEF h, l
<1> USE DEF RoundKey, RoundTweak, Hi0, Xor, Shl, Shr, Mask, Word, Below
<1>3. CASE r \in {0, 1}
  BY <1>2, <1>3, SMT
<1>4. CASE r = 2
  BY <1>2, <1>4, SMT
<1>5. CASE r \in {3, 4}
  BY <1>2, <1>5, SMT
<1>6. CASE r \in {5, 6}
  BY <1>1, <1>2, <1>6, SMT DEF TweakHi, h
<1>7. CASE r = 7
  BY <1>1, <1>2, <1>7, SMT DEF TweakHi, h
<1>8. CASE r = 8
  BY <1>1, <1>2, <1>8, SMT DEF TweakLo, TweakHi, l
<1>9. CASE r = 9
  BY <1>1, <1>2, <1>9, SMT DEF TweakLo, TweakHi, l
<1> QED BY <1>3, <1>4, <1>5, <1>6, <1>7, <1>8, <1>9

\* halfloop_round10_tweak is the difference that a tweak makes in round key 10,
\* given the low byte of round key 9 without tweak.
THEOREM Round10TweakCorrect ==
  ASSUME SboxType, NEW key \in Keys, NEW tweak \in Word(64)
  PROVE  RoundKey(key, tweak, 10)
           = Xor(RoundKey(key, {}, 10),
                 Round10Tweak(tweak, ByteAt(RoundKey(key, {}, 9), 0)))
<1> DEFINE h == Hi1(key, {})
           l == Lo1(key, {})
           lt == Lo1(key, tweak)
           s == SBOX[ByteAt(Mask(l, 0, 32), 16)]
           st == SBOX[ByteAt(Mask(lt, 0, 32), 16)]
           g == G(Mask(l, 0, 32), {1})
           gt == G(Mask(lt, 0, 32), {1})
<1>1. Hi1(key, tweak) = Xor(h, TweakHi(tweak)) /\ lt = Xor(l, TweakLo(tweak))
  BY TweakedHi, TweakedLo
<1>2. h \in Word(64) /\ l \in Word(64) /\ lt \in Word(64)
  BY TweakedHi, TweakedLo DEF Word
<1>3. g \in Word(32) /\ gt \in Word(32)
  BY GBits
<1>4. /\ \A b \in Nat : b \in Shr(g, 24) <=> b \in Xor(s, {1})
      /\ \A b \in Nat : b \in Shr(gt, 24) <=> b \in Xor(st, {1})
  <2> {1} \in Word(8)
    BY SMT DEF Word, Below
  <2> QED BY GTop
<1>5. s \in Word(8) /\ st \in Word(8)
  BY SMT DEF SboxType, ByteAt, Mask, Shr, Word, Below
<1>6. ByteAt(RoundKey(key, {}, 9), 0) = ByteAt(Mask(l, 0, 32), 16)
  BY <1>2, SMT DEF RoundKey, ByteAt, Mask, Shr, Word, Below
<1>7. Mask(Xor(Xor(ByteAt(RoundKey(key, {}, 9), 0), Shr(tweak, 16)), Shr(tweak, 48)), 0, 8)
        = ByteAt(Mask(lt, 0, 32), 16)
  <2> HIDE DEF l, lt
  <2> QED
  BY <1>1, <1>2, <1>6, SMT DEF TweakLo, TweakHi, ByteAt, Xor, Shl, Mask, Shr, Word, Below
<1>8. Round10Tweak(tweak, ByteAt(RoundKey(key, {}, 9), 0))
        = Mask(Xor(Shl(tweak, 8, 64), Shr(tweak, 24)), 8, 24)
          \cup Xor(Xor(Shr(tweak, 56), s), st)
  BY <1>6, <1>7 DEF Round10Tweak
<1>9. /\ RoundKey(key, {}, 10)
           = Mask(Shl(l, 8, 64), 8, 24) \cup Shr(Xor(h, Shl(g, 32, 64)), 56)
      /\ RoundKey(key, tweak, 10)
           = Mask(Shl(lt, 8, 64), 8, 24)
             \cup Shr(Xor(Xor(h, TweakHi(tweak)), Shl(gt, 32, 64)), 56)
  BY <1>1 DEF RoundKey, Hi2
<1> HIDE DEF h, l, lt, s, st, g, gt
<1>10. \A b \in Nat :
         /\ b \in RoundKey(key, {}, 10) <=>
              \/ 8 <= b /\ b < 24 /\ b - 8 \in l
              \/ b < 8 /\ ~(b + 56 \in h <=> b \in Xor(s, {1}))
         /\ b \in RoundKey(key, tweak, 10) <=>
              \/ 8 <= b /\ b < 24 /\ b - 8 \in lt
              \/ b < 8 /\ ~(b + 56 \in Xor(h, TweakHi(tweak)) <=> b \in Xor(st, {1}))
  BY <1>2, <1>3, <1>4, <1>9, SMT DEF TweakHi, Xor, Shl, Shr, Mask, Word, Below
<1>11. \A b \in Nat : b \in lt <=> ~(b \in l <=> b \in TweakLo(tweak))
  BY <1>1 DEF Xor
<1>12. ASSUME NEW b \in Nat
       PROVE  b \in RoundKey(key, tweak, 10) <=>
                ~(b \in RoundKey(key, {}, 10)
                    <=> b \in Round10Tweak(tweak, ByteAt(RoundKey(key, {}, 9), 0)))
  BY <1>2, <1>5, <1>8, <1>10, <1>11, SMT
     DEF TweakLo, TweakHi, Xor, Shl, Shr, Mask, Word, Below
<1> QED
  <2>1. /\ \A x, n, w : Shl(x, n, w) \subseteq Nat /\ Shr(x, n) \subseteq Nat
        /\ \A x, lo, hi : Mask(x, lo, hi) \subseteq x
        /\ \A x, y \in SUBSET Nat : Xor(x, y) \subseteq Nat
    BY DEF Shl, Shr, Mask, Xor, Below
  <2>2. RoundKey(key, tweak, 10) \subseteq Nat /\ RoundKey(key, {}, 10) \subseteq Nat
    BY <1>9, <2>1
  <2>3. Xor(Shl(tweak, 8, 64), Shr(tweak, 24)) \subseteq Nat
    BY <2>1
  <2>4. s \subseteq Nat /\ st \subseteq Nat
    BY <1>5 DEF Word, Below
  <2>5. Xor(Xor(Shr(tweak, 56), s), st) \subseteq Nat
    BY <2>1, <2>4
  <2>6. Mask(Xor(Shl(tweak, 8, 64), Shr(tweak, 24)), 8, 24) \subseteq Nat
    BY <2>1, <2>3
  <2> HIDE DEF s, st
  <2>7. Round10Tweak(tweak, ByteAt(RoundKey(key, {}, 9), 0)) \subseteq Nat
    BY <1>8, <2>5, <2>6
  <2> QED BY <1>12, <2>2, <2>7 DEF Xor

-----------------------------------------------------------------------------
(* The reversal of the key schedule.                                         *)

\* Reversing the key schedule gives the key: from round keys 6 to 10 without
\* tweak and the low byte of round key 5.
THEOREM RevertIsInverse ==
  ASSUME SboxType, NEW key \in Keys
  PROVE  RevertKey(Rk56(key), RoundKey(key, {}, 7), RoundKey(key, {}, 8),
                   RoundKey(key, {}, 9), RoundKey(key, {}, 10)) = key
<1> DEFINE h == Hi1(key, {})
           l == Lo1(key, {})
           g0 == G(Mask(key.lo, 0, 32), {0})
           g1 == G(Mask(l, 0, 32), {1})
<1>1. {} \in Word(64)
  BY DEF Word
<1>2. h \in Word(64) /\ l \in Word(64) /\ key.hi \in Word(64) /\ key.lo \in Word(64)
  BY <1>1, TweakedHi, TweakedLo DEF Keys
<1>3. g0 \in Word(32) /\ g1 \in Word(32)
  BY GBits
<1>4. h = Mixed(key.hi, Mask(g0, 0, 32)) /\ l = Mixed(key.lo, Mask(h, 0, 32))
  <2>1. Xor(key.hi, {}) = key.hi
    BY DEF Xor
  <2>2. Mask(g0, 0, 32) = g0
    <3> HIDE DEF g0
    <3> QED BY <1>3, Narrow
  <2> QED BY <2>1, <2>2 DEF Hi1, Hi0, Lo1
<1>5. /\ RoundKey(key, {}, 7) = Mask(h, 0, 24)
      /\ RoundKey(key, {}, 8) = Shr(l, 40)
      /\ RoundKey(key, {}, 9) = Mask(Shr(l, 16), 0, 24)
      /\ RoundKey(key, {}, 10) = Mask(Shl(l, 8, 64), 8, 24)
                                  \cup Shr(Xor(h, Shl(g1, 32, 64)), 56)
      /\ Rk56(key) = Shl(ByteAt(Shl(Mask(key.lo, 0, 8), 16, 32) \cup Shr(h, 48), 0), 24, 32)
                     \cup Mask(Shr(h, 24), 0, 24)
  BY DEF RoundKey, Hi2, Rk56
<1> DEFINE lo == Key1Lo(RoundKey(key, {}, 8), RoundKey(key, {}, 9), RoundKey(key, {}, 10))
           hi == Key1Hi(Rk56(key), RoundKey(key, {}, 7), RoundKey(key, {}, 8),
                        RoundKey(key, {}, 9), RoundKey(key, {}, 10))
<1>6. lo = l
  <2> HIDE DEF h, l, g0, g1
  <2>1. lo = Shl(Shr(l, 40), 40, 64) \cup Shl(Mask(Shr(l, 16), 0, 24), 16, 64)
             \cup Shr(RoundKey(key, {}, 10), 8)
    BY <1>5 DEF Key1Lo
  <2>2. ASSUME NEW b \in Nat
        PROVE  /\ b \in Shl(Shr(l, 40), 40, 64) <=> 40 <= b /\ b \in l
               /\ b \in Shl(Mask(Shr(l, 16), 0, 24), 16, 64) <=> 16 <= b /\ b < 40 /\ b \in l
               /\ b \in Shr(RoundKey(key, {}, 10), 8) <=> b < 16 /\ b \in l
    <3>1. b \in l => b < 64
      BY <1>2 DEF Word, Below
    <3>2. b + 64 \notin h /\ b + 32 \notin g1
      BY <1>2, <1>3, SMT DEF Word, Below
    <3> QED
      BY <1>5, <3>1, <3>2, SMT DEF Xor, Shl, Shr, Mask, Below
  <2>3. lo \in Word(64)
    <3>1. /\ Shl(Shr(l, 40), 40, 64) \in Word(64)
          /\ Shl(Mask(Shr(l, 16), 0, 24), 16, 64) \in Word(64)
      BY ShlClosed
    <3>2. Shr(RoundKey(key, {}, 10), 8) \subseteq l
      BY <2>2 DEF Shr
    <3> QED
      BY <1>2, <2>1, <3>1, <3>2 DEF Word
  <2>4. \A b \in Below(64) : b \in lo <=> b \in l
    BY <2>1, <2>2, SMT DEF Below
  <2> HIDE DEF lo
  <2> QED
    BY <1>2, <2>3, <2>4, SameBits
<1>7. hi = h
  <2>1. hi = Shl(Xor(Shr(g1, 24), RoundKey(key, {}, 10)), 56, 64)
             \cup Shl(Rk56(key), 24, 64) \cup RoundKey(key, {}, 7)
    BY <1>6 DEF Key1Hi
  <2> HIDE DEF h, l, g0, g1, hi
  <2>2. Shl(Xor(Shr(g1, 24), RoundKey(key, {}, 10)), 56, 64) = Mask(h, 56, 64)
    <3>1. ASSUME NEW b \in Below(8)
          PROVE  b \in Xor(Shr(g1, 24), RoundKey(key, {}, 10)) <=> b + 56 \in h
      BY <1>2, <1>3, <1>5, SMT DEF Xor, Shl, Shr, Mask, Word, Below
    <3>2. ASSUME NEW b \in Nat
          PROVE  b \in Shl(Xor(Shr(g1, 24), RoundKey(key, {}, 10)), 56, 64)
                   <=> b \in Mask(h, 56, 64)
      BY <1>2, <3>1, SMT DEF Shl, Mask, Word, Below
    <3>3. Mask(h, 56, 64) \in Word(64)
      BY <1>2, Closed
    <3> QED
      BY <3>2, <3>3, ShlClosed, SameBits DEF Below
  <2>3. Shl(Rk56(key), 24, 64) = Mask(h, 24, 56)
    <3>1. ASSUME NEW b \in Nat
          PROVE  b \in Rk56(key) <=> b < 32 /\ b + 24 \in h
      BY <1>2, <1>5, SMT DEF ByteAt, Shl, Shr, Mask, Word, Below
    <3>2. ASSUME NEW b \in Nat
          PROVE  b \in Shl(Rk56(key), 24, 64) <=> b \in Mask(h, 24, 56)
      BY <1>2, <3>1, SMT DEF Shl, Mask, Word, Below
    <3>3. Mask(h, 24, 56) \in Word(64)
      BY <1>2, Closed
    <3> QED
      BY <3>2, <3>3, ShlClosed, SameBits DEF Below
  <2>4. hi = Mask(h, 56, 64) \cup Mask(h, 24, 56) \cup Mask(h, 0, 24)
    BY <1>5, <2>1, <2>2, <2>3
  <2>5. ASSUME NEW b \in h
        PROVE  b \in Mask(h, 56, 64) \/ b \in Mask(h, 24, 56) \/ b \in Mask(h, 0, 24)
    <3>1. b \in Nat /\ b < 64
      BY <1>2 DEF Word, Below
    <3> QED
      BY <3>1, SMT DEF Mask
  <2> QED
    BY <2>4, <2>5 DEF Mask
<1>8. Unmixed(l, h) = key.lo
  <2> HIDE DEF h, l
  <2> QED BY <1>2, <1>4, UnmixedMixed
<1>9. Unmixed(h, g0) = key.hi
  <2>1. g0 \in Word(64)
    <3> HIDE DEF g0
    <3> QED BY <1>3, Narrow
  <2> HIDE DEF h, l, g0
  <2> QED BY <1>2, <1>4, <2>1, UnmixedMixed
<1> QED
  BY <1>6, <1>7, <1>8, <1>9 DEF RevertKey, Keys

\* And the other way round: whatever round keys it starts from, the reversal
\* gives a key whose schedule has them.
THEOREM ScheduleOfReverted ==
  ASSUME SboxType, NEW rk56 \in Word(32), NEW rk7 \in Word(24), NEW rk8 \in Word(24),
         NEW rk9 \in Word(24), NEW rk10 \in Word(24),
         NEW key, key = RevertKey(rk56, rk7, rk8, rk9, rk10)
  PROVE  /\ key \in Keys
         /\ Rk56(key) = rk56
         /\ RoundKey(key, {}, 7) = rk7
         /\ RoundKey(key, {}, 8) = rk8
         /\ RoundKey(key, {}, 9) = rk9
         /\ RoundKey(key, {}, 10) = rk10
<1> DEFINE lo == Key1Lo(rk8, rk9, rk10)
           hi == Key1Hi(rk56, rk7, rk8, rk9, rk10)
           g1 == G(Mask(lo, 0, 32), {1})
           g0 == G(Mask(key.lo, 0, 32), {0})
<1>1. g0 \in Word(32) /\ g1 \in Word(32)
  BY GBits
<1>2. lo \in Word(64)
  BY SMT DEF Key1Lo, Shl, Shr, Word, Below
<1>3. hi = Shl(Xor(Shr(g1, 24), rk10), 56, 64) \cup Shl(rk56, 24, 64) \cup rk7
  BY DEF Key1Hi
<1>4. hi \in Word(64)
  <2>1. rk7 \in Word(64)
    BY SMT DEF Word, Below
  <2> HIDE DEF hi
  <2> QED
    BY <1>3, <2>1, ShlClosed DEF Word
<1>5. key = [hi |-> Unmixed(hi, g0), lo |-> Unmixed(lo, hi)]
  BY DEF RevertKey
<1>6. g0 \in Word(64) /\ Mask(g0, 0, 32) = g0
  <2> HIDE DEF g0
  <2> QED BY <1>1, Narrow
<1> HIDE DEF lo, hi, g0, g1
<1>7. key \in Keys
  BY <1>2, <1>4, <1>5, <1>6, UnmixedBits DEF Keys
<1>8. Hi1(key, {}) = hi
  <2>1. Hi1(key, {}) = Mixed(key.hi, Mask(g0, 0, 32))
    BY <1>6 DEF Hi1, Hi0, Xor, g0
  <2> QED
    BY <1>4, <1>5, <1>6, <2>1, MixedUnmixed
<1>9. Lo1(key, {}) = lo
  BY <1>2, <1>4, <1>5, <1>8, MixedUnmixed DEF Lo1
<1>10. Hi2(key, {}) = Xor(hi, Shl(g1, 32, 64))
  BY <1>8, <1>9 DEF Hi2, g1
<1>11. RoundKey(key, {}, 7) = rk7
  <2>1. RoundKey(key, {}, 7) = Mask(hi, 0, 24)
    BY <1>8 DEF RoundKey
  <2>2. \A b \in Nat : b < 24 => (b \in hi <=> b \in rk7)
    BY <1>3, SMT DEF Shl
  <2>3. Mask(hi, 0, 24) \in Word(24)
    BY <1>4 DEF Mask, Word, Below
  <2>4. \A b \in Below(24) : b \in Mask(hi, 0, 24) <=> b \in rk7
    BY <2>2, SMT DEF Mask, Below
  <2> QED
    BY <2>1, <2>3, <2>4, SameBits
<1>12. RoundKey(key, {}, 8) = rk8 /\ RoundKey(key, {}, 9) = rk9
  <2>1. RoundKey(key, {}, 8) = Shr(lo, 40) /\ RoundKey(key, {}, 9) = Mask(Shr(lo, 16), 0, 24)
    BY <1>9 DEF RoundKey
  <2>2. /\ Shr(lo, 40) \in Word(24)
        /\ \A b \in Below(24) : b \in Shr(lo, 40) <=> b \in rk8
    BY <1>2, SMT DEF lo, Key1Lo, Shl, Shr, Word, Below
  <2>3. \A b \in Below(24) : b \in Mask(Shr(lo, 16), 0, 24) <=> b \in rk9
    BY SMT DEF lo, Key1Lo, Shl, Shr, Mask, Word, Below
  <2>4. Mask(Shr(lo, 16), 0, 24) \in Word(24)
    BY DEF Mask, Shr, Word, Below
  <2> QED
    BY <2>1, <2>2, <2>3, <2>4, SameBits
<1>13. RoundKey(key, {}, 10) = rk10
  <2>1. RoundKey(key, {}, 10) = Mask(Shl(lo, 8, 64), 8, 24) \cup Shr(Xor(hi, Shl(g1, 32, 64)), 56)
    BY <1>9, <1>10 DEF RoundKey
  <2>2. Mask(Shl(lo, 8, 64), 8, 24) = Mask(rk10, 8, 24)
    <3>1. \A b \in Nat : b < 16 => (b \in lo <=> b + 8 \in rk10)
      BY SMT DEF lo, Key1Lo, Shl, Shr, Word, Below
    <3>2. ASSUME NEW b \in Nat
          PROVE  b \in Mask(Shl(lo, 8, 64), 8, 24) <=> b \in Mask(rk10, 8, 24)
      BY <3>1, SMT DEF Shl, Mask, Below
    <3>3. Mask(Shl(lo, 8, 64), 8, 24) \subseteq Nat /\ Mask(rk10, 8, 24) \subseteq Nat
      BY DEF Shl, Mask, Word, Below
    <3> QED
      BY <3>2, <3>3
  <2>3. ASSUME NEW b \in Nat
        PROVE  b \in Shr(Xor(hi, Shl(g1, 32, 64)), 56) <=> b \in Mask(rk10, 0, 8)
    <3>1. CASE b >= 8
      BY <1>4, <3>1, SMT DEF Shr, Xor, Shl, Mask, Word, Below
    <3>2. CASE b < 8
      <4>1. b + 56 \in hi <=> ~(b + 24 \in g1 <=> b \in rk10)
        BY <1>3, <3>2, SMT DEF Shl, Xor, Shr, Word, Below
      <4>2. b + 56 \in Shl(g1, 32, 64) <=> b + 24 \in g1
        BY <3>2, SMT DEF Shl, Below
      <4>3. b \in Shr(Xor(hi, Shl(g1, 32, 64)), 56) <=> b \in rk10
        BY <4>1, <4>2, SMT DEF Shr, Xor
      <4> QED
        BY <4>3, <3>2, SMT DEF Mask
    <3> QED
      BY <3>1, <3>2
  <2>4. \A b \in rk10 : b \in Nat /\ b < 24
    BY DEF Word, Below
  <2>5. rk10 = Mask(rk10, 8, 24) \cup Mask(rk10, 0, 8)
    BY <2>4, SMT DEF Mask
  <2>6. Shr(Xor(hi, Shl(g1, 32, 64)), 56) = Mask(rk10, 0, 8)
    BY <2>3, <2>4 DEF Shr, Mask
  <2> QED
    BY <2>1, <2>2, <2>5, <2>6
<1>14. Rk56(key) = rk56
  <2>1. Rk56(key) = Shl(ByteAt(Shl(Mask(key.lo, 0, 8), 16, 32) \cup Shr(hi, 48), 0), 24, 32)
                    \cup Mask(Shr(hi, 24), 0, 24)
    BY <1>8 DEF Rk56, RoundKey
  <2>2. \A b \in Nat : b < 32 => (b + 24 \in hi <=> b \in rk56)
    BY <1>3, SMT DEF Shl, Xor, Shr, Word, Below
  <2>3. ASSUME NEW b \in Nat
        PROVE  b \in Rk56(key) <=> b < 32 /\ b + 24 \in hi
    BY <2>1, SMT DEF ByteAt, Shl, Shr, Mask, Word, Below
  <2>4. Rk56(key) \in Word(32)
    BY <2>1, <2>3, SMT DEF Word, Below, Shl, Shr, Mask
  <2>5. \A b \in Below(32) : b \in Rk56(key) <=> b \in rk56
    BY <2>2, <2>3, SMT DEF Below
  <2> QED
    BY <2>4, <2>5, SameBits
<1> QED
  BY <1>7, <1>11, <1>12, <1>13, <1>14

-----------------------------------------------------------------------------
(* The cipher.                                                               *)
(*                                                                           *)
(* The column mixing is the only part with more to it than a permutation.    *)
(* Products are linear (TimesLinear), so that the product of the two         *)
(* matrices can be taken one byte of the state at a time (MixCoefficients),  *)
(* where it is an identity between the eight bits of that byte.              *)

\* Bytes are equal if their eight bits are.
LEMMA SameByte ==
  ASSUME NEW x \in Byte, NEW y \in Byte,
         0 \in x <=> 0 \in y, 1 \in x <=> 1 \in y, 2 \in x <=> 2 \in y, 3 \in x <=> 3 \in y,
         4 \in x <=> 4 \in y, 5 \in x <=> 5 \in y, 6 \in x <=> 6 \in y, 7 \in x <=> 7 \in y
  PROVE  x = y
<1>1. \A b \in Below(8) : b \in x <=> b \in y
  BY SMT DEF Below
<1> QED
  BY <1>1, SameBits DEF Byte

\* The exclusive or of bytes is a byte, of states a state.
LEMMA XorType ==
  /\ \A x, y \in Byte : Xor(x, y) \in Byte
  /\ \A x, y \in State : Xor(x, y) \in State
BY DEF Xor, Byte, State, Word

\* Exclusive or twice with the same word changes nothing.
LEMMA XorTwice ==
  \A x, y : Xor(Xor(x, y), y) = x
<1> TAKE x, y
<1>1. \A b : b \in Xor(Xor(x, y), y) <=> b \in x
  BY Zenon DEF Xor
<1> QED
  BY <1>1

\* An exclusive or of nine words, by rows or by columns.
LEMMA XorTranspose ==
  ASSUME NEW a, NEW b, NEW c, NEW d, NEW e, NEW f, NEW g, NEW h, NEW i
  PROVE  Xor3(Xor3(a, b, c), Xor3(d, e, f), Xor3(g, h, i))
           = Xor3(Xor3(a, d, g), Xor3(b, e, h), Xor3(c, f, i))
<1>1. ASSUME NEW n
      PROVE  n \in Xor3(Xor3(a, b, c), Xor3(d, e, f), Xor3(g, h, i))
               <=> n \in Xor3(Xor3(a, d, g), Xor3(b, e, h), Xor3(c, f, i))
  BY SMT DEF Xor3, Xor
<1> QED
  BY <1>1

-----------------------------------------------------------------------------
(* Products.                                                                 *)

\* The bits of y, the product of x with 2, 4, 8, 16, 32, 6, 9, 39.
Is2(y, x) ==
  /\ 0 \in y <=> 7 \in x
  /\ 1 \in y <=> ~(0 \in x <=> 7 \in x)
  /\ 2 \in y <=> 1 \in x
  /\ 3 \in y <=> ~(2 \in x <=> 7 \in x)
  /\ 4 \in y <=> ~(3 \in x <=> 7 \in x)
  /\ 5 \in y <=> 4 \in x
  /\ 6 \in y <=> 5 \in x
  /\ 7 \in y <=> 6 \in x
Is4(y, x) ==
  /\ 0 \in y <=> 6 \in x
  /\ 1 \in y <=> ~(6 \in x <=> 7 \in x)
  /\ 2 \in y <=> ~(0 \in x <=> 7 \in x)
  /\ 3 \in y <=> ~(1 \in x <=> 6 \in x)
  /\ 4 \in y <=> ~(2 \in x <=> ~(6 \in x <=> 7 \in x))
  /\ 5 \in y <=> ~(3 \in x <=> 7 \in x)
  /\ 6 \in y <=> 4 \in x
  /\ 7 \in y <=> 5 \in x
Is8(y, x) ==
  /\ 0 \in y <=> 5 \in x
  /\ 1 \in y <=> ~(5 \in x <=> 6 \in x)
  /\ 2 \in y <=> ~(6 \in x <=> 7 \in x)
  /\ 3 \in y <=> ~(0 \in x <=> ~(5 \in x <=> 7 \in x))
  /\ 4 \in y <=> ~(1 \in x <=> ~(5 \in x <=> 6 \in x))
  /\ 5 \in y <=> ~(2 \in x <=> ~(6 \in x <=> 7 \in x))
  /\ 6 \in y <=> ~(3 \in x <=> 7 \in x)
  /\ 7 \in y <=> 4 \in x
Is16(y, x) ==
  /\ 0 \in y <=> 4 \in x
  /\ 1 \in y <=> ~(4 \in x <=> 5 \in x)
  /\ 2 \in y <=> ~(5 \in x <=> 6 \in x)
  /\ 3 \in y <=> ~(4 \in x <=> ~(6 \in x <=> 7 \in x))
  /\ 4 \in y <=> ~(0 \in x <=> ~(4 \in x <=> ~(5 \in x <=> 7 \in x)))
  /\ 5 \in y <=> ~(1 \in x <=> ~(5 \in x <=> 6 \in x))
  /\ 6 \in y <=> ~(2 \in x <=> ~(6 \in x <=> 7 \in x))
  /\ 7 \in y <=> ~(3 \in x <=> 7 \in x)
Is32(y, x) ==
  /\ 0 \in y <=> ~(3 \in x <=> 7 \in x)
  /\ 1 \in y <=> ~(3 \in x <=> ~(4 \in x <=> 7 \in x))
  /\ 2 \in y <=> ~(4 \in x <=> 5 \in x)
  /\ 3 \in y <=> ~(3 \in x <=> ~(5 \in x <=> ~(6 \in x <=> 7 \in x)))
  /\ 4 \in y <=> ~(3 \in x <=> ~(4 \in x <=> 6 \in x))
  /\ 5 \in y <=> ~(0 \in x <=> ~(4 \in x <=> ~(5 \in x <=> 7 \in x)))
  /\ 6 \in y <=> ~(1 \in x <=> ~(5 \in x <=> 6 \in x))
  /\ 7 \in y <=> ~(2 \in x <=> ~(6 \in x <=> 7 \in x))
Is6(y, x) ==
  /\ 0 \in y <=> ~(6 \in x <=> 7 \in x)
  /\ 1 \in y <=> ~(0 \in x <=> 6 \in x)
  /\ 2 \in y <=> ~(0 \in x <=> ~(1 \in x <=> 7 \in x))
  /\ 3 \in y <=> ~(1 \in x <=> ~(2 \in x <=> ~(6 \in x <=> 7 \in x)))
  /\ 4 \in y <=> ~(2 \in x <=> ~(3 \in x <=> 6 \in x))
  /\ 5 \in y <=> ~(3 \in x <=> ~(4 \in x <=> 7 \in x))
  /\ 6 \in y <=> ~(4 \in x <=> 5 \in x)
  /\ 7 \in y <=> ~(5 \in x <=> 6 \in x)
Is9(y, x) ==
  /\ 0 \in y <=> ~(0 \in x <=> 5 \in x)
  /\ 1 \in y <=> ~(1 \in x <=> ~(5 \in x <=> 6 \in x))
  /\ 2 \in y <=> ~(2 \in x <=> ~(6 \in x <=> 7 \in x))
  /\ 3 \in y <=> ~(0 \in x <=> ~(3 \in x <=> ~(5 \in x <=> 7 \in x)))
  /\ 4 \in y <=> ~(1 \in x <=> ~(4 \in x <=> ~(5 \in x <=> 6 \in x)))
  /\ 5 \in y <=> ~(2 \in x <=> ~(5 \in x <=> ~(6 \in x <=> 7 \in x)))
  /\ 6 \in y <=> ~(3 \in x <=> ~(6 \in x <=> 7 \in x))
  /\ 7 \in y <=> ~(4 \in x <=> 7 \in x)
Is39(y, x) ==
  /\ 0 \in y <=> ~(0 \in x <=> ~(3 \in x <=> 6 \in x))
  /\ 1 \in y <=> ~(0 \in x <=> ~(1 \in x <=> ~(3 \in x <=> ~(4 \in x <=> ~(6 \in x <=> 7 \in x)))))
  /\ 2 \in y <=> ~(0 \in x <=> ~(1 \in x <=> ~(2 \in x <=> ~(4 \in x <=> ~(5 \in x <=> 7 \in x)))))
  /\ 3 \in y <=> ~(1 \in x <=> ~(2 \in x <=> 5 \in x))
  /\ 4 \in y <=> 2 \in x
  /\ 5 \in y <=> ~(0 \in x <=> 3 \in x)
  /\ 6 \in y <=> ~(1 \in x <=> 4 \in x)
  /\ 7 \in y <=> ~(2 \in x <=> 5 \in x)

\* Multiplication by 2 is a shift, and a reduction if a bit is shifted out.
LEMMA Times2Bits ==
  ASSUME NEW x \in Byte
  PROVE  Times2(x) \in Byte /\ Is2(Times2(x), x)
<1> DEFINE r == IF 7 \in x THEN {0, 1, 3, 4} ELSE {}
           s == Shl(x, 1, 8)
<1>1. s \in Byte
  BY ShlClosed DEF Byte
<1>2. r \in Byte
  BY SMT DEF Byte, Word, Below
<1>3. /\ 0 \notin s
      /\ 1 \in s <=> 0 \in x
      /\ 2 \in s <=> 1 \in x
      /\ 3 \in s <=> 2 \in x
      /\ 4 \in s <=> 3 \in x
      /\ 5 \in s <=> 4 \in x
      /\ 6 \in s <=> 5 \in x
      /\ 7 \in s <=> 6 \in x
  BY SMT DEF Shl, Below
<1>4. Times2(x) = Xor(s, r)
  BY DEF Times2
<1> HIDE DEF s
<1>5. Is2(Times2(x), x)
  BY <1>3, <1>4, SMT DEF Xor, Is2
<1> QED
  BY <1>1, <1>2, <1>4, <1>5, XorType

\* Products are bytes.
LEMMA TimesType ==
  ASSUME NEW x \in Byte
  PROVE  /\ Times2(x) \in Byte /\ Times4(x) \in Byte /\ Times8(x) \in Byte
         /\ Times6(x) \in Byte /\ Times9(x) \in Byte /\ Times39(x) \in Byte
<1>1. \A y \in Byte : Times2(y) \in Byte
  BY Times2Bits
<1>2. Times4(x) \in Byte /\ Times8(x) \in Byte
  BY <1>1 DEF Times4, Times8
<1>3. Times2(Times2(Times8(x))) \in Byte
  BY <1>1, <1>2
<1> QED
  BY <1>1, <1>2, <1>3, XorType DEF Times6, Times9, Times39

\* The bits of the products.
LEMMA TimesBits ==
  ASSUME NEW x \in Byte
  PROVE  /\ Is2(Times2(x), x) /\ Is4(Times4(x), x) /\ Is8(Times8(x), x)
         /\ Is6(Times6(x), x) /\ Is9(Times9(x), x) /\ Is39(Times39(x), x)
<1>1. /\ Is2(Times2(x), x)
      /\ Is2(Times4(x), Times2(x))
      /\ Is2(Times8(x), Times4(x))
      /\ Is2(Times2(Times8(x)), Times8(x))
      /\ Is2(Times2(Times2(Times8(x))), Times2(Times8(x)))
  <2>1. Times2(Times8(x)) \in Byte
    BY TimesType, Times2Bits
  <2> QED
    BY <2>1, TimesType, Times2Bits DEF Times4, Times8
<1>2. \A y, z : Is2(y, x) /\ Is2(z, y) => Is4(z, x)
  BY DEF Is2, Is4
<1>3. \A y, z : Is4(y, x) /\ Is2(z, y) => Is8(z, x)
  BY DEF Is2, Is4, Is8
<1>4. \A y, z : Is8(y, x) /\ Is2(z, y) => Is16(z, x)
  BY DEF Is2, Is8, Is16
<1>5. \A y, z : Is16(y, x) /\ Is2(z, y) => Is32(z, x)
  BY DEF Is2, Is16, Is32
<1>6. Is4(Times4(x), x) /\ Is8(Times8(x), x) /\ Is32(Times2(Times2(Times8(x))), x)
  BY <1>1, <1>2, <1>3, <1>4, <1>5
<1>7. /\ \A b : b \in Times6(x) <=> ~(b \in Times4(x) <=> b \in Times2(x))
      /\ \A b : b \in Times9(x) <=> ~(b \in Times8(x) <=> b \in x)
      /\ \A b : b \in Times39(x)
            <=> ~(~(b \in Times2(Times2(Times8(x))) <=> b \in Times4(x))
                    <=> ~(b \in Times2(x) <=> b \in x))
  BY SMT DEF Times6, Times9, Times39, Xor
<1>8. Is6(Times6(x), x)
  BY <1>1, <1>6, <1>7 DEF Is2, Is4, Is6
<1>9. Is9(Times9(x), x)
  BY <1>6, <1>7 DEF Is8, Is9
<1>10. Is39(Times39(x), x)
  BY <1>1, <1>6, <1>7 DEF Is2, Is4, Is32, Is39
<1> QED
  BY <1>1, <1>6, <1>8, <1>9, <1>10

\* Products are linear.
LEMMA TimesLinear ==
  ASSUME NEW x \in Byte, NEW y \in Byte
  PROVE  /\ Times2(Xor(x, y)) = Xor(Times2(x), Times2(y))
         /\ Times4(Xor(x, y)) = Xor(Times4(x), Times4(y))
         /\ Times8(Xor(x, y)) = Xor(Times8(x), Times8(y))
         /\ Times6(Xor(x, y)) = Xor(Times6(x), Times6(y))
         /\ Times9(Xor(x, y)) = Xor(Times9(x), Times9(y))
         /\ Times39(Xor(x, y)) = Xor(Times39(x), Times39(y))
<1>1. ASSUME NEW u \in Byte, NEW v \in Byte
      PROVE  Times2(Xor(u, v)) = Xor(Times2(u), Times2(v))
  <2> DEFINE s == Xor(u, v)
             t == Xor(Times2(u), Times2(v))
  <2>1. s \in Byte /\ \A b : b \in s <=> ~(b \in u <=> b \in v)
    BY XorType DEF Xor
  <2>2. Times2(u) \in Byte /\ Times2(v) \in Byte
    BY TimesType
  <2>3. t \in Byte /\ \A b : b \in t <=> ~(b \in Times2(u) <=> b \in Times2(v))
    BY <2>2, XorType DEF Xor
  <2> HIDE DEF s, t
  <2>4. Times2(s) \in Byte
    BY <2>1, TimesType
  <2>5. /\ 0 \in Times2(s) <=> 0 \in t
        /\ 1 \in Times2(s) <=> 1 \in t
        /\ 2 \in Times2(s) <=> 2 \in t
        /\ 3 \in Times2(s) <=> 3 \in t
        /\ 4 \in Times2(s) <=> 4 \in t
        /\ 5 \in Times2(s) <=> 5 \in t
        /\ 6 \in Times2(s) <=> 6 \in t
        /\ 7 \in Times2(s) <=> 7 \in t
    <3>1. Is2(Times2(s), s) /\ Is2(Times2(u), u) /\ Is2(Times2(v), v)
      BY <2>1, Times2Bits
    <3> QED
      BY <2>1, <2>3, <3>1 DEF Is2
  <2>6. Times2(s) = t
    BY <2>3, <2>4, <2>5, SameByte
  <2> QED
    BY <2>6 DEF s, t
<1>2. Xor(x, y) \in Byte
  BY XorType
<1>3. /\ Times2(x) \in Byte /\ Times2(y) \in Byte
      /\ Times4(x) \in Byte /\ Times4(y) \in Byte
      /\ Times8(x) \in Byte /\ Times8(y) \in Byte
      /\ Times2(Times8(x)) \in Byte /\ Times2(Times8(y)) \in Byte
  BY TimesType
<1>4. Times2(Xor(x, y)) = Xor(Times2(x), Times2(y))
  BY <1>1
<1>5. Times4(Xor(x, y)) = Xor(Times4(x), Times4(y))
  BY <1>1, <1>3, <1>4 DEF Times4
<1>6. Times8(Xor(x, y)) = Xor(Times8(x), Times8(y))
  BY <1>1, <1>3, <1>5 DEF Times8
<1>7. Times2(Times2(Times8(Xor(x, y))))
        = Xor(Times2(Times2(Times8(x))), Times2(Times2(Times8(y))))
  BY <1>1, <1>3, <1>6
<1>8. \A a, b, c, d : Xor(Xor(a, b), Xor(c, d)) = Xor(Xor(a, c), Xor(b, d))
  <2> TAKE a, b, c, d
  <2>1. \A n : n \in Xor(Xor(a, b), Xor(c, d)) <=> n \in Xor(Xor(a, c), Xor(b, d))
    BY SMT DEF Xor
  <2> QED
    BY <2>1
<1>9. Times6(Xor(x, y)) = Xor(Times6(x), Times6(y))
  BY <1>4, <1>5, <1>8 DEF Times6
<1>10. Times9(Xor(x, y)) = Xor(Times9(x), Times9(y))
  BY <1>6, <1>8 DEF Times9
<1>11. Times39(Xor(x, y)) = Xor(Times39(x), Times39(y))
  <2> DEFINE p(z) == Xor(Times2(Times2(Times8(z))), Times4(z))
             q(z) == Xor(Times2(z), z)
  <2>1. p(Xor(x, y)) = Xor(p(x), p(y))
    BY <1>5, <1>7, <1>8
  <2>2. q(Xor(x, y)) = Xor(q(x), q(y))
    BY <1>4, <1>8
  <2>3. \A z : Times39(z) = Xor(p(z), q(z))
    BY DEF Times39
  <2> HIDE DEF p, q
  <2> QED
    BY <1>8, <2>1, <2>2, <2>3
<1> QED
  BY <1>4, <1>5, <1>6, <1>9, <1>10, <1>11

-----------------------------------------------------------------------------
(* The two matrices are inverse to each other.                               *)

\* The coefficients of their products, for each byte of a state.
LEMMA MixCoefficients ==
  ASSUME NEW x \in Byte
  PROVE  /\ Xor3(Times9(Times6(x)), Times39(x), Times2(Times8(x))) = x
         /\ Xor3(Times9(Times8(x)), Times6(x), Times2(Times39(x))) = {}
         /\ Xor3(Times9(Times39(x)), Times8(x), Times2(Times6(x))) = {}
         /\ Xor3(Times6(Times9(x)), Times8(Times2(x)), Times39(x)) = x
         /\ Xor3(Times6(x), Times8(Times9(x)), Times39(Times2(x))) = {}
         /\ Xor3(Times6(Times2(x)), Times8(x), Times39(Times9(x))) = {}
<1>1. Xor3(Times9(Times6(x)), Times39(x), Times2(Times8(x))) = x
  <2> DEFINE s == Xor3(Times9(Times6(x)), Times39(x), Times2(Times8(x)))
  <2>1. Times9(Times6(x)) \in Byte /\ Times39(x) \in Byte /\ Times2(Times8(x)) \in Byte
    BY TimesType
  <2>2. /\ Is9(Times9(Times6(x)), Times6(x)) /\ Is6(Times6(x), x)
        /\ Is39(Times39(x), x) /\ Is2(Times2(Times8(x)), Times8(x))
        /\ Is8(Times8(x), x)
    BY TimesType, TimesBits
  <2>3. \A b : b \in s <=> ~(~(b \in Times9(Times6(x)) <=> b \in Times39(x)) <=> b \in Times2(Times8(x)))
    BY SMT DEF Xor3, Xor
  <2>4. s \in Byte /\ {} \in Byte
    BY <2>1, XorType DEF Xor3, Byte, Word
  <2> HIDE DEF s
  <2>5. /\ (0 \in s <=> 0 \in x) /\ (1 \in s <=> 1 \in x) /\ (2 \in s <=> 2 \in x) /\ (3 \in s <=> 3 \in x)
        /\ (4 \in s <=> 4 \in x) /\ (5 \in s <=> 5 \in x) /\ (6 \in s <=> 6 \in x) /\ (7 \in s <=> 7 \in x)
    BY <2>2, <2>3 DEF Is2, Is6, Is8, Is9, Is39
  <2> QED
    BY <2>4, <2>5, SameByte DEF s
<1>2. Xor3(Times9(Times8(x)), Times6(x), Times2(Times39(x))) = {}
  <2> DEFINE s == Xor3(Times9(Times8(x)), Times6(x), Times2(Times39(x)))
  <2>1. Times9(Times8(x)) \in Byte /\ Times6(x) \in Byte /\ Times2(Times39(x)) \in Byte
    BY TimesType
  <2>2. /\ Is9(Times9(Times8(x)), Times8(x)) /\ Is8(Times8(x), x)
        /\ Is6(Times6(x), x) /\ Is2(Times2(Times39(x)), Times39(x))
        /\ Is39(Times39(x), x)
    BY TimesType, TimesBits
  <2>3. \A b : b \in s <=> ~(~(b \in Times9(Times8(x)) <=> b \in Times6(x)) <=> b \in Times2(Times39(x)))
    BY SMT DEF Xor3, Xor
  <2>4. s \in Byte /\ {} \in Byte
    BY <2>1, XorType DEF Xor3, Byte, Word
  <2> HIDE DEF s
  <2>5. /\ 0 \notin s /\ 1 \notin s /\ 2 \notin s /\ 3 \notin s
        /\ 4 \notin s /\ 5 \notin s /\ 6 \notin s /\ 7 \notin s
    BY <2>2, <2>3 DEF Is2, Is6, Is8, Is9, Is39
  <2> QED
    BY <2>4, <2>5, SameByte DEF s
<1>3. Xor3(Times9(Times39(x)), Times8(x), Times2(Times6(x))) = {}
  <2> DEFINE s == Xor3(Times9(Times39(x)), Times8(x), Times2(Times6(x)))
  <2>1. Times9(Times39(x)) \in Byte /\ Times8(x) \in Byte /\ Times2(Times6(x)) \in Byte
    BY TimesType
  <2>2. /\ Is9(Times9(Times39(x)), Times39(x)) /\ Is39(Times39(x), x)
        /\ Is8(Times8(x), x) /\ Is2(Times2(Times6(x)), Times6(x))
        /\ Is6(Times6(x), x)
    BY TimesType, TimesBits
  <2>3. \A b : b \in s <=> ~(~(b \in Times9(Times39(x)) <=> b \in Times8(x)) <=> b \in Times2(Times6(x)))
    BY SMT DEF Xor3, Xor
  <2>4. s \in Byte /\ {} \in Byte
    BY <2>1, XorType DEF Xor3, Byte, Word
  <2> HIDE DEF s
  <2>5. /\ 0 \notin s /\ 1 \notin s /\ 2 \notin s /\ 3 \notin s
        /\ 4 \notin s /\ 5 \notin s /\ 6 \notin s /\ 7 \notin s
    BY <2>2, <2>3 DEF Is2, Is6, Is8, Is9, Is39
  <2> QED
    BY <2>4, <2>5, SameByte DEF s
<1>4. Xor3(Times6(Times9(x)), Times8(Times2(x)), Times39(x)) = x
  <2> DEFINE s == Xor3(Times6(Times9(x)), Times8(Times2(x)), Times39(x))
  <2>1. Times6(Times9(x)) \in Byte /\ Times8(Times2(x)) \in Byte /\ Times39(x) \in Byte
    BY TimesType
  <2>2. /\ Is6(Times6(Times9(x)), Times9(x)) /\ Is9(Times9(x), x)
        /\ Is8(Times8(Times2(x)), Times2(x)) /\ Is2(Times2(x), x)
        /\ Is39(Times39(x), x)
    BY TimesType, TimesBits
  <2>3. \A b : b \in s <=> ~(~(b \in Times6(Times9(x)) <=> b \in Times8(Times2(x))) <=> b \in Times39(x))
    BY SMT DEF Xor3, Xor
  <2>4. s \in Byte /\ {} \in Byte
    BY <2>1, XorType DEF Xor3, Byte, Word
  <2> HIDE DEF s
  <2>5. /\ (0 \in s <=> 0 \in x) /\ (1 \in s <=> 1 \in x) /\ (2 \in s <=> 2 \in x) /\ (3 \in s <=> 3 \in x)
        /\ (4 \in s <=> 4 \in x) /\ (5 \in s <=> 5 \in x) /\ (6 \in s <=> 6 \in x) /\ (7 \in s <=> 7 \in x)
    BY <2>2, <2>3 DEF Is2, Is6, Is8, Is9, Is39
  <2> QED
    BY <2>4, <2>5, SameByte DEF s
<1>5. Xor3(Times6(x), Times8(Times9(x)), Times39(Times2(x))) = {}
  <2> DEFINE s == Xor3(Times6(x), Times8(Times9(x)), Times39(Times2(x)))
  <2>1. Times6(x) \in Byte /\ Times8(Times9(x)) \in Byte /\ Times39(Times2(x)) \in Byte
    BY TimesType
  <2>2. /\ Is6(Times6(x), x) /\ Is8(Times8(Times9(x)), Times9(x))
        /\ Is9(Times9(x), x) /\ Is39(Times39(Times2(x)), Times2(x))
        /\ Is2(Times2(x), x)
    BY TimesType, TimesBits
  <2>3. \A b : b \in s <=> ~(~(b \in Times6(x) <=> b \in Times8(Times9(x))) <=> b \in Times39(Times2(x)))
    BY SMT DEF Xor3, Xor
  <2>4. s \in Byte /\ {} \in Byte
    BY <2>1, XorType DEF Xor3, Byte, Word
  <2> HIDE DEF s
  <2>5. /\ 0 \notin s /\ 1 \notin s /\ 2 \notin s /\ 3 \notin s
        /\ 4 \notin s /\ 5 \notin s /\ 6 \notin s /\ 7 \notin s
    BY <2>2, <2>3 DEF Is2, Is6, Is8, Is9, Is39
  <2> QED
    BY <2>4, <2>5, SameByte DEF s
<1>6. Xor3(Times6(Times2(x)), Times8(x), Times39(Times9(x))) = {}
  <2> DEFINE s == Xor3(Times6(Times2(x)), Times8(x), Times39(Times9(x)))
  <2>1. Times6(Times2(x)) \in Byte /\ Times8(x) \in Byte /\ Times39(Times9(x)) \in Byte
    BY TimesType
  <2>2. /\ Is6(Times6(Times2(x)), Times2(x)) /\ Is2(Times2(x), x)
        /\ Is8(Times8(x), x) /\ Is39(Times39(Times9(x)), Times9(x))
        /\ Is9(Times9(x), x)
    BY TimesType, TimesBits
  <2>3. \A b : b \in s <=> ~(~(b \in Times6(Times2(x)) <=> b \in Times8(x)) <=> b \in Times39(Times9(x)))
    BY SMT DEF Xor3, Xor
  <2>4. s \in Byte /\ {} \in Byte
    BY <2>1, XorType DEF Xor3, Byte, Word
  <2> HIDE DEF s
  <2>5. /\ 0 \notin s /\ 1 \notin s /\ 2 \notin s /\ 3 \notin s
        /\ 4 \notin s /\ 5 \notin s /\ 6 \notin s /\ 7 \notin s
    BY <2>2, <2>3 DEF Is2, Is6, Is8, Is9, Is39
  <2> QED
    BY <2>4, <2>5, SameByte DEF s
<1> QED
  BY <1>1, <1>2, <1>3, <1>4, <1>5, <1>6

\* The matrices, of the bytes of a state.
MixRow0(a, b, c) == Xor3(Times9(a), b, Times2(c))
InvRow0(a, b, c) == Xor3(Times6(a), Times8(b), Times39(c))

\* The other rows are the first one, rotated.
LEMMA Rows ==
  ASSUME NEW a, NEW b, NEW c
  PROVE  /\ Xor3(Times2(a), Times9(b), c) = MixRow0(b, c, a)
         /\ Xor3(a, Times2(b), Times9(c)) = MixRow0(c, a, b)
         /\ Xor3(Times39(a), Times6(b), Times8(c)) = InvRow0(b, c, a)
         /\ Xor3(Times8(a), Times39(b), Times6(c)) = InvRow0(c, a, b)
<1>1. \A x, y, z : Xor3(x, y, z) = Xor3(y, z, x)
  <2> TAKE x, y, z
  <2>1. \A n : n \in Xor3(x, y, z) <=> n \in Xor3(y, z, x)
    BY SMT DEF Xor3, Xor
  <2> QED
    BY <2>1
<1> QED
  BY <1>1 DEF MixRow0, InvRow0

\* The first row of one matrix times the other.
LEMMA MixInverse ==
  ASSUME NEW a \in Byte, NEW b \in Byte, NEW c \in Byte
  PROVE  /\ MixRow0(InvRow0(a, b, c), InvRow0(b, c, a), InvRow0(c, a, b)) = a
         /\ InvRow0(MixRow0(a, b, c), MixRow0(b, c, a), MixRow0(c, a, b)) = a
<1>1. \A x, y, z \in Byte :
        /\ Times2(Xor3(x, y, z)) = Xor3(Times2(x), Times2(y), Times2(z))
        /\ Times6(Xor3(x, y, z)) = Xor3(Times6(x), Times6(y), Times6(z))
        /\ Times8(Xor3(x, y, z)) = Xor3(Times8(x), Times8(y), Times8(z))
        /\ Times9(Xor3(x, y, z)) = Xor3(Times9(x), Times9(y), Times9(z))
        /\ Times39(Xor3(x, y, z)) = Xor3(Times39(x), Times39(y), Times39(z))
  BY TimesLinear, XorType DEF Xor3
<1>2. /\ Xor3(a, {}, {}) = a
  BY DEF Xor3, Xor
<1>3. ASSUME NEW x \in Byte
      PROVE  /\ Times2(x) \in Byte /\ Times6(x) \in Byte /\ Times8(x) \in Byte
             /\ Times9(x) \in Byte /\ Times39(x) \in Byte
  BY TimesType
<1>4. MixRow0(InvRow0(a, b, c), InvRow0(b, c, a), InvRow0(c, a, b)) = a
  <2>1. InvRow0(b, c, a) = Xor3(Times39(a), Times6(b), Times8(c))
        /\ InvRow0(c, a, b) = Xor3(Times8(a), Times39(b), Times6(c))
    BY Rows
  <2>2. MixRow0(InvRow0(a, b, c), InvRow0(b, c, a), InvRow0(c, a, b))
          = Xor3(Xor3(Times9(Times6(a)), Times9(Times8(b)), Times9(Times39(c))),
                 Xor3(Times39(a), Times6(b), Times8(c)),
                 Xor3(Times2(Times8(a)), Times2(Times39(b)), Times2(Times6(c))))
    BY <1>1, <1>3, <2>1 DEF MixRow0, InvRow0
  <2>3. Xor3(Xor3(Times9(Times6(a)), Times9(Times8(b)), Times9(Times39(c))),
             Xor3(Times39(a), Times6(b), Times8(c)),
             Xor3(Times2(Times8(a)), Times2(Times39(b)), Times2(Times6(c))))
          = Xor3(Xor3(Times9(Times6(a)), Times39(a), Times2(Times8(a))),
                 Xor3(Times9(Times8(b)), Times6(b), Times2(Times39(b))),
                 Xor3(Times9(Times39(c)), Times8(c), Times2(Times6(c))))
    BY XorTranspose
  <2>4. @ = Xor3(a, {}, {})
    BY MixCoefficients
  <2> QED
    BY <1>2, <2>2, <2>3, <2>4
<1>5. InvRow0(MixRow0(a, b, c), MixRow0(b, c, a), MixRow0(c, a, b)) = a
  <2>1. MixRow0(b, c, a) = Xor3(Times2(a), Times9(b), c)
        /\ MixRow0(c, a, b) = Xor3(a, Times2(b), Times9(c))
    BY Rows
  <2>2. InvRow0(MixRow0(a, b, c), MixRow0(b, c, a), MixRow0(c, a, b))
          = Xor3(Xor3(Times6(Times9(a)), Times6(b), Times6(Times2(c))),
                 Xor3(Times8(Times2(a)), Times8(Times9(b)), Times8(c)),
                 Xor3(Times39(a), Times39(Times2(b)), Times39(Times9(c))))
    BY <1>1, <1>3, <2>1 DEF MixRow0, InvRow0
  <2>3. Xor3(Xor3(Times6(Times9(a)), Times6(b), Times6(Times2(c))),
             Xor3(Times8(Times2(a)), Times8(Times9(b)), Times8(c)),
             Xor3(Times39(a), Times39(Times2(b)), Times39(Times9(c))))
          = Xor3(Xor3(Times6(Times9(a)), Times8(Times2(a)), Times39(a)),
                 Xor3(Times6(b), Times8(Times9(b)), Times39(Times2(b))),
                 Xor3(Times6(Times2(c)), Times8(c), Times39(Times9(c))))
    BY XorTranspose
  <2>4. @ = Xor3(a, {}, {})
    BY MixCoefficients
  <2> QED
    BY <1>2, <2>2, <2>3, <2>4
<1> QED
  BY <1>4, <1>5

-----------------------------------------------------------------------------
(* States and their bytes.                                                   *)

\* The bytes of a state are bytes.
LEMMA BytesOf ==
  \A state : A0(state) \in Byte /\ A1(state) \in Byte /\ A2(state) \in Byte
BY DEF A0, A1, A2, ByteAt, Mask, Shr, Byte, Word, Below

\* A state of three bytes has these bytes.
LEMMA JoinBytes ==
  ASSUME NEW a \in Byte, NEW b \in Byte, NEW c \in Byte
  PROVE  /\ Join(a, b, c) \in State
         /\ A0(Join(a, b, c)) = a
         /\ A1(Join(a, b, c)) = b
         /\ A2(Join(a, b, c)) = c
<1> DEFINE j == Join(a, b, c)
<1>1. \A n \in Nat :
        n \in j <=> \/ n < 24 /\ n >= 16 /\ n - 16 \in a
                    \/ n < 24 /\ n >= 8 /\ n - 8 \in b
                    \/ n \in c
  <2>1. /\ \A n \in Nat : n \in Shl(a, 16, 24) <=> n < 24 /\ n >= 16 /\ n - 16 \in a
        /\ \A n \in Nat : n \in Shl(b, 8, 24) <=> n < 24 /\ n >= 8 /\ n - 8 \in b
    BY Zenon DEF Shl, Below
  <2> QED
    BY <2>1, Zenon DEF Join
<1>2. \A n : (n \in a => n \in Nat /\ n < 8) /\ (n \in b => n \in Nat /\ n < 8)
              /\ (n \in c => n \in Nat /\ n < 8)
  BY DEF Byte, Word, Below
<1>3. j \in State
  <2>1. c \in Word(24)
    BY <1>2, SMT DEF Word, Below
  <2> QED
    BY <2>1, ShlClosed DEF Join, State, Word
<1> HIDE DEF j
<1>4. ASSUME NEW n \in Below(8)
      PROVE  /\ n \in A0(j) <=> n \in a
             /\ n \in A1(j) <=> n \in b
             /\ n \in A2(j) <=> n \in c
  <2>1. n \in Nat /\ n < 8
    BY DEF Below
  <2>2. /\ n \in A0(j) <=> n + 16 \in j
        /\ n \in A1(j) <=> n + 8 \in j
        /\ n \in A2(j) <=> n \in j
    BY <2>1, SMT DEF A0, A1, A2, ByteAt, Mask, Shr
  <2>3. /\ n + 16 \in j <=> n \in a
        /\ n + 8 \in j <=> n \in b
        /\ n \in j <=> n \in c
    <3>1. n + 16 \in Nat /\ n + 8 \in Nat
      BY <2>1, SMT
    <3>2. n + 16 \notin c /\ n + 8 \notin c /\ n + 16 - 8 \notin b
      BY <1>2, <2>1, SMT
    <3>3. ~(n >= 16) /\ ~(n >= 8)
      BY <2>1, SMT
    <3>4. n + 16 \in j <=> n \in a
      BY <1>1, <2>1, <3>1, <3>2, SMT
    <3>5. n + 8 \in j <=> n \in b
      BY <1>1, <2>1, <3>1, <3>2, SMT
    <3>6. n \in j <=> n \in c
      BY <1>1, <2>1, <3>3, Zenon
    <3> QED
      BY <3>4, <3>5, <3>6
  <2> QED
    BY <2>2, <2>3
<1> QED
  BY <1>3, <1>4, BytesOf, SameBits DEF Byte, j

\* A state is its three bytes.
LEMMA BytesJoin ==
  ASSUME NEW s \in State
  PROVE  Join(A0(s), A1(s), A2(s)) = s
<1> DEFINE j == Join(A0(s), A1(s), A2(s))
<1>1. j \in State
  BY BytesOf, JoinBytes
<1>2. \A n \in Below(24) : n \in j <=> n \in s
  BY SMT DEF Join, A0, A1, A2, ByteAt, Mask, Shl, Shr, Below
<1> HIDE DEF j
<1>3. j = s
  BY <1>1, <1>2, SameBits DEF State
<1> QED
  BY <1>3 DEF j

\* Rotations of a byte.
LEMMA Rotations ==
  ASSUME NEW x \in Byte
  PROVE  /\ Rotl8(x, 2) \in Byte /\ Rotl8(x, 4) \in Byte /\ Rotl8(x, 6) \in Byte
         /\ Rotl8(Rotl8(x, 6), 2) = x
         /\ Rotl8(Rotl8(x, 2), 6) = x
         /\ Rotl8(Rotl8(x, 4), 4) = x
<1>1. \A y \in Byte, n \in Nat : Rotl8(y, n) \subseteq Nat
  BY DEF Rotl8, Shl, Shr, Below
<1>2. ASSUME NEW y \in Byte
      PROVE  /\ Rotl8(y, 2) \in Byte /\ Rotl8(y, 4) \in Byte /\ Rotl8(y, 6) \in Byte
  BY SMT DEF Rotl8, Shl, Shr, Byte, Word, Below
<1>3. ASSUME NEW y \in Byte, NEW n \in Below(8)
      PROVE  /\ n \in Rotl8(y, 2) <=> IF n < 2 THEN n + 6 \in y ELSE n - 2 \in y
             /\ n \in Rotl8(y, 4) <=> IF n < 4 THEN n + 4 \in y ELSE n - 4 \in y
             /\ n \in Rotl8(y, 6) <=> IF n < 6 THEN n + 2 \in y ELSE n - 6 \in y
  BY SMT DEF Rotl8, Shl, Shr, Byte, Word, Below
<1>4. ASSUME NEW n \in Below(8)
      PROVE  /\ n \in Rotl8(Rotl8(x, 6), 2) <=> n \in x
             /\ n \in Rotl8(Rotl8(x, 2), 6) <=> n \in x
             /\ n \in Rotl8(Rotl8(x, 4), 4) <=> n \in x
  <2>1. \A m \in Nat : m < 8 => m \in Below(8)
    BY DEF Below
  <2>2. n \in Nat /\ n < 8
    BY DEF Below
  <2> QED
    BY <1>2, <1>3, <2>1, <2>2, SMT
<1> QED
  BY <1>2, <1>4, SameBits DEF Byte

-----------------------------------------------------------------------------
(* Rounds, encryption and decryption.                                        *)

\* The operations of a round are functions on states, and each undoes its inverse.
LEMMA SubBytesInverse ==
  ASSUME SboxesInverse, NEW s \in State
  PROVE  /\ sub_bytes(s) \in State /\ inv_sub_bytes(s) \in State
         /\ inv_sub_bytes(sub_bytes(s)) = s
         /\ sub_bytes(inv_sub_bytes(s)) = s
<1>1. /\ SBOX[A0(s)] \in Byte /\ SBOX[A1(s)] \in Byte /\ SBOX[A2(s)] \in Byte
      /\ inv_SBOX[A0(s)] \in Byte /\ inv_SBOX[A1(s)] \in Byte /\ inv_SBOX[A2(s)] \in Byte
  BY BytesOf DEF SboxesInverse, SboxType, Byte
<1>2. \A x \in Byte : inv_SBOX[SBOX[x]] = x /\ SBOX[inv_SBOX[x]] = x
  BY DEF SboxesInverse
<1>3. inv_sub_bytes(sub_bytes(s)) = s
  BY <1>1, <1>2, BytesOf, JoinBytes, BytesJoin DEF sub_bytes, inv_sub_bytes
<1>4. sub_bytes(inv_sub_bytes(s)) = s
  BY <1>1, <1>2, BytesOf, JoinBytes, BytesJoin DEF sub_bytes, inv_sub_bytes
<1> QED
  BY <1>1, <1>3, <1>4, JoinBytes DEF sub_bytes, inv_sub_bytes

\* The same for the rotation of the rows.
LEMMA RotateRowsInverse ==
  ASSUME NEW s \in State
  PROVE  /\ rotate_rows(s) \in State /\ inv_rotate_rows(s) \in State
         /\ inv_rotate_rows(rotate_rows(s)) = s
         /\ rotate_rows(inv_rotate_rows(s)) = s
<1>1. A0(s) \in Byte /\ A1(s) \in Byte /\ A2(s) \in Byte
  BY BytesOf
<1>2. /\ Rotl8(A1(s), 6) \in Byte /\ Rotl8(A2(s), 4) \in Byte /\ Rotl8(A1(s), 2) \in Byte
      /\ Rotl8(Rotl8(A1(s), 6), 2) = A1(s)
      /\ Rotl8(Rotl8(A1(s), 2), 6) = A1(s)
      /\ Rotl8(Rotl8(A2(s), 4), 4) = A2(s)
  BY <1>1, Rotations
<1>3. inv_rotate_rows(rotate_rows(s)) = s
  BY <1>1, <1>2, JoinBytes, BytesJoin DEF rotate_rows, inv_rotate_rows
<1>4. rotate_rows(inv_rotate_rows(s)) = s
  BY <1>1, <1>2, JoinBytes, BytesJoin DEF rotate_rows, inv_rotate_rows
<1> QED
  BY <1>1, <1>2, <1>3, <1>4, JoinBytes DEF rotate_rows, inv_rotate_rows

\* The same for the mixing of the columns.
LEMMA MixColumnsInverse ==
  ASSUME NEW s \in State
  PROVE  /\ mix_columns(s) \in State /\ inv_mix_columns(s) \in State
         /\ inv_mix_columns(mix_columns(s)) = s
         /\ mix_columns(inv_mix_columns(s)) = s
<1>1. \A x, y, z \in Byte : MixRow0(x, y, z) \in Byte /\ InvRow0(x, y, z) \in Byte
  BY TimesType, XorType DEF MixRow0, InvRow0, Xor3
<1>2. ASSUME NEW x \in State
      PROVE  /\ mix_columns(x) = Join(MixRow0(A0(x), A1(x), A2(x)),
                                      MixRow0(A1(x), A2(x), A0(x)),
                                      MixRow0(A2(x), A0(x), A1(x)))
             /\ inv_mix_columns(x) = Join(InvRow0(A0(x), A1(x), A2(x)),
                                          InvRow0(A1(x), A2(x), A0(x)),
                                          InvRow0(A2(x), A0(x), A1(x)))
  <2>1. /\ MixRow0(A0(x), A1(x), A2(x)) = Xor3(Times9(A0(x)), A1(x), Times2(A2(x)))
        /\ InvRow0(A0(x), A1(x), A2(x))
             = Xor3(Times6(A0(x)), Times8(A1(x)), Times39(A2(x)))
    BY DEF MixRow0, InvRow0
  <2> QED
    BY <2>1, Rows DEF mix_columns, inv_mix_columns
<1>3. mix_columns(s) \in State /\ inv_mix_columns(s) \in State
  BY <1>1, <1>2, BytesOf, JoinBytes
<1> DEFINE a == A0(s)  b == A1(s)  c == A2(s)
<1>4. a \in Byte /\ b \in Byte /\ c \in Byte /\ Join(a, b, c) = s
  BY BytesOf, BytesJoin
<1>5. inv_mix_columns(mix_columns(s)) = s
  <2> DEFINE m == mix_columns(s)
  <2>1. /\ A0(m) = MixRow0(a, b, c)
        /\ A1(m) = MixRow0(b, c, a)
        /\ A2(m) = MixRow0(c, a, b)
    BY <1>1, <1>2, <1>4, JoinBytes
  <2>2. inv_mix_columns(m) = Join(InvRow0(A0(m), A1(m), A2(m)),
                                  InvRow0(A1(m), A2(m), A0(m)),
                                  InvRow0(A2(m), A0(m), A1(m)))
    BY <1>2, <1>3
  <2> HIDE DEF a, b, c, m
  <2>3. inv_mix_columns(m) = Join(a, b, c)
    BY <1>4, <2>1, <2>2, MixInverse
  <2> QED
    BY <1>4, <2>3 DEF m
<1>6. mix_columns(inv_mix_columns(s)) = s
  <2> DEFINE m == inv_mix_columns(s)
  <2>1. /\ A0(m) = InvRow0(a, b, c)
        /\ A1(m) = InvRow0(b, c, a)
        /\ A2(m) = InvRow0(c, a, b)
    BY <1>1, <1>2, <1>4, JoinBytes
  <2>2. mix_columns(m) = Join(MixRow0(A0(m), A1(m), A2(m)),
                              MixRow0(A1(m), A2(m), A0(m)),
                              MixRow0(A2(m), A0(m), A1(m)))
    BY <1>2, <1>3
  <2> HIDE DEF a, b, c, m
  <2>3. mix_columns(m) = Join(a, b, c)
    BY <1>4, <2>1, <2>2, MixInverse
  <2> QED
    BY <1>4, <2>3 DEF m
<1> QED
  BY <1>3, <1>5, <1>6

\* A round and its inverse cancel, whatever the round key.
LEMMA RoundInverse ==
  ASSUME SboxesInverse, NEW s \in State, NEW rk \in State
  PROVE  /\ EncryptRound(s, rk) \in State /\ DecryptRound(s, rk) \in State
         /\ EncryptLast(s, rk) \in State /\ DecryptLast(s, rk) \in State
         /\ DecryptRound(EncryptRound(s, rk), rk) = s
         /\ EncryptRound(DecryptRound(s, rk), rk) = s
         /\ DecryptLast(EncryptLast(s, rk), rk) = s
         /\ EncryptLast(DecryptLast(s, rk), rk) = s
<1>1. ASSUME NEW x \in State
      PROVE  /\ sub_bytes(x) \in State /\ inv_sub_bytes(x) \in State
             /\ rotate_rows(x) \in State /\ inv_rotate_rows(x) \in State
             /\ mix_columns(x) \in State /\ inv_mix_columns(x) \in State
             /\ Xor(x, rk) \in State /\ Xor(Xor(x, rk), rk) = x
  BY SubBytesInverse, RotateRowsInverse, MixColumnsInverse, XorType, XorTwice
<1>2. ASSUME NEW x \in State
      PROVE  /\ inv_sub_bytes(sub_bytes(x)) = x /\ sub_bytes(inv_sub_bytes(x)) = x
             /\ inv_rotate_rows(rotate_rows(x)) = x /\ rotate_rows(inv_rotate_rows(x)) = x
             /\ inv_mix_columns(mix_columns(x)) = x /\ mix_columns(inv_mix_columns(x)) = x
  BY SubBytesInverse, RotateRowsInverse, MixColumnsInverse
<1>3. /\ EncryptRound(s, rk) \in State /\ DecryptRound(s, rk) \in State
      /\ EncryptLast(s, rk) \in State /\ DecryptLast(s, rk) \in State
  BY <1>1 DEF EncryptRound, DecryptRound, EncryptLast, DecryptLast
<1>4. DecryptRound(EncryptRound(s, rk), rk) = s
  BY <1>1, <1>2 DEF EncryptRound, DecryptRound
<1>5. EncryptRound(DecryptRound(s, rk), rk) = s
  BY <1>1, <1>2 DEF EncryptRound, DecryptRound
<1>6. DecryptLast(EncryptLast(s, rk), rk) = s
  BY <1>1, <1>2 DEF EncryptLast, DecryptLast
<1>7. EncryptLast(DecryptLast(s, rk), rk) = s
  BY <1>1, <1>2 DEF EncryptLast, DecryptLast
<1> QED
  BY <1>3, <1>4, <1>5, <1>6, <1>7

\* Round keys are states.
LEMMA RoundKeyType ==
  ASSUME SboxType, NEW key \in Keys, NEW tweak \in Word(64), NEW r \in 0 .. 10
  PROVE  RoundKey(key, tweak, r) \in State
<1> DEFINE h == Hi1(key, tweak)
           l == Lo1(key, tweak)
           h0 == Hi0(key, tweak)
           h2 == Hi2(key, tweak)
<1>1. h \in Word(64) /\ l \in Word(64) /\ key.hi \in Word(64) /\ key.lo \in Word(64)
  BY TweakedHi, TweakedLo DEF Keys
<1>2. h0 \in Word(64)
  BY <1>1, Closed DEF Hi0
<1>3. h2 \in Word(64)
  <2>1. h2 = Xor(h, Shl(G(Mask(l, 0, 32), {1}), 32, 64))
    BY DEF Hi2
  <2> HIDE DEF h, l, h2
  <2> QED
    BY <1>1, <2>1, Closed, ShlClosed
<1> HIDE DEF h, l, h0, h2
<1>4. ASSUME NEW x \in Word(64)
      PROVE  /\ \A n \in Nat : Mask(Shr(x, n), 0, 24) \in State
             /\ Mask(x, 0, 24) \in State
             /\ Shr(x, 40) \in State
             /\ Mask(Shl(x, 8, 64), 8, 24) \in State
             /\ Shr(x, 56) \in State
             /\ Shl(Mask(x, 0, 8), 16, 32) \in State
             /\ Shr(x, 48) \in State
  <2>1. \A b \in x : b \in Nat /\ b < 64
    BY DEF Word, Below
  <2>2. \A y : y \subseteq Nat => Mask(y, 0, 24) \in State
    BY DEF Mask, State, Word, Below
  <2>6. x \subseteq Nat /\ \A n \in Nat : Shr(x, n) \subseteq Nat
    BY <2>1 DEF Shr
  <2>3. Shr(x, 40) \in State /\ Shr(x, 56) \in State /\ Shr(x, 48) \in State
    BY <2>1, SMT DEF Shr, State, Word, Below
  <2>4. Mask(Shl(x, 8, 64), 8, 24) \in State
    BY SMT DEF Shl, Mask, State, Word, Below
  <2>5. Shl(Mask(x, 0, 8), 16, 32) \in State
    BY SMT DEF Shl, Mask, State, Word, Below
  <2> QED
    BY <2>2, <2>3, <2>4, <2>5, <2>6
<1>5. \A x, y \in State : x \cup y \in State
  BY DEF State, Word
<1>6. CASE r \in {0, 1, 3, 4, 6, 7, 8, 9}
  BY <1>1, <1>2, <1>4, <1>6 DEF RoundKey, h, l, h0
<1>7. CASE r \in {2, 5, 10}
  BY <1>1, <1>2, <1>3, <1>4, <1>5, <1>7 DEF RoundKey, h, l, h0, h2
<1> QED
  BY <1>6, <1>7

\* Four rounds.
LEMMA FourRounds ==
  ASSUME SboxesInverse, NEW key \in Keys, NEW tweak \in Word(64), NEW s \in State,
         NEW r \in {2, 6}
  PROVE  /\ Encrypt4(s, key, tweak, r) \in State /\ Decrypt4(s, key, tweak, r) \in State
         /\ Decrypt4(Encrypt4(s, key, tweak, r), key, tweak, r) = s
         /\ Encrypt4(Decrypt4(s, key, tweak, r), key, tweak, r) = s
<1>1. /\ RoundKey(key, tweak, r) \in State /\ RoundKey(key, tweak, r + 1) \in State
      /\ RoundKey(key, tweak, r + 2) \in State /\ RoundKey(key, tweak, r + 3) \in State
  BY RoundKeyType DEF SboxesInverse
<1>2. ASSUME NEW x \in State, NEW rk \in State
      PROVE  /\ EncryptRound(x, rk) \in State /\ DecryptRound(x, rk) \in State
             /\ DecryptRound(EncryptRound(x, rk), rk) = x
             /\ EncryptRound(DecryptRound(x, rk), rk) = x
  BY RoundInverse
<1>3. Encrypt4(s, key, tweak, r) \in State /\ Decrypt4(s, key, tweak, r) \in State
  BY <1>1, <1>2 DEF Encrypt4, Decrypt4
<1>4. Decrypt4(Encrypt4(s, key, tweak, r), key, tweak, r) = s
  BY <1>1, <1>2 DEF Encrypt4, Decrypt4
<1>5. Encrypt4(Decrypt4(s, key, tweak, r), key, tweak, r) = s
  BY <1>1, <1>2 DEF Encrypt4, Decrypt4
<1> QED
  BY <1>3, <1>4, <1>5

\* halfloop_decrypt undoes halfloop_encrypt, for every key, tweak and plaintext,
\* and the other way round: under a key, every ciphertext has one plaintext.
THEOREM DecryptUndoesEncrypt ==
  ASSUME SboxesInverse, NEW key \in Keys, NEW tweak \in Word(64), NEW x \in State
  PROVE  /\ halfloop_encrypt(x, key, tweak) \in State
         /\ halfloop_decrypt(x, key, tweak) \in State
         /\ halfloop_decrypt(halfloop_encrypt(x, key, tweak), key, tweak) = x
         /\ halfloop_encrypt(halfloop_decrypt(x, key, tweak), key, tweak) = x
<1> DEFINE rk(r) == RoundKey(key, tweak, r)
<1>1. rk(0) \in State /\ rk(1) \in State /\ rk(10) \in State
  BY RoundKeyType DEF SboxesInverse
<1>2. ASSUME NEW s \in State, NEW k \in State
      PROVE  /\ Xor(s, k) \in State /\ Xor(Xor(s, k), k) = s
             /\ EncryptRound(s, k) \in State /\ DecryptRound(s, k) \in State
             /\ EncryptLast(s, k) \in State /\ DecryptLast(s, k) \in State
             /\ DecryptRound(EncryptRound(s, k), k) = s
             /\ EncryptRound(DecryptRound(s, k), k) = s
             /\ DecryptLast(EncryptLast(s, k), k) = s
             /\ EncryptLast(DecryptLast(s, k), k) = s
  BY RoundInverse, XorType, XorTwice
<1> DEFINE E(s, r) == Encrypt4(s, key, tweak, r)
           D(s, r) == Decrypt4(s, key, tweak, r)
<1>3. ASSUME NEW s \in State, NEW r \in {2, 6}
      PROVE  E(s, r) \in State /\ D(s, r) \in State /\ D(E(s, r), r) = s /\ E(D(s, r), r) = s
  BY FourRounds
<1>4. \A s : halfloop_encrypt(s, key, tweak)
              = EncryptLast(E(E(EncryptRound(Xor(s, rk(0)), rk(1)), 2), 6), rk(10))
  BY DEF halfloop_encrypt
<1>5. \A s : halfloop_decrypt(s, key, tweak)
              = Xor(DecryptRound(D(D(DecryptLast(s, rk(10)), 6), 2), rk(1)), rk(0))
  BY DEF halfloop_decrypt, DecryptTo2
<1> HIDE DEF rk, E, D
<1>6. /\ halfloop_encrypt(x, key, tweak) \in State
      /\ halfloop_decrypt(halfloop_encrypt(x, key, tweak), key, tweak) = x
  BY <1>1, <1>2, <1>3, <1>4, <1>5
<1>7. /\ halfloop_decrypt(x, key, tweak) \in State
      /\ halfloop_encrypt(halfloop_decrypt(x, key, tweak), key, tweak) = x
  BY <1>1, <1>2, <1>3, <1>4, <1>5
<1> QED
  BY <1>6, <1>7

-----------------------------------------------------------------------------
(* The bitsliced search.                                                     *)
(*                                                                           *)
(* First, a lane computes the rounds of the plain cipher (LaneRound).  Then, *)
(* the round keys that the search derives are those of the key it tries,     *)
(* under the tweak of either ciphertext (Shortcuts, OneBitTweak and          *)
(* DerivedKeys).  Last, the comparison after the round with round key 2 is a *)
(* comparison of plaintexts (SamePlaintext).                                 *)

(* The round of a lane.                                                      *)

\* The positions of a byte.
LEMMA Positions ==
  \A p \in 0 .. 7 : p \in Below(8)
BY SMT DEF Below

\* The bits of x, by their names in an eightbits.
LEMMA BitNames ==
  ASSUME NEW x
  PROVE  /\ B(x, 0) <=> 7 \in x
         /\ B(x, 1) <=> 6 \in x
         /\ B(x, 2) <=> 5 \in x
         /\ B(x, 3) <=> 4 \in x
         /\ B(x, 4) <=> 3 \in x
         /\ B(x, 5) <=> 2 \in x
         /\ B(x, 6) <=> 1 \in x
         /\ B(x, 7) <=> 0 \in x
BY SMT DEF B

\* The gates of the multiplications compute the products of the tables.
LEMMA Multiply ==
  ASSUME NEW x \in Byte
  PROVE  /\ multiply6(x) = Times6(x)
         /\ multiply8(x) = Times8(x)
         /\ multiply39(x) = Times39(x)
<1>1. /\ Times6(x) \in Byte /\ Times8(x) \in Byte /\ Times39(x) \in Byte
      /\ Is6(Times6(x), x) /\ Is8(Times8(x), x) /\ Is39(Times39(x), x)
  BY TimesType, TimesBits
<1>2. multiply6(x) \in Byte /\ Is6(multiply6(x), x)
  <2>1. /\ multiply6(x) \in Byte
        /\ 7 \in multiply6(x) <=> xor(B(x, 1), B(x, 2))
        /\ 6 \in multiply6(x) <=> xor(B(x, 2), B(x, 3))
        /\ 5 \in multiply6(x) <=> xor(xor(B(x, 0), B(x, 3)), B(x, 4))
        /\ 4 \in multiply6(x) <=> xor(xor(B(x, 1), B(x, 4)), B(x, 5))
        /\ 3 \in multiply6(x) <=> xor(xor(B(x, 0), B(x, 1)), xor(B(x, 5), B(x, 6)))
        /\ 2 \in multiply6(x) <=> xor(xor(B(x, 0), B(x, 6)), B(x, 7))
        /\ 1 \in multiply6(x) <=> xor(B(x, 1), B(x, 7))
        /\ 0 \in multiply6(x) <=> xor(B(x, 0), B(x, 1))
    BY Positions, SMT DEF multiply6, Eightbits, Byte, Word
  <2> QED
    BY <2>1, BitNames, SMT DEF xor, Is6
<1>3. multiply8(x) \in Byte /\ Is8(multiply8(x), x)
  <2>1. /\ multiply8(x) \in Byte
        /\ 7 \in multiply8(x) <=> B(x, 3)
        /\ 6 \in multiply8(x) <=> xor(B(x, 0), B(x, 4))
        /\ 5 \in multiply8(x) <=> xor(xor(B(x, 0), B(x, 1)), B(x, 5))
        /\ 4 \in multiply8(x) <=> xor(xor(B(x, 1), B(x, 2)), B(x, 6))
        /\ 3 \in multiply8(x) <=> xor(xor(B(x, 0), B(x, 2)), B(x, 7))
        /\ 2 \in multiply8(x) <=> xor(B(x, 0), B(x, 1))
        /\ 1 \in multiply8(x) <=> xor(B(x, 1), B(x, 2))
        /\ 0 \in multiply8(x) <=> B(x, 2)
    BY Positions, SMT DEF multiply8, Eightbits, Byte, Word
  <2> QED
    BY <2>1, BitNames, SMT DEF xor, Is8
<1>4. multiply39(x) \in Byte /\ Is39(multiply39(x), x)
  <2>1. /\ multiply39(x) \in Byte
        /\ 7 \in multiply39(x) <=> xor(B(x, 2), B(x, 5))
        /\ 6 \in multiply39(x) <=> xor(B(x, 3), B(x, 6))
        /\ 5 \in multiply39(x) <=> xor(B(x, 4), B(x, 7))
        /\ 4 \in multiply39(x) <=> B(x, 5)
        /\ 3 \in multiply39(x) <=> xor(xor(B(x, 2), B(x, 5)), B(x, 6))
        /\ 2 \in multiply39(x) <=>
             xor(xor(xor(B(x, 0), B(x, 2)), xor(B(x, 3), B(x, 5))), xor(B(x, 6), B(x, 7)))
        /\ 1 \in multiply39(x) <=>
             xor(xor(xor(B(x, 0), B(x, 1)), xor(B(x, 3), B(x, 4))), xor(B(x, 6), B(x, 7)))
        /\ 0 \in multiply39(x) <=> xor(xor(B(x, 1), B(x, 4)), B(x, 7))
    BY Positions, SMT DEF multiply39, Eightbits, Byte, Word
  <2> QED
    BY <2>1, BitNames, SMT DEF xor, Is39
<1>5. multiply6(x) = Times6(x)
  BY <1>1, <1>2, SameByte DEF Is6
<1>6. multiply8(x) = Times8(x)
  BY <1>1, <1>3, SameByte DEF Is8
<1>7. multiply39(x) = Times39(x)
  BY <1>1, <1>4, SameByte DEF Is39
<1> QED
  BY <1>5, <1>6, <1>7

\* The renaming of the bits is a rotation.
LEMMA RotateNames ==
  ASSUME NEW x \in Byte
  PROVE  /\ bitslice_inv_rotate_rows_6(x) = Rotl8(x, 2)
         /\ bitslice_inv_rotate_rows_4(x) = Rotl8(x, 4)
<1> DEFINE y == Rotl8(x, 2)
           z == Rotl8(x, 4)
<1>1. y \in Byte /\ z \in Byte
  BY Rotations
<1>2. /\ 7 \in y <=> 5 \in x
      /\ 6 \in y <=> 4 \in x
      /\ 5 \in y <=> 3 \in x
      /\ 4 \in y <=> 2 \in x
      /\ 3 \in y <=> 1 \in x
      /\ 2 \in y <=> 0 \in x
      /\ 1 \in y <=> 7 \in x
      /\ 0 \in y <=> 6 \in x
  BY SMT DEF Rotl8, Shl, Shr, Byte, Word, Below
<1>3. /\ 7 \in z <=> 3 \in x
      /\ 6 \in z <=> 2 \in x
      /\ 5 \in z <=> 1 \in x
      /\ 4 \in z <=> 0 \in x
      /\ 3 \in z <=> 7 \in x
      /\ 2 \in z <=> 6 \in x
      /\ 1 \in z <=> 5 \in x
      /\ 0 \in z <=> 4 \in x
  BY SMT DEF Rotl8, Shl, Shr, Byte, Word, Below
<1> HIDE DEF y, z
<1> DEFINE u == bitslice_inv_rotate_rows_6(x)
           v == bitslice_inv_rotate_rows_4(x)
<1>4. /\ u \in Byte
      /\ 7 \in u <=> B(x, 2)
      /\ 6 \in u <=> B(x, 3)
      /\ 5 \in u <=> B(x, 4)
      /\ 4 \in u <=> B(x, 5)
      /\ 3 \in u <=> B(x, 6)
      /\ 2 \in u <=> B(x, 7)
      /\ 1 \in u <=> B(x, 0)
      /\ 0 \in u <=> B(x, 1)
  BY Positions, SMT DEF bitslice_inv_rotate_rows_6, Eightbits, Byte, Word
<1>5. /\ v \in Byte
      /\ 7 \in v <=> B(x, 4)
      /\ 6 \in v <=> B(x, 5)
      /\ 5 \in v <=> B(x, 6)
      /\ 4 \in v <=> B(x, 7)
      /\ 3 \in v <=> B(x, 0)
      /\ 2 \in v <=> B(x, 1)
      /\ 1 \in v <=> B(x, 2)
      /\ 0 \in v <=> B(x, 3)
  BY Positions, SMT DEF bitslice_inv_rotate_rows_4, Eightbits, Byte, Word
<1> HIDE DEF u, v
<1>6. u = y
  BY <1>1, <1>2, <1>4, BitNames, SameByte
<1>7. v = z
  BY <1>1, <1>3, <1>5, BitNames, SameByte
<1> QED
  BY <1>6, <1>7 DEF u, v, y, z

\* The lane of an exclusive or.
LEMMA LaneXor ==
  ASSUME NEW x, NEW y
  PROVE  Lane(Xor(x, y)) = xor24(Lane(x), Lane(y))
<1>1. \A lo \in Nat : ByteAt(Xor(x, y), lo) = Xor(ByteAt(x, lo), ByteAt(y, lo))
  <2> TAKE lo \in Nat
  <2>1. \A b : b \in ByteAt(Xor(x, y), lo) <=> b \in Xor(ByteAt(x, lo), ByteAt(y, lo))
    BY SMT DEF ByteAt, Mask, Shr, Xor
  <2> QED
    BY <2>1
<1> QED
  BY <1>1 DEF Lane, xor24, A0, A1, A2

\* A round in a lane is a round of the cipher.
LEMMA LaneRound ==
  ASSUME SboxesInverse, NEW s \in State, NEW rk \in State
  PROVE  bitslice_inv_round(Lane(s), Lane(rk)) = Lane(DecryptRound(s, rk))
<1> DEFINE x == Xor(s, rk)
           m == inv_mix_columns(x)
           r == inv_rotate_rows(m)
<1>1. x \in State /\ m \in State
  BY XorType, MixColumnsInverse
<1>2. A0(x) \in Byte /\ A1(x) \in Byte /\ A2(x) \in Byte
      /\ A0(m) \in Byte /\ A1(m) \in Byte /\ A2(m) \in Byte
  BY BytesOf
<1>3. bitslice_inv_mix_columns(Lane(x)) = Lane(m)
  <2> DEFINE p == Xor3(Times6(A0(x)), Times8(A1(x)), Times39(A2(x)))
             q == Xor3(Times39(A0(x)), Times6(A1(x)), Times8(A2(x)))
             t == Xor3(Times8(A0(x)), Times39(A1(x)), Times6(A2(x)))
  <2>1. bitslice_inv_mix_columns(Lane(x)) = [msb |-> p, mid |-> q, lsb |-> t]
    BY <1>2, Multiply DEF bitslice_inv_mix_columns, Lane
  <2>2. p \in Byte /\ q \in Byte /\ t \in Byte
    BY <1>2, TimesType, XorType DEF Xor3
  <2>3. m = Join(p, q, t)
    BY DEF inv_mix_columns
  <2> HIDE DEF p, q, t, m, x
  <2>4. A0(m) = p /\ A1(m) = q /\ A2(m) = t
    BY <2>2, <2>3, JoinBytes
  <2> QED
    BY <2>1, <2>4 DEF Lane
<1>4. bitslice_inv_round(Lane(s), Lane(rk))
        = [msb |-> inv_SBOX[A0(m)],
           mid |-> inv_SBOX[Rotl8(A1(m), 2)],
           lsb |-> inv_SBOX[Rotl8(A2(m), 4)]]
  <2>1. bitslice_inv_mix_columns(xor24(Lane(s), Lane(rk))) = Lane(m)
    BY <1>3, LaneXor
  <2> HIDE DEF m
  <2> QED
    BY <1>2, <2>1, RotateNames DEF bitslice_inv_round, Lane
<1>5. A0(r) = A0(m) /\ A1(r) = Rotl8(A1(m), 2) /\ A2(r) = Rotl8(A2(m), 4)
  <2> HIDE DEF m
  <2> QED
    BY <1>2, Rotations, JoinBytes DEF inv_rotate_rows
<1>6. /\ inv_SBOX[A0(r)] \in Byte /\ inv_SBOX[A1(r)] \in Byte /\ inv_SBOX[A2(r)] \in Byte
  BY BytesOf DEF SboxesInverse
<1>7. DecryptRound(s, rk) = Join(inv_SBOX[A0(r)], inv_SBOX[A1(r)], inv_SBOX[A2(r)])
  BY DEF DecryptRound, inv_sub_bytes
<1> HIDE DEF x, m, r
<1> QED
  BY <1>4, <1>5, <1>6, <1>7, JoinBytes DEF Lane

-----------------------------------------------------------------------------
(* The round keys.                                                           *)

\* The halves of the key from the halves that the last round keys are taken of,
\* bit by bit.
LEMMA Halves ==
  ASSUME SboxType, NEW key \in Keys, NEW tweak \in Word(64)
  PROVE  LET h0 == Hi0(key, tweak)
             h == Hi1(key, tweak)
             l == Lo1(key, tweak)
         IN  /\ h0 \in Word(64) /\ h \in Word(64) /\ l \in Word(64)
             /\ \A b \in Nat : b < 32 => (b \in h0 <=> ~(b \in h <=> b + 32 \in h))
             /\ \A b \in Nat : b < 32 => (b \in key.lo <=> ~(b \in l <=> b + 32 \in l))
             /\ \A b \in Nat : 32 <= b /\ b < 64 =>
                  (b \in key.lo <=> ~(b \in l <=> b - 32 \in h))
<1> DEFINE h0 == Hi0(key, tweak)
           h == Hi1(key, tweak)
           l == Lo1(key, tweak)
           g == G(Mask(key.lo, 0, 32), {0})
<1>1. h0 \in Word(64) /\ h \in Word(64) /\ l \in Word(64) /\ key.lo \in Word(64)
  BY Closed, TweakedHi, TweakedLo DEF Keys, Hi0
<1>2. g \in Word(64) /\ Mask(g, 0, 32) = g
  <2>1. g \in Word(32)
    BY GBits
  <2> HIDE DEF g
  <2> QED
    BY <2>1, Narrow
<1>3. h = Mixed(h0, Mask(g, 0, 32)) /\ l = Mixed(key.lo, Mask(h, 0, 32))
  BY <1>2 DEF Hi1, Lo1
<1> HIDE DEF h0, h, l, g
<1>4. Unmixed(h, g) = h0 /\ Unmixed(l, h) = key.lo
  BY <1>1, <1>2, <1>3, UnmixedMixed
<1>5. \A b \in Nat : b < 32 => (b \in Unmixed(h, g) <=> ~(b \in h <=> b + 32 \in h))
  BY <1>1, <1>2, UnmixedBits
<1>6. /\ \A b \in Nat : b < 32 => (b \in Unmixed(l, h) <=> ~(b \in l <=> b + 32 \in l))
      /\ \A b \in Nat : 32 <= b /\ b < 64 =>
           (b \in Unmixed(l, h) <=> ~(b \in l <=> b - 32 \in h))
  BY <1>1, UnmixedBits
<1> QED
  BY <1>1, <1>4, <1>5, <1>6 DEF h0, h, l

\* Round keys 2 to 5 from round keys 6 to 10, under the same tweak.
LEMMA Shortcuts ==
  ASSUME SboxType, NEW key \in Keys, NEW tweak \in Word(64),
         NEW rk, rk = [r \in 0 .. 10 |-> RoundKey(key, tweak, r)]
  PROVE  /\ rk[3] = Xor(Mask(Shl(rk[8], 8, 32), 8, 24) \cup Shr(rk[9], 16), rk[7])
         /\ rk[4] = Xor(Mask(Shl(rk[9], 8, 32), 8, 24) \cup Shr(rk[10], 16), rk[8])
         /\ A0(rk[5]) = ByteAt(Xor(Shl(rk[10], 8, 32), rk[9]), 16)
         /\ A1(rk[5]) = Xor(Xor(Mask(rk[10], 0, 8), {1}), SBOX[Mask(rk[9], 0, 8)])
         /\ A0(rk[2]) = ByteAt(Xor(Shr(rk[7], 8), Shr(rk[6], 16)), 0)
         /\ A1(rk[2]) = ByteAt(Xor(rk[7], Shr(rk[6], 8)), 0)
         /\ A2(rk[2]) = ByteAt(Xor(Shr(rk[8], 16), rk[6]), 0)
<1> DEFINE h0 == Hi0(key, tweak)
           h == Hi1(key, tweak)
           l == Lo1(key, tweak)
           g == G(Mask(l, 0, 32), {1})
           s == SBOX[ByteAt(Mask(l, 0, 32), 16)]
<1>1. /\ h0 \in Word(64) /\ h \in Word(64) /\ l \in Word(64)
      /\ \A b \in Nat : b < 32 => (b \in h0 <=> ~(b \in h <=> b + 32 \in h))
      /\ \A b \in Nat : b < 32 => (b \in key.lo <=> ~(b \in l <=> b + 32 \in l))
      /\ \A b \in Nat : 32 <= b /\ b < 64 => (b \in key.lo <=> ~(b \in l <=> b - 32 \in h))
  BY Halves
<1>2. key.lo \in Word(64) /\ g \in Word(32)
  BY GBits DEF Keys
<1>3. \A b \in Nat : b \in Shr(g, 24) <=> b \in Xor(s, {1})
  <2> {1} \in Word(8)
    BY SMT DEF Word, Below
  <2> QED BY GTop
<1>4. /\ rk[2] = Mask(Shl(h0, 8, 64), 8, 24) \cup Shr(key.lo, 56)
      /\ rk[3] = Mask(Shr(key.lo, 32), 0, 24)
      /\ rk[4] = Mask(Shr(key.lo, 8), 0, 24)
      /\ rk[5] = Shl(Mask(key.lo, 0, 8), 16, 32) \cup Shr(h, 48)
      /\ rk[6] = Mask(Shr(h, 24), 0, 24)
      /\ rk[7] = Mask(h, 0, 24)
      /\ rk[8] = Shr(l, 40)
      /\ rk[9] = Mask(Shr(l, 16), 0, 24)
      /\ rk[10] = Mask(Shl(l, 8, 64), 8, 24) \cup Shr(Xor(h, Shl(g, 32, 64)), 56)
  BY DEF RoundKey, Hi2
<1>5. /\ rk[2] \in State /\ rk[3] \in State /\ rk[4] \in State /\ rk[5] \in State
      /\ rk[6] \in State /\ rk[7] \in State /\ rk[8] \in State /\ rk[9] \in State
      /\ rk[10] \in State
  BY RoundKeyType
<1>6. s \in Byte
  BY SMT DEF SboxType, ByteAt, Mask, Shr, Byte, Word, Below
<1>7. Mask(rk[9], 0, 8) = ByteAt(Mask(l, 0, 32), 16)
  BY <1>1, <1>4, SMT DEF ByteAt, Mask, Shr, Word, Below
<1> HIDE DEF h0, h, l, g
<1>8. ASSUME NEW b \in Nat
      PROVE  /\ b < 8 => (b \in rk[2] <=> b + 56 \in key.lo)
             /\ 8 <= b /\ b < 24 => (b \in rk[2] <=> b - 8 \in h0)
             /\ b < 24 => (b \in rk[3] <=> b + 32 \in key.lo)
             /\ b < 24 => (b \in rk[4] <=> b + 8 \in key.lo)
             /\ b < 16 => (b \in rk[5] <=> b + 48 \in h)
             /\ 16 <= b /\ b < 24 => (b \in rk[5] <=> b - 16 \in key.lo)
             /\ b < 24 => (b \in rk[6] <=> b + 24 \in h)
             /\ b < 24 => (b \in rk[7] <=> b \in h)
             /\ b < 24 => (b \in rk[8] <=> b + 40 \in l)
             /\ b < 24 => (b \in rk[9] <=> b + 16 \in l)
  <2> DEFINE k == key.lo
  <2>0. /\ \A c \in h0 : c \in Nat /\ c < 64
        /\ \A c \in h : c \in Nat /\ c < 64
        /\ \A c \in l : c \in Nat /\ c < 64
        /\ \A c \in k : c \in Nat /\ c < 64
    BY <1>1, <1>2 DEF Word, Below
  <2>1. rk[2] = Mask(Shl(h0, 8, 64), 8, 24) \cup Shr(k, 56)
    BY <1>4
  <2>2. rk[5] = Shl(Mask(k, 0, 8), 16, 32) \cup Shr(h, 48)
    BY <1>4
  <2> HIDE DEF k
  <2>3. b < 8 => (b \in rk[2] <=> b + 56 \in k)
    BY <2>1, SMT DEF Mask, Shr
  <2>4. 8 <= b /\ b < 24 => (b \in rk[2] <=> b - 8 \in h0)
    <3>1. 8 <= b => b + 56 \notin k
      BY <2>0, SMT
    <3> QED
      BY <2>1, <3>1, SMT DEF Mask, Shl, Shr, Below
  <2>5. b < 16 => (b \in rk[5] <=> b + 48 \in h)
    BY <2>2, SMT DEF Shl, Shr
  <2>6. 16 <= b /\ b < 24 => (b \in rk[5] <=> b - 16 \in k)
    <3>1. 16 <= b => b + 48 \notin h
      BY <2>0, SMT
    <3> QED
      BY <2>2, <3>1, SMT DEF Mask, Shl, Shr, Below
  <2>7. b < 24 => (b \in rk[3] <=> b + 32 \in k) /\ (b \in rk[4] <=> b + 8 \in k)
    <3>1. rk[3] = Mask(Shr(k, 32), 0, 24) /\ rk[4] = Mask(Shr(k, 8), 0, 24)
      BY <1>4 DEF k
    <3> QED
      BY <3>1, SMT DEF Mask, Shr
  <2>8. b < 24 => (b \in rk[6] <=> b + 24 \in h) /\ (b \in rk[7] <=> b \in h)
    <3>1. rk[6] = Mask(Shr(h, 24), 0, 24) /\ rk[7] = Mask(h, 0, 24)
      BY <1>4
    <3> QED
      BY <3>1, SMT DEF Mask, Shr
  <2>9. b < 24 => (b \in rk[8] <=> b + 40 \in l) /\ (b \in rk[9] <=> b + 16 \in l)
    <3>1. rk[8] = Shr(l, 40) /\ rk[9] = Mask(Shr(l, 16), 0, 24)
      BY <1>4
    <3> QED
      BY <3>1, SMT DEF Mask, Shr
  <2> QED
    BY <2>3, <2>4, <2>5, <2>6, <2>7, <2>8, <2>9 DEF k
<1>9. ASSUME NEW b \in Nat
      PROVE  /\ b < 8 => (b \in rk[10] <=> ~(b + 56 \in h <=> b \in Xor(s, {1})))
             /\ 8 <= b /\ b < 24 => (b \in rk[10] <=> b - 8 \in l)
  <2> DEFINE x == Xor(h, Shl(g, 32, 64))
             t == Xor(s, {1})
  <2>1. rk[10] = Mask(Shl(l, 8, 64), 8, 24) \cup Shr(x, 56)
    BY <1>4
  <2>2. \A c \in h \cup Shl(g, 32, 64) : c \in Nat /\ c < 64
    BY <1>1 DEF Word, Below, Shl
  <2>3. b < 8 => (b + 56 \in Shl(g, 32, 64) <=> b \in t)
    <3>1. b < 8 => (b + 56 \in Shl(g, 32, 64) <=> b + 24 \in g)
      BY SMT DEF Shl, Below
    <3>2. b + 24 \in g <=> b \in t
      BY <1>3, SMT DEF Shr
    <3> QED BY <3>1, <3>2
  <2> HIDE DEF t
  <2>4. b < 8 => (b + 56 \in x <=> ~(b + 56 \in h <=> b \in t))
    BY <2>3 DEF Xor
  <2>5. 8 <= b => b + 56 \notin x
    <3>1. 8 <= b => ~(b + 56 < 64)
      BY SMT
    <3> QED
      BY <2>2, <3>1 DEF Xor
  <2> HIDE DEF x
  <2>6. b < 8 => (b \in rk[10] <=> b + 56 \in x)
    BY <2>1, SMT DEF Mask, Shr
  <2>7. 8 <= b /\ b < 24 => (b \in rk[10] <=> b - 8 \in l)
    BY <2>1, <2>5, SMT DEF Mask, Shl, Shr, Below
  <2> QED
    BY <2>4, <2>6, <2>7 DEF t
<1>10. rk[3] = Xor(Mask(Shl(rk[8], 8, 32), 8, 24) \cup Shr(rk[9], 16), rk[7])
  <2> DEFINE x == Mask(Shl(rk[8], 8, 32), 8, 24) \cup Shr(rk[9], 16)
  <2>1. ASSUME NEW b \in Nat, b < 24
        PROVE  b \in x <=> b + 32 \in l
    <3>1. CASE b < 8
      <4>1. b \in x <=> b + 16 \in rk[9]
        BY <3>1, SMT DEF Shl, Shr, Mask, Below
      <4>2. b + 16 \in rk[9] <=> b + 32 \in l
        BY <1>8, <3>1, SMT
      <4> QED BY <4>1, <4>2
    <3>2. CASE 8 <= b
      <4>1. b + 16 \notin rk[9]
        BY <1>5, <3>2, SMT DEF State, Word, Below
      <4>2. b \in x <=> b - 8 \in rk[8]
        BY <2>1, <3>2, <4>1, SMT DEF Shl, Shr, Mask, Below
      <4>3. b - 8 \in rk[8] <=> b + 32 \in l
        BY <1>8, <2>1, <3>2, SMT
      <4> QED BY <4>2, <4>3
    <3> QED
      BY <3>1, <3>2, SMT
  <2>2. x \in State
    BY <1>5, SMT DEF Shl, Shr, Mask, State, Word, Below
  <2> HIDE DEF x
  <2>3. ASSUME NEW b \in Nat, b < 24
        PROVE  b \in rk[3] <=> b \in Xor(x, rk[7])
    <3>1. b + 32 \in key.lo <=> ~(b + 32 \in l <=> b \in h)
      BY <1>1, <2>3, SMT
    <3> QED
      BY <1>8, <2>1, <2>3, <3>1 DEF Xor
  <2>4. Xor(x, rk[7]) \in State
    BY <1>5, <2>2, XorType
  <2> QED
    <3>1. \A b \in Below(24) : b \in rk[3] <=> b \in Xor(x, rk[7])
      BY <2>3 DEF Below
    <3>2. rk[3] = Xor(x, rk[7])
      BY <1>5, <2>4, <3>1, SameBits DEF State
    <3> QED
      BY <3>2 DEF x
<1>11. rk[4] = Xor(Mask(Shl(rk[9], 8, 32), 8, 24) \cup Shr(rk[10], 16), rk[8])
  <2> DEFINE x == Mask(Shl(rk[9], 8, 32), 8, 24) \cup Shr(rk[10], 16)
  <2>1. ASSUME NEW b \in Nat, b < 24
        PROVE  b \in x <=> b + 8 \in l
    <3>1. CASE b < 8
      <4>1. b \in x <=> b + 16 \in rk[10]
        BY <3>1, SMT DEF Shl, Shr, Mask, Below
      <4>2. b + 16 \in rk[10] <=> b + 8 \in l
        BY <1>9, <3>1, SMT
      <4> QED BY <4>1, <4>2
    <3>2. CASE 8 <= b
      <4>1. b + 16 \notin rk[10]
        BY <1>5, <3>2, SMT DEF State, Word, Below
      <4>2. b \in x <=> b - 8 \in rk[9]
        BY <2>1, <3>2, <4>1, SMT DEF Shl, Shr, Mask, Below
      <4>3. b - 8 \in rk[9] <=> b + 8 \in l
        BY <1>8, <2>1, <3>2, SMT
      <4> QED BY <4>2, <4>3
    <3> QED
      BY <3>1, <3>2, SMT
  <2>2. x \in State
    BY <1>5, SMT DEF Shl, Shr, Mask, State, Word, Below
  <2> HIDE DEF x
  <2>3. ASSUME NEW b \in Nat, b < 24
        PROVE  b \in rk[4] <=> b \in Xor(x, rk[8])
    <3>1. b + 8 \in key.lo <=> ~(b + 8 \in l <=> b + 40 \in l)
      BY <1>1, <2>3, SMT
    <3> QED
      BY <1>8, <2>1, <2>3, <3>1 DEF Xor
  <2>4. Xor(x, rk[8]) \in State
    BY <1>5, <2>2, XorType
  <2> QED
    <3>1. \A b \in Below(24) : b \in rk[4] <=> b \in Xor(x, rk[8])
      BY <2>3 DEF Below
    <3>2. rk[4] = Xor(x, rk[8])
      BY <1>5, <2>4, <3>1, SameBits DEF State
    <3> QED
      BY <3>2 DEF x
<1>12. A0(rk[5]) = ByteAt(Xor(Shl(rk[10], 8, 32), rk[9]), 16)
  <2>1. ASSUME NEW b \in Nat, b < 8
        PROVE  b + 16 \in rk[5] <=> b + 16 \in Xor(Shl(rk[10], 8, 32), rk[9])
    <3>1. b + 16 \in rk[5] <=> ~(b \in l <=> b + 32 \in l)
      BY <1>1, <1>8, <2>1, SMT
    <3>2. b + 16 \in Shl(rk[10], 8, 32) <=> b \in l
      BY <1>9, <2>1, SMT DEF Shl, Below
    <3>3. b + 16 \in rk[9] <=> b + 32 \in l
      BY <1>8, <2>1, SMT
    <3> QED
      BY <3>1, <3>2, <3>3 DEF Xor
  <2> QED
    BY <2>1, SMT DEF A0, ByteAt, Mask, Shr
<1>13. A1(rk[5]) = Xor(Xor(Mask(rk[10], 0, 8), {1}), SBOX[Mask(rk[9], 0, 8)])
  <2>1. ASSUME NEW b \in Nat, b < 8
        PROVE  b + 8 \in rk[5] <=> b \in Xor(Xor(Mask(rk[10], 0, 8), {1}), s)
    <3>1. b + 8 \in rk[5] <=> b + 56 \in h
      BY <1>8, <2>1, SMT
    <3>2. b \in Mask(rk[10], 0, 8) <=> ~(b + 56 \in h <=> b \in Xor(s, {1}))
      BY <1>9, <2>1, SMT DEF Mask
    <3> HIDE DEF s
    <3> QED
      BY <3>1, <3>2 DEF Xor
  <2>2. Xor(Xor(Mask(rk[10], 0, 8), {1}), s) \in Byte
    <3>1. Mask(rk[10], 0, 8) \in Byte /\ {1} \in Byte
      BY <1>5, SMT DEF Mask, State, Byte, Word, Below
    <3> QED
      BY <1>6, <3>1, XorType
  <2>3. \A b \in Nat : b < 8 => (b \in A1(rk[5]) <=> b + 8 \in rk[5])
    BY SMT DEF A1, ByteAt, Mask, Shr
  <2>4. A1(rk[5]) \in Byte
    BY BytesOf
  <2>5. A1(rk[5]) = Xor(Xor(Mask(rk[10], 0, 8), {1}), s)
    BY <2>1, <2>2, <2>3, <2>4, SameBits DEF Byte, Below
  <2> QED
    BY <1>7, <2>5
<1>14. A0(rk[2]) = ByteAt(Xor(Shr(rk[7], 8), Shr(rk[6], 16)), 0)
  <2>1. ASSUME NEW b \in Nat, b < 8
        PROVE  b + 16 \in rk[2] <=> b \in Xor(Shr(rk[7], 8), Shr(rk[6], 16))
    <3>1. b + 16 \in rk[2] <=> ~(b + 8 \in h <=> b + 40 \in h)
      BY <1>1, <1>8, <2>1, SMT
    <3>2. b \in Shr(rk[7], 8) <=> b + 8 \in h
      BY <1>8, <2>1, SMT DEF Shr
    <3>3. b \in Shr(rk[6], 16) <=> b + 40 \in h
      BY <1>8, <2>1, SMT DEF Shr
    <3> QED
      BY <3>1, <3>2, <3>3 DEF Xor
  <2> QED
    BY <2>1, SMT DEF A0, ByteAt, Mask, Shr
<1>15. A1(rk[2]) = ByteAt(Xor(rk[7], Shr(rk[6], 8)), 0)
  <2>1. ASSUME NEW b \in Nat, b < 8
        PROVE  b + 8 \in rk[2] <=> b \in Xor(rk[7], Shr(rk[6], 8))
    <3>1. b + 8 \in rk[2] <=> ~(b \in h <=> b + 32 \in h)
      BY <1>1, <1>8, <2>1, SMT
    <3>2. b \in rk[7] <=> b \in h
      BY <1>8, <2>1, SMT
    <3>3. b \in Shr(rk[6], 8) <=> b + 32 \in h
      BY <1>8, <2>1, SMT DEF Shr
    <3> QED
      BY <3>1, <3>2, <3>3 DEF Xor
  <2> QED
    BY <2>1, SMT DEF A1, ByteAt, Mask, Shr
<1>16. A2(rk[2]) = ByteAt(Xor(Shr(rk[8], 16), rk[6]), 0)
  <2>1. ASSUME NEW b \in Nat, b < 8
        PROVE  b \in rk[2] <=> b \in Xor(Shr(rk[8], 16), rk[6])
    <3>1. b \in rk[2] <=> ~(b + 56 \in l <=> b + 24 \in h)
      BY <1>1, <1>8, <2>1, SMT
    <3>2. b \in Shr(rk[8], 16) <=> b + 56 \in l
      BY <1>8, <2>1, SMT DEF Shr
    <3>3. b \in rk[6] <=> b + 24 \in h
      BY <1>8, <2>1, SMT
    <3> QED
      BY <3>1, <3>2, <3>3 DEF Xor
  <2> QED
    BY <2>1, SMT DEF A2, ByteAt, Mask, Shr
<1> QED
  BY <1>10, <1>11, <1>12, <1>13, <1>14, <1>15, <1>16

\* The tweaks of the two ciphertexts differ in bit 30.  Of the round keys that are
\* used for both, no bit depends on it, and of round key 1, bit 14 does.
LEMMA OneBitTweak ==
  ASSUME NEW tw \in Word(64), NEW tb, tb = Xor(tw, {30})
  PROVE  /\ tb \in Word(64)
         /\ \A r \in {0, 2, 3, 4, 5, 7} : RoundTweak(tb, r) = RoundTweak(tw, r)
         /\ RoundTweak(tb, 1) = Xor(RoundTweak(tw, 1), {14})
         /\ \A byte : Round10Tweak(tb, byte) = Round10Tweak(tw, byte)
<1>1. tb \in Word(64)
  BY SMT DEF Xor, Word, Below
<1>2. \A b : b # 30 => (b \in tb <=> b \in tw)
  BY DEF Xor
<1>3. 30 \in tb <=> 30 \notin tw
  BY DEF Xor
<1>4. \A b \in Nat : b \in tw => b < 64
  BY DEF Word, Below
<1>5. Shr(tb, 32) = Shr(tw, 32) /\ Shr(tb, 40) = Shr(tw, 40)
  BY <1>2, SMT DEF Shr
<1>6. Shr(tb, 48) = Shr(tw, 48) /\ Shr(tb, 56) = Shr(tw, 56)
  BY <1>2, SMT DEF Shr
<1>7. Mask(Shl(tb, 8, 64), 8, 24) = Mask(Shl(tw, 8, 64), 8, 24)
  BY <1>2, SMT DEF Shl, Mask, Below
<1>8. Mask(Xor(tb, Shr(tb, 32)), 0, 24) = Mask(Xor(tw, Shr(tw, 32)), 0, 24)
  <2> DEFINE v == Shr(tw, 32)
  <2>1. \A b : b \in v => b \in Nat
    BY DEF Shr
  <2>2. \A b : b \in tb \cup tw => b \in Nat
    BY <1>1 DEF Word, Below
  <2> HIDE DEF v
  <2>3. \A b \in Nat : b \in Mask(Xor(tb, v), 0, 24) <=> b \in Mask(Xor(tw, v), 0, 24)
    BY <1>2, SMT DEF Xor, Mask
  <2> QED
    BY <1>5, <2>1, <2>2, <2>3 DEF Xor, Mask, v
<1>9. \A r \in {0, 2, 3, 4, 5, 7} : RoundTweak(tb, r) = RoundTweak(tw, r)
  BY <1>5, <1>6, <1>7, <1>8 DEF RoundTweak
<1>10. RoundTweak(tb, 1) = Xor(RoundTweak(tw, 1), {14})
  <2>1. /\ RoundTweak(tb, 1) = Mask(Shr(tb, 16), 0, 24)
        /\ RoundTweak(tw, 1) = Mask(Shr(tw, 16), 0, 24)
    BY DEF RoundTweak
  <2>2. ASSUME NEW b \in Nat
        PROVE  b \in Mask(Shr(tb, 16), 0, 24) <=> b \in Xor(Mask(Shr(tw, 16), 0, 24), {14})
    <3>1. CASE b = 14
      BY <1>3, <3>1, SMT DEF Mask, Shr, Xor
    <3>2. CASE b # 14
      BY <1>2, <3>2, SMT DEF Mask, Shr, Xor
    <3> QED BY <3>1, <3>2
  <2>3. Mask(Shr(tb, 16), 0, 24) \subseteq Nat
    BY DEF Mask, Shr
  <2>4. Xor(Mask(Shr(tw, 16), 0, 24), {14}) \subseteq Nat
    BY SMT DEF Mask, Shr, Xor
  <2> QED BY <2>1, <2>2, <2>3, <2>4
<1>11. ASSUME NEW byte
       PROVE  Round10Tweak(tb, byte) = Round10Tweak(tw, byte)
  <2>1. Mask(Xor(Shl(tb, 8, 64), Shr(tb, 24)), 8, 24)
          = Mask(Xor(Shl(tw, 8, 64), Shr(tw, 24)), 8, 24)
    <3>1. ASSUME NEW b \in Nat, 8 <= b, b < 24
          PROVE  /\ b \in Shl(tb, 8, 64) <=> b \in Shl(tw, 8, 64)
                 /\ b \in Shr(tb, 24) <=> b \in Shr(tw, 24)
      BY <1>2, <3>1, SMT DEF Shl, Shr, Below
    <3>2. \A b \in Nat : b \in Mask(Xor(Shl(tb, 8, 64), Shr(tb, 24)), 8, 24)
                         <=> b \in Mask(Xor(Shl(tw, 8, 64), Shr(tw, 24)), 8, 24)
      BY <3>1 DEF Mask, Xor
    <3>3. \A x : Mask(Xor(Shl(x, 8, 64), Shr(x, 24)), 8, 24) \subseteq Nat
      BY DEF Mask, Xor, Shl, Shr, Below
    <3> QED BY <3>2, <3>3
  <2>2. Mask(Xor(Xor(byte, Shr(tb, 16)), Shr(tb, 48)), 0, 8)
          = Mask(Xor(Xor(byte, Shr(tw, 16)), Shr(tw, 48)), 0, 8)
    <3> DEFINE v == Shr(tw, 48)
               p == Xor(byte, Shr(tb, 16))
               q == Xor(byte, Shr(tw, 16))
    <3>1. \A b : b # 14 => (b \in Shr(tb, 16) <=> b \in Shr(tw, 16))
      BY <1>2, SMT DEF Shr
    <3>2. \A b : b # 14 => (b \in p <=> b \in q)
      BY <3>1 DEF Xor
    <3> HIDE DEF v, p, q
    <3>3. \A b : b # 14 => (b \in Xor(p, v) <=> b \in Xor(q, v))
      BY <3>2 DEF Xor
    <3>4. ~(14 < 8)
      BY SMT
    <3>5. Mask(Xor(p, v), 0, 8) = Mask(Xor(q, v), 0, 8)
      BY <3>3, <3>4 DEF Mask
    <3> QED
      BY <1>6, <3>5 DEF v, p, q
  <2> QED
    BY <1>6, <2>1, <2>2 DEF Round10Tweak
<1> QED
  BY <1>1, <1>9, <1>10, <1>11

\* Exclusive or does not depend on the order.
LEMMA XorOrder ==
  ASSUME NEW x, NEW y, NEW z
  PROVE  /\ Xor(x, y) = Xor(y, x)
         /\ Xor(Xor(x, y), x) = y
         /\ Xor(x, Xor(y, z)) = Xor(Xor(x, z), y)
         /\ Xor(x, y) = {} <=> x = y
<1>1. Xor(x, y) = Xor(y, x)
  BY DEF Xor
<1>2. Xor(Xor(x, y), x) = y
  BY <1>1, XorTwice
<1>3. \A b : b \in Xor(x, Xor(y, z)) <=> b \in Xor(Xor(x, z), y)
  BY SMT DEF Xor
<1>4. Xor(x, y) = {} <=> x = y
  BY DEF Xor
<1> QED
  BY <1>1, <1>2, <1>3, <1>4

\* The difference of the key schedules of the zero key is the round tweak.
LEMMA DifferenceOfSchedules ==
  ASSUME SboxType, NEW a, NEW tweak \in Word(64), NEW r \in 0 .. 9
  PROVE  RoundTweakOf(a, tweak, r) = RoundTweak(tweak, r)
<1>1. ZeroKey \in Keys
  BY DEF ZeroKey, Keys, Word
<1>2. RoundKey(ZeroKey, tweak, r) = Xor(RoundKey(ZeroKey, {}, r), RoundTweak(tweak, r))
  BY <1>1, RoundTweakCorrect
<1>3. RoundTweakOf(a, tweak, r) = Xor(RoundKey(ZeroKey, tweak, r), RoundKey(ZeroKey, {}, r))
  BY SMT DEF RoundTweakOf
<1> QED
  BY <1>2, <1>3, XorOrder

\* The two parts of the argument rk56 of the reversal.
LEMMA PartsOfRk56 ==
  ASSUME NEW x \in Byte, NEW y \in State, NEW u \in Byte, NEW v \in State,
         Shl(x, 24, 32) \cup y = Shl(u, 24, 32) \cup v
  PROVE  x = u /\ y = v
<1> DEFINE p == Shl(x, 24, 32) \cup y
           q == Shl(u, 24, 32) \cup v
<1>1. ASSUME NEW b \in Nat, b < 8
      PROVE  b \in x <=> b \in u
  <2>1. b + 24 \in p <=> b \in x
    BY <1>1, SMT DEF Shl, State, Word, Below
  <2>2. b + 24 \in q <=> b \in u
    BY <1>1, SMT DEF Shl, State, Word, Below
  <2> QED BY <2>1, <2>2
<1>2. ASSUME NEW b \in Nat, b < 24
      PROVE  b \in y <=> b \in v
  <2>1. b \in p <=> b \in y
    BY <1>2, SMT DEF Shl
  <2>2. b \in q <=> b \in v
    BY <1>2, SMT DEF Shl
  <2> QED BY <2>1, <2>2
<1>3. \A b \in Below(8) : b \in x <=> b \in u
  BY <1>1 DEF Below
<1>4. \A b \in Below(24) : b \in y <=> b \in v
  BY <1>2 DEF Below
<1> QED
  BY <1>3, <1>4, SameBits DEF Byte, State

\* The upper bytes of round key 5 as the search puts it together.
LEMMA UpperBytes ==
  ASSUME NEW x, NEW y \in Byte, NEW z, z = Mask(x, 16, 24) \cup Shl(y, 8, 32)
  PROVE  A0(z) = ByteAt(x, 16) /\ A1(z) = y
<1>1. \A b \in Nat : b + 8 \in z /\ b < 8 <=> b \in y
  BY SMT DEF Mask, Shl, Byte, Word, Below
<1>2. \A b \in Nat : b < 8 => (b + 16 \in z <=> b + 16 \in x)
  <2> TAKE b \in Nat
  <2>1. b + 16 \notin Shl(y, 8, 32)
    BY SMT DEF Shl, Byte, Word, Below
  <2> QED BY <2>1, SMT DEF Mask
<1>3. A0(z) = ByteAt(x, 16)
  BY <1>2, SMT DEF A0, ByteAt, Mask, Shr
<1>4. A1(z) \in Byte /\ \A b \in Below(8) : b \in A1(z) <=> b \in y
  <2>1. \A b \in Nat : b \in A1(z) <=> b < 8 /\ b + 8 \in z
    BY SMT DEF A1, ByteAt, Mask, Shr
  <2> QED
    BY <1>1, <2>1, BytesOf DEF Below
<1> QED
  BY <1>3, <1>4, SameBits DEF Byte

\* The key of a lane has the round keys that the search was given and tries.
LEMMA KeyOfLaneHas ==
  ASSUME SboxType, NEW a \in Arguments, NEW byte \in Byte, NEW rk6 \in State,
         NEW key, key = KeyOfLane(a, byte, rk6)
  PROVE  /\ key \in Keys
         /\ ByteAt(RoundKey(key, {}, 5), 0) = byte
         /\ RoundKey(key, {}, 6) = rk6
         /\ RoundKey(key, {}, 7) = a.rk7n
         /\ RoundKey(key, {}, 8) = a.rk8n
         /\ RoundKey(key, {}, 9) = a.rk9n
         /\ RoundKey(key, {}, 10) = a.rk10n
<1> DEFINE rk56 == Shl(byte, 24, 32) \cup rk6
<1>1. rk56 \in Word(32)
  <2>1. rk6 \in Word(32)
    BY SMT DEF State, Word, Below
  <2>2. Shl(byte, 24, 32) \in Word(32)
    BY ShlClosed
  <2> QED BY <2>1, <2>2 DEF Word
<1>2. /\ a.rk7n \in Word(24) /\ a.rk8n \in Word(24)
      /\ a.rk9n \in Word(24) /\ a.rk10n \in Word(24)
  BY DEF Arguments, State
<1>3. key = RevertKey(rk56, a.rk7n, a.rk8n, a.rk9n, a.rk10n)
  BY DEF KeyOfLane
<1> HIDE DEF rk56
<1>4. /\ key \in Keys
      /\ Rk56(key) = rk56
      /\ RoundKey(key, {}, 7) = a.rk7n
      /\ RoundKey(key, {}, 8) = a.rk8n
      /\ RoundKey(key, {}, 9) = a.rk9n
      /\ RoundKey(key, {}, 10) = a.rk10n
  BY <1>1, <1>2, <1>3, ScheduleOfReverted
<1>5. {} \in Word(64)
  BY DEF Word
<1>6. RoundKey(key, {}, 6) \in State /\ ByteAt(RoundKey(key, {}, 5), 0) \in Byte
  BY <1>4, <1>5, RoundKeyType, BytesOf DEF A2
<1>7. Shl(ByteAt(RoundKey(key, {}, 5), 0), 24, 32) \cup RoundKey(key, {}, 6)
        = Shl(byte, 24, 32) \cup rk6
  BY <1>4 DEF Rk56, rk56
<1>8. ByteAt(RoundKey(key, {}, 5), 0) = byte /\ RoundKey(key, {}, 6) = rk6
  BY <1>6, <1>7, PartsOfRk56
<1> QED
  BY <1>4, <1>8

\* All the round keys that the search derives are those of the key that the lane
\* tries, under the tweak of the ciphertext they are used for.
LEMMA DerivedKeys ==
  ASSUME SboxType, NEW a \in Arguments, NEW byte \in Byte, NEW rk6 \in State,
         NEW key, key = KeyOfLane(a, byte, rk6),
         NEW tweak \in {TweakA(a), TweakB(a)}
  PROVE  /\ tweak \in Word(64)
         /\ Rk10(a) = RoundKey(key, tweak, 10)
         /\ Rk9(a, tweak) = RoundKey(key, tweak, 9)
         /\ Rk8(a, tweak) = RoundKey(key, tweak, 8)
         /\ Rk7(a) = RoundKey(key, tweak, 7)
         /\ Rk6(a, rk6, tweak) = RoundKey(key, tweak, 6)
         /\ LaneRk5(a, byte) = Lane(RoundKey(key, tweak, 5))
         /\ Rk4(a) = RoundKey(key, tweak, 4)
         /\ Rk3(a) = RoundKey(key, tweak, 3)
         /\ LaneRk2(a, rk6) = Lane(RoundKey(key, tweak, 2))
<1> DEFINE K(r, t) == RoundKey(key, t, r)
           ta == TweakA(a)
           tb == TweakB(a)
<1>1. /\ key \in Keys
      /\ ByteAt(K(5, {}), 0) = byte /\ K(6, {}) = rk6 /\ K(7, {}) = a.rk7n
      /\ K(8, {}) = a.rk8n /\ K(9, {}) = a.rk9n /\ K(10, {}) = a.rk10n
  BY KeyOfLaneHas
<1>2. ta \in Word(64) /\ tb = Xor(ta, {30})
  BY DEF Arguments, TweakA, TweakB
<1>3. /\ tb \in Word(64)
      /\ \A r \in {0, 2, 3, 4, 5, 7} : RoundTweak(tb, r) = RoundTweak(ta, r)
      /\ \A x : Round10Tweak(tb, x) = Round10Tweak(ta, x)
  <2> HIDE DEF ta, tb
  <2> QED BY <1>2, OneBitTweak
<1>4. ASSUME NEW t \in {ta, tb}
      PROVE  /\ t \in Word(64)
             /\ \A r \in 0 .. 9 : RoundTweakOf(a, t, r) = RoundTweak(t, r)
             /\ \A r \in 0 .. 9 : K(r, t) = Xor(K(r, {}), RoundTweak(t, r))
             /\ K(10, t) = Xor(K(10, {}), Round10Tweak(t, ByteAt(K(9, {}), 0)))
  BY <1>1, <1>2, <1>3, DifferenceOfSchedules, RoundTweakCorrect, Round10TweakCorrect
<1>5. \A r \in {0, 2, 3, 4, 5, 7, 10} : K(r, tb) = K(r, ta)
  <2> HIDE DEF ta, tb, K
  <2>1. \A r \in {0, 2, 3, 4, 5, 7} : r \in 0 .. 9
    BY SMT
  <2>2. \A r \in {0, 2, 3, 4, 5, 7} : K(r, tb) = K(r, ta)
    BY <1>3, <1>4, <2>1
  <2>3. K(10, tb) = K(10, ta)
    BY <1>3, <1>4
  <2> QED BY <2>2, <2>3
<1>6. /\ Rk10(a) = K(10, ta)
      /\ Rk7(a) = K(7, ta)
      /\ \A t \in {ta, tb} : Rk9(a, t) = K(9, t) /\ Rk8(a, t) = K(8, t)
      /\ \A t \in {ta, tb} : Rk6(a, rk6, t) = K(6, t)
  <2>1. Rk10(a) = Xor(a.rk10n, Round10Tweak(ta, ByteAt(a.rk9n, 0)))
    BY DEF Rk10, RoundTweakOf
  <2>2. /\ Rk7(a) = Xor(a.rk7n, RoundTweakOf(a, ta, 7))
        /\ \A t : Rk9(a, t) = Xor(a.rk9n, RoundTweakOf(a, t, 9))
        /\ \A t : Rk8(a, t) = Xor(a.rk8n, RoundTweakOf(a, t, 8))
        /\ \A t : Rk6(a, rk6, t) = Xor(rk6, RoundTweakOf(a, t, 6))
    BY DEF Rk9, Rk8, Rk7, Rk6
  <2>3. 7 \in 0 .. 9 /\ 9 \in 0 .. 9 /\ 8 \in 0 .. 9 /\ 6 \in 0 .. 9
    BY SMT
  <2> HIDE DEF ta, tb, K
  <2> QED
    BY <1>1, <1>4, <2>1, <2>2, <2>3
<1> DEFINE rk == [r \in 0 .. 10 |-> RoundKey(key, ta, r)]
<1>7. /\ rk[3] = Xor(Mask(Shl(rk[8], 8, 32), 8, 24) \cup Shr(rk[9], 16), rk[7])
      /\ rk[4] = Xor(Mask(Shl(rk[9], 8, 32), 8, 24) \cup Shr(rk[10], 16), rk[8])
      /\ A0(rk[5]) = ByteAt(Xor(Shl(rk[10], 8, 32), rk[9]), 16)
      /\ A1(rk[5]) = Xor(Xor(Mask(rk[10], 0, 8), {1}), SBOX[Mask(rk[9], 0, 8)])
      /\ A0(rk[2]) = ByteAt(Xor(Shr(rk[7], 8), Shr(rk[6], 16)), 0)
      /\ A1(rk[2]) = ByteAt(Xor(rk[7], Shr(rk[6], 8)), 0)
      /\ A2(rk[2]) = ByteAt(Xor(Shr(rk[8], 16), rk[6]), 0)
  <2> HIDE DEF ta, rk
  <2>1. rk = [r \in 0 .. 10 |-> RoundKey(key, ta, r)]
    BY DEF rk
  <2> QED
    BY <1>1, <1>2, <2>1, Shortcuts
<1>8. \A r \in 0 .. 10 : rk[r] = K(r, ta)
  OBVIOUS
<1>9. /\ rk[2] = K(2, ta) /\ rk[3] = K(3, ta) /\ rk[4] = K(4, ta) /\ rk[5] = K(5, ta)
      /\ rk[6] = Rk6(a, rk6, ta) /\ rk[7] = Rk7(a) /\ rk[8] = Rk8(a, ta)
      /\ rk[9] = Rk9(a, ta) /\ rk[10] = Rk10(a)
  <2>1. \A r \in {2, 3, 4, 5, 6, 7, 8, 9, 10} : r \in 0 .. 10
    BY SMT
  <2> HIDE DEF rk, K, ta
  <2> QED BY <1>6, <1>8, <2>1
<1>10. Rk3(a) = K(3, ta) /\ Rk4(a) = K(4, ta)
  <2> HIDE DEF rk, K
  <2> QED BY <1>7, <1>9 DEF Rk3, Rk4
<1>11. LaneRk2(a, rk6) = Lane(K(2, ta))
  <2> HIDE DEF rk, K
  <2> QED BY <1>7, <1>9 DEF LaneRk2, Lane
<1>12. LaneRk5(a, byte) = Lane(K(5, ta))
  <2> DEFINE x == Xor(Shl(Rk10(a), 8, 32), Rk9(a, ta))
             y == Xor(Xor(Mask(Rk10(a), 0, 8), {1}), SBOX[Mask(Rk9(a, ta), 0, 8)])
  <2>1. Rk5(a) = Mask(x, 16, 24) \cup Shl(y, 8, 32)
    BY DEF Rk5
  <2>2. A0(K(5, ta)) = ByteAt(x, 16) /\ A1(K(5, ta)) = y
    <3> HIDE DEF rk, K, ta
    <3> QED BY <1>7, <1>9
  <2>3. y \in Byte
    BY <2>2, BytesOf
  <2> HIDE DEF x, y
  <2>4. A0(Rk5(a)) = ByteAt(x, 16) /\ A1(Rk5(a)) = y
    BY <2>1, <2>3, UpperBytes
  <2>5. A2(K(5, ta)) = Xor(ByteAt(RoundTweakOf(a, ta, 5), 0), byte)
    <3>1. 5 \in 0 .. 9
      BY SMT
    <3>2. K(5, ta) = Xor(K(5, {}), RoundTweakOf(a, ta, 5))
      <4> HIDE DEF K, ta
      <4> QED BY <1>4, <3>1
    <3>3. \A u, v : A2(Xor(u, v)) = Xor(A2(u), A2(v))
      BY LaneXor DEF Lane, xor24
    <3> HIDE DEF K, ta
    <3>4. A2(K(5, {})) = byte
      BY <1>1 DEF A2
    <3>5. A2(K(5, ta)) = Xor(byte, A2(RoundTweakOf(a, ta, 5)))
      BY <3>2, <3>3, <3>4
    <3> QED
      BY <3>5, XorOrder DEF A2
  <2> HIDE DEF K
  <2> QED
    BY <2>2, <2>4, <2>5 DEF LaneRk5, Lane
<1> HIDE DEF K, ta, tb, rk
<1>13. tweak \in {ta, tb}
  BY DEF ta, tb
<1>14. /\ K(10, tweak) = K(10, ta) /\ K(7, tweak) = K(7, ta) /\ K(5, tweak) = K(5, ta)
       /\ K(4, tweak) = K(4, ta) /\ K(3, tweak) = K(3, ta) /\ K(2, tweak) = K(2, ta)
  BY <1>5, <1>13
<1> QED
  BY <1>4, <1>6, <1>10, <1>11, <1>12, <1>13, <1>14 DEF K

-----------------------------------------------------------------------------
(* The comparison, and the theorem.                                          *)

\* The lane's state after the last round is that of the decryption.
LEMMA LaneDecrypts ==
  ASSUME SboxesInverse, NEW a \in Arguments, NEW byte \in Byte, NEW rk6 \in State,
         NEW key, key = KeyOfLane(a, byte, rk6),
         NEW tweak \in {TweakA(a), TweakB(a)}, NEW ct \in State
  PROVE  /\ DecryptTo2(ct, key, tweak) \in State
         /\ LaneState(a, ct, tweak, byte, rk6) = Lane(DecryptTo2(ct, key, tweak))
<1> DEFINE K(r) == RoundKey(key, tweak, r)
<1>1. /\ tweak \in Word(64)
      /\ Rk10(a) = K(10) /\ Rk9(a, tweak) = K(9) /\ Rk8(a, tweak) = K(8) /\ Rk7(a) = K(7)
      /\ Rk6(a, rk6, tweak) = K(6)
      /\ LaneRk5(a, byte) = Lane(K(5)) /\ Rk4(a) = K(4) /\ Rk3(a) = K(3)
      /\ LaneRk2(a, rk6) = Lane(K(2))
  BY DerivedKeys DEF SboxesInverse
<1>2. key \in Keys
  BY KeyOfLaneHas DEF SboxesInverse
<1>3. /\ K(2) \in State /\ K(3) \in State /\ K(4) \in State /\ K(5) \in State
      /\ K(6) \in State /\ K(7) \in State /\ K(8) \in State /\ K(9) \in State
      /\ K(10) \in State
  BY <1>1, <1>2, RoundKeyType DEF SboxesInverse
<1> DEFINE x5 == DecryptRound(X6(a, ct, tweak), K(6))
           x4 == DecryptRound(x5, K(5))
           x3 == DecryptRound(x4, K(4))
           x2 == DecryptRound(x3, K(3))
           x1 == DecryptRound(x2, K(2))
<1>4. X6(a, ct, tweak)
        = DecryptRound(DecryptRound(DecryptRound(DecryptLast(ct, K(10)), K(9)), K(8)), K(7))
  BY <1>1 DEF X6
<1>5. DecryptTo2(ct, key, tweak) = x1
  BY <1>4, SMT DEF DecryptTo2, Decrypt4
<1> HIDE DEF K
<1>6. \A s, rk \in State : DecryptRound(s, rk) \in State /\ DecryptLast(s, rk) \in State
  BY RoundInverse
<1>7. x5 \in State /\ x4 \in State /\ x3 \in State /\ x2 \in State /\ x1 \in State
  BY <1>3, <1>4, <1>6
<1>8. LaneState(a, ct, tweak, byte, rk6)
        = bitslice_inv_round(bitslice_inv_round(bitslice_inv_round(bitslice_inv_round(
            Lane(x5), Lane(K(5))), Lane(K(4))), Lane(K(3))), Lane(K(2)))
  BY <1>1 DEF LaneState
<1>9. \A s, rk \in State : bitslice_inv_round(Lane(s), Lane(rk)) = Lane(DecryptRound(s, rk))
  BY LaneRound
<1> HIDE DEF x5
<1>10. LaneState(a, ct, tweak, byte, rk6) = Lane(x1)
  BY <1>3, <1>7, <1>8, <1>9
<1> QED
  BY <1>5, <1>7, <1>10

\* Without round keys 0 and 1: the plaintexts of two ciphertexts are the same just
\* when the states before them differ in the bit in which round key 1 does.
LEMMA SameRoundOne ==
  ASSUME SboxesInverse, NEW x \in State, NEW y \in State, NEW rk1 \in State,
         NEW rk0 \in State
  PROVE  Xor(DecryptRound(x, rk1), rk0) = Xor(DecryptRound(y, Xor(rk1, {14})), rk0)
           <=> x = Xor(y, {14})
<1> DEFINE z == Xor(y, {14})
<1>1. z \in State
  <2> {14} \in State
    BY SMT DEF State, Word, Below
  <2> QED BY XorType
<1>2. DecryptRound(y, Xor(rk1, {14})) = DecryptRound(z, rk1)
  BY XorOrder DEF DecryptRound
<1> HIDE DEF z
<1>3. DecryptRound(x, rk1) = DecryptRound(z, rk1) => x = z
  <2>1. EncryptRound(DecryptRound(x, rk1), rk1) = x /\ EncryptRound(DecryptRound(z, rk1), rk1) = z
    BY <1>1, RoundInverse
  <2> QED BY <2>1
<1>4. \A u, v : Xor(u, rk0) = Xor(v, rk0) => u = v
  <2> SUFFICES ASSUME NEW u, NEW v, Xor(u, rk0) = Xor(v, rk0)
               PROVE  u = v
    OBVIOUS
  <2>1. Xor(Xor(u, rk0), rk0) = u /\ Xor(Xor(v, rk0), rk0) = v
    BY XorTwice
  <2> QED BY <2>1
<1> QED
  BY <1>2, <1>3, <1>4 DEF z

\* The comparison of the lane: bit b1 of the middle byte is bit 14 of a state.
LEMMA LaneComparison ==
  ASSUME NEW x \in State, NEW y \in State
  PROVE  xor24(Lane(x), [Lane(y) EXCEPT !.mid = Xor(@, {6})])
           = [msb |-> {}, mid |-> {}, lsb |-> {}]
           <=> x = Xor(y, {14})
<1> DEFINE z == Xor(y, {14})
<1>1. z \in State
  <2> {14} \in State
    BY SMT DEF State, Word, Below
  <2> QED BY XorType
<1>2. Lane({14}) = [msb |-> {}, mid |-> {6}, lsb |-> {}]
  <2>1. \A b \in Nat : /\ b \notin A0({14}) /\ b \notin A2({14})
                       /\ b \in A1({14}) <=> b = 6
    BY SMT DEF A0, A1, A2, ByteAt, Mask, Shr
  <2>2. A0({14}) \subseteq Nat /\ A1({14}) \subseteq Nat /\ A2({14}) \subseteq Nat
    BY BytesOf DEF Byte, Word, Below
  <2>3. A0({14}) = {} /\ A2({14}) = {} /\ A1({14}) = {6}
    BY <2>1, <2>2, SMT
  <2> QED BY <2>3 DEF Lane
<1>3. [Lane(y) EXCEPT !.mid = Xor(@, {6})] = Lane(z)
  <2>1. Lane(z) = xor24(Lane(y), Lane({14}))
    BY LaneXor
  <2>2. \A u : Xor(u, {}) = u
    BY DEF Xor
  <2>3. Lane(z) = [msb |-> A0(y), mid |-> Xor(A1(y), {6}), lsb |-> A2(y)]
    BY <1>2, <2>1, <2>2 DEF xor24, Lane
  <2> HIDE DEF z
  <2> QED BY <2>3 DEF Lane
<1> HIDE DEF z
<1>4. xor24(Lane(x), Lane(z)) = [msb |-> {}, mid |-> {}, lsb |-> {}]
        <=> A0(x) = A0(z) /\ A1(x) = A1(z) /\ A2(x) = A2(z)
  <2>1. xor24(Lane(x), Lane(z))
          = [msb |-> Xor(A0(x), A0(z)), mid |-> Xor(A1(x), A1(z)), lsb |-> Xor(A2(x), A2(z))]
    BY DEF xor24, Lane
  <2>2. \A u, v : Xor(u, v) = {} <=> u = v
    BY DEF Xor
  <2> QED BY <2>1, <2>2
<1>5. A0(x) = A0(z) /\ A1(x) = A1(z) /\ A2(x) = A2(z) <=> x = z
  <2>1. Join(A0(x), A1(x), A2(x)) = x /\ Join(A0(z), A1(z), A2(z)) = z
    BY <1>1, BytesJoin
  <2> QED BY <2>1
<1> QED
  BY <1>3, <1>4, <1>5 DEF z

\* A lane matches just when the two ciphertexts have the same plaintext under the
\* key that it tries.
LEMMA SamePlaintext ==
  ASSUME SboxesInverse, NEW a \in Arguments, NEW byte \in Byte, NEW rk6 \in State,
         NEW key, key = KeyOfLane(a, byte, rk6)
  PROVE  LaneMatches(a, byte, rk6)
           <=> halfloop_decrypt(a.cta, key, TweakA(a)) = halfloop_decrypt(a.ctb, key, TweakB(a))
<1> DEFINE ta == TweakA(a)
           tb == TweakB(a)
           x == DecryptTo2(a.cta, key, ta)
           y == DecryptTo2(a.ctb, key, tb)
<1>1. a.cta \in State /\ a.ctb \in State /\ ta \in Word(64) /\ tb = Xor(ta, {30})
  BY DEF Arguments, TweakA, TweakB
<1>2. key \in Keys
  BY KeyOfLaneHas DEF SboxesInverse
<1>3. /\ x \in State /\ LaneState(a, a.cta, ta, byte, rk6) = Lane(x)
      /\ y \in State /\ LaneState(a, a.ctb, tb, byte, rk6) = Lane(y)
  BY <1>1, LaneDecrypts
<1>4. LaneMatches(a, byte, rk6)
        <=> xor24(Lane(x), [Lane(y) EXCEPT !.mid = Xor(@, {6})])
              = [msb |-> {}, mid |-> {}, lsb |-> {}]
  BY <1>3 DEF LaneMatches
<1>5. /\ RoundKey(key, tb, 0) = RoundKey(key, ta, 0)
      /\ RoundKey(key, tb, 1) = Xor(RoundKey(key, ta, 1), {14})
      /\ RoundKey(key, ta, 0) \in State /\ RoundKey(key, ta, 1) \in State
  <2> HIDE DEF ta, tb
  <2>1. /\ tb \in Word(64)
        /\ RoundTweak(tb, 0) = RoundTweak(ta, 0)
        /\ RoundTweak(tb, 1) = Xor(RoundTweak(ta, 1), {14})
    BY <1>1, OneBitTweak
  <2>2. 0 \in 0 .. 9 /\ 1 \in 0 .. 9 /\ 0 \in 0 .. 10 /\ 1 \in 0 .. 10
    BY SMT
  <2>3. \A t \in {ta, tb} : \A r \in 0 .. 9 :
          RoundKey(key, t, r) = Xor(RoundKey(key, {}, r), RoundTweak(t, r))
    BY <1>1, <1>2, <2>1, RoundTweakCorrect DEF SboxesInverse
  <2>4. \A u, v : Xor(u, Xor(v, {14})) = Xor(Xor(u, v), {14})
    <3> SUFFICES ASSUME NEW u, NEW v
                 PROVE  Xor(u, Xor(v, {14})) = Xor(Xor(u, v), {14})
      OBVIOUS
    <3>1. Xor(v, {14}) = Xor({14}, v)
      BY XorOrder
    <3>2. Xor(u, Xor({14}, v)) = Xor(Xor(u, v), {14})
      BY XorOrder
    <3> QED BY <3>1, <3>2
  <2>5. RoundKey(key, ta, 0) \in State /\ RoundKey(key, ta, 1) \in State
    BY <1>1, <1>2, <2>2, RoundKeyType DEF SboxesInverse
  <2> QED
    BY <2>1, <2>2, <2>3, <2>4, <2>5
<1>6. /\ halfloop_decrypt(a.cta, key, ta)
            = Xor(DecryptRound(x, RoundKey(key, ta, 1)), RoundKey(key, ta, 0))
      /\ halfloop_decrypt(a.ctb, key, tb)
            = Xor(DecryptRound(y, Xor(RoundKey(key, ta, 1), {14})), RoundKey(key, ta, 0))
  BY <1>5 DEF halfloop_decrypt
<1> HIDE DEF x, y, ta, tb
<1> QED
  BY <1>3, <1>4, <1>5, <1>6, LaneComparison, SameRoundOne DEF ta, tb

\* halfloop_bitslice finds every key with the given round keys under which the two
\* ciphertexts have the same valid plaintext, and no other: the lanes miss no key,
\* and the derived round keys, the bit that is flipped instead of the rounds left
\* out and the reversal of the key schedule let no wrong one through.
THEOREM BitsliceFindsKeys ==
  ASSUME SboxesInverse, NEW a \in Arguments
  PROVE  halfloop_bitslice(a) = KeysToFind(a)
<1>1. ASSUME NEW key \in halfloop_bitslice(a)
      PROVE  key \in KeysToFind(a)
  <2>1. PICK p \in Byte \X State :
          key = KeyOfLane(a, p[1], p[2]) /\ LaneMatches(a, p[1], p[2])
    BY <1>1 DEF halfloop_bitslice
  <2>2. p[1] \in Byte /\ p[2] \in State
    OBVIOUS
  <2>3. /\ key \in Keys
        /\ RoundKey(key, {}, 7) = a.rk7n
        /\ RoundKey(key, {}, 8) = a.rk8n
        /\ RoundKey(key, {}, 9) = a.rk9n
        /\ RoundKey(key, {}, 10) = a.rk10n
    BY <2>1, <2>2, KeyOfLaneHas DEF SboxesInverse
  <2>4. halfloop_decrypt(a.cta, key, TweakA(a)) = halfloop_decrypt(a.ctb, key, TweakB(a))
    BY <2>1, <2>2, SamePlaintext
  <2>5. halfloop_decrypt(a.cta, key, TweakA(a)) \in ValidPlaintexts
    BY <1>1 DEF halfloop_bitslice, TweakA
  <2> QED
    BY <2>3, <2>4, <2>5 DEF KeysToFind
<1>2. ASSUME NEW key \in KeysToFind(a)
      PROVE  key \in halfloop_bitslice(a)
  <2> DEFINE byte == ByteAt(RoundKey(key, {}, 5), 0)
             rk6 == RoundKey(key, {}, 6)
  <2>1. /\ key \in Keys
        /\ RoundKey(key, {}, 7) = a.rk7n /\ RoundKey(key, {}, 8) = a.rk8n
        /\ RoundKey(key, {}, 9) = a.rk9n /\ RoundKey(key, {}, 10) = a.rk10n
        /\ halfloop_decrypt(a.cta, key, TweakA(a)) = halfloop_decrypt(a.ctb, key, TweakB(a))
        /\ halfloop_decrypt(a.cta, key, TweakA(a)) \in ValidPlaintexts
    BY <1>2 DEF KeysToFind
  <2>2. byte \in Byte /\ rk6 \in State
    <3>1. {} \in Word(64)
      BY DEF Word
    <3>2. A2(RoundKey(key, {}, 5)) \in Byte
      BY BytesOf
    <3>3. RoundKey(key, {}, 6) \in State
      BY <2>1, <3>1, RoundKeyType DEF SboxesInverse
    <3> QED
      BY <3>2, <3>3 DEF A2
  <2>3. key = KeyOfLane(a, byte, rk6)
    <3>1. RevertKey(Rk56(key), a.rk7n, a.rk8n, a.rk9n, a.rk10n) = key
      BY <2>1, RevertIsInverse DEF SboxesInverse
    <3>2. Rk56(key) = Shl(byte, 24, 32) \cup rk6
      BY DEF Rk56
    <3> HIDE DEF byte, rk6
    <3> QED
      BY <3>1, <3>2 DEF KeyOfLane
  <2> HIDE DEF byte, rk6
  <2>4. LaneMatches(a, byte, rk6)
    BY <2>1, <2>2, <2>3, SamePlaintext
  <2>5. <<byte, rk6>> \in {q \in Byte \X State : LaneMatches(a, q[1], q[2])}
    BY <2>2, <2>4
  <2>6. key \in {KeyOfLane(a, p[1], p[2]) :
                   p \in {q \in Byte \X State : LaneMatches(a, q[1], q[2])}}
    BY <2>3, <2>5
  <2> QED
    BY <2>1, <2>6 DEF halfloop_bitslice, TweakA
<1> QED
  BY <1>1, <1>2

-----------------------------------------------------------------------------
(* The division of the work among threads, iterations and lanes.             *)

\* The bits of the byte that the masks spell out are those of the lane.
LEMMA LaneBits ==
  /\ \A lane \in GpuLane :
       16 * Bit(lane, 16) + 8 * Bit(lane, 8) + 4 * Bit(lane, 4)
         + 2 * Bit(lane, 2) + Bit(lane, 1) = lane
  /\ \A low6 \in Position :
       32 * Bit(low6, 32) + 16 * Bit(low6, 16) + 8 * Bit(low6, 8)
         + 4 * Bit(low6, 4) + 2 * Bit(low6, 2) + Bit(low6, 1) = low6
  /\ \A i \in CmpWord : 128 * Bit(i, 2) + 64 * Bit(i, 1) = 64 * i
  /\ \A idx \in Index :
       128 * Bit(idx, 4) + 64 * Bit(idx, 2) + 32 * Bit(idx, 1) = 32 * (idx % 8)
BY SMT DEF Bit, GpuLane, Position, CmpWord, Index, Below

\* The byte that a lane of the kernel tries, in terms of the thread and lane.
LEMMA KernelByteIs ==
  ASSUME NEW idx \in Index, NEW lane \in GpuLane
  PROVE  KernelByte(idx, lane) = 32 * (idx % 8) + lane
<1> DEFINE hi == 128 * Bit(idx, 4) + 64 * Bit(idx, 2) + 32 * Bit(idx, 1)
           lo == 16 * Bit(lane, 16) + 8 * Bit(lane, 8) + 4 * Bit(lane, 4)
                   + 2 * Bit(lane, 2) + Bit(lane, 1)
<1>1. hi = 32 * (idx % 8) /\ lo = lane
  BY LaneBits
<1>2. KernelByte(idx, lane) = hi + lo
  BY SMT DEF KernelByte, Bit, Index, GpuLane, Below
<1> QED
  BY <1>1, <1>2, SMT DEF Index, GpuLane, Below

\* The byte that a lane of the CPU version tries.
LEMMA CpuByteIs ==
  ASSUME NEW i \in CmpWord, NEW low6 \in Position
  PROVE  CpuByte(i, low6) = 64 * i + low6
<1> DEFINE hi == 128 * Bit(i, 2) + 64 * Bit(i, 1)
           lo == 32 * Bit(low6, 32) + 16 * Bit(low6, 16) + 8 * Bit(low6, 8)
                   + 4 * Bit(low6, 4) + 2 * Bit(low6, 2) + Bit(low6, 1)
<1>1. hi = 64 * i /\ lo = low6
  BY LaneBits
<1>2. CpuByte(i, low6) = hi + lo
  BY SMT DEF CpuByte, Bit, CmpWord, Position, Below
<1> QED
  BY <1>1, <1>2 DEF CmpWord, Position, Below

-----------------------------------------------------------------------------
\* The word that a lane of the kernel stores names the byte and the round key
\* that the lane tried, so the key that is reverted from it is the one for
\* which the plaintexts are equal.
THEOREM KernelReportsWhatItTried ==
  ASSUME NEW idx \in Index, NEW it \in Iteration, NEW lane \in GpuLane
  PROVE  /\ ByteOf(KernelWord(idx, it, lane)) = KernelByte(idx, lane)
         /\ Rk6Of(KernelWord(idx, it, lane)) = KernelRk6(idx, it)
         /\ KernelByte(idx, lane) \in LowByte
         /\ KernelRk6(idx, it) \in Rk6s
<1>1. KernelRk6(idx, it) \in Rk6s
  BY SMT DEF KernelRk6, Index, Iteration, Rk6s, Pow24, Below
<1>2. KernelByte(idx, lane) \in LowByte
  BY KernelByteIs, SMT DEF Index, GpuLane, LowByte, Below
<1>3. KernelWord(idx, it, lane)
        = Pow24 * KernelByte(idx, lane) + KernelRk6(idx, it)
  BY KernelByteIs, <1>1, SMT DEF KernelWord, Index, GpuLane, Rk6s, Pow24, Below
<1> QED
  BY <1>1, <1>2, <1>3, SMT DEF ByteOf, Rk6Of, LowByte, Rk6s, Pow24, Below

\* Every combination of byte and round key is tried by a thread of the kernel.
THEOREM KernelTriesAll ==
  ASSUME NEW byte \in LowByte, NEW rk6 \in Rk6s
  PROVE  \E idx \in Index, it \in Iteration, lane \in GpuLane :
           KernelByte(idx, lane) = byte /\ KernelRk6(idx, it) = rk6
<1> DEFINE idx == 8 * (rk6 % 8192) + byte \div 32
           it == rk6 \div 8192
           lane == byte % 32
<1>1. idx \in Index /\ it \in Iteration /\ lane \in GpuLane
  BY SMT DEF LowByte, Rk6s, Index, Iteration, GpuLane, Pow24, Below
<1>2. idx \div 8 = rk6 % 8192 /\ idx % 8 = byte \div 32
  BY SMT DEF LowByte, Rk6s, Pow24, Below
<1>3. KernelByte(idx, lane) = byte
  <2>1. KernelByte(idx, lane) = 32 * (idx % 8) + lane
    BY <1>1, KernelByteIs
  <2> QED
    BY <1>2, <2>1, SMT DEF LowByte, Below
<1>4. KernelRk6(idx, it) = rk6
  BY <1>2, SMT DEF KernelRk6, Rk6s, Pow24, Below
<1> QED
  BY <1>1, <1>3, <1>4

\* No combination is tried twice: no key is found by two threads or lanes.
THEOREM KernelTriesOnce ==
  ASSUME NEW idx1 \in Index, NEW it1 \in Iteration, NEW lane1 \in GpuLane,
         NEW idx2 \in Index, NEW it2 \in Iteration, NEW lane2 \in GpuLane,
         KernelByte(idx1, lane1) = KernelByte(idx2, lane2),
         KernelRk6(idx1, it1) = KernelRk6(idx2, it2)
  PROVE  idx1 = idx2 /\ it1 = it2 /\ lane1 = lane2
<1>1. 32 * (idx1 % 8) + lane1 = 32 * (idx2 % 8) + lane2
  BY KernelByteIs
<1>2. idx1 % 8 = idx2 % 8 /\ lane1 = lane2
  BY <1>1, SMT DEF Index, GpuLane, Below
<1>3. idx1 \div 8 = idx2 \div 8 /\ it1 = it2
  BY SMT DEF KernelRk6, Index, Iteration, Below
<1> QED
  BY <1>2, <1>3, SMT DEF Index, Below

-----------------------------------------------------------------------------
\* The same for the lanes and iterations of the CPU version.
THEOREM CpuReportsWhatItTried ==
  ASSUME NEW i \in CmpWord, NEW low6 \in Position, NEW rk6 \in Rk6s
  PROVE  /\ ByteOf(CpuWord(i, low6, rk6)) = CpuByte(i, low6)
         /\ Rk6Of(CpuWord(i, low6, rk6)) = rk6
         /\ CpuByte(i, low6) \in LowByte
<1>1. CpuByte(i, low6) \in LowByte
  BY CpuByteIs, SMT DEF CmpWord, Position, LowByte, Below
<1>2. CpuWord(i, low6, rk6) = Pow24 * CpuByte(i, low6) + rk6
  BY CpuByteIs, SMT DEF CpuWord, Pow24
<1> QED
  BY <1>1, <1>2, SMT DEF ByteOf, Rk6Of, LowByte, Rk6s, Pow24, Below

\* Every byte is tried by exactly one lane of the CPU version.
THEOREM CpuTriesAllOnce ==
  /\ \A byte \in LowByte : \E i \in CmpWord, low6 \in Position : CpuByte(i, low6) = byte
  /\ \A i1, i2 \in CmpWord, p1, p2 \in Position :
       CpuByte(i1, p1) = CpuByte(i2, p2) => i1 = i2 /\ p1 = p2
<1>1. ASSUME NEW byte \in LowByte
      PROVE  \E i \in CmpWord, low6 \in Position : CpuByte(i, low6) = byte
  <2>1. byte \div 64 \in CmpWord /\ byte % 64 \in Position
    BY SMT DEF LowByte, CmpWord, Position, Below
  <2>2. CpuByte(byte \div 64, byte % 64) = 64 * (byte \div 64) + (byte % 64)
    BY <2>1, CpuByteIs
  <2> QED
    BY <2>1, <2>2, SMT DEF LowByte, Below
<1>2. ASSUME NEW i1 \in CmpWord, NEW i2 \in CmpWord, NEW p1 \in Position, NEW p2 \in Position,
             CpuByte(i1, p1) = CpuByte(i2, p2)
      PROVE  i1 = i2 /\ p1 = p2
  <2>1. 64 * i1 + p1 = 64 * i2 + p2
    BY <1>2, CpuByteIs
  <2> QED
    BY <2>1, SMT DEF CmpWord, Position, Below
<1> QED
  BY <1>1, <1>2

-----------------------------------------------------------------------------
\* The words that the kernel stores are those of the matching combinations,
\* none is missing and no other is among them.
THEOREM KernelFindsAll ==
  ASSUME NEW Equal \in SUBSET KeyParts
  PROVE  KernelFound(Equal) = {Rk56Of(part) : part \in Equal}
<1>1. ASSUME NEW idx \in Index, NEW it \in Iteration, NEW lane \in GpuLane
      PROVE  KernelWord(idx, it, lane)
               = Rk56Of(<<KernelByte(idx, lane), KernelRk6(idx, it)>>)
  <2>1. KernelRk6(idx, it) \in Rk6s
    BY KernelReportsWhatItTried
  <2> QED
    BY KernelByteIs, <2>1, SMT DEF KernelWord, Rk56Of, Index, GpuLane, Rk6s, Pow24, Below
<1>2. ASSUME NEW w \in KernelFound(Equal)
      PROVE  w \in {Rk56Of(part) : part \in Equal}
  <2>1. PICK s \in Index \X Iteration \X GpuLane :
          /\ <<KernelByte(s[1], s[3]), KernelRk6(s[1], s[2])>> \in Equal
          /\ w = KernelWord(s[1], s[2], s[3])
    BY <1>2 DEF KernelFound
  <2>2. w = Rk56Of(<<KernelByte(s[1], s[3]), KernelRk6(s[1], s[2])>>)
    BY <1>1, <2>1
  <2> QED
    BY <2>1, <2>2
<1>3. ASSUME NEW part \in Equal
      PROVE  Rk56Of(part) \in KernelFound(Equal)
  <2>1. part[1] \in LowByte /\ part[2] \in Rk6s /\ part = <<part[1], part[2]>>
    BY DEF KeyParts
  <2>2. PICK idx \in Index, it \in Iteration, lane \in GpuLane :
          KernelByte(idx, lane) = part[1] /\ KernelRk6(idx, it) = part[2]
    BY <2>1, KernelTriesAll
  <2> DEFINE s == <<idx, it, lane>>
  <2>3. s \in Index \X Iteration \X GpuLane
    OBVIOUS
  <2>4. <<KernelByte(s[1], s[3]), KernelRk6(s[1], s[2])>> \in Equal
    BY <2>1, <2>2
  <2>5. KernelWord(s[1], s[2], s[3]) = Rk56Of(part)
    BY <1>1, <2>1, <2>2
  <2> QED
    BY <2>3, <2>4, <2>5 DEF KernelFound
<1> QED
  BY <1>2, <1>3

\* Both versions of the search find the same: what a comparison of
\* halfloop_bitslice with the plain cipher shows also holds for the kernel.
THEOREM VersionsAgree ==
  ASSUME NEW Equal \in SUBSET KeyParts
  PROVE  CpuFound(Equal) = KernelFound(Equal)
<1>1. ASSUME NEW i \in CmpWord, NEW low6 \in Position, NEW rk6 \in Rk6s
      PROVE  CpuWord(i, low6, rk6) = Rk56Of(<<CpuByte(i, low6), rk6>>)
  BY CpuByteIs, SMT DEF CpuWord, Rk56Of, Pow24
<1>2. ASSUME NEW w \in CpuFound(Equal)
      PROVE  w \in {Rk56Of(part) : part \in Equal}
  <2>1. PICK s \in CmpWord \X Position \X Rk6s :
          <<CpuByte(s[1], s[2]), s[3]>> \in Equal /\ w = CpuWord(s[1], s[2], s[3])
    BY <1>2 DEF CpuFound
  <2>2. w = Rk56Of(<<CpuByte(s[1], s[2]), s[3]>>)
    BY <1>1, <2>1
  <2> QED
    BY <2>1, <2>2
<1>3. ASSUME NEW part \in Equal
      PROVE  Rk56Of(part) \in CpuFound(Equal)
  <2>1. part[1] \in LowByte /\ part[2] \in Rk6s /\ part = <<part[1], part[2]>>
    BY DEF KeyParts
  <2>2. PICK i \in CmpWord, low6 \in Position : CpuByte(i, low6) = part[1]
    BY <2>1, CpuTriesAllOnce
  <2> DEFINE s == <<i, low6, part[2]>>
  <2>3. s \in CmpWord \X Position \X Rk6s
    BY <2>1
  <2>4. <<CpuByte(s[1], s[2]), s[3]>> \in Equal
    BY <2>1, <2>2
  <2>5. CpuWord(s[1], s[2], s[3]) = Rk56Of(part)
    BY <1>1, <2>1, <2>2
  <2> QED
    BY <2>3, <2>4, <2>5 DEF CpuFound
<1> QED
  BY <1>2, <1>3, KernelFindsAll
=============================================================================
