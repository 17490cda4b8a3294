--------------------------- MODULE PackedCountersProofs ---------------------------
(*****************************************************************************)
(* Proofs about PackedCounters, for any threads, calls and layout.           *)
(*****************************************************************************)
EXTENDS PackedCounters, FiniteSetTheorems, SequenceTheorems, TLAPS

(* Layout: the shift of a field, idx * Width - q * PerWord * Width.           *)
Shift4(idx) == idx * 4 - (idx \div 8) * 32
Shift5(idx) == idx * 5 - DividedBySix(idx) * 30
Shift8(idx) == idx * 8 - (idx \div 4) * 32
Index16 == {i \in Nat : i < 65536}

\* The multiplication and shift of atomicInc5 divide every 16-bit index by six,
\* and the word is one of the 10923 of the count array of ct_attack3.
LEMMA DivideBySix ==
  ASSUME NEW idx \in Index16
  PROVE  /\ DividedBySix(idx) = idx \div 6
         /\ DividedBySix(idx) \in Nat
         /\ DividedBySix(idx) < 10923
<1>1. PICK q \in Nat, r \in Nat : idx = 6 * q + r /\ r < 6
  <2>1. idx \div 6 \in Nat /\ idx % 6 \in Nat /\ idx % 6 < 6
        /\ idx = 6 * (idx \div 6) + (idx % 6)
    BY SMTT(20) DEF Index16
  <2> QED
    BY <2>1
<1>2. q < 10923
  BY <1>1, SMTT(20) DEF Index16
<1>3. idx \div 6 = q
  BY <1>1, SMTT(20)
\* 6 * 43691 = 262144 + 2: the rest stays below 262144.
<1> DEFINE rest == 2 * q + 43691 * r
<1>4. rest \in Nat /\ rest < 262144
  BY <1>1, <1>2, SMTT(20)
<1>5. idx * 43691 = 262144 * q + rest
  BY <1>1, SMTT(20)
<1>6. \A a, b \in Nat : b < 262144 => (262144 * a + b) \div 262144 = a
  BY SMTT(20)
<1>7. (idx * 43691) \div 262144 = q
  <2> HIDE DEF rest
  <2> QED
    BY <1>4, <1>5, <1>6
<1> QED
  BY <1>2, <1>3, <1>7 DEF DividedBySix

\* The fields of a word lie inside its 32 bits, and two counters of one word
\* have fields that do not overlap, for the three widths.
THEOREM FieldsDisjoint ==
  ASSUME NEW i \in Index16, NEW j \in Index16, i # j
  PROVE  /\ Shift4(i) \in 0 .. 28 /\ Shift5(i) \in 0 .. 25 /\ Shift8(i) \in 0 .. 24
         /\ i \div 8 = j \div 8 =>
              Shift4(i) + 4 <= Shift4(j) \/ Shift4(j) + 4 <= Shift4(i)
         /\ DividedBySix(i) = DividedBySix(j) =>
              Shift5(i) + 5 <= Shift5(j) \/ Shift5(j) + 5 <= Shift5(i)
         /\ i \div 4 = j \div 4 =>
              Shift8(i) + 8 <= Shift8(j) \/ Shift8(j) + 8 <= Shift8(i)
  <1>1. DividedBySix(i) = i \div 6 /\ DividedBySix(j) = j \div 6
    BY DivideBySix
  <1>2. Shift5(i) = i * 5 - (i \div 6) * 30 /\ Shift5(j) = j * 5 - (j \div 6) * 30
    BY <1>1 DEF Shift5
  <1>3. Shift5(i) \in 0 .. 25
    BY <1>2, SMT DEF Index16
  <1>4. /\ Shift4(i) \in 0 .. 28
        /\ i \div 8 = j \div 8 =>
             Shift4(i) + 4 <= Shift4(j) \/ Shift4(j) + 4 <= Shift4(i)
    BY SMT DEF Shift4, Index16
  <1>5. Shift8(i) \in 0 .. 24
    BY SMT DEF Shift8, Index16
  <1>7. i \div 4 = j \div 4 =>
          Shift8(i) + 8 <= Shift8(j) \/ Shift8(j) + 8 <= Shift8(i)
    <2> SUFFICES ASSUME i \div 4 = j \div 4
                 PROVE  i * 8 + 8 <= j * 8 \/ j * 8 + 8 <= i * 8
      BY SMT DEF Shift8, Index16
    <2> QED BY SMT DEF Index16
  <1>6. DividedBySix(i) = DividedBySix(j) =>
          Shift5(i) + 5 <= Shift5(j) \/ Shift5(j) + 5 <= Shift5(i)
    BY <1>1, <1>2, SMT DEF Index16
  <1> QED BY <1>3, <1>4, <1>5, <1>6, <1>7

-----------------------------------------------------------------------------
(* The inductive invariant.                                                  *)

N(c) == Cardinality(Hits(c))
Due(t, c) == pc[t] = "test" /\ Reached(t) /\ Idx(t) = c
Listed(c) == \E i \in DOMAIN keys : keys[i] = c

\* A key on its way to the list: not before tau1 hits, then by one thread, and
\* in the list afterwards or dropped with the warning set; again only when a
\* saturated counter returns tau1, and never when no counter can.
Again(c) == tau1 = Saturation + 1 /\ N(c) > tau1
Listing ==
  \A c \in Counters :
    /\ N(c) < tau1 \/ tau1 > Saturation + 1 => ~Listed(c) /\ \A t \in Threads : ~Due(t, c)
    /\ \A t, u \in Threads : Due(t, c) /\ Due(u, c) => t = u \/ Again(c)
    /\ \A t \in Threads : Due(t, c) => ~Listed(c) \/ Again(c)
    /\ N(c) >= tau1 /\ tau1 <= Saturation + 1 =>
         Listed(c) \/ warn \/ \E t \in Threads : Due(t, c)

Distinct == \A i, j \in DOMAIN keys : keys[i] = keys[j] => i = j \/ Again(keys[i])
FiniteHits == \A c \in Counters : IsFiniteSet(Hits(c))
Inv == TypeOK /\ FiniteHits /\ NoLostHits /\ Listing /\ Distinct

\* Hits of a counter can be counted.
LEMMA NatN == ASSUME FiniteHits PROVE \A c \in Counters : N(c) \in Nat
  BY FS_CardinalityType DEF FiniteHits, N

\* The threshold is a positive number.
LEMMA Threshold == ASSUME TypeOK PROVE tau1 \in Nat \ {0} /\ Saturation \in Nat \ {0}
  BY CounterAssumption DEF TypeOK

\* The call a thread makes names a counter of the word it addresses.
LEMMA IdxType ==
  ASSUME TypeOK, NEW t \in Threads, Active(t)
  PROVE  Idx(t) \in Counters /\ Idx(t) \in InWord(WordOf(Idx(t)))
  <1>1. at[t] \in 1 .. Len(calls[t]) /\ calls[t] \in Seq(Counters)
    BY DEF TypeOK, Active
  <1>2. calls[t][at[t]] \in Counters
    BY <1>1
  <1> QED BY <1>2 DEF Idx, InWord

\* A step that leaves the effective calls alone leaves the hits alone.
LEMMA SameHits ==
  ASSUME calls' = calls, \A t \in Threads : Effective(t)' = Effective(t)
  PROVE  \A c \in Counters : Hits(c)' = Hits(c) /\ N(c)' = N(c)
  <1>1. \A c \in Counters : Hits(c)' = Hits(c)
    BY DEF Hits
  <1> QED BY <1>1 DEF N

\* The lists stay right when hits, list, warning and threshold stay.
LEMMA SameLists ==
  ASSUME Listing, Distinct, UNCHANGED <<tau1, keys, warn>>, TypeOK,
         \A c \in Counters : N(c)' = N(c),
         \A c \in Counters, u \in Threads : Due(u, c)' <=> Due(u, c)
  PROVE  Listing' /\ Distinct'
  <1>1. \A c \in Counters : (Again(c)' <=> Again(c)) /\ (Listed(c)' <=> Listed(c))
    BY DEF Again, Listed
  <1>2. \A c \in Counters :
          /\ N(c)' < tau1' \/ tau1' > Saturation + 1 =>
               ~Listed(c)' /\ \A t \in Threads : ~Due(t, c)'
          /\ \A t, u \in Threads : Due(t, c)' /\ Due(u, c)' => t = u \/ Again(c)'
          /\ \A t \in Threads : Due(t, c)' => ~Listed(c)' \/ Again(c)'
          /\ N(c)' >= tau1' /\ tau1' <= Saturation + 1 =>
               Listed(c)' \/ warn' \/ \E t \in Threads : Due(t, c)'
    <2> TAKE c \in Counters
    <2>1. /\ N(c) < tau1 \/ tau1 > Saturation + 1 => ~Listed(c) /\ \A t \in Threads : ~Due(t, c)
          /\ \A t, u \in Threads : Due(t, c) /\ Due(u, c) => t = u \/ Again(c)
          /\ \A t \in Threads : Due(t, c) => ~Listed(c) \/ Again(c)
          /\ N(c) >= tau1 /\ tau1 <= Saturation + 1 =>
               Listed(c) \/ warn \/ \E t \in Threads : Due(t, c)
      BY DEF Listing
    <2>2. /\ N(c)' = N(c) /\ tau1' = tau1 /\ warn' = warn
          /\ (Again(c)' <=> Again(c)) /\ (Listed(c)' <=> Listed(c))
          /\ \A u \in Threads : Due(u, c)' <=> Due(u, c)
      BY <1>1
    <2> QED BY <2>1, <2>2
  <1>3. \A n \in DOMAIN keys : keys[n] \in Counters
    BY DEF TypeOK
  <1>4. Distinct'
    BY <1>1, <1>3 DEF Distinct
  <1> QED BY <1>2, <1>4, Zenon DEF Listing

\* No counter has been hit at the start.
LEMMA InitInv == Init => Inv
  <1> SUFFICES ASSUME Init PROVE Inv
    OBVIOUS
  <1> USE CounterAssumption DEF Init
  <1>1. TypeOK
    <2>1. calls \in [Threads -> Seq(Counters)]
      OBVIOUS
    <2>2. /\ count \in [Counters -> 0 .. Saturation]
          /\ ret \in [Threads -> 0 .. Saturation + 1]
          /\ compare \in [Threads -> [Counters -> 0 .. Saturation]]
      <3>1. 0 \in 0 .. Saturation /\ 0 \in 0 .. Saturation + 1
        OBVIOUS
      <3> QED BY <3>1
    <2>3. \A t \in Threads : pc[t] = "load"
      OBVIOUS
    <2>4. /\ at \in [Threads -> Nat \ {0}]
          /\ pc \in [Threads -> {"load", "swap", "test"}]
      BY SMT DEF Init
    <2>5. keys \in Seq(Counters) /\ nkeys \in Nat /\ warn \in BOOLEAN
      BY EmptySeq
    <2> QED BY <2>1, <2>2, <2>3, <2>4, <2>5, Zenon DEF TypeOK
  <1>2. \A c \in Counters : Hits(c) = {}
    BY DEF Hits, Effective
  <1>3. \A c \in Counters : N(c) = 0 /\ IsFiniteSet(Hits(c))
    BY <1>2, FS_EmptySet DEF N
  <1>4. NoLostHits
    BY <1>3 DEF NoLostHits, N, Saturated
  <1>5. Listing
    <2>1. tau1 \in Nat \ {0} /\ keys = <<>> /\ \A t \in Threads : pc[t] # "test"
      BY <1>1, Threshold
    <2>2. \A c \in Counters : ~Listed(c) /\ \A t \in Threads : ~Due(t, c)
      BY <2>1 DEF Listed, Due
    <2>3. \A c \in Counters : ~(N(c) >= tau1)
      BY <2>1, <1>3
    <2> QED BY <2>2, <2>3 DEF Listing
  <1> QED BY <1>1, <1>3, <1>4, <1>5 DEF Inv, FiniteHits, Distinct

\* Reading the word, and failing to exchange it, change no counter and no list.
LEMMA QuietInv ==
  ASSUME Inv, NEW t \in Threads, Load(t) \/ SwapFails(t)
  PROVE  Inv'
  <1> USE CounterAssumption DEF Inv
  <1>0. /\ Active(t)
        /\ pc[t] # "test" /\ pc'[t] # "test" /\ \A u \in Threads \ {t} : pc'[u] = pc[u]
        /\ UNCHANGED <<tau1, calls, at, count, ret, keys, nkeys, warn>>
    BY DEF Load, SwapFails, TypeOK
  <1>1. Word(WordOf(Idx(t))) \in [Counters -> 0 .. Saturation]
    BY DEF TypeOK, Word
  <1>2. TypeOK'
    <2>1. CASE Load(t)
      <3>1. /\ compare' = [compare EXCEPT ![t] = Word(WordOf(Idx(t)))]
            /\ pc' = [pc EXCEPT ![t] = "swap"]
        BY <2>1 DEF Load
      <3> QED BY <3>1, <1>0, <1>1 DEF TypeOK, Active
    <2>2. CASE SwapFails(t)
      BY <2>2, <1>0 DEF SwapFails, TypeOK, Active
    <2> QED BY <2>1, <2>2
  <1>3. \A c \in Counters : Hits(c)' = Hits(c) /\ N(c)' = N(c)
    BY <1>0, SameHits DEF Effective
  <1>4. NoLostHits' /\ FiniteHits'
    BY <1>0, <1>3 DEF NoLostHits, FiniteHits, N, Saturated
  <1>5. \A c \in Counters : Listed(c)' = Listed(c)
    BY <1>0 DEF Listed
  <1>6. \A c \in Counters, u \in Threads : Due(u, c)' = Due(u, c)
    BY <1>0 DEF Due, Reached, Idx
  <1>7. Listing' /\ Distinct'
    BY <1>0, <1>2, <1>3, <1>5, <1>6, SameLists
  <1> QED BY <1>2, <1>4, <1>7

\* A successful exchange adds its call to the hits of its counter and leaves
\* every other counter, in the same word or not, as it was.
LEMMA SwapHits ==
  ASSUME Inv, NEW t \in Threads, Swap(t), NEW i \in Counters, i = Idx(t)
  PROVE  /\ count' = [count EXCEPT ![i] = Saturated(count[i] + 1)]
         /\ ret' = [ret EXCEPT ![t] = count[i] + 1]
         /\ N(i)' = N(i) + 1
         /\ \A c \in Counters : c # i => N(c)' = N(c)
         /\ FiniteHits'
  <1> USE DEF Inv
  <1>0. Active(t) /\ i \in InWord(WordOf(i))
    BY IdxType DEF Swap, TypeOK
  <1>1. /\ compare[t] \in [Counters -> 0 .. Saturation]
        /\ \A c \in InWord(WordOf(i)) : compare[t][c] = count[c]
    BY DEF Swap, Word, InWord, TypeOK
  <1>2. count' = [count EXCEPT ![i] = Saturated(count[i] + 1)]
    <2>1. count' = [d \in Counters |->
            IF d \in InWord(WordOf(i))
            THEN [compare[t] EXCEPT ![i] = Saturated(count[i] + 1)][d] ELSE count[d]]
      BY <1>0, <1>1 DEF Swap
    <2>2. \A d \in InWord(WordOf(i)) : d # i =>
            [compare[t] EXCEPT ![i] = Saturated(count[i] + 1)][d] = count[d]
      BY <1>1 DEF InWord
    <2>3. [compare[t] EXCEPT ![i] = Saturated(count[i] + 1)][i] = Saturated(count[i] + 1)
      BY <1>0, <1>1
    <2>4. count \in [Counters -> 0 .. Saturation]
      BY DEF TypeOK
    <2> QED BY <2>1, <2>2, <2>3, <2>4, <1>0
  <1>3. ret' = [ret EXCEPT ![t] = count[i] + 1]
    BY <1>0, <1>1 DEF Swap
  <1>4. /\ Effective(t) = at[t] - 1 /\ Effective(t)' = at[t] /\ at[t] \in Nat \ {0}
        /\ calls' = calls /\ \A u \in Threads \ {t} : Effective(u)' = Effective(u)
    BY DEF Effective, Swap, TypeOK
  <1>5. Hits(i)' = Hits(i) \cup {<<t, at[t]>>} /\ <<t, at[t]>> \notin Hits(i)
    <2>1. {n \in 1 .. Effective(t)' : calls[t][n] = i} =
            {n \in 1 .. Effective(t) : calls[t][n] = i} \cup {at[t]}
      BY <1>4 DEF Idx
    <2>2. at[t] \notin 1 .. Effective(t)
      BY <1>4
    <2> DEFINE H(u) == {n \in 1 .. Effective(u) : calls[u][n] = i}
    <2>3. H(t)' = H(t) \cup {at[t]} /\ at[t] \notin H(t)
      BY <2>1, <2>2, <1>4
    <2>4. \A u \in Threads \ {t} : H(u)' = H(u)
      BY <1>4
    <2>5. /\ Hits(i) = UNION {{<<u, n>> : n \in H(u)} : u \in Threads}
          /\ Hits(i)' = UNION {{<<u, n>> : n \in H(u)'} : u \in Threads}
      BY DEF Hits
    <2> HIDE DEF H
    <2> QED BY <2>3, <2>4, <2>5
  <1>6. \A c \in Counters : c # i => Hits(c)' = Hits(c)
    <2> SUFFICES ASSUME NEW c \in Counters, c # i
                 PROVE  Hits(c)' = Hits(c)
      OBVIOUS
    <2>1. {n \in 1 .. Effective(t)' : calls[t][n] = c} =
            {n \in 1 .. Effective(t) : calls[t][n] = c}
      BY <1>4 DEF Idx
    <2> QED BY <2>1, <1>4 DEF Hits
  <1>7. N(i)' = N(i) + 1 /\ IsFiniteSet(Hits(i)')
    BY <1>0, <1>5, FS_AddElement DEF N, FiniteHits
  <1>8. \A c \in Counters : c # i => N(c)' = N(c) /\ IsFiniteSet(Hits(c))'
    BY <1>6 DEF FiniteHits, N
  <1>9. FiniteHits'
    BY <1>7, <1>8 DEF FiniteHits
  <1> QED BY <1>2, <1>3, <1>7, <1>8, <1>9

\* A compare-and-swap that succeeds keeps the invariant.
LEMMA SwapInv ==
  ASSUME Inv, NEW t \in Threads, Swap(t)
  PROVE  Inv'
  <1> USE CounterAssumption DEF Inv
  <1>i. PICK i \in Counters : i = Idx(t)
    BY IdxType DEF Swap, TypeOK
  <1>0. /\ count' = [count EXCEPT ![i] = Saturated(count[i] + 1)]
        /\ ret' = [ret EXCEPT ![t] = count[i] + 1]
        /\ N(i)' = N(i) + 1
        /\ \A c \in Counters : c # i => N(c)' = N(c)
        /\ FiniteHits'
    BY <1>i, SwapHits
  <1>1. /\ \A c \in Counters : N(c) \in Nat
        /\ count[i] \in 0 .. Saturation /\ count[i] = Saturated(N(i))
    BY <1>0, NatN DEF TypeOK, NoLostHits, N
  <1>2. /\ Active(t) /\ pc[t] = "swap" /\ pc' = [pc EXCEPT ![t] = "test"]
        /\ UNCHANGED <<tau1, calls, at, compare, keys, nkeys, warn>>
        /\ tau1 \in Nat \ {0} /\ Saturation \in Nat
    BY Threshold DEF Swap, TypeOK
  <1>3. TypeOK'
    <2>1. Saturated(count[i] + 1) \in 0 .. Saturation
      BY <1>1 DEF Saturated
    <2>2. /\ count' \in [Counters -> 0 .. Saturation]
          /\ ret' \in [Threads -> 0 .. Saturation + 1]
      BY <2>1, <1>0, <1>1 DEF TypeOK
    <2> QED BY <2>2, <1>2 DEF TypeOK, Active
  <1>4. NoLostHits'
    <2>1. Saturated(count[i] + 1) = Saturated(N(i) + 1)
      BY <1>0, <1>1 DEF Saturated
    <2>2. \A c \in Counters : count'[c] = Saturated(N(c)')
      BY <2>1, <1>0, <1>1 DEF NoLostHits, N, TypeOK
    <2> QED BY <2>2 DEF NoLostHits, N, Saturated
  <1>5. \A c \in Counters : Listed(c)' = Listed(c)
    BY <1>2 DEF Listed
  <1>6. /\ \A c \in Counters, u \in Threads \ {t} : Due(u, c)' = Due(u, c)
        /\ \A c \in Counters : ~Due(t, c)
        /\ \A c \in Counters : Due(t, c)' = (c = i /\ count[i] + 1 = tau1)
    BY <1>i, <1>0, <1>2 DEF Due, Reached, Idx, TypeOK
  <1>7. /\ count[i] + 1 = tau1 =>
             /\ tau1 <= Saturation + 1 /\ N(i)' >= tau1
             /\ N(i) < tau1 \/ (tau1 = Saturation + 1 /\ N(i)' > tau1)
        /\ count[i] + 1 # tau1 /\ tau1 <= Saturation + 1 => (N(i)' < tau1 <=> N(i) < tau1)
    BY <1>0, <1>1, <1>2 DEF Saturated
  <1>8. \A c \in Counters : Again(c) => Again(c)'
    BY <1>0, <1>1, <1>2 DEF Again
  <1>9. Listing'
    <2> SUFFICES ASSUME NEW c \in Counters
                 PROVE  /\ N(c)' < tau1' \/ tau1' > Saturation + 1 =>
                             ~Listed(c)' /\ \A u \in Threads : ~Due(u, c)'
                        /\ \A u, w \in Threads : Due(u, c)' /\ Due(w, c)' => u = w \/ Again(c)'
                        /\ \A u \in Threads : Due(u, c)' => ~Listed(c)' \/ Again(c)'
                        /\ N(c)' >= tau1' /\ tau1' <= Saturation + 1 =>
                             Listed(c)' \/ warn' \/ \E u \in Threads : Due(u, c)'
      BY Zenon DEF Listing
    <2>0. /\ N(c) < tau1 \/ tau1 > Saturation + 1 => ~Listed(c) /\ \A u \in Threads : ~Due(u, c)
          /\ \A u, w \in Threads : Due(u, c) /\ Due(w, c) => u = w \/ Again(c)
          /\ \A u \in Threads : Due(u, c) => ~Listed(c) \/ Again(c)
          /\ N(c) >= tau1 /\ tau1 <= Saturation + 1 =>
               Listed(c) \/ warn \/ \E u \in Threads : Due(u, c)
      BY DEF Listing
    <2>1. CASE c # i
      <3>1. N(c)' = N(c) /\ (Listed(c)' <=> Listed(c)) /\ (Again(c) => Again(c)')
            /\ \A u \in Threads : Due(u, c)' <=> Due(u, c)
        BY <2>1, <1>0, <1>5, <1>6, <1>8
      <3> QED BY <2>0, <3>1, <1>2
    <2>2. CASE c = i /\ count[i] + 1 = tau1
      <3>1. /\ tau1' <= Saturation + 1 /\ N(c)' >= tau1' /\ N(c)' \in Nat
            /\ N(c) < tau1 \/ Again(c)'
        BY <2>2, <1>0, <1>1, <1>2, <1>7 DEF Again
      <3>2. ~(N(c)' < tau1') /\ ~(tau1' > Saturation + 1)
        BY <3>1, <1>2
      <3>3. Again(c)' \/ (~Listed(c)' /\ \A u \in Threads \ {t} : ~Due(u, c)')
        BY <3>1, <2>0, <1>5, <1>6
      <3>4. Due(t, c)'
        BY <2>2, <1>6
      <3> QED BY <3>2, <3>3, <3>4
    <2>3. CASE c = i /\ count[i] + 1 # tau1
      <3>1. tau1 <= Saturation + 1 => (N(c)' < tau1 <=> N(c) < tau1)
        BY <2>3, <1>7
      <3>2. N(c)' >= tau1 /\ tau1 <= Saturation + 1 => N(c) >= tau1
        BY <3>1, <2>3, <1>0, <1>1, <1>2
      <3>3. \A u \in Threads : Due(u, c)' <=> Due(u, c)
        BY <2>3, <1>6
      <3>4. tau1 <= Saturation + 1 \/ tau1 > Saturation + 1
        BY <1>2
      <3> QED BY <2>0, <3>1, <3>2, <3>3, <3>4, <1>2, <1>5, <1>8
    <2> QED BY <2>1, <2>2, <2>3
  <1>10. Distinct'
    <2>1. \A n \in DOMAIN keys : keys[n] \in Counters
      BY DEF TypeOK
    <2> QED BY <2>1, <1>2, <1>8 DEF Distinct
  <1> QED BY <1>0, <1>3, <1>4, <1>9, <1>10

\* So does the comparison with the threshold that may list the counter.
LEMMA TestInv ==
  ASSUME Inv, NEW t \in Threads, Test(t)
  PROVE  Inv'
  <1> USE CounterAssumption DEF Inv
  <1>0. /\ Active(t) /\ pc[t] = "test" /\ pc' = [pc EXCEPT ![t] = "load"]
        /\ at' = [at EXCEPT ![t] = @ + 1]
        /\ UNCHANGED <<tau1, calls, count, compare, ret>>
        /\ tau1 \in Nat \ {0} /\ Saturation \in Nat
    BY Threshold DEF Test, TypeOK
  <1>1. PICK i \in Counters : i = Idx(t)
    BY <1>0, IdxType
  <1>2. TypeOK'
    <2>1. keys' \in Seq(Counters) /\ nkeys' \in Nat /\ warn' \in BOOLEAN
      <3>1. \/ keys' = keys
            \/ keys' = Append(keys, i)
        BY <1>1 DEF Test
      <3>2. nkeys' = nkeys \/ nkeys' = nkeys + 1
        BY DEF Test
      <3>3. warn' = warn \/ warn' = TRUE
        BY DEF Test
      <3>4. keys' \in Seq(Counters)
        <4>1. keys \in Seq(Counters)
          BY DEF TypeOK
        <4>2. Append(keys, i) \in Seq(Counters)
          BY <4>1, <1>1, AppendProperties
        <4> QED BY <4>1, <4>2, <3>1
      <3>5. nkeys' \in Nat
        BY <3>2 DEF TypeOK
      <3> QED BY <3>3, <3>4, <3>5 DEF TypeOK
    <2>2. at' \in [Threads -> Nat \ {0}]
      BY <1>0 DEF TypeOK
    <2> QED BY <2>1, <2>2, <1>0 DEF TypeOK, Active
  <1>3. \A c \in Counters : Hits(c)' = Hits(c) /\ N(c)' = N(c)
    <2>1. \A u \in Threads : Effective(u)' = Effective(u)
      BY <1>0 DEF Effective, TypeOK
    <2> QED BY <2>1, <1>0, SameHits
  <1>4. NoLostHits' /\ FiniteHits'
    BY <1>0, <1>3 DEF NoLostHits, FiniteHits, N, Saturated
  <1>5. /\ \A c \in Counters, u \in Threads \ {t} : Due(u, c)' = Due(u, c)
        /\ \A c \in Counters : ~Due(t, c)'
        /\ \A c \in Counters : Due(t, c) = (c = i /\ Reached(t))
    BY <1>0, <1>1 DEF Due, Reached, Idx, TypeOK
  <1>A. \A c \in Counters : Again(c)' <=> Again(c)
    BY <1>0, <1>3 DEF Again
  <1>6. CASE ~Reached(t)
    <2>1. UNCHANGED <<keys, warn>>
      BY <1>6 DEF Test
    <2>2. \A c \in Counters : Listed(c)' = Listed(c)
      BY <2>1 DEF Listed
    <2>3. \A c \in Counters, u \in Threads : Due(u, c)' <=> Due(u, c)
      BY <1>5, <1>6
    <2>4. Listing' /\ Distinct'
      BY <2>1, <2>3, <1>0, <1>3, SameLists
    <2> QED BY <2>4, <1>2, <1>4
  <1>7. CASE Reached(t) /\ nkeys >= MAX_KEYS
    <2>1. keys' = keys /\ warn'
      BY <1>7 DEF Test, TypeOK
    <2>2. \A c \in Counters : Listed(c)' = Listed(c)
      BY <2>1 DEF Listed
    <2>3. \A c \in Counters, u \in Threads : Due(u, c)' => Due(u, c)
      BY <1>5
    <2>4. \A n \in DOMAIN keys : keys[n] \in Counters
      BY DEF TypeOK
    <2>5. Distinct'
      BY <2>1, <2>4, <1>A DEF Distinct
    <2>6. Listing'
      BY <2>1, <2>2, <2>3, <1>0, <1>3, <1>A, Zenon DEF Listing
    <2> QED BY <2>5, <2>6, <1>2, <1>4
  <1>8. CASE Reached(t) /\ nkeys < MAX_KEYS
    <2>1. keys' = Append(keys, i) /\ warn' = warn /\ keys \in Seq(Counters)
      BY <1>1, <1>8 DEF Test, TypeOK
    <2>2. Due(t, i) /\ (~Listed(i) \/ Again(i))
      BY <1>1, <1>5, <1>8 DEF Listing
    <2>3. /\ DOMAIN keys' = DOMAIN keys \cup {Len(keys) + 1}
          /\ keys'[Len(keys) + 1] = i /\ Len(keys) + 1 \notin DOMAIN keys
          /\ \A n \in DOMAIN keys : keys'[n] = keys[n] /\ keys[n] \in Counters
      BY <2>1, <1>1
    <2>4. \A c \in Counters : Listed(c)' <=> Listed(c) \/ c = i
      BY <2>3 DEF Listed
    <2>5. Distinct'
      <3>1. \A n \in DOMAIN keys : keys[n] = i => Again(i)'
        BY <2>2, <1>A DEF Listed
      <3>2. \A n, m \in DOMAIN keys : keys[n] = keys[m] => n = m \/ Again(keys[n])'
        BY <2>3, <1>A DEF Distinct
      <3>3. \A n, m \in DOMAIN keys' : keys'[n] = keys'[m] =>
              \/ n = m
              \/ keys'[n] = i /\ Again(i)'
              \/ n \in DOMAIN keys /\ keys'[n] = keys[n] /\ Again(keys[n])'
        BY <2>3, <3>1, <3>2
      <3> QED BY <3>3, Zenon DEF Distinct, Again
    <2>6. Listing'
      <3> SUFFICES ASSUME NEW c \in Counters
                   PROVE  /\ N(c)' < tau1' \/ tau1' > Saturation + 1 =>
                               ~Listed(c)' /\ \A u \in Threads : ~Due(u, c)'
                          /\ \A u, w \in Threads :
                               Due(u, c)' /\ Due(w, c)' => u = w \/ Again(c)'
                          /\ \A u \in Threads : Due(u, c)' => ~Listed(c)' \/ Again(c)'
                          /\ N(c)' >= tau1' /\ tau1' <= Saturation + 1 =>
                               Listed(c)' \/ warn' \/ \E u \in Threads : Due(u, c)'
        BY Zenon DEF Listing
      <3>0. /\ N(c) < tau1 \/ tau1 > Saturation + 1 => ~Listed(c) /\ \A u \in Threads : ~Due(u, c)
            /\ \A u, w \in Threads : Due(u, c) /\ Due(w, c) => u = w \/ Again(c)
            /\ \A u \in Threads : Due(u, c) => ~Listed(c) \/ Again(c)
            /\ N(c) >= tau1 /\ tau1 <= Saturation + 1 =>
                 Listed(c) \/ warn \/ \E u \in Threads : Due(u, c)
        BY DEF Listing
      <3>4. /\ N(c)' = N(c) /\ tau1' = tau1 /\ warn' = warn
            /\ (Again(c)' <=> Again(c)) /\ (Listed(c)' <=> Listed(c) \/ c = i)
            /\ ~Due(t, c)' /\ \A u \in Threads \ {t} : Due(u, c)' <=> Due(u, c)
        BY <2>1, <2>4, <1>0, <1>3, <1>5, <1>A
      <3>1. CASE c # i
        <4>1. ~Due(t, c)
          BY <3>1, <1>5
        <4> QED BY <3>0, <3>1, <3>4, <4>1
      <3>2. CASE c = i
        <4>1. Due(t, c) /\ (~Listed(c) \/ Again(c)) /\ Listed(c)'
          BY <3>2, <2>2, <2>4
        <4>2. ~(N(c) < tau1 \/ tau1 > Saturation + 1)
          BY <4>1, <3>0
        <4>3. \A u \in Threads \ {t} : Due(u, c) => Again(c)
          BY <4>1, <3>0
        <4> QED BY <3>0, <3>4, <4>1, <4>2, <4>3
      <3> QED BY <3>1, <3>2
    <2> QED BY <2>5, <2>6, <1>2, <1>4
  <1>9. Reached(t) => nkeys >= MAX_KEYS \/ nkeys < MAX_KEYS
    BY DEF TypeOK
  <1> QED BY <1>6, <1>7, <1>8, <1>9

\* So does a step that changes nothing.
LEMMA StutterInv == Inv /\ UNCHANGED vars => Inv'
  <1> SUFFICES ASSUME Inv, UNCHANGED vars PROVE Inv'
    OBVIOUS
  <1> USE DEF Inv, vars
  <1>1. TypeOK'
    BY DEF TypeOK, Active
  <1>2. \A c \in Counters : Hits(c)' = Hits(c) /\ N(c)' = N(c)
    BY SameHits DEF Effective
  <1>3. NoLostHits' /\ FiniteHits'
    BY <1>2 DEF NoLostHits, FiniteHits, N, Saturated
  <1>4. /\ \A c \in Counters : Listed(c)' = Listed(c)
        /\ \A c \in Counters, u \in Threads : Due(u, c)' = Due(u, c)
    BY DEF Listed, Due, Reached, Idx
  <1>5. Listing' /\ Distinct'
    BY <1>2, <1>4, SameLists
  <1> QED BY <1>1, <1>3, <1>5

\* The invariant is inductive.
LEMMA StepInv == Inv /\ [Next]_vars => Inv'
  BY QuietInv, SwapInv, TestInv, StutterInv DEF Next, Thread

\* The type invariant, for every layout and every set of calls.
THEOREM TypeCorrect == Spec => []TypeOK
  <1>1. Inv => TypeOK
    BY DEF Inv
  <1> QED BY <1>1, InitInv, StepInv, PTL DEF Spec

\* Every counter holds its number of hits, saturated: the compare-and-swap on
\* whole words loses and invents no increment.
THEOREM CountsCorrect == Spec => []NoLostHits
  <1>1. Inv => NoLostHits
    BY DEF Inv
  <1> QED BY <1>1, InitInv, StepInv, PTL DEF Spec

\* For every threshold: a listed key reached it, and is listed once, but for a
\* key with more than tau1 hits when tau1 is Saturation + 1.
THEOREM ListCorrect == Spec => []ListedOnce
  <1>1. Inv => ListedOnce
    <2> SUFFICES ASSUME Inv, NEW i \in DOMAIN keys, NEW j \in DOMAIN keys
                 PROVE  /\ N(keys[i]) >= tau1
                        /\ keys[i] = keys[j] /\ i # j => Again(keys[i])
      BY Zenon DEF ListedOnce, N, Again
    <2>1. keys[i] \in Counters /\ Listed(keys[i]) /\ tau1 \in Nat
      BY Threshold DEF Inv, TypeOK, Listed
    <2>2. N(keys[i]) \in Nat /\ ~(N(keys[i]) < tau1)
      BY <2>1, NatN DEF Inv, Listing
    <2> QED BY <2>1, <2>2 DEF Inv, Distinct
  <1> QED BY <1>1, InitInv, StepInv, PTL DEF Spec

\* For every threshold: a pass that ends without the warning listed every key
\* that was hit tau1 times, or, with tau1 above Saturation + 1, no key at all.
THEOREM ListComplete == Spec => []NoneMissed
  <1>1. Inv => NoneMissed
    <2> SUFFICES ASSUME Inv, Finished, ~warn, NEW c \in Counters, N(c) >= tau1
                 PROVE  Listed(c) = (tau1 <= Saturation + 1)
      BY Zenon DEF NoneMissed, N, Listed
    <2>1. \A t \in Threads : ~Due(t, c)
      BY DEF Finished, Inv, TypeOK, Due
    <2>2. tau1 <= Saturation + 1 => Listed(c)
      BY <2>1 DEF Inv, Listing
    <2>3. ~(tau1 <= Saturation + 1) => ~Listed(c)
      <3>1. ~(tau1 <= Saturation + 1) => tau1 > Saturation + 1
        BY Threshold DEF Inv
      <3> QED BY <3>1 DEF Inv, Listing
    <2>4. Listed(c) \in BOOLEAN /\ (tau1 <= Saturation + 1) \in BOOLEAN
      BY DEF Listed
    <2> QED BY <2>2, <2>3, <2>4
  <1> QED BY <1>1, InitInv, StepInv, PTL DEF Spec
=============================================================================
