------------------------------ MODULE CpuAttackProofs ------------------------------
(*****************************************************************************)
(* Proofs about CpuAttack, for every number of guesses, keys and counter     *)
(* values and for every input: what is reported is right, nothing that must  *)
(* be reported is missed, nothing is reported twice unless a counter wrapped *)
(* around, and the guesses are those of the job.                             *)
(*                                                                           *)
(* The invariant IInv says what the counters and the key list are after each *)
(* hit, and what the scan has done with the keys that are behind it.         *)
(*****************************************************************************)
EXTENDS CpuAttack, FiniteSetTheorems, SequenceTheorems, TLAPS

Candidates == [bits : Nat, inner : Nat, key : Keys \X Middle, rk7 : Rk7, pairs : Nat]

\* How often key k has been suggested so far.
Seen(k) == Cardinality({n \in 1 .. hit : input.hits[n] = k})

\* The counters are those numbers, as far as they fit.
CountInv ==
  /\ pc = "count" => hit <= Len(input.hits)
  /\ pc = "scan" => hit = Len(input.hits)
  /\ pc \in {"count", "scan"} => \A k \in Keys : count[k] = Seen(k) % CounterSize

\* ct_attack1 and 2 know whether a counter is at the threshold; ct_attack3 has
\* listed the keys that were, each once for each time its counter got there.
ListInv ==
  pc \in {"count", "scan"} =>
    /\ alg # 3 => \A k \in Keys : count[k] >= tau1 => flag
    /\ alg = 3 =>
         /\ \A k \in Keys : Seen(k) >= tau1 => k \in ToSet(keys)
         /\ \A n \in 1 .. Len(keys) : Seen(keys[n]) >= tau1
         /\ \A m, n \in 1 .. Len(keys) :
              m < n /\ keys[m] = keys[n] => Seen(keys[m]) >= CounterSize + tau1

\* The candidates are those of this guess and of earlier ones.
OrderInv ==
  /\ candidates \in Seq(Candidates)
  /\ \A n \in 1 .. Len(candidates) :
       \/ candidates[n].bits < bits
       \/ candidates[n].bits = bits /\ candidates[n].inner <= inner
  /\ pc \in {"guess", "count"} => OfGuess = {}

\* What turn n of the scan hands to validate_rk8, and what that accepts.
Turn(n) ==
  IF alg = 3 THEN {keys[n]} \X Flagged(keys[n])
  ELSE IF count[n - 1] >= tau1 THEN {<<n - 1, 0>>} ELSE {}

Passes(k) == ValidateRk8(input.indicated[k]).num >= tau2

\* The scan is at the keys of its last turn; those of earlier turns have been
\* validated, and reported if they passed.
ScanInv ==
  /\ pc \in {"guess", "count", "done"} => todo = {}
  /\ pc = "scan" =>
       /\ scan <= ScanEnd
       /\ todo # {} => scan >= 1 /\ todo \subseteq Turn(scan)
       /\ \A c \in OfGuess : \E n \in 1 .. scan : candidates[c].key \in Turn(n)
       /\ \A n \in 1 .. scan : \A k \in Turn(n) :
            k \in todo \/ ~Passes(k) \/ \E c \in OfGuess : candidates[c].key = k
       /\ \A c \in OfGuess : candidates[c].key \in todo =>
            alg = 3 /\ Seen(candidates[c].key[1]) >= CounterSize + tau1

\* The guesses before this one.
Before(b, m) == b < bits \/ (b = bits /\ m < inner)

\* They are the guesses that have been searched.
GuessInv ==
  /\ pc \in {"guess", "count", "scan"} => bits < Span
  /\ pc = "done" => bits = Span /\ inner = 0
  /\ searched \in Seq(Nat \X Nat)
  /\ Len(searched) = bits * NumInner + inner
  /\ \A x : x \in ToSet(searched) <=>
       \E b \in 0 .. Span - 1, m \in 0 .. NumInner - 1 : Before(b, m) /\ x = <<JobOf(b), m>>

IInv ==
  /\ TypeOK /\ CountInv /\ ListInv /\ OrderInv /\ ScanInv /\ GuessInv
  /\ ReportsAreRight /\ ReportedOnce

-----------------------------------------------------------------------------
(* Numbers.                                                                  *)

\* The natural numbers are well ordered.
LEMMA SmallestElement ==
  ASSUME NEW S \in SUBSET Nat, S # {}
  PROVE  \E n \in S : \A m \in S : n <= m
<1> DEFINE R == {p \in Nat \X Nat : p[1] < p[2]}
<1>1. IsWellFoundedOn(R, Nat)
  BY NatLessThanWellFounded DEF OpToRel
<1>2. \A m, n \in Nat : <<m, n>> \notin R => n <= m
  OBVIOUS
<1> HIDE DEF R
<1>3. \E n \in S : \A m \in S : <<m, n>> \notin R
  BY <1>1, WFMin
<1> QED BY <1>2, <1>3

\* A set with zero and with the successors of its elements has all of them:
\* induction, for a set.
LEMMA InductionOnSet ==
  ASSUME NEW P, 0 \in P, \A n \in Nat : n \in P => n + 1 \in P
  PROVE  Nat \subseteq P
<1> SUFFICES ASSUME Nat \ P # {}
             PROVE  FALSE
  OBVIOUS
<1>1. Nat \ P \in SUBSET Nat
  OBVIOUS
<1>2. PICK n \in Nat \ P : \A m \in Nat \ P : n <= m
  BY <1>1, SmallestElement
<1>3. n - 1 \in Nat /\ ~(n <= n - 1) /\ (n - 1) + 1 = n
  BY <1>2
<1>4. n - 1 \in P
  BY <1>2, <1>3
<1> QED BY <1>2, <1>3, <1>4

\* The quotient and the remainder of a natural number.
LEMMA Division ==
  ASSUME NEW x \in Nat, NEW c \in Nat \ {0}
  PROVE  \E q \in Nat : \E r \in 0 .. c - 1 : x = c * q + r /\ q = x \div c /\ r = x % c
<1>1. \E q \in Int : \E r \in 0 .. c - 1 : x = c * q + r /\ q = x \div c /\ r = x % c
  OBVIOUS
<1>2. PICK q \in Int, r \in 0 .. c - 1 : x = c * q + r /\ q = x \div c /\ r = x % c
  BY <1>1
<1>3. \A y \in Int : y <= -1 => c * y <= -c
  OBVIOUS
<1>4. ~(q <= -1)
  BY <1>2, <1>3
<1>5. q \in Nat
  BY <1>4
<1> QED BY <1>2, <1>5, Zenon

\* A quotient and a remainder are the quotient and the remainder.
LEMMA DivisionUnique ==
  ASSUME NEW x \in Nat, NEW c \in Nat \ {0}, NEW q \in Int, NEW r \in 0 .. c - 1, x = c * q + r
  PROVE  x \div c = q /\ x % c = r
<1> DEFINE d == x \div c
           m == x % c
<1>1. d \in Int /\ m \in 0 .. c - 1 /\ x = c * d + m
  OBVIOUS
<1> HIDE DEF d, m
<1>2. c * (q - d) = m - r
  BY <1>1
<1>3. -c < m - r /\ m - r < c
  BY <1>1
<1>4. \A y \in Int : y >= 1 => c * y >= c
  OBVIOUS
<1>5. \A y \in Int : y <= -1 => c * y <= -c
  OBVIOUS
<1>6. q - d \in Int
  BY <1>1
<1>7. ~(q - d >= 1) /\ ~(q - d <= -1)
  BY <1>2, <1>3, <1>4, <1>5, <1>6
<1>8. q = d
  BY <1>1, <1>6, <1>7
<1>9. r = m
  BY <1>1, <1>2, <1>8
<1> QED BY <1>8, <1>9 DEF d, m

\* A counter that wraps around is at a threshold below its size when the number
\* counted is the threshold, or larger by the size at least.
LEMMA WrapAround ==
  ASSUME NEW c \in Nat \ {0}, NEW x \in Nat
  PROVE  /\ x % c \in 0 .. c - 1 /\ x % c <= x
         /\ ((x % c) + 1) % c = (x + 1) % c
         /\ x < c => x % c = x
         /\ \A t \in 0 .. c - 1 : x % c = t => x = t \/ x >= c + t
<1>1. PICK q \in Nat, r \in 0 .. c - 1 : x = c * q + r /\ q = x \div c /\ r = x % c
  BY Division, Zenon
<1> DEFINE y == c * q
<1>2. y \in Int /\ x = y + r /\ r \in Nat
  BY <1>1
<1>3. (q = 0 /\ y = 0) \/ (q >= 1 /\ y >= c)
  <2>1. \A z \in Int : z >= 1 => c * z >= c
    OBVIOUS
  <2>2. q = 0 => y = 0
    OBVIOUS
  <2>3. q \in Int /\ (q = 0 \/ q >= 1)
    OBVIOUS
  <2>4. q >= 1 => y >= c
    BY <2>1, <2>3, Zenon
  <2> HIDE DEF y
  <2> QED BY <2>2, <2>3, <2>4
<1>4. ((x % c) + 1) % c = (x + 1) % c
  <2>1. CASE r + 1 < c
    <3>1. r + 1 \in 0 .. c - 1 /\ x + 1 \in Nat /\ r + 1 \in Nat
      BY <1>2, <2>1
    <3>2. x + 1 = c * q + (r + 1) /\ q \in Int
      BY <1>1
    <3>3. (x + 1) % c = r + 1
      BY <3>1, <3>2, DivisionUnique, Zenon
    <3>4. r + 1 = c * 0 + (r + 1)
      BY <3>1
    <3>5. 0 \in Int
      OBVIOUS
    <3>6. (r + 1) % c = r + 1
      BY <3>1, <3>4, <3>5, DivisionUnique, Zenon
    <3> QED BY <1>1, <3>3, <3>6
  <2>2. CASE r + 1 = c
    <3>1. 0 \in 0 .. c - 1 /\ x + 1 \in Nat /\ r + 1 \in Nat /\ q + 1 \in Int /\ 1 \in Int
      BY <1>2
    <3>2. c * (q + 1) = c * q + c
      OBVIOUS
    <3>3. x + 1 = c * (q + 1) + 0
      BY <1>1, <2>2, <3>2
    <3>4. (x + 1) % c = 0
      BY <3>1, <3>3, DivisionUnique, Zenon
    <3>5. r + 1 = c * 1 + 0
      BY <2>2
    <3>6. (r + 1) % c = 0
      BY <3>1, <3>5, DivisionUnique, Zenon
    <3> QED BY <1>1, <3>4, <3>6
  <2> QED BY <2>1, <2>2
<1> HIDE DEF y
<1> QED BY <1>1, <1>2, <1>3, <1>4

\* The number of places of k among the first n of a list.
Number(s, n, k) == Cardinality({m \in 1 .. n : s[m] = k})

\* One more place, or none.
LEMMA CountNext ==
  ASSUME NEW s, NEW k
  PROVE  /\ Number(s, 0, k) = 0
         /\ \A n \in Nat : /\ Number(s, n, k) \in Nat
                           /\ Number(s, n + 1, k) = IF s[n + 1] = k THEN Number(s, n, k) + 1
                                                    ELSE Number(s, n, k)
<1> DEFINE A(n) == {m \in 1 .. n : s[m] = k}
<1>1. Number(s, 0, k) = 0
  <2>1. A(0) = {}
    OBVIOUS
  <2> QED BY <2>1, FS_EmptySet DEF Number
<1>2. ASSUME NEW n \in Nat
      PROVE  /\ Number(s, n, k) \in Nat
             /\ Number(s, n + 1, k) = IF s[n + 1] = k THEN Number(s, n, k) + 1
                                      ELSE Number(s, n, k)
  <2>1. IsFiniteSet(1 .. n) /\ A(n) \subseteq 1 .. n
    BY FS_Interval
  <2>2. IsFiniteSet(A(n)) /\ Cardinality(A(n)) \in Nat
    <3> DEFINE I == 1 .. n
               B == A(n)
    <3>1. IsFiniteSet(I) /\ B \subseteq I
      BY <2>1
    <3> HIDE DEF I, B
    <3>2. IsFiniteSet(B)
      BY <3>1, FS_Subset, Zenon
    <3> QED BY <3>2, FS_CardinalityType DEF B
  <2>3. CASE s[n + 1] = k
    <3>1. A(n + 1) = A(n) \cup {n + 1} /\ n + 1 \notin A(n)
      BY <2>3
    <3> HIDE DEF A
    <3>2. Cardinality(A(n) \cup {n + 1}) = Cardinality(A(n)) + 1
      BY <2>2, <3>1, FS_AddElement, Zenon
    <3> QED BY <2>2, <2>3, <3>1, <3>2 DEF Number, A
  <2>4. CASE s[n + 1] # k
    <3>1. A(n + 1) = A(n)
      BY <2>4
    <3> HIDE DEF A
    <3> QED BY <2>2, <2>4, <3>1 DEF Number, A
  <2> QED BY <2>3, <2>4
<1> QED BY <1>1, <1>2

-----------------------------------------------------------------------------
(* validate_rk8.                                                             *)

Start == [count |-> [k \in Rk7 |-> 0], num |-> 0, key |-> 0]
Counts == [count : [Rk7 -> Nat], num : Nat, key : Rk7]

\* One byte more.
LEMMA IndicateOne ==
  ASSUME NEW v \in Counts, NEW k \in Rk7
  PROVE  LET w == Indicate(v, k) IN
         /\ w \in Counts
         /\ \A b \in Rk7 : w.count[b] = IF b = k THEN v.count[b] + 1 ELSE v.count[b]
         /\ w.num = IF v.count[k] + 1 > v.num THEN v.count[k] + 1 ELSE v.num
         /\ w.key = IF v.count[k] + 1 > v.num THEN k ELSE v.key
<1> DEFINE n == v.count[k] + 1
<1>1. v.count \in [Rk7 -> Nat] /\ v.num \in Nat /\ v.key \in Rk7 /\ n \in Nat
  BY DEF Counts
<1> HIDE DEF n
<1>2. Indicate(v, k) = [count |-> [v.count EXCEPT ![k] = n],
                        num |-> IF n > v.num THEN n ELSE v.num,
                        key |-> IF n > v.num THEN k ELSE v.key]
  BY <1>1 DEF Indicate, n
<1>3. [v.count EXCEPT ![k] = n] \in [Rk7 -> Nat]
  BY <1>1
<1> QED BY <1>1, <1>2, <1>3 DEF Counts, n

\* There is such a run: a run over some of the bytes can be continued.
LEMMA RunExists ==
  ASSUME NEW s
  PROVE  \A n \in Nat : \E v : v = [m \in 0 .. n |->
                                   IF m = 0 THEN Start ELSE Indicate(v[m - 1], s[m])]
<1> DEFINE Step(v, m) == IF m = 0 THEN Start ELSE Indicate(v[m - 1], s[m])
           P == {n \in Nat : \E v : v = [m \in 0 .. n |-> Step(v, m)]}
<1>1. 0 \in P
  <2> DEFINE v == [m \in 0 .. 0 |-> Start]
  <2>1. v = [m \in 0 .. 0 |-> Step(v, m)]
    OBVIOUS
  <2> QED BY <2>1
<1>2. ASSUME NEW n \in Nat, n \in P
      PROVE  n + 1 \in P
  <2>1. PICK v : v = [m \in 0 .. n |-> Step(v, m)]
    BY <1>2
  <2> DEFINE last == Indicate(v[n], s[n + 1])
             w == [m \in 0 .. n + 1 |-> IF m = n + 1 THEN last ELSE v[m]]
  <2>2. \A m \in 0 .. n : v[m] = Step(v, m)
    <3> HIDE DEF Step
    <3> QED BY <2>1
  <2>3. ASSUME NEW m \in 0 .. n + 1
        PROVE  w[m] = Step(w, m)
    <3> HIDE DEF last
    <3>1. CASE m = 0
      BY <2>2, <3>1
    <3>2. CASE m \in 1 .. n
      <4>1. m \in 0 .. n /\ m - 1 \in 0 .. n + 1 /\ m - 1 # n + 1 /\ m # n + 1 /\ m # 0
        BY <3>2
      <4> QED BY <2>2, <4>1
    <3>3. CASE m = n + 1
      <4>1. m - 1 = n /\ n \in 0 .. n + 1 /\ n # n + 1 /\ m # 0
        BY <3>3
      <4>2. w[n] = v[n] /\ w[m] = last
        BY <3>3, <4>1
      <4> HIDE DEF w
      <4> QED BY <3>3, <4>1, <4>2 DEF last
    <3> QED BY <3>1, <3>2, <3>3
  <2>4. w = [m \in 0 .. n + 1 |-> Step(w, m)]
    <3> DEFINE u == [m \in 0 .. n + 1 |-> Step(w, m)]
    <3>1. \A m \in 0 .. n + 1 : w[m] = u[m]
      <4> HIDE DEF w, Step
      <4> QED BY <2>3
    <3>2. w = [m \in 0 .. n + 1 |-> w[m]] /\ u = [m \in 0 .. n + 1 |-> u[m]]
      <4> HIDE DEF last, Step
      <4> QED OBVIOUS
    <3> HIDE DEF w, u
    <3>3. w = u
      BY <3>1, <3>2
    <3> QED BY <3>3 DEF u
  <2> HIDE DEF w
  <2> QED BY <2>4
<1>3. Nat \subseteq P
  <2> HIDE DEF P
  <2> QED BY <1>1, <1>2, InductionOnSet
<1> QED BY <1>3

\* validate_rk8 returns a byte indicated most often, and how often that is.
LEMMA Validation ==
  ASSUME NEW indicated \in Seq(Rk7)
  PROVE  LET r == ValidateRk8(indicated) IN
         /\ r.key \in Rk7 /\ r.num \in Nat
         /\ r.num = Occurrences(r.key, indicated)
         /\ \A b \in Rk7 : Occurrences(b, indicated) <= r.num
<1> DEFINE L == Len(indicated)
           v == CHOOSE f : f = [n \in 0 .. L |->
                  IF n = 0 THEN Start ELSE Indicate(f[n - 1], indicated[n])]
<1>1. L \in Nat /\ \A n \in 1 .. L : indicated[n] \in Rk7
  OBVIOUS
<1>2. ValidateRk8(indicated) = v[L]
  BY DEF ValidateRk8, Start
<1>3. v = [n \in 0 .. L |-> IF n = 0 THEN Start ELSE Indicate(v[n - 1], indicated[n])]
  <2>1. \E f : f = [n \in 0 .. L |->
          IF n = 0 THEN Start ELSE Indicate(f[n - 1], indicated[n])]
    <3> HIDE DEF L
    <3> QED BY <1>1, RunExists
  <2> QED BY <2>1
<1> HIDE DEF v
<1>4. /\ v[0] = Start
      /\ \A n \in Nat : n + 1 <= L => v[n + 1] = Indicate(v[n], indicated[n + 1])
  <2> HIDE DEF L
  <2>1. \A n \in 0 .. L : v[n] = IF n = 0 THEN Start ELSE Indicate(v[n - 1], indicated[n])
    BY <1>3
  <2>2. 0 \in 0 .. L
    BY <1>1
  <2>3. ASSUME NEW n \in Nat, n + 1 <= L
        PROVE  v[n + 1] = Indicate(v[n], indicated[n + 1])
    <3>1. n + 1 \in 0 .. L /\ n + 1 # 0 /\ (n + 1) - 1 = n
      BY <1>1, <2>3
    <3> QED BY <2>1, <3>1
  <2> QED BY <2>1, <2>2, <2>3
<1> DEFINE Right(n) ==
             /\ v[n] \in Counts
             /\ \A b \in Rk7 : v[n].count[b] = Number(indicated, n, b)
             /\ \A b \in Rk7 : v[n].count[b] <= v[n].num
             /\ v[n].num = v[n].count[v[n].key]
           P == {n \in Nat : n <= L => Right(n)}
<1>5. 0 \in P
  <2>1. 0 \in Rk7
    BY AttackAssumption DEF Rk7
  <2>2. Start \in Counts /\ \A b \in Rk7 : Start.count[b] = 0
    BY <2>1 DEF Start, Counts
  <2>3. Start.num = 0 /\ Start.key = 0
    BY DEF Start
  <2>4. \A b \in Rk7 : Number(indicated, 0, b) = 0
    BY CountNext
  <2>5. Right(0)
    BY <1>4, <2>1, <2>2, <2>3, <2>4
  <2> QED BY <2>5
<1>6. ASSUME NEW n \in Nat, n \in P
      PROVE  n + 1 \in P
  <2> SUFFICES ASSUME n + 1 <= L
               PROVE  Right(n + 1)
    OBVIOUS
  <2>1. Right(n)
    BY <1>1, <1>6
  <2> DEFINE k == indicated[n + 1]
             x == v[n]
             y == v[n + 1]
  <2>2. k \in Rk7
    BY <1>1
  <2>3. y = Indicate(x, k)
    BY <1>4
  <2>4. /\ y \in Counts
        /\ \A b \in Rk7 : y.count[b] = IF b = k THEN x.count[b] + 1 ELSE x.count[b]
        /\ y.num = IF x.count[k] + 1 > x.num THEN x.count[k] + 1 ELSE x.num
        /\ y.key = IF x.count[k] + 1 > x.num THEN k ELSE x.key
    <3> HIDE DEF k, y
    <3> QED BY <2>1, <2>2, <2>3, IndicateOne
  <2>5. \A b \in Rk7 : /\ Number(indicated, n, b) \in Nat
                       /\ Number(indicated, n + 1, b) =
                            IF k = b THEN Number(indicated, n, b) + 1 ELSE Number(indicated, n, b)
    BY CountNext
  <2>6. /\ x.count \in [Rk7 -> Nat] /\ x.num \in Nat /\ x.key \in Rk7
        /\ \A b \in Rk7 : x.count[b] = Number(indicated, n, b)
        /\ \A b \in Rk7 : x.count[b] <= x.num
        /\ x.num = x.count[x.key]
    BY <2>1 DEF Counts
  <2> HIDE DEF k, x, y, L
  <2>7. \A b \in Rk7 : y.count[b] = Number(indicated, n + 1, b)
    BY <2>4, <2>5, <2>6
  <2>8. \A b \in Rk7 : y.count[b] <= y.num
    BY <2>2, <2>4, <2>6
  <2>9. y.num = y.count[y.key]
    BY <2>2, <2>4, <2>6
  <2> QED BY <2>4, <2>7, <2>8, <2>9 DEF y
<1>7. Nat \subseteq P
  <2> HIDE DEF P
  <2> QED BY <1>5, <1>6, InductionOnSet
<1>8. Right(L)
  BY <1>1, <1>7
<1>9. \A b \in Rk7 : Number(indicated, L, b) = Occurrences(b, indicated)
  BY DEF Number, Occurrences
<1>10. v[L].key \in Rk7 /\ v[L].num \in Nat
  BY <1>8 DEF Counts
<1> HIDE DEF L
<1> QED BY <1>2, <1>8, <1>9, <1>10

-----------------------------------------------------------------------------
(* What the steps have in common.                                            *)

\* The constants and the input are what AttackAssumption says.
LEMMA Sizes ==
  /\ {Span, Stride, NumInner, NumKeys, NumMiddle, NumRk7, MAX_KEYS, CounterSize}
       \subseteq Nat \ {0}
  /\ FixedBits \in 0 .. Stride - 1
  /\ tau1 \in 1 .. CounterSize - 1 /\ tau2 \in 1 .. CounterSize - 1
BY AttackAssumption

\* What the input consists of: sequences of keys, middle bytes and last bytes.
LEMMA InputType ==
  ASSUME TypeOK
  PROVE  /\ input.hits \in Seq(Keys) /\ Len(input.hits) \in Nat
         /\ \A k \in Keys : input.middle[k] \in Seq(Middle)
         /\ \A k \in Keys \X Middle : input.indicated[k] \in Seq(Rk7)
<1>1. /\ input.hits \in Seq(Keys) /\ input.middle \in [Keys -> Seq(Middle)]
      /\ input.indicated \in [Keys \X Middle -> Seq(Rk7)]
  <2>1. input \in Inputs
    BY DEF TypeOK
  <2> QED BY <2>1, AttackAssumption, Zenon
<1> QED BY <1>1

\* A number of places is a number.
LEMMA SeenType ==
  ASSUME TypeOK
  PROVE  \A k : Seen(k) \in Nat
<1>1. \A k : Seen(k) = Number(input.hits, hit, k)
  BY DEF Seen, Number
<1>2. hit \in Nat
  BY DEF TypeOK
<1> QED BY <1>1, <1>2, CountNext

\* One key has been counted.
LEMMA OneHit ==
  ASSUME IInv, Counting, count' = [count EXCEPT ![Hit] = Counted], hit' = hit + 1,
         UNCHANGED input
  PROVE  /\ Hit \in Keys /\ hit' <= Len(input.hits)
         /\ \A k : Seen(k) \in Nat /\ Seen(k)' = IF k = Hit THEN Seen(k) + 1 ELSE Seen(k)
         /\ \A k \in Keys : count'[k] = Seen(k)' % CounterSize
         /\ Counted = (Seen(Hit) + 1) % CounterSize
<1>1. /\ hit \in Nat /\ count \in [Keys -> 0 .. CounterSize - 1] /\ pc = "count"
      /\ hit < Len(input.hits)
      /\ \A k \in Keys : count[k] = Seen(k) % CounterSize
      /\ input.hits \in Seq(Keys) /\ Len(input.hits) \in Nat
  BY InputType DEF IInv, TypeOK, CountInv, Counting
<1>2. Hit \in Keys /\ hit' <= Len(input.hits)
  BY <1>1 DEF Hit
<1>3. ASSUME NEW k
      PROVE  Seen(k) \in Nat /\ Seen(k)' = IF k = Hit THEN Seen(k) + 1 ELSE Seen(k)
  <2>1. /\ Seen(k) = Number(input.hits, hit, k)
        /\ Seen(k)' = Number(input.hits, hit + 1, k)
    BY DEF Seen, Number
  <2>2. /\ Number(input.hits, hit, k) \in Nat
        /\ Number(input.hits, hit + 1, k) =
             IF input.hits[hit + 1] = k THEN Number(input.hits, hit, k) + 1
             ELSE Number(input.hits, hit, k)
    BY <1>1, CountNext
  <2> QED BY <2>1, <2>2 DEF Hit
<1>4. Counted = (Seen(Hit) + 1) % CounterSize
  <2>1. count[Hit] = Seen(Hit) % CounterSize /\ Seen(Hit) \in Nat
    BY <1>1, <1>2, <1>3
  <2>2. CounterSize \in Nat \ {0}
    BY Sizes
  <2>3. ((Seen(Hit) % CounterSize) + 1) % CounterSize = (Seen(Hit) + 1) % CounterSize
    BY <2>1, <2>2, WrapAround
  <2> QED BY <2>1, <2>3 DEF Counted
<1>5. ASSUME NEW k \in Keys
      PROVE  count'[k] = Seen(k)' % CounterSize
  BY <1>1, <1>2, <1>3, <1>4
<1> QED BY <1>2, <1>3, <1>4, <1>5

\* The guess does not change.
LEMMA GuessKept ==
  ASSUME GuessInv, UNCHANGED <<bits, inner, searched>>, pc' # "done",
         pc' \in {"guess", "count", "scan"} => pc \in {"guess", "count", "scan"}
  PROVE  GuessInv'
BY DEF GuessInv, Before

\* Neither do the candidates.
LEMMA CandidatesKept ==
  ASSUME OrderInv, UNCHANGED <<bits, inner, candidates>>,
         pc' \in {"guess", "count"} => pc \in {"guess", "count"}
  PROVE  OrderInv' /\ OfGuess' = OfGuess
BY DEF OrderInv, OfGuess

\* Outside the scan nothing is said of the candidates of the guess.
LEMMA NoScan ==
  ASSUME pc' # "scan"
  PROVE  ReportsAreRight' /\ ReportedOnce'
BY DEF ReportsAreRight, ReportedOnce

\* A step that reports nothing leaves the reports right.
LEMMA ReportsKept ==
  ASSUME IInv, UNCHANGED <<alg, input, candidates, pc>>, OfGuess' = OfGuess
  PROVE  ReportsAreRight' /\ ReportedOnce'
<1>1. alg' = alg /\ input' = input /\ candidates' = candidates /\ pc' = pc
  OBVIOUS
<1>2. ReportsAreRight'
  <2>1. ReportsAreRight
    BY DEF IInv
  <2> QED BY <1>1, <2>1 DEF ReportsAreRight, Total
<1>3. ReportedOnce'
  <2>1. ReportedOnce
    BY DEF IInv
  <2> QED BY <1>1, <2>1 DEF ReportedOnce, Total
<1> QED BY <1>2, <1>3

\* What a turn of the scan hands to validate_rk8 reached the thresholds.
LEMMA TurnRight ==
  ASSUME IInv, pc = "scan", NEW n \in 1 .. ScanEnd, NEW k \in Turn(n)
  PROVE  /\ k \in Keys \X Middle
         /\ Total(k[1]) >= tau1 /\ Seen(k[1]) = Total(k[1])
         /\ alg = 3 => k[2] \in Flagged(k[1]) /\ k[1] = keys[n]
         /\ alg # 3 => k = <<n - 1, 0>>
<1>1. /\ hit = Len(input.hits) /\ \A m \in Keys : count[m] = Seen(m) % CounterSize
      /\ \A m \in Keys : count[m] \in 0 .. CounterSize - 1
      /\ keys \in Seq(Keys)
  BY DEF IInv, CountInv, TypeOK
<1>2. \A m : Seen(m) = Total(m) /\ Seen(m) \in Nat
  BY <1>1, SeenType DEF IInv, Seen, Total, Occurrences
<1>3. CASE alg = 3
  <2>1. n \in 1 .. Len(keys) /\ k \in {keys[n]} \X Flagged(keys[n])
    BY <1>3 DEF Turn, ScanEnd
  <2>2. keys[n] \in Keys /\ Seen(keys[n]) >= tau1
    BY <1>1, <1>3, <2>1 DEF IInv, ListInv
  <2>3. Flagged(keys[n]) \subseteq Middle
    BY DEF Flagged
  <2> QED BY <1>2, <1>3, <2>1, <2>2, <2>3
<1>4. CASE alg # 3
  <2>1. count[n - 1] >= tau1 /\ k = <<n - 1, 0>>
    BY <1>4 DEF Turn
  <2>2. NumKeys \in Nat /\ NumMiddle \in Nat \ {0} /\ CounterSize \in Nat \ {0}
        /\ tau1 \in 1 .. CounterSize - 1
    BY Sizes
  <2>3. n - 1 \in Keys /\ 0 \in Middle
    BY <1>4, <2>2 DEF ScanEnd, Keys, Middle
  <2>4. Seen(n - 1) % CounterSize <= Seen(n - 1) /\ count[n - 1] = Seen(n - 1) % CounterSize
    BY <1>1, <1>2, <2>2, <2>3, WrapAround
  <2>5. Seen(n - 1) >= tau1
    <3>1. Seen(n - 1) \in Nat /\ count[n - 1] \in 0 .. CounterSize - 1
      BY <1>1, <1>2, <2>3
    <3> QED BY <2>1, <2>2, <2>4, <3>1
  <2> QED BY <1>2, <1>4, <2>1, <2>3, <2>5
<1> QED BY <1>3, <1>4

\* validate_rk8 is called with a key that has not been validated.
LEMMA CurrentToDo ==
  ASSUME TypeOK, todo # {}
  PROVE  Current \in todo
<1> DEFINE S == {k[2] : k \in todo}
<1>1. todo \subseteq Keys \X Middle /\ Middle \subseteq Nat
  BY DEF TypeOK, Middle
<1>2. S \in SUBSET Nat /\ S # {}
  BY <1>1
<1>3. PICK n \in S : \A m \in S : n <= m
  <2> HIDE DEF S
  <2> QED BY <1>2, SmallestElement
<1>4. \E k \in todo : \A other \in todo : k[2] <= other[2]
  BY <1>3
<1> QED BY <1>4 DEF Current

-----------------------------------------------------------------------------
(* The steps.                                                                *)

\* A guess begins with nothing counted and nothing listed.
LEMMA BeginStep ==
  ASSUME IInv, Begin
  PROVE  IInv'
<1>1. /\ pc = "guess" /\ pc' = "count" /\ hit' = 0 /\ count' = [k \in Keys |-> 0]
      /\ flag' = FALSE /\ keys' = <<>>
      /\ UNCHANGED <<alg, bits, inner, input, scan, todo, candidates, searched>>
  BY DEF Begin, guessVars
<1>2. /\ CounterSize \in Nat \ {0} /\ MAX_KEYS \in Nat /\ tau1 \in 1 .. CounterSize - 1
      /\ TypeOK /\ Len(input.hits) \in Nat
  BY Sizes, InputType DEF IInv
<1>3. \A k : Seen(k)' = 0
  <2>1. \A k : Seen(k)' = Number(input.hits, 0, k)
    BY <1>1 DEF Seen, Number
  <2> QED BY <2>1, CountNext
<1>4. TypeOK'
  <2>1. count' \in [Keys -> 0 .. CounterSize - 1] /\ hit' \in Nat
    BY <1>1, <1>2
  <2>2. keys' \in Seq(Keys) /\ Len(keys') <= MAX_KEYS
    BY <1>1, <1>2
  <2>3. flag' \in BOOLEAN
    BY <1>1, Zenon
  <2> QED BY <1>1, <1>2, <2>1, <2>2, <2>3 DEF TypeOK
<1>5. CountInv'
  <2>1. 0 % CounterSize = 0
    BY <1>2, WrapAround
  <2> QED BY <1>1, <1>2, <1>3, <2>1 DEF CountInv
<1>6. ListInv'
  <2>1. Len(keys') = 0 /\ \A k \in Keys : ~(count'[k] >= tau1)
    BY <1>1, <1>2
  <2> QED BY <1>1, <1>2, <1>3, <2>1 DEF ListInv
<1>7. OrderInv' /\ GuessInv'
  BY <1>1, CandidatesKept, GuessKept DEF IInv
<1>8. ScanInv'
  BY <1>1 DEF IInv, ScanInv
<1>9. ReportsAreRight' /\ ReportedOnce'
  BY <1>1, NoScan
<1> QED BY <1>4, <1>5, <1>6, <1>7, <1>8, <1>9 DEF IInv

\* A hit in ct_attack1 and 2.
LEMMA CountAndFlagStep ==
  ASSUME IInv, CountAndFlag
  PROVE  IInv'
<1>1. /\ pc = "count" /\ pc' = "count" /\ hit' = hit + 1 /\ alg # 3
      /\ count' = [count EXCEPT ![Hit] = Counted]
      /\ flag' = (flag \/ Counted >= tau1)
      /\ UNCHANGED <<alg, bits, inner, input, keys, scan, todo, candidates, searched>>
  BY DEF CountAndFlag, Counting, guessVars
<1>2. /\ Hit \in Keys /\ hit' <= Len(input.hits)
      /\ \A k : Seen(k) \in Nat
      /\ \A k \in Keys : count'[k] = Seen(k)' % CounterSize
      /\ Counted = (Seen(Hit) + 1) % CounterSize
  BY <1>1, OneHit DEF CountAndFlag
<1>3. Counted \in 0 .. CounterSize - 1
  <2>1. Seen(Hit) + 1 \in Nat /\ CounterSize \in Nat \ {0}
    BY <1>2, Sizes, SMTT(20)
  <2> QED BY <1>2, <2>1, WrapAround
<1>4. TypeOK'
  <2>1. count' \in [Keys -> 0 .. CounterSize - 1] /\ hit' \in Nat
    BY <1>1, <1>2, <1>3 DEF IInv, TypeOK
  <2> QED BY <1>1, <2>1 DEF IInv, TypeOK
<1>5. CountInv'
  BY <1>1, <1>2 DEF CountInv
<1>6. ListInv'
  <2>1. ASSUME NEW k \in Keys, count'[k] >= tau1
        PROVE  flag'
    BY <1>1, <1>2, <2>1 DEF IInv, ListInv, TypeOK
  <2> QED BY <1>1, <2>1 DEF ListInv
<1>7. OrderInv' /\ GuessInv'
  BY <1>1, CandidatesKept, GuessKept DEF IInv
<1>8. ScanInv'
  BY <1>1 DEF IInv, ScanInv
<1>9. ReportsAreRight' /\ ReportedOnce'
  BY <1>1, NoScan
<1> QED BY <1>4, <1>5, <1>6, <1>7, <1>8, <1>9 DEF IInv

\* A hit in ct_attack3: a key is listed when its counter gets to the threshold.
LEMMA CountAndListStep ==
  ASSUME IInv, CountAndList
  PROVE  IInv'
<1>1. /\ pc = "count" /\ pc' = "count" /\ hit' = hit + 1 /\ alg = 3
      /\ count' = [count EXCEPT ![Hit] = Counted]
      /\ Listed => Len(keys) < MAX_KEYS
      /\ keys' = IF Listed THEN Append(keys, Hit) ELSE keys
      /\ UNCHANGED <<alg, bits, inner, input, flag, scan, todo, candidates, searched>>
  BY DEF CountAndList, Counting, guessVars
<1>2. /\ Hit \in Keys /\ hit' <= Len(input.hits)
      /\ \A k : Seen(k) \in Nat /\ Seen(k)' = IF k = Hit THEN Seen(k) + 1 ELSE Seen(k)
      /\ \A k \in Keys : count'[k] = Seen(k)' % CounterSize
      /\ Counted = (Seen(Hit) + 1) % CounterSize
  BY <1>1, OneHit DEF CountAndList
<1>3. /\ CounterSize \in Nat \ {0} /\ tau1 \in 1 .. CounterSize - 1 /\ MAX_KEYS \in Nat
      /\ Seen(Hit) + 1 \in Nat /\ keys \in Seq(Keys) /\ Len(keys) \in Nat
  <2>1. keys \in Seq(Keys) /\ Len(keys) \in Nat
    BY DEF IInv, TypeOK
  <2>2. Seen(Hit) + 1 \in Nat
    BY <1>2
  <2> QED BY <2>1, <2>2, Sizes
<1>4. /\ Counted \in 0 .. CounterSize - 1
      /\ Seen(Hit) + 1 < CounterSize => Counted = Seen(Hit) + 1
      /\ Listed => Seen(Hit) + 1 = tau1 \/ Seen(Hit) + 1 >= CounterSize + tau1
  <2> DEFINE x == Seen(Hit) + 1
  <2>1. x \in Nat /\ Counted = x % CounterSize
    BY <1>2, <1>3
  <2> HIDE DEF x
  <2>2. /\ x % CounterSize \in 0 .. CounterSize - 1
        /\ x < CounterSize => x % CounterSize = x
        /\ \A t \in 0 .. CounterSize - 1 : x % CounterSize = t => x = t \/ x >= CounterSize + t
    BY <1>3, <2>1, WrapAround
  <2>3. tau1 \in 0 .. CounterSize - 1
    BY <1>3
  <2> QED BY <2>1, <2>2, <2>3 DEF Listed, x
<1>5. /\ \A k \in Keys : Seen(k) >= tau1 => k \in ToSet(keys)
      /\ \A n \in 1 .. Len(keys) : Seen(keys[n]) >= tau1
      /\ \A m, n \in 1 .. Len(keys) :
           m < n /\ keys[m] = keys[n] => Seen(keys[m]) >= CounterSize + tau1
  BY <1>1 DEF IInv, ListInv
<1>6. /\ keys' \in Seq(Keys) /\ Len(keys') = IF Listed THEN Len(keys) + 1 ELSE Len(keys)
      /\ \A n \in 1 .. Len(keys) : keys'[n] = keys[n]
      /\ Listed => keys'[Len(keys) + 1] = Hit
  BY <1>1, <1>2, <1>3
<1>7. TypeOK'
  <2>1. count' \in [Keys -> 0 .. CounterSize - 1] /\ hit' \in Nat
    BY <1>1, <1>2, <1>4 DEF IInv, TypeOK
  <2>2. keys' \in Seq(Keys) /\ Len(keys') <= MAX_KEYS
    BY <1>1, <1>3, <1>6 DEF IInv, TypeOK
  <2> QED BY <1>1, <2>1, <2>2 DEF IInv, TypeOK
<1>8. CountInv'
  BY <1>1, <1>2 DEF CountInv
<1>9. ListInv'
  <2>1. ASSUME NEW k \in Keys, Seen(k)' >= tau1
        PROVE  k \in ToSet(keys')
    <3>1. CASE Seen(k) >= tau1
      <4>1. PICK n \in 1 .. Len(keys) : k = keys[n]
        BY <1>5, <3>1 DEF ToSet
      <4>2. n \in 1 .. Len(keys') /\ keys'[n] = k
        BY <1>3, <1>6, <4>1
      <4> QED BY <4>2 DEF ToSet
    <3>2. CASE ~(Seen(k) >= tau1)
      <4>1. k = Hit /\ Seen(Hit) + 1 = tau1
        BY <1>2, <1>3, <2>1, <3>2
      <4>2. Listed
        BY <1>3, <1>4, <4>1 DEF Listed
      <4>3. Len(keys) + 1 \in 1 .. Len(keys') /\ keys'[Len(keys) + 1] = k
        BY <1>3, <1>6, <4>1, <4>2
      <4> QED BY <4>3 DEF ToSet
    <3> QED BY <3>1, <3>2
  <2>2. \A k : Seen(k)' >= Seen(k) /\ Seen(k)' \in Nat
    BY <1>2
  <2>3. ASSUME NEW n \in 1 .. Len(keys')
        PROVE  (n \in 1 .. Len(keys) /\ keys'[n] = keys[n])
               \/ (n = Len(keys) + 1 /\ Listed /\ keys'[n] = Hit)
    BY <1>3, <1>6
  <2>4. ASSUME NEW n \in 1 .. Len(keys')
        PROVE  Seen(keys[n])' >= tau1
    <3>1. CASE n \in 1 .. Len(keys) /\ keys'[n] = keys[n]
      BY <1>2, <1>3, <1>5, <2>2, <3>1
    <3>2. CASE n = Len(keys) + 1 /\ Listed /\ keys'[n] = Hit
      <4>1. Seen(Hit) + 1 >= tau1
        BY <1>3, <1>4, <3>2
      <4>2. keys'[n] = Hit
        BY <3>2
      <4>3. Seen(keys[n])' = Seen(Hit) + 1
        BY <1>2, <4>2
      <4> QED BY <4>1, <4>3
    <3> QED BY <2>3, <3>1, <3>2
  <2>5. ASSUME NEW m \in 1 .. Len(keys'), NEW n \in 1 .. Len(keys'), m < n, keys'[m] = keys'[n]
        PROVE  Seen(keys[m])' >= CounterSize + tau1
    <3>1. m \in 1 .. Len(keys) /\ keys'[m] = keys[m]
      BY <1>3, <1>6, <2>3, <2>5
    <3>2. CASE n \in 1 .. Len(keys) /\ keys'[n] = keys[n]
      <4>1. Seen(keys[m]) >= CounterSize + tau1 /\ Seen(keys[m]) \in Nat
        BY <1>2, <1>5, <2>5, <3>1, <3>2
      <4>2. Seen(keys[m])' = IF keys'[m] = Hit THEN Seen(keys[m]) + 1 ELSE Seen(keys[m])
        BY <1>2, <3>1
      <4> QED BY <1>3, <4>1, <4>2
    <3>3. CASE n = Len(keys) + 1 /\ Listed /\ keys'[n] = Hit
      <4>1. keys[m] = Hit /\ keys'[m] = Hit
        BY <2>5, <3>1, <3>3
      <4>2. Seen(Hit) >= tau1
        BY <1>5, <3>1, <4>1
      <4>3. Seen(Hit) + 1 >= CounterSize + tau1
        BY <1>2, <1>3, <1>4, <3>3, <4>2
      <4>4. Seen(keys[m])' = Seen(Hit) + 1
        BY <1>2, <4>1
      <4> QED BY <4>3, <4>4
    <3> QED BY <2>3, <3>2, <3>3
  <2> QED BY <1>1, <2>1, <2>4, <2>5 DEF ListInv
<1>10. OrderInv' /\ GuessInv'
  BY <1>1, CandidatesKept, GuessKept DEF IInv
<1>11. ScanInv'
  BY <1>1 DEF IInv, ScanInv
<1>12. ReportsAreRight' /\ ReportedOnce'
  BY <1>1, NoScan
<1> QED BY <1>7, <1>8, <1>9, <1>10, <1>11, <1>12 DEF IInv

\* What the counters and the list are does not change in the scan.
LEMMA CountsKept ==
  ASSUME CountInv, ListInv, pc \in {"count", "scan"}, pc' = "scan", hit = Len(input.hits),
         UNCHANGED <<alg, input, hit, count, flag, keys>>
  PROVE  CountInv' /\ ListInv' /\ \A k : Seen(k)' = Seen(k)
<1>1. \A k : Seen(k)' = Seen(k)
  BY DEF Seen
<1>2. CountInv'
  BY <1>1 DEF CountInv
<1>3. ListInv'
  BY <1>1 DEF ListInv
<1> QED BY <1>1, <1>2, <1>3

\* The scan begins.
LEMMA EndCountStep ==
  ASSUME IInv, EndCount
  PROVE  IInv'
<1>1. /\ pc = "count" /\ pc' = "scan" /\ hit = Len(input.hits) /\ scan' = 0
      /\ UNCHANGED <<alg, bits, inner, input, hit, count, flag, keys, todo, candidates, searched>>
  BY DEF EndCount, guessVars
<1>2. TypeOK'
  BY <1>1 DEF IInv, TypeOK
<1>3. CountInv' /\ ListInv'
  BY <1>1, CountsKept DEF IInv
<1>4. OrderInv' /\ GuessInv' /\ OfGuess' = OfGuess
  BY <1>1, CandidatesKept, GuessKept DEF IInv
<1>5. OfGuess' = {} /\ todo' = {}
  BY <1>1, <1>4 DEF IInv, OrderInv, ScanInv
<1>6. ScanInv'
  <2>1. 0 <= ScanEnd'
    <3>1. Len(keys') \in Nat /\ NumKeys \in Nat
      BY <1>2, Sizes DEF TypeOK
    <3> QED BY <3>1 DEF ScanEnd
  <2> QED BY <1>1, <1>5, <2>1 DEF ScanInv
<1>7. ReportsAreRight' /\ ReportedOnce'
  BY <1>5 DEF ReportsAreRight, ReportedOnce
<1> QED BY <1>2, <1>3, <1>4, <1>6, <1>7 DEF IInv

\* The next turn of the scan: a key that was reported is not handed out again,
\* unless its counter wrapped around.
LEMMA ScanStep ==
  ASSUME IInv, Scan
  PROVE  IInv'
<1>1. /\ pc = "scan" /\ pc' = "scan" /\ scan < ScanEnd /\ todo = {} /\ scan' = scan + 1
      /\ todo' = Suggested
      /\ UNCHANGED <<alg, bits, inner, input, hit, count, flag, keys, candidates, searched>>
  BY DEF Scan, Scanning, guessVars
<1>2. CountInv' /\ ListInv' /\ \A k : Seen(k)' = Seen(k)
  BY <1>1, CountsKept DEF IInv, CountInv
<1>3. OrderInv' /\ GuessInv' /\ OfGuess' = OfGuess
  BY <1>1, CandidatesKept, GuessKept DEF IInv
<1>4. ScanEnd \in Nat /\ scan \in Nat /\ scan + 1 \in 1 .. ScanEnd
  <2>1. Len(keys) \in Nat /\ NumKeys \in Nat /\ scan \in Nat
    BY Sizes DEF IInv, TypeOK
  <2>2. ScanEnd \in Nat
    BY <2>1 DEF ScanEnd
  <2> QED BY <1>1, <2>1, <2>2
<1>5. todo' = Turn(scan + 1)
  <2>1. (scan + 1) - 1 = scan
    BY <1>4
  <2> QED BY <1>1, <2>1 DEF Suggested, Turn
<1>6. TypeOK'
  <2>1. todo' \subseteq Keys \X Middle
    BY <1>1, <1>4, <1>5, TurnRight
  <2> QED BY <1>1, <1>4, <2>1 DEF IInv, TypeOK
<1>7. /\ \A n : Turn(n)' = Turn(n)
      /\ ScanEnd' = ScanEnd
      /\ \A k : Passes(k)' = Passes(k)
  BY <1>1 DEF Turn, Flagged, ScanEnd, Passes
<1>8. ASSUME NEW c \in OfGuess, candidates[c].key \in Turn(scan + 1)
      PROVE  alg = 3 /\ Seen(candidates[c].key[1]) >= CounterSize + tau1
  <2> DEFINE k == candidates[c].key
  <2>1. PICK n \in 1 .. scan : k \in Turn(n)
    BY <1>1 DEF IInv, ScanInv
  <2>2. n \in 1 .. ScanEnd /\ n < scan + 1
    BY <1>4
  <2> HIDE DEF k
  <2>3. /\ alg # 3 => k = <<n - 1, 0>> /\ k = <<(scan + 1) - 1, 0>>
        /\ alg = 3 => k[1] = keys[n] /\ k[1] = keys[scan + 1]
    BY <1>1, <1>4, <1>8, <2>1, <2>2, TurnRight DEF k
  <2>4. alg = 3
    BY <1>4, <2>2, <2>3
  <2>5. n \in 1 .. Len(keys) /\ scan + 1 \in 1 .. Len(keys)
    BY <1>4, <2>2, <2>4 DEF ScanEnd
  <2>6. Seen(keys[n]) >= CounterSize + tau1
    BY <1>1, <2>2, <2>3, <2>4, <2>5 DEF IInv, ListInv
  <2> QED BY <2>3, <2>4, <2>6 DEF k
<1>9. ScanInv'
  <2>1. scan' <= ScanEnd' /\ scan' >= 1 /\ todo' \subseteq Turn(scan)'
    <3>1. Turn(scan)' = Turn(scan + 1)
      BY <1>1 DEF Turn, Flagged
    <3> QED BY <1>1, <1>4, <1>5, <1>7, <3>1
  <2>2. ASSUME NEW c \in OfGuess'
        PROVE  \E n \in 1 .. scan' : candidates'[c].key \in Turn(n)'
    <3>1. PICK n \in 1 .. scan : candidates[c].key \in Turn(n)
      BY <1>1, <1>3, <2>2 DEF IInv, ScanInv
    <3>2. n \in 1 .. scan'
      BY <1>1, <1>4
    <3> QED BY <1>1, <1>7, <3>1, <3>2
  <2>3. ASSUME NEW n \in 1 .. scan', NEW k \in Turn(n)'
        PROVE  k \in todo' \/ ~Passes(k)' \/ \E c \in OfGuess' : candidates'[c].key = k
    <3>1. CASE n = scan + 1
      BY <1>5, <1>7, <2>3, <3>1
    <3>2. CASE n # scan + 1
      <4>1. n \in 1 .. scan
        BY <1>1, <1>4, <3>2
      <4>2. k \in Turn(n)
        BY <1>7, <2>3
      <4>3. ~Passes(k) \/ \E c \in OfGuess : candidates[c].key = k
        BY <1>1, <4>1, <4>2 DEF IInv, ScanInv
      <4> QED BY <1>1, <1>3, <1>7, <4>3
    <3> QED BY <3>1, <3>2
  <2>4. ASSUME NEW c \in OfGuess', candidates'[c].key \in todo'
        PROVE  alg' = 3 /\ Seen(candidates[c].key[1])' >= CounterSize + tau1
    BY <1>1, <1>2, <1>3, <1>5, <1>8, <2>4
  <2> QED BY <1>1, <2>1, <2>2, <2>3, <2>4 DEF ScanInv
<1>10. ReportsAreRight' /\ ReportedOnce'
  BY <1>1, <1>3, ReportsKept
<1> QED BY <1>2, <1>3, <1>6, <1>9, <1>10 DEF IInv

\* The key at hand is one of the last turn, and its result is what validate_rk8
\* promises.
LEMMA AtHand ==
  ASSUME IInv, Validating
  PROVE  /\ pc = "scan" /\ Current \in todo /\ scan \in 1 .. ScanEnd /\ Current \in Turn(scan)
         /\ Current \in Keys \X Middle
         /\ Result.key \in Rk7 /\ Result.num \in Nat
         /\ Result.num = Occurrences(Result.key, input.indicated[Current])
         /\ \A b \in Rk7 : Occurrences(b, input.indicated[Current]) <= Result.num
         /\ (Result.num >= tau2) = Passes(Current)
<1>1. pc = "scan" /\ Current \in todo
  BY CurrentToDo DEF IInv, Validating
<1>2. scan \in 1 .. ScanEnd /\ Current \in Turn(scan)
  <2>1. scan <= ScanEnd /\ scan >= 1 /\ todo \subseteq Turn(scan)
    BY <1>1 DEF IInv, ScanInv
  <2>2. scan \in Nat /\ ScanEnd \in Nat
    BY Sizes DEF IInv, TypeOK, ScanEnd
  <2> QED BY <1>1, <2>1, <2>2
<1>3. Current \in Keys \X Middle
  BY <1>1, <1>2, TurnRight
<1>4. input.indicated[Current] \in Seq(Rk7)
  BY <1>3, InputType DEF IInv
<1>5. /\ Result.key \in Rk7 /\ Result.num \in Nat
      /\ Result.num = Occurrences(Result.key, input.indicated[Current])
      /\ \A b \in Rk7 : Occurrences(b, input.indicated[Current]) <= Result.num
  BY <1>4, Validation DEF Result
<1>6. (Result.num >= tau2) = Passes(Current)
  BY DEF Result, Passes
<1> QED BY <1>1, <1>2, <1>3, <1>5, <1>6

\* A key that passes is reported, with the evidence for it.
LEMMA ReportStep ==
  ASSUME IInv, Report
  PROVE  IInv'
<1> DEFINE N == Len(candidates)
           k == Current
<1>1. /\ pc = "scan" /\ pc' = "scan" /\ todo' = todo \ {k} /\ Result.num >= tau2
      /\ candidates' = Append(candidates, Entry)
      /\ UNCHANGED <<alg, bits, inner, input, hit, count, flag, keys, scan, searched>>
  BY DEF Report, Validating, guessVars
<1>2. /\ k \in todo /\ scan \in 1 .. ScanEnd /\ k \in Turn(scan) /\ k \in Keys \X Middle
      /\ Result.key \in Rk7 /\ Result.num \in Nat
      /\ Result.num = Occurrences(Result.key, input.indicated[k])
      /\ \A b \in Rk7 : Occurrences(b, input.indicated[k]) <= Result.num
  BY AtHand DEF Report
<1>3. Entry = [bits |-> bits, inner |-> inner, key |-> k, rk7 |-> Result.key, pairs |-> Result.num]
  BY DEF Entry
<1>4. /\ candidates \in Seq(Candidates) /\ N \in Nat /\ bits \in Nat /\ inner \in Nat
      /\ Entry \in Candidates
  <2>1. candidates \in Seq(Candidates) /\ bits \in Nat /\ inner \in Nat
    BY Sizes DEF IInv, TypeOK, OrderInv
  <2> QED BY <1>2, <1>3, <2>1 DEF Candidates
<1> HIDE DEF k
<1>5. /\ candidates' \in Seq(Candidates) /\ Len(candidates') = N + 1
      /\ \A n \in 1 .. N : candidates'[n] = candidates[n]
      /\ candidates'[N + 1] = Entry
  BY <1>1, <1>4
<1>6. OfGuess' = OfGuess \cup {N + 1} /\ OfGuess \subseteq 1 .. N
  <2>1. \A n : n \in 1 .. N + 1 <=> n \in 1 .. N \/ n = N + 1
    BY <1>4
  <2> QED BY <1>1, <1>3, <1>5, <2>1 DEF OfGuess
<1> HIDE DEF N
<1>7. CountInv' /\ ListInv' /\ \A m : Seen(m)' = Seen(m)
  BY <1>1, CountsKept DEF IInv, CountInv
<1>8. GuessInv'
  BY <1>1, GuessKept DEF IInv
<1>9. TypeOK'
  BY <1>1 DEF IInv, TypeOK
<1>10. OrderInv'
  <2>1. ASSUME NEW n \in 1 .. Len(candidates')
        PROVE  \/ candidates'[n].bits < bits
               \/ candidates'[n].bits = bits /\ candidates'[n].inner <= inner
    <3>1. CASE n \in 1 .. N
      BY <1>5, <3>1 DEF IInv, OrderInv, N
    <3>2. CASE n = N + 1
      BY <1>3, <1>4, <1>5, <3>2
    <3> QED BY <1>4, <1>5, <2>1, <3>1, <3>2
  <2> QED BY <1>1, <1>5, <2>1 DEF OrderInv
<1>11. /\ \A n : Turn(n)' = Turn(n)
       /\ ScanEnd' = ScanEnd /\ Turn(scan)' = Turn(scan)
       /\ \A m : Passes(m)' = Passes(m)
  BY <1>1 DEF Turn, Flagged, ScanEnd, Passes
<1>12. candidates'[N + 1].key = k
  BY <1>3, <1>5
<1>13. \A c \in OfGuess' : (c \in OfGuess /\ candidates'[c] = candidates[c]) \/ c = N + 1
  BY <1>5, <1>6
<1>14. /\ scan <= ScanEnd /\ todo \subseteq Turn(scan)
       /\ \A c \in OfGuess : \E n \in 1 .. scan : candidates[c].key \in Turn(n)
       /\ \A n \in 1 .. scan : \A m \in Turn(n) :
            m \in todo \/ ~Passes(m) \/ \E c \in OfGuess : candidates[c].key = m
       /\ \A c \in OfGuess : candidates[c].key \in todo =>
            alg = 3 /\ Seen(candidates[c].key[1]) >= CounterSize + tau1
  BY <1>1, <1>2 DEF IInv, ScanInv
<1>15. scan \in Nat /\ scan \in 1 .. scan /\ scan >= 1
  BY <1>2
<1>16. ScanInv'
  <2>1. ASSUME NEW c \in OfGuess'
        PROVE  \E n \in 1 .. scan : candidates'[c].key \in Turn(n)
    BY <1>2, <1>12, <1>13, <1>14, <1>15
  <2>2. ASSUME NEW n \in 1 .. scan, NEW m \in Turn(n)
        PROVE  m \in todo' \/ ~Passes(m) \/ \E c \in OfGuess' : candidates'[c].key = m
    <3>1. CASE m = k
      BY <1>6, <1>12, <3>1
    <3>2. CASE m # k
      <4>1. m \in todo \/ ~Passes(m) \/ \E c \in OfGuess : candidates[c].key = m
        BY <1>14
      <4>2. \A c \in OfGuess : c \in OfGuess' /\ candidates'[c] = candidates[c]
        BY <1>5, <1>6
      <4> QED BY <1>1, <3>2, <4>1, <4>2
    <3> QED BY <3>1, <3>2
  <2>3. ASSUME NEW c \in OfGuess', candidates'[c].key \in todo'
        PROVE  alg = 3 /\ Seen(candidates'[c].key[1]) >= CounterSize + tau1
    <3>1. c \in OfGuess /\ candidates'[c] = candidates[c]
      BY <1>1, <1>12, <1>13, <2>3
    <3>2. candidates[c].key \in todo
      BY <1>1, <2>3, <3>1
    <3> QED BY <1>14, <3>1, <3>2
  <2>4. \A c \in OfGuess' : Seen(candidates[c].key[1])' = Seen(candidates'[c].key[1])
    BY <1>1 DEF Seen
  <2> QED BY <1>1, <1>11, <1>14, <1>15, <2>1, <2>2, <2>3, <2>4 DEF ScanInv
<1>17. Total(k[1]) >= tau1 /\ (alg = 3 => k[2] \in Flagged(k[1]))
  BY <1>1, <1>2, TurnRight
<1>18. ReportsAreRight'
  <2> DEFINE Good(c) ==
        /\ Total(c.key[1]) >= tau1
        /\ alg = 3 => Occurrences(c.key[2], input.middle[c.key[1]]) >= tau2
        /\ c.pairs >= tau2
        /\ c.pairs = Occurrences(c.rk7, input.indicated[c.key])
        /\ \A b \in Rk7 : Occurrences(b, input.indicated[c.key]) <= c.pairs
  <2>1. Good(Entry)
    <3>1. alg = 3 => Occurrences(k[2], input.middle[k[1]]) >= tau2
      BY <1>17 DEF Flagged
    <3> QED BY <1>1, <1>2, <1>3, <1>17, <3>1
  <2>2. \A n \in OfGuess : Good(candidates[n])
    BY <1>1 DEF IInv, ReportsAreRight
  <2>3. \A n \in OfGuess' : Good(candidates'[n])
    <3> HIDE DEF Good
    <3> QED BY <1>5, <1>13, <2>1, <2>2
  <2> QED BY <1>1, <2>3 DEF ReportsAreRight, Total, Occurrences
<1>19. ReportedOnce'
  <2> DEFINE Wrapped(m) == alg = 3 /\ Total(m[1]) >= CounterSize + tau1
  <2>1. \A m, n \in OfGuess :
          candidates[m].key = candidates[n].key => m = n \/ Wrapped(candidates[m].key)
    BY <1>1 DEF IInv, ReportedOnce
  <2>2. Seen(k[1]) = Total(k[1])
    BY <1>1, <1>2, TurnRight
  <2>3. \A n \in OfGuess : candidates[n].key = k => Wrapped(k)
    BY <1>2, <1>14, <2>2
  <2> HIDE DEF Wrapped
  <2>4. \A m, n \in OfGuess' :
          candidates'[m].key = candidates'[n].key => m = n \/ Wrapped(candidates'[m].key)
    BY <1>12, <1>13, <2>1, <2>3
  <2> QED BY <1>1, <2>4 DEF ReportedOnce, Wrapped, Total, Occurrences
<1> QED BY <1>7, <1>8, <1>9, <1>10, <1>16, <1>18, <1>19 DEF IInv

\* A key that does not pass is dropped.
LEMMA RejectStep ==
  ASSUME IInv, Reject
  PROVE  IInv'
<1> DEFINE k == Current
<1>1. /\ pc = "scan" /\ pc' = "scan" /\ todo' = todo \ {k} /\ Result.num < tau2
      /\ UNCHANGED <<alg, bits, inner, input, hit, count, flag, keys, scan, candidates, searched>>
  BY DEF Reject, Validating, guessVars
<1>2. scan \in 1 .. ScanEnd /\ ~Passes(k)
  <2>1. Result.num \in Nat /\ tau2 \in Nat /\ (Result.num >= tau2) = Passes(k)
        /\ scan \in 1 .. ScanEnd
    BY AtHand, Sizes DEF Reject
  <2>2. ~(Result.num >= tau2)
    BY <1>1, <2>1
  <2> QED BY <2>1, <2>2
<1> HIDE DEF k
<1>3. CountInv' /\ ListInv' /\ \A m : Seen(m)' = Seen(m)
  BY <1>1, CountsKept DEF IInv, CountInv
<1>4. OrderInv' /\ GuessInv' /\ OfGuess' = OfGuess
  BY <1>1, CandidatesKept, GuessKept DEF IInv
<1>5. TypeOK'
  BY <1>1 DEF IInv, TypeOK
<1>6. /\ \A n : Turn(n)' = Turn(n)
      /\ ScanEnd' = ScanEnd /\ Turn(scan)' = Turn(scan)
      /\ \A m : Passes(m)' = Passes(m)
  BY <1>1 DEF Turn, Flagged, ScanEnd, Passes
<1>7. ScanInv'
  <2>1. \A n \in 1 .. scan : \A m \in Turn(n) :
          m \in todo' \/ ~Passes(m) \/ \E c \in OfGuess : candidates[c].key = m
    BY <1>1, <1>2 DEF IInv, ScanInv
  <2>2. \A c \in OfGuess : Seen(candidates[c].key[1])' = Seen(candidates[c].key[1])
    BY <1>1 DEF Seen
  <2> QED BY <1>1, <1>4, <1>6, <2>1, <2>2 DEF IInv, ScanInv
<1>8. ReportsAreRight' /\ ReportedOnce'
  BY <1>1, <1>4, ReportsKept
<1> QED BY <1>3, <1>4, <1>5, <1>7, <1>8 DEF IInv

\* The program has written past an array, or given up: nothing more is done.
LEMMA StoppedStep ==
  ASSUME IInv, KeysOverrun \/ ListOverrun \/ OutOfMemory
  PROVE  IInv'
<1>1. /\ pc' \in {"error", "undefined"}
      /\ pc' = "error" => candidates' = <<>>
      /\ candidates' \in {candidates, <<>>}
      /\ UNCHANGED <<alg, bits, inner, input, hit, count, flag, keys, scan, todo, searched>>
  BY DEF KeysOverrun, ListOverrun, OutOfMemory, guessVars
<1>2. TypeOK'
  BY <1>1 DEF IInv, TypeOK
<1>3. CountInv' /\ ListInv' /\ ScanInv'
  BY <1>1 DEF CountInv, ListInv, ScanInv
<1>4. OrderInv'
  <2>1. <<>> \in Seq(Candidates) /\ \A n : n \notin 1 .. Len(<<>>)
    OBVIOUS
  <2> QED BY <1>1, <2>1 DEF IInv, OrderInv
<1>5. GuessInv'
  BY <1>1, GuessKept DEF IInv
<1>6. ReportsAreRight' /\ ReportedOnce'
  BY <1>1, NoScan
<1> QED BY <1>2, <1>3, <1>4, <1>5, <1>6 DEF IInv

\* The next guess is one later in the order of the loops.
LEMMA NextGuess ==
  ASSUME IInv, EndGuess
  PROVE  /\ inner \in Nat /\ bits \in Nat /\ inner < NumInner /\ bits < Span
         /\ \/ inner + 1 < NumInner /\ inner' = inner + 1 /\ bits' = bits
            \/ inner + 1 = NumInner /\ inner' = 0 /\ bits' = bits + 1
         /\ inner' \in 0 .. NumInner - 1 /\ bits' \in 0 .. Span
         /\ pc' = IF bits' < Span THEN "guess" ELSE "done"
<1>1. /\ pc = "scan" /\ inner' = (inner + 1) % NumInner
      /\ bits' = (IF inner + 1 < NumInner THEN bits ELSE bits + 1)
      /\ pc' = IF bits' < Span THEN "guess" ELSE "done"
  BY DEF EndGuess, Scanning
<1>2. NumInner \in Nat \ {0} /\ Span \in Nat \ {0}
  BY Sizes
<1>3. bits \in 0 .. Span /\ inner \in 0 .. NumInner - 1 /\ bits < Span
  BY <1>1 DEF IInv, TypeOK, GuessInv
<1>4. inner + 1 < NumInner => (inner + 1) % NumInner = inner + 1
  <2>1. inner + 1 \in Nat
    BY <1>3
  <2> QED BY <1>2, <2>1, WrapAround
<1>5. inner + 1 = NumInner => (inner + 1) % NumInner = 0
  <2> SUFFICES ASSUME inner + 1 = NumInner
               PROVE  (inner + 1) % NumInner = 0
    OBVIOUS
  <2>1. inner + 1 = NumInner * 1 + 0 /\ 0 \in 0 .. NumInner - 1 /\ inner + 1 \in Nat /\ 1 \in Int
    BY <1>2, <1>3
  <2> QED BY <1>2, <2>1, DivisionUnique, Zenon
<1>6. inner + 1 < NumInner \/ inner + 1 = NumInner
  BY <1>2, <1>3
<1> QED BY <1>1, <1>2, <1>3, <1>4, <1>5, <1>6

\* The guess at hand has been searched.
LEMMA EndGuessStep ==
  ASSUME IInv, EndGuess
  PROVE  IInv'
<1>1. /\ pc = "scan" /\ todo = {} /\ input' \in Inputs
      /\ searched' = Append(searched, <<JobOf(bits), inner>>)
      /\ UNCHANGED <<alg, hit, count, flag, keys, scan, todo, candidates>>
  BY DEF EndGuess, Scanning
<1>2. /\ inner \in Nat /\ bits \in Nat /\ inner < NumInner /\ bits < Span
      /\ \/ inner + 1 < NumInner /\ inner' = inner + 1 /\ bits' = bits
         \/ inner + 1 = NumInner /\ inner' = 0 /\ bits' = bits + 1
      /\ inner' \in 0 .. NumInner - 1 /\ bits' \in 0 .. Span
      /\ pc' = IF bits' < Span THEN "guess" ELSE "done"
  BY NextGuess
<1>3. NumInner \in Nat \ {0} /\ Span \in Nat \ {0} /\ Stride \in Nat \ {0} /\ FixedBits \in Nat
  BY Sizes
<1>4. pc' \in {"guess", "done"}
  BY <1>2
<1>5. TypeOK'
  BY <1>1, <1>2, <1>4 DEF IInv, TypeOK
<1>6. CountInv' /\ ListInv'
  BY <1>4 DEF CountInv, ListInv
<1>7. ScanInv'
  BY <1>1, <1>4 DEF ScanInv
<1>8. ReportsAreRight' /\ ReportedOnce'
  BY <1>4, NoScan
<1>9. OrderInv'
  <2>1. ASSUME NEW n \in 1 .. Len(candidates)
        PROVE  /\ \/ candidates[n].bits < bits'
                  \/ candidates[n].bits = bits' /\ candidates[n].inner <= inner'
               /\ ~(candidates[n].bits = bits' /\ candidates[n].inner = inner')
    <3>1. candidates[n] \in Candidates
      BY DEF IInv, OrderInv
    <3>2. candidates[n].bits \in Nat /\ candidates[n].inner \in Nat
      BY <3>1 DEF Candidates
    <3>3. \/ candidates[n].bits < bits
          \/ candidates[n].bits = bits /\ candidates[n].inner <= inner
      BY DEF IInv, OrderInv
    <3> QED BY <1>2, <3>2, <3>3
  <2>2. OfGuess' = {}
    BY <1>1, <2>1 DEF OfGuess
  <2> QED BY <1>1, <2>1, <2>2 DEF IInv, OrderInv
<1>10. GuessInv'
  <2> DEFINE here == <<JobOf(bits), inner>>
  <2>1. searched \in Seq(Nat \X Nat) /\ Len(searched) = bits * NumInner + inner
        /\ \A x : x \in ToSet(searched) <=>
             \E b \in 0 .. Span - 1, m \in 0 .. NumInner - 1 : Before(b, m) /\ x = <<JobOf(b), m>>
    BY DEF IInv, GuessInv
  <2>2. JobOf(bits) \in Nat
    <3>1. bits * Stride \in Nat
      BY <1>2, <1>3
    <3> HIDE DEF here
    <3> QED BY <1>3, <3>1 DEF JobOf
  <2>3. searched' \in Seq(Nat \X Nat) /\ Len(searched') = Len(searched) + 1
    BY <1>1, <1>2, <2>1, <2>2
  <2>4. \A x : x \in ToSet(searched') <=> x \in ToSet(searched) \/ x = here
    <3>1. /\ Len(searched) \in Nat
          /\ \A n \in 1 .. Len(searched) : searched'[n] = searched[n]
          /\ searched'[Len(searched) + 1] = here
      BY <1>1, <1>2, <2>1, <2>2
    <3> HIDE DEF here
    <3>2. \A n : n \in 1 .. Len(searched') <=> n \in 1 .. Len(searched) \/ n = Len(searched) + 1
      BY <2>3, <3>1
    <3> QED BY <3>1, <3>2 DEF ToSet
  <2>5. Len(searched') = bits' * NumInner + inner'
    <3>1. (bits + 1) * NumInner = bits * NumInner + NumInner
      BY <1>2, <1>3
    <3>2. bits * NumInner \in Nat
      BY <1>2, <1>3
    <3>3. CASE inner + 1 < NumInner /\ inner' = inner + 1 /\ bits' = bits
      BY <1>2, <1>3, <2>1, <2>3, <3>2, <3>3
    <3>4. CASE inner + 1 = NumInner /\ inner' = 0 /\ bits' = bits + 1
      <4> DEFINE x == bits * NumInner
      <4>1. Len(searched') = (x + inner) + 1 /\ x \in Nat /\ (bits + 1) * NumInner = x + NumInner
        BY <2>1, <2>3, <3>1, <3>2
      <4> HIDE DEF x
      <4>2. Len(searched') = (bits + 1) * NumInner
        BY <1>2, <1>3, <3>4, <4>1
      <4>3. (bits + 1) * NumInner \in Nat
        BY <1>3, <4>1
      <4> QED BY <3>4, <4>2, <4>3
    <3> QED BY <1>2, <3>3, <3>4
  <2>6. \A b \in 0 .. Span - 1, m \in 0 .. NumInner - 1 :
          Before(b, m)' <=> Before(b, m) \/ (b = bits /\ m = inner)
    BY <1>2, <1>3 DEF Before
  <2>7. bits \in 0 .. Span - 1 /\ inner \in 0 .. NumInner - 1
    BY <1>2, <1>3
  <2>8. \A x : x \in ToSet(searched') <=>
          \E b \in 0 .. Span - 1, m \in 0 .. NumInner - 1 : Before(b, m)' /\ x = <<JobOf(b), m>>
    BY <2>1, <2>4, <2>6, <2>7, Zenon
  <2>9. /\ pc' = "guess" => bits' < Span
        /\ pc' = "done" => bits' = Span /\ inner' = 0
    BY <1>2, <1>3
  <2>10. JobOf(bits)' = JobOf(bits') /\ \A b : JobOf(b)' = JobOf(b)
    BY DEF JobOf
  <2> QED BY <1>4, <2>3, <2>5, <2>8, <2>9, <2>10 DEF GuessInv
<1> QED BY <1>5, <1>6, <1>7, <1>8, <1>9, <1>10 DEF IInv

\* Nothing has been searched yet.
LEMMA Initially == Init => IInv
<1> SUFFICES ASSUME Init
             PROVE  IInv
  OBVIOUS
<1>1. /\ {Span, NumInner, NumKeys, MAX_KEYS, CounterSize} \subseteq Nat \ {0}
  BY Sizes
<1>2. /\ alg \in Algorithms /\ pc = "guess" /\ bits = 0 /\ inner = 0 /\ input \in Inputs /\ hit = 0
      /\ count = [k \in Keys |-> 0] /\ flag = FALSE /\ keys = <<>> /\ scan = 0 /\ todo = {}
      /\ candidates = <<>> /\ searched = <<>>
  BY DEF Init
<1>3. TypeOK
  <2>1. /\ count \in [Keys -> 0 .. CounterSize - 1] /\ bits \in 0 .. Span
        /\ inner \in 0 .. NumInner - 1 /\ hit \in Nat /\ scan \in Nat
        /\ keys \in Seq(Keys) /\ Len(keys) <= MAX_KEYS
    BY <1>1, <1>2
  <2>2. flag \in BOOLEAN
    BY <1>2, Zenon
  <2> QED BY <1>2, <2>1, <2>2 DEF TypeOK
<1>4. CountInv /\ ListInv /\ ScanInv /\ ReportsAreRight /\ ReportedOnce
  BY <1>2 DEF CountInv, ListInv, ScanInv, ReportsAreRight, ReportedOnce
<1>5. OrderInv
  <2>1. candidates \in Seq(Candidates) /\ \A n : n \notin 1 .. Len(candidates)
    BY <1>2
  <2> QED BY <2>1 DEF OrderInv, OfGuess
<1>6. GuessInv
  <2>1. /\ searched \in Seq(Nat \X Nat) /\ Len(searched) = bits * NumInner + inner
        /\ ToSet(searched) = {}
    BY <1>1, <1>2 DEF ToSet
  <2>2. \A b \in 0 .. Span - 1, m \in 0 .. NumInner - 1 : ~Before(b, m)
    BY <1>1, <1>2 DEF Before
  <2> QED BY <1>1, <1>2, <2>1, <2>2 DEF GuessInv
<1> QED BY <1>3, <1>4, <1>5, <1>6 DEF IInv

\* Every step keeps the invariant.
LEMMA Step ==
  ASSUME IInv, [Next]_vars
  PROVE  IInv'
<1>1. CASE Begin
  BY <1>1, BeginStep
<1>2. CASE CountAndFlag
  BY <1>2, CountAndFlagStep
<1>3. CASE CountAndList
  BY <1>3, CountAndListStep
<1>4. CASE EndCount
  BY <1>4, EndCountStep
<1>5. CASE Scan
  BY <1>5, ScanStep
<1>6. CASE Report
  BY <1>6, ReportStep
<1>7. CASE Reject
  BY <1>7, RejectStep
<1>8. CASE KeysOverrun \/ ListOverrun \/ OutOfMemory
  BY <1>8, StoppedStep
<1>9. CASE EndGuess
  BY <1>9, EndGuessStep
<1>10. CASE UNCHANGED vars
  <2>1. UNCHANGED <<alg, pc, bits, inner, input, hit, count, flag, keys, scan, todo, candidates,
                    searched>>
    BY <1>10 DEF vars
  <2>2. TypeOK'
    BY <2>1 DEF IInv, TypeOK
  <2>3. CountInv' /\ ListInv'
    BY <2>1 DEF IInv, CountInv, ListInv, Seen
  <2>4. OrderInv' /\ GuessInv' /\ OfGuess' = OfGuess
    BY <2>1 DEF IInv, OrderInv, OfGuess, GuessInv, Before
  <2>5. ScanInv'
    <3>1. /\ \A n : Turn(n)' = Turn(n)
          /\ ScanEnd' = ScanEnd /\ Turn(scan)' = Turn(scan)
          /\ \A m : Passes(m)' = Passes(m)
      BY <2>1 DEF Turn, Flagged, ScanEnd, Passes
    <3>2. \A c \in OfGuess : Seen(candidates[c].key[1])' = Seen(candidates[c].key[1])
      BY <2>1 DEF Seen
    <3> QED BY <2>1, <2>4, <3>1, <3>2 DEF IInv, ScanInv
  <2>6. ReportsAreRight' /\ ReportedOnce'
    BY <2>1, <2>4, ReportsKept
  <2> QED BY <2>2, <2>3, <2>4, <2>5, <2>6 DEF IInv
<1> QED BY <1>1, <1>2, <1>3, <1>4, <1>5, <1>6, <1>7, <1>8, <1>9, <1>10 DEF Next

\* At the end of a scan every key that must be reported has had its turn.
LEMMA AllReported == IInv => NoneMissed
<1> SUFFICES ASSUME IInv, Scanning, scan >= ScanEnd, NEW k \in MustReport
             PROVE  \E c \in OfGuess : candidates[c].key = k
  BY DEF NoneMissed
<1>1. /\ pc = "scan" /\ todo = {} /\ scan <= ScanEnd /\ hit = Len(input.hits)
      /\ \A m \in Keys : count[m] = Seen(m) % CounterSize
      /\ keys \in Seq(Keys)
  BY DEF Scanning, IInv, ScanInv, CountInv, TypeOK
<1>2. scan = ScanEnd /\ scan \in Nat
  <2>1. scan \in Nat /\ ScanEnd \in Nat
    BY Sizes DEF IInv, TypeOK, ScanEnd
  <2> QED BY <1>1, <2>1
<1>3. /\ k \in Keys \X Middle /\ Total(k[1]) >= tau1
      /\ alg = 3 => k[2] \in Flagged(k[1])
      /\ alg # 3 => k[2] = 0 /\ Total(k[1]) < CounterSize
  BY DEF MustReport
<1>4. Passes(k)
  <2>1. PICK b \in Rk7 : Occurrences(b, input.indicated[k]) >= tau2
    BY DEF MustReport
  <2>2. input.indicated[k] \in Seq(Rk7)
    BY <1>3, InputType DEF IInv
  <2> DEFINE r == ValidateRk8(input.indicated[k])
  <2>3. r.num \in Nat /\ Occurrences(b, input.indicated[k]) <= r.num
    BY <2>2, Validation
  <2>4. Occurrences(b, input.indicated[k]) \in Nat
    <3> DEFINE s == input.indicated[k]
    <3>1. Occurrences(b, s) = Number(s, Len(s), b)
      BY DEF Occurrences, Number
    <3>2. Len(s) \in Nat
      BY <2>2
    <3> HIDE DEF s
    <3>3. Number(s, Len(s), b) \in Nat
      BY <3>2, CountNext
    <3> QED BY <3>1, <3>3 DEF s
  <2> HIDE DEF r
  <2>5. r.num >= tau2
    BY <2>1, <2>3, <2>4, Sizes
  <2> QED BY <2>5 DEF Passes, r
<1>5. Seen(k[1]) = Total(k[1]) /\ Seen(k[1]) \in Nat
  BY <1>1, SeenType DEF IInv, Seen, Total, Occurrences
<1>6. \E n \in 1 .. scan : k \in Turn(n)
  <2>1. k = <<k[1], k[2]>> /\ k[1] \in Keys
    BY <1>3
  <2>2. CASE alg = 3
    <3>1. k[1] \in ToSet(keys)
      BY <1>1, <1>3, <1>5, <2>1, <2>2 DEF IInv, ListInv
    <3>2. PICK n \in 1 .. Len(keys) : keys[n] = k[1]
      BY <1>1, <3>1 DEF ToSet
    <3>3. n \in 1 .. scan
      BY <1>2, <2>2 DEF ScanEnd
    <3>4. k \in {keys[n]} \X Flagged(keys[n])
      BY <1>3, <2>1, <2>2, <3>2
    <3> QED BY <2>2, <3>3, <3>4 DEF Turn
  <2>3. CASE alg # 3
    <3>1. /\ CounterSize \in Nat \ {0} /\ NumKeys \in Nat
          /\ k[1] \in 0 .. NumKeys - 1
      BY <2>1, Sizes DEF Keys
    <3>2. count[k[1]] = Seen(k[1]) % CounterSize
      BY <1>1, <2>1
    <3>3. Seen(k[1]) % CounterSize = Seen(k[1])
      BY <1>3, <1>5, <2>3, <3>1, WrapAround
    <3>4. count[k[1]] >= tau1
      BY <1>3, <1>5, <3>2, <3>3
    <3>5. ScanEnd = NumKeys
      <4>1. flag
        BY <1>1, <2>1, <2>3, <3>4 DEF IInv, ListInv
      <4> QED BY <2>3, <4>1 DEF ScanEnd
    <3>6. k[1] + 1 \in 1 .. scan /\ (k[1] + 1) - 1 = k[1]
      BY <1>2, <3>1, <3>5
    <3>7. Turn(k[1] + 1) = {<<k[1], 0>>}
      BY <2>3, <3>4, <3>6 DEF Turn
    <3>8. k = <<k[1], 0>>
      BY <1>3, <2>1, <2>3
    <3> QED BY <3>6, <3>7, <3>8
  <2> QED BY <2>2, <2>3
<1>7. PICK n \in 1 .. scan : k \in Turn(n)
  BY <1>6
<1> QED BY <1>1, <1>4, <1>7 DEF IInv, ScanInv

\* The values of the outer loop are those with the fixed bits.
LEMMA FixedBitsOnly ==
  /\ \A b \in 0 .. Span - 1 : JobOf(b) \in 0 .. Span * Stride - 1 /\ JobOf(b) % Stride = FixedBits
  /\ \A v \in 0 .. Span * Stride - 1 : v % Stride = FixedBits =>
       \E b \in 0 .. Span - 1 : v = JobOf(b)
<1>1. Span \in Nat \ {0} /\ Stride \in Nat \ {0} /\ FixedBits \in 0 .. Stride - 1
  BY Sizes
<1>2. Span * Stride \in Nat
  BY <1>1
<1>3. \A b \in Nat : b * Stride \in Nat /\ b * Stride = Stride * b
  BY <1>1
<1>4. ASSUME NEW b \in Nat, b < Span
      PROVE  (b + 1) * Stride <= Span * Stride /\ (b + 1) * Stride = b * Stride + Stride
  BY <1>1, <1>4
<1>5. ASSUME NEW b \in Nat, ~(b < Span)
      PROVE  Span * Stride <= b * Stride
  BY <1>1, <1>5
<1>6. ASSUME NEW b \in 0 .. Span - 1
      PROVE  JobOf(b) \in 0 .. Span * Stride - 1 /\ JobOf(b) % Stride = FixedBits
  <2> DEFINE x == b * Stride
             y == Span * Stride
  <2>1. b \in Nat /\ b < Span /\ b \in Int
    BY <1>1
  <2>2. x \in Nat /\ x + Stride <= y /\ y \in Nat
    BY <1>2, <1>3, <1>4, <2>1
  <2>3. JobOf(b) = x + FixedBits /\ x = Stride * b
    BY <1>3, <2>1 DEF JobOf
  <2> HIDE DEF x, y
  <2>4. JobOf(b) \in 0 .. y - 1 /\ JobOf(b) \in Nat
    BY <1>1, <2>2, <2>3
  <2>5. JobOf(b) = Stride * b + FixedBits
    BY <2>3
  <2>6. JobOf(b) % Stride = FixedBits
    BY <1>1, <2>1, <2>4, <2>5, DivisionUnique, Zenon
  <2> QED BY <2>4, <2>6 DEF y
<1>7. ASSUME NEW v \in 0 .. Span * Stride - 1, v % Stride = FixedBits
      PROVE  \E b \in 0 .. Span - 1 : v = JobOf(b)
  <2>1. v \in Nat /\ v < Span * Stride
    BY <1>2
  <2>2. PICK b \in Nat, r \in 0 .. Stride - 1 : v = Stride * b + r /\ b = v \div Stride /\ r = v % Stride
    BY <1>1, <2>1, Division, Zenon
  <2> DEFINE x == b * Stride
             y == Span * Stride
  <2>3. x \in Nat /\ v = x + FixedBits /\ v < y /\ y \in Nat
    BY <1>2, <1>3, <1>7, <2>1, <2>2
  <2>4. ~(b < Span) => y <= x
    BY <1>5
  <2> HIDE DEF x, y
  <2>5. b < Span
    BY <1>1, <2>3, <2>4
  <2>6. b \in 0 .. Span - 1
    BY <1>1, <2>5
  <2>7. v = JobOf(b)
    BY <2>3 DEF JobOf, x
  <2> QED BY <2>6, <2>7
<1> QED BY <1>6, <1>7

\* When the attack is done the guesses searched are those of the job.
LEMMA AllCovered == IInv => Covered
<1> SUFFICES ASSUME IInv, pc = "done"
             PROVE  /\ ToSet(searched) = {v \in 0 .. Span * Stride - 1 : v % Stride = FixedBits}
                                         \X (0 .. NumInner - 1)
                    /\ Len(searched) = Span * NumInner
  BY DEF Covered
<1>1. /\ bits = Span /\ inner = 0 /\ Len(searched) = bits * NumInner + inner
      /\ \A x : x \in ToSet(searched) <=>
           \E b \in 0 .. Span - 1, m \in 0 .. NumInner - 1 : Before(b, m) /\ x = <<JobOf(b), m>>
  BY DEF IInv, GuessInv
<1>2. Span \in Nat /\ NumInner \in Nat
  BY Sizes
<1>3. Span * NumInner \in Nat
  BY <1>2
<1>4. Len(searched) = Span * NumInner
  BY <1>1, <1>3
<1> DEFINE V == {v \in 0 .. Span * Stride - 1 : v % Stride = FixedBits}
           M == 0 .. NumInner - 1
<1>5. \A b \in 0 .. Span - 1, m \in M : Before(b, m)
  BY <1>1, <1>2 DEF Before
<1>6. /\ \A b \in 0 .. Span - 1 : JobOf(b) \in V
      /\ \A v \in V : \E b \in 0 .. Span - 1 : v = JobOf(b)
  BY FixedBitsOnly
<1> HIDE DEF V, M
<1>7. ToSet(searched) \subseteq V \X M
  BY <1>1, <1>6 DEF M
<1>8. ASSUME NEW v \in V, NEW m \in M
      PROVE  <<v, m>> \in ToSet(searched)
  <2>1. PICK b \in 0 .. Span - 1 : v = JobOf(b)
    BY <1>6
  <2> QED BY <1>1, <1>5, <2>1 DEF M
<1>9. V \X M \subseteq ToSet(searched)
  BY <1>8
<1> QED BY <1>4, <1>7, <1>9 DEF V, M

-----------------------------------------------------------------------------
(* The theorems.                                                             *)

\* The invariant, for every input and size.
THEOREM Invariance == Spec => []IInv
<1>1. Init => IInv
  BY Initially
<1>2. IInv /\ [Next]_vars => IInv'
  BY Step
<1> QED BY <1>1, <1>2, PTL DEF Spec

\* The variables keep their types, counters their width, and a failed attack
\* returns no candidates.
THEOREM TypeCorrect == Spec => []TypeOK
<1>1. IInv => TypeOK
  BY DEF IInv
<1> QED BY <1>1, Invariance, PTL

\* What is reported reached the thresholds under its guess, and the byte of rk7
\* that validate_rk8 chose while it counted is one that most pairs indicate.
THEOREM ReportsCorrect == Spec => []ReportsAreRight
<1>1. IInv => ReportsAreRight
  BY DEF IInv
<1> QED BY <1>1, Invariance, PTL

\* A key is reported once, unless its counter wrapped around.
THEOREM NoneReportedTwice == Spec => []ReportedOnce
<1>1. IInv => ReportedOnce
  BY DEF IInv
<1> QED BY <1>1, Invariance, PTL

\* A guess that is done has reported every key that it must.
THEOREM NoKeyMissed == Spec => []NoneMissed
<1>1. IInv => NoneMissed
  BY AllReported
<1> QED BY <1>1, Invariance, PTL

\* An attack that is done has searched every value with the fixed bits, once.
THEOREM JobCovered == Spec => []Covered
<1>1. IInv => Covered
  BY AllCovered
<1> QED BY <1>1, Invariance, PTL
=============================================================================
