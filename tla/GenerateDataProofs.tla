-------------------------- MODULE GenerateDataProofs --------------------------
(*****************************************************************************)
(* Proofs about GenerateData, for any calendar, any division of the day into *)
(* bins and of the bin into slots, and any number of bins and calls: tweaks  *)
(* are of the calendar, bins follow each other, and calls of a bin, and no   *)
(* others, make pairs, as long as the bins do not go around the year.        *)
(*****************************************************************************)
EXTENDS GenerateData, FiniteSetTheorems, WellFoundedInduction, TLAPS

-----------------------------------------------------------------------------
(* Numbers.                                                                  *)

\* The natural numbers are well ordered.
LEMMA SmallestElement ==
  ASSUME NEW S \in SUBSET Nat, S # {}
  PROVE  \E n \in S : \A m \in S : n <= m
<1> DEFINE R == {p \in Nat \X Nat : p[1] < p[2]}
<1>1. IsWellFoundedOn(R, Nat)
  BY NatLessThanWellFounded DEF OpToRel
<1>2. \A m, n \in Nat : <<m, n>> \notin R => n <= m
  OBVIOUS
<1> HIDE DEF R
<1>3. \E n \in S : \A m \in S : <<m, n>> \notin R
  BY <1>1, WFMin
<1> QED BY <1>2, <1>3

\* A set with zero and with the successors of its elements has all of them:
\* induction, for a set.
LEMMA InductionOnSet ==
  ASSUME NEW P, 0 \in P, \A n \in Nat : n \in P => n + 1 \in P
  PROVE  Nat \subseteq P
<1> SUFFICES ASSUME Nat \ P # {}
             PROVE  FALSE
  OBVIOUS
<1>1. Nat \ P \in SUBSET Nat
  OBVIOUS
<1>2. PICK n \in Nat \ P : \A m \in Nat \ P : n <= m
  BY <1>1, SmallestElement
<1>3. n - 1 \in Nat /\ ~(n <= n - 1) /\ (n - 1) + 1 = n
  BY <1>2
<1>4. n - 1 \in P
  BY <1>2, <1>3
<1> QED BY <1>2, <1>3, <1>4

\* The quotient and the remainder of a number.
LEMMA Division ==
  ASSUME NEW x \in Int, NEW c \in Nat \ {0}
  PROVE  \E q \in Int : \E r \in 0 .. c - 1 : x = c * q + r /\ q = x \div c /\ r = x % c
OBVIOUS

\* A quotient and a remainder are the quotient and the remainder.
LEMMA DivisionUnique ==
  ASSUME NEW x \in Int, NEW c \in Nat \ {0}, NEW q \in Int, NEW r \in 0 .. c - 1, x = c * q + r
  PROVE  x \div c = q /\ x % c = r
<1> DEFINE d == x \div c
           m == x % c
<1>1. d \in Int /\ m \in 0 .. c - 1 /\ x = c * d + m
  OBVIOUS
<1> HIDE DEF d, m
<1>2. c * (q - d) = m - r
  BY <1>1
<1>3. -c < m - r /\ m - r < c
  BY <1>1
<1>4. \A y \in Int : y >= 1 => c * y >= c
  OBVIOUS
<1>5. \A y \in Int : y <= -1 => c * y <= -c
  OBVIOUS
<1>6. q - d \in Int
  BY <1>1
<1>7. ~(q - d >= 1) /\ ~(q - d <= -1)
  BY <1>2, <1>3, <1>4, <1>5, <1>6
<1>8. q = d
  BY <1>1, <1>6, <1>7
<1>9. r = m
  BY <1>1, <1>2, <1>8
<1> QED BY <1>8, <1>9 DEF d, m

\* The product of a number and a bound, and what is below it.
LEMMA Below ==
  ASSUME NEW n \in Nat, NEW c \in Nat \ {0}, NEW q \in Int, NEW r \in 0 .. c - 1
  PROVE  c * q + r \in 0 .. n * c - 1 <=> q \in 0 .. n - 1
<1>1. \A y \in Int : y >= 0 => c * y >= 0
  OBVIOUS
<1>2. \A y \in Int : y >= 1 => c * y >= c
  OBVIOUS
<1>3. \A y \in Int : y <= -1 => c * y <= -c
  OBVIOUS
<1>4. n * c - c * q = c * (n - q)
  OBVIOUS
<1>5. n - q \in Int /\ c * q \in Int /\ n * c \in Int
  OBVIOUS
<1>6. ASSUME q \in 0 .. n - 1
      PROVE  c * q + r \in 0 .. n * c - 1
  <2>1. c * q >= 0 /\ c * (n - q) >= c
    BY <1>1, <1>2, <1>6
  <2> QED
    BY <1>4, <1>5, <2>1
<1>7. ASSUME q <= -1
      PROVE  ~(c * q + r \in 0 .. n * c - 1)
  <2>1. c * q <= -c
    BY <1>3, <1>7
  <2> QED
    BY <1>5, <2>1
<1>8. ASSUME q >= n
      PROVE  ~(c * q + r \in 0 .. n * c - 1)
  <2>1. q - n >= 0 /\ c * (q - n) = c * q - n * c /\ q - n \in Int
    BY <1>8
  <2>2. c * (q - n) >= 0
    BY <1>1, <2>1
  <2> QED
    BY <1>5, <2>1, <2>2
<1> QED
  BY <1>6, <1>7, <1>8

\* The constants are positive, and there is a month.
LEMMA Positive ==
  /\ {MinutesPerBin, SlotsPerMinute, Seconds, BinsPerDay, LowestChannel, Channels,
      ChannelLimit, Half, MaxBins, MaxCallsigns} \subseteq Nat \ {0}
  /\ Seconds <= SlotsPerMinute
  /\ LowestChannel + Channels <= ChannelLimit
  /\ Len(Days) \in Nat \ {0}
  /\ \A m \in 1 .. Len(Days) : Days[m] \in Nat \ {0}
  /\ DOMAIN Days = 1 .. Len(Days)
  /\ DayMinutes \in Nat
<1>1. Days \in Seq(Nat \ {0}) /\ Days # <<>>
  BY GeneratorAssumption
<1>2. Len(Days) \in Nat \ {0} /\ DOMAIN Days = 1 .. Len(Days)
  BY <1>1
<1>3. \A m \in 1 .. Len(Days) : Days[m] \in Nat \ {0}
  BY <1>1, <1>2
<1> QED
  BY <1>2, <1>3, GeneratorAssumption DEF DayMinutes

-----------------------------------------------------------------------------
(* The calendar.                                                             *)

\* The sums of the first days of f's domain: what DaysBefore shall be, up to n.
IsSum(f, n) ==
  f = [m \in 1 .. n |-> IF m = 1 THEN 0 ELSE f[m - 1] + Days[m - 1]]

\* The recursive function is what its definition says, and its values are numbers.
LEMMA DaysBeforeIs ==
  /\ DaysBefore[1] = 0
  /\ \A m \in 1 .. Len(Days) : DaysBefore[m + 1] = DaysBefore[m] + Days[m]
  /\ \A m \in 1 .. Len(Days) + 1 : DaysBefore[m] \in Nat
<1> DEFINE D == Len(Days)
<1>1. D \in Nat \ {0} /\ \A m \in 1 .. D : Days[m] \in Nat \ {0}
  BY Positive
<1> HIDE DEF D
<1>2. \E f : IsSum(f, D + 1)
  <2> DEFINE P == {n \in Nat : n <= D => \E f : IsSum(f, n + 1)}
  <2>1. 0 \in P
    <3> DEFINE f == [m \in 1 .. 1 |-> 0]
    <3>1. f = [m \in 1 .. 1 |-> IF m = 1 THEN 0 ELSE f[m - 1] + Days[m - 1]]
      OBVIOUS
    <3> HIDE DEF f
    <3>2. IsSum(f, 1) /\ 0 + 1 = 1
      BY <3>1 DEF IsSum
    <3> QED
      BY <3>2
  <2>2. ASSUME NEW n \in Nat, n \in P
        PROVE  n + 1 \in P
    <3>1. SUFFICES ASSUME n + 1 <= D
                   PROVE  \E f : IsSum(f, (n + 1) + 1)
      OBVIOUS
    <3>2. n <= D
      BY <1>1, <3>1
    <3>3. PICK g : IsSum(g, n + 1)
      BY <2>2, <3>2
    <3> DEFINE f == [m \in 1 .. (n + 1) + 1 |-> IF m = 1 THEN 0 ELSE g[m - 1] + Days[m - 1]]
    <3>4. \A m \in 1 .. n + 1 : f[m] = g[m]
      <4>1. \A m \in 1 .. n + 1 : f[m] = IF m = 1 THEN 0 ELSE g[m - 1] + Days[m - 1]
        OBVIOUS
      <4>2. \A m \in 1 .. n + 1 : g[m] = IF m = 1 THEN 0 ELSE g[m - 1] + Days[m - 1]
        BY <3>3 DEF IsSum
      <4> QED
        BY <4>1, <4>2
    <3>5. \A m \in 1 .. (n + 1) + 1 : m # 1 => m - 1 \in 1 .. n + 1
      OBVIOUS
    <3>6. f = [m \in 1 .. (n + 1) + 1 |-> IF m = 1 THEN 0 ELSE f[m - 1] + Days[m - 1]]
      BY <3>4, <3>5
    <3> HIDE DEF f
    <3> QED
      BY <3>6 DEF IsSum
  <2> HIDE DEF P
  <2>3. D \in P
    BY <1>1, <2>1, <2>2, InductionOnSet
  <2> QED
    BY <1>1, <2>3 DEF P
<1>3. IsSum(DaysBefore, D + 1)
  <2>1. DaysBefore = CHOOSE f : IsSum(f, D + 1)
    BY DEF DaysBefore, IsSum, D
  <2> QED
    BY <1>2, <2>1
<1>4. /\ DaysBefore[1] = 0
      /\ \A m \in 1 .. D + 1 : m # 1 => DaysBefore[m] = DaysBefore[m - 1] + Days[m - 1]
  <2>1. \A m \in 1 .. D + 1 :
          DaysBefore[m] = IF m = 1 THEN 0 ELSE DaysBefore[m - 1] + Days[m - 1]
    BY <1>3 DEF IsSum
  <2>2. 1 \in 1 .. D + 1
    BY <1>1
  <2> QED
    BY <2>1, <2>2
<1>5. \A m \in 1 .. D : DaysBefore[m + 1] = DaysBefore[m] + Days[m]
  <2>1. \A m \in 1 .. D : m + 1 \in 1 .. D + 1 /\ m + 1 # 1 /\ (m + 1) - 1 = m
    BY <1>1
  <2> QED
    BY <1>4, <2>1
<1>6. \A m \in 1 .. D + 1 : DaysBefore[m] \in Nat
  <2> DEFINE P == {n \in Nat : n <= D => DaysBefore[n + 1] \in Nat}
  <2>1. 0 \in P
    <3>1. 0 + 1 = 1
      OBVIOUS
    <3> QED
      BY <1>4, <3>1
  <2>2. ASSUME NEW n \in Nat, n \in P
        PROVE  n + 1 \in P
    <3>1. SUFFICES ASSUME n + 1 <= D
                   PROVE  DaysBefore[(n + 1) + 1] \in Nat
      OBVIOUS
    <3>2. n + 1 \in 1 .. D /\ n <= D
      BY <1>1, <3>1
    <3>3. DaysBefore[n + 1] \in Nat /\ Days[n + 1] \in Nat
      BY <1>1, <2>2, <3>2
    <3>4. DaysBefore[(n + 1) + 1] = DaysBefore[n + 1] + Days[n + 1]
      BY <1>5, <3>2
    <3> QED
      BY <3>3, <3>4
  <2> HIDE DEF P
  <2>3. Nat \subseteq P
    BY <2>1, <2>2, InductionOnSet
  <2>4. ASSUME NEW m \in 1 .. D + 1
        PROVE  DaysBefore[m] \in Nat
    <3>1. m - 1 \in Nat /\ m - 1 <= D /\ (m - 1) + 1 = m
      BY <1>1
    <3>2. m - 1 \in P
      BY <2>3, <3>1
    <3> QED
      BY <3>1, <3>2 DEF P
  <2> QED
    BY <2>4
<1> QED
  BY <1>4, <1>5, <1>6 DEF D

\* A month ends before a later one begins.
LEMMA MonthsInOrder ==
  ASSUME NEW m \in 1 .. Len(Days), NEW n \in 1 .. Len(Days) + 1, m < n
  PROVE  DaysBefore[m] + Days[m] <= DaysBefore[n]
<1> DEFINE D == Len(Days)
           P == {k \in Nat : m + 1 + k <= D + 1 => DaysBefore[m] + Days[m] <= DaysBefore[m + 1 + k]}
<1>1. /\ D \in Nat \ {0} /\ \A a \in 1 .. D : Days[a] \in Nat \ {0}
      /\ \A a \in 1 .. D : DaysBefore[a + 1] = DaysBefore[a] + Days[a]
      /\ \A a \in 1 .. D + 1 : DaysBefore[a] \in Nat
  BY Positive, DaysBeforeIs
<1>2. m \in 1 .. D /\ n \in 1 .. D + 1
  OBVIOUS
<1> HIDE DEF D
<1>3. 0 \in P
  <2>1. m + 1 + 0 = m + 1 /\ DaysBefore[m + 1] = DaysBefore[m] + Days[m]
    BY <1>1, <1>2
  <2>2. DaysBefore[m] + Days[m] \in Nat
    <3>1. DaysBefore[m] \in Nat /\ Days[m] \in Nat
      BY <1>1, <1>2
    <3> QED
      BY <3>1
  <2>3. DaysBefore[m] + Days[m] <= DaysBefore[m + 1 + 0]
    BY <2>1, <2>2
  <2> QED
    BY <2>3
<1>4. ASSUME NEW k \in Nat, k \in P
      PROVE  k + 1 \in P
  <2>1. SUFFICES ASSUME m + 1 + (k + 1) <= D + 1
                 PROVE  DaysBefore[m] + Days[m] <= DaysBefore[m + 1 + (k + 1)]
    OBVIOUS
  <2> DEFINE a == m + 1 + k
  <2>2. a \in 1 .. D /\ a <= D + 1 /\ m + 1 + (k + 1) = a + 1
    BY <1>1, <1>2, <2>1
  <2>3. DaysBefore[m] + Days[m] <= DaysBefore[a]
    BY <1>4, <2>2
  <2> HIDE DEF a
  <2>4. DaysBefore[a + 1] = DaysBefore[a] + Days[a] /\ Days[a] \in Nat /\ DaysBefore[a] \in Nat
    BY <1>1, <2>2
  <2>5. DaysBefore[m] \in Nat /\ Days[m] \in Nat
    BY <1>1, <1>2
  <2>6. DaysBefore[m] + Days[m] <= DaysBefore[a + 1]
    BY <2>3, <2>4, <2>5
  <2> QED
    BY <2>2, <2>6
<1> HIDE DEF P
<1>5. Nat \subseteq P
  BY <1>3, <1>4, InductionOnSet
<1>6. n - (m + 1) \in Nat /\ m + 1 + (n - (m + 1)) = n /\ n <= D + 1
  BY <1>1, <1>2
<1>7. n - (m + 1) \in P
  BY <1>5, <1>6
<1> QED
  BY <1>6, <1>7 DEF P

\* The number in the year of bin c of day d of month m, and of bins in a year.
IndexOf(m, d, c) == (DaysBefore[m] + d - 1) * BinsPerDay + c
Year == DaysBefore[Len(Days) + 1] * BinsPerDay
DateOK(m, d, c) == m \in 1 .. Len(Days) /\ d \in 1 .. Days[m] /\ c \in 0 .. BinsPerDay - 1

\* The numbers that a date is made of.
LEMMA DateIs ==
  ASSUME NEW m, NEW d, NEW c, DateOK(m, d, c)
  PROVE  /\ Len(Days) \in Nat \ {0} /\ m \in 1 .. Len(Days) /\ d \in 1 .. Days[m]
         /\ Days[m] \in Nat /\ DaysBefore[m] \in Nat /\ DaysBefore[Len(Days) + 1] \in Nat
         /\ DaysBefore[m + 1] = DaysBefore[m] + Days[m]
<1>1. Len(Days) \in Nat \ {0} /\ \A n \in 1 .. Len(Days) : Days[n] \in Nat
  BY Positive
<1>2. m \in 1 .. Len(Days) /\ d \in 1 .. Days[m]
  BY DEF DateOK
<1>3. m \in 1 .. Len(Days) + 1 /\ Len(Days) + 1 \in 1 .. Len(Days) + 1
  BY <1>1, <1>2
<1> QED
  BY <1>1, <1>2, <1>3, DaysBeforeIs

\* The day of a date lies in the year.
LEMMA DayOfYear ==
  ASSUME NEW m, NEW d, NEW c, DateOK(m, d, c)
  PROVE  /\ DaysBefore[m] + d - 1 \in 0 .. DaysBefore[m + 1] - 1
         /\ DaysBefore[m] + d - 1 \in 0 .. DaysBefore[Len(Days) + 1] - 1
<1>1. /\ Len(Days) \in Nat \ {0} /\ m \in 1 .. Len(Days) /\ d \in 1 .. Days[m]
      /\ Days[m] \in Nat /\ DaysBefore[m] \in Nat /\ DaysBefore[Len(Days) + 1] \in Nat
      /\ DaysBefore[m + 1] = DaysBefore[m] + Days[m]
  BY DateIs
<1>2. Len(Days) + 1 \in 1 .. Len(Days) + 1 /\ m < Len(Days) + 1
  BY <1>1
<1>3. DaysBefore[m] + Days[m] <= DaysBefore[Len(Days) + 1]
  BY <1>1, <1>2, MonthsInOrder
<1> QED
  BY <1>1, <1>3

\* Its number, too.
LEMMA IndexRange ==
  ASSUME NEW m, NEW d, NEW c, DateOK(m, d, c)
  PROVE  IndexOf(m, d, c) \in 0 .. Year - 1 /\ Year \in Nat
<1> DEFINE q == DaysBefore[m] + d - 1
           n == DaysBefore[Len(Days) + 1]
<1>1. q \in 0 .. n - 1 /\ c \in 0 .. BinsPerDay - 1
  BY DayOfYear DEF DateOK
<1>2. BinsPerDay \in Nat \ {0} /\ n \in Nat
  BY Positive, DaysBeforeIs
<1>3. IndexOf(m, d, c) = q * BinsPerDay + c /\ Year = n * BinsPerDay
  BY DEF IndexOf, Year
<1> HIDE DEF q, n
<1>4. BinsPerDay * q + c \in 0 .. n * BinsPerDay - 1
  BY <1>1, <1>2, Below
<1>5. BinsPerDay * q = q * BinsPerDay /\ n * BinsPerDay \in Nat
  BY <1>1, <1>2
<1> QED
  BY <1>3, <1>4, <1>5

\* Dates with the same number are the same.
LEMMA IndexInjective ==
  ASSUME NEW m, NEW d, NEW c, DateOK(m, d, c), NEW n, NEW e, NEW b, DateOK(n, e, b),
         IndexOf(m, d, c) = IndexOf(n, e, b)
  PROVE  m = n /\ d = e /\ c = b
<1> DEFINE q == DaysBefore[m] + d - 1
           p == DaysBefore[n] + e - 1
<1>1. /\ q \in 0 .. DaysBefore[m + 1] - 1 /\ c \in 0 .. BinsPerDay - 1
      /\ p \in 0 .. DaysBefore[n + 1] - 1 /\ b \in 0 .. BinsPerDay - 1
  BY DayOfYear DEF DateOK
<1>2. BinsPerDay \in Nat \ {0}
  BY Positive
<1>3. q = p /\ c = b
  <2>1. q * BinsPerDay + c = p * BinsPerDay + b
    BY DEF IndexOf
  <2>2. q \in Nat /\ p \in Nat
    BY <1>1
  <2> HIDE DEF q, p
  <2> DEFINE x == BinsPerDay * q + c
  <2>3. x \in Int /\ x = BinsPerDay * q + c /\ x = BinsPerDay * p + b
    BY <1>1, <1>2, <2>1, <2>2
  <2> HIDE DEF x
  <2>4. q \in Int /\ p \in Int /\ c \in 0 .. BinsPerDay - 1 /\ b \in 0 .. BinsPerDay - 1
    BY <1>1, <2>2
  <2>5. x \div BinsPerDay = q /\ x % BinsPerDay = c
    BY <1>2, <2>3, <2>4, DivisionUnique, Zenon
  <2>6. x \div BinsPerDay = p /\ x % BinsPerDay = b
    BY <1>2, <2>3, <2>4, DivisionUnique, Zenon
  <2> QED
    BY <2>5, <2>6
<1>4. /\ m \in 1 .. Len(Days) /\ n \in 1 .. Len(Days) /\ Len(Days) \in Nat
      /\ d \in 1 .. Days[m] /\ e \in 1 .. Days[n] /\ Days[m] \in Nat /\ Days[n] \in Nat
      /\ DaysBefore[m] \in Nat /\ DaysBefore[n] \in Nat
  BY DateIs
<1>5. ~(m < n)
  <2>1. SUFFICES ASSUME m < n
                 PROVE  FALSE
    OBVIOUS
  <2>2. DaysBefore[m] + Days[m] <= DaysBefore[n]
    BY <1>4, <2>1, MonthsInOrder
  <2> QED
    BY <1>3, <1>4, <2>2
<1>6. ~(n < m)
  <2>1. SUFFICES ASSUME n < m
                 PROVE  FALSE
    OBVIOUS
  <2>2. DaysBefore[n] + Days[n] <= DaysBefore[m]
    BY <1>4, <2>1, MonthsInOrder
  <2> QED
    BY <1>3, <1>4, <2>2
<1>7. m = n
  BY <1>4, <1>5, <1>6
<1> QED
  BY <1>3, <1>4, <1>7

\* The day after, or the first of the next month, or of the year.
NextDay(m, d) ==
  IF d + 1 > Days[m] THEN IF m = Len(Days) THEN <<1, 1>> ELSE <<m + 1, 1>> ELSE <<m, d + 1>>

\* The next bin has the next number, the first after the last.
LEMMA IndexNext ==
  ASSUME NEW m, NEW d, NEW c, DateOK(m, d, c)
  PROVE  /\ c + 1 < BinsPerDay =>
              /\ DateOK(m, d, c + 1)
              /\ IndexOf(m, d, c + 1) = IndexOf(m, d, c) + 1
         /\ c + 1 >= BinsPerDay =>
              /\ DateOK(NextDay(m, d)[1], NextDay(m, d)[2], 0)
              /\ \/ IndexOf(NextDay(m, d)[1], NextDay(m, d)[2], 0) = IndexOf(m, d, c) + 1
                 \/ /\ IndexOf(m, d, c) + 1 = Year
                    /\ IndexOf(NextDay(m, d)[1], NextDay(m, d)[2], 0) = 0
<1> DEFINE D == Len(Days)
           B == BinsPerDay
<1>1. /\ D \in Nat \ {0} /\ B \in Nat \ {0}
      /\ \A a \in 1 .. D : Days[a] \in Nat \ {0}
      /\ DaysBefore[1] = 0
      /\ \A a \in 1 .. D : DaysBefore[a + 1] = DaysBefore[a] + Days[a]
      /\ \A a \in 1 .. D + 1 : DaysBefore[a] \in Nat
  BY Positive, DaysBeforeIs
<1>2. m \in 1 .. D /\ d \in 1 .. Days[m] /\ c \in 0 .. B - 1
  BY DEF DateOK
<1> DEFINE q == DaysBefore[m] + d - 1
<1>3. q \in Nat /\ IndexOf(m, d, c) = q * B + c
  BY <1>1, <1>2 DEF IndexOf
<1>4. CASE c + 1 < B
  <2>1. c + 1 \in 0 .. B - 1
    BY <1>1, <1>2, <1>4
  <2>2. IndexOf(m, d, c + 1) = q * B + (c + 1)
    BY DEF IndexOf
  <2> HIDE DEF q
  <2>3. q * B + (c + 1) = (q * B + c) + 1
    BY <1>1, <1>2, <1>3
  <2> QED
    BY <1>1, <1>2, <1>3, <1>4, <2>1, <2>2, <2>3 DEF DateOK
<1>5. CASE c + 1 >= B
  <2>1. c = B - 1
    BY <1>1, <1>2, <1>5
  <2>2. IndexOf(m, d, c) + 1 = (q + 1) * B
    <3> HIDE DEF q
    <3> QED
      BY <1>1, <1>3, <2>1
  <2>3. 0 \in 0 .. B - 1
    BY <1>1
  <2>4. CASE d + 1 <= Days[m]
    <3>1. NextDay(m, d) = <<m, d + 1>> /\ d + 1 \in 1 .. Days[m]
      BY <1>1, <1>2, <2>4 DEF NextDay
    <3>2. IndexOf(m, d + 1, 0) = (DaysBefore[m] + (d + 1) - 1) * B + 0
      BY DEF IndexOf
    <3>3. DaysBefore[m] + (d + 1) - 1 = q + 1
      BY <1>1, <1>2
    <3>4. IndexOf(m, d + 1, 0) = (q + 1) * B
      BY <1>1, <1>3, <3>2, <3>3
    <3>5. DateOK(m, d + 1, 0)
      BY <1>2, <2>3, <3>1 DEF DateOK
    <3> QED
      BY <1>5, <1>1, <1>2, <2>2, <3>1, <3>4, <3>5
  <2>5. CASE ~(d + 1 <= Days[m]) /\ m # D
    <3>1. NextDay(m, d) = <<m + 1, 1>> /\ m + 1 \in 1 .. D /\ d = Days[m]
      BY <1>1, <1>2, <2>5 DEF NextDay
    <3>2. IndexOf(m + 1, 1, 0) = (DaysBefore[m + 1] + 1 - 1) * B + 0
      BY DEF IndexOf
    <3>3. DaysBefore[m + 1] + 1 - 1 = q + 1
      BY <1>1, <1>2, <3>1
    <3>4. IndexOf(m + 1, 1, 0) = (q + 1) * B
      BY <1>1, <1>3, <3>2, <3>3
    <3>5. 1 \in 1 .. Days[m + 1]
      BY <1>1, <3>1
    <3>6. DateOK(m + 1, 1, 0)
      BY <2>3, <3>1, <3>5 DEF DateOK
    <3> QED
      BY <1>5, <1>1, <1>2, <2>2, <3>1, <3>4, <3>6
  <2>6. CASE ~(d + 1 <= Days[m]) /\ m = D
    <3>1. NextDay(m, d) = <<1, 1>> /\ 1 \in 1 .. D /\ d = Days[m]
      BY <1>1, <1>2, <2>6 DEF NextDay
    <3>2. IndexOf(1, 1, 0) = 0
      <4>1. DaysBefore[1] + 1 - 1 = 0
        BY <1>1
      <4>2. IndexOf(1, 1, 0) = (DaysBefore[1] + 1 - 1) * B + 0
        BY DEF IndexOf
      <4> QED
        BY <1>1, <4>1, <4>2
    <3>3. (q + 1) * B = Year
      <4>1. DaysBefore[D + 1] = q + 1
        <5>1. /\ DaysBefore[D + 1] = DaysBefore[D] + Days[D] /\ Days[D] \in Nat
              /\ DaysBefore[D] \in Nat
          BY <1>1, <1>2, <2>6
        <5> QED
          BY <2>6, <3>1, <5>1
      <4> QED
        BY <4>1 DEF Year
    <3>4. 1 \in 1 .. Days[1]
      BY <1>1, <3>1
    <3>5. DateOK(1, 1, 0)
      BY <2>3, <3>1, <3>4 DEF DateOK
    <3> QED
      BY <1>5, <1>1, <1>2, <2>2, <3>1, <3>2, <3>3, <3>5
  <2> QED
    BY <2>4, <2>5, <2>6
<1> QED
  BY <1>1, <1>2, <1>4, <1>5

-----------------------------------------------------------------------------
(* The inductive invariant.                                                  *)

\* The clock is in the calendar, and the frequency is one that a tweak has.
Valid ==
  /\ frequency \in 1 .. ChannelLimit - 1
  /\ month \in 1 .. Len(Days)
  /\ day \in 1 .. Days[month]
  /\ coarse_time \in 0 .. DayMinutes - 1

\* Until the first call is printed the clock may be out of the calendar, if a
\* random integer had no absolute value.
ClockInv ==
  /\ TypeOK
  /\ num_calls >= 2
  /\ pc \in {"load", "start"} => bin = 0 /\ call = 0 /\ slots = {} /\ ~extreme /\ output = {}
  /\ pc \in {"pick", "print"} => bin < num_bins /\ month \in 1 .. Len(Days)
  /\ pc = "print" =>
       /\ call < num_calls
       /\ Cardinality(slots) = call + 1
       /\ fine_time \in 0 .. Seconds - 1
  /\ pc = "format" => extreme
  /\ pc \in {"pick", "print", "done"} /\ (~extreme \/ bin > 0 \/ call > 0) => Valid

\* The slot of the bin that a time is in, and a line's number of the bin.
SlotOf(coarse, fine) == (coarse % MinutesPerBin) * SlotsPerMinute + fine
IndexOfLine(l) == IndexOf(l.month, l.day, l.coarse_time \div MinutesPerBin)

\* The lines are of the calendar, in pairs, of slots that are taken, and as
\* many bins before the clock as they were printed before.
LinesInv ==
  /\ \A l \in output :
       /\ l \in [bin : 0 .. bin, month : Nat, day : Nat, coarse_time : Nat,
                 fine_time : Nat, word : {0, 1}]
       /\ l.bin < num_bins
       /\ DateOK(l.month, l.day, l.coarse_time \div MinutesPerBin)
       /\ [l EXCEPT !.word = 1 - l.word] \in output
       /\ l.bin = bin => SlotOf(l.coarse_time, l.fine_time) \in slots
       /\ IndexOfLine(l) + (bin - l.bin) \in {BinOfYear, BinOfYear + Year}
  /\ pc = "print" =>
       /\ SlotOf(coarse_time, fine_time) \in slots
       /\ \A l \in output :
            l.bin = bin => SlotOf(l.coarse_time, l.fine_time) # SlotOf(coarse_time, fine_time)
  /\ IsFiniteSet(output)
  /\ Cardinality(output) = 2 * (bin * num_calls + call)

\* The bins do not go around the year: a hypothesis, where it is needed.
WithinAYear == MaxBins <= Year

-----------------------------------------------------------------------------
(* The clock.                                                                *)

\* A random integer reduced is a remainder, unless it has no absolute value.
LEMMA ReducedIs ==
  ASSUME NEW x \in Random, NEW n \in Nat \ {0}
  PROVE  /\ Reduced(x, n) \in Int
         /\ x # -Half => Reduced(x, n) \in 0 .. n - 1
<1>1. Half \in Nat \ {0} /\ x \in Int /\ -Half <= x /\ x <= Half - 1
  BY Positive DEF Random
<1>2. Abs(x) \in Int /\ (x # -Half => Abs(x) \in Nat)
  BY <1>1 DEF Abs
<1>3. \A y \in Nat : y % n \in 0 .. n - 1
  OBVIOUS
<1>4. \A y \in Int : Remainder(y, n) \in Int /\ (y >= 0 => Remainder(y, n) \in 0 .. n - 1)
  <2>1. ASSUME NEW y \in Int, y >= 0
        PROVE  Remainder(y, n) \in 0 .. n - 1
    <3>1. Remainder(y, n) = y % n
      BY <2>1 DEF Remainder
    <3> QED
      BY <1>3, <2>1, <3>1
  <2>2. ASSUME NEW y \in Int, ~(y >= 0)
        PROVE  Remainder(y, n) \in Int
    <3>1. -y \in Nat /\ Remainder(y, n) = -((-y) % n)
      BY <2>2 DEF Remainder
    <3>2. (-y) % n \in Int
      BY <1>3, <3>1
    <3> QED
      BY <3>1, <3>2
  <2> QED
    BY <2>1, <2>2
<1> QED
  BY <1>2, <1>4 DEF Reduced

\* The bin of a time and the minute in it.
LEMMA ClockParts ==
  ASSUME NEW c \in Int
  PROVE  /\ c \div MinutesPerBin \in Int
         /\ c \in 0 .. DayMinutes - 1 => c \div MinutesPerBin \in 0 .. BinsPerDay - 1
         /\ c % MinutesPerBin \in 0 .. MinutesPerBin - 1
         /\ c - (c % MinutesPerBin) = MinutesPerBin * (c \div MinutesPerBin)
<1>1. MinutesPerBin \in Nat \ {0} /\ BinsPerDay \in Nat
  BY Positive
<1>2. PICK q \in Int, r \in 0 .. MinutesPerBin - 1 :
        c = MinutesPerBin * q + r /\ q = c \div MinutesPerBin /\ r = c % MinutesPerBin
  BY <1>1, Division
<1>3. c \in 0 .. DayMinutes - 1 => q \in 0 .. BinsPerDay - 1
  BY <1>1, <1>2, Below DEF DayMinutes
<1>4. (MinutesPerBin * q + r) - r = MinutesPerBin * q
  BY <1>1, <1>2
<1> QED
  BY <1>2, <1>3, <1>4

\* The time that has a given bin and minute.
LEMMA ClockSet ==
  ASSUME NEW q \in Int, NEW r \in 0 .. MinutesPerBin - 1
  PROVE  /\ q \in 0 .. BinsPerDay - 1 => MinutesPerBin * q + r \in 0 .. DayMinutes - 1
         /\ (MinutesPerBin * q + r) \div MinutesPerBin = q
         /\ (MinutesPerBin * q + r) % MinutesPerBin = r
<1>1. MinutesPerBin \in Nat \ {0} /\ BinsPerDay \in Nat
  BY Positive
<1> DEFINE x == MinutesPerBin * q + r
<1>2. x \in Int /\ x = MinutesPerBin * q + r
  BY <1>1
<1>3. q \in 0 .. BinsPerDay - 1 => x \in 0 .. DayMinutes - 1
  BY <1>1, Below DEF DayMinutes
<1> HIDE DEF x
<1>4. x \div MinutesPerBin = q /\ x % MinutesPerBin = r
  BY <1>1, <1>2, DivisionUnique, Zenon
<1> QED
  BY <1>2, <1>3, <1>4

\* The minute and the second of a slot, which give the slot.
LEMMA SlotParts ==
  ASSUME NEW slot \in Slots
  PROVE  /\ slot \div SlotsPerMinute \in 0 .. MinutesPerBin - 1
         /\ slot % SlotsPerMinute \in 0 .. SlotsPerMinute - 1
         /\ slot = (slot \div SlotsPerMinute) * SlotsPerMinute + (slot % SlotsPerMinute)
<1>1. SlotsPerMinute \in Nat \ {0} /\ MinutesPerBin \in Nat /\ slot \in Nat
  BY Positive DEF Slots
<1>2. PICK q \in Int, r \in 0 .. SlotsPerMinute - 1 :
        slot = SlotsPerMinute * q + r /\ q = slot \div SlotsPerMinute /\ r = slot % SlotsPerMinute
  BY <1>1, Division
<1>3. SlotsPerMinute * q + r \in 0 .. MinutesPerBin * SlotsPerMinute - 1
  BY <1>2 DEF Slots
<1>4. q \in 0 .. MinutesPerBin - 1
  BY <1>1, <1>2, <1>3, Below
<1>5. SlotsPerMinute * q = q * SlotsPerMinute
  BY <1>1, <1>2
<1> QED
  BY <1>2, <1>4, <1>5

\* The slots of a bin are finitely many.
LEMMA SlotsFinite == \A S \in SUBSET Slots : IsFiniteSet(S) /\ Cardinality(S) \in Nat
<1>1. MinutesPerBin * SlotsPerMinute - 1 \in Int
  BY Positive
<1>2. IsFiniteSet(Slots)
  BY <1>1, FS_Interval DEF Slots
<1> QED
  BY <1>2, FS_Subset, FS_CardinalityType

\* The first time.
LEMMA StartTimeKeepsClock ==
  ASSUME ClockInv, StartTime
  PROVE  ClockInv'
<1>1. PICK m \in Random, d \in Random, c \in Random, f \in Random :
        /\ extreme' = (-Half \in {m, d, c, f})
        /\ month' = Reduced(m, Len(Days)) + 1
        /\ \/ /\ month' \in DOMAIN Days
              /\ day' = Reduced(d, Days[month']) + 1
              /\ coarse_time' = Reduced(c, BinsPerDay) * MinutesPerBin
              /\ frequency' = Reduced(f, Channels) + LowestChannel
              /\ pc' = "pick"
           \/ /\ month' \notin DOMAIN Days
              /\ pc' = "undefined"
              /\ UNCHANGED <<frequency, day, coarse_time>>
  BY DEF StartTime
<1>2. /\ pc = "start"
      /\ UNCHANGED <<num_bins, num_calls, readable, num_callsigns, fine_time, bin, call, slots,
                     output>>
  BY DEF StartTime, arguments
<1>3. /\ TypeOK /\ num_calls >= 2
      /\ bin = 0 /\ call = 0 /\ slots = {}
  BY <1>2 DEF ClockInv
<1>4. /\ Len(Days) \in Nat \ {0} /\ BinsPerDay \in Nat \ {0} /\ MinutesPerBin \in Nat \ {0}
      /\ Channels \in Nat \ {0} /\ LowestChannel \in Nat \ {0} /\ ChannelLimit \in Nat
      /\ LowestChannel + Channels <= ChannelLimit
      /\ DOMAIN Days = 1 .. Len(Days) /\ \A n \in 1 .. Len(Days) : Days[n] \in Nat \ {0}
  BY Positive
<1>5. extreme' \in BOOLEAN
  <2>1. (-Half \in {m, d, c, f}) \in BOOLEAN
    OBVIOUS
  <2> QED
    BY <1>1, <2>1
<1>6. month' \in Int
  <2>1. Reduced(m, Len(Days)) \in Int
    BY <1>4, ReducedIs
  <2> QED
    BY <1>1, <2>1
<1>7. num_bins \in 1 .. MaxBins /\ num_bins \in Nat \ {0}
  BY <1>3, Positive DEF TypeOK
<1>8. CASE month' \notin DOMAIN Days
  <2>1. pc' = "undefined" /\ UNCHANGED <<frequency, day, coarse_time>>
    BY <1>1, <1>8
  <2>2. TypeOK'
    BY <1>2, <1>3, <1>5, <1>6, <2>1 DEF TypeOK, Ends
  <2> QED
    BY <1>2, <1>3, <2>1, <2>2 DEF ClockInv
<1>9. CASE month' \in DOMAIN Days
  <2>1. /\ day' = Reduced(d, Days[month']) + 1
        /\ coarse_time' = Reduced(c, BinsPerDay) * MinutesPerBin
        /\ frequency' = Reduced(f, Channels) + LowestChannel
        /\ pc' = "pick"
        /\ month' \in 1 .. Len(Days) /\ Days[month'] \in Nat \ {0}
    BY <1>1, <1>4, <1>9
  <2>2. Reduced(d, Days[month']) \in Int /\ Reduced(c, BinsPerDay) \in Int
       /\ Reduced(f, Channels) \in Int
    BY <1>4, <2>1, ReducedIs
  <2>3. day' \in Int /\ coarse_time' \in Int /\ frequency' \in Int
    BY <1>4, <2>1, <2>2
  <2>4. TypeOK'
    BY <1>2, <1>3, <1>5, <1>6, <2>1, <2>3, FS_EmptySet DEF TypeOK
  <2>5. ASSUME ~extreme'
        PROVE  Valid'
    <3>1. d # -Half /\ c # -Half /\ f # -Half
      BY <1>1, <2>5
    <3>2. Reduced(d, Days[month']) \in 0 .. Days[month'] - 1
      BY <2>1, <3>1, ReducedIs
    <3>3. day' \in 1 .. Days[month']
      BY <2>1, <3>2
    <3>4. Reduced(c, BinsPerDay) \in 0 .. BinsPerDay - 1
      BY <1>4, <3>1, ReducedIs
    <3>5. 0 \in 0 .. MinutesPerBin - 1
      BY <1>4
    <3>6. MinutesPerBin * Reduced(c, BinsPerDay) + 0 \in 0 .. DayMinutes - 1
      BY <3>4, <3>5, ClockSet
    <3>7. coarse_time' \in 0 .. DayMinutes - 1
      BY <1>4, <2>1, <2>2, <3>6
    <3>8. Reduced(f, Channels) \in 0 .. Channels - 1
      BY <1>4, <3>1, ReducedIs
    <3>9. frequency' \in 1 .. ChannelLimit - 1
      BY <1>4, <2>1, <3>8
    <3> QED
      BY <2>1, <3>3, <3>7, <3>9 DEF Valid
  <2>6. bin' < num_bins' /\ ~(bin' > 0) /\ ~(call' > 0)
    BY <1>2, <1>3, <1>7
  <2> QED
    BY <1>2, <1>3, <2>1, <2>4, <2>5, <2>6 DEF ClockInv
<1> QED
  BY <1>8, <1>9

\* A slot.
LEMMA PickSlotKeepsClock ==
  ASSUME ClockInv, PickSlot
  PROVE  ClockInv'
<1>1. PICK slot \in Slots :
        /\ Fits(slot)
        /\ slots' = slots \cup {slot}
        /\ coarse_time' = coarse_time - (coarse_time % MinutesPerBin) + slot \div SlotsPerMinute
        /\ fine_time' = slot % SlotsPerMinute
  BY DEF PickSlot
<1>2. /\ pc = "pick" /\ call < num_calls /\ pc' = "print"
      /\ UNCHANGED <<num_bins, num_calls, readable, num_callsigns, frequency, month, day, bin,
                     call, output, extreme>>
  BY DEF PickSlot, arguments
<1>3. /\ TypeOK /\ num_calls >= 2 /\ bin < num_bins /\ month \in 1 .. Len(Days)
      /\ ~extreme \/ bin > 0 \/ call > 0 => Valid
  BY <1>2 DEF ClockInv
<1>4. slots \subseteq Slots /\ Cardinality(slots) = call /\ call \in 0 .. num_calls /\ num_calls \in Nat
  BY <1>2, <1>3 DEF TypeOK
<1>5. slots' \subseteq Slots /\ Cardinality(slots') = call + 1
  BY <1>1, <1>4, SlotsFinite, FS_AddElement DEF Fits
<1>6. /\ slot \div SlotsPerMinute \in 0 .. MinutesPerBin - 1
      /\ slot % SlotsPerMinute \in 0 .. SlotsPerMinute - 1
  BY SlotParts
<1>7. fine_time' \in 0 .. Seconds - 1
  <2>1. slot % SlotsPerMinute < Seconds /\ Seconds \in Nat
    BY <1>1, Positive DEF Fits
  <2> QED
    BY <1>1, <1>6, <2>1
<1>8. coarse_time' \in Int
  <2>1. coarse_time \in Int /\ MinutesPerBin \in Nat \ {0}
    BY <1>3, Positive DEF TypeOK
  <2>2. coarse_time % MinutesPerBin \in Int
    BY <2>1
  <2> QED
    BY <1>1, <1>6, <2>1, <2>2
<1>9. TypeOK'
  <2>1. call' \in 0 .. num_calls' /\ call + 1 \in call .. call + 1 /\ fine_time' \in Int
    BY <1>2, <1>4, <1>7
  <2>2. Cardinality(slots') \in call' .. call' + 1
    BY <1>2, <1>5, <2>1
  <2> QED
    BY <1>2, <1>3, <1>5, <1>8, <2>1, <2>2 DEF TypeOK
<1>10. ASSUME Valid
       PROVE  Valid'
  <2>1. coarse_time \in 0 .. DayMinutes - 1
    BY <1>10 DEF Valid
  <2>2. /\ coarse_time \div MinutesPerBin \in 0 .. BinsPerDay - 1
        /\ coarse_time' = MinutesPerBin * (coarse_time \div MinutesPerBin) + slot \div SlotsPerMinute
    BY <1>1, <2>1, ClockParts
  <2>3. coarse_time' \in 0 .. DayMinutes - 1
    BY <1>6, <2>2, ClockSet
  <2> QED
    BY <1>2, <1>10, <2>3 DEF Valid
<1> QED
  BY <1>2, <1>3, <1>5, <1>7, <1>9, <1>10 DEF ClockInv

\* A call is printed: the clock is in the calendar.
LEMMA PrintCallKeepsClock ==
  ASSUME ClockInv, PrintCall
  PROVE  ClockInv' /\ Valid /\ Valid'
<1>1. /\ pc = "print" /\ Compliant /\ call' = call + 1 /\ pc' = "pick"
      /\ UNCHANGED <<num_bins, num_calls, readable, num_callsigns, frequency, month, day,
                     coarse_time, fine_time, bin, slots, extreme>>
  BY DEF PrintCall, arguments, time
<1>2. /\ TypeOK /\ num_calls >= 2 /\ bin < num_bins
      /\ call < num_calls /\ Cardinality(slots) = call + 1
  BY <1>1 DEF ClockInv
<1>3. Valid /\ Valid'
  BY <1>1, Positive DEF Compliant, Valid
<1>4. call \in Nat /\ num_calls \in Nat
  BY <1>2 DEF TypeOK
<1>5. call' \in 0 .. num_calls' /\ Cardinality(slots') = call' /\ call' \in call' .. call' + 1
  BY <1>1, <1>2, <1>4
<1>6. TypeOK'
  BY <1>1, <1>2, <1>5 DEF TypeOK
<1> QED
  BY <1>1, <1>2, <1>3, <1>6 DEF ClockInv, Valid

\* The next bin: the clock is in the calendar, its number the next.
LEMMA NextBinAdvances ==
  ASSUME ClockInv, NextBin
  PROVE  /\ Valid /\ Valid'
         /\ coarse_time' % MinutesPerBin = 0
         /\ \/ BinOfYear' = BinOfYear + 1
            \/ BinOfYear + 1 = Year /\ BinOfYear' = 0
<1> DEFINE q == coarse_time \div MinutesPerBin
           minutes == coarse_time - (coarse_time % MinutesPerBin) + MinutesPerBin
           next == NextDay(month, day)
<1>1. /\ pc = "pick" /\ call = num_calls
      /\ coarse_time' = IF Midnight(minutes) THEN 0 ELSE minutes
      /\ day' = IF Midnight(minutes) /\ MonthEnd(day + 1) THEN 1
                ELSE IF Midnight(minutes) THEN day + 1 ELSE day
      /\ month' = IF Midnight(minutes) /\ MonthEnd(day + 1) THEN (month % Len(Days)) + 1 ELSE month
      /\ frequency' = frequency
  BY DEF NextBin
<1>2. TypeOK /\ num_calls >= 2 /\ (call > 0 => Valid)
  BY <1>1 DEF ClockInv
<1>3. Valid
  BY <1>1, <1>2 DEF TypeOK
<1>4. /\ month \in 1 .. Len(Days) /\ day \in 1 .. Days[month]
      /\ coarse_time \in 0 .. DayMinutes - 1
      /\ frequency' \in 1 .. ChannelLimit - 1
  BY <1>1, <1>3 DEF Valid
<1>5. /\ q \in 0 .. BinsPerDay - 1
      /\ coarse_time - (coarse_time % MinutesPerBin) = MinutesPerBin * q
  BY <1>4, ClockParts
<1>6. /\ MinutesPerBin \in Nat \ {0} /\ BinsPerDay \in Nat \ {0} /\ Len(Days) \in Nat \ {0}
      /\ Days[month] \in Nat \ {0} /\ 0 \in 0 .. MinutesPerBin - 1
  BY <1>4, Positive
<1>7. DateOK(month, day, q) /\ BinOfYear = IndexOf(month, day, q)
  BY <1>4, <1>5 DEF DateOK, BinOfYear, IndexOf
<1> HIDE DEF q
<1>8. minutes = MinutesPerBin * (q + 1) + 0
  BY <1>5, <1>6
<1> HIDE DEF minutes
<1>9. Midnight(minutes) <=> q + 1 >= BinsPerDay
  <2>1. minutes \in 0 .. BinsPerDay * MinutesPerBin - 1 <=> q + 1 \in 0 .. BinsPerDay - 1
    BY <1>5, <1>6, <1>8, Below
  <2>2. minutes \in Nat /\ BinsPerDay * MinutesPerBin \in Nat
    BY <1>5, <1>6, <1>8
  <2>3. minutes >= BinsPerDay * MinutesPerBin <=> ~(minutes \in 0 .. BinsPerDay * MinutesPerBin - 1)
    BY <2>2
  <2> QED
    BY <1>5, <1>6, <2>1, <2>3 DEF Midnight, DayMinutes
<1>10. CASE q + 1 < BinsPerDay
  <2>1. ~Midnight(minutes)
    BY <1>5, <1>6, <1>9, <1>10
  <2>2. month' = month /\ day' = day /\ coarse_time' = MinutesPerBin * (q + 1) + 0
    BY <1>1, <1>8, <2>1
  <2>3. /\ DateOK(month, day, q + 1)
        /\ IndexOf(month, day, q + 1) = IndexOf(month, day, q) + 1
    BY <1>7, <1>10, IndexNext
  <2>4. q + 1 \in 0 .. BinsPerDay - 1
    BY <2>3 DEF DateOK
  <2>5. /\ coarse_time' \in 0 .. DayMinutes - 1
        /\ coarse_time' \div MinutesPerBin = q + 1
        /\ coarse_time' % MinutesPerBin = 0
    <3>1. q + 1 \in Int
      BY <1>5
    <3> QED
      BY <1>6, <2>2, <2>4, <3>1, ClockSet
  <2>6. BinOfYear' = IndexOf(month, day, q + 1)
    BY <2>2, <2>5 DEF BinOfYear, IndexOf
  <2>7. Valid'
    BY <1>4, <2>2, <2>5 DEF Valid
  <2> QED
    BY <1>3, <1>7, <2>3, <2>5, <2>6, <2>7
<1>11. CASE q + 1 >= BinsPerDay
  <2>1. Midnight(minutes) /\ coarse_time' = 0
    BY <1>1, <1>9, <1>11
  <2>2. month' = next[1] /\ day' = next[2]
    <3>1. month # Len(Days) => month % Len(Days) = month
      BY <1>4, <1>6
    <3>2. month = Len(Days) => month % Len(Days) = 0
      BY <1>6
    <3>3. CASE day + 1 > Days[month]
      BY <1>1, <1>4, <1>6, <2>1, <3>1, <3>2, <3>3 DEF MonthEnd, NextDay
    <3>4. CASE ~(day + 1 > Days[month])
      BY <1>1, <2>1, <3>4 DEF MonthEnd, NextDay
    <3> QED
      BY <3>3, <3>4
  <2> HIDE DEF next
  <2>3. /\ DateOK(next[1], next[2], 0)
        /\ \/ IndexOf(next[1], next[2], 0) = IndexOf(month, day, q) + 1
           \/ IndexOf(month, day, q) + 1 = Year /\ IndexOf(next[1], next[2], 0) = 0
    BY <1>7, <1>11, IndexNext DEF next
  <2>4. 0 \div MinutesPerBin = 0 /\ 0 % MinutesPerBin = 0 /\ 0 \in 0 .. DayMinutes - 1
    <3>1. MinutesPerBin * 0 + 0 = 0 /\ 0 \in 0 .. BinsPerDay - 1
      BY <1>6
    <3> QED
      BY <1>6, <3>1, ClockSet
  <2>5. BinOfYear' = IndexOf(next[1], next[2], 0)
    BY <2>1, <2>2, <2>4 DEF BinOfYear, IndexOf
  <2>6. Valid'
    BY <1>4, <2>1, <2>2, <2>3, <2>4 DEF Valid, DateOK
  <2> QED
    BY <1>3, <1>7, <2>1, <2>3, <2>4, <2>5, <2>6
<1> QED
  BY <1>5, <1>6, <1>10, <1>11

\* And the rest of the clock's invariant.
LEMMA NextBinKeepsClock ==
  ASSUME ClockInv, NextBin
  PROVE  ClockInv'
<1>1. /\ pc = "pick" /\ call = num_calls
      /\ bin' = bin + 1 /\ call' = 0 /\ slots' = {}
      /\ pc' = IF bin + 1 < num_bins THEN "pick" ELSE "done"
      /\ UNCHANGED <<num_bins, num_calls, readable, num_callsigns, frequency, fine_time, output,
                     extreme>>
  BY DEF NextBin, FreshSlots, arguments
<1>2. TypeOK /\ num_calls >= 2 /\ bin < num_bins
  BY <1>1 DEF ClockInv
<1>3. Valid'
  BY NextBinAdvances
<1>4. bin \in Nat /\ num_bins \in Nat /\ num_calls \in Nat
  BY <1>2, Positive DEF TypeOK
<1>5. bin' \in 0 .. num_bins' /\ call' \in 0 .. num_calls' /\ 0 \in 0 .. 0 + 1
  BY <1>1, <1>2, <1>4
<1>6. month' \in Int /\ day' \in Int /\ coarse_time' \in Int /\ frequency' \in Int
  BY <1>3, Positive DEF Valid
<1>7. TypeOK'
  BY <1>1, <1>2, <1>5, <1>6, FS_EmptySet DEF TypeOK, Ends
<1>8. pc' \in {"pick", "print"} => bin' < num_bins' /\ month' \in 1 .. Len(Days)
  BY <1>1, <1>3 DEF Valid
<1> QED
  BY <1>1, <1>2, <1>3, <1>7, <1>8 DEF ClockInv, Valid

\* The clock's invariant, for any calendar.
THEOREM ClockInvariance == Spec => []ClockInv
<1>1. Init => ClockInv
  <2> SUFFICES ASSUME Init
               PROVE  ClockInv
    OBVIOUS
  <2>1. num_bins \in 1 .. MaxBins /\ num_bins \in Nat
    BY Positive DEF Init
  <2>2. num_calls \in Nat /\ num_calls >= 2
    BY Positive DEF Init
  <2>3. TypeOK
    <3>1. bin \in 0 .. num_bins /\ call \in 0 .. num_calls
      BY <2>1, <2>2 DEF Init
    <3>2. slots \subseteq Slots /\ Cardinality(slots) = call /\ call \in call .. call + 1
      BY FS_EmptySet DEF Init
    <3>3. {frequency, month, day, coarse_time, fine_time} \subseteq Int /\ num_callsigns \in Nat
      BY DEF Init
    <3>4. readable \in BOOLEAN /\ extreme \in BOOLEAN /\ pc = "load" /\ num_bins \in 1 .. MaxBins
      BY Zenon DEF Init
    <3> QED
      BY <2>2, <3>1, <3>2, <3>3, <3>4 DEF TypeOK
  <2> QED
    BY <2>2, <2>3 DEF Init, ClockInv
<1>2. ClockInv /\ [Next]_vars => ClockInv'
  <2> SUFFICES ASSUME ClockInv, [Next]_vars
               PROVE  ClockInv'
    OBVIOUS
  <2>1. TypeOK
    BY DEF ClockInv
  <2>2. CASE LoadCallsigns
    <3>1. /\ pc = "load" /\ pc' = "start" /\ num_callsigns' \in 0 .. MaxCallsigns
          /\ UNCHANGED <<num_bins, num_calls, readable, frequency, month, day, coarse_time,
                         fine_time, bin, call, slots, output, extreme>>
      BY <2>2 DEF LoadCallsigns, arguments, time
    <3>2. num_callsigns' \in Nat
      BY <3>1, Positive
    <3>3. TypeOK'
      BY <2>1, <3>1, <3>2 DEF TypeOK
    <3> QED
      BY <3>1, <3>3 DEF ClockInv
  <2>3. CASE StartTime
    BY <2>3, StartTimeKeepsClock
  <2>4. CASE PickSlot
    BY <2>4, PickSlotKeepsClock
  <2>5. CASE PrintCall
    BY <2>5, PrintCallKeepsClock
  <2>6. CASE NextBin
    BY <2>6, NextBinKeepsClock
  <2>7. CASE FormatError
    <3>1. /\ pc = "print" /\ ~Compliant /\ pc' = "format"
          /\ UNCHANGED <<num_bins, num_calls, readable, num_callsigns, frequency, month, day,
                         coarse_time, fine_time, bin, call, slots, output, extreme>>
      BY <2>7 DEF FormatError, arguments, time
    <3>2. TypeOK'
      BY <2>1, <3>1 DEF TypeOK, Ends
    <3>3. extreme
      BY <3>1, Positive DEF ClockInv, Valid, Compliant
    <3> QED
      BY <3>1, <3>2, <3>3 DEF ClockInv
  <2>8. CASE NoCallsigns \/ Fails
    <3>1. /\ pc' \in {"undefined", "failed"}
          /\ UNCHANGED <<num_bins, num_calls, readable, num_callsigns, frequency, month, day,
                         coarse_time, fine_time, bin, call, slots, output, extreme>>
      BY <2>8 DEF NoCallsigns, Fails, arguments, time
    <3>2. TypeOK' /\ pc' \notin {"load", "start", "pick", "print", "done", "format"}
      BY <2>1, <3>1 DEF TypeOK, Ends
    <3> QED
      BY <3>1, <3>2 DEF ClockInv
  <2>9. CASE UNCHANGED vars
    BY <2>9 DEF vars, ClockInv, TypeOK, Valid
  <2>10. Retry \/ ReadAgain => UNCHANGED vars
    BY DEF Retry, ReadAgain
  <2> QED
    BY <2>2, <2>3, <2>4, <2>5, <2>6, <2>7, <2>8, <2>9, <2>10 DEF Next, Step
<1> QED
  BY <1>1, <1>2, PTL DEF Spec

\* The variables keep their types, for any calendar and any division of the day.
THEOREM TypeCorrect == Spec => []TypeOK
<1>1. ClockInv => TypeOK
  BY DEF ClockInv
<1> QED
  BY <1>1, ClockInvariance, PTL

\* The smallest integer has no absolute value, and its remainder is negative.
LEMMA ReducedSmallest ==
  ASSUME NEW n \in Nat \ {0}
  PROVE  Reduced(-Half, n) = -(Half % n) /\ Half % n \in 0 .. n - 1
<1>1. Half \in Nat \ {0}
  BY Positive
<1>2. ~(-Half >= 0) /\ -(-Half) = Half
  BY <1>1
<1>3. Half % n \in 0 .. n - 1
  BY <1>1
<1> QED
  BY <1>2, <1>3 DEF Reduced, Abs, Remainder

\* If a random integer was the smallest the first tweak is refused, for the
\* field made of it.
Refused ==
  extreme =>
    /\ bin = 0 /\ call = 0 /\ output = {}
    /\ pc # "done"
    /\ pc \in {"pick", "print"} => day < 1 \/ coarse_time < 0 \/ frequency < 1

\* The first fields: one that was made of the smallest integer is out of its range.
LEMMA StartTimeRefused ==
  ASSUME ClockInv, StartTime
  PROVE  Refused'
<1>1. PICK m \in Random, d \in Random, c \in Random, f \in Random :
        /\ extreme' = (-Half \in {m, d, c, f})
        /\ month' = Reduced(m, Len(Days)) + 1
        /\ \/ /\ month' \in DOMAIN Days
              /\ day' = Reduced(d, Days[month']) + 1
              /\ coarse_time' = Reduced(c, BinsPerDay) * MinutesPerBin
              /\ frequency' = Reduced(f, Channels) + LowestChannel
              /\ pc' = "pick"
           \/ /\ month' \notin DOMAIN Days
              /\ pc' = "undefined"
  BY DEF StartTime
<1>2. pc = "start" /\ UNCHANGED <<bin, call, output>>
  BY DEF StartTime
<1>3. bin = 0 /\ call = 0 /\ output = {}
  BY <1>2 DEF ClockInv
<1>4. output' = {}
  BY <1>2, <1>3
<1>5. ASSUME extreme', pc' \in {"pick", "print"}
      PROVE  day' < 1 \/ coarse_time' < 0 \/ frequency' < 1
  <2>1. /\ month' \in DOMAIN Days
        /\ day' = Reduced(d, Days[month']) + 1
        /\ coarse_time' = Reduced(c, BinsPerDay) * MinutesPerBin
        /\ frequency' = Reduced(f, Channels) + LowestChannel
    BY <1>1, <1>5
  <2>2. /\ Len(Days) \in Nat \ {0} /\ BinsPerDay \in Nat \ {0} /\ MinutesPerBin \in Nat \ {0}
        /\ Channels \in Nat \ {0} /\ LowestChannel \in Nat \ {0}
        /\ DOMAIN Days = 1 .. Len(Days) /\ \A n \in 1 .. Len(Days) : Days[n] \in Nat \ {0}
    BY Positive
  <2>3. Days[month'] \in Nat \ {0}
    BY <2>1, <2>2
  <2>4. m # -Half
    <3>1. SUFFICES ASSUME m = -Half
                   PROVE  FALSE
      OBVIOUS
    <3>2. Reduced(m, Len(Days)) = -(Half % Len(Days)) /\ Half % Len(Days) \in 0 .. Len(Days) - 1
      BY <2>2, <3>1, ReducedSmallest
    <3>3. Half % Len(Days) # 0
      BY SmallestAssumption
    <3> HIDE DEF Reduced
    <3>4. ~(month' >= 1)
      BY <1>1, <2>2, <3>2, <3>3
    <3> QED
      BY <2>1, <2>2, <3>4
  <2>5. CASE d = -Half
    <3>1. /\ Reduced(d, Days[month']) = -(Half % Days[month'])
          /\ Half % Days[month'] \in 0 .. Days[month'] - 1
      BY <2>3, <2>5, ReducedSmallest
    <3>2. Half % Days[month'] # 0
      BY <2>1, SmallestAssumption
    <3> QED
      BY <2>1, <2>3, <3>1, <3>2
  <2>6. CASE c = -Half
    <3>1. Reduced(c, BinsPerDay) = -(Half % BinsPerDay) /\ Half % BinsPerDay \in 0 .. BinsPerDay - 1
      BY <2>2, <2>6, ReducedSmallest
    <3>2. Half % BinsPerDay # 0
      BY SmallestAssumption
    <3>3. Reduced(c, BinsPerDay) \in Int /\ Reduced(c, BinsPerDay) < 0
      BY <2>2, <3>1, <3>2
    <3>4. \A x \in Int : \A y \in Nat \ {0} : x < 0 => x * y < 0
      OBVIOUS
    <3> QED
      BY <2>1, <2>2, <3>3, <3>4
  <2>7. CASE f = -Half
    <3>1. Reduced(f, Channels) = -(Half % Channels) /\ Half % Channels \in 0 .. Channels - 1
      BY <2>2, <2>7, ReducedSmallest
    <3>2. Half % Channels >= LowestChannel
      BY SmallestAssumption
    <3> QED
      BY <2>1, <2>2, <3>1, <3>2
  <2> QED
    BY <1>1, <1>5, <2>4, <2>5, <2>6, <2>7
<1> QED
  BY <1>1, <1>2, <1>3, <1>4, <1>5 DEF Refused

\* The minute of the first call does not make a negative time positive.
LEMMA PickSlotRefused ==
  ASSUME ClockInv, Refused, PickSlot
  PROVE  Refused'
<1>1. PICK slot \in Slots :
        coarse_time' = coarse_time - (coarse_time % MinutesPerBin) + slot \div SlotsPerMinute
  BY DEF PickSlot
<1>2. /\ pc = "pick" /\ pc' = "print"
      /\ UNCHANGED <<frequency, day, bin, call, output, extreme>>
  BY DEF PickSlot
<1>3. coarse_time \in Int /\ MinutesPerBin \in Nat \ {0}
  BY Positive DEF ClockInv, TypeOK
<1>4. coarse_time < 0 => coarse_time' < 0
  <2> DEFINE q == coarse_time \div MinutesPerBin
             t == slot \div SlotsPerMinute
  <2>1. PICK r \in 0 .. MinutesPerBin - 1 : q \in Int /\ coarse_time = MinutesPerBin * q + r
    BY <1>3, Division
  <2>2. coarse_time' = MinutesPerBin * q + t
    BY <1>1, <1>3, ClockParts
  <2>3. t \in 0 .. MinutesPerBin - 1
    BY SlotParts
  <2> HIDE DEF q, t
  <2>4. \A y \in Int : y >= 0 => MinutesPerBin * y >= 0
    BY <1>3
  <2>5. \A y \in Int : y <= -1 => MinutesPerBin * y <= -MinutesPerBin
    BY <1>3
  <2>6. MinutesPerBin * q \in Int
    BY <1>3, <2>1
  <2> QED
    BY <1>3, <2>1, <2>2, <2>3, <2>4, <2>5, <2>6
<1> QED
  BY <1>2, <1>4 DEF Refused

\* The first tweak is refused if a random integer was the smallest.
THEOREM SmallestRefused == Spec => []Refused
<1>1. Init => Refused
  BY DEF Init, Refused
<1>2. ClockInv /\ Refused /\ [Next]_vars => Refused'
  <2> SUFFICES ASSUME ClockInv, Refused, [Next]_vars
               PROVE  Refused'
    OBVIOUS
  <2>1. CASE StartTime
    BY <2>1, StartTimeRefused
  <2>2. CASE PickSlot
    BY <2>2, PickSlotRefused
  <2>3. CASE PrintCall
    <3>1. ~extreme /\ extreme' = extreme
      BY <2>3 DEF PrintCall, Refused, Compliant
    <3> QED
      BY <3>1 DEF Refused
  <2>4. CASE NextBin
    <3>1. call # 0 /\ pc = "pick" /\ extreme' = extreme
      BY <2>4 DEF NextBin, ClockInv
    <3>2. ~extreme
      BY <3>1 DEF Refused
    <3> QED
      BY <3>1, <3>2 DEF Refused
  <2>5. CASE LoadCallsigns \/ FormatError \/ NoCallsigns \/ Fails
    <3>1. /\ pc' \notin {"pick", "print", "done"}
          /\ UNCHANGED <<bin, call, output, extreme>>
      BY <2>5 DEF LoadCallsigns, FormatError, NoCallsigns, Fails
    <3> QED
      BY <3>1 DEF Refused
  <2>6. CASE Retry \/ ReadAgain \/ UNCHANGED vars
    BY <2>6 DEF Retry, ReadAgain, vars, Refused
  <2> QED
    BY <2>1, <2>2, <2>3, <2>4, <2>5, <2>6 DEF Next, Step
<1> QED
  BY <1>1, <1>2, ClockInvariance, PTL DEF Spec

\* Every tweak made is of the calendar, and create_tweak refuses none, unless a
\* random integer has no absolute value; then nothing is printed.
THEOREM TweaksAreValid == Spec => []ClockIsValid
<1>1. ClockInv /\ Refused => ClockIsValid
  BY Positive DEF ClockInv, ClockIsValid, Valid, Compliant, Refused
<1> QED
  BY <1>1, ClockInvariance, SmallestRefused, PTL

\* The clock's number of the bin is one of the year.
LEMMA BinInYear ==
  ASSUME Valid
  PROVE  /\ DateOK(month, day, coarse_time \div MinutesPerBin)
         /\ BinOfYear = IndexOf(month, day, coarse_time \div MinutesPerBin)
         /\ BinOfYear \in 0 .. Year - 1 /\ Year \in Nat
<1>1. DateOK(month, day, coarse_time \div MinutesPerBin)
  BY ClockParts DEF Valid, DateOK
<1>2. BinOfYear = IndexOf(month, day, coarse_time \div MinutesPerBin)
  BY DEF BinOfYear, IndexOf
<1> QED
  BY <1>1, <1>2, IndexRange

\* A step to the next bin goes to the next in the calendar, the first of the
\* year after the last.
THEOREM BinsFollow == Spec => BinsAreConsecutive
<1>1. ClockInv /\ [Next]_vars =>
        [bin' = bin + 1 /\ ~extreme =>
           BinOfYear' = (BinOfYear + 1) % (DaysBefore[Len(Days) + 1] * BinsPerDay)]_vars
  <2> SUFFICES ASSUME ClockInv, [Next]_vars, bin' = bin + 1
               PROVE  BinOfYear' = (BinOfYear + 1) % Year
    BY Zenon DEF Year
  <2>1. bin # bin + 1
    BY DEF ClockInv, TypeOK
  <2>2. NextBin
    BY <2>1 DEF Next, Step, ReadAgain, Retry, Fails, LoadCallsigns, StartTime, PickSlot, PrintCall,
       FormatError, NoCallsigns, vars
  <2>3. Valid /\ (BinOfYear' = BinOfYear + 1 \/ (BinOfYear + 1 = Year /\ BinOfYear' = 0))
    BY <2>2, NextBinAdvances
  <2>4. Valid'
    BY <2>2, NextBinAdvances
  <2>5. BinOfYear \in 0 .. Year - 1 /\ Year \in Nat
    BY <2>3, BinInYear
  <2>6. BinOfYear' \in 0 .. Year - 1
    <3>1. DateOK(month', day', coarse_time' \div MinutesPerBin)
      BY <2>4, ClockParts DEF Valid, DateOK
    <3> QED
      BY <3>1, IndexRange DEF BinOfYear, IndexOf
  <2> QED
    BY <2>3, <2>5, <2>6
<1> QED
  BY <1>1, ClockInvariance, PTL DEF Spec, BinsAreConsecutive

-----------------------------------------------------------------------------
(* The lines.                                                                *)

\* A slot's place in the bin.
LEMMA SlotOfTime ==
  ASSUME NEW q \in Int, NEW slot \in Slots
  PROVE  SlotOf(MinutesPerBin * q + slot \div SlotsPerMinute, slot % SlotsPerMinute) = slot
<1>1. slot \div SlotsPerMinute \in 0 .. MinutesPerBin - 1
  BY SlotParts
<1>2. (MinutesPerBin * q + slot \div SlotsPerMinute) % MinutesPerBin = slot \div SlotsPerMinute
  BY <1>1, ClockSet
<1> QED
  BY <1>2, SlotParts DEF SlotOf

\* Steps that print nothing and leave the bin alone keep the lines.
LEMMA LinesKept ==
  ASSUME LinesInv, UNCHANGED <<num_bins, num_calls, bin, call, slots, output>>,
         output # {} => BinOfYear' = BinOfYear,
         pc' = "print" => pc = "print" /\ UNCHANGED <<coarse_time, fine_time>>
  PROVE  LinesInv'
<1>1. /\ output' = output /\ bin' = bin /\ call' = call /\ slots' = slots
      /\ num_bins' = num_bins /\ num_calls' = num_calls
  OBVIOUS
<1>2. ASSUME NEW l \in output
      PROVE  /\ l \in [bin : 0 .. bin, month : Nat, day : Nat, coarse_time : Nat,
                       fine_time : Nat, word : {0, 1}]
             /\ l.bin < num_bins
             /\ DateOK(l.month, l.day, l.coarse_time \div MinutesPerBin)
             /\ [l EXCEPT !.word = 1 - l.word] \in output
             /\ l.bin = bin => SlotOf(l.coarse_time, l.fine_time) \in slots
             /\ IndexOfLine(l) + (bin - l.bin) \in {BinOfYear', BinOfYear' + Year}
  BY DEF LinesInv
<1>3. pc' = "print" =>
        /\ SlotOf(coarse_time', fine_time') \in slots
        /\ \A l \in output :
             l.bin = bin => SlotOf(l.coarse_time, l.fine_time) # SlotOf(coarse_time', fine_time')
  BY DEF LinesInv
<1>4. IsFiniteSet(output) /\ Cardinality(output) = 2 * (bin * num_calls + call)
  BY DEF LinesInv
<1> QED
  BY <1>1, <1>2, <1>3, <1>4 DEF LinesInv, IndexOfLine

\* Before the first call there is no line.
LEMMA NoLines ==
  ASSUME LinesInv, TypeOK, bin = 0, call = 0
  PROVE  output = {}
<1>1. num_calls \in Nat /\ 2 * (0 * num_calls + 0) = 0
  BY DEF TypeOK
<1> QED
  BY <1>1, FS_EmptySet DEF LinesInv

\* A slot is taken: the call's is not one of the lines'.
LEMMA PickSlotKeepsLines ==
  ASSUME ClockInv, LinesInv, PickSlot
  PROVE  LinesInv'
<1>1. PICK slot \in Slots :
        /\ Fits(slot)
        /\ slots' = slots \cup {slot}
        /\ coarse_time' = coarse_time - (coarse_time % MinutesPerBin) + slot \div SlotsPerMinute
        /\ fine_time' = slot % SlotsPerMinute
  BY DEF PickSlot
<1>2. /\ pc = "pick"
      /\ UNCHANGED <<num_bins, num_calls, month, day, bin, call, output>>
  BY DEF PickSlot, arguments
<1>3. TypeOK /\ coarse_time \in Int
  BY DEF ClockInv, TypeOK
<1> DEFINE q == coarse_time \div MinutesPerBin
<1>4. q \in Int /\ coarse_time - (coarse_time % MinutesPerBin) = MinutesPerBin * q
  BY <1>3, ClockParts
<1>5. slot \div SlotsPerMinute \in 0 .. MinutesPerBin - 1
  BY SlotParts
<1>6. /\ coarse_time' = MinutesPerBin * q + slot \div SlotsPerMinute
      /\ coarse_time' \div MinutesPerBin = q
  BY <1>1, <1>4, <1>5, ClockSet
<1>7. BinOfYear' = BinOfYear
  BY <1>2, <1>6 DEF BinOfYear
<1>8. SlotOf(coarse_time', fine_time') = slot
  BY <1>1, <1>4, <1>6, SlotOfTime
<1> HIDE DEF q
<1>9. ASSUME NEW l \in output
      PROVE  /\ l \in [bin : 0 .. bin, month : Nat, day : Nat, coarse_time : Nat,
                       fine_time : Nat, word : {0, 1}]
             /\ l.bin < num_bins
             /\ DateOK(l.month, l.day, l.coarse_time \div MinutesPerBin)
             /\ [l EXCEPT !.word = 1 - l.word] \in output
             /\ l.bin = bin => SlotOf(l.coarse_time, l.fine_time) \in slots
             /\ IndexOfLine(l) + (bin - l.bin) \in {BinOfYear, BinOfYear + Year}
  BY DEF LinesInv
<1>10. slot \in slots' /\ slot \notin slots /\ slots \subseteq slots'
  BY <1>1 DEF Fits
<1>11. IsFiniteSet(output) /\ Cardinality(output) = 2 * (bin * num_calls + call)
  BY DEF LinesInv
<1> QED
  BY <1>2, <1>7, <1>8, <1>9, <1>10, <1>11 DEF LinesInv, IndexOfLine

\* Two lines are printed that were not there.
LEMMA PrintCallKeepsLines ==
  ASSUME ClockInv, LinesInv, PrintCall
  PROVE  LinesInv'
<1>1. /\ pc = "print" /\ Compliant /\ call' = call + 1 /\ pc' = "pick"
      /\ output' = output \cup {Line(0), Line(1)}
      /\ UNCHANGED <<num_bins, num_calls, month, day, coarse_time, fine_time, bin, slots>>
  BY DEF PrintCall, arguments, time
<1>2. /\ TypeOK /\ bin < num_bins /\ call < num_calls
      /\ bin \in Nat /\ call \in Nat /\ num_calls \in Nat
  BY <1>1 DEF ClockInv, TypeOK
<1>3. Valid
  BY PrintCallKeepsClock
<1>4. /\ DateOK(month, day, coarse_time \div MinutesPerBin)
      /\ BinOfYear = IndexOf(month, day, coarse_time \div MinutesPerBin)
      /\ BinOfYear \in 0 .. Year - 1 /\ Year \in Nat
  BY <1>3, BinInYear
<1>5. month \in Nat /\ day \in Nat /\ coarse_time \in Nat /\ fine_time \in Nat
  <2>1. /\ DOMAIN Days = 1 .. Len(Days) /\ Len(Days) \in Nat /\ DayMinutes \in Nat
        /\ \A m \in 1 .. Len(Days) : Days[m] \in Nat
        /\ Seconds \in Nat
    BY Positive
  <2>2. /\ month \in DOMAIN Days /\ day \in 1 .. Days[month]
        /\ coarse_time \in 0 .. DayMinutes - 1 /\ fine_time \in 0 .. Seconds - 1
    BY <1>1 DEF Compliant
  <2> QED
    BY <2>1, <2>2
<1>6. /\ BinOfYear' = BinOfYear
      /\ \A w : Line(w)' = Line(w)
  BY <1>1 DEF BinOfYear, Line
<1>7. ASSUME NEW l \in output
      PROVE  /\ l \in [bin : 0 .. bin, month : Nat, day : Nat, coarse_time : Nat,
                       fine_time : Nat, word : {0, 1}]
             /\ l.bin < num_bins
             /\ DateOK(l.month, l.day, l.coarse_time \div MinutesPerBin)
             /\ [l EXCEPT !.word = 1 - l.word] \in output
             /\ l.bin = bin => SlotOf(l.coarse_time, l.fine_time) \in slots
             /\ IndexOfLine(l) + (bin - l.bin) \in {BinOfYear, BinOfYear + Year}
  BY DEF LinesInv
<1>8. /\ SlotOf(coarse_time, fine_time) \in slots
      /\ \A l \in output :
           l.bin = bin => SlotOf(l.coarse_time, l.fine_time) # SlotOf(coarse_time, fine_time)
  BY <1>1 DEF LinesInv
<1>9. ASSUME NEW w \in {0, 1}
      PROVE  /\ Line(w) \in [bin : 0 .. bin, month : Nat, day : Nat, coarse_time : Nat,
                             fine_time : Nat, word : {0, 1}]
             /\ Line(w).bin = bin /\ Line(w).month = month /\ Line(w).day = day
             /\ Line(w).coarse_time = coarse_time /\ Line(w).fine_time = fine_time
             /\ Line(w).word = w
             /\ [Line(w) EXCEPT !.word = 1 - Line(w).word] = Line(1 - w)
             /\ 1 - w \in {0, 1}
  <2>1. bin \in 0 .. bin
    BY <1>2
  <2> QED
    BY <1>5, <2>1 DEF Line
<1>10. ASSUME NEW l \in output'
       PROVE  /\ l \in [bin : 0 .. bin, month : Nat, day : Nat, coarse_time : Nat,
                        fine_time : Nat, word : {0, 1}]
              /\ l.bin < num_bins
              /\ DateOK(l.month, l.day, l.coarse_time \div MinutesPerBin)
              /\ [l EXCEPT !.word = 1 - l.word] \in output'
              /\ l.bin = bin => SlotOf(l.coarse_time, l.fine_time) \in slots
              /\ IndexOfLine(l) + (bin - l.bin) \in {BinOfYear, BinOfYear + Year}
  <2>1. CASE l \in output
    BY <1>1, <1>7, <2>1
  <2>2. ASSUME NEW w \in {0, 1}, l = Line(w)
        PROVE  /\ l \in [bin : 0 .. bin, month : Nat, day : Nat, coarse_time : Nat,
                         fine_time : Nat, word : {0, 1}]
               /\ l.bin < num_bins
               /\ DateOK(l.month, l.day, l.coarse_time \div MinutesPerBin)
               /\ [l EXCEPT !.word = 1 - l.word] \in output'
               /\ l.bin = bin => SlotOf(l.coarse_time, l.fine_time) \in slots
               /\ IndexOfLine(l) + (bin - l.bin) \in {BinOfYear, BinOfYear + Year}
    <3>1. IndexOfLine(l) = BinOfYear
      BY <1>4, <1>9, <2>2 DEF IndexOfLine
    <3>2. l.bin = bin /\ BinOfYear + (bin - bin) = BinOfYear
      BY <1>2, <1>4, <1>9, <2>2
    <3>3. [l EXCEPT !.word = 1 - l.word] \in output'
      BY <1>1, <1>9, <2>2
    <3> QED
      BY <1>2, <1>4, <1>8, <1>9, <2>2, <3>1, <3>2, <3>3
  <2> QED
    BY <1>1, <2>1, <2>2
<1>11. IsFiniteSet(output') /\ Cardinality(output') = 2 * (bin * num_calls + (call + 1))
  <2>1. \A w \in {0, 1} : Line(w) \notin output
    <3>1. ASSUME NEW w \in {0, 1}, Line(w) \in output
          PROVE  FALSE
      BY <1>8, <1>9, <3>1
    <3> QED
      BY <3>1
  <2>2. Line(0) # Line(1)
    BY <1>9
  <2>3. IsFiniteSet(output) /\ Cardinality(output) = 2 * (bin * num_calls + call)
    BY DEF LinesInv
  <2>4. /\ IsFiniteSet(output \cup {Line(0)})
        /\ Cardinality(output \cup {Line(0)}) = Cardinality(output) + 1
    BY <2>1, <2>3, FS_AddElement
  <2>5. Line(1) \notin output \cup {Line(0)}
    BY <2>1, <2>2
  <2>6. /\ IsFiniteSet((output \cup {Line(0)}) \cup {Line(1)})
        /\ Cardinality((output \cup {Line(0)}) \cup {Line(1)}) = (Cardinality(output) + 1) + 1
    BY <2>4, <2>5, FS_AddElement
  <2>7. output' = (output \cup {Line(0)}) \cup {Line(1)}
    BY <1>1
  <2>8. (2 * (bin * num_calls + call) + 1) + 1 = 2 * (bin * num_calls + (call + 1))
    BY <1>2
  <2> QED
    BY <2>3, <2>6, <2>7, <2>8
<1> QED
  BY <1>1, <1>6, <1>10, <1>11 DEF LinesInv, IndexOfLine

\* A bin more behind every line.
LEMMA NextBinKeepsLines ==
  ASSUME WithinAYear, ClockInv, LinesInv, NextBin
  PROVE  LinesInv'
<1>1. /\ pc = "pick" /\ call = num_calls
      /\ bin' = bin + 1 /\ call' = 0 /\ slots' = {}
      /\ pc' \in {"pick", "done"}
      /\ UNCHANGED <<num_bins, num_calls, output>>
  BY DEF NextBin, FreshSlots, arguments
<1>2. /\ TypeOK /\ bin < num_bins /\ num_bins \in 1 .. MaxBins
      /\ bin \in Nat /\ num_calls \in Nat /\ MaxBins \in Nat
  BY <1>1, Positive DEF ClockInv, TypeOK
<1>3. /\ Valid
      /\ BinOfYear' = BinOfYear + 1 \/ (BinOfYear + 1 = Year /\ BinOfYear' = 0)
  BY NextBinAdvances
<1>4. BinOfYear \in 0 .. Year - 1 /\ Year \in Nat
  BY <1>3, BinInYear
<1>5. num_bins <= Year
  BY <1>2, <1>4 DEF WithinAYear
<1>6. ASSUME NEW l \in output
      PROVE  /\ l \in [bin : 0 .. bin, month : Nat, day : Nat, coarse_time : Nat,
                       fine_time : Nat, word : {0, 1}]
             /\ l.bin < num_bins
             /\ DateOK(l.month, l.day, l.coarse_time \div MinutesPerBin)
             /\ [l EXCEPT !.word = 1 - l.word] \in output
             /\ IndexOfLine(l) + (bin - l.bin) \in {BinOfYear, BinOfYear + Year}
  BY DEF LinesInv
<1>7. ASSUME NEW l \in output
      PROVE  /\ l \in [bin : 0 .. bin + 1, month : Nat, day : Nat, coarse_time : Nat,
                       fine_time : Nat, word : {0, 1}]
             /\ l.bin # bin + 1
             /\ IndexOfLine(l) + ((bin + 1) - l.bin) \in {BinOfYear', BinOfYear' + Year}
  <2>1. l.bin \in 0 .. bin
    BY <1>6
  <2>2. 0 .. bin \subseteq 0 .. bin + 1
    BY <1>2
  <2>3. IndexOfLine(l) \in 0 .. Year - 1
    BY <1>6, IndexRange DEF IndexOfLine
  <2>4. IndexOfLine(l) + (bin - l.bin) \in {BinOfYear, BinOfYear + Year}
    BY <1>6
  <2>5. IndexOfLine(l) + ((bin + 1) - l.bin) \in {BinOfYear', BinOfYear' + Year}
    <3> DEFINE x == IndexOfLine(l)
               a == l.bin
               y == BinOfYear
               z == BinOfYear'
    <3>1. /\ x \in 0 .. Year - 1 /\ a \in 0 .. bin /\ y \in 0 .. Year - 1 /\ Year \in Nat
          /\ bin \in Nat /\ bin < Year
          /\ x + (bin - a) = y \/ x + (bin - a) = y + Year
          /\ z = y + 1 \/ (y + 1 = Year /\ z = 0)
      BY <1>2, <1>3, <1>4, <1>5, <2>1, <2>3, <2>4
    <3> HIDE DEF x, a, y, z
    <3>2. x + ((bin + 1) - a) = z \/ x + ((bin + 1) - a) = z + Year
      BY <3>1
    <3> QED
      BY <3>2 DEF x, a, z
  <2>6. l.bin # bin + 1
    BY <1>2, <2>1
  <2> QED
    BY <1>6, <2>2, <2>5, <2>6
<1>8. IsFiniteSet(output) /\ Cardinality(output) = 2 * ((bin + 1) * num_calls + 0)
  <2>1. IsFiniteSet(output) /\ Cardinality(output) = 2 * (bin * num_calls + num_calls)
    BY <1>1 DEF LinesInv
  <2>2. bin * num_calls + num_calls = (bin + 1) * num_calls + 0
    BY <1>2
  <2> QED
    BY <2>1, <2>2
<1> QED
  BY <1>1, <1>6, <1>7, <1>8 DEF LinesInv, IndexOfLine

\* The lines' invariant, for any calendar whose year has as many bins as the
\* user may ask for.
THEOREM LinesInvariance == WithinAYear => (Spec => []LinesInv)
<1> SUFFICES ASSUME WithinAYear
             PROVE  Spec => []LinesInv
  OBVIOUS
<1>1. Init => LinesInv
  <2> SUFFICES ASSUME Init
               PROVE  LinesInv
    OBVIOUS
  <2>1. output = {} /\ bin = 0 /\ call = 0 /\ pc = "load" /\ num_calls \in Int
    BY DEF Init
  <2>2. 2 * (0 * num_calls + 0) = 0
    BY <2>1
  <2> QED
    BY <2>1, <2>2, FS_EmptySet DEF LinesInv
<1>2. ClockInv /\ LinesInv /\ [Next]_vars => LinesInv'
  <2> SUFFICES ASSUME ClockInv, LinesInv, [Next]_vars
               PROVE  LinesInv'
    OBVIOUS
  <2>1. CASE PickSlot
    BY <2>1, PickSlotKeepsLines
  <2>2. CASE PrintCall
    BY <2>2, PrintCallKeepsLines
  <2>3. CASE NextBin
    BY <2>3, NextBinKeepsLines
  <2>4. CASE StartTime
    <3>1. /\ pc = "start" /\ pc' \in {"pick", "undefined"}
          /\ UNCHANGED <<num_bins, num_calls, bin, call, slots, output>>
      BY <2>4 DEF StartTime, arguments
    <3>2. output = {}
      BY <3>1, NoLines DEF ClockInv
    <3> QED
      BY <3>1, <3>2, LinesKept
  <2>5. CASE LoadCallsigns \/ FormatError \/ NoCallsigns \/ Fails
    <3>1. /\ pc' # "print"
          /\ UNCHANGED <<num_bins, num_calls, month, day, coarse_time, bin, call, slots, output>>
      BY <2>5 DEF LoadCallsigns, FormatError, NoCallsigns, Fails, arguments, time
    <3>2. BinOfYear' = BinOfYear
      BY <3>1 DEF BinOfYear
    <3> QED
      BY <3>1, <3>2, LinesKept
  <2>6. CASE Retry \/ ReadAgain \/ UNCHANGED vars
    <3>1. /\ pc' = pc /\ coarse_time' = coarse_time /\ fine_time' = fine_time
          /\ UNCHANGED <<num_bins, num_calls, month, day, bin, call, slots, output>>
      BY <2>6 DEF Retry, ReadAgain, vars
    <3>2. BinOfYear' = BinOfYear
      BY <3>1 DEF BinOfYear
    <3> QED
      BY <3>1, <3>2, LinesKept
  <2> QED
    BY <2>1, <2>2, <2>3, <2>4, <2>5, <2>6 DEF Next, Step
<1> QED
  BY <1>1, <1>2, ClockInvariance, PTL DEF Spec

\* The upper bits of a line's tweak number its bin, and a line has one number.
LEMMA HighIsBin ==
  ASSUME WithinAYear, TypeOK, LinesInv, NEW l \in output, NEW k \in output
  PROVE  High(l) = High(k) <=> l.bin = k.bin
<1> DEFINE x == IndexOfLine(l)
           y == IndexOfLine(k)
           a == l.bin
           b == k.bin
           z == BinOfYear
<1>1. /\ DateOK(l.month, l.day, l.coarse_time \div MinutesPerBin)
      /\ DateOK(k.month, k.day, k.coarse_time \div MinutesPerBin)
  BY DEF LinesInv
<1>2. x \in 0 .. Year - 1 /\ y \in 0 .. Year - 1 /\ Year \in Nat
  BY <1>1, IndexRange DEF IndexOfLine
<1>3. /\ a \in 0 .. bin /\ b \in 0 .. bin /\ a < num_bins /\ b < num_bins
      /\ x + (bin - a) = z \/ x + (bin - a) = z + Year
      /\ y + (bin - b) = z \/ y + (bin - b) = z + Year
  BY DEF LinesInv
<1>4. bin \in Nat /\ num_bins \in Nat /\ num_bins <= Year
  <2>1. num_bins \in 1 .. MaxBins /\ bin \in 0 .. num_bins
    BY DEF TypeOK
  <2>2. MaxBins \in Nat /\ MaxBins <= Year
    BY Positive DEF WithinAYear
  <2> HIDE DEF x, y, a, b, z
  <2> QED
    BY <1>2, <2>1, <2>2
<1>5. High(l) = High(k) => x = y
  BY DEF High, IndexOfLine
<1>6. x = y => High(l) = High(k)
  BY <1>1, IndexInjective DEF High, IndexOfLine
<1> HIDE DEF x, y, a, b, z
<1>7. x - a + bin = y - b + bin \/ x - a = y - b + Year \/ y - b = x - a + Year
  BY <1>2, <1>3, <1>4
<1>8. x = y <=> a = b
  BY <1>2, <1>3, <1>4, <1>7
<1> QED
  BY <1>5, <1>6, <1>8 DEF a, b

\* Every call leaves two lines of its own, and lines agree in the upper bits of
\* their tweaks iff they are of one bin: the pairs made of them are the pairs
\* of calls of a bin.
THEOREM CallsSeparate == WithinAYear => (Spec => []CallsAreSeparate)
<1> SUFFICES ASSUME WithinAYear
             PROVE  Spec => []CallsAreSeparate
  OBVIOUS
<1>1. ClockInv /\ LinesInv => CallsAreSeparate
  <2> SUFFICES ASSUME TypeOK, LinesInv
               PROVE  CallsAreSeparate
    BY DEF ClockInv
  <2>1. \A l, k \in output : High(l) = High(k) <=> l.bin = k.bin
    BY HighIsBin
  <2>2. \A l \in output :
          /\ [l EXCEPT !.word = 1 - l.word] \in output
          /\ l \in [bin : 0 .. bin, month : Nat, day : Nat, coarse_time : Nat,
                    fine_time : Nat, word : {0, 1}]
    BY DEF LinesInv
  <2> DEFINE tweaks == {[l EXCEPT !.bin = 0] : l \in output}
             f == [l \in output |-> [l EXCEPT !.bin = 0]]
  <2>3. IsFiniteSet(output) /\ Cardinality(output) = 2 * (bin * num_calls + call)
    BY DEF LinesInv
  <2>4. f \in Surjection(output, tweaks)
    BY DEF Surjection
  <2>5. f \in Injection(output, tweaks)
    <3>1. ASSUME NEW l \in output, NEW k \in output,
                 [l EXCEPT !.bin = 0] = [k EXCEPT !.bin = 0]
          PROVE  l = k
      <4>1. /\ l.month = k.month /\ l.day = k.day /\ l.coarse_time = k.coarse_time
            /\ l.fine_time = k.fine_time /\ l.word = k.word
        BY <2>2, <3>1
      <4>2. l.bin = k.bin
        BY <2>1, <4>1 DEF High
      <4>3. \A r \in output :
              r = [bin |-> r.bin, month |-> r.month, day |-> r.day, coarse_time |-> r.coarse_time,
                   fine_time |-> r.fine_time, word |-> r.word]
        <5> HIDE DEF f, tweaks
        <5>1. ASSUME NEW r \in [bin : 0 .. bin, month : Nat, day : Nat, coarse_time : Nat,
                                fine_time : Nat, word : {0, 1}]
              PROVE  r = [bin |-> r.bin, month |-> r.month, day |-> r.day,
                          coarse_time |-> r.coarse_time, fine_time |-> r.fine_time,
                          word |-> r.word]
          OBVIOUS
        <5> QED
          BY <2>2, <5>1
      <4> QED
        BY <4>1, <4>2, <4>3
    <3>2. \A l, k \in output : f[l] = f[k] => l = k
      BY <3>1
    <3>3. f \in [output -> tweaks]
      OBVIOUS
    <3> HIDE DEF f, tweaks
    <3> QED
      BY <3>2, <3>3 DEF Injection, IsInjective
  <2> HIDE DEF f, tweaks
  <2>6. Cardinality(tweaks) = Cardinality(output)
    BY <2>3, <2>4, <2>5, FS_Surjection
  <2> QED
    BY <2>1, <2>2, <2>3, <2>6 DEF CallsAreSeparate, tweaks
<1> QED
  BY <1>1, ClockInvariance, LinesInvariance, PTL
=============================================================================
